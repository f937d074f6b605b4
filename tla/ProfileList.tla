----------------------------- MODULE ProfileList -----------------------------
(***************************************************************************)
(* The list of IP profiles in the interface tab                             *)
(* (app/ui/tabs/interface_tab.py, AppState.save_ip_profiles).  The widget    *)
(* shows names; its current row is used as an index into                    *)
(* AppState.ip_profiles.  Editor and question are modal boxes with a nested *)
(* event loop: beneath them the refresh that was begun with the program may *)
(* deliver its adapters, and that restores the selection of the last session. *)
(***************************************************************************)
EXTENDS Sequences, Integers

CONSTANTS Names,         \* names of profiles
          SavedProfile,  \* the one selected in the last session
          MaxProfiles,   \* length of the list (bound)
          None

VARIABLES
    ip_profiles, \* AppState.ip_profiles, by name
    rows,        \* names in the list widget
    current,     \* its current row, 0 for none
    box,         \* the modal box that is open
    pending      \* _pending_ui_state is still to be applied

profiles == <<ip_profiles, rows, current>>
vars     == <<profiles, box, pending>>

NoBox == [kind |-> "none", name |-> None]

Init ==
    /\ ip_profiles \in [1..MaxProfiles -> Names]
    /\ \A i, k \in 1..MaxProfiles : ip_profiles[i] = ip_profiles[k] => i = k
    /\ rows = ip_profiles
    /\ current \in 1..MaxProfiles
    /\ box = NoBox
    /\ pending \in BOOLEAN

\* _select_profile_by_name: the first of that name, else the row stays.
RowOf(name, list, otherwise) ==
    LET named == {i \in 1..Len(list) : list[i] = name}
    IN IF named = {} THEN otherwise ELSE CHOOSE i \in named : \A k \in named : i <= k

\* _selected_profile: the row of the widget taken as an index of ip_profiles.
HasProfile == current \in 1..Len(ip_profiles)
Selected == ip_profiles[current]

Select(i) ==
    /\ box = NoBox /\ i \in 1..Len(rows)
    /\ current' = i
    /\ UNCHANGED <<ip_profiles, rows, box, pending>>

\* _reload_lists on config_reloaded: the name that the old row has in the new list
\* stays selected, else the first.
RowAfterReload(list) ==
    IF current \in 1..Len(list) THEN RowOf(list[current], list, 0)
    ELSE IF list = <<>> THEN 0 ELSE 1

\* save_ip_profiles and the selection the handler makes afterwards.  When the file
\* cannot be written the list has changed in memory and the widget has not.
Save(list, name) ==
    /\ ip_profiles' = list
    /\ \/ /\ rows' = list
          /\ current' = RowOf(name, list, RowAfterReload(list))
       \/ UNCHANGED <<rows, current>>
    /\ box' = NoBox
    /\ UNCHANGED pending

\* The buttons up to their editor or question.
Open(kind) ==
    /\ box = NoBox /\ (kind = "add" \/ HasProfile)
    /\ box' = [kind |-> kind, name |-> IF kind = "add" THEN None ELSE Selected]
    /\ UNCHANGED <<profiles, pending>>

\* Cancel or No.
Decline ==
    /\ box # NoBox
    /\ box' = NoBox
    /\ UNCHANGED <<profiles, pending>>

\* _save_profile after the editor: replace the profile of that name or append it.
Add(name) ==
    /\ box.kind = "add"
    /\ IF RowOf(name, ip_profiles, 0) # 0 THEN Save(ip_profiles, name)
       ELSE Len(ip_profiles) < MaxProfiles /\ Save(Append(ip_profiles, name), name)

\* currentRow as an index of the Python list: -1, no row, is its last element.
Index == IF current = 0 THEN Len(ip_profiles) ELSE current

\* edit_selected_profile and delete_selected_profile after the box: the row is
\* asked for now.
Edit(name) ==
    /\ box.kind = "edit"
    /\ Save([ip_profiles EXCEPT ![Index] = name], name)

Without(list, i) == SubSeq(list, 1, i - 1) \o SubSeq(list, i + 1, Len(list))

Delete ==
    /\ box.kind = "delete"
    /\ Save(Without(ip_profiles, Index), None)

\* _populate_adapter_table with the first adapters: _apply_saved_state selects the
\* profile of the last session, whatever is open.
RestoreSelection ==
    /\ pending
    /\ pending' = FALSE
    /\ current' = LET i == RowOf(SavedProfile, ip_profiles, current)
                  IN IF i <= Len(rows) THEN i ELSE 0
    /\ UNCHANGED <<ip_profiles, rows, box>>

Next ==
    \/ \E i \in 1..MaxProfiles : Select(i)
    \/ \E kind \in {"add", "edit", "delete"} : Open(kind)
    \/ \E name \in Names : Add(name) \/ Edit(name)
    \/ Delete \/ Decline \/ RestoreSelection

Spec == Init /\ [][Next]_vars

-----------------------------------------------------------------------------
\* The profile that is deleted is the one the question has named
\* ("'{profile.name}' ... ?" in delete_selected_profile).
DeletesWhatWasAsked ==
    [][ box.kind = "delete" /\ ip_profiles' # ip_profiles =>
          \E i \in 1..Len(ip_profiles) :
             ip_profiles[i] = box.name /\ ip_profiles' = Without(ip_profiles, i) ]_vars

=============================================================================
