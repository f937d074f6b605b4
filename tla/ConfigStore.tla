---------------------------- MODULE ConfigStore ----------------------------
(***************************************************************************)
(* AppState over its JSON files (app/app_state.py, app/utils/file_utils.py) *)
(* with the callers that save them: settings tab, profile list, closing     *)
(* the window, restarting as administrator.  One file stands for each way   *)
(* of being used: app_config.json; ip_profiles.json; vendor_presets.json,   *)
(* the legacy list that is merged into the profiles; and one *_runtime.json *)
(* for the three the diagnostics tab writes.                                *)
(*                                                                          *)
(* save_json truncates the file and then writes it.  A crash or an OSError  *)
(* between the two leaves a damaged file: Torn is no JSON, Mangled ends in  *)
(* the middle of a UTF-8 character, which load_json does not catch.         *)
(***************************************************************************)
EXTENDS Naturals, Sequences

CONSTANTS Names,      \* names of IP profiles, up to case
          Layouts,    \* what the window and the forms show
          Missing, Torn, Mangled, Nothing

Channels == {"stable", "prerelease"}
NoChannel == "unset"                   \* a configuration older than channels

Files == {"app_config", "ip_profiles", "vendor_presets", "runtime"}
Config == [channel: Channels \cup {NoChannel}, layout: Layouts]

\* No content of a file looks like a missing or a damaged one, and a layout exists.
ASSUME FilesAssumption ==
    /\ Missing # Torn /\ Missing # Mangled /\ Torn # Mangled
    /\ \A config \in Config : config \notin {Missing, Torn, Mangled}
    /\ \A profiles \in SUBSET Names : profiles \notin {Missing, Torn, Mangled}
    /\ \A layout \in Layouts : layout \notin {Missing, Torn, Mangled}
    /\ Layouts # {}

VARIABLES
    disk,      \* content of each file
    phase,     \* where AppState is
    first,     \* this load is the one of the constructor
    is_admin, app_config, ip_profiles, runtime,  \* attributes of AppState
    screen,    \* what window and diagnostics forms show, saved on closing
    todo,      \* writes still to be made, in order: two for each save_json
    late,      \* those a closing program has left while its successor starts
    choice,    \* history: update channel saved last, Nothing when nothing is promised
    left,      \* history: layout an orderly close has saved
    deleted    \* history: profiles whose deletion was saved

program == <<phase, first, is_admin, app_config, ip_profiles, runtime, screen>>
history == <<choice, left, deleted>>
configVars == <<disk, program, todo, late, history>>

Whole(file) == disk[file] \notin {Missing, Torn, Mangled}
Default == CHOOSE l \in Layouts : TRUE

\* save_json: opening the file empties it, then the text is written.
SaveJson(file, data) == <<[file |-> file, data |-> Torn], [file |-> file, data |-> data]>>

\* default_app_config, default_ip_profiles, ...: what a first start writes.
DefaultConfig == [channel |-> "stable", layout |-> Default]
Defaults ==
    [file \in Files |->
        CASE file = "app_config"  -> DefaultConfig
          [] file = "ip_profiles" -> Names
          [] file = "vendor_presets" -> {}
          [] file = "runtime" -> Default]

\* load_json: the default for a file that is not there or is no JSON.
LoadJson(file, default) == IF Whole(file) THEN disk[file] ELSE default

\* normalize_update_config: a configuration without a channel gets stable.
Normalized(config) ==
    IF config.channel \in Channels THEN config ELSE [config EXCEPT !.channel = "stable"]

\* A program that has never run here, or the files of an older version.
ConfigInit ==
    /\ disk \in
        { [file \in Files |-> Missing] } \cup
        { [app_config |-> [channel |-> NoChannel, layout |-> Default],
           ip_profiles |-> mine, vendor_presets |-> legacy, runtime |-> Missing] :
             mine \in SUBSET Names, legacy \in SUBSET Names }
    /\ phase = "off" /\ first = TRUE /\ is_admin = FALSE
    /\ app_config = DefaultConfig /\ ip_profiles = {} /\ runtime = Default
    /\ screen = [window |-> Default, forms |-> Default]
    /\ todo = <<>> /\ late = <<>>
    /\ choice = Nothing /\ left = Nothing /\ deleted = {}

-----------------------------------------------------------------------------
(* Starting and loading *)

\* main(): AppState and its files.
Start ==
    /\ phase = "off" /\ todo = <<>> /\ late = <<>>
    /\ phase' = "ensure" /\ first' = TRUE /\ is_admin' \in BOOLEAN
    /\ UNCHANGED <<disk, app_config, ip_profiles, runtime, screen, todo, late, history>>

Order == <<"app_config", "ip_profiles", "runtime", "vendor_presets">>

\* ensure_runtime_files: one missing file after the other.
FirstMissing ==
    {i \in DOMAIN Order : /\ disk[Order[i]] = Missing
                          /\ \A j \in 1..(i - 1) : disk[Order[j]] # Missing}

Ensure ==
    /\ phase = "ensure" /\ todo = <<>>
    /\ \/ FirstMissing = {} /\ phase' = "config" /\ UNCHANGED todo
       \/ /\ \E i \in FirstMissing : todo' = SaveJson(Order[i], Defaults[Order[i]])
          /\ UNCHANGED phase
    /\ UNCHANGED <<disk, first, is_admin, app_config, ip_profiles, runtime, screen, late, history>>

\* An exception of a start ends the program; one of the reload button is printed.
Fallen == IF first THEN "off" ELSE "running"

\* First half of reload_config_files: configuration, rewritten if it was not normal.
LoadConfig ==
    /\ phase = "config" /\ todo = <<>>
    /\ disk["app_config"] # Mangled
    /\ LET loaded == LoadJson("app_config", [channel |-> NoChannel, layout |-> Default])
       IN /\ app_config' = Normalized(loaded)
          /\ todo' = IF loaded = app_config' THEN <<>>
                     ELSE SaveJson("app_config", app_config')
    /\ phase' = "lists"
    /\ choice' = IF Whole("app_config") THEN choice ELSE Nothing
    /\ left'   = IF Whole("app_config") THEN left ELSE Nothing
    /\ UNCHANGED <<disk, first, is_admin, ip_profiles, runtime, screen, late, deleted>>

\* mutants: the presets are cleared first, or never
PresetsFirst(profiles) == SaveJson("vendor_presets", {}) \o SaveJson("ip_profiles", profiles)
PresetsKept(profiles)  == SaveJson("ip_profiles", profiles)

\* The two saves of the migration, profiles before presets.
MigrationSaves(profiles) ==
    SaveJson("ip_profiles", profiles) \o SaveJson("vendor_presets", {})

\* The profiles, with the legacy presets merged into them by name.
Merged == LoadJson("ip_profiles", {}) \cup LoadJson("vendor_presets", {})

\* Second half: profiles, legacy presets, runtime.
LoadLists ==
    /\ phase = "lists" /\ todo = <<>>
    /\ \A file \in {"ip_profiles", "vendor_presets", "runtime"} : disk[file] # Mangled
    /\ LET legacy == LoadJson("vendor_presets", {})
       IN /\ ip_profiles' = Merged
          /\ todo' = IF legacy = {} THEN <<>> ELSE MigrationSaves(ip_profiles')
    /\ runtime' = LoadJson("runtime", Default)
    /\ left' = IF Whole("runtime") THEN left ELSE Nothing
    /\ phase' = "reloaded"
    /\ UNCHANGED <<disk, first, is_admin, app_config, screen, late, choice, deleted>>

\* UnicodeDecodeError is no JSONDecodeError: reload_config_files raises.  When it is the
\* runtime file, the profiles have been merged in memory already, and are not saved.
LoadRaises ==
    /\ todo = <<>>
    /\ \/ phase = "config" /\ disk["app_config"] = Mangled /\ UNCHANGED ip_profiles
       \/ /\ phase = "lists"
          /\ \E file \in {"ip_profiles", "vendor_presets"} : disk[file] = Mangled
          /\ UNCHANGED ip_profiles
       \/ /\ phase = "lists" /\ disk["runtime"] = Mangled
          /\ \A file \in {"ip_profiles", "vendor_presets"} : disk[file] # Mangled
          /\ ip_profiles' = Merged
    /\ phase' = Fallen
    /\ UNCHANGED <<disk, first, is_admin, app_config, runtime, screen, todo, late, history>>

\* config_reloaded; after a start the window is built and shows what was saved.
Loaded ==
    /\ phase = "reloaded" /\ todo = <<>>
    /\ phase' = "running"
    /\ screen' = IF first THEN [window |-> app_config.layout, forms |-> runtime] ELSE screen
    /\ UNCHANGED <<disk, first, is_admin, app_config, ip_profiles, runtime, todo, late, history>>

-----------------------------------------------------------------------------
(* Writing *)

\* The next write of the program; a completed save of a running program is a promise.
Write ==
    /\ todo # <<>>
    /\ LET next == Head(todo)
           kept == phase = "running" /\ next.data # Torn
       IN /\ disk' = [disk EXCEPT ![next.file] = next.data]
          /\ choice' = IF kept /\ next.file = "app_config" THEN next.data.channel ELSE choice
          /\ deleted' = IF kept /\ next.file = "ip_profiles" THEN Names \ next.data ELSE deleted
    /\ todo' = Tail(todo)
    /\ UNCHANGED <<program, late, left>>

\* OSError on opening or on writing: what comes behind it is not written.  The
\* caller has changed AppState before the save.
SaveFails ==
    /\ todo # <<>>
    /\ todo' = <<>>
    /\ phase' = IF phase \in {"running", "closing"} THEN phase ELSE Fallen
    /\ choice' = IF Head(todo).file = "app_config" THEN Nothing ELSE choice
    /\ left' = IF phase = "closing" THEN Nothing ELSE left
    /\ deleted' = IF Head(todo).file = "ip_profiles" THEN {} ELSE deleted
    /\ UNCHANGED <<disk, first, is_admin, app_config, ip_profiles, runtime, screen, late>>

\* The program is killed; the file it was writing is damaged.
Crash ==
    /\ phase # "off"
    /\ phase' = "off" /\ todo' = <<>>
    /\ IF todo # <<>> /\ Head(todo).data # Torn
       THEN \E rest \in {Torn, Mangled} : disk' = [disk EXCEPT ![Head(todo).file] = rest]
       ELSE UNCHANGED disk
    /\ left' = IF phase = "closing" THEN Nothing ELSE left
    /\ UNCHANGED <<first, is_admin, app_config, ip_profiles, runtime, screen, late, choice, deleted>>

\* The same for the program that a restart has left behind.
LateWrite ==
    /\ late # <<>>
    /\ disk' = [disk EXCEPT ![Head(late).file] = Head(late).data]
    /\ late' = Tail(late)
    /\ UNCHANGED <<program, todo, history>>

LateFails ==
    /\ late # <<>> /\ late' = <<>>
    /\ UNCHANGED <<disk, program, todo, history>>

-----------------------------------------------------------------------------
(* The user *)

\* The GUI thread is free: one handler runs at a time.  Nobody acts in a new
\* program before the old one has ended (bound).
Idle == phase = "running" /\ todo = <<>> /\ late = <<>>

\* SettingsTab.save_update_settings through save_app_config.
SaveSettings ==
    /\ Idle
    /\ \E channel \in Channels :
         /\ app_config' = Normalized([app_config EXCEPT !.channel = channel])
         /\ todo' = SaveJson("app_config", app_config')
    /\ UNCHANGED <<disk, phase, first, is_admin, ip_profiles, runtime, screen, late, history>>

\* save_ip_profiles behind the handlers of the interface tab.
SaveProfiles(profiles) ==
    /\ ip_profiles' = profiles
    /\ todo' = SaveJson("ip_profiles", profiles)
    /\ UNCHANGED <<disk, phase, first, is_admin, app_config, runtime, screen, late, history>>

AddProfile == Idle /\ \E n \in Names : SaveProfiles(ip_profiles \cup {n})

DeleteProfile == Idle /\ \E n \in ip_profiles : SaveProfiles(ip_profiles \ {n})

\* The reload button of the settings tab.
Reload ==
    /\ Idle
    /\ phase' = "config" /\ first' = FALSE
    /\ UNCHANGED <<disk, is_admin, app_config, ip_profiles, runtime, screen, todo, late, history>>

\* Tabs, docks and forms are used.
Arrange ==
    /\ Idle
    /\ \E window, forms \in Layouts : screen' = [window |-> window, forms |-> forms]
    /\ UNCHANGED <<disk, phase, first, is_admin, app_config, ip_profiles, runtime, todo, late, history>>

\* mutants: the ui state starts from an empty configuration; the forms are not saved
FromEmptyConfig ==
    SaveJson("runtime", screen.forms)
      \o SaveJson("app_config", [DefaultConfig EXCEPT !.layout = screen.window])
LayoutOnly ==
    SaveJson("app_config", Normalized([app_config EXCEPT !.layout = screen.window]))

\* _save_ui_state: the forms of the diagnostics tab save themselves while the
\* layout is collected, the configuration with the layout comes last.
UiStateSaves ==
    SaveJson("runtime", screen.forms)
      \o SaveJson("app_config", Normalized([app_config EXCEPT !.layout = screen.window]))

\* closeEvent.
Close ==
    /\ Idle
    /\ phase' = "closing" /\ todo' = UiStateSaves
    /\ left' = screen
    /\ UNCHANGED <<disk, first, is_admin, app_config, ip_profiles, runtime, screen, late, choice, deleted>>

\* The saves of closeEvent are over and the process ends.
Closed ==
    /\ phase = "closing" /\ todo = <<>>
    /\ phase' = "off"
    /\ UNCHANGED <<disk, first, is_admin, app_config, ip_profiles, runtime, screen, todo, late, history>>

\* _restart_as_admin: the new program is started, then the window closes.
RestartAsAdmin ==
    /\ Idle
    /\ ~is_admin /\ is_admin' = TRUE
    /\ phase' = "ensure" /\ first' = TRUE
    /\ late' = UiStateSaves
    /\ left' = Nothing
    /\ UNCHANGED <<disk, app_config, ip_profiles, runtime, screen, todo, choice, deleted>>

-----------------------------------------------------------------------------
Load == Start \/ Ensure \/ LoadConfig \/ LoadLists \/ LoadRaises \/ Loaded

Use == \/ SaveSettings \/ AddProfile \/ DeleteProfile \/ Reload \/ Arrange
       \/ Close \/ Closed \/ RestartAsAdmin

ConfigNext == Load \/ Use \/ Write \/ SaveFails \/ Crash \/ LateWrite \/ LateFails

ConfigSpec == ConfigInit /\ [][ConfigNext]_configVars

-----------------------------------------------------------------------------
(* Properties *)

\* Shapes of the state: files are whole, damaged or missing, AppState always
\* holds normal values, and no program is off with writes to do.
ConfigTypeOK ==
    /\ disk["app_config"] \in {Missing, Torn, Mangled} \cup Config
    /\ \A file \in {"ip_profiles", "vendor_presets"} :
          disk[file] \in {Missing, Torn, Mangled} \cup SUBSET Names
    /\ disk["runtime"] \in {Missing, Torn, Mangled} \cup Layouts
    /\ app_config \in Config /\ app_config.channel # NoChannel
    /\ ip_profiles \subseteq Names /\ deleted \subseteq Names /\ runtime \in Layouts
    /\ phase \in {"off", "ensure", "config", "lists", "reloaded", "running", "closing"}
    /\ phase = "off" => todo = <<>>

\* reload_config_files touches the legacy list only when all its entries are in
\* the profile file: no crash or failed save between loses a preset.
ClearedAfterKept ==
    [][ Whole("vendor_presets") /\ disk'["vendor_presets"] # disk["vendor_presets"]
          => /\ Whole("ip_profiles")
             /\ disk["vendor_presets"] \subseteq disk["ip_profiles"] ]_configVars

\* A deleted profile does not come back, however often the program is started
\* or its lists are reloaded: the migration is not made again.
DeletedStaysDeleted ==
    phase = "running" /\ todo = <<>> => deleted \cap ip_profiles = {}

\* The update channel saved last is the one in use, over restarts, closing,
\* reloading and restarting as administrator, as long as neither a damaged file
\* was read nor a save has failed.
ChoiceKept ==
    phase = "running" /\ todo = <<>> /\ choice # Nothing => app_config.channel = choice

\* A start after an orderly close shows window and forms as they were.
LayoutReturns ==
    [][ phase = "reloaded" /\ phase' = "running" /\ first => left \in {Nothing, screen'} ]_configVars

=============================================================================
