------------------------------ MODULE WirelessTab ------------------------------
(***************************************************************************)
(* The wireless tab (app/ui/tabs/wireless_tab.py) with WirelessService     *)
(* (app/services/wireless_service.py) and OuiService                       *)
(* (app/services/oui_service.py), whose records every thread shares.       *)
(*                                                                         *)
(* Three kinds of background jobs run beside the GUI thread: the state of  *)
(* the adapter, a scan of the access points nearby, and a download of the  *)
(* vendor lists.  Timers start the first two again and again; a scan looks *)
(* up the vendor of one access point after the other in the records that a *)
(* download may replace meanwhile.                                         *)
(***************************************************************************)
EXTENDS Naturals, Sequences

CONSTANTS
  APs,         \* access points
  Registries,  \* IEEE_SOURCES
  Home,        \* the registry that lists the vendor of each access point
  NoAP,        \* no access point; no vendor; no records of a registry
  Known,       \* the version of the vendor lists found at the start: 0, or NoAP
  Refreshes    \* downloads of the vendor lists (bound), a set of versions

ASSUME WirelessAssumption ==
  /\ NoAP \notin APs \cup Refreshes /\ Known \in {NoAP, 0}
  /\ 0 \notin Refreshes /\ Refreshes \subseteq Nat
  /\ Home \in [APs -> Registries]

VARIABLES
  started,      \* _startup_refresh_requested
  auto,         \* nearby_auto_refresh_check, whose timer runs once the tab has started
  infoRunning,  \* _wireless_refresh_running
  scanRunning,  \* _nearby_refresh_running
  current,      \* the access point in current_info
  nearby,       \* nearby_access_points: those found, each with its vendor
  filter,       \* "all", or "connected": nearby_connected_only_check
  nearby_table, \* its rows
  infoJob,      \* the job of get_wireless_info
  scan,         \* the job of scan_nearby_access_points
  records,      \* OuiService.records: the version of each registry
  refresh,      \* the jobs of refresh_cache
  events        \* signals posted to the GUI thread and not delivered yet

viewVars == <<current, nearby, filter, nearby_table>>
jobVars  == <<infoJob, scan, refresh>>
wirelessVars == <<started, auto, infoRunning, scanRunning, records, events, viewVars, jobVars>>

NoScan   == [pc |-> "none", found |-> {}, vendor |-> <<>>]
NoOne    == [a \in {} |-> NoAP]
NoRecord == [r \in Registries |-> NoAP]

\* restore_ui_state: the timers stay off
Restored == auto \in BOOLEAN /\ filter \in {"all", "connected"}

\* _load_cache ran in the GUI thread when the window was built (ToolsDiagnosticsTab.__init__)
WirelessInit ==
  /\ Restored /\ started = FALSE
  /\ infoRunning = FALSE /\ scanRunning = FALSE
  /\ current = NoAP /\ nearby = NoOne /\ nearby_table = {}
  /\ infoJob = "none"
  /\ scan = NoScan
  /\ records = [r \in Registries |-> Known]
  /\ refresh = [v \in Refreshes |-> [pc |-> "none", got |-> {}]]
  /\ events = <<>>

Event(kind, value) == [kind |-> kind, value |-> value]

-----------------------------------------------------------------------------
(* The table *)

\* _is_current_access_point: nothing is current without an address
IsCurrent(a, cur) == cur # NoAP /\ a = cur

\* _filtered_nearby_access_points
Filtered(aps, cur, only) == {a \in DOMAIN aps : only = "all" \/ IsCurrent(a, cur)}

\* The rows _apply_nearby_view builds: access point, vendor, and the mark of the current one
View(aps, cur, only) ==
  {[ap |-> a, vendor |-> aps[a], mark |-> IsCurrent(a, cur)] : a \in Filtered(aps, cur, only)}

\* mutant: the new state of the adapter is not shown in the table
NotApplied(aps, cur, only) == nearby_table

\* _apply_nearby_view after _update_wireless_view
AppliedForInfo(aps, cur, only) == View(aps, cur, only)

\* A search, a filter or an order is chosen
ChooseFilter ==
  /\ \E only \in {"all", "connected"} \ {filter} :
       filter' = only /\ nearby_table' = View(nearby, current, only)
  /\ UNCHANGED <<started, auto, infoRunning, scanRunning, current, nearby, records, events>>
  /\ UNCHANGED jobVars

-----------------------------------------------------------------------------
(* Requests *)

\* refresh_nearby_access_points
RefreshNearby ==
  IF scanRunning THEN UNCHANGED <<scan, scanRunning>>
  ELSE scan' = [NoScan EXCEPT !.pc = "netsh"] /\ scanRunning' = TRUE

\* refresh_wireless_info
RefreshInfo ==
  IF infoRunning THEN UNCHANGED <<infoJob, infoRunning>>
  ELSE infoJob' = "netsh" /\ infoRunning' = TRUE

\* start_initial_refresh
Start ==
  /\ ~started
  /\ started' = TRUE
  /\ RefreshInfo /\ RefreshNearby
  /\ UNCHANGED <<auto, records, events, refresh>> /\ UNCHANGED viewVars

\* The button, or its timer: _handle_auto_refresh_tick
AskInfo ==
  /\ started /\ ~infoRunning
  /\ RefreshInfo
  /\ UNCHANGED <<started, auto, scanRunning, records, events, scan, refresh>>
  /\ UNCHANGED viewVars

\* refresh_nearby_access_points_quietly
Quietly ==
  /\ RefreshNearby
  /\ UNCHANGED <<started, infoRunning, records, events, infoJob, refresh>> /\ UNCHANGED viewVars

\* The button, disabled during a scan
AskScan == started /\ ~scanRunning /\ Quietly /\ UNCHANGED auto

\* _handle_nearby_auto_refresh_tick
Tick == started /\ auto /\ Quietly /\ UNCHANGED auto

\* _toggle_nearby_auto_refresh: switched on, it ticks at once
ToggleAuto ==
  /\ started
  /\ auto' = ~auto
  /\ IF auto
     THEN UNCHANGED <<started, infoRunning, scanRunning, records, events>>
          /\ UNCHANGED viewVars /\ UNCHANGED jobVars
     ELSE Quietly

\* refresh_nearby_oui_cache: this button stays enabled
AskVendors ==
  /\ started
  /\ \E v \in Refreshes : refresh[v].pc = "none" /\ refresh' = [refresh EXCEPT ![v].pc = "fetch"]
  /\ UNCHANGED <<started, auto, infoRunning, scanRunning, records, events, infoJob, scan>>
  /\ UNCHANGED viewVars

guiVars == <<started, auto, infoRunning, scanRunning>>

-----------------------------------------------------------------------------
(* The jobs.  FunctionWorker posts the outcome, then finished *)

\* get_wireless_info: any state, or no netsh; the end is posted with it, for the flag of
\* this job is all it changes
Info ==
  /\ infoJob = "netsh"
  /\ \E e \in {Event("info", a) : a \in APs \cup {NoAP}} \cup {Event("infoError", 0)} :
       events' = events \o <<e, Event("infoEnd", 0)>>
  /\ infoJob' = "none"
  /\ UNCHANGED <<scan, refresh, records>> /\ UNCHANGED viewVars /\ UNCHANGED guiVars

\* scan_nearby_access_points up to the vendors: a failed scan request is ignored
Netsh ==
  /\ scan.pc = "netsh"
  /\ \E found \in SUBSET APs :
       scan' = [pc |-> "vendors", found |-> found, vendor |-> NoOne]
  /\ UNCHANGED <<infoJob, refresh, records, events>> /\ UNCHANGED viewVars /\ UNCHANGED guiVars

NetshFails ==
  /\ scan.pc = "netsh"
  /\ events' = Append(events, Event("scanError", 0))
  /\ scan' = [NoScan EXCEPT !.pc = "done"]
  /\ UNCHANGED <<infoJob, refresh, records>> /\ UNCHANGED viewVars /\ UNCHANGED guiVars

\* lookup_vendor: the records as they are now
Vendor(a) == records[Home[a]]

\* The loop over the access points
LookUp ==
  /\ scan.pc = "vendors"
  /\ \E a \in scan.found \ DOMAIN scan.vendor :
       scan' = [scan EXCEPT !.vendor = [b \in DOMAIN @ \cup {a} |-> IF b = a THEN Vendor(a) ELSE @[b]]]
  /\ UNCHANGED <<infoJob, refresh, records, events>> /\ UNCHANGED viewVars /\ UNCHANGED guiVars

Found ==
  /\ scan.pc = "vendors" /\ scan.found = DOMAIN scan.vendor
  /\ events' = Append(events, Event("scan", scan.vendor))
  /\ scan' = [NoScan EXCEPT !.pc = "done"]
  /\ UNCHANGED <<infoJob, refresh, records>> /\ UNCHANGED viewVars /\ UNCHANGED guiVars

ScanEnds ==
  /\ scan.pc = "done"
  /\ events' = Append(events, Event("scanEnd", 0))
  /\ scan' = NoScan
  /\ UNCHANGED <<infoJob, refresh, records>> /\ UNCHANGED viewVars /\ UNCHANGED guiVars

RefreshTo(v, pc) == refresh' = [refresh EXCEPT ![v].pc = pc]

\* _fetch_registry of each source: any of them may fail
Fetch(v) ==
  /\ refresh[v].pc = "fetch"
  /\ \E got \in SUBSET Registries : refresh' = [refresh EXCEPT ![v] = [pc |-> "store", got |-> got]]
  /\ UNCHANGED <<infoJob, scan, records, events>> /\ UNCHANGED viewVars /\ UNCHANGED guiVars

\* mutant: what was fetched is stored, be it nothing
StoreAnyway(got) == TRUE

\* if not fetched_records: return
MayStore(got) == got # {}

\* The records are what was fetched, without those of a registry that failed
Store(v) ==
  /\ refresh[v].pc = "store" /\ MayStore(refresh[v].got)
  /\ records' = [r \in Registries |-> IF r \in refresh[v].got THEN v ELSE NoAP]
  /\ RefreshTo(v, "save")
  /\ UNCHANGED <<infoJob, scan, events>> /\ UNCHANGED viewVars /\ UNCHANGED guiVars

\* Nothing fetched, or save_json raises, or all is well
Refreshed(v) ==
  /\ \/ refresh[v].pc = "store" /\ ~MayStore(refresh[v].got)
        /\ events' = Append(events, Event("vendors", "failed"))
     \/ refresh[v].pc = "save" /\ events' = Append(events, Event("vendorsError", 0))
     \/ refresh[v].pc = "save" /\ events' = Append(events, Event("vendors", "done"))
  /\ RefreshTo(v, "over")
  /\ UNCHANGED <<infoJob, scan, records>> /\ UNCHANGED viewVars /\ UNCHANGED guiVars

-----------------------------------------------------------------------------
(* Callbacks *)

\* _update_wireless_view
UpdateWirelessView(a) ==
  /\ current' = a
  /\ nearby_table' = AppliedForInfo(nearby, a, filter)
  /\ UNCHANGED <<nearby, filter, infoRunning, scanRunning, scan>>

\* _update_nearby_access_points
UpdateNearby(aps) ==
  /\ nearby' = aps
  /\ nearby_table' = View(aps, current, filter)
  /\ UNCHANGED <<current, filter, infoRunning, scanRunning, scan>>

\* mutant: on_finished is not connected
FlagKept(kind) == FALSE

\* on_finished: _set_refresh_running
Clears(kind) == kind \in {"infoEnd", "scanEnd"}

SetRefreshRunning(kind) ==
  /\ infoRunning' = (infoRunning /\ ~(Clears(kind) /\ kind = "infoEnd"))
  /\ scanRunning' = (scanRunning /\ ~(Clears(kind) /\ kind = "scanEnd"))
  /\ UNCHANGED scan /\ UNCHANGED viewVars

\* _finish_nearby_oui_refresh
FinishVendors(outcome) ==
  /\ IF outcome = "done"
     THEN RefreshNearby
     ELSE UNCHANGED <<scan, scanRunning>>
  /\ UNCHANGED infoRunning /\ UNCHANGED viewVars

\* An error opens a box, whose loop goes on delivering
ShowError == UNCHANGED <<infoRunning, scanRunning, scan>> /\ UNCHANGED viewVars

DeliverEvent ==
  /\ events # <<>>
  /\ events' = Tail(events)
  /\ LET e == Head(events)
     IN \/ e.kind = "info" /\ UpdateWirelessView(e.value)
        \/ e.kind = "scan" /\ UpdateNearby(e.value)
        \/ e.kind \in {"infoEnd", "scanEnd"} /\ SetRefreshRunning(e.kind)
        \/ e.kind = "vendors" /\ FinishVendors(e.value)
        \/ e.kind \in {"infoError", "scanError", "vendorsError"} /\ ShowError
  /\ UNCHANGED <<started, auto, records, infoJob, refresh>>

Gui   == Start \/ ChooseFilter \/ AskInfo \/ AskScan \/ Tick \/ ToggleAuto \/ AskVendors \/ DeliverEvent
Scan == Netsh \/ NetshFails \/ LookUp \/ Found \/ ScanEnds
Download(v) == Fetch(v) \/ Store(v) \/ Refreshed(v)

WirelessNext ==
  \/ Gui \/ Info \/ Scan
  \/ \E v \in Refreshes : Download(v)

WirelessSpec == WirelessInit /\ [][WirelessNext]_wirelessVars

\* Threads run, the queue is delivered, and the timer that is on keeps firing.
\* Neither the user nor netsh has to do anything in particular.
Fairness ==
  /\ WF_wirelessVars(DeliverEvent) /\ WF_wirelessVars(Tick) /\ WF_wirelessVars(Info) /\ WF_wirelessVars(Scan)
  /\ \A v \in Refreshes : WF_wirelessVars(Download(v))

FairSpec == WirelessSpec /\ Fairness

-----------------------------------------------------------------------------
\* The table is never older than what the tab knows: its rows, their vendors and the
\* mark of the current access point follow the last scan, the last state of the adapter
\* and the filter, whichever of the three came last.
TableIsView == nearby_table = View(nearby, current, filter)

\* Downloads that bring nothing leave the vendors known so far, however many run.
VendorsSurvive == [][records # NoRecord => records' # NoRecord]_wirelessVars

\* With the timer on, what a download brought reaches the table, in spite of scans that
\* were half through when it ended, unless a scan fails.
VendorsReachTable ==
  \A a \in APs, v \in Refreshes :
    started /\ auto /\ records[Home[a]] = v
      ~> \/ ~auto \/ records[Home[a]] # v
         \/ a \notin DOMAIN nearby \/ nearby[a] = v
         \/ \E i \in DOMAIN events : events[i].kind = "scanError"

=============================================================================
