---------------------------- MODULE InterfaceTab ----------------------------
(***************************************************************************)
(* The interface tab (app/ui/tabs/interface_tab.py) with the service behind *)
(* it (app/services/network_interface_service.py): the adapter table, the   *)
(* questions, and the background jobs that list the adapters and apply      *)
(* settings.  Jobs are in the form JobContract promises; a question runs a  *)
(* nested event loop, so callbacks of jobs are delivered beneath it.  What  *)
(* the form contains is left open: any setting may be asked for.  The list  *)
(* of IP profiles is in ProfileList.                                        *)
(*                                                                          *)
(* A setting is one of Statics (address, mask, gateway and DNS servers that *)
(* belong together) or "dhcp".  An adapter has an address, a gateway and    *)
(* DNS servers, each from such a setting.  "none" is an adapter left        *)
(* without an address; "other" is the gateway of a lease, or no gateway.    *)
(***************************************************************************)
CONSTANTS Adapters, Statics,        \* adapters, at least one, and static settings
          Jobs,                     \* workers that can be alive at a time (bound)
          SavedAdapter,             \* selected at the end of the last session
          None

Settings == Statics \cup {"dhcp"}
Conf == [address: Settings \cup {"none"}, gateway: Statics \cup {"other"}, dns: Settings]
GatewayOf(setting) == IF setting \in Statics THEN setting ELSE "other"

ASSUME PanelAssumption ==
    /\ "dhcp" \notin Statics /\ "none" \notin Statics /\ "other" \notin Statics
    /\ None \notin Adapters \cup Settings
    /\ SavedAdapter \in Adapters

VARIABLES
    conf,        \* the system: configuration of each adapter
    adapters,    \* snapshot in the table, None while it is empty
    row,         \* adapter of the selected row
    loading,     \* indicator on, refresh button and table disabled
    pending,     \* _pending_ui_state is still to be applied
    box,         \* the modal box or dialog that is open
    job,         \* background jobs
    stale        \* history: a job has failed or two refreshes were alive at once

table == <<adapters, row, pending>>
vars  == <<conf, table, loading, box, job, stale>>

NoBox == [kind |-> "none"]
NoJob == [kind |-> "none", told |-> "finished"]

\* ran: where the worker is; told: the callback delivered last.  An apply has no
\* slot for started.
Refresh == [kind |-> "refresh", ran |-> "read", told |-> "submitted",
            keep |-> row, read |-> None]
Apply(adapter, setting) ==
    [kind |-> "apply", ran |-> "address", told |-> "started",
     adapter |-> adapter, setting |-> setting, ok |-> TRUE,
     alone |-> ~ \E j \in Jobs : job[j].kind = "apply" /\ job[j].adapter = adapter]

Alive(kind) == {j \in Jobs : job[j].kind = kind}
Idle(j) == job[j] = NoJob

\* FunctionWorker started by _start_worker.  A second apply for one adapter means
\* that neither is alone.
Submitted(jobs, j, work) ==
    [k \in Jobs |->
        CASE k = j -> work
          [] k # j /\ work.kind = "apply" /\ jobs[k].kind = "apply" ->
               [jobs[k] EXCEPT !.alone = @ /\ jobs[k].adapter # work.adapter]
          [] OTHER -> jobs[k]]

Init ==
    /\ conf \in [Adapters -> { [address |-> s, gateway |-> GatewayOf(s), dns |-> s] : s \in Settings }]
    /\ adapters = None /\ row = None /\ pending \in BOOLEAN
    /\ loading = FALSE
    /\ box = NoBox
    /\ job = [j \in Jobs |-> NoJob]
    /\ stale = FALSE

-----------------------------------------------------------------------------
(* Adapter table *)

\* refresh_adapters, from the button or when the tab is first shown.
RefreshAdapters(j) ==
    /\ box = NoBox /\ ~loading /\ Idle(j)
    /\ job' = Submitted(job, j, Refresh)
    /\ stale' = (Alive("refresh") # {})
    /\ UNCHANGED <<conf, table, loading, box>>

\* itemSelectionChanged.  The table is disabled while it is loading.
SelectAdapter(a) ==
    /\ box = NoBox /\ ~loading /\ adapters # None
    /\ row' = a
    /\ UNCHANGED <<conf, adapters, pending, loading, box, job, stale>>

-----------------------------------------------------------------------------
(* Applying settings *)

Confirm(adapter, setting) ==
    box' = [kind |-> "apply", adapter |-> adapter, setting |-> setting]

\* apply_current_settings up to its question, for the selected adapter.  The program
\* runs as administrator: without, both handlers end with a warning.
ApplyForm(setting) ==
    /\ box = NoBox /\ row # None
    /\ Confirm(row, setting)
    /\ UNCHANGED <<conf, table, loading, job, stale>>

\* apply_selected_profile up to its question: the selected adapter, or the one
\* the profile names.  What a profile contains is left open.
ApplyProfile(setting, own) ==
    /\ box = NoBox
    /\ Confirm(IF row # None THEN row ELSE own, setting)
    /\ UNCHANGED <<conf, table, loading, job, stale>>

\* Cancel, No or the close button of any box.
Decline ==
    /\ box # NoBox
    /\ box' = NoBox
    /\ UNCHANGED <<conf, table, loading, job, stale>>

\* Yes: the job gets the adapter and the setting read before the question.
StartApply(j) ==
    /\ box.kind = "apply" /\ Idle(j)
    /\ job' = Submitted(job, j, Apply(box.adapter, box.setting))
    /\ box' = NoBox
    /\ UNCHANGED <<conf, table, loading, stale>>

-----------------------------------------------------------------------------
(* Workers *)

Ran(j, step) == job' = [job EXCEPT ![j].ran = step]
Panel == <<table, loading, box, stale>>

\* list_adapters: one PowerShell call that reads every adapter.
ReadAdapters(j) ==
    /\ job[j].kind = "refresh" /\ job[j].ran = "read"
    /\ job' = [job EXCEPT ![j].ran = "listed", ![j].read = conf]
    /\ UNCHANGED <<conf, Panel>>

\* A program that cannot be started or run_json without an answer.
Raises(j) ==
    /\ \/ job[j].kind = "refresh" /\ job[j].ran = "read"
       \/ job[j].kind = "apply" /\ job[j].ran \in {"address", "dns", "cleanup", "fallback"}
    /\ Ran(j, "failed")
    /\ UNCHANGED <<conf, Panel>>

At(j, step) == job[j].kind = "apply" /\ job[j].ran = step
Target(j) == job[j].setting
Static(j) == Target(j) \in Statics
Configure(j, address, gateway, dns) ==
    conf' = [conf EXCEPT ![job[j].adapter] = [address |-> address, gateway |-> gateway, dns |-> dns]]
Now(j) == conf[job[j].adapter]

\* _run_netsh "set address", with the gateway: it reports failure without having
\* worked, or, after its 30 seconds, with.  The DHCP branch goes on, the static
\* one falls back.
NetshAddress(j) ==
    /\ At(j, "address")
    /\ \/ Configure(j, Target(j), GatewayOf(Target(j)), Now(j).dns) /\ Ran(j, "dns")
       \/ /\ \/ UNCHANGED conf
             \/ Configure(j, Target(j), GatewayOf(Target(j)), Now(j).dns)
          /\ job' = [job EXCEPT ![j].ran = IF Static(j) THEN "fallback" ELSE "dns", ![j].ok = FALSE]
    /\ UNCHANGED Panel

\* mutant: the result of "set dnsservers" is not looked at.
DnsIgnored(j) == "cleanup"

\* Where _netsh_set_static goes on when "set dnsservers" has failed.
AfterDnsFailure(j) == IF Static(j) THEN "fallback" ELSE "cleanup"

NetshDns(j) ==
    /\ At(j, "dns")
    /\ \/ Configure(j, Now(j).address, Now(j).gateway, Target(j)) /\ Ran(j, "cleanup")
       \/ /\ \/ UNCHANGED conf
             \/ Configure(j, Now(j).address, Now(j).gateway, Target(j))
          /\ job' = [job EXCEPT ![j].ran = AfterDnsFailure(j), ![j].ok = FALSE]
    /\ UNCHANGED Panel

\* _cleanup_after_static: addresses other than the target are removed, or nothing is.
CleanupStatic(j) ==
    /\ At(j, "cleanup") /\ Static(j)
    /\ \/ UNCHANGED conf
       \/ Configure(j, IF Now(j).address = Target(j) THEN Target(j) ELSE "none",
                    Now(j).gateway, Now(j).dns)
    /\ Ran(j, "succeeded")
    /\ UNCHANGED Panel

\* Remove-NetRoute and New-NetRoute of the fallback fail silently, each on its own.
Rerouted(j) == {Now(j).gateway, "other", Target(j)}

\* The fallback of set_static: DHCP is switched off and the other addresses are
\* removed, both without a look at the result; then comes the new address, then the
\* default route is replaced, then DNS is set.  Adding the address and setting DNS
\* stop the script when they fail, a timeout stops it anywhere; the gateway decides
\* nothing, so the script may succeed without it.
FallbackStatic(j) ==
    /\ At(j, "fallback") /\ Static(j)
    /\ \/ /\ \E gateway \in Rerouted(j) : Configure(j, Target(j), gateway, Target(j))
          /\ Ran(j, "cleanup")
       \/ /\ \/ \E address \in {Now(j).address, "none"} :
                   Configure(j, address, Now(j).gateway, Now(j).dns)
             \/ \E gateway \in Rerouted(j), dns \in {Now(j).dns, Target(j)} :
                   Configure(j, Target(j), gateway, dns)
          /\ Ran(j, "failed")
    /\ UNCHANGED Panel

\* The commands of _cleanup_after_dhcp and of the fallback fail silently, each on
\* its own: a manual address may be gone and DHCP not enabled.
Silently(address) == {address, "dhcp"} \cup (IF address \in Statics THEN {"none"} ELSE {})

\* _cleanup_after_dhcp removes every default route, silently too; _renew_dhcp_lease
\* behind it releases the lease with its gateway and brings the next one, or none.
CleanupDhcp(j) ==
    /\ At(j, "cleanup") /\ ~Static(j)
    /\ \E address \in Silently(Now(j).address), dns \in {Now(j).dns, "dhcp"},
          gateway \in {Now(j).gateway, "other"} :
          Configure(j, address, gateway, dns)
    /\ Ran(j, IF job[j].ok THEN "succeeded" ELSE "fallback")
    /\ UNCHANGED Panel

\* Its exit code is that of the last command, which resets the DNS servers; after a
\* success the lease is renewed again.
FallbackDhcp(j) ==
    /\ At(j, "fallback") /\ ~Static(j)
    /\ \E address \in Silently(Now(j).address) :
          \/ /\ \E gateway \in {Now(j).gateway, "other"} : Configure(j, address, gateway, "dhcp")
             /\ Ran(j, "succeeded")
          \/ Configure(j, address, Now(j).gateway, Now(j).dns) /\ Ran(j, "failed")
    /\ UNCHANGED Panel

-----------------------------------------------------------------------------
(* Callbacks of the jobs, also beneath an open box *)

DeliverStarted(j) ==
    /\ job[j].told = "submitted"
    /\ job' = [job EXCEPT ![j].told = "started"]
    /\ loading' = TRUE
    /\ UNCHANGED <<conf, table, box, stale>>

\* Once its outcome is delivered, only the kind and the adapter of a job matter.
Told(jobs, j) ==
    [jobs EXCEPT ![j] =
       IF @.kind = "refresh" THEN [kind |-> "refresh", ran |-> "done", told |-> "outcome"]
       ELSE [kind |-> "apply", ran |-> "done", told |-> "outcome",
             adapter |-> @.adapter, alone |-> FALSE]]

\* _populate_adapter_table: keep the adapter that was selected when the refresh
\* began; the first full table also restores the saved ui state.
Populate(j) ==
    /\ job[j].ran = "listed"
    /\ adapters' = job[j].read
    /\ pending' = FALSE
    /\ row' = IF pending THEN SavedAdapter
              ELSE IF job[j].keep # None THEN job[j].keep ELSE CHOOSE a \in Adapters : TRUE
    /\ job' = Told(job, j)
    /\ UNCHANGED stale

\* The error slot and _handle_operation_result of an apply that failed: a message.
Fails(j) ==
    /\ job[j].ran = "failed"
    /\ job' = Told(job, j)
    /\ stale' = TRUE
    /\ UNCHANGED table

\* mutant: the call of refresh_adapters is missing.
NoRefresh(j) == job' = Told(job, j) /\ UNCHANGED stale

\* _handle_operation_result of a success: the table is read again, whatever else
\* is being done.
RefreshAfter(j) ==
    \E k \in Jobs :
       /\ Idle(k)
       /\ job' = Submitted(Told(job, j), k, Refresh)
       /\ stale' = (Alive("refresh") # {})

Applied(j) ==
    /\ job[j].ran = "succeeded"
    /\ RefreshAfter(j)
    /\ UNCHANGED table

DeliverOutcome(j) ==
    /\ job[j].told = "started"
    /\ Populate(j) \/ Fails(j) \/ Applied(j)
    /\ UNCHANGED <<conf, loading, box>>

\* mutant: on_finished of an apply enables the table as well.
LoadingAfterAny(j) == FALSE

\* on_finished of a refresh is _set_loading(False).
LoadingAfter(j) == loading /\ job[j].kind # "refresh"

DeliverFinished(j) ==
    /\ job[j].told = "outcome"
    /\ job' = [job EXCEPT ![j] = NoJob]
    /\ loading' = LoadingAfter(j)
    /\ UNCHANGED <<conf, table, box, stale>>

-----------------------------------------------------------------------------
Worker(j) ==
    \/ ReadAdapters(j) \/ Raises(j) \/ NetshAddress(j) \/ NetshDns(j)
    \/ CleanupStatic(j) \/ FallbackStatic(j) \/ CleanupDhcp(j) \/ FallbackDhcp(j)

Deliver(j) == DeliverStarted(j) \/ DeliverOutcome(j) \/ DeliverFinished(j)

User ==
    \/ \E j \in Jobs : RefreshAdapters(j) \/ StartApply(j)
    \/ \E a \in Adapters : SelectAdapter(a)
    \/ Decline
    \/ \E setting \in Settings : ApplyForm(setting) \/ \E own \in Adapters : ApplyProfile(setting, own)

Next == User \/ \E j \in Jobs : Worker(j) \/ Deliver(j)

Spec == Init /\ [][Next]_vars

-----------------------------------------------------------------------------
(* Properties *)

\* An apply that ends well has done what it reports, if no other one for the
\* adapter was alive meanwhile: address and DNS of a static setting belong
\* together, DHCP has automatic DNS, and automatic address unless it fell back.
\* The gateway of a static setting is promised only by netsh: the fall-back
\* succeeds without it.  (The address is there; an older one beside it is not
\* looked at.)
SuccessMeansApplied ==
    \A j \in Jobs : At(j, "succeeded") /\ job[j].alone =>
        /\ Now(j).dns = Target(j)
        /\ Static(j) \/ job[j].ok => Now(j).address = Target(j)
        /\ Static(j) /\ job[j].ok => Now(j).gateway = Target(j)

\* The table and the refresh button are disabled only while a refresh runs whose end
\* enables them; and, unless refreshes overlap or a job has failed, all the while it runs.
DisabledWhileRefreshing ==
    LET running == \E j \in Alive("refresh") : job[j].told \in {"started", "outcome"}
    IN (loading => running) /\ (~stale /\ running => loading)

\* With all jobs done the table shows the configuration of the adapters, if the
\* last refresh had the table to itself and nothing has failed since.
TableSettles ==
    (\A j \in Jobs : Idle(j)) /\ adapters # None /\ ~stale => adapters = conf

=============================================================================
