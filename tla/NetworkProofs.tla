----------------------------- MODULE NetworkProofs -----------------------------
(***************************************************************************)
(* Proofs about the two tabs that show the network of this computer, whose *)
(* tables are filled by background jobs.                                   *)
(*                                                                         *)
(* The interface tab, for any number of adapters, of settings and of jobs  *)
(* alive at a time: a success that is reported is true, the table settles  *)
(* on the configuration of the adapters, and it is disabled only while a   *)
(* refresh runs.  The argument follows an apply through its commands       *)
(* (Applying), which only another apply for its adapter can disturb, and   *)
(* the configuration from the worker that reads it into the table          *)
(* (Settling), where every change is behind an outcome that either starts  *)
(* another refresh or is a failure.                                        *)
(*                                                                         *)
(* The wireless tab, for any access points, registries and downloads: its  *)
(* table follows the scan, the adapter and the filter; vendors once known  *)
(* stay; and its two flags stand for their jobs (Flagged), which is why    *)
(* one variable is enough for the scan.                                    *)
(***************************************************************************)
EXTENDS InterfaceTab, WirelessTab, SequenceTheorems, TLAPS

(* The interface tab *)

RefreshType == [kind : {"refresh"}, ran : {"read", "listed", "failed"},
                told : {"submitted", "started"}, keep : Adapters \cup {None},
                read : [Adapters -> Conf] \cup {None}]
ApplyType   == [kind : {"apply"}, told : {"started"},
                ran : {"address", "dns", "cleanup", "fallback", "succeeded", "failed"},
                adapter : Adapters, setting : Settings, ok : BOOLEAN, alone : BOOLEAN]
DoneType    == [kind : {"refresh"}, ran : {"done"}, told : {"outcome"}]
                 \cup [kind : {"apply"}, ran : {"done"}, told : {"outcome"},
                       adapter : Adapters, alone : {FALSE}]
JobType     == RefreshType \cup ApplyType \cup DoneType \cup {NoJob}
BoxType     == [kind : {"apply"}, adapter : Adapters, setting : Settings] \cup {NoBox}

-----------------------------------------------------------------------------
(* The inductive invariant *)

Shape ==
  /\ conf \in [Adapters -> Conf]
  /\ adapters \in [Adapters -> Conf] \cup {None} /\ row \in Adapters \cup {None}
  /\ pending \in BOOLEAN /\ loading \in BOOLEAN /\ stale \in BOOLEAN
  /\ box \in BoxType
  /\ job \in [Jobs -> JobType]
  /\ \A j \in Jobs : job[j].kind = "refresh" /\ job[j].ran = "listed" =>
       job[j].read \in [Adapters -> Conf]

\* An apply that is alone shares its adapter with no other one
Alone ==
  \A j, k \in Jobs :
     job[j].kind = "apply" /\ job[j].alone /\ k # j /\ job[k].kind = "apply" =>
        job[k].adapter # job[j].adapter

Applies(j) == job[j] \in ApplyType
Reads(j)   == job[j] \in RefreshType

\* What the commands that an apply has run have done to its adapter
Rightly(work, now) ==
  /\ work.ran = "fallback" => ~work.ok
  /\ work.alone =>
       /\ /\ work.ran \in {"dns", "cleanup", "succeeded"}
          /\ work.setting \in Statics \/ work.ok
          => now.address = work.setting
       /\ /\ work.ran \in {"dns", "cleanup", "succeeded"}
          /\ work.setting \in Statics /\ work.ok
          => now.gateway = work.setting
       /\ \/ work.ran = "cleanup" /\ (work.setting \in Statics \/ work.ok)
          \/ work.ran = "succeeded"
          => now.dns = work.setting

Applying == \A j \in Jobs : Applies(j) => Rightly(job[j], Now(j))

\* Unless something is stale, one refresh is alive, and when the outcomes of all
\* applies are delivered it reads, or has read, the configuration, or the table has it
Settling ==
  ~stale =>
    /\ \A j, k \in Alive("refresh") : j = k
    /\ (\A j \in Jobs : ~Applies(j)) =>
         \/ \E j \in Jobs : Reads(j) /\ job[j].ran \in {"read", "failed"}
         \/ \E j \in Jobs : Reads(j) /\ job[j].ran = "listed" /\ job[j].read = conf
         \/ (\A j \in Jobs : ~Reads(j)) /\ adapters \in {None, conf}

\* A refresh whose start is delivered and whose end is not
Running(j) == job[j].kind = "refresh" /\ job[j].told \in {"started", "outcome"}

\* The table is disabled for a refresh that runs, and for the only one there is
Disabled ==
  /\ loading => \E j \in Jobs : Running(j)
  /\ ~stale /\ (\E j \in Jobs : Running(j)) => loading

IInv == Shape /\ Alone /\ Applying /\ Settling /\ Disabled

-----------------------------------------------------------------------------
(* What the steps do to the jobs *)

\* A job is idle, a refresh or an apply at work, or one whose outcome is delivered.
LEMMA Kinds ==
  ASSUME Shape, NEW j \in Jobs
  PROVE  /\ job[j] \in JobType
         /\ Reads(j) => /\ job[j].kind = "refresh" /\ job[j].ran \in {"read", "listed", "failed"}
                        /\ job[j].told \in {"submitted", "started"}
         /\ Applies(j) => /\ job[j].kind = "apply" /\ job[j].told = "started"
                          /\ job[j].adapter \in Adapters /\ job[j].setting \in Settings
                          /\ job[j].ok \in BOOLEAN /\ job[j].alone \in BOOLEAN
         /\ job[j].kind = "refresh" => Reads(j) \/ (job[j].ran = "done" /\ job[j].told = "outcome")
         /\ job[j].kind = "apply" => \/ Applies(j)
                                     \/ /\ job[j].ran = "done" /\ job[j].told = "outcome"
                                        /\ job[j].adapter \in Adapters /\ job[j].alone = FALSE
         /\ job[j].kind \in {"refresh", "apply"} \/ Idle(j)
         /\ Idle(j) => job[j].kind = "none" /\ job[j].told = "finished"
         /\ job[j].told = "outcome" => ~Reads(j) /\ ~Applies(j)
<1>1. job[j] \in JobType
  BY DEF Shape
<1>2. /\ Reads(j) => /\ job[j].kind = "refresh" /\ job[j].ran \in {"read", "listed", "failed"}
                     /\ job[j].told \in {"submitted", "started"}
      /\ Applies(j) => /\ job[j].kind = "apply" /\ job[j].told = "started"
                       /\ job[j].adapter \in Adapters /\ job[j].setting \in Settings
                       /\ job[j].ok \in BOOLEAN /\ job[j].alone \in BOOLEAN
      /\ Idle(j) => job[j].kind = "none" /\ job[j].told = "finished"
  BY DEF Reads, Applies, RefreshType, ApplyType, Idle, NoJob
<1>3. \/ Reads(j) \/ Applies(j) \/ Idle(j)
      \/ job[j].kind = "refresh" /\ job[j].ran = "done" /\ job[j].told = "outcome"
      \/ /\ job[j].kind = "apply" /\ job[j].ran = "done" /\ job[j].told = "outcome"
         /\ job[j].adapter \in Adapters /\ job[j].alone = FALSE
  BY <1>1 DEF JobType, DoneType, Reads, Applies, Idle
<1> QED
  BY <1>1, <1>2, <1>3

\* An apply that is perhaps no longer alone is the same otherwise.
LEMMA NotAlone ==
  ASSUME NEW work \in JobType, work.kind = "apply", NEW c \in BOOLEAN, c => work.alone,
         NEW new, new = [work EXCEPT !.alone = c]
  PROVE  /\ new \in JobType /\ new.kind = "apply" /\ new.adapter = work.adapter
         /\ new.alone = c
         /\ new \in ApplyType <=> work \in ApplyType
         /\ new \in ApplyType => /\ new.ran = work.ran /\ new.setting = work.setting
                                 /\ new.ok = work.ok
<1>1. CASE work \in ApplyType
  <2>1. /\ new \in ApplyType /\ new.kind = "apply" /\ new.adapter = work.adapter
        /\ new.ran = work.ran /\ new.setting = work.setting /\ new.ok = work.ok /\ new.alone = c
    BY <1>1 DEF ApplyType
  <2> QED
    BY <1>1, <2>1 DEF JobType
<1>2. CASE work \in DoneType
  <2>1. work.ran = "done" /\ new.ran = "done" /\ new.kind = "apply" /\ new.adapter = work.adapter
    BY <1>2 DEF DoneType
  <2>2. new.alone = c /\ c = FALSE
    BY <1>2 DEF DoneType
  <2>3. new \notin ApplyType /\ work \notin ApplyType
    BY <2>1 DEF ApplyType
  <2>4. new \in JobType
    BY <1>2, <2>2 DEF DoneType, JobType
  <2> QED
    BY <2>1, <2>2, <2>3, <2>4
<1> QED
  BY <1>1, <1>2 DEF JobType, RefreshType, NoJob

\* A new job leaves the others alone, but an apply for the same adapter is no longer.
LEMMA SubmittedIs ==
  ASSUME NEW jobs \in [Jobs -> JobType], NEW j \in Jobs, NEW work \in JobType,
         NEW after, after = Submitted(jobs, j, work)
  PROVE  /\ after \in [Jobs -> JobType] /\ after[j] = work
         /\ \A k \in Jobs \ {j} :
              \/ after[k] = jobs[k] /\ (work.kind # "apply" \/ jobs[k].kind # "apply")
              \/ /\ work.kind = "apply" /\ jobs[k].kind = "apply" /\ after[k].kind = "apply"
                 /\ after[k].adapter = jobs[k].adapter
                 /\ after[k].alone => jobs[k].alone /\ jobs[k].adapter # work.adapter
                 /\ after[k] \in ApplyType <=> jobs[k] \in ApplyType
                 /\ after[k] \in ApplyType =>
                      /\ after[k].ran = jobs[k].ran /\ after[k].setting = jobs[k].setting
                      /\ after[k].ok = jobs[k].ok
<1>1. after[j] = work
  BY DEF Submitted
<1>2. ASSUME NEW k \in Jobs \ {j}, work.kind # "apply" \/ jobs[k].kind # "apply"
      PROVE  after[k] = jobs[k]
  BY <1>2 DEF Submitted
<1>3. ASSUME NEW k \in Jobs \ {j}, work.kind = "apply", jobs[k].kind = "apply"
      PROVE  /\ after[k] \in JobType /\ after[k].kind = "apply"
             /\ after[k].adapter = jobs[k].adapter
             /\ after[k].alone => jobs[k].alone /\ jobs[k].adapter # work.adapter
             /\ after[k] \in ApplyType <=> jobs[k] \in ApplyType
             /\ after[k] \in ApplyType =>
                  /\ after[k].ran = jobs[k].ran /\ after[k].setting = jobs[k].setting
                  /\ after[k].ok = jobs[k].ok
  <2>1. PICK c \in BOOLEAN : c = (jobs[k].alone /\ jobs[k].adapter # work.adapter)
    OBVIOUS
  <2>2. after[k] = [jobs[k] EXCEPT !.alone = c]
    BY <1>3, <2>1 DEF Submitted
  <2>3. PICK old \in JobType : old = jobs[k] /\ old.kind = "apply" /\ (c => old.alone)
    BY <1>3, <2>1
  <2>4. PICK new : new = after[k] /\ new = [old EXCEPT !.alone = c]
    BY <2>2, <2>3
  <2>5. /\ new \in JobType /\ new.kind = "apply" /\ new.adapter = old.adapter
        /\ new.alone = c
        /\ new \in ApplyType <=> old \in ApplyType
        /\ new \in ApplyType =>
             new.ran = old.ran /\ new.setting = old.setting /\ new.ok = old.ok
    BY <2>3, <2>4, NotAlone
  <2> QED
    BY <1>3, <2>1, <2>3, <2>4, <2>5
<1>4. \A k \in Jobs : after[k] \in JobType
  BY <1>1, <1>2, <1>3
<1>5. after \in [Jobs -> JobType]
  BY <1>4 DEF Submitted
<1> QED
  BY <1>1, <1>2, <1>3, <1>5

\* A refresh leaves all other jobs alone.
LEMMA AnotherRefresh ==
  ASSUME NEW jobs \in [Jobs -> JobType], NEW j \in Jobs, Refresh \in JobType, Refresh.kind # "apply"
  PROVE  Submitted(jobs, j, Refresh) = [jobs EXCEPT ![j] = Refresh]
BY DEF Submitted

\* A command of an apply: the job goes on, its adapter is left with a configuration.
Goes(j, new, now) ==
  /\ job' = [job EXCEPT ![j] = new]
  /\ conf' = [conf EXCEPT ![job[j].adapter] = now]
  /\ new \in ApplyType /\ now \in Conf
  /\ new.adapter = job[j].adapter /\ new.setting = job[j].setting /\ new.alone = job[j].alone

Commands == {"address", "dns", "cleanup", "fallback", "succeeded", "failed"}

\* The job goes on with a command.
LEMMA GoesOn ==
  ASSUME Shape, NEW j \in Jobs, Applies(j), NEW ran \in Commands, NEW now \in Conf,
         conf' = [conf EXCEPT ![job[j].adapter] = now], Ran(j, ran)
  PROVE  \E new \in ApplyType : Goes(j, new, now) /\ new.ran = ran /\ new.ok = job[j].ok
<1>1. PICK new : new = [job[j] EXCEPT !.ran = ran]
  OBVIOUS
<1>2. /\ new \in ApplyType /\ new.ran = ran /\ new.ok = job[j].ok /\ new.adapter = job[j].adapter
      /\ new.setting = job[j].setting /\ new.alone = job[j].alone
  BY <1>1 DEF Applies, ApplyType, Commands
<1>3. job' = [job EXCEPT ![j] = new]
  BY <1>1 DEF Ran, Shape
<1> QED
  BY <1>2, <1>3 DEF Goes

\* The job goes on because a command has failed.
LEMMA GoesOnBadly ==
  ASSUME Shape, NEW j \in Jobs, Applies(j), NEW ran \in Commands, NEW now \in Conf,
         conf' = [conf EXCEPT ![job[j].adapter] = now],
         job' = [job EXCEPT ![j].ran = ran, ![j].ok = FALSE]
  PROVE  \E new \in ApplyType : Goes(j, new, now) /\ new.ran = ran /\ new.ok = FALSE
<1>1. PICK new : new = [job[j] EXCEPT !.ran = ran]
  OBVIOUS
<1>2. PICK bad : bad = [new EXCEPT !.ok = FALSE]
  OBVIOUS
<1>3. new \in ApplyType /\ new.ran = ran
  BY <1>1 DEF Applies, ApplyType, Commands
<1>4. /\ bad \in ApplyType /\ bad.ran = ran /\ bad.ok = FALSE /\ bad.adapter = job[j].adapter
      /\ bad.setting = job[j].setting /\ bad.alone = job[j].alone
  BY <1>1, <1>2, <1>3 DEF Applies, ApplyType
<1>5. job' = [job EXCEPT ![j] = bad]
  BY <1>1, <1>2 DEF Shape
<1> QED
  BY <1>4, <1>5 DEF Goes

\* A command of an apply keeps what the apply needs.
LEMMA ApplySteps ==
  ASSUME Shape, NEW j \in Jobs, job[j].kind = "apply",
         \/ Raises(j) \/ NetshAddress(j) \/ NetshDns(j)
         \/ CleanupStatic(j) \/ FallbackStatic(j) \/ CleanupDhcp(j) \/ FallbackDhcp(j)
  PROVE  /\ Applies(j) /\ UNCHANGED Panel
         /\ \E new \in ApplyType, now \in Conf :
              Goes(j, new, now) /\ (Rightly(job[j], Now(j)) => Rightly(new, now))
<1>0. PICK a \in Adapters, t \in Settings :
        /\ a = job[j].adapter /\ t = job[j].setting /\ Applies(j)
        /\ job[j].ran \in Commands /\ job[j].ok \in BOOLEAN /\ job[j].alone \in BOOLEAN
        /\ conf \in [Adapters -> Conf] /\ conf[a] \in Conf
  <2>1. Applies(j)
    BY Kinds DEF Raises, NetshAddress, NetshDns, CleanupStatic, FallbackStatic, CleanupDhcp,
                 FallbackDhcp, At
  <2> QED
    BY <2>1, Kinds DEF Shape, Applies, ApplyType, Commands
<1>1. /\ conf[a].address \in Settings \cup {"none"} /\ conf[a].dns \in Settings
      /\ conf[a].gateway \in Statics \cup {"other"}
      /\ Now(j) = conf[a] /\ Target(j) = t /\ Static(j) = (t \in Statics)
      /\ t \in Statics \/ t = "dhcp"
  BY <1>0 DEF Conf, Now, Target, Static, Settings
<1>2. \A address \in Settings \cup {"none"}, gateway \in Statics \cup {"other"}, dns \in Settings :
        [address |-> address, gateway |-> gateway, dns |-> dns] \in Conf
  BY DEF Conf
<1>3. conf' = conf => conf' = [conf EXCEPT ![a] = conf[a]]
  BY <1>0
<1>4. \A address \in Settings \cup {"none"} :
         Silently(address) \subseteq Settings \cup {"none"}
  BY DEF Silently, Settings
<1>5. "dhcp" \in Settings /\ "dhcp" \notin Statics
  BY PanelAssumption DEF Settings
<1>6. ASSUME NEW ran \in Commands, NEW now \in Conf, conf' = [conf EXCEPT ![a] = now],
             job' = [job EXCEPT ![j].ran = ran, ![j].ok = FALSE]
      PROVE  \E new \in ApplyType : Goes(j, new, now) /\ new.ran = ran /\ new.ok = FALSE
  <2>1. conf' = [conf EXCEPT ![job[j].adapter] = now] /\ Applies(j)
    BY <1>0, <1>6
  <2> QED
    BY <1>6, <2>1, GoesOnBadly
<1>7. ASSUME NEW ran \in Commands, NEW now \in Conf, conf' = [conf EXCEPT ![a] = now], Ran(j, ran)
       PROVE  \E new \in ApplyType : Goes(j, new, now) /\ new.ran = ran /\ new.ok = job[j].ok
  <2>1. conf' = [conf EXCEPT ![job[j].adapter] = now]
    BY <1>0, <1>7
  <2>2. Applies(j) /\ Ran(j, ran)
    BY <1>0, <1>7
  <2> QED
    BY <2>1, <2>2, GoesOn, ZenonT(30)
<1>8. \A ran \in {"address", "dns", "cleanup", "fallback", "succeeded", "failed"} : ran \in Commands
  BY DEF Commands
<1>9. CASE Raises(j)
  <2>1. \E new \in ApplyType : Goes(j, new, conf[a]) /\ new.ran = "failed" /\ new.ok = job[j].ok
    BY <1>0, <1>3, <1>7, <1>9 DEF Raises, Panel, Commands
  <2> QED
    BY <1>0, <1>9, <2>1 DEF Raises, Rightly, Goes
<1>10. CASE NetshAddress(j)
  <2>0. GatewayOf(t) \in Statics \cup {"other"} /\ (t \in Statics => GatewayOf(t) = t)
    BY DEF GatewayOf
  <2>1. PICK now \in Conf : now = [address |-> t, gateway |-> GatewayOf(t), dns |-> conf[a].dns]
    BY <1>0, <1>1, <1>2, <2>0
  <2>2. ASSUME conf' = [conf EXCEPT ![a] = now], Ran(j, "dns")
        PROVE  \E new \in ApplyType : Goes(j, new, now) /\ Rightly(new, now)
    <3>1. PICK new \in ApplyType : Goes(j, new, now) /\ new.ran = "dns"
      BY <1>7, <1>8, <2>2
    <3> QED
      BY <1>0, <2>0, <2>1, <3>1 DEF Goes, Rightly
  <2>3. ASSUME NEW any \in Conf, conf' = [conf EXCEPT ![a] = any],
               job' = [job EXCEPT ![j].ran = IF Static(j) THEN "fallback" ELSE "dns", ![j].ok = FALSE]
        PROVE  \E new \in ApplyType : Goes(j, new, any) /\ Rightly(new, any)
    <3>1. PICK ran \in Commands : ran = IF Static(j) THEN "fallback" ELSE "dns"
      BY <1>8
    <3>2. PICK new \in ApplyType : Goes(j, new, any) /\ new.ok = FALSE /\ new.ran = ran
      BY <1>6, <2>3, <3>1
    <3> QED
      BY <1>0, <1>1, <3>1, <3>2 DEF Goes, Rightly
  <2>4. UNCHANGED Panel
    BY <1>10 DEF NetshAddress
  <2> QED
    BY <1>0, <1>1, <1>3, <1>10, <2>1, <2>2, <2>3, <2>4 DEF NetshAddress, Configure
<1>11. CASE NetshDns(j)
  <2>0. job[j].ran = "dns"
    BY <1>11 DEF NetshDns, At
  <2>1. PICK now \in Conf :
          now = [address |-> conf[a].address, gateway |-> conf[a].gateway, dns |-> t]
    BY <1>0, <1>1, <1>2
  <2>2. ASSUME conf' = [conf EXCEPT ![a] = now], Ran(j, "cleanup")
        PROVE  \E new \in ApplyType : Goes(j, new, now) /\ (Rightly(job[j], Now(j)) => Rightly(new, now))
    <3>1. PICK new \in ApplyType : Goes(j, new, now) /\ new.ran = "cleanup" /\ new.ok = job[j].ok
      BY <1>7, <1>8, <2>2, ZenonT(30)
    <3> QED
      BY <1>0, <1>1, <2>0, <2>1, <3>1 DEF Goes, Rightly
  <2>3. ASSUME NEW any \in Conf, conf' = [conf EXCEPT ![a] = any],
               job' = [job EXCEPT ![j].ran = AfterDnsFailure(j), ![j].ok = FALSE]
        PROVE  \E new \in ApplyType : Goes(j, new, any) /\ Rightly(new, any)
    <3>1. PICK ran \in Commands :
            ran = AfterDnsFailure(j) /\ ran = IF Static(j) THEN "fallback" ELSE "cleanup"
      BY <1>8 DEF AfterDnsFailure
    <3>2. PICK new \in ApplyType : Goes(j, new, any) /\ new.ok = FALSE /\ new.ran = ran
      BY <1>6, <2>3, <3>1
    <3> QED
      BY <1>0, <1>1, <3>1, <3>2 DEF Goes, Rightly
  <2>4. UNCHANGED Panel
    BY <1>11 DEF NetshDns
  <2> QED
    BY <1>0, <1>1, <1>3, <1>11, <2>1, <2>2, <2>3, <2>4 DEF NetshDns, Configure
<1>12. CASE CleanupStatic(j)
  <2>0. job[j].ran = "cleanup" /\ t \in Statics
    BY <1>1, <1>12 DEF CleanupStatic, At
  <2>1. ASSUME NEW now \in Conf, conf' = [conf EXCEPT ![a] = now], now.dns = conf[a].dns,
               now.gateway = conf[a].gateway, conf[a].address = t => now.address = t
        PROVE  \E new \in ApplyType : Goes(j, new, now) /\ (Rightly(job[j], Now(j)) => Rightly(new, now))
    <3>1. PICK new \in ApplyType : Goes(j, new, now) /\ new.ran = "succeeded" /\ new.ok = job[j].ok
      BY <1>7, <1>12, <1>8, <2>1 DEF CleanupStatic
    <3>2. /\ now.dns = conf[a].dns /\ now.gateway = conf[a].gateway
          /\ new.setting = t /\ new.alone = job[j].alone
      BY <1>0, <2>1, <3>1 DEF Goes
    <3> QED
      BY <1>0, <1>1, <2>0, <2>1, <3>1, <3>2 DEF Rightly
  <2>2. PICK now \in Conf : now = [address |-> IF conf[a].address = t THEN t ELSE "none",
                                   gateway |-> conf[a].gateway, dns |-> conf[a].dns]
    BY <1>0, <1>1, <1>2
  <2>3. UNCHANGED Panel
    BY <1>12 DEF CleanupStatic
  <2> QED
    BY <1>0, <1>1, <1>3, <1>12, <2>1, <2>2, <2>3 DEF CleanupStatic, Configure
<1>13. CASE FallbackStatic(j)
  <2>0. job[j].ran = "fallback" /\ t \in Statics
    BY <1>1, <1>13 DEF FallbackStatic, At
  <2>1. /\ Rerouted(j) \subseteq Statics \cup {"other"}
        /\ Now(j).address = conf[a].address /\ Now(j).gateway = conf[a].gateway
        /\ Now(j).dns = conf[a].dns
    BY <1>1, <2>0 DEF Rerouted
  <2>2. ASSUME NEW both \in Conf, both.address = t, both.dns = t,
               conf' = [conf EXCEPT ![a] = both], Ran(j, "cleanup")
        PROVE  \E new \in ApplyType : Goes(j, new, both) /\ (Rightly(job[j], Now(j)) => Rightly(new, both))
    <3>1. PICK new \in ApplyType : Goes(j, new, both) /\ new.ran = "cleanup" /\ new.ok = job[j].ok
      BY <1>7, <1>8, <2>2, ZenonT(30)
    <3>2. new.setting = t /\ (Rightly(job[j], Now(j)) => ~new.ok)
      BY <1>0, <2>0, <3>1 DEF Goes, Rightly
    <3> QED
      BY <2>2, <3>1, <3>2 DEF Rightly
  <2>3. ASSUME NEW now \in Conf, conf' = [conf EXCEPT ![a] = now], Ran(j, "failed")
        PROVE  \E new \in ApplyType : Goes(j, new, now) /\ Rightly(new, now)
    <3>1. PICK new \in ApplyType : Goes(j, new, now) /\ new.ran = "failed"
      BY <1>7, <1>8, <2>3
    <3> QED
      BY <3>1 DEF Rightly
  <2>4. UNCHANGED Panel
    BY <1>13 DEF FallbackStatic
  <2>5. ASSUME NEW gateway \in Rerouted(j), Configure(j, Target(j), gateway, Target(j)), Ran(j, "cleanup")
        PROVE  \E new \in ApplyType, now \in Conf :
                 Goes(j, new, now) /\ (Rightly(job[j], Now(j)) => Rightly(new, now))
    <3>1. PICK both \in Conf : both = [address |-> t, gateway |-> gateway, dns |-> t]
      BY <1>0, <1>2, <2>1, <2>5
    <3>2. conf' = [conf EXCEPT ![a] = both] /\ both.address = t /\ both.dns = t
      BY <1>0, <1>1, <2>5, <3>1 DEF Configure
    <3> QED
      BY <2>2, <2>5, <3>2
  <2>6. ASSUME NEW address \in Settings \cup {"none"}, NEW gateway \in Statics \cup {"other"},
               NEW dns \in Settings, Configure(j, address, gateway, dns), Ran(j, "failed")
        PROVE  \E new \in ApplyType, now \in Conf : Goes(j, new, now) /\ Rightly(new, now)
    <3>1. PICK now \in Conf : now = [address |-> address, gateway |-> gateway, dns |-> dns]
      BY <1>2, <2>6
    <3>2. conf' = [conf EXCEPT ![a] = now]
      BY <1>0, <2>6, <3>1 DEF Configure
    <3> QED
      BY <2>3, <2>6, <3>2
  <2>7. CASE Ran(j, "failed") /\ \E address \in {Now(j).address, "none"} :
               Configure(j, address, Now(j).gateway, Now(j).dns)
    <3>1. \A address \in {Now(j).address, "none"} : address \in Settings \cup {"none"}
      BY <1>1, <2>1
    <3> QED
      BY <1>0, <1>1, <2>1, <2>4, <2>6, <2>7, <3>1
  <2>8. CASE Ran(j, "failed") /\ \E gateway \in Rerouted(j), dns \in {Now(j).dns, Target(j)} :
               Configure(j, Target(j), gateway, dns)
    <3>1. /\ \A dns \in {Now(j).dns, Target(j)} : dns \in Settings
          /\ Target(j) \in Settings \cup {"none"}
      BY <1>0, <1>1, <2>1
    <3> QED
      BY <1>0, <2>1, <2>4, <2>6, <2>8, <3>1
  <2> QED
    BY <1>0, <1>13, <2>4, <2>5, <2>7, <2>8 DEF FallbackStatic
<1>14. CASE CleanupDhcp(j)
  <2>0. job[j].ran = "cleanup" /\ t = "dhcp" /\ t \notin Statics
    BY <1>1, <1>14 DEF CleanupDhcp, At
  <2>1. PICK address \in Silently(conf[a].address), dns \in {conf[a].dns, "dhcp"},
             gateway \in {conf[a].gateway, "other"} :
          conf' = [conf EXCEPT ![a] = [address |-> address, gateway |-> gateway, dns |-> dns]]
    <3>1. /\ Now(j).address = conf[a].address /\ Now(j).gateway = conf[a].gateway
          /\ Now(j).dns = conf[a].dns
      BY <1>1
    <3>2. PICK address \in Silently(conf[a].address), dns \in {conf[a].dns, "dhcp"},
               gateway \in {conf[a].gateway, "other"} : Configure(j, address, gateway, dns)
      BY <1>14, <3>1 DEF CleanupDhcp
    <3> QED
      BY <1>0, <3>2 DEF Configure
  <2>2. PICK now \in Conf : now = [address |-> address, gateway |-> gateway, dns |-> dns]
    BY <1>1, <1>2, <1>4, <1>5, <2>1
  <2>3. PICK ran \in Commands : ran = IF job[j].ok THEN "succeeded" ELSE "fallback"
    BY <1>8
  <2>4. PICK new \in ApplyType : Goes(j, new, now) /\ new.ok = job[j].ok /\ new.ran = ran
    BY <1>7, <1>14, <2>1, <2>2, <2>3 DEF CleanupDhcp
  <2>5. conf[a].address = t => address = t
    BY <1>5, <2>0, <2>1 DEF Silently
  <2>6. Rightly(job[j], Now(j)) => Rightly(new, now)
    <3>1. /\ new.setting = t /\ new.alone = job[j].alone /\ job[j].setting = t
          /\ now.address = address /\ now.dns = dns
      BY <1>0, <2>2, <2>4 DEF Goes
    <3>2. CASE job[j].ok
      BY <1>1, <2>0, <2>1, <2>4, <2>5, <2>3, <3>1, <3>2 DEF Rightly
    <3>3. CASE ~job[j].ok
      BY <2>0, <2>4, <2>3, <3>1, <3>3 DEF Rightly
    <3> QED
      BY <3>2, <3>3
  <2> QED
    BY <1>0, <1>14, <2>4, <2>6 DEF CleanupDhcp
<1>15. CASE FallbackDhcp(j)
  <2>0. job[j].ran = "fallback" /\ t = "dhcp" /\ t \notin Statics
    BY <1>1, <1>15 DEF FallbackDhcp, At
  <2>1. PICK address \in Silently(conf[a].address), gateway \in {conf[a].gateway, "other"},
             dns \in {conf[a].dns, "dhcp"}, ran \in Commands :
          /\ conf' = [conf EXCEPT ![a] = [address |-> address, gateway |-> gateway, dns |-> dns]]
          /\ Ran(j, ran) /\ ran \in {"succeeded", "failed"} /\ (ran = "succeeded" => dns = "dhcp")
    <3>1. /\ Now(j).address = conf[a].address /\ Now(j).gateway = conf[a].gateway
          /\ Now(j).dns = conf[a].dns
      BY <1>1
    <3>2. PICK address \in Silently(conf[a].address) :
            \/ /\ \E gateway \in {conf[a].gateway, "other"} : Configure(j, address, gateway, "dhcp")
               /\ Ran(j, "succeeded")
            \/ Configure(j, address, conf[a].gateway, conf[a].dns) /\ Ran(j, "failed")
      BY <1>15, <3>1 DEF FallbackDhcp
    <3>3. CASE Ran(j, "succeeded") /\ \E gateway \in {conf[a].gateway, "other"} :
                 Configure(j, address, gateway, "dhcp")
      BY <1>0, <1>8, <3>3 DEF Configure
    <3>4. CASE Configure(j, address, conf[a].gateway, conf[a].dns) /\ Ran(j, "failed")
      BY <1>0, <1>8, <3>4 DEF Configure
    <3> QED
      BY <3>2, <3>3, <3>4
  <2>2. PICK now \in Conf : now = [address |-> address, gateway |-> gateway, dns |-> dns]
    BY <1>1, <1>2, <1>4, <1>5, <2>1
  <2>4. PICK new \in ApplyType : Goes(j, new, now) /\ new.ok = job[j].ok /\ new.ran = ran
    BY <1>7, <2>1, <2>2
  <2>5. Rightly(job[j], Now(j)) => Rightly(new, now)
    <3>1. new.setting = t /\ now.dns = dns /\ t \notin Statics /\ new.ran \in {"succeeded", "failed"}
      BY <1>0, <2>0, <2>1, <2>2, <2>4 DEF Goes
    <3>2. Rightly(job[j], Now(j)) => ~new.ok
      BY <2>0, <2>4 DEF Rightly
    <3>3. new.ran = "succeeded" => now.dns = t
      BY <2>0, <2>1, <2>4, <3>1
    <3> QED
      BY <3>1, <3>2, <3>3 DEF Rightly
  <2> QED
    BY <1>0, <1>15, <2>4, <2>5 DEF FallbackDhcp
<1> QED
  BY <1>9, <1>10, <1>11, <1>12, <1>13, <1>14, <1>15

\* The worker of a refresh reads the configuration, or fails; started is delivered.
LEMMA RefreshSteps ==
  ASSUME Shape, NEW j \in Jobs,
         ReadAdapters(j) \/ (Raises(j) /\ job[j].kind = "refresh") \/ DeliverStarted(j)
  PROVE  /\ Reads(j) /\ UNCHANGED <<conf, table, box, stale>> /\ loading' \in BOOLEAN
         /\ \E new \in RefreshType :
              /\ job' = [job EXCEPT ![j] = new]
              /\ \/ new.ran = job[j].ran /\ new.read = job[j].read
                 \/ new.ran = "listed" /\ new.read = conf
                 \/ new.ran = "failed"
<1>0. conf \in [Adapters -> Conf] /\ job \in [Jobs -> JobType]
  BY DEF Shape
<1>1. CASE ReadAdapters(j)
  <2>1. Reads(j) /\ job[j] \in RefreshType
    BY <1>1, Kinds DEF ReadAdapters, Reads
  <2>2. PICK mid : mid = [job[j] EXCEPT !.ran = "listed"]
    OBVIOUS
  <2>3. PICK new : new = [mid EXCEPT !.read = conf]
    OBVIOUS
  <2>4. mid \in RefreshType /\ mid.ran = "listed"
    BY <2>1, <2>2 DEF RefreshType
  <2>5. new \in RefreshType /\ new.ran = "listed" /\ new.read = conf
    BY <1>0, <2>3, <2>4 DEF RefreshType
  <2>6. job' = [job EXCEPT ![j] = new]
    BY <1>0, <1>1, <2>2, <2>3 DEF ReadAdapters
  <2> QED
    BY <1>1, <2>1, <2>5, <2>6 DEF ReadAdapters, Panel, table, Shape
<1>2. CASE Raises(j) /\ job[j].kind = "refresh"
  <2>1. Reads(j) /\ job[j] \in RefreshType
    BY <1>2, Kinds DEF Raises, Reads
  <2>2. PICK new : new = [job[j] EXCEPT !.ran = "failed"]
    OBVIOUS
  <2>3. new \in RefreshType /\ new.ran = "failed"
    BY <2>1, <2>2 DEF RefreshType
  <2>4. job' = [job EXCEPT ![j] = new]
    BY <1>0, <1>2, <2>2 DEF Raises, Ran
  <2> QED
    BY <1>2, <2>1, <2>3, <2>4 DEF Raises, Panel, table, Shape
<1>3. CASE DeliverStarted(j)
  <2>1. Reads(j) /\ job[j] \in RefreshType
    BY <1>3, Kinds DEF DeliverStarted, Reads
  <2>2. PICK new : new = [job[j] EXCEPT !.told = "started"]
    OBVIOUS
  <2>3. new \in RefreshType /\ new.ran = job[j].ran /\ new.read = job[j].read
    BY <2>1, <2>2 DEF RefreshType
  <2>4. job' = [job EXCEPT ![j] = new]
    BY <1>0, <1>3, <2>2 DEF DeliverStarted
  <2> QED
    BY <1>3, <2>1, <2>3, <2>4 DEF DeliverStarted, table
<1> QED
  BY <1>1, <1>2, <1>3

\* A job is over for the panel: only its kind and its adapter are left.
LEMMA ToldIs ==
  ASSUME Shape, NEW j \in Jobs, job[j].told = "started"
  PROVE  /\ Told(job, j) \in [Jobs -> JobType]
         /\ \A k \in Jobs \ {j} : Told(job, j)[k] = job[k]
         /\ Told(job, j)[j] \in DoneType /\ Told(job, j)[j].kind = job[j].kind
         /\ Told(job, j)[j].ran = "done" /\ Told(job, j)[j].told = "outcome"
         /\ job[j].kind = "apply" => /\ Told(job, j)[j].adapter = job[j].adapter
                                     /\ Told(job, j)[j].alone = FALSE
<1>0. job \in [Jobs -> JobType] /\ (Reads(j) \/ Applies(j))
  <2>1. Reads(j) \/ Applies(j)
    BY Kinds
  <2> QED
    BY <2>1 DEF Shape
<1>1. CASE Reads(j)
  <2>1. job[j].kind = "refresh"
    BY <1>1, Kinds
  <2>2. PICK new : new = [kind |-> "refresh", ran |-> "done", told |-> "outcome"]
    OBVIOUS
  <2>3. /\ new \in DoneType /\ new \in JobType
        /\ new.kind = "refresh" /\ new.ran = "done" /\ new.told = "outcome"
    BY <2>2 DEF DoneType, JobType
  <2>4. Told(job, j) = [job EXCEPT ![j] = new]
    BY <1>0, <2>1, <2>2 DEF Told
  <2>5. Told(job, j)[j] = new
    BY <1>0, <2>4
  <2> QED
    BY <1>0, <2>1, <2>3, <2>4, <2>5
<1>2. CASE Applies(j)
  <2>1. job[j].kind = "apply" /\ job[j].adapter \in Adapters
    BY <1>2, Kinds
  <2>2. PICK new : new = [kind |-> "apply", ran |-> "done", told |-> "outcome",
                          adapter |-> job[j].adapter, alone |-> FALSE]
    OBVIOUS
  <2>3. /\ new \in DoneType /\ new \in JobType
        /\ new.kind = "apply" /\ new.ran = "done" /\ new.told = "outcome"
        /\ new.adapter = job[j].adapter /\ new.alone = FALSE
    BY <2>1, <2>2 DEF DoneType, JobType
  <2>4. Told(job, j) = [job EXCEPT ![j] = new]
    BY <1>0, <2>1, <2>2 DEF Told
  <2>5. Told(job, j)[j] = new
    BY <1>0, <2>4
  <2> QED
    BY <1>0, <2>1, <2>3, <2>4, <2>5
<1> QED
  BY <1>0, <1>1, <1>2

\* A new refresh reads.
LEMMA RefreshIs ==
  ASSUME row \in Adapters \cup {None}
  PROVE  Refresh \in RefreshType /\ Refresh.kind = "refresh" /\ Refresh.ran = "read"
BY DEF Refresh, RefreshType

\* A new apply is about the question.
LEMMA ApplyIs ==
  ASSUME NEW a \in Adapters, NEW t \in Settings
  PROVE  /\ Apply(a, t) \in ApplyType /\ Apply(a, t).kind = "apply" /\ Apply(a, t).ran = "address"
         /\ Apply(a, t).adapter = a /\ Apply(a, t).setting = t
         /\ Apply(a, t).alone =>
              ~ \E j \in Jobs : job[j].kind = "apply" /\ job[j].adapter = a
BY DEF Apply, ApplyType

\* The table is filled, or the outcome is a failure, or a success and another refresh.
LEMMA OutcomeSteps ==
  ASSUME Shape, NEW j \in Jobs, DeliverOutcome(j)
  PROVE  /\ UNCHANGED <<conf, loading, box>> /\ job[j].told = "started"
         /\ \/ /\ Reads(j) /\ job[j].ran = "listed" /\ job' = Told(job, j)
               /\ adapters' = job[j].read /\ stale' = stale
            \/ job' = Told(job, j) /\ stale' = TRUE /\ adapters' = adapters
            \/ /\ Applies(j) /\ adapters' = adapters
               /\ \E k \in Jobs : /\ Idle(k) /\ job' = Submitted(Told(job, j), k, Refresh)
                                  /\ stale' = (Alive("refresh") # {})
         /\ adapters' \in [Adapters -> Conf] \cup {None} /\ row' \in Adapters \cup {None}
         /\ pending' \in BOOLEAN
<1>1. UNCHANGED <<conf, loading, box>> /\ job[j].told = "started" /\ (Reads(j) \/ Applies(j))
  BY Kinds DEF DeliverOutcome
<1>2. CASE Populate(j)
  <2>1. Reads(j) /\ job[j].ran = "listed" /\ job[j].read \in [Adapters -> Conf]
    BY <1>1, <1>2, Kinds DEF Populate, Shape, Applies, ApplyType
  <2>2. row' \in Adapters
    <3>1. job[j].keep \in Adapters \cup {None}
      BY <2>1 DEF Reads, RefreshType
    <3>2. (CHOOSE a \in Adapters : TRUE) \in Adapters /\ SavedAdapter \in Adapters
      BY PanelAssumption
    <3> QED
      BY <1>2, <3>1, <3>2 DEF Populate
  <2>3. /\ job' = Told(job, j) /\ adapters' = job[j].read /\ stale' = stale /\ pending' = FALSE
    BY <1>2 DEF Populate
  <2> QED
    BY <1>1, <2>1, <2>2, <2>3
<1>3. CASE Fails(j)
  BY <1>1, <1>3 DEF Fails, table, Shape
<1>4. CASE Applied(j)
  <2>1. Applies(j)
    BY <1>1, <1>4, Kinds DEF Applied
  <2> QED
    BY <1>1, <1>4, <2>1 DEF Applied, RefreshAfter, table, Shape
<1> QED
  BY <1>2, <1>3, <1>4 DEF DeliverOutcome

\* A step that leaves the configuration and the work of every apply alone.
Quiet ==
  /\ conf' = conf /\ job' \in [Jobs -> JobType]
  /\ \A k \in Jobs :
       /\ job'[k].kind = "apply" =>
            /\ job[k].kind = "apply" /\ job'[k].adapter = job[k].adapter
            /\ job'[k].alone => job'[k] = job[k]
       /\ job'[k] \in ApplyType => job'[k] = job[k]

\* Such a step keeps what is known of the applies.
LEMMA QuietKeeps ==
  ASSUME Shape, Alone, Applying, Quiet
  PROVE  Alone' /\ Applying'
<1>1. Applying'
  BY DEF Quiet, Applying, Applies, Now
<1>2. Alone'
  <2> SUFFICES ASSUME NEW j \in Jobs, NEW k \in Jobs, job'[j].kind = "apply", job'[j].alone,
                      k # j, job'[k].kind = "apply"
               PROVE  job'[k].adapter # job'[j].adapter
    BY DEF Alone
  <2>1. job'[j] = job[j] /\ job[j].kind = "apply" /\ job[j].alone
    BY DEF Quiet
  <2>2. job[k].kind = "apply" /\ job'[k].adapter = job[k].adapter
    BY DEF Quiet
  <2> QED
    BY <2>1, <2>2 DEF Alone
<1> QED
  BY <1>1, <1>2

\* Refreshes and the delivery of outcomes are quiet.
LEMMA QuietSteps ==
  ASSUME Shape, NEW j \in Jobs,
         \/ ReadAdapters(j) \/ (Raises(j) /\ job[j].kind = "refresh") \/ DeliverStarted(j)
         \/ RefreshAdapters(j) \/ DeliverOutcome(j) \/ DeliverFinished(j)
  PROVE  Quiet
<1>0. job \in [Jobs -> JobType] /\ row \in Adapters \cup {None}
  BY DEF Shape
<1>1. ASSUME NEW new \in JobType, job' = [job EXCEPT ![j] = new], conf' = conf,
             new \notin ApplyType,
             new.kind = "apply" => /\ job[j].kind = "apply" /\ new.adapter = job[j].adapter
                                   /\ new.alone = FALSE
      PROVE  Quiet
  BY <1>0, <1>1 DEF Quiet
<1>2. CASE ReadAdapters(j) \/ (Raises(j) /\ job[j].kind = "refresh") \/ DeliverStarted(j)
  <2>1. PICK new \in RefreshType : job' = [job EXCEPT ![j] = new] /\ conf' = conf
    BY <1>2, RefreshSteps
  <2>2. new \in JobType /\ new.kind # "apply" /\ new \notin ApplyType
    BY <2>1 DEF JobType, RefreshType, ApplyType
  <2> QED
    BY <1>1, <2>1, <2>2
<1>3. CASE DeliverFinished(j)
  <2>1. NoJob \in JobType /\ NoJob \notin ApplyType /\ NoJob.kind # "apply"
    BY DEF NoJob, ApplyType, JobType
  <2> QED
    BY <1>1, <1>3, <2>1 DEF DeliverFinished
<1>4. /\ Refresh \in JobType /\ Refresh \notin ApplyType /\ Refresh.kind = "refresh"
  BY <1>0, RefreshIs DEF JobType, ApplyType
<1>5. CASE RefreshAdapters(j)
  <2>1. /\ job' \in [Jobs -> JobType] /\ job'[j] = Refresh
        /\ \A k \in Jobs \ {j} : job'[k] = job[k]
    BY <1>0, <1>4, <1>5, SubmittedIs DEF RefreshAdapters
  <2> QED
    BY <1>4, <1>5, <2>1 DEF RefreshAdapters, Quiet
<1>6. CASE DeliverOutcome(j)
  <2>0. conf' = conf /\ job[j].told = "started"
    BY <1>6, OutcomeSteps
  <2>1. /\ Told(job, j) \in [Jobs -> JobType]
        /\ \A k \in Jobs \ {j} : Told(job, j)[k] = job[k]
        /\ Told(job, j)[j] \in DoneType /\ Told(job, j)[j].kind = job[j].kind
        /\ Told(job, j)[j].ran = "done"
        /\ job[j].kind = "apply" => /\ Told(job, j)[j].adapter = job[j].adapter
                                    /\ Told(job, j)[j].alone = FALSE
    BY <2>0, ToldIs
  <2>2. Told(job, j)[j] \notin ApplyType
    BY <2>1 DEF ApplyType
  <2>3. CASE job' = Told(job, j)
    BY <2>0, <2>1, <2>2, <2>3 DEF Quiet
  <2>4. ASSUME NEW k \in Jobs, job' = Submitted(Told(job, j), k, Refresh)
        PROVE  Quiet
    <3>1. /\ job' \in [Jobs -> JobType] /\ job'[k] = Refresh
          /\ \A i \in Jobs \ {k} : job'[i] = Told(job, j)[i]
      BY <1>4, <2>1, <2>4, AnotherRefresh
    <3> QED
      BY <1>4, <2>0, <2>1, <2>2, <3>1 DEF Quiet
  <2> QED
    BY <1>6, <2>3, <2>4, OutcomeSteps
<1> QED
  BY <1>2, <1>3, <1>5, <1>6

\* Every step is one of the user that starts no job, or starts one; one of a worker;
\* or the delivery of a callback.
LEMMA StepKinds ==
  ASSUME Shape, [Next]_vars
  PROVE  \/ /\ UNCHANGED <<conf, adapters, job, stale, pending, loading>>
            /\ row' \in Adapters \cup {None} /\ box' \in BoxType
         \/ \E j \in Jobs : \/ RefreshAdapters(j) \/ DeliverOutcome(j) \/ DeliverFinished(j)
                            \/ ReadAdapters(j) \/ (Raises(j) /\ job[j].kind = "refresh")
                            \/ DeliverStarted(j)
         \/ \E j \in Jobs : StartApply(j)
         \/ \E j \in Jobs :
              /\ job[j].kind = "apply"
              /\ \/ Raises(j) \/ NetshAddress(j) \/ NetshDns(j)
                 \/ CleanupStatic(j) \/ FallbackStatic(j) \/ CleanupDhcp(j) \/ FallbackDhcp(j)
<1>0. /\ row \in Adapters \cup {None} /\ box \in BoxType
      /\ adapters \in [Adapters -> Conf] \cup {None}
  BY DEF Shape
<1>1. ASSUME \/ \E a \in Adapters : SelectAdapter(a)
             \/ Decline
             \/ \E setting \in Settings : \/ ApplyForm(setting)
                                         \/ \E own \in Adapters : ApplyProfile(setting, own)
      PROVE  /\ UNCHANGED <<conf, adapters, job, stale, pending, loading>>
             /\ row' \in Adapters \cup {None} /\ box' \in BoxType
  <2>1. \A a \in Adapters, t \in Settings : [kind |-> "apply", adapter |-> a, setting |-> t] \in BoxType
    BY DEF BoxType
  <2>2. NoBox \in BoxType
    BY DEF BoxType
  <2>3. CASE \E a \in Adapters : SelectAdapter(a)
    BY <1>0, <2>3 DEF SelectAdapter
  <2>4. ASSUME NEW setting \in Settings, ApplyForm(setting)
        PROVE  /\ UNCHANGED <<conf, adapters, job, stale, pending, loading, row>> /\ box' \in BoxType
    <3>1. row \in Adapters
      BY <1>0, <2>4 DEF ApplyForm
    <3> QED
      BY <2>1, <2>4, <3>1 DEF ApplyForm, Confirm, table
  <2>5. ASSUME NEW setting \in Settings, NEW own \in Adapters, ApplyProfile(setting, own)
        PROVE  /\ UNCHANGED <<conf, adapters, job, stale, pending, loading, row>> /\ box' \in BoxType
    <3>1. PICK a \in Adapters : a = IF row # None THEN row ELSE own
      BY <1>0
    <3> QED
      BY <2>1, <2>5, <3>1 DEF ApplyProfile, Confirm, table
  <2>6. CASE Decline
    BY <1>0, <2>2, <2>6 DEF Decline, table
  <2> QED
    BY <1>0, <1>1, <2>3, <2>4, <2>5, <2>6
<1>2. CASE UNCHANGED vars
  BY <1>0, <1>2 DEF vars, table
<1>3. CASE User
  <2>1. CASE \E j \in Jobs : RefreshAdapters(j) \/ StartApply(j)
    BY <2>1
  <2> QED
    BY <1>1, <1>3, <2>1 DEF User
<1>4. CASE \E j \in Jobs : Worker(j)
  BY <1>4 DEF Worker, Raises, NetshAddress, NetshDns, CleanupStatic, FallbackStatic, CleanupDhcp,
              FallbackDhcp, At
<1>5. CASE \E j \in Jobs : Deliver(j)
  BY <1>5 DEF Deliver
<1> QED
  BY <1>2, <1>3, <1>4, <1>5 DEF Next

\* A job that starts to apply is about what the question showed, and nobody else's
\* work changes, but it may no longer be alone.
LEMMA StartSteps ==
  ASSUME Shape, NEW j \in Jobs, StartApply(j)
  PROVE  /\ UNCHANGED <<conf, table, loading, stale>> /\ box' = NoBox /\ Idle(j)
         /\ job' \in [Jobs -> JobType]
         /\ job'[j] \in ApplyType /\ job'[j].kind = "apply" /\ job'[j].ran = "address"
         /\ job'[j].adapter = box.adapter /\ job'[j].setting = box.setting
         /\ job'[j].alone =>
              ~ \E k \in Jobs : job[k].kind = "apply" /\ job[k].adapter = box.adapter
         /\ \A k \in Jobs \ {j} :
              \/ job'[k] = job[k] /\ job[k].kind # "apply"
              \/ /\ job[k].kind = "apply" /\ job'[k].kind = "apply"
                 /\ job'[k].adapter = job[k].adapter
                 /\ job'[k].alone => job[k].alone /\ job[k].adapter # box.adapter
                 /\ job'[k] \in ApplyType <=> job[k] \in ApplyType
                 /\ job'[k] \in ApplyType =>
                      /\ job'[k].ran = job[k].ran /\ job'[k].setting = job[k].setting
                      /\ job'[k].ok = job[k].ok
<1>1. box.adapter \in Adapters /\ box.setting \in Settings
  BY DEF StartApply, Shape, BoxType, NoBox
<1>2. PICK work \in ApplyType :
        /\ work = Apply(box.adapter, box.setting) /\ work.kind = "apply" /\ work.ran = "address"
        /\ work.adapter = box.adapter /\ work.setting = box.setting
        /\ work.alone => ~ \E k \in Jobs : job[k].kind = "apply" /\ job[k].adapter = box.adapter
  BY <1>1, ApplyIs
<1>3. work \in JobType /\ job \in [Jobs -> JobType] /\ job' = Submitted(job, j, work)
  BY <1>2 DEF JobType, Shape, StartApply
<1>4. /\ job' \in [Jobs -> JobType] /\ job'[j] = work
      /\ \A k \in Jobs \ {j} :
           \/ job'[k] = job[k] /\ (work.kind # "apply" \/ job[k].kind # "apply")
           \/ /\ work.kind = "apply" /\ job[k].kind = "apply" /\ job'[k].kind = "apply"
              /\ job'[k].adapter = job[k].adapter
              /\ job'[k].alone => job[k].alone /\ job[k].adapter # work.adapter
              /\ job'[k] \in ApplyType <=> job[k] \in ApplyType
              /\ job'[k] \in ApplyType =>
                   /\ job'[k].ran = job[k].ran /\ job'[k].setting = job[k].setting
                   /\ job'[k].ok = job[k].ok
  BY <1>3, SubmittedIs
<1>5. UNCHANGED <<conf, table, loading, stale>> /\ box' = NoBox /\ Idle(j)
  BY DEF StartApply
<1> QED
  BY <1>2, <1>4, <1>5

-----------------------------------------------------------------------------
(* Every step keeps the invariant *)

\* The variables keep their shape.
LEMMA ShapeStep == Shape /\ [Next]_vars => Shape'
<1> SUFFICES ASSUME Shape, [Next]_vars PROVE Shape'
  OBVIOUS
<1>0. job \in [Jobs -> JobType] /\ conf \in [Adapters -> Conf] /\ row \in Adapters \cup {None}
  BY DEF Shape
<1>1. CASE /\ UNCHANGED <<conf, adapters, job, stale, pending, loading>>
           /\ row' \in Adapters \cup {None} /\ box' \in BoxType
  BY <1>1 DEF Shape
<1>2. ASSUME NEW j \in Jobs, RefreshAdapters(j) PROVE Shape'
  <2>1. Quiet
    BY <1>2, QuietSteps
  <2>2. /\ Refresh \in JobType /\ Refresh.ran = "read"
    BY <1>0, RefreshIs DEF JobType
  <2>3. /\ job'[j] = Refresh /\ \A k \in Jobs \ {j} : job'[k] = job[k] \/ job'[k].kind = "apply"
    BY <1>0, <1>2, <2>2, SubmittedIs, RefreshIs DEF RefreshAdapters
  <2> QED
    BY <1>2, <2>1, <2>2, <2>3 DEF RefreshAdapters, Quiet, Shape, table
<1>3. ASSUME NEW j \in Jobs, DeliverOutcome(j) PROVE Shape'
  <2>1. Quiet
    BY <1>3, QuietSteps
  <2>2. /\ UNCHANGED <<conf, loading, box>> /\ stale' \in BOOLEAN
        /\ adapters' \in [Adapters -> Conf] \cup {None} /\ row' \in Adapters \cup {None}
        /\ pending' \in BOOLEAN
        /\ \/ job' = Told(job, j)
           \/ \E k \in Jobs : job' = Submitted(Told(job, j), k, Refresh)
    BY <1>3, OutcomeSteps DEF Shape
  <2>3. /\ Told(job, j) \in [Jobs -> JobType] /\ Told(job, j)[j].ran = "done"
        /\ \A k \in Jobs \ {j} : Told(job, j)[k] = job[k]
    BY <1>3, OutcomeSteps, ToldIs
  <2>4. \A k \in Jobs : Told(job, j)[k].kind = "refresh" /\ Told(job, j)[k].ran = "listed" =>
           Told(job, j)[k].read \in [Adapters -> Conf]
    BY <2>3 DEF Shape
  <2>5. ASSUME NEW k \in Jobs, job' = Submitted(Told(job, j), k, Refresh)
        PROVE  \A i \in Jobs : job'[i].kind = "refresh" /\ job'[i].ran = "listed" =>
                  job'[i].read \in [Adapters -> Conf]
    <3>1. Refresh \in JobType /\ Refresh.ran = "read" /\ Refresh.kind # "apply"
      BY <1>0, RefreshIs DEF JobType
    <3>2. job'[k] = Refresh /\ \A i \in Jobs \ {k} : job'[i] = Told(job, j)[i]
      BY <2>3, <2>5, <3>1, AnotherRefresh
    <3> QED
      BY <2>4, <3>1, <3>2
  <2> QED
    BY <2>1, <2>2, <2>4, <2>5 DEF Quiet, Shape
<1>4. ASSUME NEW j \in Jobs, DeliverFinished(j) PROVE Shape'
  <2>1. Quiet
    BY <1>4, QuietSteps
  <2>2. job' = [job EXCEPT ![j] = NoJob] /\ NoJob.kind = "none" /\ loading' \in BOOLEAN
    BY <1>4 DEF DeliverFinished, NoJob, LoadingAfter, Shape
  <2> QED
    BY <1>0, <1>4, <2>1, <2>2 DEF DeliverFinished, Quiet, Shape, table
<1>5. ASSUME NEW j \in Jobs,
             ReadAdapters(j) \/ (Raises(j) /\ job[j].kind = "refresh") \/ DeliverStarted(j)
      PROVE  Shape'
  <2>1. Quiet
    BY <1>5, QuietSteps
  <2>2. PICK new \in RefreshType :
          /\ job' = [job EXCEPT ![j] = new]
          /\ \/ new.ran = job[j].ran /\ new.read = job[j].read
             \/ new.ran = "listed" /\ new.read = conf
             \/ new.ran = "failed"
    BY <1>5, RefreshSteps
  <2>3. UNCHANGED <<conf, table, box, stale>> /\ loading' \in BOOLEAN /\ job[j].kind = "refresh"
    BY <1>5, RefreshSteps, Kinds
  <2>4. new.ran = "listed" => new.read \in [Adapters -> Conf]
    BY <1>0, <2>2, <2>3 DEF Shape
  <2>5. \A k \in Jobs : job'[k].kind = "refresh" /\ job'[k].ran = "listed" =>
           job'[k].read \in [Adapters -> Conf]
    BY <1>0, <2>2, <2>4 DEF Shape
  <2> QED
    BY <2>1, <2>3, <2>5 DEF Quiet, Shape, table
<1>6. ASSUME NEW j \in Jobs, StartApply(j) PROVE Shape'
  <2>1. /\ UNCHANGED <<conf, table, loading, stale>> /\ box' = NoBox
        /\ job' \in [Jobs -> JobType] /\ job'[j].kind = "apply"
        /\ \A k \in Jobs \ {j} : job'[k] = job[k] \/ job'[k].kind = "apply"
    BY <1>6, StartSteps
  <2>2. \A k \in Jobs : job'[k].kind = "refresh" /\ job'[k].ran = "listed" =>
           job'[k].read \in [Adapters -> Conf]
    BY <2>1 DEF Shape
  <2> QED
    BY <2>1, <2>2 DEF Shape, table, BoxType
<1>7. ASSUME NEW j \in Jobs, job[j].kind = "apply",
             \/ Raises(j) \/ NetshAddress(j) \/ NetshDns(j)
             \/ CleanupStatic(j) \/ FallbackStatic(j) \/ CleanupDhcp(j) \/ FallbackDhcp(j)
      PROVE  Shape'
  <2>1. PICK new \in ApplyType, now \in Conf : Goes(j, new, now)
    BY <1>7, ApplySteps
  <2>2. UNCHANGED Panel
    BY <1>7, ApplySteps
  <2>3. new \in JobType /\ new.kind = "apply"
    BY <2>1 DEF JobType, ApplyType
  <2>4. job' \in [Jobs -> JobType] /\ conf' \in [Adapters -> Conf]
    BY <1>0, <2>1, <2>3 DEF Goes
  <2>5. \A k \in Jobs : job'[k].kind = "refresh" /\ job'[k].ran = "listed" =>
           job'[k].read \in [Adapters -> Conf]
    BY <1>0, <2>1, <2>3 DEF Goes, Shape
  <2> QED
    BY <2>2, <2>4, <2>5 DEF Shape, Panel, table
<1> QED
  BY <1>1, <1>2, <1>3, <1>4, <1>5, <1>6, <1>7, StepKinds

\* A command of an apply disturbs nobody who is alone, and a new apply tells the others.
LEMMA ApplyingStep == Shape /\ Alone /\ Applying /\ [Next]_vars => Alone' /\ Applying'
<1> SUFFICES ASSUME Shape, Alone, Applying, [Next]_vars PROVE Alone' /\ Applying'
  OBVIOUS
<1>0. job \in [Jobs -> JobType] /\ conf \in [Adapters -> Conf]
  BY DEF Shape
<1>1. CASE UNCHANGED <<conf, job>>
  BY <1>1 DEF Alone, Applying, Applies, Now
<1>2. ASSUME NEW j \in Jobs,
             \/ RefreshAdapters(j) \/ DeliverOutcome(j) \/ DeliverFinished(j)
             \/ ReadAdapters(j) \/ (Raises(j) /\ job[j].kind = "refresh") \/ DeliverStarted(j)
      PROVE  Alone' /\ Applying'
  <2>1. Quiet
    BY <1>2, QuietSteps
  <2> QED
    BY <2>1, QuietKeeps
<1>3. ASSUME NEW j \in Jobs, StartApply(j) PROVE Alone' /\ Applying'
  <2>1. /\ conf' = conf /\ job'[j] \in ApplyType /\ job'[j].kind = "apply"
        /\ job'[j].ran = "address" /\ job'[j].adapter = box.adapter
        /\ job'[j].alone => \A k \in Jobs : job[k].kind = "apply" => job[k].adapter # box.adapter
    BY <1>3, StartSteps
  <2>2. \A k \in Jobs \ {j} :
          \/ job'[k] = job[k] /\ job[k].kind # "apply"
          \/ /\ job[k].kind = "apply" /\ job'[k].kind = "apply"
             /\ job'[k].adapter = job[k].adapter
             /\ job'[k].alone => job[k].alone /\ job[k].adapter # box.adapter
             /\ job'[k] \in ApplyType <=> job[k] \in ApplyType
             /\ job'[k] \in ApplyType =>
                  /\ job'[k].ran = job[k].ran /\ job'[k].setting = job[k].setting
                  /\ job'[k].ok = job[k].ok
    BY <1>3, StartSteps
  <2>3. ASSUME NEW i \in Jobs, NEW k \in Jobs, job'[i].kind = "apply", job'[i].alone,
               k # i, job'[k].kind = "apply"
        PROVE  job'[k].adapter # job'[i].adapter
    <3>1. CASE i = j
      BY <2>1, <2>2, <2>3, <3>1
    <3>2. CASE i # j /\ k = j
      BY <2>1, <2>2, <2>3, <3>2
    <3>3. CASE i # j /\ k # j
      BY <2>2, <2>3, <3>3 DEF Alone
    <3> QED
      BY <3>1, <3>2, <3>3
  <2>4. ASSUME NEW k \in Jobs, job'[k] \in ApplyType
        PROVE  Rightly(job'[k], conf'[job'[k].adapter])
    <3>1. CASE k = j
      BY <2>1, <3>1 DEF Rightly
    <3>2. CASE k # j
      <4>1. /\ job[k].kind = "apply" /\ job[k] \in ApplyType /\ job'[k].adapter = job[k].adapter
            /\ job'[k].alone => job[k].alone
            /\ job'[k].ran = job[k].ran /\ job'[k].setting = job[k].setting /\ job'[k].ok = job[k].ok
        BY <2>2, <2>4, <3>2 DEF ApplyType
      <4>2. Rightly(job[k], conf[job[k].adapter])
        BY <4>1 DEF Applying, Applies, Now
      <4> QED
        BY <2>1, <4>1, <4>2 DEF Rightly
    <3> QED
      BY <3>1, <3>2
  <2>5. Alone'
    BY <2>3 DEF Alone
  <2>6. Applying'
    BY <2>4 DEF Applying, Applies, Now
  <2> QED
    BY <2>5, <2>6
<1>4. ASSUME NEW j \in Jobs, job[j].kind = "apply",
             \/ Raises(j) \/ NetshAddress(j) \/ NetshDns(j)
             \/ CleanupStatic(j) \/ FallbackStatic(j) \/ CleanupDhcp(j) \/ FallbackDhcp(j)
      PROVE  Alone' /\ Applying'
  <2>1. Applies(j) /\ job[j].adapter \in Adapters
    BY <1>4, ApplySteps, Kinds
  <2>2. PICK new \in ApplyType, now \in Conf :
          Goes(j, new, now) /\ (Rightly(job[j], Now(j)) => Rightly(new, now))
    BY <1>4, ApplySteps
  <2>3. /\ job'[j] = new /\ new.kind = "apply" /\ new.adapter = job[j].adapter
        /\ new.alone = job[j].alone /\ conf'[job[j].adapter] = now
        /\ \A k \in Jobs \ {j} : job'[k] = job[k]
        /\ \A a \in Adapters : a # job[j].adapter => conf'[a] = conf[a]
    BY <1>0, <2>1, <2>2 DEF Goes, ApplyType
  <2>4. Alone'
    <3>1. \A k \in Jobs : /\ job'[k].kind = "apply" <=> job[k].kind = "apply"
                          /\ job'[k].kind = "apply" =>
                               /\ job'[k].adapter = job[k].adapter
                               /\ job'[k].alone = job[k].alone
      BY <1>4, <2>3
    <3> QED
      BY <3>1 DEF Alone
  <2>5. ASSUME NEW k \in Jobs, job'[k] \in ApplyType
        PROVE  Rightly(job'[k], conf'[job'[k].adapter])
    <3>1. CASE k = j
      <4>1. Rightly(job[j], Now(j))
        BY <2>1 DEF Applying
      <4> QED
        BY <2>2, <2>3, <3>1, <4>1
    <3>2. CASE k # j
      <4>1. /\ job'[k] = job[k] /\ Rightly(job[k], conf[job[k].adapter])
            /\ job[k].kind = "apply" /\ job[k].adapter \in Adapters
        BY <2>3, <2>5, <3>2 DEF Applying, Applies, Now, ApplyType
      <4>2. CASE job[k].alone
        <5>1. job[k].adapter # job[j].adapter
          BY <1>4, <3>2, <4>1, <4>2 DEF Alone
        <5> QED
          BY <2>3, <4>1, <5>1
      <4>3. CASE ~job[k].alone
        BY <4>1, <4>3 DEF Rightly
      <4> QED
        BY <4>2, <4>3
    <3> QED
      BY <3>1, <3>2
  <2>6. Applying'
    BY <2>5 DEF Applying, Applies, Now
  <2> QED
    BY <2>4, <2>6
<1> QED
  BY <1>1, <1>2, <1>3, <1>4, StepKinds

\* A refresh that has the panel to itself reads what the table will have.
LEMMA SettlingStep == Shape /\ Settling /\ [Next]_vars => Settling'
<1> SUFFICES ASSUME Shape, Settling, [Next]_vars, ~stale' PROVE Settling'
  BY DEF Settling
<1>0. /\ job \in [Jobs -> JobType] /\ conf \in [Adapters -> Conf]
      /\ row \in Adapters \cup {None}
  BY DEF Shape
<1>1. CASE UNCHANGED <<conf, adapters, job, stale>>
  BY <1>1 DEF Settling, Alive, Reads, Applies
<1>2. ASSUME NEW k \in Jobs, job'[k] = Refresh, Alive("refresh") = {},
             \A i \in Jobs \ {k} : job'[i].kind = "refresh" => job[i].kind = "refresh"
      PROVE  Settling'
  <2>1. job'[k] \in RefreshType /\ job'[k].ran = "read"
    BY <1>0, <1>2, RefreshIs
  <2>2. \A i \in Jobs : job'[i].kind = "refresh" => i = k
    BY <1>2 DEF Alive
  <2> QED
    BY <2>1, <2>2 DEF Settling, Alive, Reads
<1>3. ASSUME NEW j \in Jobs, RefreshAdapters(j) PROVE Settling'
  <2>1. Refresh \in JobType /\ Refresh.kind # "apply"
    BY <1>0, RefreshIs DEF JobType
  <2>2. job' = [job EXCEPT ![j] = Refresh] /\ Alive("refresh") = {}
    BY <1>0, <1>3, <2>1, AnotherRefresh DEF RefreshAdapters
  <2> QED
    BY <1>0, <1>2, <2>2
<1>4. ASSUME NEW j \in Jobs, DeliverOutcome(j) PROVE Settling'
  <2>0. conf' = conf /\ job[j].told = "started"
    BY <1>4, OutcomeSteps
  <2>1. /\ Told(job, j) \in [Jobs -> JobType]
        /\ \A k \in Jobs \ {j} : Told(job, j)[k] = job[k]
        /\ Told(job, j)[j].kind = job[j].kind /\ Told(job, j)[j].ran = "done"
    BY <2>0, ToldIs
  <2>2. \A k \in Jobs : Told(job, j)[k].kind = job[k].kind
    BY <2>1
  <2>3. CASE /\ Reads(j) /\ job[j].ran = "listed" /\ job' = Told(job, j)
             /\ adapters' = job[j].read /\ stale' = stale
    <3>1. \A k \in Jobs : job'[k].kind = job[k].kind /\ (k # j => job'[k] = job[k])
      BY <2>1, <2>2, <2>3
    <3>2. ~Reads(j)' /\ ~Applies(j)' /\ ~Applies(j)
      BY <2>1, <2>3, Kinds DEF Reads, Applies, RefreshType, ApplyType
    <3>3. \A k \in Jobs : Reads(k) => k = j
      BY <2>3, Kinds DEF Settling, Alive
    <3>4. \A i, k \in Jobs : job'[i].kind = "refresh" /\ job'[k].kind = "refresh" => i = k
      BY <2>3, <3>1 DEF Settling, Alive
    <3>5. \A k \in Jobs : ~Reads(k)'
      BY <3>1, <3>2, <3>3 DEF Reads
    <3>6. (\A k \in Jobs : ~Applies(k)') => adapters' = conf'
      <4> SUFFICES ASSUME \A k \in Jobs : ~Applies(k)' PROVE adapters' = conf
        BY <2>0
      <4>1. \A k \in Jobs : ~Applies(k)
        BY <3>1, <3>2 DEF Applies
      <4>2. job[j].read = conf
        BY <2>3, <3>3, <4>1 DEF Settling
      <4> QED
        BY <2>3, <4>2
    <3> QED
      BY <3>4, <3>5, <3>6 DEF Settling, Alive
  <2>4. ASSUME NEW k \in Jobs, Idle(k), job' = Submitted(Told(job, j), k, Refresh),
               stale' = (Alive("refresh") # {})
        PROVE  Settling'
    <3>1. Refresh \in JobType /\ Refresh.kind # "apply" /\ Alive("refresh") = {}
      BY <1>0, <2>4, RefreshIs DEF JobType
    <3>2. job' = [Told(job, j) EXCEPT ![k] = Refresh]
      BY <2>1, <2>4, <3>1, AnotherRefresh
    <3>3. job'[k] = Refresh /\ \A i \in Jobs \ {k} : job'[i].kind = job[i].kind
      BY <2>1, <2>2, <3>2
    <3> QED
      BY <1>2, <3>1, <3>3
  <2> QED
    BY <1>4, <2>3, <2>4, OutcomeSteps
<1>5. ASSUME NEW j \in Jobs, DeliverFinished(j) PROVE Settling'
  <2>1. /\ job' = [job EXCEPT ![j] = NoJob] /\ UNCHANGED <<conf, adapters, stale>>
        /\ ~Reads(j) /\ ~Applies(j)
    BY <1>5, Kinds DEF DeliverFinished, table
  <2>2. NoJob.kind = "none" /\ NoJob \notin RefreshType /\ NoJob \notin ApplyType
    BY DEF NoJob, RefreshType, ApplyType
  <2>3. /\ job'[j].kind # "refresh" /\ ~Reads(j)' /\ ~Applies(j)'
        /\ \A k \in Jobs \ {j} : job'[k] = job[k]
    BY <1>0, <2>1, <2>2 DEF Reads, Applies
  <2> QED
    BY <2>1, <2>3 DEF Settling, Alive, Reads, Applies
<1>6. ASSUME NEW j \in Jobs,
             ReadAdapters(j) \/ (Raises(j) /\ job[j].kind = "refresh") \/ DeliverStarted(j)
      PROVE  Settling'
  <2>1. Reads(j) /\ UNCHANGED <<conf, adapters, stale>> /\ job[j].kind = "refresh"
    BY <1>6, RefreshSteps, Kinds DEF table
  <2>2. PICK new \in RefreshType :
          /\ job' = [job EXCEPT ![j] = new]
          /\ \/ new.ran = job[j].ran /\ new.read = job[j].read
             \/ new.ran = "listed" /\ new.read = conf
             \/ new.ran = "failed"
    BY <1>6, RefreshSteps
  <2>3. /\ job'[j] = new /\ new.kind = "refresh" /\ \A k \in Jobs \ {j} : job'[k] = job[k]
        /\ ~Applies(j) /\ ~Applies(j)' /\ Reads(j)'
    BY <1>0, <2>1, <2>2, Kinds DEF RefreshType, ApplyType, Applies, Reads
  <2>4. \A i, k \in Jobs : job'[i].kind = "refresh" /\ job'[k].kind = "refresh" => i = k
    BY <2>1, <2>3 DEF Settling, Alive
  <2>5. ASSUME \A k \in Jobs : ~Applies(k)'
        PROVE  \/ job'[j].ran \in {"read", "failed"}
               \/ job'[j].ran = "listed" /\ job'[j].read = conf'
    <3>1. \A k \in Jobs : ~Applies(k)
      BY <2>3, <2>5 DEF Applies
    <3>2. \A k \in Jobs : Reads(k) => k = j
      BY <2>1, Kinds DEF Settling, Alive
    <3>3. \/ job[j].ran \in {"read", "failed"}
          \/ job[j].ran = "listed" /\ job[j].read = conf
      BY <2>1, <3>1, <3>2 DEF Settling
    <3> QED
      BY <2>1, <2>2, <2>3, <3>3
  <2> QED
    BY <2>3, <2>4, <2>5 DEF Settling, Alive
<1>7. ASSUME NEW j \in Jobs, StartApply(j) PROVE Settling'
  <2>1. stale' = stale /\ job'[j] \in ApplyType /\ job'[j].kind = "apply"
    BY <1>7, StartSteps
  <2>2. \A k \in Jobs : job'[k].kind = "refresh" => job[k].kind = "refresh"
    <3>1. \A k \in Jobs \ {j} : job'[k] = job[k] \/ job'[k].kind = "apply"
      BY <1>7, StartSteps
    <3> QED
      BY <2>1, <3>1
  <2>3. Applies(j)'
    BY <2>1 DEF Applies
  <2> QED
    BY <2>1, <2>2, <2>3 DEF Settling, Alive
<1>8. ASSUME NEW j \in Jobs, job[j].kind = "apply",
             \/ Raises(j) \/ NetshAddress(j) \/ NetshDns(j)
             \/ CleanupStatic(j) \/ FallbackStatic(j) \/ CleanupDhcp(j) \/ FallbackDhcp(j)
      PROVE  Settling'
  <2>1. UNCHANGED Panel
    BY <1>8, ApplySteps
  <2>2. PICK new \in ApplyType, now \in Conf : Goes(j, new, now)
    BY <1>8, ApplySteps
  <2>3. /\ job'[j] = new /\ new.kind = "apply" /\ stale' = stale
        /\ \A k \in Jobs \ {j} : job'[k] = job[k]
    BY <1>0, <2>1, <2>2 DEF Goes, ApplyType, Panel
  <2>4. Applies(j)' /\ \A k \in Jobs : job'[k].kind = "refresh" => job[k].kind = "refresh"
    BY <2>2, <2>3 DEF Applies
  <2> QED
    BY <2>3, <2>4 DEF Settling, Alive
<1> QED
  BY <1>1, <1>3, <1>4, <1>5, <1>6, <1>7, <1>8, StepKinds

\* The start of a refresh disables the table, its end enables it, and no other step
\* makes a refresh run or end.
LEMMA DisabledStep == Shape /\ Settling /\ Disabled /\ [Next]_vars => Disabled'
<1> SUFFICES ASSUME Shape, Settling, Disabled, [Next]_vars PROVE Disabled'
  OBVIOUS
<1>0. job \in [Jobs -> JobType] /\ row \in Adapters \cup {None}
  BY DEF Shape
<1>1. ASSUME loading' = loading, stale' = stale \/ stale' = TRUE,
             \A k \in Jobs : Running(k)' <=> Running(k)
      PROVE  Disabled'
  <2>1. (\E k \in Jobs : Running(k)') <=> (\E k \in Jobs : Running(k))
    BY <1>1
  <2>2. stale \in BOOLEAN /\ loading \in BOOLEAN
    BY DEF Shape
  <2> QED
    BY <1>1, <2>1, <2>2 DEF Disabled
<1>2. ASSUME loading' = loading, stale' = (Alive("refresh") # {}),
             \A k \in Jobs : Running(k)' <=> Running(k)
      PROVE  Disabled'
  BY <1>2 DEF Disabled, Running, Alive
<1>3. CASE UNCHANGED <<conf, adapters, job, stale, pending, loading>>
  BY <1>1, <1>3 DEF Running
<1>4. Refresh \in JobType /\ Refresh.kind # "apply" /\ Refresh.told = "submitted"
  BY <1>0, RefreshIs DEF JobType, Refresh
<1>5. ASSUME NEW j \in Jobs, RefreshAdapters(j) PROVE Disabled'
  <2>1. job' = [job EXCEPT ![j] = Refresh] /\ ~Running(j)
    BY <1>0, <1>4, <1>5, AnotherRefresh, Kinds DEF RefreshAdapters, Running
  <2>2. \A k \in Jobs : Running(k)' <=> Running(k)
    BY <1>0, <1>4, <2>1 DEF Running
  <2> QED
    BY <1>2, <1>5, <2>2 DEF RefreshAdapters
<1>6. ASSUME NEW j \in Jobs, DeliverOutcome(j) PROVE Disabled'
  <2>0. job[j].told = "started" /\ loading' = loading
    BY <1>6, OutcomeSteps
  <2>1. /\ Told(job, j) \in [Jobs -> JobType]
        /\ \A k \in Jobs \ {j} : Told(job, j)[k] = job[k]
        /\ Told(job, j)[j].kind = job[j].kind /\ Told(job, j)[j].told = "outcome"
    BY <2>0, ToldIs
  <2>2. CASE job' = Told(job, j) /\ (stale' = stale \/ stale' = TRUE)
    <3>1. \A k \in Jobs : Running(k)' <=> Running(k)
      BY <2>0, <2>1, <2>2 DEF Running
    <3> QED
      BY <1>1, <2>0, <2>2, <3>1
  <2>3. ASSUME NEW i \in Jobs, Idle(i), job' = Submitted(Told(job, j), i, Refresh),
               stale' = (Alive("refresh") # {})
        PROVE  Disabled'
    <3>1. job' = [Told(job, j) EXCEPT ![i] = Refresh] /\ ~Running(i) /\ i # j
      BY <1>4, <2>0, <2>1, <2>3, AnotherRefresh, Kinds DEF Running
    <3>2. \A k \in Jobs : Running(k)' <=> Running(k)
      BY <1>4, <2>0, <2>1, <3>1 DEF Running
    <3> QED
      BY <1>2, <2>0, <2>3, <3>2
  <2> QED
    BY <1>6, <2>2, <2>3, OutcomeSteps
<1>7. ASSUME NEW j \in Jobs, DeliverFinished(j) PROVE Disabled'
  <2>1. /\ job' = [job EXCEPT ![j] = NoJob] /\ NoJob.kind = "none" /\ stale' = stale
        /\ loading' = (loading /\ job[j].kind # "refresh")
    BY <1>7 DEF DeliverFinished, NoJob, LoadingAfter
  <2>2. ~Running(j)' /\ \A k \in Jobs \ {j} : Running(k)' <=> Running(k)
    BY <1>0, <2>1 DEF Running
  <2>3. CASE job[j].kind = "refresh"
    <3>1. ~stale => \A k \in Jobs : Running(k) => k = j
      BY <2>3 DEF Settling, Alive, Running
    <3> QED
      BY <2>1, <2>2, <2>3, <3>1 DEF Disabled
  <2>4. CASE job[j].kind # "refresh"
    <3>1. \A k \in Jobs : Running(k)' <=> Running(k)
      BY <2>2, <2>4 DEF Running
    <3>2. loading' = loading
      BY <2>1, <2>4 DEF Shape
    <3> QED
      BY <1>1, <2>1, <3>1, <3>2
  <2> QED
    BY <2>3, <2>4
<1>8. ASSUME NEW j \in Jobs, ReadAdapters(j) \/ (Raises(j) /\ job[j].kind = "refresh")
      PROVE  Disabled'
  <2>1. PICK new : job' = [job EXCEPT ![j] = new] /\ new.kind = job[j].kind /\ new.told = job[j].told
    <3>1. job[j].kind = "refresh" /\ job[j] \in RefreshType
      BY <1>8, Kinds DEF ReadAdapters, Raises, Reads
    <3>2. CASE ReadAdapters(j)
      <4>1. PICK mid : mid = [job[j] EXCEPT !.ran = "listed"]
        OBVIOUS
      <4>2. PICK new : new = [mid EXCEPT !.read = conf]
        OBVIOUS
      <4>3. new.kind = job[j].kind /\ new.told = job[j].told
        BY <3>1, <4>1, <4>2 DEF RefreshType
      <4> QED
        BY <1>0, <3>2, <4>1, <4>2, <4>3 DEF ReadAdapters
    <3>3. CASE Raises(j)
      <4>1. PICK new : new = [job[j] EXCEPT !.ran = "failed"]
        OBVIOUS
      <4>2. new.kind = job[j].kind /\ new.told = job[j].told
        BY <3>1, <4>1 DEF RefreshType
      <4> QED
        BY <1>0, <3>3, <4>1, <4>2 DEF Raises, Ran
    <3> QED
      BY <1>8, <3>2, <3>3
  <2>2. loading' = loading /\ stale' = stale
    BY <1>8 DEF ReadAdapters, Raises, Panel
  <2>3. \A k \in Jobs : Running(k)' <=> Running(k)
    BY <1>0, <2>1 DEF Running
  <2> QED
    BY <1>1, <2>2, <2>3
<1>9. ASSUME NEW j \in Jobs, DeliverStarted(j) PROVE Disabled'
  <2>1. PICK new : /\ job' = [job EXCEPT ![j] = new]
                   /\ new.kind = "refresh" /\ new.told = "started"
    <3>1. job[j] \in RefreshType
      BY <1>9, Kinds DEF DeliverStarted, Reads
    <3>2. PICK new : new = [job[j] EXCEPT !.told = "started"]
      OBVIOUS
    <3>3. new.kind = "refresh" /\ new.told = "started"
      BY <3>1, <3>2 DEF RefreshType
    <3>4. job' = [job EXCEPT ![j] = new]
      BY <1>0, <1>9, <3>2 DEF DeliverStarted
    <3> QED
      BY <3>3, <3>4
  <2> QED
    BY <1>0, <1>9, <2>1 DEF DeliverStarted, Disabled, Running
<1>10. ASSUME NEW j \in Jobs, StartApply(j) PROVE Disabled'
  <2>1. \A k \in Jobs : Running(k)' <=> Running(k)
    BY <1>10, StartSteps, Kinds DEF Running
  <2>2. loading' = loading /\ stale' = stale
    BY <1>10, StartSteps
  <2> QED
    BY <1>1, <2>1, <2>2
<1>11. ASSUME NEW j \in Jobs, job[j].kind = "apply",
              \/ Raises(j) \/ NetshAddress(j) \/ NetshDns(j)
              \/ CleanupStatic(j) \/ FallbackStatic(j) \/ CleanupDhcp(j) \/ FallbackDhcp(j)
       PROVE  Disabled'
  <2>1. PICK new \in ApplyType, now \in Conf : Goes(j, new, now)
    BY <1>11, ApplySteps
  <2>2. UNCHANGED Panel
    BY <1>11, ApplySteps
  <2>3. \A k \in Jobs : Running(k)' <=> Running(k)
    BY <1>0, <1>11, <2>1 DEF Goes, Running, ApplyType
  <2> QED
    BY <1>1, <2>2, <2>3 DEF Panel
<1> QED
  BY <1>3, <1>5, <1>6, <1>7, <1>8, <1>9, <1>10, <1>11, StepKinds

\* The invariant holds when the tab is made.
LEMMA IInvInit == Init => IInv
<1> SUFFICES ASSUME Init PROVE IInv
  OBVIOUS
<1>1. \A j \in Jobs : job[j] = NoJob
  BY DEF Init
<1>2. NoJob.kind = "none" /\ NoJob \notin RefreshType /\ NoJob \notin ApplyType /\ NoJob \in JobType
  BY DEF NoJob, RefreshType, ApplyType, JobType
<1>3. Shape
  <2>1. \A s \in Settings : [address |-> s, gateway |-> GatewayOf(s), dns |-> s] \in Conf
    BY DEF Conf, GatewayOf
  <2>2. conf \in [Adapters -> Conf]
    BY <2>1 DEF Init
  <2> QED
    BY <1>1, <1>2, <2>2 DEF Init, Shape, BoxType
<1>4. Alone /\ Applying /\ Settling /\ Disabled
  BY <1>1, <1>2 DEF Init, Alone, Applying, Settling, Alive, Applies, Reads, Disabled, Running
<1> QED
  BY <1>3, <1>4 DEF IInv

-----------------------------------------------------------------------------
(* The theorems *)

\* The inductive invariant holds in every reachable state.
THEOREM Invariance == Spec => []IInv
<1>1. IInv /\ [Next]_vars => IInv'
  BY ShapeStep, ApplyingStep, SettlingStep, DisabledStep DEF IInv
<1> QED
  BY <1>1, IInvInit, PTL DEF Spec

\* An apply that reports success has done what it reports: SuccessMeansApplied.
THEOREM SuccessIsTrue == Spec => []SuccessMeansApplied
<1>1. IInv => SuccessMeansApplied
  <2> SUFFICES ASSUME IInv, NEW j \in Jobs, At(j, "succeeded"), job[j].alone
               PROVE  /\ Now(j).dns = Target(j)
                      /\ Static(j) \/ job[j].ok => Now(j).address = Target(j)
                      /\ Static(j) /\ job[j].ok => Now(j).gateway = Target(j)
    BY DEF SuccessMeansApplied
  <2>1. Applies(j) /\ job[j].ran = "succeeded"
    BY Kinds DEF IInv, At
  <2> QED
    BY <2>1 DEF IInv, Applying, Rightly, Static, Target
<1> QED
  BY <1>1, Invariance, PTL

\* With all jobs done the table shows the configuration: TableSettles.
THEOREM TableIsRight == Spec => []TableSettles
<1>1. IInv => TableSettles
  <2> SUFFICES ASSUME IInv, \A j \in Jobs : Idle(j), adapters # None, ~stale
               PROVE  adapters = conf
    BY DEF TableSettles
  <2>1. \A j \in Jobs : ~Reads(j) /\ ~Applies(j)
    BY Kinds DEF IInv
  <2> QED
    BY <2>1 DEF IInv, Settling
<1> QED
  BY <1>1, Invariance, PTL

\* The table is disabled only for a refresh that will enable it: DisabledWhileRefreshing.
THEOREM TableIsDisabled == Spec => []DisabledWhileRefreshing
<1>1. IInv => DisabledWhileRefreshing
  BY DEF IInv, Disabled, DisabledWhileRefreshing, Running, Alive
<1> QED
  BY <1>1, Invariance, PTL

-----------------------------------------------------------------------------
(* The wireless tab *)

\* What a scan makes of its access points, and what the jobs post
Versions == Refreshes \cup {NoAP, 0}
Lookups  == UNION {[found -> Versions] : found \in SUBSET APs}
Signals    == {"info", "infoError", "infoEnd", "scan", "scanError", "scanEnd", "vendors", "vendorsError"}
Events   == [kind : Signals, value : APs \cup {NoAP, 0, "failed", "done"} \cup Lookups]

\* The jobs, the records they share and the signals they post
Posting ==
  /\ infoRunning \in BOOLEAN /\ scanRunning \in BOOLEAN
  /\ infoJob \in {"none", "netsh"}
  /\ scan.pc \in {"none", "netsh", "vendors", "done"}
  /\ scan = [pc |-> scan.pc, found |-> scan.found, vendor |-> scan.vendor]
  /\ scan.pc = "vendors" => scan.found \in SUBSET APs /\ scan.vendor \in Lookups
  /\ records \in [Registries -> Versions]
  /\ refresh \in [Refreshes -> [pc : {"none", "fetch", "store", "save", "over"}, got : SUBSET Registries]]
  /\ events \in Seq(Events)

\* A kind of signal is in the queue, and there once at most
Has(s, kind)  == \E i \in 1..Len(s) : s[i].kind = kind
Once(s, kind) == \A i, j \in 1..Len(s) : s[i].kind = kind /\ s[j].kind = kind => i = j

\* A running flag is up from the start of its job to the delivery of the job's end
Flagged ==
  /\ infoJob # "none" => infoRunning /\ ~Has(events, "infoEnd")
  /\ scan.pc # "none" => scanRunning /\ ~Has(events, "scanEnd")
  /\ Has(events, "infoEnd") => infoRunning
  /\ Has(events, "scanEnd") => scanRunning
  /\ Once(events, "infoEnd") /\ Once(events, "scanEnd")

-----------------------------------------------------------------------------
LEMMA EmptyQueue == ASSUME NEW kind PROVE ~Has(<<>>, kind) /\ Once(<<>>, kind)
BY DEF Has, Once

LEMMA PostOne ==
  ASSUME NEW S, NEW s \in Seq(S), NEW e \in S, NEW kind
  PROVE  /\ Append(s, e) \in Seq(S)
         /\ Has(Append(s, e), kind) => Has(s, kind) \/ e.kind = kind
         /\ Once(s, kind) /\ (e.kind = kind => ~Has(s, kind)) => Once(Append(s, e), kind)
<1>1. /\ Append(s, e) \in Seq(S) /\ Len(s) \in Nat /\ Len(Append(s, e)) = Len(s) + 1
      /\ \A i \in 1..(Len(s) + 1) : Append(s, e)[i] = IF i = Len(s) + 1 THEN e ELSE s[i]
  OBVIOUS
<1>2. PICK t, n : t = Append(s, e) /\ n = Len(s)
  OBVIOUS
<1>3. /\ n \in Nat /\ Len(t) = n + 1 /\ n = Len(s)
      /\ \A i \in 1..(n + 1) : i \in 1..n \/ i = n + 1
      /\ \A i \in 1..n : t[i] = s[i]
      /\ t[n + 1] = e
  BY <1>1, <1>2
<1>4. Has(t, kind) => Has(s, kind) \/ e.kind = kind
  BY <1>3 DEF Has
<1>5. ASSUME Once(s, kind), e.kind = kind => ~Has(s, kind) PROVE Once(t, kind)
  <2> SUFFICES ASSUME NEW i \in 1..(n + 1), NEW j \in 1..(n + 1), t[i].kind = kind, t[j].kind = kind
               PROVE  i = j
    BY <1>3 DEF Once
  <2>1. \A k \in 1..n : t[k].kind = kind => Has(s, kind) /\ s[k].kind = kind
    BY <1>3 DEF Has
  <2> QED
    BY <1>3, <1>5, <2>1 DEF Once
<1> QED
  BY <1>1, <1>2, <1>4, <1>5

LEMMA PostTwo ==
  ASSUME NEW S, NEW s \in Seq(S), NEW e \in S, NEW f \in S
  PROVE  s \o <<e, f>> = Append(Append(s, e), f)
<1>1. PICK t : t = Append(s, e)
  OBVIOUS
<1>2. /\ t \in Seq(S) /\ Len(s) \in Nat /\ Len(t) = Len(s) + 1
      /\ \A i \in 1..(Len(s) + 1) : t[i] = IF i = Len(s) + 1 THEN e ELSE s[i]
  BY <1>1
<1>3. PICK c, d : c = s \o <<e, f>> /\ d = Append(t, f)
  OBVIOUS
<1>4. /\ <<e, f>> \in Seq(S) /\ Len(<<e, f>>) = 2 /\ <<e, f>>[1] = e /\ <<e, f>>[2] = f
  OBVIOUS
<1>5. /\ c \in Seq(S) /\ Len(c) = Len(s) + 2
      /\ \A i \in 1..(Len(s) + 2) : c[i] = IF i <= Len(s) THEN s[i] ELSE <<e, f>>[i - Len(s)]
  BY <1>2, <1>3, <1>4, ConcatProperties
<1>6. /\ d \in Seq(S) /\ Len(d) = Len(s) + 2
      /\ \A i \in 1..(Len(s) + 2) : d[i] = IF i = Len(s) + 2 THEN f ELSE t[i]
  BY <1>2, <1>3
<1>7. ASSUME NEW i \in 1..(Len(s) + 2) PROVE c[i] = d[i]
  <2>1. CASE i <= Len(s)
    BY <1>2, <1>5, <1>6, <2>1
  <2>2. CASE i = Len(s) + 1
    <3>1. ~(i <= Len(s)) /\ i - Len(s) = 1 /\ i # Len(s) + 2 /\ i \in 1..(Len(s) + 1)
      BY <1>2, <2>2
    <3>2. c[i] = <<e, f>>[1]
      BY <1>5, <3>1
    <3>3. d[i] = t[i] /\ t[i] = e
      BY <1>2, <1>6, <2>2, <3>1
    <3> QED
      BY <1>4, <3>2, <3>3
  <2>3. CASE i = Len(s) + 2
    BY <1>2, <1>4, <1>5, <1>6, <2>3
  <2> QED
    BY <1>2, <2>1, <2>2, <2>3
<1> QED
  BY <1>1, <1>3, <1>5, <1>6, <1>7, SeqEqual

LEMMA TakeOne ==
  ASSUME NEW S, NEW s \in Seq(S), s # <<>>, NEW kind, Once(s, kind)
  PROVE  /\ Head(s) \in S /\ Tail(s) \in Seq(S) /\ Once(Tail(s), kind)
         /\ Head(s).kind = kind => Has(s, kind) /\ ~Has(Tail(s), kind)
         /\ Has(Tail(s), kind) => Has(s, kind)
<1>1. /\ Len(s) \in Nat \ {0} /\ Len(Tail(s)) = Len(s) - 1 /\ Head(s) = s[1]
      /\ \A i \in 1..(Len(s) - 1) : Tail(s)[i] = s[i + 1]
      /\ Head(s) \in S /\ Tail(s) \in Seq(S)
  OBVIOUS
<1>2. PICK t, n : t = Tail(s) /\ n = Len(s)
  OBVIOUS
<1>3. /\ n \in Nat \ {0} /\ n = Len(s) /\ Len(t) = n - 1
      /\ \A i \in 1..(n - 1) : i + 1 \in 1..n /\ i + 1 # 1 /\ t[i] = s[i + 1]
      /\ 1 \in 1..n /\ Head(s) = s[1]
  BY <1>1, <1>2
<1>4. Has(t, kind) => \E i \in 1..n : i # 1 /\ s[i].kind = kind
  BY <1>3 DEF Has
<1>5. Has(t, kind) => Has(s, kind) /\ Head(s).kind # kind
  BY <1>3, <1>4 DEF Has, Once
<1>6. Head(s).kind = kind => Has(s, kind)
  BY <1>3 DEF Has
<1>7. ASSUME NEW i \in 1..(n - 1), NEW j \in 1..(n - 1), t[i].kind = kind, t[j].kind = kind PROVE i = j
  <2>1. i + 1 = j + 1
    BY <1>3, <1>7 DEF Once
  <2> QED
    BY <2>1
<1>8. Once(t, kind)
  BY <1>3, <1>7 DEF Once
<1> QED
  BY <1>1, <1>2, <1>5, <1>6, <1>8

-----------------------------------------------------------------------------
LEMMA PostingInit == WirelessInit => Posting /\ Flagged
<1> SUFFICES ASSUME WirelessInit PROVE Posting /\ Flagged
  OBVIOUS
<1>1. Known \in Versions
  BY WirelessAssumption DEF Versions
<1>2. records \in [Registries -> Versions]
  BY <1>1 DEF WirelessInit
<1>3. events \in Seq(Events)
  BY DEF WirelessInit
<1>4. Posting
  BY <1>2, <1>3 DEF WirelessInit, Posting, NoScan
<1> QED
  BY <1>4, EmptyQueue DEF WirelessInit, Flagged, NoScan

\* A request for a scan starts one only when none is on its way.
LEMMA NearbyKeeps ==
  ASSUME Posting, Flagged, RefreshNearby
  PROVE  /\ scanRunning' \in BOOLEAN
         /\ scan'.pc \in {"none", "netsh", "vendors", "done"}
         /\ scan' = [pc |-> scan'.pc, found |-> scan'.found, vendor |-> scan'.vendor]
         /\ scan'.pc = "vendors" => scan'.found \in SUBSET APs /\ scan'.vendor \in Lookups
         /\ scan'.pc # "none" => scanRunning' /\ ~Has(events, "scanEnd")
         /\ Has(events, "scanEnd") => scanRunning'
<1>1. CASE scanRunning
  BY <1>1 DEF RefreshNearby, Posting, Flagged
<1>2. CASE ~scanRunning
  <2>1. scanRunning' = TRUE /\ scan' = [pc |-> "netsh", found |-> {}, vendor |-> <<>>]
    BY <1>2 DEF RefreshNearby, NoScan
  <2>2. ~Has(events, "scanEnd")
    BY <1>2 DEF Flagged
  <2> QED
    BY <2>1, <2>2
<1> QED
  BY <1>1, <1>2

LEMMA InfoKeeps ==
  ASSUME Posting, Flagged, RefreshInfo
  PROVE  /\ infoRunning' \in BOOLEAN /\ infoJob' \in {"none", "netsh"}
         /\ infoJob' # "none" => infoRunning' /\ ~Has(events, "infoEnd")
         /\ Has(events, "infoEnd") => infoRunning'
BY DEF RefreshInfo, Posting, Flagged

\* What the GUI thread asks for
LEMMA AskSteps ==
  ASSUME Posting, Flagged, Start \/ ChooseFilter \/ AskInfo \/ AskScan \/ Tick \/ ToggleAuto \/ AskVendors
  PROVE  Posting' /\ Flagged'
<1> USE DEF viewVars, jobVars
<1>1. CASE Start
  <2>1. RefreshInfo /\ RefreshNearby /\ UNCHANGED <<records, events, refresh>>
    BY <1>1 DEF Start
  <2> QED
    BY <2>1, NearbyKeeps, InfoKeeps DEF Posting, Flagged
<1>2. CASE ChooseFilter
  BY <1>2 DEF ChooseFilter, Posting, Flagged
<1>3. CASE AskInfo
  <2>1. RefreshInfo /\ UNCHANGED <<scanRunning, scan, records, events, refresh>>
    BY <1>3 DEF AskInfo
  <2> QED
    BY <2>1, InfoKeeps DEF Posting, Flagged
<1>4. ASSUME Quietly PROVE Posting' /\ Flagged'
  <2>1. RefreshNearby /\ UNCHANGED <<infoRunning, records, events, infoJob, refresh>>
    BY <1>4 DEF Quietly
  <2> QED
    BY <2>1, NearbyKeeps DEF Posting, Flagged
<1>5. CASE AskScan \/ Tick
  BY <1>4, <1>5 DEF AskScan, Tick
<1>6. CASE ToggleAuto
  <2>1. CASE auto
    BY <1>6, <2>1 DEF ToggleAuto, Posting, Flagged
  <2>2. CASE ~auto
    BY <1>4, <1>6, <2>2 DEF ToggleAuto
  <2> QED
    BY <2>1, <2>2
<1>7. CASE AskVendors
  <2>1. PICK v \in Refreshes : refresh' = [refresh EXCEPT ![v].pc = "fetch"]
    BY <1>7 DEF AskVendors
  <2>2. UNCHANGED <<infoRunning, scanRunning, records, events, infoJob, scan>>
    BY <1>7 DEF AskVendors
  <2>3. refresh' \in [Refreshes -> [pc : {"none", "fetch", "store", "save", "over"}, got : SUBSET Registries]]
    BY <2>1 DEF Posting
  <2> QED
    BY <2>2, <2>3 DEF Posting, Flagged
<1> QED
  BY <1>1, <1>2, <1>3, <1>5, <1>6, <1>7

LEMMA InfoSteps == ASSUME Posting, Flagged, Info PROVE Posting' /\ Flagged'
<1>1. /\ infoJob = "netsh" /\ infoJob' = "none"
      /\ UNCHANGED <<infoRunning, scanRunning, scan, refresh, records>>
  BY DEF Info, guiVars
<1>2. PICK e \in {Event("info", a) : a \in APs \cup {NoAP}} \cup {Event("infoError", 0)} :
        events' = events \o <<e, Event("infoEnd", 0)>>
  BY DEF Info
<1>3. PICK end : end = Event("infoEnd", 0)
  OBVIOUS
<1>4. end \in Events /\ end.kind = "infoEnd"
  BY <1>3 DEF Event, Events, Signals
<1>5. e \in Events /\ e.kind \in {"info", "infoError"}
  BY <1>2 DEF Event, Events, Signals
<1>6. PICK mid : mid = Append(events, e)
  OBVIOUS
<1>7. events' = Append(mid, end)
  BY <1>2, <1>3, <1>4, <1>5, <1>6, PostTwo DEF Posting
<1>8. events \in Seq(Events)
  BY DEF Posting
<1>9. ASSUME NEW kind \in {"infoEnd", "scanEnd"}
      PROVE  mid \in Seq(Events) /\ (Has(mid, kind) => Has(events, kind))
             /\ (Once(events, kind) => Once(mid, kind))
  BY <1>5, <1>6, <1>8, <1>9, PostOne
<1>10. events' \in Seq(Events) /\ (Has(events', "scanEnd") => Has(events, "scanEnd"))
       /\ (Once(events, "scanEnd") => Once(events', "scanEnd"))
       /\ (Once(events, "infoEnd") /\ ~Has(events, "infoEnd") => Once(events', "infoEnd"))
  BY <1>4, <1>7, <1>9, PostOne
<1>11. infoRunning /\ ~Has(events, "infoEnd")
  BY <1>1 DEF Flagged
<1> QED
  BY <1>1, <1>10, <1>11 DEF Posting, Flagged

\* A job posts one signal that is not the end of the other kind of job.
LEMMA Posted ==
  ASSUME Posting, Flagged, NEW kind \in Signals \ {"infoEnd"}, NEW value,
         Event(kind, value) \in Events, events' = Append(events, Event(kind, value))
  PROVE  /\ events' \in Seq(Events)
         /\ Has(events', "infoEnd") => Has(events, "infoEnd")
         /\ Has(events', "scanEnd") => Has(events, "scanEnd") \/ kind = "scanEnd"
         /\ Once(events', "infoEnd")
         /\ kind = "scanEnd" => (~Has(events, "scanEnd") => Once(events', "scanEnd"))
         /\ kind # "scanEnd" => Once(events', "scanEnd")
<1>1. PICK e : e = Event(kind, value)
  OBVIOUS
<1>2. e \in Events /\ e.kind = kind /\ events' = Append(events, e) /\ events \in Seq(Events)
  BY <1>1 DEF Event, Posting
<1>3. Once(events, "infoEnd") /\ Once(events, "scanEnd")
  BY DEF Flagged
<1>4. /\ events' \in Seq(Events) /\ (Has(events', "infoEnd") => Has(events, "infoEnd"))
      /\ Once(events', "infoEnd")
  BY <1>2, <1>3, PostOne
<1>5. /\ Has(events', "scanEnd") => Has(events, "scanEnd") \/ kind = "scanEnd"
      /\ (kind = "scanEnd" => ~Has(events, "scanEnd")) => Once(events', "scanEnd")
  BY <1>2, <1>3, PostOne
<1> QED
  BY <1>4, <1>5

LEMMA ScanSteps == ASSUME Posting, Flagged, Scan PROVE Posting' /\ Flagged'
<1> USE DEF guiVars
<1>1. CASE Netsh
  <2>1. PICK found \in SUBSET APs : scan' = [pc |-> "vendors", found |-> found, vendor |-> NoOne]
    BY <1>1 DEF Netsh
  <2>2. NoOne \in Lookups
    <3>1. {} \in SUBSET APs /\ NoOne \in [{} -> Versions]
      BY DEF NoOne
    <3> QED
      BY <3>1 DEF Lookups
  <2>3. scan.pc = "netsh" /\ UNCHANGED <<infoRunning, scanRunning, infoJob, refresh, records, events>>
    BY <1>1 DEF Netsh
  <2>4. scanRunning /\ ~Has(events, "scanEnd")
    BY <2>3 DEF Flagged
  <2> QED
    BY <2>1, <2>2, <2>3, <2>4 DEF Posting, Flagged
<1>2. CASE NetshFails
  <2>1. /\ scan.pc = "netsh" /\ events' = Append(events, Event("scanError", 0))
        /\ scan' = [pc |-> "done", found |-> {}, vendor |-> <<>>]
        /\ UNCHANGED <<infoRunning, scanRunning, infoJob, refresh, records>>
    BY <1>2 DEF NetshFails, NoScan
  <2>2. Event("scanError", 0) \in Events
    BY DEF Event, Events, Signals
  <2>3. /\ events' \in Seq(Events) /\ Once(events', "infoEnd") /\ Once(events', "scanEnd")
        /\ (Has(events', "infoEnd") => Has(events, "infoEnd"))
        /\ (Has(events', "scanEnd") => Has(events, "scanEnd"))
    BY <2>1, <2>2, Posted DEF Signals
  <2> QED
    BY <2>1, <2>3 DEF Posting, Flagged
<1>3. CASE LookUp
  <2>1. PICK a \in scan.found \ DOMAIN scan.vendor :
          scan' = [scan EXCEPT !.vendor = [b \in DOMAIN @ \cup {a} |-> IF b = a THEN Vendor(a) ELSE @[b]]]
    BY <1>3 DEF LookUp
  <2>2. scan.pc = "vendors" /\ UNCHANGED <<infoRunning, scanRunning, infoJob, refresh, records, events>>
    BY <1>3 DEF LookUp
  <2>3. a \in APs /\ scan.vendor \in Lookups /\ scan.found \in SUBSET APs
    BY <2>1, <2>2 DEF Posting
  <2>4. PICK found \in SUBSET APs : scan.vendor \in [found -> Versions]
    BY <2>3 DEF Lookups
  <2>5. Vendor(a) \in Versions
    BY <2>3, WirelessAssumption DEF Vendor, Posting
  <2>6. PICK more : more = [b \in found \cup {a} |-> IF b = a THEN Vendor(a) ELSE scan.vendor[b]]
    OBVIOUS
  <2>7. more \in Lookups
    <3>1. found \cup {a} \in SUBSET APs /\ more \in [found \cup {a} -> Versions]
      BY <2>3, <2>4, <2>5, <2>6
    <3> QED
      BY <3>1 DEF Lookups
  <2>8. scan' = [pc |-> "vendors", found |-> scan.found, vendor |-> more]
    <3>1. DOMAIN scan.vendor = found
      BY <2>4
    <3>2. scan' = [scan EXCEPT !.vendor = more]
      BY <2>1, <2>6, <3>1
    <3> QED
      BY <2>2, <3>2 DEF Posting
  <2> QED
    BY <2>2, <2>3, <2>7, <2>8 DEF Posting, Flagged
<1>4. CASE Found
  <2>1. /\ scan.pc = "vendors" /\ events' = Append(events, Event("scan", scan.vendor))
        /\ scan' = [pc |-> "done", found |-> {}, vendor |-> <<>>]
        /\ UNCHANGED <<infoRunning, scanRunning, infoJob, refresh, records>>
    BY <1>4 DEF Found, NoScan
  <2>2. Event("scan", scan.vendor) \in Events
    BY <2>1 DEF Event, Events, Signals, Posting
  <2>3. /\ events' \in Seq(Events) /\ Once(events', "infoEnd") /\ Once(events', "scanEnd")
        /\ (Has(events', "infoEnd") => Has(events, "infoEnd"))
        /\ (Has(events', "scanEnd") => Has(events, "scanEnd"))
    BY <2>1, <2>2, Posted DEF Signals
  <2> QED
    BY <2>1, <2>3 DEF Posting, Flagged
<1>5. CASE ScanEnds
  <2>1. /\ scan.pc = "done" /\ events' = Append(events, Event("scanEnd", 0))
        /\ scan' = [pc |-> "none", found |-> {}, vendor |-> <<>>]
        /\ UNCHANGED <<infoRunning, scanRunning, infoJob, refresh, records>>
    BY <1>5 DEF ScanEnds, NoScan
  <2>2. Event("scanEnd", 0) \in Events
    BY DEF Event, Events, Signals
  <2>3. scanRunning /\ ~Has(events, "scanEnd")
    BY <2>1 DEF Flagged
  <2>4. /\ events' \in Seq(Events) /\ Once(events', "infoEnd") /\ Once(events', "scanEnd")
        /\ (Has(events', "infoEnd") => Has(events, "infoEnd"))
    BY <2>1, <2>2, <2>3, Posted DEF Signals
  <2> QED
    BY <2>1, <2>3, <2>4 DEF Posting, Flagged
<1> QED
  BY <1>1, <1>2, <1>3, <1>4, <1>5 DEF Scan

LEMMA DownloadSteps == ASSUME Posting, Flagged, NEW v \in Refreshes, Download(v) PROVE Posting' /\ Flagged'
<1> USE DEF guiVars
<1> DEFINE Downloads == [Refreshes -> [pc : {"none", "fetch", "store", "save", "over"}, got : SUBSET Registries]]
<1>1. refresh \in Downloads
  BY DEF Posting
<1>2. CASE Fetch(v)
  <2>1. PICK got \in SUBSET Registries : refresh' = [refresh EXCEPT ![v] = [pc |-> "store", got |-> got]]
    BY <1>2 DEF Fetch
  <2>2. refresh' \in Downloads
    BY <1>1, <2>1
  <2> QED
    BY <1>2, <2>2 DEF Fetch, Posting, Flagged
<1>3. CASE Store(v)
  <2>1. refresh' \in Downloads
    BY <1>1, <1>3 DEF Store, RefreshTo
  <2>2. records' \in [Registries -> Versions]
    BY <1>3 DEF Store, Versions
  <2> QED
    BY <1>3, <2>1, <2>2 DEF Store, Posting, Flagged
<1>4. CASE Refreshed(v)
  <2>1. refresh' \in Downloads
    BY <1>1, <1>4 DEF Refreshed, RefreshTo
  <2>2. PICK kind \in {"vendors", "vendorsError"}, value \in {"failed", "done", 0} :
          events' = Append(events, Event(kind, value))
    BY <1>4 DEF Refreshed
  <2>3. Event(kind, value) \in Events /\ kind \in Signals \ {"infoEnd", "scanEnd"}
    BY <2>2 DEF Event, Events, Signals
  <2>4. /\ events' \in Seq(Events) /\ Once(events', "infoEnd") /\ Once(events', "scanEnd")
        /\ (Has(events', "infoEnd") => Has(events, "infoEnd"))
        /\ (Has(events', "scanEnd") => Has(events, "scanEnd"))
    BY <2>2, <2>3, Posted
  <2>5. UNCHANGED <<infoRunning, scanRunning, infoJob, scan, records>>
    BY <1>4 DEF Refreshed
  <2> QED
    BY <2>1, <2>4, <2>5 DEF Posting, Flagged
<1> QED
  BY <1>2, <1>3, <1>4 DEF Download

LEMMA DeliverSteps == ASSUME Posting, Flagged, DeliverEvent PROVE Posting' /\ Flagged'
<1>1. PICK e : e = Head(events)
  OBVIOUS
<1>2. events # <<>> /\ events' = Tail(events) /\ events \in Seq(Events)
      /\ UNCHANGED <<records, infoJob, refresh>>
  BY DEF DeliverEvent, Posting
<1>3. Once(events, "infoEnd") /\ Once(events, "scanEnd")
  BY DEF Flagged
<1>4. /\ events' \in Seq(Events) /\ Once(events', "infoEnd") /\ Once(events', "scanEnd")
      /\ Has(events', "infoEnd") => Has(events, "infoEnd")
      /\ Has(events', "scanEnd") => Has(events, "scanEnd")
      /\ e.kind = "infoEnd" => Has(events, "infoEnd") /\ ~Has(events', "infoEnd")
      /\ e.kind = "scanEnd" => Has(events, "scanEnd") /\ ~Has(events', "scanEnd")
  BY <1>1, <1>2, <1>3, TakeOne
<1>5. CASE UNCHANGED <<infoRunning, scanRunning, scan>>
  BY <1>2, <1>4, <1>5 DEF Posting, Flagged
<1>6. CASE SetRefreshRunning(e.kind)
  <2>1. scan' = scan /\ infoRunning' \in BOOLEAN /\ scanRunning' \in BOOLEAN
    BY <1>6 DEF SetRefreshRunning, Posting
  <2>2. (e.kind = "infoEnd" => infoJob = "none") /\ (e.kind = "scanEnd" => scan.pc = "none")
    BY <1>4 DEF Flagged
  <2>3. /\ e.kind # "infoEnd" => infoRunning' = infoRunning
        /\ e.kind # "scanEnd" => scanRunning' = scanRunning
    BY <1>6 DEF SetRefreshRunning, Posting
  <2>4. Posting'
    BY <1>2, <1>4, <2>1 DEF Posting
  <2> QED
    BY <1>2, <1>4, <2>1, <2>2, <2>3, <2>4 DEF Flagged
<1>7. CASE RefreshNearby /\ UNCHANGED infoRunning
  <2>1. Posting'
    BY <1>2, <1>4, <1>7, NearbyKeeps DEF Posting
  <2> QED
    BY <1>2, <1>4, <1>7, <2>1, NearbyKeeps DEF Flagged
<1>8. \/ UNCHANGED <<infoRunning, scanRunning, scan>>
      \/ SetRefreshRunning(e.kind)
      \/ RefreshNearby /\ UNCHANGED infoRunning
  BY <1>1 DEF DeliverEvent, UpdateWirelessView, UpdateNearby, FinishVendors, ShowError
<1> QED
  BY <1>5, <1>6, <1>7, <1>8

LEMMA PostingStep == Posting /\ Flagged /\ [WirelessNext]_wirelessVars => Posting' /\ Flagged'
<1> SUFFICES ASSUME Posting, Flagged, [WirelessNext]_wirelessVars PROVE Posting' /\ Flagged'
  OBVIOUS
<1>1. CASE UNCHANGED wirelessVars
  BY <1>1 DEF wirelessVars, jobVars, Posting, Flagged
<1> QED
  BY <1>1, AskSteps, DeliverSteps, InfoSteps, ScanSteps, DownloadSteps DEF WirelessNext, Gui

LEMMA PostingHolds == WirelessSpec => [](Posting /\ Flagged)
BY PostingInit, PostingStep, PTL DEF WirelessSpec

\* The tab shows what it knows: whichever of the scan, the state of the adapter
\* and the filter came last, the rows follow all three (TableIsView).
THEOREM TableShowsTheScan == WirelessSpec => []TableIsView
<1>1. WirelessInit => TableIsView
  BY DEF WirelessInit, TableIsView, View, Filtered, NoOne
<1>2. TableIsView /\ [WirelessNext]_wirelessVars => TableIsView'
  <2> SUFFICES ASSUME TableIsView, [WirelessNext]_wirelessVars PROVE TableIsView'
    OBVIOUS
  <2>1. CASE UNCHANGED viewVars
    BY <2>1 DEF viewVars, TableIsView
  <2>2. CASE ChooseFilter
    BY <2>2 DEF ChooseFilter, TableIsView
  <2>3. ASSUME NEW a, UpdateWirelessView(a) PROVE TableIsView'
    BY <2>3 DEF UpdateWirelessView, AppliedForInfo, TableIsView
  <2>4. ASSUME NEW aps, UpdateNearby(aps) PROVE TableIsView'
    BY <2>4 DEF UpdateNearby, TableIsView
  <2>5. CASE DeliverEvent
    <3>1. PICK e : e = Head(events)
      OBVIOUS
    <3>2. UpdateWirelessView(e.value) \/ UpdateNearby(e.value) \/ UNCHANGED viewVars
      BY <2>5, <3>1 DEF DeliverEvent, SetRefreshRunning, FinishVendors, ShowError
    <3> QED
      BY <2>1, <2>3, <2>4, <3>2
  <2>6. CASE Start \/ AskInfo \/ AskScan \/ Tick \/ ToggleAuto \/ AskVendors
    BY <2>1, <2>6 DEF Start, AskInfo, AskScan, Tick, ToggleAuto, AskVendors, Quietly
  <2>7. CASE Info \/ Scan
    BY <2>1, <2>7 DEF Info, Scan, Netsh, NetshFails, LookUp, Found, ScanEnds
  <2>8. CASE \E v \in Refreshes : Download(v)
    BY <2>1, <2>8 DEF Download, Fetch, Store, Refreshed
  <2>9. CASE UNCHANGED wirelessVars
    BY <2>1, <2>9 DEF wirelessVars
  <2> QED
    BY <2>2, <2>5, <2>6, <2>7, <2>8, <2>9 DEF WirelessNext, Gui
<1> QED
  BY <1>1, <1>2, PTL DEF WirelessSpec

\* OuiService never gives up the vendors it has for a download that brought
\* nothing, however many downloads run at a time (VendorsSurvive).
THEOREM VendorsAreKept == WirelessSpec => VendorsSurvive
<1>1. ASSUME Posting, [WirelessNext]_wirelessVars, records # NoRecord PROVE records' # NoRecord
  <2>1. ASSUME NEW v \in Refreshes, Store(v) PROVE records' # NoRecord
    <3>1. refresh[v].got # {} /\ records' = [r \in Registries |-> IF r \in refresh[v].got THEN v ELSE NoAP]
      BY <2>1 DEF Store, MayStore
    <3>2. refresh[v].got \in SUBSET Registries /\ v # NoAP
      <4>1. refresh \in [Refreshes -> [pc : {"none", "fetch", "store", "save", "over"}, got : SUBSET Registries]]
        BY <1>1 DEF Posting
      <4>2. v \in Refreshes
        BY <2>1
      <4> QED
        BY <4>1, <4>2, WirelessAssumption
    <3>3. PICK r \in Registries : r \in refresh[v].got /\ v # NoAP
      BY <3>1, <3>2
    <3>4. records'[r] = v /\ NoRecord[r] = NoAP
      BY <3>1, <3>3 DEF NoRecord
    <3> QED
      BY <3>3, <3>4
  <2>2. (\E v \in Refreshes : Store(v)) \/ UNCHANGED records
    BY <1>1 DEF WirelessNext, Gui, Start, ChooseFilter, AskInfo, AskScan, Tick, ToggleAuto, AskVendors, Quietly,
       DeliverEvent, Info, Scan, Netsh, NetshFails, LookUp, Found, ScanEnds, Download, Fetch, Refreshed,
       wirelessVars
  <2> QED
    BY <1>1, <2>1, <2>2
<1>2. Posting /\ [WirelessNext]_wirelessVars => [records # NoRecord => records' # NoRecord]_wirelessVars
  BY <1>1
<1> QED
  BY <1>2, PostingHolds, PTL DEF WirelessSpec, VendorsSurvive

\* The two flags of the tab stand for their jobs: none runs without its flag, and the
\* end of a job waits in the queue only when no job of its kind has been started since.
FlagsStandForJobs ==
  /\ (infoJob # "none" => infoRunning) /\ (Has(events, "infoEnd") => infoJob = "none")
  /\ (scan.pc # "none" => scanRunning) /\ (Has(events, "scanEnd") => scan.pc = "none")

\* So the timers, the buttons and a download that ends never start a second scan beside
\* the first, and a late end never clears the flag of a newer job.
THEOREM OneJobOfEachKind == WirelessSpec => []FlagsStandForJobs
<1>1. Posting /\ Flagged => FlagsStandForJobs
  BY DEF Flagged, FlagsStandForJobs
<1> QED
  BY <1>1, PostingHolds, PTL

=============================================================================
