------------------------------ MODULE UpdateFlow ------------------------------
(***************************************************************************)
(* Updating the program: the handlers of MainWindow (app/main_window.py)   *)
(* and UpdateService (app/services/update_service.py).                     *)
(*                                                                         *)
(* A check or a download is a background job whose callbacks reach the GUI *)
(* thread as in JobContract.  A result handler opens a modal question and  *)
(* stays on the stack until it is answered; callbacks and the startup      *)
(* timer go on beneath it, so questions can pile up, and an offer made by  *)
(* an earlier check can be accepted while a later job runs.  stacked       *)
(* remembers that this happened.                                           *)
(***************************************************************************)
EXTENDS VersionOrder, FiniteSets

CONSTANTS
  Slots,      \* update jobs alive at a time (bound)
  Releases,   \* what GitHub may list; the asset of a release is verifiable or not
  Current,    \* __version__
  None        \* no release

AssetKinds == {"none", "bare", "digest", "sums"}

ASSUME UpdateAssumption ==
  /\ IsFiniteSet(Slots)
  /\ Current \in Versions
  /\ Releases \subseteq [version : Versions, draft : BOOLEAN, prerelease : BOOLEAN, asset : AssetKinds]
  /\ None \notin Releases

VARIABLES
  busy,       \* _update_busy
  job,        \* the update jobs
  prompts,    \* questions open, innermost last
  timer,      \* the single shot of the startup check is still to fire
  launched,   \* history: installers started, with the content they had
  app,        \* window open, window closed beneath a question, program ended
  stacked     \* history: a question was opened over another, or answered while a job was alive

vars == <<busy, job, prompts, timer, launched, app, stacked>>

NoJob == [op |-> "check", pc |-> "none", feed |-> {}, beta |-> FALSE, rel |-> None, content |-> "none"]
NewJob(op, beta, rel) ==
  [op |-> op, pc |-> "run", feed |-> {}, beta |-> beta, rel |-> rel, content |-> "none"]
Alive == {k \in Slots : job[k].pc # "none"}
Free(k) == job[k].pc = "none"

-----------------------------------------------------------------------------
(* UpdateService *)

\* _fetch_release: drafts never, prereleases on request
Candidates(feed, beta) == {r \in feed : ~r.draft /\ (r.prerelease => beta)}

\* candidates.sort(reverse=True)[0]
Newest(candidates) ==
  {r \in candidates : \A q \in candidates : ~SortsBefore(r.version, q.version)}

\* mutant: an installer without digest or checksum file is good enough
AnyAssetReady(r) == r.asset # "none"

\* check_for_updates: install_ready
InstallReady(r) == r.asset \in {"digest", "sums"}

\* mutant: no check that the release is newer than the program
OfferedIfReady(r) == InstallReady(r)

Offered(r) == Older(Current, r.version) /\ InstallReady(r)

\* mutant: a mismatch is only reported
AcceptsAnything(r, content) == InstallReady(r)

\* download_update: the content has the SHA-256 that the release publishes
Verified(r, content) == InstallReady(r) /\ content = "published"

-----------------------------------------------------------------------------
Init ==
  /\ busy = FALSE
  /\ job = [k \in Slots |-> NoJob]
  /\ prompts = <<>>
  /\ timer = TRUE
  /\ launched = {}
  /\ app = "up"
  /\ stacked = FALSE

Submit(k, fields) ==
  /\ Free(k)
  /\ job' = [job EXCEPT ![k] = fields]
  /\ busy' = TRUE

\* _check_for_updates, with the include_prerelease setting of the moment
StartCheck(k) ==
  \E beta \in BOOLEAN : Submit(k, NewJob("check", beta, None))

\* mutant: the startup check skips the guard of the manual one
UnguardedTimer == FALSE

\* if self._update_busy: return
AlreadyBusy == busy

\* The button of the settings tab, disabled while busy and behind a question
ManualCheck(k) ==
  /\ app = "up" /\ prompts = <<>>
  /\ ~busy
  /\ StartCheck(k)
  /\ UNCHANGED <<prompts, timer, launched, app, stacked>>

\* _maybe_check_updates_on_startup: the setting may turn it off
StartupTimer ==
  /\ app # "gone" /\ timer
  /\ timer' = FALSE
  /\ \/ ~AlreadyBusy /\ \E k \in Slots : StartCheck(k)
     \/ UNCHANGED <<job, busy>>
  /\ UNCHANGED <<prompts, launched, app, stacked>>

\* check_for_updates on its thread
Fetch(k) ==
  /\ job[k].op = "check" /\ job[k].pc = "run"
  /\ \E feed \in SUBSET Releases :
       \E r \in Newest(Candidates(feed, job[k].beta)) :
         job' = [job EXCEPT ![k].pc = "result", ![k].feed = feed, ![k].rel = r]
  /\ UNCHANGED <<busy, prompts, timer, launched, app, stacked>>

\* download_update: the bytes received are those published or others
Download(k) ==
  /\ job[k].op = "download" /\ job[k].pc = "run"
  /\ \E content \in {"published", "other"} :
       job' = [job EXCEPT ![k].pc = IF Verified(job[k].rel, content) THEN "result" ELSE "error",
                          ![k].content = content]
  /\ UNCHANGED <<busy, prompts, timer, launched, app, stacked>>

\* Either function raises: no network, no repository, no release, no checksum
Raise(k) ==
  /\ job[k].pc = "run"
  /\ job' = [job EXCEPT ![k].pc = "error"]
  /\ UNCHANGED <<busy, prompts, timer, launched, app, stacked>>

Ask(question) ==
  /\ prompts' = Append(prompts, question)
  /\ stacked' = (stacked \/ prompts # <<>>)

\* _handle_update_check_result up to its question
OnChecked(k) ==
  /\ app # "gone"
  /\ job[k].op = "check" /\ job[k].pc = "result"
  /\ IF Offered(job[k].rel)
     THEN Ask([kind |-> "offer", rel |-> job[k].rel, content |-> "none"])
     ELSE UNCHANGED <<prompts, stacked>>
  /\ job' = [job EXCEPT ![k].pc = "done", ![k].feed = {}]
  /\ UNCHANGED <<busy, timer, launched, app>>

\* _handle_downloaded_update up to its question
OnDownloaded(k) ==
  /\ app # "gone"
  /\ job[k].op = "download" /\ job[k].pc = "result"
  /\ Ask([kind |-> "install", rel |-> job[k].rel, content |-> job[k].content])
  /\ job' = [job EXCEPT ![k].pc = "done"]
  /\ UNCHANGED <<busy, timer, launched, app>>

\* _handle_update_error only shows the text
OnError(k) ==
  /\ app # "gone"
  /\ job[k].pc = "error"
  /\ job' = [job EXCEPT ![k].pc = "done"]
  /\ UNCHANGED <<busy, prompts, timer, launched, app, stacked>>

\* mutant: on_finished is connected for checks only
BusyAfterDownload(k) == job[k].op = "download"

BusyAfter(k) == FALSE

\* _finish_update_check
OnFinished(k) ==
  /\ app # "gone"
  /\ job[k].pc = "done"
  /\ job' = [job EXCEPT ![k] = NoJob]
  /\ busy' = BusyAfter(k)
  /\ UNCHANGED <<prompts, timer, launched, app, stacked>>

\* The user answers the innermost question; its handler goes on or returns.  The
\* program ends with its last window: a closed main window waits for the questions.
Top == prompts[Len(prompts)]
Answered(closing) ==
  /\ prompts' = SubSeq(prompts, 1, Len(prompts) - 1)
  /\ app' = IF ~closing /\ app = "up" THEN "up" ELSE IF Len(prompts) = 1 THEN "gone" ELSE "closing"

AnswerNo ==
  /\ app # "gone" /\ prompts # <<>>
  /\ Answered(FALSE)
  /\ UNCHANGED <<busy, job, timer, launched, stacked>>

\* _download_update, which does not look at _update_busy
AcceptOffer(k) ==
  /\ app # "gone" /\ prompts # <<>> /\ Top.kind = "offer"
  /\ Submit(k, NewJob("download", FALSE, Top.rel))
  /\ Answered(FALSE)
  /\ stacked' = (stacked \/ Alive # {} \/ Len(prompts) > 1)
  /\ UNCHANGED <<timer, launched>>

\* launch_installer, unless the file is gone, then close
AcceptInstall ==
  /\ app # "gone" /\ prompts # <<>> /\ Top.kind = "install"
  /\ \/ launched' = launched \cup {[rel |-> Top.rel, content |-> Top.content]} /\ Answered(TRUE)
     \/ UNCHANGED launched /\ Answered(FALSE)
  /\ UNCHANGED <<busy, job, timer, stacked>>

Work(k)     == Fetch(k) \/ Download(k) \/ Raise(k)
Callback(k) == OnChecked(k) \/ OnDownloaded(k) \/ OnError(k) \/ OnFinished(k)

Next ==
  \/ \E k \in Slots : ManualCheck(k) \/ Work(k) \/ Callback(k) \/ AcceptOffer(k)
  \/ StartupTimer
  \/ AnswerNo
  \/ AcceptInstall

Spec == Init /\ [][Next]_vars

\* Requests time out, callbacks are delivered; the user answers nothing
Fairness == \A k \in Slots : WF_vars(Work(k)) /\ WF_vars(Callback(k))

FairSpec == Spec /\ Fairness

-----------------------------------------------------------------------------
Contents  == {"none", "published", "other"}
Questions == [kind : {"offer", "install"}, rel : Releases, content : Contents]

TypeOK ==
  /\ {busy, timer, stacked} \subseteq BOOLEAN
  /\ job \in [Slots -> [op : {"check", "download"}, pc : {"none", "run", "result", "error", "done"},
                        feed : SUBSET Releases, beta : BOOLEAN,
                        rel : Releases \cup {None}, content : Contents]]
  /\ \A k \in Slots : job[k].pc = "result" => job[k].rel # None
  /\ prompts \in Seq(Questions)
  /\ launched \subseteq [rel : Releases, content : Contents]
  /\ app \in {"up", "closing", "gone"}

\* README.md: an installer runs only after its download passed the SHA-256 check;
\* and it is an update, whatever jobs and questions came in between.
OnlyVerifiedUpdatesRun ==
  \A l \in launched : l.content = "published" /\ InstallReady(l.rel) /\ Older(Current, l.rel.version)

\* Whatever the user is asked is about a release that is newer than the program,
\* published, and comes with something to verify its installer against.
QuestionsAreAboutUpdates ==
  \A i \in DOMAIN prompts :
    LET r == prompts[i].rel
    IN ~r.draft /\ r.asset \in {"digest", "sums"} /\ Older(Current, r.version)

\* v and w have the same numbers but for zeros at the end, which only w writes: 1.2 and 1.2.0
WrittenShorter(v, w) ==
  Len(v.base) < Len(w.base) /\ Padded(v.base, Len(w.base)) = w.base

\* The release picked is the newest: by _compare_versions another candidate is newer only if
\* its tag is that of the one picked, short of zeros at the end.  The key sorts it first
\* although the comparison pads, so 1.2 is passed over for 1.2.0-rc1.
NothingNewerMissed ==
  \A k \in Slots : job[k].op = "check" /\ job[k].rel # None =>
    \A q \in Candidates(job[k].feed, job[k].beta) :
      Older(job[k].rel.version, q.version) => WrittenShorter(q.version, job[k].rel.version)

\* Until questions pile up or an offer is accepted before its check has finished,
\* one update job runs at a time and _update_busy says so.
OneUpdateAtATime == ~stacked => Cardinality(Alive) <= 1 /\ (busy <=> Alive # {})

\* The update button comes back, whatever the network does and though no question is answered.
BusyClears == busy ~> (~busy \/ app = "gone")

=============================================================================
