----------------------------- MODULE StudioQueue -----------------------------
(* The transfer queue of the Studio companion on the laptop (tools/studio):   *)
(* execute() of lib/queue.cjs takes a job through a download, a conversion,   *)
(* the removal of the downloaded original and an upload, in three StageGates; *)
(* users and the companion pause, resume and cancel it; the portal, the       *)
(* network and the process fail at any await.  The journal (lib/store.cjs)    *)
(* is written whole at every change of a field kept here, so it is the value  *)
(* of laptop.job; a crash loses everything else.                              *)
(*                                                                            *)
(* A step ends where the code awaits something outside the process.           *)
EXTENDS Naturals, Sequences, FiniteSetsExt

CONSTANTS
  Job,        \* 1..n in the order they are added
  Kind,       \* [Job -> what may be asked for: media, source, targets]
  MaxActive,  \* runs at a time (12 in queue.cjs:81)
  Slots,      \* [Stage -> limit of its gate] (stage-resources.cjs:31)
  MaxEvents   \* bound on what users ask for and what fails

ASSUME JobsAreNumbered == Job \subseteq Nat

VARIABLES
  laptop,  \* the process: journal, runs, gates, actions, timer
  files,   \* [Job -> the video files in its directory]
  pi,      \* [Job -> its upload on the Pi]
  events   \* how many requests of users and events there have been

queueVars == <<laptop, files, pi, events>>

Stage == {"downloads", "conversion", "upload"}

NewJob == [status |-> "absent", target |-> "none", source |-> FALSE, prepared |-> "none", removed |-> FALSE,
           upload |-> FALSE, result |-> FALSE, matched |-> FALSE, due |-> TRUE]

Gate(stage) == INSTANCE StageGate WITH Task <- Job, Limit <- Slots[stage], gate <- laptop.gate[stage]

(* The stage whose slot a run asks for or holds while it awaits something.    *)
StageOf(at) ==
  CASE at = "download" -> "downloads"
    [] at = "convert" -> "conversion"
    [] at \in {"create", "created", "send", "publish"} -> "upload"
    [] OTHER -> "none"

PhaseOf(s, j) == IF StageOf(s.at[j]) = "none" THEN "out" ELSE s.gate[StageOf(s.at[j])].phase[j]

Active(s) == {j \in Job : s.at[j] # "idle"}

-----------------------------------------------------------------------------
(* kick(): the first jobs of the list that may start do, up to the limit; the *)
(* timer is armed when the list has no further one.                           *)
Startable(s) ==
  {j \in Job \ Active(s) : \/ s.job[j].status = "queued"
                           \/ s.job[j].status = "waiting" /\ s.job[j].due}

(* Plausible bug: only a list without any run is looked at again.             *)
KickedMutant(s) ==
  LET started == {j \in Startable(s) : Cardinality({k \in Startable(s) : k < j} \cup Active(s)) < MaxActive}
  IN  IF s.stopping THEN s
      ELSE [s EXCEPT !.at = [j \in Job |-> IF j \in started THEN "begin" ELSE @[j]],
                     !.timer = @ \/ started # {}]

Kicked(s) ==
  LET started == {j \in Startable(s) : Cardinality({k \in Startable(s) : k < j} \cup Active(s)) < MaxActive}
  IN  IF s.stopping THEN s
      ELSE [s EXCEPT !.at = [j \in Job |-> IF j \in started THEN "begin" ELSE @[j]],
                     !.timer = @ \/ Cardinality(Active(s) \cup started) < MaxActive]

(* Plausible bug: the slot is given back only by an operation that succeeds.  *)
LeaveStageMutant(s, j) == s

(* The end of StageGate.run, whichever way: its "finally", or the abort       *)
(* listener of a task that still waits.                                       *)
LeaveStage(s, j) ==
  LET stage == StageOf(s.at[j])
  IN  CASE PhaseOf(s, j) = "out" -> s
        [] PhaseOf(s, j) = "waiting" -> [s EXCEPT !.gate[stage] = Gate(stage)!Aborted(@, j)]
        [] OTHER -> [s EXCEPT !.gate[stage] = Gate(stage)!Left(@, j)]

(* execute() returned: the run leaves "actives", and kick() goes on.          *)
Ended(s, j, status) ==
  Kicked([s EXCEPT !.job[j].status = status, !.at[j] = "idle", !.asked[j] = "none"])

(* execute() threw: what the user asked for wins over the error.              *)
Rejected(s, j, status) ==
  Ended([LeaveStage(s, j) EXCEPT !.job[j].due = FALSE], j, IF s.asked[j] = "none" THEN status ELSE s.asked[j])

EnterStage(s, j, at) ==
  LET stage == StageOf(at)
  IN  [s EXCEPT !.job[j].status = "running", !.at[j] = at, !.gate[stage] = Gate(stage)!Entered(@, j)]

Deliver(s, j) ==
  IF s.job[j].target = "local" THEN Ended(s, j, "prepared") ELSE EnterStage(s, j, "create")

(* Plausible bug: a download that needed no conversion is removed as well.    *)
CleanUpMutant(s, j) ==
  IF Kind[j].source = "iplayer" /\ ~s.job[j].removed
  THEN [s EXCEPT !.at[j] = "verify"]
  ELSE Deliver(s, j)

(* cleanupOriginal: only a downloaded original with a converted copy beside   *)
(* it is removed, and only when the copy has been inspected.                  *)
CleanUp(s, j) ==
  IF Kind[j].source = "iplayer" /\ s.job[j].prepared = "copy" /\ ~s.job[j].removed
  THEN [s EXCEPT !.at[j] = "verify"]
  ELSE Deliver(s, j)

(* execute() from the check of the original to its next await.                *)
Prepare(s, j, present) ==
  IF ~s.job[j].removed /\ "original" \notin present THEN Rejected(s, j, "failed")
  ELSE IF s.job[j].prepared # "none" THEN CleanUp(s, j)
  ELSE IF s.job[j].target = "later" THEN Ended([s EXCEPT !.job[j].prepared = "source"], j, "prepared")
  ELSE EnterStage(s, j, "convert")

(* execute() from its first line to its first await.                          *)
Begun(s, j) ==
  CASE s.job[j].result -> [s EXCEPT !.job[j].status = "running", !.at[j] = "repair"]
    [] ~s.job[j].result /\ ~s.job[j].source -> EnterStage(s, j, "download")
    [] OTHER -> Prepare(s, j, files[j])
-----------------------------------------------------------------------------
Happens == events < MaxEvents /\ events' = events + 1

(* Nothing else runs until the jobs kick() started have reached an await.     *)
Starting == {j \in Job : laptop.at[j] = "begin"}

Begin ==
  /\ Starting # {}
  /\ laptop' = Begun(laptop, Min(Starting))
  /\ UNCHANGED <<files, pi, events>>

(* An await of a run that nobody stopped, its slot granted.                   *)
Awaits(j, at) ==
  /\ Starting = {}
  /\ laptop.at[j] = at /\ laptop.asked[j] = "none" /\ PhaseOf(laptop, j) \in {"out", "inside"}

(* The continuation of a waiter that got its slot; an aborted one throws.     *)
GoOn(j) ==
  /\ Starting = {} /\ PhaseOf(laptop, j) = "granted"
  /\ laptop' = IF laptop.asked[j] = "none"
               THEN [laptop EXCEPT !.gate[StageOf(laptop.at[j])] = Gate(StageOf(laptop.at[j]))!Continued(@, j)]
               ELSE Rejected(laptop, j, "failed")
  /\ UNCHANGED <<files, pi, events>>

Downloaded(j) ==
  /\ Awaits(j, "download")
  /\ files' = [files EXCEPT ![j] = @ \cup {"original"}]
  /\ laptop' = Prepare([LeaveStage(laptop, j) EXCEPT !.job[j].source = TRUE], j, files'[j])
  /\ UNCHANGED <<pi, events>>

(* media.prepare: a copy for the Pi, or the file itself if it will do.        *)
Converted(j, prepared) ==
  /\ Awaits(j, "convert")
  /\ files' = [files EXCEPT ![j] = IF prepared = "copy" THEN @ \cup {"copy"} ELSE @]
  /\ laptop' = CleanUp([LeaveStage(laptop, j) EXCEPT !.job[j].prepared = prepared], j)
  /\ UNCHANGED <<pi, events>>

(* The unlink, and the journal's note of it: a crash fits between them.  The  *)
(* inspection of the copy hears no abort, so a run told to stop goes on to    *)
(* its next gate - or to its end, when the copy stays on the laptop.          *)
Unlink(j) ==
  /\ Starting = {} /\ laptop.at[j] = "verify"
  /\ files' = [files EXCEPT ![j] = @ \ {"original"}]
  /\ laptop' = [laptop EXCEPT !.at[j] = "unlinked"]
  /\ UNCHANGED <<pi, events>>

Unlinked(j) ==
  /\ Starting = {} /\ laptop.at[j] = "unlinked"
  /\ LET noted == [laptop EXCEPT !.job[j].removed = TRUE]
     IN  laptop' = IF laptop.asked[j] # "none" /\ laptop.job[j].target # "local"
                   THEN Rejected(noted, j, "failed")
                   ELSE Deliver(noted, j)
  /\ UNCHANGED <<files, pi, events>>

(* The programme is gone, the encoder fails, the copy is not right.           *)
ToolFails(j) ==
  /\ Happens
  /\ \/ laptop.at[j] = "verify" /\ Starting = {}
     \/ \E at \in {"download", "convert"} : Awaits(j, at)
  /\ laptop' = Rejected(laptop, j, "failed")
  /\ UNCHANGED <<files, pi>>

(* No answer from the portal, or a sign-in page: the job waits for its retry. *)
Offline(j) ==
  /\ Happens
  /\ \E at \in {"create", "created", "send"} : Awaits(j, at)
  /\ laptop' = Rejected(laptop, j, "waiting")
  /\ UNCHANGED <<files, pi>>

(* The operation of a run that was told to stop has ended.                    *)
Stopped(j) ==
  /\ Starting = {} /\ laptop.asked[j] # "none" /\ laptop.at[j] # "idle"
  /\ laptop.at[j] \notin {"verify", "unlinked"} /\ PhaseOf(laptop, j) # "granted"
  /\ laptop' = Rejected(laptop, j, "failed")
  /\ UNCHANGED <<files, pi, events>>
-----------------------------------------------------------------------------
(* portal.upload.  The Pi makes an upload, or finds the one with that name;   *)
(* its answer may be lost.                                                    *)
PiCreates(j) ==
  /\ Awaits(j, "create") /\ ~laptop.job[j].upload
  /\ pi' = [pi EXCEPT ![j] = IF @ = "none" THEN "receiving" ELSE @]
  /\ laptop' = [laptop EXCEPT !.at[j] = "created"]
  /\ UNCHANGED <<files, events>>

Created(j) ==
  /\ Awaits(j, "created")
  /\ laptop' = [laptop EXCEPT !.job[j].upload = TRUE, !.at[j] = "create"]
  /\ UNCHANGED <<files, pi, events>>

(* The upload of an earlier run is looked up, resumed or retried.             *)
Found(j) ==
  /\ Awaits(j, "create") /\ laptop.job[j].upload
  /\ pi' = [pi EXCEPT ![j] = CASE @ = "paused" -> "receiving"
                               [] @ \in {"held", "error"} -> "queued"
                               [] OTHER -> @]
  /\ laptop' = IF pi[j] = "none" THEN Rejected(laptop, j, "failed") ELSE [laptop EXCEPT !.at[j] = "send"]
  /\ UNCHANGED <<files, events>>

SendChunks(j) ==
  /\ Awaits(j, "send") /\ pi[j] = "receiving"
  /\ pi' = [pi EXCEPT ![j] = "queued"]
  /\ UNCHANGED <<laptop, files, events>>

(* The poll finds something other than progress.                              *)
Poll(j) ==
  /\ Awaits(j, "send")
  /\ \/ /\ pi[j] \in {"complete", "refresh-error"}
        /\ pi' = [pi EXCEPT ![j] = "complete"]
        /\ laptop' = [laptop EXCEPT !.job[j].result = TRUE, !.at[j] = "publish"]
     \/ /\ pi[j] \in {"paused", "held"}
        /\ laptop' = Rejected(laptop, j, "paused")
        /\ UNCHANGED pi
     \/ /\ pi[j] \in {"error", "none", "refresh-error"}
        /\ laptop' = Rejected(laptop, j, "failed")
        /\ UNCHANGED pi
  /\ UNCHANGED <<files, events>>

(* finishSubtitles and finishMetadata: their errors are only warnings.        *)
Complete(j, matched) ==
  /\ \E at \in {"publish", "repair"} : Awaits(j, at)
  /\ laptop' = Ended([LeaveStage(laptop, j) EXCEPT !.job[j].matched = @ \/ matched], j, "complete")
  /\ UNCHANGED <<files, pi, events>>

ExecuteNext(j) ==
  \/ GoOn(j) \/ Downloaded(j) \/ Unlink(j) \/ Unlinked(j) \/ Stopped(j)
  \/ \E prepared \in {"source", "copy"} : Converted(j, prepared)
  \/ PiCreates(j) \/ Created(j) \/ Found(j) \/ SendChunks(j) \/ Poll(j)
  \/ \E matched \in BOOLEAN : Complete(j, matched)
-----------------------------------------------------------------------------
(* add(): jobs are appended, and a video already on its way is not repeated.  *)
Add(j, target) ==
  /\ Starting = {} /\ ~laptop.stopping /\ laptop.job[j].status = "absent"
  /\ \A k \in Job : k < j => laptop.job[k].status # "absent"
  /\ \A k \in Job \ {j} : Kind[k] = Kind[j] =>
       laptop.job[k].status \in {"absent", "complete", "cancelled", "failed"}
  /\ laptop' = Kicked([laptop EXCEPT !.job[j].status = "queued", !.job[j].target = target,
                               !.job[j].source = Kind[j].source = "file"])
  /\ UNCHANGED <<files, pi, events>>

(* The second half of action() for pause and cancel.                          *)
Apply(s, j, action) ==
  LET asked == IF action = "cancel" THEN "cancelled" ELSE "paused"
      told  == [s EXCEPT !.acting[j] = "none", !.asked[j] = asked]
  IN  CASE s.at[j] = "idle" -> Kicked([s EXCEPT !.job[j].status = asked, !.acting[j] = "none"])
        [] PhaseOf(s, j) = "waiting" -> Rejected(told, j, "failed")
        [] OTHER -> Kicked(told)

(* Plausible bug: the laptop stops without telling the Pi.                    *)
AskedOfPiMutant(j) == FALSE

AskedOfPi(j) == laptop.job[j].upload

(* pause and cancel: an upload the Pi knows of is paused or removed there     *)
(* first.                                                                     *)
Act(j, action) ==
  /\ Happens
  /\ Starting = {} /\ ~laptop.stopping
  /\ laptop.job[j].status \notin {"absent", "complete", "prepared", "cancelled"}
  /\ laptop.acting[j] = "none"
  /\ laptop' = IF AskedOfPi(j)
               THEN [laptop EXCEPT !.acting[j] = action]
               ELSE Apply(laptop, j, action)
  /\ UNCHANGED <<files, pi>>

Allowed(action) ==
  IF action = "pause" THEN {"receiving", "queued"} ELSE {"receiving", "queued", "paused", "held", "error"}

After(action, upload) ==
  CASE action = "cancel" -> "none"
    [] action = "pause" /\ upload = "receiving" -> "paused"
    [] OTHER -> "held"

PiActs(j) ==
  /\ laptop.acting[j] \in {"pause", "cancel"}
  /\ IF pi[j] \in Allowed(laptop.acting[j])
     THEN /\ pi' = [pi EXCEPT ![j] = After(laptop.acting[j], @)]
          /\ laptop' = [laptop EXCEPT !.acting[j] = IF @ = "pause" THEN "pause done" ELSE "cancel done"]
     ELSE /\ laptop' = [laptop EXCEPT !.acting[j] = "refused"]
          /\ UNCHANGED pi
  /\ UNCHANGED <<files, events>>

Answered(j) ==
  /\ Starting = {}
  /\ \/ laptop.acting[j] = "pause done" /\ laptop' = Apply(laptop, j, "pause")
     \/ laptop.acting[j] = "cancel done" /\ laptop' = Apply(laptop, j, "cancel")
     \/ laptop.acting[j] = "refused" /\ laptop' = [laptop EXCEPT !.acting[j] = "none"]
  /\ UNCHANGED <<files, pi, events>>

(* An unreachable portal stops a pause from being told, not from happening.   *)
Unanswered(j) ==
  /\ Starting = {} /\ laptop.acting[j] # "none"
  /\ Happens
  /\ laptop' = IF laptop.acting[j] \in {"pause", "pause done"}
               THEN Apply(laptop, j, "pause")
               ELSE [laptop EXCEPT !.acting[j] = "none"]
  /\ UNCHANGED <<files, pi>>

(* resume and retry, and the retry of a completed job's metadata.             *)
Resume(j) ==
  /\ Happens
  /\ Starting = {} /\ ~laptop.stopping
  /\ \/ laptop.job[j].status \in {"paused", "failed", "waiting"}
     \/ laptop.job[j].status = "complete" /\ ~laptop.job[j].matched
  /\ laptop' = Kicked([laptop EXCEPT !.job[j].status = "queued"])
  /\ UNCHANGED <<files, pi>>
-----------------------------------------------------------------------------
(* nextAttempt passes, and the 15 second timer fires.                         *)
RetryIsDue(j) ==
  /\ laptop.job[j].status = "waiting" /\ ~laptop.job[j].due
  /\ laptop' = [laptop EXCEPT !.job[j].due = TRUE]
  /\ UNCHANGED <<files, pi, events>>

TimerFires ==
  /\ Starting = {} /\ laptop.timer
  /\ laptop' = Kicked([laptop EXCEPT !.timer = FALSE])
  /\ UNCHANGED <<files, pi, events>>

(* Another process reads the journal: what was under way is paused.           *)
Started(s) ==
  Kicked([job |-> [j \in Job |->
            IF s.job[j].status \in {"absent", "complete", "prepared", "cancelled", "failed", "paused"}
            THEN s.job[j] ELSE [s.job[j] EXCEPT !.status = "paused"]],
          at |-> [j \in Job |-> "idle"], asked |-> [j \in Job |-> "none"],
          acting |-> [j \in Job |-> "none"],
          gate |-> [stage \in Stage |-> Gate(stage)!Empty], timer |-> FALSE, stopping |-> FALSE])

Crash ==
  /\ Happens
  /\ laptop' = Started(laptop)
  /\ UNCHANGED <<files, pi>>

(* The abort listeners of all the tasks that wait at a gate.                  *)
Emptied(g) ==
  [g EXCEPT !.waiters = <<>>, !.phase = [j \in Job |-> IF @[j] = "waiting" THEN "out" ELSE @[j]]]

(* "Quit Studio and pause work": every run is told to stop, and the ones that *)
(* wait for a slot end at once ...                                            *)
Shutdown ==
  /\ Happens
  /\ Starting = {} /\ ~laptop.stopping
  /\ LET ends == {j \in Job : laptop.at[j] = "idle" \/ PhaseOf(laptop, j) = "waiting"}
     IN  laptop' = [laptop EXCEPT
                      !.stopping = TRUE, !.timer = FALSE,
                      !.asked = [j \in Job |-> IF j \in ends THEN "none" ELSE "paused"],
                      !.at = [j \in Job |-> IF j \in ends THEN "idle" ELSE @[j]],
                      !.job = [j \in Job |-> IF PhaseOf(laptop, j) = "waiting"
                                             THEN [@[j] EXCEPT !.status = "paused", !.due = FALSE] ELSE @[j]],
                      !.gate = [stage \in Stage |-> Emptied(@[stage])]]
  /\ UNCHANGED <<files, pi>>

(* ... and when the last one has, Studio quits; later it is started again.    *)
Quit ==
  /\ laptop.stopping /\ Active(laptop) = {}
  /\ laptop' = Started(laptop)
  /\ UNCHANGED <<files, pi, events>>

(* The Pi's conversion worker, and the owner at the portal's transfer list.   *)
PiWorks(j) ==
  /\ \/ pi[j] = "queued" /\ pi' = [pi EXCEPT ![j] = "working"]
     \/ pi[j] = "working" /\ \E end \in {"complete", "error", "refresh-error"} : pi' = [pi EXCEPT ![j] = end]
  /\ UNCHANGED <<laptop, files, events>>

PortalActs(j) ==
  /\ Happens
  /\ \E action \in {"pause", "cancel"} : pi[j] \in Allowed(action) /\ pi' = [pi EXCEPT ![j] = After(action, @)]
  /\ UNCHANGED <<laptop, files>>
-----------------------------------------------------------------------------
QueueInit ==
  /\ laptop = Started([job |-> [j \in Job |-> NewJob]])
  /\ files = [j \in Job |-> IF Kind[j].source = "file" THEN {"original"} ELSE {}]
  /\ pi = [j \in Job |-> "none"]
  /\ events = 0

QueueNext ==
  \/ Begin \/ TimerFires \/ Crash \/ Shutdown \/ Quit
  \/ \E j \in Job :
       \/ ExecuteNext(j) \/ ToolFails(j) \/ Offline(j)
       \/ Resume(j) \/ \E target \in Kind[j].targets : Add(j, target)
       \/ \E action \in {"pause", "cancel"} : Act(j, action)
       \/ PiActs(j) \/ Answered(j) \/ Unanswered(j)
       \/ RetryIsDue(j) \/ PiWorks(j) \/ PortalActs(j)

(* Tools and requests end, by a result or a timeout; timers fire; the Pi      *)
(* works through its queue.  Users and events owe nothing.                    *)
Fairness ==
  /\ WF_queueVars(Begin) /\ WF_queueVars(TimerFires) /\ WF_queueVars(Quit)
  /\ \A j \in Job : WF_queueVars(ExecuteNext(j)) /\ WF_queueVars(PiActs(j)) /\ WF_queueVars(Answered(j))
                    /\ WF_queueVars(RetryIsDue(j)) /\ WF_queueVars(PiWorks(j))

QueueSpec == QueueInit /\ [][QueueNext]_queueVars
FairQueueSpec == QueueSpec /\ Fairness
-----------------------------------------------------------------------------
(* A cancelled transfer does not turn up in the library: whatever the order   *)
(* of the run, the user, the Pi and the answers, the Pi has removed what was  *)
(* sent, or was never sent all of it (queue.cjs:215-222).                     *)
CancelledIsNotPublished ==
  \A j \in Job : laptop.job[j].status = "cancelled" => pi[j] \in {"none", "receiving", "paused"}

(* A downloaded original is removed only when the journal names a prepared    *)
(* copy that exists, crash or not: otherwise the original is "retained"       *)
(* (media-cleanup.cjs:13).                                                    *)
CopyBeforeRemoval ==
  \A j \in Job :
    /\ laptop.job[j].prepared = "copy" => "copy" \in files[j]
    /\ laptop.job[j].source /\ "original" \notin files[j] => laptop.job[j].prepared = "copy"

(* What is irrevocable, publication and removal, waits until it is wanted and *)
(* until it is safe.                                                          *)
IrrevocableIsWanted == CancelledIsNotPublished /\ CopyBeforeRemoval

(* No abort, failure, shutdown or hand-over loses or invents a slot: each of  *)
(* the queue's three stages behaves as a StageGate.  (A shutdown that aborts  *)
(* several waiters of one stage would be several of its steps.)               *)
StagesAreGates ==
  /\ \A stage \in Stage : Gate(stage)!Init
  /\ [][\A stage \in Stage : [Gate(stage)!Next]_(laptop.gate[stage])]_queueVars

(* A transfer that waits for the portal is tried again, or was paused, failed *)
(* or cancelled meanwhile: some timer or run always comes back to the list.   *)
WaitingIsRetried ==
  \A j \in Job : laptop.job[j].status = "waiting" ~> laptop.job[j].status # "waiting"
=============================================================================
