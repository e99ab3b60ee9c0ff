--------------------------- MODULE StudioCompanion ---------------------------
(* One Studio job between the Pi, which keeps it, and the laptops that may do *)
(* it.  A laptop polls (tools/studio/lib/companion.cjs): it reports the work  *)
(* it does, each under the claim it was given, and the reply tells it to go   *)
(* on, to stop, or to begin.  The Pi (repositories/studio.py) handles a poll  *)
(* in one transaction; a claim whose lease is over may be given away.  The    *)
(* work (companion-jobs.cjs) lets the transfer queue of the laptop publish    *)
(* the video, saves a copy in iCloud, leaves a receipt on the Pi and only     *)
(* then frees the working files.                                              *)
(*                                                                            *)
(* A step ends where the laptop awaits the portal, its queue or a delay.      *)
EXTENDS Naturals

CONSTANTS
  Laptop,
  MaxClaims,       \* bound on the claims given out
  MaxStops,        \* bound on what the owner stops
  MaxStudioFaults  \* bound on what fails

ASSUME ClaimsAssumption == MaxClaims \in Nat

VARIABLES
  pi,            \* the job's record, and what the Pi knows of the laptops
  tick,          \* [Laptop -> its poll: idle, or answered and not yet heard]
  active,        \* [Laptop -> the claim in "actives", 0 for none]
  work,          \* [claim -> the run() that was started for it]
  local,         \* [Laptop -> the job in its journal]
  files,         \* [Laptop -> its working copies]
  cloud,         \* [Laptop -> its copy in iCloud]
  studioEvents   \* how many stops and faults there have been

companionVars == <<pi, tick, active, work, local, files, cloud, studioEvents>>

Claim == 1..MaxClaims
NoWork == [laptop |-> "none", at |-> "none", aborted |-> FALSE, value |-> "none"]
NewLocal == [status |-> "absent", published |-> FALSE, saved |-> FALSE, verified |-> FALSE, removed |-> FALSE]
Unpolled(session) == [at |-> "idle", claim |-> 0, session |-> session, command |-> "none", new |-> 0]

(* progress() by what the Pi does with it: a stage in the foreground or the   *)
(* background, or an end.                                                     *)
Finals == {"complete", "failed", "paused"}

Befalls == studioEvents.faults < MaxStudioFaults /\ studioEvents' = [studioEvents EXCEPT !.faults = @ + 1]
-----------------------------------------------------------------------------
(* studio_poll.                                                               *)
BackgroundAlive(p) ==
  p.stage = "background" /\ p.session = p.known[p.worker] /\ p.alive[p.worker]

(* Plausible bug: a claim is believed although another was given out since.   *)
ReportedMutant(p, w, claim, value) ==
  IF p.status # "active" THEN p
  ELSE [p EXCEPT !.stage = IF value = "background" THEN "background" ELSE "foreground",
                 !.status = IF value \in Finals THEN value ELSE @, !.lease = TRUE]

Reported(p, w, claim, value) ==
  IF claim # p.claim \/ p.worker # w \/ p.status # "active" THEN p
  ELSE [p EXCEPT !.stage = IF value = "background" THEN "background" ELSE "foreground",
                 !.status = IF value \in Finals THEN value ELSE @, !.lease = TRUE]

Claimable(p) ==
  p.given < MaxClaims /\ (p.status = "queued" \/ (p.status = "active" /\ ~p.lease /\ ~BackgroundAlive(p)))

Claimed(p, w) ==
  [p EXCEPT !.status = "active", !.worker = w, !.session = p.known[w],
            !.claim = p.given + 1, !.given = @ + 1, !.lease = TRUE]

-----------------------------------------------------------------------------
(* tick(): one poll at a time, about the state in "actives" as it is now; it  *)
(* reaches the Pi as it was sent, and its answer comes later.                 *)
Poll(w) ==
  /\ tick[w].at = "idle"
  /\ LET claim    == active[w]
         value    == IF claim = 0 THEN "none" ELSE work[claim].value
         heard    == [pi EXCEPT !.known[w] = tick[w].session, !.alive[w] = TRUE]
         reported == IF claim = 0 THEN heard ELSE Reported(heard, w, claim, value)
         ours     == claim # 0 /\ claim = pi.claim /\ pi.worker = w
         after    == IF Claimable(reported) THEN Claimed(reported, w) ELSE reported
     IN  /\ pi' = after
         /\ tick' = [tick EXCEPT ![w] =
              [at |-> "answered", claim |-> claim, session |-> tick[w].session,
               command |-> IF ours THEN pi.command ELSE "stale",
               new |-> IF after.claim # pi.claim THEN after.claim ELSE 0]]
  /\ UNCHANGED <<active, work, local, files, cloud, studioEvents>>

Quiet(w) == Unpolled(tick[w].session)

(* The answer is lost.  (A poll lost on its way is as if it was never sent.)  *)
LosePoll(w) ==
  /\ tick[w].at = "answered" /\ Befalls
  /\ tick' = [tick EXCEPT ![w] = Quiet(w)]
  /\ UNCHANGED <<pi, active, work, local, files, cloud>>

(* What pause and cancel of the transfer queue do to the job of the journal.  *)
Asked(l, action) ==
  CASE l.status \in {"working", "pausing", "cancelling"} ->
         [l EXCEPT !.status = IF action = "cancel" THEN "cancelling" ELSE "pausing"]
    [] l.status = "failed" -> [l EXCEPT !.status = IF action = "cancel" THEN "cancelled" ELSE "paused"]
    [] OTHER -> l

(* Plausible bug: a worker that lost its claim is forgotten but not stopped.  *)
AbortedMutant(runs, claim) == runs

Aborted(runs, claim) == [runs EXCEPT ![claim].aborted = TRUE]

(* The answer: the work that was reported goes on, stops, or is over; then a  *)
(* new claim is begun unless work is still under way.                         *)
Hear(w) ==
  /\ tick[w].at = "answered"
  /\ LET t     == tick[w]
         stop  == t.claim # 0 /\ t.command # "none"
         over  == t.claim # 0 /\ work[t.claim].at = "ended"
         kept  == IF stop \/ over THEN 0 ELSE active[w]
         begun == t.new # 0 /\ kept = 0
         told  == IF over THEN [work EXCEPT ![t.claim] = NoWork]
                  ELSE IF stop THEN Aborted(work, t.claim) ELSE work
     IN  /\ work' = IF begun
                    THEN [told EXCEPT ![t.new] = [laptop |-> w, at |-> "find", aborted |-> FALSE, value |-> "foreground"]]
                    ELSE told
         /\ active' = [active EXCEPT ![w] = IF begun THEN t.new ELSE kept]
         /\ local' = [local EXCEPT ![w] =
              IF stop /\ work[t.claim].at # "find"
              THEN Asked(@, IF t.command = "cancel" THEN "cancel" ELSE "pause") ELSE @]
         /\ tick' = [tick EXCEPT ![w] = Quiet(w)]
  /\ UNCHANGED <<pi, files, cloud, studioEvents>>
-----------------------------------------------------------------------------
(* run(): a state of its own for every claim.                                 *)
Running(c, at) == work[c].at = at

Goes(c, at, value) == work' = [work EXCEPT ![c].at = at, ![c].value = value]

(* Its end stays for the next poll to tell, unless nobody waits for it.       *)
WorkEnds(c, value) ==
  work' = [work EXCEPT ![c] =
    IF active[work[c].laptop] = c THEN [@ EXCEPT !.at = "ended", !.aborted = FALSE, !.value = value] ELSE NoWork]

(* An error, a stop: the end that is reported depends on the abort alone.     *)
Throws(c) == WorkEnds(c, IF work[c].aborted THEN "paused" ELSE "failed")

(* The job of an earlier claim is taken up where it was left.                 *)
Find(c) ==
  /\ Running(c, "find")
  /\ LET w == work[c].laptop
     IN  \/ /\ local[w].status = "absent"
            /\ IF work[c].aborted THEN Throws(c) /\ UNCHANGED <<local, files>>
               ELSE /\ Goes(c, "wait", "foreground")
                    /\ local' = [local EXCEPT ![w].status = "working"]
                    /\ files' = [files EXCEPT ![w] = TRUE]
         \/ /\ local[w].status # "absent"
            /\ Goes(c, "wait", "foreground")
            /\ local' = [local EXCEPT ![w].status = IF @ \in {"paused", "failed"} THEN "working" ELSE @]
            /\ UNCHANGED files
  /\ UNCHANGED <<pi, tick, active, cloud, studioEvents>>

(* The transfer queue of the laptop: it publishes, fails, or stops when told. *)
QueueEnds(w, status) ==
  /\ \/ local[w].status = "working" /\ status \in {"complete", "failed"}
     \/ local[w].status = "pausing" /\ status = "paused"
     \/ local[w].status = "cancelling" /\ status = "cancelled"
  /\ IF status = "failed" THEN Befalls ELSE UNCHANGED studioEvents
  /\ local' = [local EXCEPT ![w].status = status, ![w].published = @ \/ status = "complete"]
  /\ UNCHANGED <<pi, tick, active, work, files, cloud>>

(* The wait for the queue, looked at every 200 ms.                            *)
Wait(c) ==
  /\ Running(c, "wait")
  /\ LET w == work[c].laptop
     IN  \/ /\ local[w].status = "complete"
            /\ Goes(c, IF local[w].saved THEN "receipt" ELSE "save",
                       IF local[w].saved THEN work[c].value ELSE "background")
            /\ UNCHANGED local
         \/ /\ local[w].status \in {"failed", "paused", "cancelled"}
            /\ Throws(c) /\ UNCHANGED local
         \/ /\ local[w].status \in {"working", "pausing", "cancelling"} /\ work[c].aborted
            /\ Throws(c) /\ local' = [local EXCEPT ![w] = Asked(@, "pause")]
  /\ UNCHANGED <<pi, tick, active, files, cloud, studioEvents>>

Current(c) == pi.claim = c /\ pi.status = "active"

(* saveCloud: the Pi reserves the copy for the current claim only; the file   *)
(* is copied to the iCloud folder and iCloud confirms it.                     *)
Reserve(c) ==
  /\ Running(c, "save")
  /\ IF work[c].aborted \/ ~Current(c) \/ ~files[work[c].laptop] THEN Throws(c) ELSE Goes(c, "copy", "background")
  /\ UNCHANGED <<pi, tick, active, local, files, cloud, studioEvents>>

Save(c) ==
  /\ Running(c, "copy")
  /\ IF work[c].aborted THEN Throws(c) /\ UNCHANGED <<local, cloud>>
     ELSE /\ cloud' = [cloud EXCEPT ![work[c].laptop] = "there"]
          /\ local' = [local EXCEPT ![work[c].laptop].saved = TRUE]
          /\ Goes(c, "receipt", "background")
  /\ UNCHANGED <<pi, tick, active, files, studioEvents>>

(* recordProvenance: again for the current claim only.                        *)
MayLeaveReceipt(c) == Current(c) /\ ~work[c].aborted

Receipt(c) ==
  /\ Running(c, "receipt")
  /\ IF MayLeaveReceipt(c) THEN Goes(c, "verify", "background") ELSE Throws(c)
  /\ UNCHANGED <<pi, tick, active, local, files, cloud, studioEvents>>

(* Plausible bug: the copy's old confirmation is good enough.                 *)
ConfirmedMutant(w) == local[w].saved

(* verifyCloudCopies: iCloud is asked again, whatever was confirmed before.   *)
Confirmed(w) == local[w].saved /\ cloud[w] = "there"

(* finishTemporaryWork: the working files go after a fresh confirmation ...   *)
Verify(c) ==
  /\ Running(c, "verify")
  /\ LET w == work[c].laptop
     IN  IF work[c].aborted \/ (~local[w].removed /\ ~Confirmed(w)) THEN Throws(c)
         ELSE Goes(c, IF local[w].removed THEN "release" ELSE "confirmed", "background")
  /\ UNCHANGED <<pi, tick, active, local, files, cloud, studioEvents>>

(* ... whose note is on the disk before the first file goes ...               *)
Remove(c) ==
  /\ Running(c, "confirmed")
  /\ LET w == work[c].laptop
     IN  IF ~local[w].verified
         THEN local' = [local EXCEPT ![w].verified = TRUE] /\ UNCHANGED <<files, work>>
         ELSE IF files[w]
         THEN files' = [files EXCEPT ![w] = FALSE] /\ UNCHANGED <<local, work>>
         ELSE local' = [local EXCEPT ![w].removed = TRUE] /\ Goes(c, "release", "background") /\ UNCHANGED files
  /\ UNCHANGED <<pi, tick, active, cloud, studioEvents>>

(* ... and iCloud lets go of its cache, sooner or later.                      *)
Release(c) ==
  /\ Running(c, "release")
  /\ IF work[c].aborted THEN Throws(c) ELSE WorkEnds(c, "complete")
  /\ UNCHANGED <<pi, tick, active, local, files, cloud, studioEvents>>

Works(c) == Find(c) \/ Wait(c) \/ Reserve(c) \/ Save(c) \/ Receipt(c) \/ Verify(c) \/ Remove(c) \/ Release(c)
-----------------------------------------------------------------------------
(* studio_action: the owner at the portal.                                    *)
OwnerStops(action) ==
  /\ pi.status \notin {"complete", "cancelled"}
  /\ studioEvents.stops < MaxStops /\ studioEvents' = [studioEvents EXCEPT !.stops = @ + 1]
  /\ pi' = [pi EXCEPT !.status = IF action = "cancel" THEN "cancelled" ELSE "paused", !.command = action]
  /\ UNCHANGED <<tick, active, work, local, files, cloud>>

OwnerResumes ==
  /\ pi.status \in {"paused", "cancelled", "failed"} /\ pi.given < MaxClaims
  /\ pi' = [pi EXCEPT !.status = "queued", !.command = "none", !.claim = 0, !.lease = FALSE]
  /\ UNCHANGED <<tick, active, work, local, files, cloud, studioEvents>>

(* The copy is removed from iCloud by other means; "late" when nothing here   *)
(* could have noticed any more.                                               *)
CloudLoses(w) ==
  /\ Befalls /\ cloud[w] = "there"
  /\ cloud' = [cloud EXCEPT ![w] =
       IF \/ local[w].verified /\ ~files[w]
          \/ \E c \in Claim : work[c].laptop = w /\ Running(c, "confirmed")
       THEN "gone late" ELSE "gone"]
  /\ UNCHANGED <<pi, tick, active, work, local, files>>

(* 90 s without a word of a laptop, asleep or offline ...                     *)
FallSilent(w) ==
  /\ Befalls /\ pi.alive[w]
  /\ pi' = [pi EXCEPT !.alive[w] = FALSE, !.lease = @ /\ pi.worker # w]
  /\ UNCHANGED <<tick, active, work, local, files, cloud>>

(* ... and of a claim that no poll of its laptop mentions.                    *)
LeaseEnds ==
  /\ pi.status = "active" /\ pi.lease
  /\ active[pi.worker] # pi.claim /\ tick[pi.worker].new # pi.claim /\ tick[pi.worker].claim # pi.claim
  /\ pi' = [pi EXCEPT !.lease = FALSE]
  /\ UNCHANGED <<tick, active, work, local, files, cloud, studioEvents>>

(* Studio ends and starts again, as another session.                          *)
Restart(w) ==
  /\ Befalls
  /\ tick' = [tick EXCEPT ![w] = Unpolled(tick[w].session + 1)]
  /\ active' = [active EXCEPT ![w] = 0]
  /\ work' = [c \in Claim |-> IF work[c].laptop = w THEN NoWork ELSE work[c]]
  /\ local' = [local EXCEPT ![w].status = IF @ \in {"working", "pausing", "cancelling"} THEN "paused" ELSE @]
  /\ UNCHANGED <<pi, files, cloud>>
-----------------------------------------------------------------------------
CompanionInit ==
  /\ pi =
       [status |-> "queued", stage |-> "foreground", command |-> "none",
        worker |-> CHOOSE w \in Laptop : TRUE, claim |-> 0, given |-> 0, lease |-> FALSE,
        session |-> 0, known |-> [v \in Laptop |-> 0], alive |-> [v \in Laptop |-> FALSE]]
  /\ tick = [w \in Laptop |-> Unpolled(1)]
  /\ active = [w \in Laptop |-> 0]
  /\ work = [c \in Claim |-> NoWork]
  /\ local = [w \in Laptop |-> NewLocal]
  /\ files = [w \in Laptop |-> FALSE]
  /\ cloud = [w \in Laptop |-> "none"]
  /\ studioEvents = [stops |-> 0, faults |-> 0]

LaptopNext(w) == Poll(w) \/ Hear(w)

CompanionNext ==
  \/ \E w \in Laptop : LaptopNext(w) \/ LosePoll(w) \/ FallSilent(w) \/ Restart(w) \/ CloudLoses(w)
                       \/ \E status \in {"complete", "failed", "paused", "cancelled"} : QueueEnds(w, status)
  \/ \E c \in Claim : Works(c)
  \/ \E action \in {"pause", "cancel"} : OwnerStops(action)
  \/ OwnerResumes \/ LeaseEnds

(* The interval, the requests and the delays of run() end; the queue's own    *)
(* fairness is that of StudioQueue.                                           *)
CompanionFairness ==
  /\ WF_companionVars(LeaseEnds)
  /\ \A w \in Laptop : WF_companionVars(LaptopNext(w)) /\ WF_companionVars(\E status \in {"complete", "paused", "cancelled"} : QueueEnds(w, status))
  /\ \A c \in Claim : WF_companionVars(Works(c))

CompanionSpec == CompanionInit /\ [][CompanionNext]_companionVars
CompanionFairSpec == CompanionSpec /\ CompanionFairness
-----------------------------------------------------------------------------
(* The Pi calls a job complete only when the laptop that did it has published *)
(* the video, has its receipt of the cloud copy and has freed its files,      *)
(* whoever else worked on it meanwhile.                                       *)
CompleteIsDone ==
  pi.status = "complete" =>
    local[pi.worker].published /\ local[pi.worker].saved /\ local[pi.worker].removed

(* "Wait for verified TV publication before removing working copies": working *)
(* files go only while a copy that iCloud confirmed just before exists.       *)
LastCopyIsKept ==
  \A w \in Laptop : local[w].verified /\ ~files[w] => local[w].published /\ cloud[w] \in {"there", "gone late"}

(* "stale claims stop reporting progress" (companion.test.cjs:129) and stop    *)
(* working: what the queue of a laptop does for the portal is done for a run   *)
(* that the next poll can stop, or that stops by itself.                       *)
WorkCanBeStopped ==
  \A w \in Laptop : local[w].status = "working" =>
    \E c \in Claim : /\ work[c].laptop = w /\ work[c].at = "wait"
                     /\ active[w] = c \/ work[c].aborted

(* Two laptops that take each other's jobs over, lose answers and are stopped *)
(* at any step neither lie to the Pi nor lose the video.                      *)
HandOverIsSafe == CompleteIsDone /\ LastCopyIsKept /\ WorkCanBeStopped

(* "An expired lease can be recovered by the same laptop or another paired    *)
(* Studio" (repositories/studio.py:276).                                      *)
ExpiredLeaseIsRecovered ==
  (pi.status = "active" /\ ~pi.lease /\ pi.given < MaxClaims) ~> (pi.status # "active" \/ pi.lease)
=============================================================================
