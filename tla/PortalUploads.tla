---------------------------- MODULE PortalUploads ----------------------------
(* Uploading videos from a browser (portal/js/actions.js) to the Pi's         *)
(* threaded service (mabeltv_backend/uploads.py).  An upload is a manifest    *)
(* and a part file that grows chunk by chunk; one upload at a time has the    *)
(* transfer slot; a worker publishes what is complete.                        *)
(*                                                                            *)
(* A manifest is read and written as a whole.  upload_create and              *)
(* upload_action do both under config_lock, append_upload under the lock of   *)
(* its upload only, so each is a step that reads and a step that writes.      *)
EXTENDS Naturals, Sequences, FiniteSetsExt, Functions

CONSTANTS
  File,
  Page,       \* browser pages, each with one file at a time
  Thread,     \* the service's threads that receive chunks
  Size,       \* chunks of a file
  MaxEvents   \* bounds the uploads created, the owners' actions and the faults together

ASSUME UploadsAssumption ==
  /\ Size \in Nat \ {0} /\ MaxEvents \in Nat
  /\ IsFiniteSet(File) /\ "none" \notin File \cup Page \cup Thread

VARIABLES
  manifest,     \* [UploadId -> <id>.json, or the result that took its place]
  part,         \* [UploadId -> the chunks in <id>.part]
  page,         \* [Page -> where sendSelectedFile is]
  thread,       \* [Thread -> the append_upload it runs]
  config,       \* who holds config_lock, and the manifests it read
  conversions,  \* conversion_queue: ids
  worker,       \* the conversion worker
  deferred,     \* deferred_retries
  events,       \* how many of these there were, and how many uploads
  mislaid       \* ghost: uploads written over from a reading that was out of
                \* date, or chosen again while the worker let go of them

uploadVars == <<manifest, part, page, thread, config, conversions, worker, deferred, events, mislaid>>

(* Ids are handed out in order, which is also the order of the line.          *)
UploadId == 1..MaxEvents
NoId == 0
Absent == [file |-> "none", status |-> "absent", transfer |-> "complete"]
AtRest == [at |-> "rest", file |-> "none", id |-> NoId, offset |-> 0, thread |-> "none"]
Free == [at |-> "free", id |-> NoId, offset |-> 0, seen |-> Absent, heir |-> NoId]
Unlocked == [op |-> "none", id |-> NoId, page |-> "none", seen |-> [i \in UploadId |-> Absent]]
NoWork == [at |-> "idle", id |-> NoId]

Eventful == events.all < MaxEvents /\ events' = [events EXCEPT !.all = @ + 1]
Full(id) == Len(part[id]) = Size
FreeThread == CHOOSE h \in Thread : thread[h].at = "free"   \* they are alike
Gone(m) == m.status \in {"absent", "complete", "failed"}   \* no manifest (any more)
Transfers(m) == m.status = "uploading" /\ m.transfer = "active"
SomeTransfer(all) == \E i \in UploadId : Transfers(all[i])
InLine(all) == {i \in UploadId : all[i].status = "uploading" /\ all[i].transfer = "waiting"}
Earliest(all) == Min(InLine(all))

(* promote_next_upload as one step, under config_lock.                        *)
Promoted(all) == IF InLine(all) = {} THEN all ELSE [all EXCEPT ![Earliest(all)].transfer = "active"]

Queued == Range(conversions) \cup {worker.id}
Enqueued(id) == IF id \in Queued THEN conversions ELSE Append(conversions, id)

(* upload_locks; upload_action only tries to take one, the others wait.       *)
Locked(id) ==
  \/ worker = [at |-> "work", id |-> id]
  \/ \E h \in Thread : thread[h].id = id /\ thread[h].at \notin {"free", "sent"}
HeldByAction(id) == config.op \notin {"none", "create"} /\ config.id = id
-----------------------------------------------------------------------------
(* The page: create, wait for the turn, send chunk after chunk.               *)
Submit(p, f) ==
  /\ page[p].at = "rest"
  /\ page' = [page EXCEPT ![p] = [AtRest EXCEPT !.at = "create", !.file = f]]
  /\ UNCHANGED <<manifest, part, thread, config, conversions, worker, deferred, events, mislaid>>

(* An error that sendSelectedFile throws, or the page is closed.              *)
GivesUp(p) == page' = [page EXCEPT ![p] = AtRest]

(* uploadChunk: a PATCH for the place the page believes the part has reached. *)
SendsChunk(p, id, offset) ==
  IF offset < Size
    THEN LET h == FreeThread
         IN
           /\ \E t \in Thread : thread[t].at = "free"
           /\ thread' = [thread EXCEPT ![h] = [Free EXCEPT !.at = "sent", !.id = id, !.offset = offset]]
           /\ page' = [page EXCEPT ![p].at = "send", ![p].id = id, ![p].offset = offset, ![p].thread = h]
    ELSE page' = [page EXCEPT ![p].at = "prepare", ![p].offset = offset, ![p].thread = "none"] /\ UNCHANGED thread

(* GET of the upload, after a heartbeat (waitForUploadTurn), after a chunk    *)
(* that failed and while paused (resilientUploadChunk), or waiting for the    *)
(* end (waitForPreparation).                                                  *)
Look(p) ==
  LET b == page[p]
      now == manifest[b.id]
      turn == page' = [page EXCEPT ![p].at = "turn"] /\ UNCHANGED thread
      leave == GivesUp(p) /\ UNCHANGED thread
      wait == UNCHANGED <<page, thread>>
      send == SendsChunk(p, b.id, Len(part[b.id]))
  IN  /\ b.at \in {"look", "check", "paused", "prepare"}
      /\ IF now.status \in {"absent", "failed"} THEN leave
         ELSE CASE b.at = "look" -> IF now.transfer = "active" THEN SendsChunk(p, b.id, b.offset) ELSE turn
                [] b.at = "check" ->
                     IF now.status = "paused" THEN page' = [page EXCEPT ![p].at = "paused"] /\ UNCHANGED thread
                     ELSE IF now.status = "uploading" /\ now.transfer # "active" THEN turn
                     ELSE IF now.status # "uploading" \/ Len(part[b.id]) > b.offset THEN send ELSE leave
                [] b.at = "paused" ->
                     IF now.status = "paused" THEN wait ELSE IF now.transfer # "active" THEN turn ELSE send
                [] OTHER -> IF now.status \in {"complete", "error"} THEN leave ELSE wait
      /\ UNCHANGED <<manifest, part, config, conversions, worker, deferred, events, mislaid>>

(* The connection is lost, the chunk's 30 seconds pass, or the page closes:   *)
(* the Pi goes on with what it has received.                                  *)
Timeout(p) ==
  /\ page[p].at \in {"send", "prepare", "turn", "look"} /\ Eventful
  /\ \/ page[p].at = "send" /\ page' = [page EXCEPT ![p].at = "check", ![p].thread = "none"]
     \/ GivesUp(p)
  /\ UNCHANGED <<manifest, part, thread, config, conversions, worker, deferred, mislaid>>
-----------------------------------------------------------------------------
(* append_upload.                                                             *)
Told(h, at, offset) ==
  page' = [p \in Page |->
    IF page[p].thread # h THEN page[p]
    ELSE [page[p] EXCEPT !.thread = "none", !.at = at, !.offset = IF offset = 0 THEN @ ELSE offset]]

(* Plausible bug: the chunk is written wherever the part has got to.          *)
BelongsHereMutant(h) == Len(part[thread[h].id]) < Size

BelongsHere(h) == thread[h].offset = Len(part[thread[h].id])

AppendReads(h) ==
  LET id == thread[h].id
      now == manifest[id]
  IN  /\ thread[h].at = "sent" /\ ~Locked(id) /\ ~HeldByAction(id)
      /\ IF Gone(now) \/ now.status = "paused" \/ now.transfer # "active"
           THEN thread' = [thread EXCEPT ![h] = Free] /\ Told(h, "check", 0)
         ELSE IF ~BelongsHere(h)
           THEN thread' = [thread EXCEPT ![h] = Free] /\ Told(h, "sent", Len(part[id]))
         ELSE thread' = [thread EXCEPT ![h].at = "write", ![h].seen = now] /\ UNCHANGED page
      /\ UNCHANGED <<manifest, part, config, conversions, worker, deferred, events, mislaid>>

AppendWrites(h) ==
  /\ thread[h].at = "write"
  /\ part' = [part EXCEPT ![thread[h].id] = Append(@, thread[h].offset + 1)]
  /\ thread' = [thread EXCEPT ![h].at = "save"]
  /\ UNCHANGED <<manifest, page, config, conversions, worker, deferred, events, mislaid>>

AppendSaves(h) ==
  LET id == thread[h].id
  IN  /\ thread[h].at = "save"
      /\ IF Full(id)
           THEN /\ manifest' = [manifest EXCEPT ![id] = [thread[h].seen EXCEPT !.status = "validating", !.transfer = "complete"]]
                /\ thread' = [thread EXCEPT ![h].at = "enqueue"] /\ UNCHANGED page
           ELSE /\ manifest' = [manifest EXCEPT ![id] = thread[h].seen]
                /\ thread' = [thread EXCEPT ![h] = Free] /\ Told(h, "sent", Len(part[id]))
      /\ UNCHANGED <<part, config, conversions, worker, deferred, events, mislaid>>

AppendEnqueues(h) ==
  /\ thread[h].at = "enqueue" /\ config = Unlocked
  /\ conversions' = Enqueued(thread[h].id)
  /\ thread' = [thread EXCEPT ![h].at = "promote"]
  /\ UNCHANGED <<manifest, part, page, config, worker, deferred, events, mislaid>>

(* promote_next_upload without config_lock: the heir is read ...              *)
AppendChooses(h) ==
  /\ thread[h].at = "promote"
  /\ IF InLine(manifest) = {}
       THEN thread' = [thread EXCEPT ![h] = Free] /\ Told(h, "sent", Size)
       ELSE /\ thread' = [thread EXCEPT ![h].at = "hand", ![h].heir = Earliest(manifest), ![h].seen = manifest[Earliest(manifest)]]
            /\ UNCHANGED page
  /\ UNCHANGED <<manifest, part, config, conversions, worker, deferred, events, mislaid>>

(* ... and written.                                                           *)
AppendHands(h) ==
  LET heir == thread[h].heir
      seen == thread[h].seen
  IN  /\ thread[h].at = "hand"
      /\ manifest' = [manifest EXCEPT ![heir] = [seen EXCEPT !.transfer = "active"]]
      /\ mislaid' = IF manifest[heir] # seen THEN mislaid \cup {heir} ELSE mislaid
      /\ thread' = [thread EXCEPT ![h] = Free] /\ Told(h, "sent", Size)
      /\ UNCHANGED <<part, config, conversions, worker, deferred, events>>

(* The answer of a chunk: on to the next, from where the Pi says.             *)
Continue(p) ==
  /\ page[p].at = "sent" /\ SendsChunk(p, page[p].id, page[p].offset)
  /\ UNCHANGED <<manifest, part, config, conversions, worker, deferred, events, mislaid>>
-----------------------------------------------------------------------------
(* upload_create and upload_action begin: config_lock, and the manifests.     *)
Takes(op, id, p) ==
  /\ config = Unlocked
  /\ config' = [op |-> op, id |-> id, page |-> p, seen |-> manifest]

PageAsks(p) ==
  LET b == page[p]
  IN  /\ \/ b.at = "create" /\ Takes("create", NoId, p) /\ UNCHANGED page
         \/ /\ b.at = "turn" /\ config = Unlocked
            /\ IF Gone(manifest[b.id]) \/ Locked(b.id)
                 THEN GivesUp(p) /\ UNCHANGED config
                 ELSE Takes("heartbeat", b.id, p) /\ UNCHANGED page
      /\ UNCHANGED <<manifest, part, thread, conversions, worker, deferred, events, mislaid>>

Permitted(op, status) ==
  status \in CASE op = "start" -> {"uploading", "paused"}
               [] op = "pause" -> {"uploading", "queued"}
               [] op = "resume" -> {"paused"}
               [] op = "retry" -> {"error"}
               [] op = "cancel" -> {"uploading", "queued", "paused", "error", "failed"}

OwnerAsks(op, id) ==
  /\ Permitted(op, manifest[id].status) /\ ~Locked(id)
  /\ Eventful
  /\ Takes(op, id, "none")
  /\ UNCHANGED <<manifest, part, page, thread, conversions, worker, deferred, mislaid>>

Releases == config' = Unlocked
Slot(all) == IF SomeTransfer(all) THEN "waiting" ELSE "active"
Writes(id, value) == manifest' = [manifest EXCEPT ![id] = value]

(* The worker is done with the upload, but has not said so.                   *)
LettingGo(id) == worker = [at |-> "finish", id |-> id]

(* What upload_create finds of a file: a manifest, a published video.         *)
Resumable(f) == {i \in UploadId : config.seen[i].file = f /\ ~Gone(config.seen[i])}
Published(f) == \E i \in UploadId : config.seen[i].file = f /\ config.seen[i].status = "complete"

Answered(p, id, offset) ==
  page' = [page EXCEPT ![p].at = "turn", ![p].id = id, ![p].offset = offset]

(* reconnect_upload_source, and what is ready is queued.                      *)
Reconnected(id) ==
  LET seen == config.seen[id]
      again == IF seen.status # "paused" THEN seen
               ELSE [seen EXCEPT !.status = "uploading", !.transfer = Slot(config.seen)]
      ready == Full(id) /\ again.status \in {"error", "uploading"}
  IN  /\ Writes(id, IF ~ready THEN again
                    ELSE [again EXCEPT !.status = IF @ = "error" THEN "queued" ELSE "validating"])
      /\ conversions' = IF ready THEN Enqueued(id) ELSE conversions
      /\ mislaid' = IF manifest[id] # seen \/ (ready /\ LettingGo(id)) THEN mislaid \cup {id} ELSE mislaid
      /\ Answered(config.page, id, Len(part[id]))
      /\ UNCHANGED events

Reserved(f) ==
  LET id == events.creates + 1
  IN  /\ events.all < MaxEvents /\ events' = [all |-> events.all + 1, creates |-> id]
      /\ Writes(id, [file |-> f, status |-> "uploading", transfer |-> Slot(config.seen)])
      /\ Answered(config.page, id, 0)
      /\ UNCHANGED <<conversions, mislaid>>

(* upload_create: a new upload, or the one of this file is taken up again.    *)
Created ==
  LET f == page[config.page].file
  IN  /\ config.op = "create"
      /\ \/ \E id \in Resumable(f) : Reconnected(id)
         \/ /\ Resumable(f) = {} /\ Published(f)
            /\ GivesUp(config.page) /\ UNCHANGED <<manifest, conversions, events, mislaid>>
         \/ Resumable(f) = {} /\ ~Published(f) /\ Reserved(f)
      /\ Releases /\ UNCHANGED <<part, thread, worker, deferred>>

(* The heartbeat writes back what it has read.                                *)
Heartbeat ==
  /\ config.op = "heartbeat"
  /\ Writes(config.id, config.seen[config.id])
  /\ page' = [page EXCEPT ![config.page] = IF @.at = "turn" THEN [@ EXCEPT !.at = "look"] ELSE @]
  /\ Releases /\ UNCHANGED <<part, thread, conversions, worker, deferred, events, mislaid>>

(* Plausible bug: no note of a retry for an upload the worker still holds.    *)
DeferredMutant(id) == deferred

Deferred(id) == IF id \in Queued THEN deferred \cup {id} ELSE deferred

(* Start, pause, resume, retry and cancel of Activity.                        *)
OwnerStarts(id, seen) ==
  /\ config.op = "start"
  /\ manifest' = [i \in UploadId |->
       IF i = id THEN [seen EXCEPT !.status = "uploading", !.transfer = "active"]
       ELSE IF Transfers(config.seen[i]) THEN [config.seen[i] EXCEPT !.status = "paused", !.transfer = "paused"]
       ELSE manifest[i]]
  /\ mislaid' = mislaid \cup {i \in UploadId \ {id} : Transfers(config.seen[i]) /\ manifest[i] # config.seen[i]}
  /\ UNCHANGED <<part, conversions, deferred>>

OwnerPauses(id, seen) ==
  /\ config.op = "pause"
  /\ manifest' = Promoted([manifest EXCEPT ![id] = [seen EXCEPT !.status = "paused", !.transfer = "paused"]])
  /\ UNCHANGED <<part, conversions, deferred, mislaid>>

OwnerResumes(id, seen) ==
  /\ config.op = "resume"
  /\ Writes(id, IF Full(id) THEN [seen EXCEPT !.status = "queued"]
                ELSE [seen EXCEPT !.status = "uploading", !.transfer = Slot(config.seen)])
  /\ conversions' = IF Full(id) THEN Enqueued(id) ELSE conversions
  /\ mislaid' = IF Full(id) /\ LettingGo(id) THEN mislaid \cup {id} ELSE mislaid
  /\ UNCHANGED <<part, deferred>>

OwnerRetries(id, seen) ==
  /\ config.op = "retry"
  /\ IF Full(id)
       THEN /\ Writes(id, [seen EXCEPT !.status = "queued"])
            /\ deferred' = Deferred(id) /\ conversions' = Enqueued(id)
       ELSE UNCHANGED <<manifest, conversions, deferred>>
  /\ UNCHANGED <<part, mislaid>>

OwnerCancels(id, seen) ==
  /\ config.op = "cancel"
  /\ LET left == [manifest EXCEPT ![id] = Absent]
     IN  manifest' = IF seen.transfer = "active" THEN Promoted(left) ELSE left
  /\ part' = [part EXCEPT ![id] = <<>>]
  /\ deferred' = deferred \ {id} /\ UNCHANGED <<conversions, mislaid>>

OwnerDoes ==
  LET id == config.id
      seen == config.seen[id]
  IN  /\ \/ OwnerStarts(id, seen) \/ OwnerPauses(id, seen) \/ OwnerResumes(id, seen)
         \/ OwnerRetries(id, seen) \/ OwnerCancels(id, seen)
      /\ Releases /\ UNCHANGED <<page, thread, worker, events>>
-----------------------------------------------------------------------------
(* run_conversion_worker: the next upload, if it still exists.                *)
WorkerTakes ==
  LET id == Head(conversions)
  IN  /\ worker = NoWork /\ conversions # <<>> /\ ~Locked(id) /\ ~HeldByAction(id)
      /\ conversions' = Tail(conversions)
      /\ worker' = [at |-> IF Gone(manifest[id]) THEN "finish" ELSE "work", id |-> id]
      /\ UNCHANGED <<manifest, part, page, thread, config, deferred, events, mislaid>>

(* process_conversion: published, not a video, an error to be retried, or     *)
(* handed to a laptop, where it is not the worker's any more (requires_laptop;*)
(* what the laptop does with it and sends back is not modelled here).         *)
WorkerEnds ==
  LET id == worker.id
  IN  /\ worker.at = "work"
      /\ \E status \in {"complete", "failed", "error", "waiting-laptop"} :
           LET kept == status \in {"error", "waiting-laptop"}
           IN  /\ IF status = "complete" THEN UNCHANGED events ELSE Eventful
               /\ manifest' = [manifest EXCEPT ![id].status = status,
                                               ![id].transfer = IF kept THEN @ ELSE "complete"]
               /\ part' = IF kept THEN part ELSE [part EXCEPT ![id] = <<>>]
      /\ worker' = [worker EXCEPT !.at = "finish"]
      /\ UNCHANGED <<page, thread, config, conversions, deferred, mislaid>>

(* finish_conversion_job.                                                     *)
WorkerFinishes ==
  /\ worker.at = "finish" /\ config = Unlocked
  /\ conversions' = IF worker.id \in deferred THEN Append(conversions, worker.id) ELSE conversions
  /\ deferred' = deferred \ {worker.id}
  /\ worker' = NoWork
  /\ UNCHANGED <<manifest, part, page, thread, config, events, mislaid>>

(* The service ends and starts again: resume_conversion_jobs.                 *)
Restart ==
  LET ready == {i \in UploadId : Full(i) /\ manifest[i].status \in {"uploading", "validating", "queued", "error"}}
  IN  /\ Eventful
      /\ manifest' = [i \in UploadId |-> IF i \in ready THEN [manifest[i] EXCEPT !.status = "queued"] ELSE manifest[i]]
      /\ conversions' \in Bijection(1..Cardinality(ready), ready)
      /\ thread' = [h \in Thread |-> Free] /\ config' = Unlocked /\ worker' = NoWork /\ deferred' = {}
      /\ page' = [p \in Page |-> IF page[p].at = "send" THEN [page[p] EXCEPT !.at = "check", !.thread = "none"]
                                 ELSE IF page[p].at \in {"create", "turn", "look"} THEN AtRest ELSE page[p]]
      /\ UNCHANGED <<part, mislaid>>
-----------------------------------------------------------------------------
UploadsInit ==
  /\ manifest = [i \in UploadId |-> Absent] /\ part = [i \in UploadId |-> <<>>]
  /\ page = [p \in Page |-> AtRest] /\ thread = [h \in Thread |-> Free]
  /\ config = Unlocked
  /\ conversions = <<>> /\ worker = NoWork /\ deferred = {}
  /\ events = [all |-> 0, creates |-> 0]
  /\ mislaid = {}

UploadsNext ==
  \/ \E p \in Page, f \in File : Submit(p, f)
  \/ \E p \in Page : Look(p) \/ Timeout(p) \/ Continue(p) \/ PageAsks(p)
  \/ \E h \in Thread : \/ AppendReads(h) \/ AppendWrites(h) \/ AppendSaves(h)
                       \/ AppendEnqueues(h) \/ AppendChooses(h) \/ AppendHands(h)
  \/ \E i \in UploadId, op \in {"start", "pause", "resume", "retry", "cancel"} : OwnerAsks(op, i)
  \/ Created \/ Heartbeat \/ OwnerDoes
  \/ WorkerTakes \/ WorkerEnds \/ WorkerFinishes
  \/ Restart

UploadsSpec == UploadsInit /\ [][UploadsNext]_uploadVars
-----------------------------------------------------------------------------
(* However chunks time out, are sent again or come from two pages, the part   *)
(* file is the beginning of the video: no chunk twice, none left out          *)
(* (uploads.py:995, the offset that is compared under the upload's lock).     *)
PartIsABeginning == \A i \in UploadId : part[i] = [k \in 1..Len(part[i]) |-> k]

(* A received video that says it waits to be prepared is one the worker will  *)
(* come to: "Remember an owner retry in that narrow window so the worker      *)
(* requeues it" (uploads.py:856).  One that was chosen again in that window   *)
(* by another way, or written over from an old reading, is mislaid.           *)
ReceivedIsPrepared ==
  \A i \in UploadId :
    manifest[i].status \in {"queued", "validating"} /\ i \notin mislaid =>
      \/ i \in Range(conversions) \cup deferred
      \/ worker = [at |-> "work", id |-> i]
      \/ \E h \in Thread : thread[h].id = i /\ thread[h].at = "enqueue"

(* What was received is the video, and somebody will prepare it.              *)
ReceivedIsInGoodHands == PartIsABeginning /\ ReceivedIsPrepared

(* "Hand the one transfer slot to the earliest waiting, incomplete job"       *)
(* (uploads.py:537): when no request is under way, an upload waits only for   *)
(* another that has the slot.                                                 *)
SlotIsHandedOn ==
  config = Unlocked /\ (\A h \in Thread : thread[h] = Free) /\ InLine(manifest) # {}
    => SomeTransfer(manifest)
=============================================================================
