-------------------------- MODULE MyTvResumeWriter --------------------------
(* How the television keeps the resume bookmarks of My TV: the player's       *)
(* memory, one background SQLite writer with at most one waiting bookmark per *)
(* title (src/src/core/MyTvResumeWriter.cpp), the full snapshot that rewrites *)
(* the same rows (savePlayerSnapshot), restarts and crashes.                  *)
(* A bookmark is a position and the wall clock time it was taken at; the      *)
(* model assumes that the clock never goes back and lets two bookmarks fall   *)
(* into the same millisecond.  Durations are left out.                        *)
EXTENDS Integers

CONSTANTS
  Title,     (* library ids, as numbers: the writer takes the least one first *)
  Position,  (* positions in a film; 0 is a restart or a completion           *)
  MaxTime    (* bound: the last moment a bookmark is taken at                 *)

ASSUME WriterAssumption ==
  /\ Title \subseteq Nat /\ Title # {}
  /\ Position \subseteq Nat /\ 0 \in Position
  /\ MaxTime \in Nat

Bookmark == [position : Position, at : Nat]

NoBookmark == [position |-> 0, at |-> 0]

VARIABLES
  memory,    (* m_myTvPlaybackPositions and m_myTvPlaybackUpdatedUtcMs        *)
  row,       (* the table my_tv_resume; NoBookmark stands for no row          *)
  pending,   (* m_pending; NoBookmark stands for nothing waiting              *)
  saving,    (* m_current, and what the background write has come to          *)
  retrying,  (* m_retry is active                                             *)
  now        (* the wall clock                                                *)

vars == <<memory, row, pending, saving, retrying, now>>

Nobody == [t \in Title |-> NoBookmark]

Idle == [title    |-> CHOOSE t \in Title : TRUE,
         bookmark |-> NoBookmark,
         result   |-> "idle"]

Busy == saving.result # "idle"

Waiting(queue) == {t \in Title : queue[t] # NoBookmark}

First(queue) == CHOOSE t \in Waiting(queue) : \A u \in Waiting(queue) : t <= u

(* start(): the first waiting bookmark goes to the background thread, unless  *)
(* one is on its way.                                                         *)
Start(queue, current) ==
  IF current.result # "idle" \/ Waiting(queue) = {}
  THEN pending' = queue /\ saving' = current
  ELSE LET t == First(queue)
       IN  /\ saving' = [title |-> t, bookmark |-> queue[t], result |-> "running"]
           /\ pending' = [queue EXCEPT ![t] = NoBookmark]

(* Plausible bug: the upsert without its WHERE on the time. *)
UpsertedMutant(old, new) == new

(* The upsert of saveMyTvResume: an older bookmark changes nothing. *)
Upserted(old, new) == IF new.at >= old.at THEN new ELSE old

(* Plausible bug: the failed bookmark replaces the one that waits. *)
RequeuedMutant == [pending EXCEPT ![saving.title] = saving.bookmark]

(* The bookmark in hand waits again, unless a newer one of its title does. *)
Requeued ==
  IF saving.title \in Waiting(pending) THEN pending
  ELSE [pending EXCEPT ![saving.title] = saving.bookmark]

Init ==
  /\ memory = Nobody /\ row = Nobody /\ pending = Nobody
  /\ saving = Idle /\ retrying = FALSE /\ now = 0

-----------------------------------------------------------------------------
(* The event loop of the player.                                             *)

(* setMyTvPlaybackPosition, and save() of the writer: a position that is      *)
(* remembered already is not saved again, a restart or completion always is.  *)
Remember(t, p) ==
  /\ p = 0 \/ p # memory[t].position
  /\ \E at \in {now, now + 1} \cap (1..MaxTime) :
       LET taken == [position |-> p, at |-> at]
           queue == [pending EXCEPT ![t] = taken]
       IN  /\ now' = at
           /\ memory' = [memory EXCEPT ![t] = taken]
           /\ IF retrying THEN pending' = queue /\ UNCHANGED saving
              ELSE Start(queue, saving)
  /\ UNCHANGED <<row, retrying>>

(* The watcher reports a save that succeeded. *)
SaveFinished ==
  /\ saving.result = "saved"
  /\ Start(pending, Idle)
  /\ UNCHANGED <<memory, row, retrying, now>>

(* Plausible bug: a failed save is dropped when nothing newer waits. *)
SaveDeferredMutant ==
  /\ saving.result = "failed"
  /\ saving' = Idle
  /\ retrying' = TRUE
  /\ UNCHANGED <<memory, row, pending, now>>

(* The watcher reports a save that failed: it is tried again in a second. *)
SaveDeferred ==
  /\ saving.result = "failed"
  /\ pending' = Requeued
  /\ saving' = Idle
  /\ retrying' = TRUE
  /\ UNCHANGED <<memory, row, now>>

Retry ==
  /\ retrying
  /\ retrying' = FALSE
  /\ Start(pending, saving)
  /\ UNCHANGED <<memory, row, now>>

(* saveState: the snapshot replaces every row by what the player remembers. *)
SaveState ==
  /\ row' = memory
  /\ UNCHANGED <<memory, pending, saving, retrying, now>>

-----------------------------------------------------------------------------
(* The background thread.                                                    *)

Written ==
  /\ saving.result = "running"
  /\ row' = [row EXCEPT ![saving.title] = Upserted(@, saving.bookmark)]
  /\ saving' = [saving EXCEPT !.result = "saved"]
  /\ UNCHANGED <<memory, pending, retrying, now>>

(* The database stays locked, or the disk refuses. *)
WriteFailed ==
  /\ saving.result = "running"
  /\ saving' = [saving EXCEPT !.result = "failed"]
  /\ UNCHANGED <<memory, row, pending, retrying, now>>

-----------------------------------------------------------------------------
(* The end of the process.                                                   *)

Forget ==
  /\ memory' = row'
  /\ pending' = Nobody
  /\ saving' = Idle
  /\ retrying' = FALSE
  /\ UNCHANGED now

(* Plausible bug: flush() forgets the bookmark whose save has failed. *)
FlushedMutant ==
  [t \in Title |-> IF t \in Waiting(pending) THEN Upserted(row[t], pending[t]) ELSE row[t]]

(* The rows after flush(): what waits is written, and so is the bookmark in   *)
(* hand when its save has failed.                                             *)
Flushed ==
  LET queue == IF saving.result = "failed" THEN Requeued ELSE pending
  IN  [t \in Title |-> IF t \in Waiting(queue) THEN Upserted(row[t], queue[t]) ELSE row[t]]

(* ~TvController and the next start: flush() waits for the write that runs,   *)
(* then saveState writes the snapshot, when it can, and loadState reads it.   *)
Restart ==
  /\ saving.result # "running"
  /\ row' \in {Flushed, memory}
  /\ Forget

(* Power loss, or the watchdog: only the rows are left. *)
Crash ==
  /\ UNCHANGED row
  /\ Forget

PlayerNext ==
  \/ \E t \in Title, p \in Position : Remember(t, p)
  \/ SaveFinished \/ SaveDeferred \/ Retry \/ SaveState
  \/ Written \/ WriteFailed
  \/ Restart \/ Crash

(* The event loop and the thread pool run, and the database is not locked at  *)
(* every attempt.                                                             *)
Fairness ==
  /\ WF_vars(SaveFinished)
  /\ WF_vars(SaveDeferred)
  /\ WF_vars(Retry)
  /\ SF_vars(Written)

Spec == Init /\ [][PlayerNext]_vars

FairSpec == Spec /\ Fairness
-----------------------------------------------------------------------------
(* Every bookmark has a position of the film and a time that has come, and   *)
(* the retry timer runs only between two saves (MyTvResumeWriter.cpp:12-21). *)
TypeOK ==
  /\ memory \in [Title -> Bookmark]
  /\ row \in [Title -> Bookmark]
  /\ pending \in [Title -> Bookmark]
  /\ saving \in [title : Title, bookmark : Bookmark,
                 result : {"idle", "running", "saved", "failed"}]
  /\ retrying \in BOOLEAN
  /\ now \in Nat
  /\ \A t \in Title : memory[t].at <= now
  /\ retrying => ~Busy

(* What the player remembers and the database does not is always in the       *)
(* writer's hands: no failure, replacement or snapshot drops the last         *)
(* bookmark of a title ("only the latest waiting checkpoint per film ...      *)
(* Failed saves retry", docs/native-architecture.md:325).                     *)
InHand(t) == Busy /\ saving.title = t /\ saving.bookmark = memory[t]

LastBookmarkIsKept ==
  \A t \in Title : memory[t] # row[t] => pending[t] = memory[t] \/ InHand(t)

(* A bookmark never waits without a write or a timer that will come back for  *)
(* it (MyTvResumeWriter.cpp:38, :19, :20).                                    *)
SomebodySaves == Waiting(pending) # {} => Busy \/ retrying

(* A queued save never replaces a newer row of the snapshot ("Timestamp       *)
(* guards keep an older queued save from replacing a newer ... checkpoint",   *)
(* docs/native-architecture.md:325).                                          *)
BookmarkNeverGoesBack == [][\A t \in Title : row'[t].at >= row[t].at]_vars

(* After an orderly restart the player remembers what it remembered before,   *)
(* although only one of the two last saves, flush() and saveState, has to     *)
(* succeed ("shutdown flushes pending checkpoints").                          *)
RestartKeepsBookmarks == [][Restart => memory' = memory]_vars

(* When nobody moves any more, the database soon holds what the player        *)
(* remembers, however many saves failed before.                               *)
QuietDatabaseCatchesUp ==
  <>[][\A t \in Title, p \in Position : ~Remember(t, p)]_vars => <>[](row = memory)
=============================================================================
