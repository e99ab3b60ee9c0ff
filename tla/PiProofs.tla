---------------------------- MODULE PiProofs ----------------------------
(* What the Pi keeps of what a phone sends: a film in chunks                 *)
(* (PortalUploads), the moves of a playlist (PlaylistPage), the changes of Up  *)
(* Next (UpNextPage) and the edits of a title of My TV (MyTvViewing), for any *)
(* number of each.                                                            *)
EXTENDS PortalUploads, PlaylistPage, UpNextPage, MyTvViewing, FiniteSetTheorems,
        SequenceTheorems, WellFoundedInduction, TLAPS

ManifestState ==
  {m \in [file : File \cup {"none"},
          status : {"absent", "uploading", "paused", "queued", "validating", "waiting-laptop", "error", "complete", "failed"},
          transfer : {"active", "waiting", "paused", "complete"}] :
     /\ Gone(m) => m.transfer = "complete"
     /\ m.status = "absent" <=> m.file = "none"}

PageState ==
  {b \in [at : {"rest", "create", "turn", "look", "send", "sent", "check", "paused", "prepare"},
          file : File \cup {"none"}, id : UploadId \cup {NoId}, offset : 0..Size, thread : Thread \cup {"none"}] :
     /\ b.at \notin {"rest", "create"} => b.id # NoId
     /\ b.at # "rest" => b.file # "none"
     /\ b.thread # "none" => b.at = "send"}

ThreadState ==
  {t \in [at : {"free", "sent", "write", "save", "enqueue", "promote", "hand"},
          id : UploadId \cup {NoId}, offset : 0..Size, seen : ManifestState, heir : UploadId \cup {NoId}] :
     /\ t.at # "free" => t.id # NoId /\ t.offset < Size
     /\ t.at \in {"write", "save"} => ~Gone(t.seen)
     /\ t.at = "hand" => t.heir # NoId /\ t.seen.status = "uploading"}

ConfigState ==
  {c \in [op : {"none", "create", "heartbeat", "start", "pause", "resume", "retry", "cancel"},
          id : UploadId \cup {NoId}, page : Page \cup {"none"}, seen : [UploadId -> ManifestState]] :
     /\ c.op \notin {"none", "create"} => c.id # NoId
     /\ c.op \in {"create", "heartbeat"} => c.page # "none"
     /\ c.op = "heartbeat" => ~Gone(c.seen[c.id])
     /\ c.op \in {"start", "pause", "resume", "retry", "cancel"} => Permitted(c.op, c.seen[c.id].status)}

\* Every variable has its shape.
UploadsTypeOK ==
  /\ manifest \in [UploadId -> ManifestState]
  /\ part \in [UploadId -> Seq(Nat)]
  /\ \A i \in UploadId : Len(part[i]) <= Size
  /\ page \in [Page -> PageState]
  /\ thread \in [Thread -> ThreadState]
  /\ config \in ConfigState
  /\ config.op = "create" => page[config.page].at = "create"
  /\ conversions \in Seq(UploadId)
  /\ worker \in [at : {"idle", "work", "finish"}, id : UploadId \cup {NoId}]
  /\ worker.at = "idle" <=> worker.id = NoId
  /\ deferred \subseteq UploadId /\ mislaid \subseteq UploadId
  /\ events \in [all : 0..MaxEvents, creates : 0..MaxEvents] /\ events.creates <= events.all

\* Thread h has the lock of upload i.
Holding(h, i) == thread[h].id = i /\ thread[h].at \notin {"free", "sent"}

\* Each upload's lock has one owner: a chunk, the worker or an action.
LocksExclude ==
  /\ \A h, g \in Thread, i \in UploadId : Holding(h, i) /\ Holding(g, i) => h = g
  /\ \A h \in Thread, i \in UploadId : Holding(h, i) => worker # [at |-> "work", id |-> i]
  /\ \A i \in UploadId : HeldByAction(i) => ~Locked(i)

\* What a chunk found under the lock stays true until it lets go.
ChunkIsInPlace ==
  \A h \in Thread :
    /\ thread[h].at = "write" => thread[h].offset = Len(part[thread[h].id])
    /\ thread[h].at \in {"write", "save", "enqueue"} => ~Gone(manifest[thread[h].id])
    /\ thread[h].at \in {"write", "save"} =>
         thread[h].seen.status \notin {"queued", "validating"} \/ thread[h].id \in mislaid
    /\ thread[h].at = "enqueue" => Full(thread[h].id)

\* Nothing is known of an upload that was not yet created.
IdsAreFresh ==
  /\ \A i \in UploadId : ~Gone(manifest[i]) => i <= events.creates
  /\ \A i \in UploadId : ~Gone(config.seen[i]) => i <= events.creates
  /\ \A i \in Queued \cup deferred : i <= events.creates
  /\ \A h \in Thread : thread[h].at = "hand" => thread[h].heir <= events.creates

Waits(i) == manifest[i].status \in {"queued", "validating"}

\* What waits for the worker was received, and what the worker has waits.
ReceivedIsFull ==
  /\ \A i \in UploadId \ mislaid :
       /\ Waits(i) => Full(i)
       /\ i \in Queued \cup deferred => Full(i) \/ Gone(manifest[i])
  /\ \A i \in UploadId : worker = [at |-> "work", id |-> i] => ~Gone(manifest[i])

\* No chunk is under way for an upload that the worker lets go of.
NoChunkWhileLettingGo ==
  \A i \in UploadId \ mislaid : LettingGo(i) =>
    \A h \in Thread : thread[h].id = i => thread[h].at \notin {"write", "save", "enqueue"}

\* What an action found of its upload is still so.
HeldKeepsItsStatus ==
  \A i \in UploadId \ mislaid : HeldByAction(i) => manifest[i].status = config.seen[i].status

UploadsInv ==
  /\ UploadsTypeOK /\ LocksExclude /\ ChunkIsInPlace /\ IdsAreFresh
  /\ ReceivedIsFull /\ NoChunkWhileLettingGo /\ HeldKeepsItsStatus
  /\ PartIsABeginning /\ ReceivedIsPrepared

(* ------------------------------------------------------------------------ *)
(* The line, the queue and the list.                                          *)

\* The earliest of those in line is one of them.
LEMMA EarliestIsInLine ==
  ASSUME NEW all, InLine(all) # {}
  PROVE  Earliest(all) \in InLine(all)
<1>1. InLine(all) \subseteq Nat
  BY UploadsAssumption DEF InLine, UploadId
<1>2. PICK m \in InLine(all) : \A y \in InLine(all) : ~ (<<y, m>> \in OpToRel(<, Nat))
  BY <1>1, NatLessThanWellFounded, WFMin
<1>3. \A y \in InLine(all) : m <= y
  <2> TAKE y \in InLine(all)
  <2>1. ~(y < m)
    BY <1>1, <1>2 DEF OpToRel
  <2> QED BY <2>1, <1>1
<1>4. \E x \in InLine(all) : \A y \in InLine(all) : x =< y
  BY <1>3
<1> QED BY <1>4 DEF Earliest, Min

\* A promotion changes nothing but the turn of one that is uploading.
LEMMA PromotedKeeps ==
  ASSUME NEW all \in [UploadId -> ManifestState]
  PROVE  /\ Promoted(all) \in [UploadId -> ManifestState]
         /\ \A i \in UploadId : Promoted(all)[i].status = all[i].status
<1>1. CASE InLine(all) = {}
  BY <1>1 DEF Promoted
<1>2. CASE InLine(all) # {}
  <2> DEFINE e == Earliest(all)
             new == [all[e] EXCEPT !.transfer = "active"]
  <2>1. e \in UploadId /\ all[e].status = "uploading"
    BY <1>2, EarliestIsInLine DEF InLine
  <2>2. new \in ManifestState /\ new.status = all[e].status
    BY <2>1 DEF ManifestState, Gone
  <2>3. Promoted(all) = [all EXCEPT ![e] = new]
    BY <1>2 DEF Promoted
  <2> HIDE DEF new, e
  <2> QED BY <2>1, <2>2, <2>3
<1> QED BY <1>1, <1>2

\* What is in the queue when an upload is queued.
LEMMA EnqueuedKeeps ==
  ASSUME conversions \in Seq(UploadId), NEW id \in UploadId
  PROVE  /\ Enqueued(id) \in Seq(UploadId)
         /\ Range(conversions) \subseteq Range(Enqueued(id))
         /\ Range(Enqueued(id)) \subseteq Range(conversions) \cup {id}
         /\ id \in Range(Enqueued(id)) \/ worker.id = id
<1>1. CASE id \in Queued
  BY <1>1 DEF Enqueued, Queued
<1>2. CASE id \notin Queued
  <2> DEFINE longer == Append(conversions, id)
  <2>1. /\ longer \in Seq(UploadId) /\ Len(longer) = Len(conversions) + 1
        /\ \A k \in 1..Len(conversions) : longer[k] = conversions[k]
        /\ longer[Len(conversions) + 1] = id
    OBVIOUS
  <2>2. Enqueued(id) = longer
    BY <1>2 DEF Enqueued
  <2>3. DOMAIN longer = 1..(Len(conversions) + 1) /\ DOMAIN conversions = 1..Len(conversions)
    BY <2>1
  <2> HIDE DEF longer
  <2> QED BY <2>1, <2>2, <2>3 DEF Range
<1> QED BY <1>1, <1>2

\* What is left when the first is taken.
LEMMA TailKeeps ==
  ASSUME conversions \in Seq(UploadId), conversions # <<>>
  PROVE  /\ Tail(conversions) \in Seq(UploadId)
         /\ Head(conversions) \in UploadId
         /\ Range(conversions) = {Head(conversions)} \cup Range(Tail(conversions))
<1> DEFINE rest == Tail(conversions)
<1>1. /\ rest \in Seq(UploadId) /\ Len(rest) = Len(conversions) - 1
      /\ \A k \in 1..Len(rest) : rest[k] = conversions[k + 1]
      /\ Head(conversions) = conversions[1] /\ Len(conversions) \in Nat \ {0}
  OBVIOUS
<1>2. DOMAIN rest = 1..Len(rest) /\ DOMAIN conversions = 1..Len(conversions)
  BY <1>1
<1> HIDE DEF rest
<1>3. \A k \in 1..Len(conversions) : k = 1 \/ (k - 1 \in 1..Len(rest) /\ rest[k - 1] = conversions[k])
  BY <1>1
<1>4. Range(conversions) \subseteq {Head(conversions)} \cup Range(rest)
  <2> SUFFICES ASSUME NEW k \in 1..Len(conversions), k # 1
               PROVE  conversions[k] \in Range(rest)
    BY <1>1, <1>2 DEF Range
  <2>1. k - 1 \in DOMAIN rest /\ rest[k - 1] = conversions[k]
    BY <1>2, <1>3
  <2> QED BY <2>1 DEF Range
<1>5. Range(rest) \subseteq Range(conversions)
  BY <1>1, <1>2 DEF Range
<1>6. Head(conversions) \in Range(conversions)
  BY <1>1, <1>2 DEF Range
<1> QED BY <1>1, <1>4, <1>5, <1>6 DEF rest

(* ------------------------------------------------------------------------ *)
(* Steps of pages.                                                            *)

\* A page that is told where it stands.
LEMMA ToldKeepsPages ==
  ASSUME UploadsTypeOK, NEW h \in Thread, NEW at \in {"check", "sent"}, NEW offset \in 0..Size,
         Told(h, at, offset)
  PROVE  /\ page' \in [Page -> PageState]
         /\ \A p \in Page : page[p].at = "create" => page'[p] = page[p]
<1> DEFINE new(p) == [page[p] EXCEPT !.thread = "none", !.at = at, !.offset = IF offset = 0 THEN @ ELSE offset]
<1>1. \A p \in Page : page[p] \in PageState /\ h # "none"
  BY UploadsAssumption DEF UploadsTypeOK
<1>2. ASSUME NEW p \in Page, page[p].thread = h PROVE new(p) \in PageState
  BY <1>1, <1>2 DEF PageState
<1>3. page' = [p \in Page |-> IF page[p].thread # h THEN page[p] ELSE new(p)]
  BY DEF Told
<1>4. \A p \in Page : page[p].at = "create" => page[p].thread # h
  BY <1>1 DEF PageState
<1> HIDE DEF new
<1>5. \A p \in Page : page'[p] = IF page[p].thread # h THEN page[p] ELSE new(p)
  BY <1>3
<1>6. page' \in [Page -> PageState]
  BY <1>1, <1>2, <1>3
<1> QED BY <1>4, <1>5, <1>6

LEMMA EventfulCounts ==
  ASSUME UploadsTypeOK, Eventful
  PROVE  /\ events' \in [all : 0..MaxEvents, creates : 0..MaxEvents]
         /\ events'.creates = events.creates /\ events.all <= events'.all
<1> DEFINE new == [events EXCEPT !.all = @ + 1]
<1>1. events.all < MaxEvents /\ events' = new
  BY DEF Eventful
<1>2. events \in [all : 0..MaxEvents, creates : 0..MaxEvents]
  BY DEF UploadsTypeOK
<1>3. new \in [all : 0..MaxEvents, creates : 0..MaxEvents] /\ new.creates = events.creates /\ new.all = events.all + 1
  BY <1>1, <1>2, UploadsAssumption
<1> HIDE DEF new
<1> QED BY <1>1, <1>2, <1>3, UploadsAssumption

\* Nothing a chunk holds is touched: pages move, and chunks that hold nothing
\* come and go.
Quiet ==
  /\ page' \in [Page -> PageState]
  /\ config.op = "create" => page'[config.page].at = "create"
  /\ thread' \in [Thread -> ThreadState]
  /\ \A h \in Thread :
       \/ thread'[h] = thread[h]
       \/ thread'[h].at \in {"free", "sent"} /\ thread[h].at # "enqueue"
  /\ events' \in [all : 0..MaxEvents, creates : 0..MaxEvents]
  /\ events'.creates = events.creates /\ events'.creates <= events'.all
  /\ UNCHANGED <<manifest, part, config, conversions, worker, deferred, mislaid>>

LEMMA QuietKeepsInv ==
  ASSUME UploadsInv, Quiet
  PROVE  UploadsInv'
<1>1. UploadsTypeOK'
  BY DEF UploadsInv, UploadsTypeOK, Quiet
<1>2. \A h \in Thread, i \in UploadId : Holding(h, i)' => Holding(h, i) /\ thread'[h] = thread[h]
  BY DEF Quiet, Holding
<1>3. LocksExclude'
  BY <1>2 DEF UploadsInv, Quiet, LocksExclude, HeldByAction, Locked, Holding
<1>4. ChunkIsInPlace'
  BY DEF UploadsInv, Quiet, ChunkIsInPlace, Full, Gone
<1>5. IdsAreFresh' /\ ReceivedIsFull' /\ HeldKeepsItsStatus' /\ PartIsABeginning'
  BY DEF UploadsInv, Quiet, IdsAreFresh, ReceivedIsFull, HeldKeepsItsStatus, PartIsABeginning,
         Waits, Queued, Full, HeldByAction, Gone
<1>6. NoChunkWhileLettingGo'
  BY DEF UploadsInv, Quiet, NoChunkWhileLettingGo, LettingGo
<1>7. ReceivedIsPrepared'
  BY DEF UploadsInv, Quiet, ReceivedIsPrepared
<1> QED BY <1>1, <1>3, <1>4, <1>5, <1>6, <1>7 DEF UploadsInv

\* A page is set to something it may be.
LEMMA PageSetKeepsInv ==
  ASSUME UploadsInv, NEW p \in Page, NEW new \in PageState, page[p].at # "create",
         page' = [page EXCEPT ![p] = new],
         events' \in [all : 0..MaxEvents, creates : 0..MaxEvents],
         events'.creates = events.creates, events.all <= events'.all,
         UNCHANGED <<manifest, part, thread, config, conversions, worker, deferred, mislaid>>
  PROVE  UploadsInv'
<1>1. page' \in [Page -> PageState] /\ \A q \in Page : page[q].at = "create" => page'[q] = page[q]
  BY DEF UploadsInv, UploadsTypeOK
<1>2. config.op = "create" => config.page \in Page
  BY DEF UploadsInv, UploadsTypeOK, ConfigState
<1>3. Quiet
  BY <1>1, <1>2 DEF UploadsInv, UploadsTypeOK, Quiet
<1> QED BY <1>3, QuietKeepsInv

LEMMA RestingPage == AtRest \in PageState /\ AtRest.thread = "none"
BY UploadsAssumption DEF AtRest, PageState, NoId

LEMMA FreeThreadState ==
  /\ Free \in ThreadState /\ Free.at = "free" /\ Absent \in ManifestState
BY UploadsAssumption DEF Free, ThreadState, Absent, ManifestState, Gone, NoId

LEMMA SubmitKeepsInv ==
  ASSUME UploadsInv, NEW p \in Page, NEW f \in File, Submit(p, f)
  PROVE  UploadsInv'
<1> DEFINE new == [AtRest EXCEPT !.at = "create", !.file = f]
<1>1. new \in PageState
  BY UploadsAssumption, RestingPage DEF PageState
<1>2. page' = [page EXCEPT ![p] = new] /\ page[p].at = "rest"
  BY DEF Submit
<1>3. /\ events' \in [all : 0..MaxEvents, creates : 0..MaxEvents]
      /\ events'.creates = events.creates /\ events.all <= events'.all
      /\ UNCHANGED <<manifest, part, thread, config, conversions, worker, deferred, mislaid>>
  BY UploadsAssumption DEF Submit, UploadsInv, UploadsTypeOK
<1> HIDE DEF new
<1> QED BY <1>1, <1>2, <1>3, PageSetKeepsInv

LEMMA TimeoutKeepsInv ==
  ASSUME UploadsInv, NEW p \in Page, Timeout(p)
  PROVE  UploadsInv'
<1> DEFINE new == [page[p] EXCEPT !.at = "check", !.thread = "none"]
<1>1. page[p] \in PageState
  BY DEF UploadsInv, UploadsTypeOK
<1>2. page[p].at = "send" => new \in PageState
  BY <1>1 DEF PageState
<1>3. events' \in [all : 0..MaxEvents, creates : 0..MaxEvents]
      /\ events'.creates = events.creates /\ events.all <= events'.all
  BY EventfulCounts DEF Timeout, UploadsInv
<1>4. \/ page[p].at = "send" /\ page' = [page EXCEPT ![p] = new]
      \/ page' = [page EXCEPT ![p] = AtRest]
  BY <1>1 DEF Timeout, GivesUp, UploadsInv, UploadsTypeOK
<1> HIDE DEF new
<1> QED BY <1>2, <1>3, <1>4, PageSetKeepsInv, RestingPage DEF Timeout

\* A page sends a chunk, or has sent them all.
LEMMA SendsKeepsInv ==
  ASSUME UploadsInv, NEW p \in Page, NEW id \in UploadId, NEW offset \in 0..Size,
         page[p].at \notin {"rest", "create"}, page[p].thread = "none", page[p].id = id,
         SendsChunk(p, id, offset),
         UNCHANGED <<manifest, part, config, conversions, worker, deferred, events, mislaid>>
  PROVE  UploadsInv'
<1>1. page[p] \in PageState
  BY DEF UploadsInv, UploadsTypeOK
<1>2. CASE offset < Size
  <2> DEFINE h == FreeThread
             chunk == [Free EXCEPT !.at = "sent", !.id = id, !.offset = offset]
             new == [page[p] EXCEPT !.at = "send", !.id = id, !.offset = offset, !.thread = h]
  <2>1. h \in Thread /\ thread[h].at = "free"
    BY <1>2 DEF SendsChunk, FreeThread
  <2>2. thread' = [thread EXCEPT ![h] = chunk] /\ page' = [page EXCEPT ![p] = new]
    BY <1>2 DEF SendsChunk
  <2>3. chunk \in ThreadState /\ chunk.at = "sent"
    <3>1. /\ chunk.at = "sent" /\ chunk.id = id /\ chunk.offset = offset
          /\ chunk \in [at : {"free", "sent", "write", "save", "enqueue", "promote", "hand"},
                        id : UploadId \cup {NoId}, offset : 0..Size, seen : ManifestState,
                        heir : UploadId \cup {NoId}]
      BY FreeThreadState DEF ThreadState
    <3>2. id # NoId
      BY UploadsAssumption DEF UploadId, NoId
    <3> HIDE DEF chunk
    <3> QED BY <1>2, <3>1, <3>2 DEF ThreadState
  <2>4. new \in PageState
    BY <1>1, <2>1, <1>2, UploadsAssumption DEF PageState, NoId, UploadId
  <2> HIDE DEF h, chunk, new
  <2>5. thread' \in [Thread -> ThreadState]
        /\ \A g \in Thread : thread'[g] = thread[g] \/ (thread'[g].at = "sent" /\ thread[g].at = "free")
    BY <2>1, <2>2, <2>3 DEF UploadsInv, UploadsTypeOK
  <2>6. page' \in [Page -> PageState] /\ \A q \in Page : page[q].at = "create" => page'[q] = page[q]
    BY <2>2, <2>4 DEF UploadsInv, UploadsTypeOK
  <2>7. config.op = "create" => config.page \in Page
    BY DEF UploadsInv, UploadsTypeOK, ConfigState
  <2>8. Quiet
    BY <2>5, <2>6, <2>7 DEF UploadsInv, UploadsTypeOK, Quiet
  <2> QED BY <2>8, QuietKeepsInv
<1>3. CASE ~(offset < Size)
  <2> DEFINE new == [page[p] EXCEPT !.at = "prepare", !.offset = offset, !.thread = "none"]
  <2>1. page' = [page EXCEPT ![p] = new]
    BY <1>3 DEF SendsChunk
  <2>2. new \in PageState
    BY <1>1 DEF PageState
  <2>3. /\ events' \in [all : 0..MaxEvents, creates : 0..MaxEvents]
        /\ events'.creates = events.creates /\ events.all <= events'.all
        /\ UNCHANGED thread
    BY <1>3, UploadsAssumption DEF SendsChunk, UploadsInv, UploadsTypeOK
  <2> HIDE DEF new
  <2> QED BY <2>1, <2>2, <2>3, PageSetKeepsInv
<1> QED BY <1>2, <1>3

LEMMA ContinueKeepsInv ==
  ASSUME UploadsInv, NEW p \in Page, Continue(p)
  PROVE  UploadsInv'
<1>1. page[p] \in PageState /\ page[p].at = "sent"
  BY DEF UploadsInv, UploadsTypeOK, Continue
<1>2. page[p].id \in UploadId /\ page[p].offset \in 0..Size /\ page[p].thread = "none"
  BY <1>1 DEF PageState
<1> QED BY <1>1, <1>2, SendsKeepsInv DEF Continue

LEMMA LookKeepsInv ==
  ASSUME UploadsInv, NEW p \in Page, Look(p)
  PROVE  UploadsInv'
<1> DEFINE b == page[p]
           turn == [b EXCEPT !.at = "turn"]
           paused == [b EXCEPT !.at = "paused"]
<1>1. b \in PageState /\ b.at \in {"look", "check", "paused", "prepare"}
  BY DEF UploadsInv, UploadsTypeOK, Look
<1>2. b.id \in UploadId /\ b.offset \in 0..Size /\ b.thread = "none"
  BY <1>1 DEF PageState
<1>3. Len(part[b.id]) \in 0..Size
  BY <1>2, UploadsAssumption DEF UploadsInv, UploadsTypeOK
<1>4. turn \in PageState /\ paused \in PageState
  BY <1>1 DEF PageState
<1>5. \/ UNCHANGED thread /\ page' = [page EXCEPT ![p] = turn]
      \/ UNCHANGED thread /\ page' = [page EXCEPT ![p] = paused]
      \/ UNCHANGED thread /\ page' = [page EXCEPT ![p] = AtRest]
      \/ UNCHANGED <<page, thread>>
      \/ SendsChunk(p, b.id, b.offset)
      \/ SendsChunk(p, b.id, Len(part[b.id]))
  BY <1>1 DEF Look, GivesUp
<1>6. UNCHANGED <<manifest, part, config, conversions, worker, deferred, events, mislaid>>
  BY DEF Look
<1>7. CASE UNCHANGED <<page, thread>>
  <2>1. Quiet
    BY <1>6, <1>7 DEF UploadsInv, UploadsTypeOK, Quiet
  <2> QED BY <2>1, QuietKeepsInv
<1>8. /\ events' \in [all : 0..MaxEvents, creates : 0..MaxEvents]
      /\ events'.creates = events.creates /\ events.all <= events'.all
  BY <1>6 DEF UploadsInv, UploadsTypeOK
<1> HIDE DEF turn, paused
<1> QED BY <1>1, <1>2, <1>3, <1>4, <1>5, <1>6, <1>7, <1>8, SendsKeepsInv, PageSetKeepsInv, RestingPage

(* ------------------------------------------------------------------------ *)
(* Steps of chunks.                                                           *)

\* A thread is set to something it may be.
LEMMA ThreadSet ==
  ASSUME UploadsTypeOK, NEW h \in Thread, NEW new \in ThreadState, thread' = [thread EXCEPT ![h] = new]
  PROVE  /\ thread' \in [Thread -> ThreadState] /\ thread'[h] = new
         /\ \A g \in Thread : thread'[g] = IF g = h THEN new ELSE thread[g]
BY DEF UploadsTypeOK

\* A chunk that has no lock, or no longer needs it, is answered.
LEMMA AnswerKeepsInv ==
  ASSUME UploadsInv, NEW h \in Thread, thread[h].at # "enqueue", thread' = [thread EXCEPT ![h] = Free],
         NEW at \in {"check", "sent"}, NEW offset \in 0..Size, Told(h, at, offset),
         UNCHANGED <<manifest, part, config, conversions, worker, deferred, events, mislaid>>
  PROVE  UploadsInv'
<1>1. /\ page' \in [Page -> PageState]
      /\ \A p \in Page : page[p].at = "create" => page'[p] = page[p]
  BY ToldKeepsPages DEF UploadsInv
<1>2. config.op = "create" => config.page \in Page
  BY DEF UploadsInv, UploadsTypeOK, ConfigState
<1>3. thread' \in [Thread -> ThreadState] /\ \A g \in Thread : thread'[g] = thread[g] \/ (g = h /\ thread'[g] = Free)
  BY FreeThreadState DEF UploadsInv, UploadsTypeOK
<1>4. Quiet
  BY <1>1, <1>2, <1>3, FreeThreadState DEF Quiet, UploadsInv, UploadsTypeOK
<1> QED BY <1>4, QuietKeepsInv

LEMMA AppendReadsKeepsInv ==
  ASSUME UploadsInv, NEW h \in Thread, AppendReads(h)
  PROVE  UploadsInv'
<1> DEFINE id == thread[h].id
           now == manifest[id]
           new == [thread[h] EXCEPT !.at = "write", !.seen = now]
<1>1. thread[h] \in ThreadState /\ thread[h].at = "sent" /\ id \in UploadId
      /\ thread[h].offset \in 0..Size /\ thread[h].offset < Size
  BY DEF UploadsInv, UploadsTypeOK, AppendReads, ThreadState
<1>2. Len(part[id]) \in 0..Size /\ now \in ManifestState /\ 0 \in 0..Size
  BY <1>1, UploadsAssumption DEF UploadsInv, UploadsTypeOK
<1>3. UNCHANGED <<manifest, part, config, conversions, worker, deferred, events, mislaid>>
      /\ ~Locked(id) /\ ~HeldByAction(id)
  BY DEF AppendReads
<1>4. CASE thread' = [thread EXCEPT ![h] = Free] /\ Told(h, "check", 0)
  BY <1>1, <1>2, <1>3, <1>4, AnswerKeepsInv
<1>5. CASE thread' = [thread EXCEPT ![h] = Free] /\ Told(h, "sent", Len(part[id]))
  BY <1>1, <1>2, <1>3, <1>5, AnswerKeepsInv
<1>6. CASE /\ ~(Gone(now) \/ now.status = "paused" \/ now.transfer # "active") /\ BelongsHere(h)
           /\ thread' = [thread EXCEPT ![h] = new] /\ UNCHANGED page
  <2>1. /\ new.at = "write" /\ new.id = id /\ new.offset = thread[h].offset /\ new.seen = now
        /\ new \in [at : {"free", "sent", "write", "save", "enqueue", "promote", "hand"},
                    id : UploadId \cup {NoId}, offset : 0..Size, seen : ManifestState,
                    heir : UploadId \cup {NoId}]
    BY <1>1, <1>2 DEF ThreadState
  <2> HIDE DEF new
  <2>2. new \in ThreadState
    BY <1>1, <1>6, <2>1 DEF ThreadState
  <2>3. /\ thread' \in [Thread -> ThreadState] /\ thread'[h] = new
        /\ \A g \in Thread : g # h => thread'[g] = thread[g]
    BY <1>6, <2>2 DEF UploadsInv, UploadsTypeOK
  <2>4. \A g \in Thread, i \in UploadId : Holding(g, i)' => Holding(g, i) \/ (g = h /\ i = id)
    BY <2>1, <2>3 DEF Holding
  <2>5. \A g \in Thread : ~Holding(g, id)
    BY <1>3 DEF Locked, Holding
  <2>6. thread[h].offset = Len(part[id])
    BY <1>6 DEF BelongsHere
  <2>7. UploadsTypeOK'
    BY <1>3, <1>6, <2>3 DEF UploadsInv, UploadsTypeOK
  <2>8. LocksExclude'
    <3>1. \A g, k \in Thread, i \in UploadId : Holding(g, i)' /\ Holding(k, i)' => g = k
      BY <2>4, <2>5 DEF UploadsInv, LocksExclude
    <3>2. \A g \in Thread, i \in UploadId : Holding(g, i)' => worker' # [at |-> "work", id |-> i]
      BY <1>3, <2>4 DEF UploadsInv, LocksExclude, Locked
    <3>3. \A i \in UploadId : HeldByAction(i)' => ~Locked(i)'
      BY <1>3, <2>1, <2>3 DEF UploadsInv, LocksExclude, HeldByAction, Locked
    <3> QED BY <3>1, <3>2, <3>3 DEF LocksExclude
  <2>9. id \in mislaid \/ now.status \notin {"queued", "validating"}
    BY <1>1, <2>6 DEF UploadsInv, ReceivedIsFull, Waits, Full
  <2>10. ChunkIsInPlace'
    BY <1>3, <1>6, <2>1, <2>3, <2>6, <2>9 DEF UploadsInv, ChunkIsInPlace, Full
  <2>11. IdsAreFresh' /\ ReceivedIsFull' /\ HeldKeepsItsStatus' /\ PartIsABeginning'
    BY <1>3, <2>1, <2>3 DEF UploadsInv, IdsAreFresh, ReceivedIsFull, HeldKeepsItsStatus,
       PartIsABeginning,
           Waits, Queued, Full, HeldByAction, Gone
  <2>12. LettingGo(id) => id \in mislaid
    <3> SUFFICES ASSUME LettingGo(id), id \notin mislaid PROVE FALSE
      OBVIOUS
    <3>1. worker.id = id
      BY DEF LettingGo
    <3>2. Full(id)
      BY <1>1, <1>6, <3>1 DEF UploadsInv, ReceivedIsFull, Queued
    <3> QED BY <1>1, <2>6, <3>2 DEF Full
  <2>13. NoChunkWhileLettingGo'
    BY <1>3, <2>1, <2>3, <2>12 DEF UploadsInv, NoChunkWhileLettingGo, LettingGo
  <2>14. ReceivedIsPrepared'
    BY <1>1, <1>3, <2>1, <2>3 DEF UploadsInv, ReceivedIsPrepared
  <2> QED BY <2>7, <2>8, <2>10, <2>11, <2>13, <2>14 DEF UploadsInv
<1>7. thread[h] = [thread[h] EXCEPT !.at = "sent"] /\ thread \in [Thread -> ThreadState]
  BY <1>1 DEF UploadsInv, UploadsTypeOK, ThreadState
<1>8. [thread EXCEPT ![h].at = "write", ![h].seen = now] = [thread EXCEPT ![h] = new]
  BY <1>7
<1> HIDE DEF new
<1> QED BY <1>4, <1>5, <1>6, <1>8 DEF AppendReads

\* A thread's fields, whatever it does.
LEMMA ThreadFields ==
  ASSUME UploadsTypeOK, NEW h \in Thread
  PROVE  /\ thread[h] \in ThreadState /\ thread[h].seen \in ManifestState
         /\ thread[h].at # "free" => thread[h].id \in UploadId /\ thread[h].offset \in 0..Size
                                     /\ thread[h].offset < Size
         /\ thread[h].at \in {"write", "save"} => ~Gone(thread[h].seen)
         /\ thread[h].at = "hand" => thread[h].heir \in UploadId /\ thread[h].seen.status = "uploading"
BY DEF UploadsTypeOK, ThreadState

\* A thread that goes on with its lock.
LEMMA NextPlace ==
  ASSUME UploadsTypeOK, NEW h \in Thread, NEW at \in {"save", "enqueue", "promote"},
         thread[h].at \in {"write", "save", "enqueue"}, at = "save" => thread[h].at = "write",
         thread' = [thread EXCEPT ![h].at = at]
  PROVE  /\ thread' \in [Thread -> ThreadState]
         /\ thread'[h].at = at /\ thread'[h].id = thread[h].id /\ thread'[h].seen = thread[h].seen
         /\ \A g \in Thread : g # h => thread'[g] = thread[g]
         /\ \A g \in Thread, i \in UploadId :
              (thread'[g].id = i /\ thread'[g].at \notin {"free", "sent"}) <=> Holding(g, i)
<1> DEFINE new == [thread[h] EXCEPT !.at = at]
<1>1. thread[h] \in ThreadState /\ thread' = [thread EXCEPT ![h] = new]
  BY ThreadFields
<1>2. new.at = at /\ new.id = thread[h].id /\ new.seen = thread[h].seen /\ new.offset = thread[h].offset
      /\ new \in [at : {"free", "sent", "write", "save", "enqueue", "promote", "hand"},
                  id : UploadId \cup {NoId}, offset : 0..Size, seen : ManifestState,
                  heir : UploadId \cup {NoId}]
  BY <1>1 DEF ThreadState
<1> HIDE DEF new
<1>3. new \in ThreadState
  <2>1. new.at = "save" => ~Gone(new.seen)
    BY <1>1, <1>2 DEF ThreadState
  <2>2. new.id # NoId /\ new.offset < Size
    BY <1>1, <1>2 DEF ThreadState
  <2> QED BY <1>2, <2>1, <2>2 DEF ThreadState
<1>4. /\ thread' \in [Thread -> ThreadState] /\ thread'[h] = new
      /\ \A g \in Thread : g # h => thread'[g] = thread[g]
  BY <1>1, <1>3, ThreadSet
<1> QED BY <1>2, <1>4 DEF Holding

LEMMA AppendWritesKeepsInv ==
  ASSUME UploadsInv, NEW h \in Thread, AppendWrites(h)
  PROVE  UploadsInv'
<1> DEFINE id == thread[h].id
           longer == Append(part[id], thread[h].offset + 1)
<1>1. /\ thread[h].at = "write" /\ id \in UploadId /\ thread[h].offset \in 0..Size /\ thread[h].offset < Size
      /\ thread[h].offset = Len(part[id]) /\ part[id] \in Seq(Nat)
      /\ part[id] = [k \in 1..Len(part[id]) |-> k]
      /\ UploadsTypeOK /\ UNCHANGED <<manifest, page, config, conversions, worker, deferred, events, mislaid>>
  BY ThreadFields DEF UploadsInv, ChunkIsInPlace, AppendWrites, PartIsABeginning, UploadsTypeOK
<1>2. /\ thread' \in [Thread -> ThreadState]
      /\ thread'[h].at = "save" /\ thread'[h].id = id /\ thread'[h].seen = thread[h].seen
      /\ \A g \in Thread : g # h => thread'[g] = thread[g]
      /\ \A g \in Thread, i \in UploadId :
           (thread'[g].id = i /\ thread'[g].at \notin {"free", "sent"}) <=> Holding(g, i)
  BY <1>1, NextPlace DEF AppendWrites
<1>3. /\ longer \in Seq(Nat) /\ Len(longer) = Len(part[id]) + 1
      /\ \A k \in 1..Len(part[id]) : longer[k] = part[id][k]
      /\ longer[Len(part[id]) + 1] = Len(part[id]) + 1
  BY <1>1, UploadsAssumption
<1>4. part' = [part EXCEPT ![id] = longer] /\ part \in [UploadId -> Seq(Nat)]
  BY <1>1 DEF AppendWrites, UploadsTypeOK
<1> HIDE DEF longer
<1>5. part' \in [UploadId -> Seq(Nat)] /\ part'[id] = longer /\ \A i \in UploadId : i # id => part'[i] = part[i]
  BY <1>1, <1>3, <1>4
<1>6. longer = [k \in 1..Len(longer) |-> k]
  <2>1. longer = [k \in 1..Len(longer) |-> longer[k]]
    BY <1>3
  <2>2. ASSUME NEW k \in 1..Len(longer) PROVE longer[k] = k
    <3>1. k \in 1..Len(part[id]) \/ k = Len(part[id]) + 1
      BY <1>1, <1>3
    <3>2. ASSUME k \in 1..Len(part[id]) PROVE part[id][k] = k
      BY <1>1, <3>2
    <3> QED BY <1>3, <3>1, <3>2
  <2> QED BY <2>1, <2>2
<1>7. UploadsTypeOK'
  <2>1. \A i \in UploadId : Len(part'[i]) <= Size
    <3>1. Len(longer) <= Size
      BY <1>1, <1>3, UploadsAssumption
    <3> QED BY <1>1, <1>5, <3>1 DEF UploadsTypeOK
  <2> QED BY <1>1, <1>2, <1>5, <2>1 DEF UploadsTypeOK
<1>8. LocksExclude'
  BY <1>1, <1>2 DEF UploadsInv, LocksExclude, HeldByAction, Locked, Holding
<1>9. \A g \in Thread : g # h /\ thread[g].at \in {"write", "save", "enqueue"} => thread[g].id # id /\ thread[g].id \in UploadId
  BY <1>1, ThreadFields DEF UploadsInv, LocksExclude, Holding
<1>10. ChunkIsInPlace'
  <2>1. ChunkIsInPlace
    BY DEF UploadsInv
  <2> SUFFICES ASSUME NEW g \in Thread
               PROVE  /\ thread'[g].at = "write" => thread'[g].offset = Len(part'[thread'[g].id])
                      /\ thread'[g].at \in {"write", "save", "enqueue"} => ~Gone(manifest[thread'[g].id])
                      /\ thread'[g].at \in {"write", "save"} =>
                           thread'[g].seen.status \notin {"queued", "validating"} \/ thread'[g].id \in mislaid
                      /\ thread'[g].at = "enqueue" => Len(part'[thread'[g].id]) = Size
    BY <1>1 DEF ChunkIsInPlace, Full, Gone
  <2>2. CASE g = h
    BY <1>1, <1>2, <2>1, <2>2 DEF ChunkIsInPlace
  <2>3. CASE g # h
    <3>1. thread'[g] = thread[g]
      BY <1>2, <2>3
    <3>2. thread[g].at \in {"write", "save", "enqueue"} => part'[thread[g].id] = part[thread[g].id]
      BY <1>5, <1>9, <2>3
    <3> QED BY <2>1, <3>1, <3>2 DEF ChunkIsInPlace, Full
  <2> QED BY <2>2, <2>3
<1>11. \A i \in UploadId : Full(i) => Full(i)' /\ i # id
  BY <1>1, <1>5, UploadsAssumption DEF Full
<1>12. IdsAreFresh' /\ HeldKeepsItsStatus'
  BY <1>1, <1>2 DEF UploadsInv, IdsAreFresh, HeldKeepsItsStatus, Queued, HeldByAction, Gone
<1>13. ReceivedIsFull'
  BY <1>1, <1>11 DEF UploadsInv, ReceivedIsFull, Waits, Queued, Gone
<1>14. NoChunkWhileLettingGo'
  BY <1>1, <1>2 DEF UploadsInv, NoChunkWhileLettingGo, LettingGo
<1>15. PartIsABeginning'
  BY <1>5, <1>6 DEF UploadsInv, PartIsABeginning
<1>16. ReceivedIsPrepared'
  BY <1>1, <1>2 DEF UploadsInv, ReceivedIsPrepared
<1> QED BY <1>7, <1>8, <1>10, <1>12, <1>13, <1>14, <1>15, <1>16 DEF UploadsInv

LEMMA AppendSavesKeepsInv ==
  ASSUME UploadsInv, NEW h \in Thread, AppendSaves(h)
  PROVE  UploadsInv'
<1> DEFINE id == thread[h].id
           received == [thread[h].seen EXCEPT !.status = "validating", !.transfer = "complete"]
<1>1. /\ thread[h].at = "save" /\ id \in UploadId /\ thread[h].seen \in ManifestState /\ ~Gone(thread[h].seen)
      /\ ~Gone(manifest[id]) /\ UploadsTypeOK
      /\ UNCHANGED <<part, config, conversions, worker, deferred, events, mislaid>>
      /\ thread[h].seen.status \notin {"queued", "validating"} \/ id \in mislaid
  BY ThreadFields DEF UploadsInv, ChunkIsInPlace, AppendSaves
<1>2. received \in ManifestState /\ received.status = "validating"
  BY <1>1 DEF ManifestState, Gone
<1>3. Len(part[id]) \in 0..Size
  BY <1>1, UploadsAssumption DEF UploadsTypeOK
<1>4. /\ ~HeldByAction(id) /\ worker # [at |-> "work", id |-> id] /\ id <= events.creates
      /\ \A g \in Thread : g # h => ~Holding(g, id)
  BY <1>1 DEF UploadsInv, LocksExclude, Locked, Holding, IdsAreFresh
<1>5. PICK now \in ManifestState :
        /\ manifest' = [manifest EXCEPT ![id] = now] /\ ~Gone(now)
        /\ \/ /\ Full(id) /\ now.status = "validating" /\ UNCHANGED page
              /\ thread' = [thread EXCEPT ![h].at = "enqueue"]
           \/ /\ now = thread[h].seen /\ Told(h, "sent", Len(part[id]))
              /\ thread' = [thread EXCEPT ![h] = Free]
  BY <1>1, <1>2 DEF AppendSaves, Gone
<1> HIDE DEF received
<1>6. manifest' \in [UploadId -> ManifestState] /\ manifest'[id] = now /\ \A i \in UploadId : i # id => manifest'[i] = manifest[i]
  BY <1>1, <1>5 DEF UploadsTypeOK
<1>7. page' \in [Page -> PageState] /\ \A p \in Page : page[p].at = "create" => page'[p] = page[p]
  BY <1>1, <1>3, <1>5, ToldKeepsPages DEF UploadsTypeOK
<1>8. /\ thread' \in [Thread -> ThreadState]
      /\ \A g \in Thread : g # h => thread'[g] = thread[g]
      /\ \/ thread'[h].at = "enqueue" /\ thread'[h].id = id /\ Full(id) /\ now.status = "validating"
         \/ thread'[h].at = "free" /\ now = thread[h].seen
  <2>1. CASE thread' = [thread EXCEPT ![h].at = "enqueue"] /\ Full(id) /\ now.status = "validating"
    BY <1>1, <2>1, NextPlace
  <2>2. CASE thread' = [thread EXCEPT ![h] = Free] /\ now = thread[h].seen
    BY <1>1, <2>2, FreeThreadState, ThreadSet
  <2> QED BY <1>5, <2>1, <2>2
<1>9. \A g \in Thread, i \in UploadId : Holding(g, i)' => Holding(g, i)
  BY <1>1, <1>8 DEF Holding
<1>10. UploadsTypeOK'
  <2>1. config.op = "create" => config.page \in Page
    BY <1>1 DEF UploadsTypeOK, ConfigState
  <2> QED BY <1>1, <1>6, <1>7, <1>8, <2>1 DEF UploadsTypeOK
<1>11. LocksExclude'
  <2>1. \A i \in UploadId : Locked(i)' => Locked(i)
    BY <1>1, <1>9 DEF Locked, Holding
  <2> QED BY <1>1, <1>9, <2>1 DEF UploadsInv, LocksExclude, HeldByAction
<1>12. ChunkIsInPlace'
  <2>1. ChunkIsInPlace
    BY DEF UploadsInv
  <2>2. \A g \in Thread : g # h /\ thread[g].at \in {"write", "save", "enqueue"} => thread[g].id # id /\ thread[g].id \in UploadId
    BY <1>1, <1>4, ThreadFields DEF Holding
  <2> SUFFICES ASSUME NEW g \in Thread
               PROVE  /\ thread'[g].at = "write" => thread'[g].offset = Len(part[thread'[g].id])
                      /\ thread'[g].at \in {"write", "save", "enqueue"} => ~Gone(manifest'[thread'[g].id])
                      /\ thread'[g].at \in {"write", "save"} =>
                           thread'[g].seen.status \notin {"queued", "validating"} \/ thread'[g].id \in mislaid
                      /\ thread'[g].at = "enqueue" => Full(thread'[g].id)
    BY <1>1 DEF ChunkIsInPlace, Full, Gone
  <2>3. CASE g = h
    BY <1>5, <1>6, <1>8, <2>3
  <2>4. CASE g # h
    BY <1>6, <1>8, <2>1, <2>2, <2>4 DEF ChunkIsInPlace
  <2> QED BY <2>3, <2>4
<1>13. IdsAreFresh'
  BY <1>1, <1>4, <1>6, <1>8 DEF UploadsInv, IdsAreFresh, Queued, Gone
<1>14. HeldKeepsItsStatus'
  BY <1>1, <1>4, <1>6 DEF UploadsInv, HeldKeepsItsStatus, HeldByAction
<1>15. ReceivedIsFull'
  <2>1. ReceivedIsFull
    BY DEF UploadsInv
  <2> SUFFICES ASSUME NEW i \in UploadId \ mislaid
               PROVE  /\ manifest'[i].status \in {"queued", "validating"} => Full(i)
                      /\ i \in Queued \cup deferred => Full(i) \/ Gone(manifest'[i])
    <3>1. \A i \in UploadId : worker = [at |-> "work", id |-> i] => ~Gone(manifest'[i])
      BY <1>1, <1>4, <1>6, <2>1 DEF ReceivedIsFull
    <3> QED BY <1>1, <3>1 DEF ReceivedIsFull, Full, Waits, Queued, Gone
  <2>2. CASE i = id
    BY <1>1, <1>4, <1>6, <1>8, <2>1, <2>2 DEF ReceivedIsFull
  <2>3. CASE i # id
    BY <1>6, <2>1, <2>3 DEF ReceivedIsFull, Waits
  <2> QED BY <2>2, <2>3
<1>16. NoChunkWhileLettingGo'
  BY <1>1, <1>8 DEF UploadsInv, NoChunkWhileLettingGo, LettingGo
<1>17. PartIsABeginning'
  BY <1>1 DEF UploadsInv, PartIsABeginning
<1>18. ReceivedIsPrepared'
  <2>1. ReceivedIsPrepared
    BY DEF UploadsInv
  <2> SUFFICES ASSUME NEW i \in UploadId, manifest'[i].status \in {"queued", "validating"}, i \notin mislaid
               PROVE  \/ i \in Range(conversions) \cup deferred
                      \/ worker = [at |-> "work", id |-> i]
                      \/ \E g \in Thread : thread'[g].id = i /\ thread'[g].at = "enqueue"
    BY <1>1 DEF ReceivedIsPrepared
  <2>2. CASE i = id
    BY <1>1, <1>6, <1>8, <2>2
  <2>3. CASE i # id
    BY <1>1, <1>6, <1>8, <2>1, <2>3 DEF ReceivedIsPrepared
  <2> QED BY <2>2, <2>3
<1> QED BY <1>10, <1>11, <1>12, <1>13, <1>14, <1>15, <1>16, <1>17, <1>18 DEF UploadsInv

LEMMA AppendEnqueuesKeepsInv ==
  ASSUME UploadsInv, NEW h \in Thread, AppendEnqueues(h)
  PROVE  UploadsInv'
<1> DEFINE id == thread[h].id
<1>1. /\ thread[h].at = "enqueue" /\ id \in UploadId /\ UploadsTypeOK
      /\ UNCHANGED <<manifest, part, page, config, worker, deferred, events, mislaid>>
      /\ ~Gone(manifest[id]) /\ Full(id) /\ id <= events.creates
      /\ worker # [at |-> "work", id |-> id] /\ (LettingGo(id) => id \in mislaid)
  BY ThreadFields DEF UploadsInv, AppendEnqueues, ChunkIsInPlace, IdsAreFresh, LocksExclude, Holding,
                      NoChunkWhileLettingGo
<1>2. /\ conversions' \in Seq(UploadId) /\ Range(conversions) \subseteq Range(conversions')
      /\ Range(conversions') \subseteq Range(conversions) \cup {id}
      /\ id \in Range(conversions') \/ worker.id = id
  BY <1>1, EnqueuedKeeps DEF AppendEnqueues, UploadsTypeOK
<1>3. /\ thread' \in [Thread -> ThreadState]
      /\ thread'[h].at = "promote" /\ thread'[h].id = id
      /\ \A g \in Thread : g # h => thread'[g] = thread[g]
      /\ \A g \in Thread, i \in UploadId :
           (thread'[g].id = i /\ thread'[g].at \notin {"free", "sent"}) <=> Holding(g, i)
  BY <1>1, NextPlace DEF AppendEnqueues
<1>4. worker.id = id => worker = [at |-> "finish", id |-> id]
  <2>1. id # NoId
    BY <1>1, UploadsAssumption DEF UploadId, NoId
  <2> QED BY <1>1, <2>1 DEF UploadsTypeOK
<1>5. UploadsTypeOK'
  BY <1>1, <1>2, <1>3 DEF UploadsTypeOK
<1>6. LocksExclude'
  BY <1>1, <1>3 DEF UploadsInv, LocksExclude, HeldByAction, Locked, Holding
<1>7. ChunkIsInPlace'
  BY <1>1, <1>3 DEF UploadsInv, ChunkIsInPlace, Full, Gone
<1>8. Queued' \subseteq Queued \cup {id}
  BY <1>1, <1>2 DEF Queued
<1>9. IdsAreFresh'
  BY <1>1, <1>3, <1>8 DEF UploadsInv, IdsAreFresh, Gone
<1>10. ReceivedIsFull'
  BY <1>1, <1>8 DEF UploadsInv, ReceivedIsFull, Waits, Full, Gone
<1>11. NoChunkWhileLettingGo' /\ HeldKeepsItsStatus' /\ PartIsABeginning'
  BY <1>1, <1>3 DEF UploadsInv, NoChunkWhileLettingGo, LettingGo, HeldKeepsItsStatus, HeldByAction,
     PartIsABeginning
<1>12. ReceivedIsPrepared'
  <2>1. ReceivedIsPrepared
    BY DEF UploadsInv
  <2> SUFFICES ASSUME NEW i \in UploadId, Waits(i), i \notin mislaid
               PROVE  \/ i \in Range(conversions') \cup deferred
                      \/ worker = [at |-> "work", id |-> i]
                      \/ \E g \in Thread : thread'[g].id = i /\ thread'[g].at = "enqueue"
    BY <1>1 DEF ReceivedIsPrepared, Waits
  <2>2. CASE i = id
    BY <1>1, <1>2, <1>4, <2>2 DEF LettingGo
  <2>3. CASE i # id
    BY <1>1, <1>2, <1>3, <2>1, <2>3 DEF ReceivedIsPrepared, Waits
  <2> QED BY <2>2, <2>3
<1> QED BY <1>5, <1>6, <1>7, <1>9, <1>10, <1>11, <1>12 DEF UploadsInv

LEMMA AppendChoosesKeepsInv ==
  ASSUME UploadsInv, NEW h \in Thread, AppendChooses(h)
  PROVE  UploadsInv'
<1> DEFINE heir == Earliest(manifest)
           new == [thread[h] EXCEPT !.at = "hand", !.heir = heir, !.seen = manifest[heir]]
<1>1. /\ thread[h].at = "promote" /\ thread[h] \in ThreadState /\ UploadsTypeOK
      /\ UNCHANGED <<manifest, part, config, conversions, worker, deferred, events, mislaid>>
  BY ThreadFields DEF UploadsInv, AppendChooses
<1>2. CASE thread' = [thread EXCEPT ![h] = Free] /\ Told(h, "sent", Size)
  <2>1. Size \in 0..Size
    BY UploadsAssumption
  <2> QED BY <1>1, <1>2, <2>1, AnswerKeepsInv
<1>3. CASE InLine(manifest) # {} /\ thread' = [thread EXCEPT ![h] = new] /\ UNCHANGED page
  <2>1. heir \in UploadId /\ manifest[heir] \in ManifestState /\ manifest[heir].status = "uploading"
    BY <1>1, <1>3, EarliestIsInLine DEF InLine, UploadsTypeOK
  <2>2. /\ new.at = "hand" /\ new.id = thread[h].id /\ new.heir = heir /\ new.seen = manifest[heir]
        /\ new.offset = thread[h].offset
        /\ new \in [at : {"free", "sent", "write", "save", "enqueue", "promote", "hand"},
                    id : UploadId \cup {NoId}, offset : 0..Size, seen : ManifestState,
                    heir : UploadId \cup {NoId}]
    BY <1>1, <2>1 DEF ThreadState
  <2> HIDE DEF new
  <2>3. heir # NoId /\ new.id # NoId /\ new.offset < Size
    BY <1>1, <2>1, <2>2, UploadsAssumption DEF UploadId, NoId, ThreadState
  <2>4. new \in ThreadState
    BY <2>1, <2>2, <2>3 DEF ThreadState
  <2>5. /\ thread' \in [Thread -> ThreadState] /\ thread'[h] = new
        /\ \A g \in Thread : g # h => thread'[g] = thread[g]
    BY <1>1, <1>3, <2>4, ThreadSet
  <2>6. \A g \in Thread, i \in UploadId :
          (thread'[g].id = i /\ thread'[g].at \notin {"free", "sent"}) <=> Holding(g, i)
    BY <1>1, <2>2, <2>5 DEF Holding
  <2>7. UploadsTypeOK'
    BY <1>1, <1>3, <2>5 DEF UploadsTypeOK
  <2>8. LocksExclude'
    BY <1>1, <2>6 DEF UploadsInv, LocksExclude, HeldByAction, Locked, Holding
  <2>9. ChunkIsInPlace'
    BY <1>1, <2>2, <2>5 DEF UploadsInv, ChunkIsInPlace, Full, Gone
  <2>10. IdsAreFresh' /\ ReceivedIsFull' /\ HeldKeepsItsStatus' /\ PartIsABeginning'
    <3>1. heir <= events.creates
      BY <2>1 DEF UploadsInv, IdsAreFresh, Gone
    <3>2. IdsAreFresh'
      BY <1>1, <2>2, <2>5, <3>1 DEF UploadsInv, IdsAreFresh, Queued, Gone
    <3>3. ReceivedIsFull' /\ HeldKeepsItsStatus' /\ PartIsABeginning'
      BY <1>1 DEF UploadsInv, ReceivedIsFull, HeldKeepsItsStatus, PartIsABeginning,
             Waits, Queued, Full, HeldByAction, Gone
    <3> QED BY <3>2, <3>3
  <2>11. NoChunkWhileLettingGo' /\ ReceivedIsPrepared'
    BY <1>1, <2>2, <2>5 DEF UploadsInv, NoChunkWhileLettingGo, LettingGo, ReceivedIsPrepared
  <2> QED BY <2>7, <2>8, <2>9, <2>10, <2>11 DEF UploadsInv
<1>4. [thread EXCEPT ![h].at = "hand", ![h].heir = heir, ![h].seen = manifest[heir]] = [thread EXCEPT ![h] = new]
  BY <1>1 DEF UploadsTypeOK
<1> HIDE DEF new
<1> QED BY <1>2, <1>3, <1>4 DEF AppendChooses

LEMMA AppendHandsKeepsInv ==
  ASSUME UploadsInv, NEW h \in Thread, AppendHands(h)
  PROVE  UploadsInv'
<1> DEFINE heir == thread[h].heir
           seen == thread[h].seen
           now == [seen EXCEPT !.transfer = "active"]
<1>1. /\ thread[h].at = "hand" /\ heir \in UploadId /\ seen \in ManifestState /\ seen.status = "uploading"
      /\ UploadsTypeOK /\ UNCHANGED <<part, config, conversions, worker, deferred, events>>
  BY ThreadFields DEF UploadsInv, AppendHands
<1>2. now \in ManifestState /\ now.status = "uploading" /\ ~Gone(now) /\ ~Gone(seen)
  BY <1>1 DEF ManifestState, Gone
<1>3. manifest' = [manifest EXCEPT ![heir] = now] /\ thread' = [thread EXCEPT ![h] = Free]
  BY DEF AppendHands
<1> HIDE DEF now
<1>4. /\ manifest' \in [UploadId -> ManifestState] /\ manifest'[heir] = now
      /\ \A i \in UploadId : i # heir => manifest'[i] = manifest[i]
  BY <1>1, <1>2, <1>3 DEF UploadsTypeOK
<1>5. /\ thread' \in [Thread -> ThreadState] /\ thread'[h] = Free
      /\ \A g \in Thread : g # h => thread'[g] = thread[g]
  BY <1>1, <1>3, FreeThreadState, ThreadSet
<1>6. page' \in [Page -> PageState] /\ \A p \in Page : page[p].at = "create" => page'[p] = page[p]
  BY <1>1, UploadsAssumption, ToldKeepsPages DEF AppendHands
<1>7. mislaid \subseteq mislaid' /\ mislaid' \subseteq UploadId /\ (heir \notin mislaid' => manifest[heir] = seen)
  BY <1>1 DEF AppendHands, UploadsTypeOK
<1>8. UploadsTypeOK'
  <2>1. config.op = "create" => config.page \in Page
    BY <1>1 DEF UploadsTypeOK, ConfigState
  <2> QED BY <1>1, <1>4, <1>5, <1>6, <1>7, <2>1 DEF UploadsTypeOK
<1>9. \A g \in Thread, i \in UploadId : Holding(g, i)' => Holding(g, i) /\ thread'[g] = thread[g]
  BY <1>5, FreeThreadState DEF Holding
<1>10. LocksExclude'
  <2>1. \A i \in UploadId : Locked(i)' => Locked(i)
    BY <1>1, <1>9 DEF Locked, Holding
  <2> QED BY <1>1, <1>9, <2>1 DEF UploadsInv, LocksExclude, HeldByAction
<1>11. ChunkIsInPlace'
  <2>1. ChunkIsInPlace
    BY DEF UploadsInv
  <2>2. \A i \in UploadId : Gone(manifest'[i]) => Gone(manifest[i])
    BY <1>2, <1>4
  <2> SUFFICES ASSUME NEW g \in Thread, g # h
               PROVE  /\ thread[g].at = "write" => thread[g].offset = Len(part[thread[g].id])
                      /\ thread[g].at \in {"write", "save", "enqueue"} => ~Gone(manifest'[thread[g].id])
                      /\ thread[g].at \in {"write", "save"} =>
                           thread[g].seen.status \notin {"queued", "validating"} \/ thread[g].id \in mislaid'
                      /\ thread[g].at = "enqueue" => Full(thread[g].id)
    BY <1>1, <1>5, FreeThreadState DEF ChunkIsInPlace, Full, Gone
  <2>3. thread[g].at # "free" => thread[g].id \in UploadId
    BY <1>1, ThreadFields
  <2> QED BY <1>7, <2>1, <2>2, <2>3 DEF ChunkIsInPlace
<1>12. IdsAreFresh'
  <2>1. heir <= events.creates
    BY <1>1 DEF UploadsInv, IdsAreFresh
  <2>2. \A i \in UploadId : Gone(manifest[i]) /\ i # heir => Gone(manifest'[i])
    BY <1>4
  <2> QED BY <1>1, <1>4, <1>5, <2>1, <2>2, FreeThreadState DEF UploadsInv, IdsAreFresh, Queued, Gone
<1>13. ReceivedIsFull'
  <2>1. ReceivedIsFull
    BY DEF UploadsInv
  <2> SUFFICES ASSUME NEW i \in UploadId \ mislaid'
               PROVE  /\ manifest'[i].status \in {"queued", "validating"} => Full(i)
                      /\ i \in Queued \cup deferred => Full(i) \/ Gone(manifest'[i])
    <3>1. \A i \in UploadId : worker = [at |-> "work", id |-> i] => ~Gone(manifest'[i])
      BY <1>1, <1>2, <1>4, <2>1 DEF ReceivedIsFull
    <3> QED BY <1>1, <3>1 DEF ReceivedIsFull, Full, Waits, Queued, Gone
  <2>2. CASE i = heir
    BY <1>1, <1>2, <1>4, <1>7, <2>1, <2>2 DEF ReceivedIsFull
  <2>3. CASE i # heir
    BY <1>4, <1>7, <2>1, <2>3 DEF ReceivedIsFull, Waits
  <2> QED BY <2>2, <2>3
<1>14. NoChunkWhileLettingGo'
  BY <1>1, <1>5, <1>7, FreeThreadState DEF UploadsInv, NoChunkWhileLettingGo, LettingGo
<1>15. HeldKeepsItsStatus'
  <2>1. \A i \in UploadId \ mislaid' : manifest'[i].status = manifest[i].status
    BY <1>1, <1>2, <1>4, <1>7
  <2> QED BY <1>1, <1>7, <2>1 DEF UploadsInv, HeldKeepsItsStatus, HeldByAction
<1>16. PartIsABeginning'
  BY <1>1 DEF UploadsInv, PartIsABeginning
<1>17. ReceivedIsPrepared'
  <2>1. ReceivedIsPrepared
    BY DEF UploadsInv
  <2> SUFFICES ASSUME NEW i \in UploadId, manifest'[i].status \in {"queued", "validating"}, i \notin mislaid'
               PROVE  \/ i \in Range(conversions) \cup deferred
                      \/ worker = [at |-> "work", id |-> i]
                      \/ \E g \in Thread : thread'[g].id = i /\ thread'[g].at = "enqueue"
    BY <1>1 DEF ReceivedIsPrepared
  <2>2. i # heir /\ i \notin mislaid
    BY <1>2, <1>4, <1>7
  <2> QED BY <1>1, <1>4, <1>5, <2>1, <2>2 DEF ReceivedIsPrepared
<1> QED BY <1>8, <1>10, <1>11, <1>12, <1>13, <1>14, <1>15, <1>16, <1>17 DEF UploadsInv

(* ------------------------------------------------------------------------ *)
(* Steps under config_lock.                                                   *)

\* An action takes the lock of an upload that nobody has.
LEMMA TakesKeepsInv ==
  ASSUME UploadsInv, NEW op \in {"create", "heartbeat", "start", "pause", "resume", "retry", "cancel"},
         NEW id \in UploadId \cup {NoId}, NEW p \in Page \cup {"none"}, Takes(op, id, p),
         op # "create" => id # NoId /\ ~Locked(id),
         op \in {"create", "heartbeat"} => p # "none",
         op = "create" => page[p].at = "create",
         op = "heartbeat" => ~Gone(manifest[id]),
         op \notin {"create", "heartbeat"} => Permitted(op, manifest[id].status),
         events' \in [all : 0..MaxEvents, creates : 0..MaxEvents],
         events'.creates = events.creates, events.all <= events'.all,
         UNCHANGED <<manifest, part, page, thread, conversions, worker, deferred, mislaid>>
  PROVE  UploadsInv'
<1>1. /\ config'.op = op /\ config'.id = id /\ config'.page = p /\ config'.seen = manifest
      /\ config' \in [op : {"none", "create", "heartbeat", "start", "pause", "resume", "retry", "cancel"},
                      id : UploadId \cup {NoId}, page : Page \cup {"none"}, seen : [UploadId -> ManifestState]]
  BY DEF Takes, UploadsInv, UploadsTypeOK
<1>2. config' \in ConfigState
  BY <1>1 DEF ConfigState
<1>3. UploadsTypeOK'
  BY <1>1, <1>2 DEF UploadsInv, UploadsTypeOK
<1>4. LocksExclude'
  BY <1>1 DEF UploadsInv, LocksExclude, HeldByAction, Locked, Holding
<1>5. ChunkIsInPlace'
  BY DEF UploadsInv, ChunkIsInPlace, Full, Gone
<1>6. IdsAreFresh'
  BY <1>1 DEF UploadsInv, IdsAreFresh, Queued, Gone
<1>7. ReceivedIsFull' /\ NoChunkWhileLettingGo' /\ PartIsABeginning' /\ ReceivedIsPrepared'
  BY DEF UploadsInv, ReceivedIsFull, NoChunkWhileLettingGo, PartIsABeginning, ReceivedIsPrepared,
         Waits, Full, Gone, Queued, LettingGo
<1>8. HeldKeepsItsStatus'
  BY <1>1 DEF HeldKeepsItsStatus, HeldByAction
<1> QED BY <1>3, <1>4, <1>5, <1>6, <1>7, <1>8 DEF UploadsInv

LEMMA PageAsksKeepsInv ==
  ASSUME UploadsInv, NEW p \in Page, PageAsks(p)
  PROVE  UploadsInv'
<1>1. page[p] \in PageState /\ UploadsTypeOK /\ p # "none"
      /\ UNCHANGED <<manifest, part, thread, conversions, worker, deferred, events, mislaid>>
  BY UploadsAssumption DEF UploadsInv, UploadsTypeOK, PageAsks
<1>2. /\ events' \in [all : 0..MaxEvents, creates : 0..MaxEvents]
      /\ events'.creates = events.creates /\ events.all <= events'.all
  BY <1>1 DEF UploadsTypeOK
<1>3. CASE page[p].at = "create" /\ Takes("create", NoId, p) /\ UNCHANGED page
  BY <1>1, <1>2, <1>3, TakesKeepsInv
<1>4. CASE page[p].at = "turn" /\ GivesUp(p) /\ UNCHANGED config
  BY <1>1, <1>2, <1>4, PageSetKeepsInv, RestingPage DEF GivesUp
<1>5. CASE /\ page[p].at = "turn" /\ ~Gone(manifest[page[p].id]) /\ ~Locked(page[p].id)
           /\ Takes("heartbeat", page[p].id, p) /\ UNCHANGED page
  <2>1. page[p].id \in UploadId /\ page[p].id # NoId
    BY <1>1, <1>5 DEF PageState
  <2> QED BY <1>1, <1>2, <1>5, <2>1, TakesKeepsInv
<1> QED BY <1>3, <1>4, <1>5 DEF PageAsks

LEMMA OwnerAsksKeepsInv ==
  ASSUME UploadsInv, NEW id \in UploadId, NEW op \in {"start", "pause", "resume", "retry", "cancel"},
         OwnerAsks(op, id)
  PROVE  UploadsInv'
<1>1. id # NoId
  BY UploadsAssumption DEF UploadId, NoId
<1>2. /\ events' \in [all : 0..MaxEvents, creates : 0..MaxEvents]
      /\ events'.creates = events.creates /\ events.all <= events'.all
  BY EventfulCounts DEF OwnerAsks, UploadsInv
<1> QED BY <1>1, <1>2, TakesKeepsInv DEF OwnerAsks

\* What an action that lets go of config_lock may do to upload i.
Released(i) ==
  /\ part'[i] = part[i] \/ (part'[i] = <<>> /\ ~Locked(i) /\ Gone(manifest'[i]))
  /\ Locked(i) /\ ~Gone(manifest[i]) => ~Gone(manifest'[i])
  /\ ~Gone(manifest'[i]) => i <= events'.creates
  /\ i \in Range(conversions) => i \in Range(conversions')
  /\ i \in Range(conversions') \cup deferred' => i \in Queued \cup deferred \/ (Full(i) /\ i <= events'.creates)
  /\ i \in deferred => i \in deferred' \/ Gone(manifest'[i])
  /\ i \notin mislaid' =>
       /\ Gone(manifest[i]) /\ ~Gone(manifest'[i]) => i > events.creates
       /\ manifest'[i].status \in {"queued", "validating"} =>
                       \/ Waits(i)
                       \/ /\ Full(i)
                          /\ i \in Range(conversions') \cup deferred' \/ worker = [at |-> "work", id |-> i]

LEMMA ReleaseKeepsInv ==
  ASSUME UploadsInv, config' = Unlocked, UNCHANGED <<thread, worker>>,
         page' \in [Page -> PageState], manifest' \in [UploadId -> ManifestState],
         part' \in [UploadId -> Seq(Nat)], conversions' \in Seq(UploadId), deferred' \subseteq UploadId,
         mislaid \subseteq mislaid', mislaid' \subseteq UploadId,
         events' \in [all : 0..MaxEvents, creates : 0..MaxEvents],
         events.creates <= events'.creates, events'.creates <= events'.all,
         \A i \in UploadId : Released(i)
  PROVE  UploadsInv'
<1>1. UploadsTypeOK /\ UNCHANGED worker /\ thread \in [Thread -> ThreadState]
      /\ (worker.id # NoId => worker.id \in UploadId) /\ events.creates \in Nat /\ events'.creates \in Nat
  BY UploadsAssumption DEF UploadsInv, UploadsTypeOK
<1>2. Unlocked \in ConfigState /\ Unlocked.op = "none" /\ \A i \in UploadId : Unlocked.seen[i] = Absent
  BY FreeThreadState DEF Unlocked, ConfigState
<1>3. \A i \in UploadId : HeldByAction(i)' = FALSE
  BY <1>2 DEF HeldByAction
<1>4. \A i \in UploadId : (Locked(i) => part'[i] = part[i]) /\ (Full(i) => Full(i)' \/ Gone(manifest'[i]))
  BY DEF Released, Full
<1>5. \A g \in Thread, i \in UploadId : Holding(g, i) => Locked(i)
  BY DEF Holding, Locked
<1>6. UploadsTypeOK'
  <2>1. \A i \in UploadId : Len(part'[i]) <= Size
    BY <1>1, UploadsAssumption DEF Released, UploadsTypeOK
  <2> QED BY <1>1, <1>2, <2>1 DEF UploadsTypeOK
<1>7. LocksExclude'
  BY <1>1, <1>3 DEF UploadsInv, LocksExclude, Holding
<1>8. ChunkIsInPlace'
  <2>1. ChunkIsInPlace
    BY DEF UploadsInv
  <2> SUFFICES ASSUME NEW g \in Thread, thread[g].at \in {"write", "save", "enqueue"}
               PROVE  /\ thread[g].at = "write" => thread[g].offset = Len(part'[thread[g].id])
                      /\ ~Gone(manifest'[thread[g].id])
                      /\ thread[g].at \in {"write", "save"} =>
                           thread[g].seen.status \notin {"queued", "validating"} \/ thread[g].id \in mislaid'
                      /\ thread[g].at = "enqueue" => Len(part'[thread[g].id]) = Size
    BY DEF ChunkIsInPlace, Full, Gone
  <2>2. thread[g].id \in UploadId /\ Locked(thread[g].id)
    BY <1>1, <1>5, ThreadFields DEF Holding
  <2> QED BY <1>4, <2>1, <2>2 DEF ChunkIsInPlace, Full, Released
<1>9. \A i \in Queued' \cup deferred' : i \in Queued \cup deferred \/ (i \in UploadId /\ Full(i) /\ i <= events'.creates)
  BY DEF Released, Queued, UploadsTypeOK, UploadsInv, Range
<1>10. IdsAreFresh'
  <2>1. \A i \in UploadId : ~Gone(manifest'[i]) => i <= events'.creates
    BY DEF Released
  <2>2. \A i \in UploadId : Gone(config'.seen[i])
    BY <1>2 DEF Absent, Gone
  <2>3. \A i \in Queued \cup deferred : i <= events.creates /\ i \in Nat
    <3>1. Queued \cup deferred \subseteq UploadId \cup {NoId}
      BY <1>1 DEF Queued, Range, UploadsTypeOK
    <3> QED BY <3>1, UploadsAssumption DEF UploadsInv, IdsAreFresh, UploadId, NoId
  <2>4. \A i \in Queued' \cup deferred' : i <= events'.creates
    <3> SUFFICES ASSUME NEW i \in Queued' \cup deferred' PROVE i <= events'.creates
      OBVIOUS
    <3>1. CASE i \in Queued \cup deferred
      <4>1. i <= events.creates /\ i \in Nat
        BY <2>3, <3>1
      <4> QED BY <1>1, <4>1
    <3>2. CASE i \notin Queued \cup deferred
      BY <1>9, <3>2
    <3> QED BY <3>1, <3>2
  <2>5. \A h \in Thread : thread[h].at = "hand" => thread[h].heir <= events.creates /\ thread[h].heir \in Nat
    BY <1>1, ThreadFields, UploadsAssumption DEF UploadsInv, IdsAreFresh, UploadId
  <2>6. \A h \in Thread : thread[h].at = "hand" => thread[h].heir <= events'.creates
    BY <1>1, <2>5
  <2> QED BY <1>1, <2>1, <2>2, <2>4, <2>6 DEF IdsAreFresh, Gone
<1>11. ReceivedIsFull'
  <2>1. ReceivedIsFull /\ IdsAreFresh
    BY DEF UploadsInv
  <2> SUFFICES ASSUME NEW i \in UploadId \ mislaid'
               PROVE  /\ Waits(i)' => Full(i)'
                      /\ i \in Queued' \cup deferred' => Full(i)' \/ Gone(manifest'[i])
    <3>1. \A i \in UploadId : worker = [at |-> "work", id |-> i] => ~Gone(manifest'[i])
      BY <2>1 DEF ReceivedIsFull, Released, Locked
    <3> QED BY <1>1, <3>1 DEF ReceivedIsFull, Gone
  <2>2. Waits(i)' => Full(i)'
    <3>1. Waits(i)' => Full(i) /\ ~Gone(manifest'[i])
      BY <2>1 DEF ReceivedIsFull, Released, Waits, Gone
    <3> QED BY <1>4, <3>1
  <2>3. i \in Queued' \cup deferred' => Full(i)' \/ Gone(manifest'[i])
    <3>1. CASE Full(i)
      BY <1>4, <3>1
    <3>2. CASE ~Full(i)
      <4> SUFFICES ASSUME i \in Queued' \cup deferred', ~Gone(manifest'[i]) PROVE FALSE
        OBVIOUS
      <4>1. i \in Queued \cup deferred
        BY <1>9, <3>2
      <4>2. Gone(manifest[i]) /\ i <= events.creates
        BY <2>1, <3>2, <4>1 DEF ReceivedIsFull, IdsAreFresh
      <4>3. i > events.creates
        BY <4>2 DEF Released
      <4> QED BY <1>1, <4>2, <4>3, UploadsAssumption DEF UploadId
    <3> QED BY <3>1, <3>2
  <2> QED BY <2>2, <2>3
<1>12. NoChunkWhileLettingGo'
  BY <1>1 DEF UploadsInv, NoChunkWhileLettingGo, LettingGo
<1>13. HeldKeepsItsStatus'
  BY <1>3 DEF HeldKeepsItsStatus
<1>14. PartIsABeginning'
  <2>1. <<>> = [k \in 1..Len(<<>>) |-> k]
    OBVIOUS
  <2> QED BY <2>1 DEF UploadsInv, PartIsABeginning, Released
<1>15. ReceivedIsPrepared'
  <2>1. ReceivedIsPrepared
    BY DEF UploadsInv
  <2> SUFFICES ASSUME NEW i \in UploadId, Waits(i)', i \notin mislaid'
               PROVE  \/ i \in Range(conversions') \cup deferred'
                      \/ worker = [at |-> "work", id |-> i]
                      \/ \E g \in Thread : thread[g].id = i /\ thread[g].at = "enqueue"
    BY DEF ReceivedIsPrepared, Waits
  <2>2. ~Gone(manifest'[i])
    BY DEF Waits, Gone
  <2> QED BY <2>1, <2>2 DEF ReceivedIsPrepared, Released, Waits
<1> QED BY <1>6, <1>7, <1>8, <1>10, <1>11, <1>12, <1>13, <1>14, <1>15 DEF UploadsInv

\* What every one of them keeps.
LEMMA UnderConfigLock ==
  ASSUME UploadsInv, config.op # "none"
  PROVE  /\ UploadsTypeOK /\ config.seen \in [UploadId -> ManifestState]
         /\ config.op # "create" => config.id \in UploadId /\ ~Locked(config.id) /\ HeldByAction(config.id)
         /\ config.op \in {"create", "heartbeat"} => config.page \in Page
         /\ config.op = "heartbeat" => ~Gone(config.seen[config.id])
         /\ config.op \in {"start", "pause", "resume", "retry", "cancel"} =>
              Permitted(config.op, config.seen[config.id].status)
         /\ \A i \in UploadId : ~Gone(config.seen[i]) => i <= events.creates
         /\ \A i \in UploadId : ~Gone(manifest[i]) => i <= events.creates
         /\ config.op # "create" /\ config.id \notin mislaid => manifest[config.id].status = config.seen[config.id].status
<1>1. config \in ConfigState
  BY DEF UploadsInv, UploadsTypeOK
<1>2. config.op # "create" => HeldByAction(config.id) /\ config.id \in UploadId
  BY <1>1 DEF ConfigState, HeldByAction
<1> QED BY <1>1, <1>2 DEF UploadsInv, ConfigState, LocksExclude, IdsAreFresh, HeldKeepsItsStatus

\* An upload that nothing is done to.
LEMMA UntouchedIsReleased ==
  ASSUME UploadsInv, NEW i \in UploadId, part'[i] = part[i], manifest'[i].status = manifest[i].status,
         Range(conversions) \subseteq Range(conversions'), i \in Range(conversions') => i \in Queued,
         i \in deferred' <=> i \in deferred, events.creates <= events'.creates, events'.creates \in Nat
  PROVE  Released(i)
<1>1. ~Gone(manifest'[i]) => i <= events'.creates
  <2>1. ~Gone(manifest'[i]) => ~Gone(manifest[i])
    BY DEF Gone
  <2>2. ~Gone(manifest[i]) => i <= events.creates
    BY DEF UploadsInv, IdsAreFresh
  <2>3. i \in Nat /\ events.creates \in Nat
    BY UploadsAssumption DEF UploadsInv, UploadsTypeOK, UploadId
  <2> QED BY <2>1, <2>2, <2>3
<1> QED BY <1>1 DEF Released, Gone, Waits

\* The heartbeat writes what it has read.
LEMMA HeartbeatKeepsInv ==
  ASSUME UploadsInv, Heartbeat
  PROVE  UploadsInv'
<1> DEFINE id == config.id
           seen == config.seen[id]
           new == [page[config.page] EXCEPT !.at = "look"]
<1>1. /\ UploadsTypeOK /\ seen \in ManifestState /\ id \in UploadId /\ config.page \in Page /\ ~Gone(seen)
      /\ ~Locked(id) /\ id <= events.creates /\ (id \notin mislaid => manifest[id].status = seen.status)
      /\ config' = Unlocked /\ UNCHANGED <<part, thread, conversions, worker, deferred, events, mislaid>>
      /\ manifest' = [manifest EXCEPT ![id] = seen]
  BY UnderConfigLock DEF Heartbeat, Releases, Writes
<1>2. page' \in [Page -> PageState]
  <2>1. page[config.page] \in PageState
    BY <1>1 DEF UploadsTypeOK
  <2>2. page[config.page].at = "turn" => new \in PageState
    BY <2>1 DEF PageState
  <2>3. page' = [page EXCEPT ![config.page] = IF page[config.page].at = "turn" THEN new ELSE page[config.page]]
    BY DEF Heartbeat
  <2> HIDE DEF new
  <2> QED BY <1>1, <2>1, <2>2, <2>3 DEF UploadsTypeOK
<1>3. manifest' \in [UploadId -> ManifestState] /\ manifest'[id] = seen /\ \A i \in UploadId : i # id => manifest'[i] = manifest[i]
  BY <1>1 DEF UploadsTypeOK
<1>4. ASSUME NEW i \in UploadId PROVE Released(i)
  <2>1. CASE i = id
    BY <1>1, <1>3, <2>1 DEF Released, Gone, Waits, Queued
  <2>2. CASE i # id
    BY <1>1, <1>3, <2>2, UntouchedIsReleased, UploadsAssumption DEF Queued, UploadsTypeOK
  <2> QED BY <2>1, <2>2
<1> QED BY <1>1, <1>2, <1>3, <1>4, ReleaseKeepsInv, UploadsAssumption DEF UploadsTypeOK

\* The page learns which upload is its own.
LEMMA AnsweredKeepsPages ==
  ASSUME UploadsTypeOK, NEW p \in Page, page[p].at = "create", NEW id \in UploadId, NEW offset \in 0..Size,
         Answered(p, id, offset)
  PROVE  page' \in [Page -> PageState]
<1> DEFINE new == [page[p] EXCEPT !.at = "turn", !.id = id, !.offset = offset]
<1>1. page[p] \in PageState /\ id # NoId
  BY UploadsAssumption DEF UploadsTypeOK, UploadId, NoId
<1>2. new \in PageState
  BY <1>1 DEF PageState
<1>3. page' = [page EXCEPT ![p] = new]
  BY <1>1 DEF Answered, UploadsTypeOK
<1> HIDE DEF new
<1> QED BY <1>2, <1>3 DEF UploadsTypeOK

LEMMA ReservedKeepsInv ==
  ASSUME UploadsInv, config.op = "create", NEW f \in File, Reserved(f), Releases,
         UNCHANGED <<part, thread, worker, deferred>>
  PROVE  UploadsInv'
<1> DEFINE id == events.creates + 1
           new == [file |-> f, status |-> "uploading", transfer |-> Slot(config.seen)]
<1>1. /\ UploadsTypeOK /\ config.page \in Page /\ page[config.page].at = "create"
      /\ events.all < MaxEvents /\ events' = [all |-> events.all + 1, creates |-> id]
      /\ manifest' = [manifest EXCEPT ![id] = new] /\ UNCHANGED <<conversions, mislaid>>
  BY UnderConfigLock DEF Reserved, Writes, UploadsTypeOK
<1>2. /\ id \in UploadId /\ events.creates \in Nat
      /\ events' \in [all : 0..MaxEvents, creates : 0..MaxEvents]
      /\ events'.creates = id /\ events'.creates <= events'.all
  <2>1. /\ events.all \in 0..MaxEvents /\ events.creates \in 0..MaxEvents
        /\ events.creates <= events.all /\ events.all < MaxEvents
    BY <1>1 DEF UploadsTypeOK
  <2>2. id \in UploadId /\ events.all + 1 \in 0..MaxEvents /\ id \in 0..MaxEvents /\ id <= events.all + 1
    BY <2>1, UploadsAssumption DEF UploadId
  <2> QED BY <1>1, <2>1, <2>2
<1>3. new \in ManifestState /\ ~Gone(new) /\ new.status = "uploading"
  BY UploadsAssumption DEF ManifestState, Gone, Slot
<1> HIDE DEF new
<1>4. manifest' \in [UploadId -> ManifestState] /\ manifest'[id] = new /\ \A i \in UploadId : i # id => manifest'[i] = manifest[i]
  BY <1>1, <1>2, <1>3 DEF UploadsTypeOK
<1>5. page' \in [Page -> PageState]
  BY <1>1, <1>2, AnsweredKeepsPages, UploadsAssumption DEF Reserved
<1>6. ASSUME NEW i \in UploadId PROVE Released(i)
  <2>1. CASE i = id
    BY <1>1, <1>2, <1>3, <1>4, <2>1 DEF Released, Waits, Queued
  <2>2. CASE i # id
    BY <1>1, <1>2, <1>4, <2>2, UntouchedIsReleased DEF Queued
  <2> QED BY <2>1, <2>2
<1> QED BY <1>1, <1>2, <1>4, <1>5, <1>6, ReleaseKeepsInv DEF UploadsTypeOK, Releases

LEMMA ReconnectedKeepsInv ==
  ASSUME UploadsInv, config.op = "create", NEW id \in UploadId, ~Gone(config.seen[id]), Reconnected(id), Releases,
         UNCHANGED <<part, thread, worker, deferred>>
  PROVE  UploadsInv'
<1> DEFINE seen == config.seen[id]
           turned == [seen EXCEPT !.status = "uploading", !.transfer = Slot(config.seen)]
           again == IF seen.status # "paused" THEN seen ELSE turned
           ready == Full(id) /\ again.status \in {"error", "uploading"}
           chosen == [again EXCEPT !.status = IF @ = "error" THEN "queued" ELSE "validating"]
           now == IF ready THEN chosen ELSE again
<1>1. /\ UploadsTypeOK /\ seen \in ManifestState /\ config.page \in Page /\ page[config.page].at = "create"
      /\ manifest' = [manifest EXCEPT ![id] = IF ~ready THEN again ELSE chosen]
      /\ conversions' = (IF ready THEN Enqueued(id) ELSE conversions)
      /\ mislaid' = (IF manifest[id] # seen \/ (ready /\ LettingGo(id)) THEN mislaid \cup {id} ELSE mislaid)
      /\ UNCHANGED events /\ id <= events.creates /\ events.creates \in Nat
  BY UnderConfigLock, UploadsAssumption DEF Reconnected, Writes, UploadsTypeOK
<1>2. turned \in ManifestState /\ turned.status = "uploading"
  BY <1>1 DEF ManifestState, Gone, Slot
<1>3. again \in ManifestState /\ ~Gone(again) /\ (again.status \in {"queued", "validating"} => again = seen)
  BY <1>1, <1>2 DEF Gone
<1> HIDE DEF turned, again
<1>4. ready => chosen \in ManifestState /\ chosen.status \in {"queued", "validating"}
  BY <1>3 DEF ManifestState, Gone
<1> HIDE DEF chosen
<1>5. now \in ManifestState /\ ~Gone(now) /\ manifest' = [manifest EXCEPT ![id] = now]
  BY <1>1, <1>3, <1>4 DEF Gone
<1>6. manifest' \in [UploadId -> ManifestState] /\ manifest'[id] = now /\ \A i \in UploadId : i # id => manifest'[i] = manifest[i]
  BY <1>1, <1>5 DEF UploadsTypeOK
<1>7. /\ conversions' \in Seq(UploadId) /\ Range(conversions) \subseteq Range(conversions')
      /\ Range(conversions') \subseteq Range(conversions) \cup {id}
      /\ ready => id \in Range(conversions') \/ worker.id = id
      /\ ~ready => conversions' = conversions
  BY <1>1, EnqueuedKeeps DEF UploadsTypeOK
<1>8. page' \in [Page -> PageState]
  <2>1. Len(part[id]) \in 0..Size
    BY <1>1, UploadsAssumption DEF UploadsTypeOK
  <2> QED BY <1>1, <2>1, AnsweredKeepsPages DEF Reconnected
<1>9. worker.id = id => worker = [at |-> "work", id |-> id] \/ LettingGo(id)
  <2>1. id # NoId
    BY UploadsAssumption DEF UploadId, NoId
  <2> QED BY <1>1, <2>1 DEF UploadsTypeOK, LettingGo
<1>10. ASSUME NEW i \in UploadId PROVE Released(i)
  <2>1. CASE i = id
    <3>1. id \notin mislaid' => manifest[id] = seen /\ ~(ready /\ LettingGo(id))
      BY <1>1
    <3>2. id \in Range(conversions') => id \in Queued \/ ready
      BY <1>7 DEF Queued
    <3>3. id \notin mislaid' /\ manifest'[id].status \in {"queued", "validating"} =>
            \/ Waits(id)
            \/ Full(id) /\ (id \in Range(conversions') \/ worker = [at |-> "work", id |-> id])
      <4>1. CASE ready
        BY <1>7, <1>9, <3>1, <4>1
      <4>2. CASE ~ready
        <5>1. now = again
          BY <4>2
        <5> HIDE DEF now, ready
        <5>2. manifest'[id].status \in {"queued", "validating"} => again.status \in {"queued", "validating"}
          BY <1>6, <5>1 DEF Waits
        <5>3. again = seen /\ id \notin mislaid' => again = manifest[id]
          BY <3>1
        <5>4. ASSUME manifest'[id].status \in {"queued", "validating"}, id \notin mislaid'
              PROVE  Waits(id)
          BY <1>3, <5>2, <5>3, <5>4 DEF Waits
        <5> QED BY <5>4
      <4> QED BY <4>1, <4>2
    <3> HIDE DEF now
    <3> QED BY <1>1, <1>5, <1>6, <1>7, <2>1, <3>1, <3>2, <3>3 DEF Released
  <2>2. CASE i # id
    BY <1>1, <1>6, <1>7, <2>2, UntouchedIsReleased DEF Queued
  <2> QED BY <2>1, <2>2
<1>11. mislaid \subseteq mislaid' /\ mislaid' \subseteq UploadId
  BY <1>1 DEF UploadsTypeOK
<1> HIDE DEF now, ready
<1> QED BY <1>1, <1>6, <1>7, <1>8, <1>10, <1>11, ReleaseKeepsInv DEF UploadsTypeOK, Releases

LEMMA CreatedKeepsInv ==
  ASSUME UploadsInv, Created
  PROVE  UploadsInv'
<1> DEFINE f == page[config.page].file
<1>1. /\ config.op = "create" /\ Releases /\ UNCHANGED <<part, thread, worker, deferred>>
      /\ UploadsTypeOK /\ config.page \in Page /\ page[config.page] \in PageState
      /\ page[config.page].at = "create"
  BY UnderConfigLock DEF Created, UploadsTypeOK
<1>2. f \in File
  BY <1>1 DEF PageState
<1>3. CASE \E id \in Resumable(f) : Reconnected(id)
  BY <1>1, <1>3, ReconnectedKeepsInv DEF Resumable
<1>4. CASE GivesUp(config.page) /\ UNCHANGED <<manifest, conversions, events, mislaid>>
  <2>1. page' \in [Page -> PageState]
    BY <1>1, <1>4, RestingPage DEF GivesUp, UploadsTypeOK
  <2>2. \A i \in UploadId : Released(i)
    BY <1>1, <1>4, UntouchedIsReleased, UploadsAssumption DEF UploadsTypeOK, Queued
  <2> QED BY <1>1, <1>4, <2>1, <2>2, ReleaseKeepsInv, UploadsAssumption DEF UploadsTypeOK, Releases
<1>5. CASE Reserved(f)
  BY <1>1, <1>2, <1>5, ReservedKeepsInv
<1> QED BY <1>3, <1>4, <1>5 DEF Created

(* ------------------------------------------------------------------------ *)
(* What the owner does.                                                       *)

\* The facts every one of these steps begins with.
LEMMA OwnerFacts ==
  ASSUME UploadsInv, NEW op \in {"start", "pause", "resume", "retry", "cancel"}, config.op = op
  PROVE  /\ UploadsTypeOK /\ config.id \in UploadId /\ config.seen[config.id] \in ManifestState
         /\ ~Locked(config.id) /\ Permitted(op, config.seen[config.id].status)
         /\ events.creates \in Nat
         /\ events \in [all : 0..MaxEvents, creates : 0..MaxEvents] /\ events.creates <= events.all
         /\ config.id \notin mislaid => manifest[config.id].status = config.seen[config.id].status
         /\ \A i \in UploadId : ~Gone(config.seen[i]) => i <= events.creates
BY UnderConfigLock, UploadsAssumption DEF UploadsTypeOK

\* A step that changes one manifest, and leaves the rest as far as status goes.
LEMMA OwnerStepKeepsInv ==
  ASSUME UploadsInv, config.op \in {"start", "pause", "resume", "retry", "cancel"}, Releases,
         UNCHANGED <<page, thread, worker, events>>,
         manifest' \in [UploadId -> ManifestState], part' \in [UploadId -> Seq(Nat)],
         conversions' \in Seq(UploadId), deferred' \subseteq UploadId,
         mislaid \subseteq mislaid', mislaid' \subseteq UploadId,
         Range(conversions) \subseteq Range(conversions'),
         Range(conversions') \subseteq Range(conversions) \cup {config.id},
         \A i \in UploadId : i # config.id =>
           /\ part'[i] = part[i] /\ (i \in deferred' <=> i \in deferred)
           /\ manifest'[i].status = manifest[i].status,
         Released(config.id)
  PROVE  UploadsInv'
<1>1. config.id \in UploadId /\ UploadsTypeOK /\ events.creates \in Nat /\ events.creates <= events.all
      /\ events \in [all : 0..MaxEvents, creates : 0..MaxEvents]
  BY OwnerFacts
<1>2. ASSUME NEW i \in UploadId, i # config.id PROVE Released(i)
  BY <1>1, <1>2, UntouchedIsReleased DEF Queued
<1>3. \A i \in UploadId : Released(i)
  BY <1>2
<1> QED BY <1>1, <1>3, ReleaseKeepsInv DEF UploadsTypeOK, Releases

LEMMA OwnerPausesKeepsInv ==
  ASSUME UploadsInv, OwnerPauses(config.id, config.seen[config.id]), Releases,
         UNCHANGED <<page, thread, worker, events>>
  PROVE  UploadsInv'
<1> DEFINE id == config.id
           new == [config.seen[id] EXCEPT !.status = "paused", !.transfer = "paused"]
           paused == [manifest EXCEPT ![id] = new]
<1>1. /\ config.op = "pause" /\ UploadsTypeOK /\ id \in UploadId /\ config.seen[id] \in ManifestState
      /\ config.seen[id].status \in {"uploading", "queued"} /\ events.creates \in Nat /\ id <= events.creates
      /\ id \notin mislaid => manifest[id].status = config.seen[id].status
      /\ manifest' = Promoted(paused) /\ UNCHANGED <<part, conversions, deferred, mislaid>>
  BY OwnerFacts DEF OwnerPauses, Permitted, Gone
<1>2. new \in ManifestState /\ new.status = "paused"
  BY <1>1 DEF ManifestState, Gone
<1> HIDE DEF new
<1>3. paused \in [UploadId -> ManifestState] /\ paused[id] = new /\ \A i \in UploadId : i # id => paused[i] = manifest[i]
  BY <1>1, <1>2 DEF UploadsTypeOK
<1> HIDE DEF paused
<1>4. /\ manifest' \in [UploadId -> ManifestState] /\ manifest'[id].status = "paused"
      /\ \A i \in UploadId : i # id => manifest'[i].status = manifest[i].status
  BY <1>1, <1>2, <1>3, PromotedKeeps
<1>5. Released(id)
  <2>1. ~Gone(manifest'[id]) /\ manifest'[id].status \notin {"queued", "validating"}
    BY <1>4 DEF Gone, Waits
  <2>2. id \notin mislaid => ~Gone(manifest[id])
    BY <1>1 DEF Gone
  <2> QED BY <1>1, <2>1, <2>2 DEF Released, Queued
<1> QED BY <1>1, <1>4, <1>5, OwnerStepKeepsInv DEF UploadsTypeOK

LEMMA OwnerResumesKeepsInv ==
  ASSUME UploadsInv, OwnerResumes(config.id, config.seen[config.id]), Releases,
         UNCHANGED <<page, thread, worker, events>>
  PROVE  UploadsInv'
<1> DEFINE id == config.id
           queued == [config.seen[id] EXCEPT !.status = "queued"]
           turned == [config.seen[id] EXCEPT !.status = "uploading", !.transfer = Slot(config.seen)]
           now == IF Full(id) THEN queued ELSE turned
<1>1. /\ config.op = "resume" /\ UploadsTypeOK /\ id \in UploadId /\ config.seen[id] \in ManifestState
      /\ config.seen[id].status = "paused" /\ events.creates \in Nat /\ id <= events.creates
      /\ id \notin mislaid => manifest[id].status = config.seen[id].status
      /\ ~Locked(id) /\ manifest' = [manifest EXCEPT ![id] = now] /\ UNCHANGED <<part, deferred>>
      /\ conversions' = (IF Full(id) THEN Enqueued(id) ELSE conversions)
      /\ mislaid' = (IF Full(id) /\ LettingGo(id) THEN mislaid \cup {id} ELSE mislaid)
  BY OwnerFacts DEF OwnerResumes, Permitted, Gone, Writes
<1>2. /\ queued \in ManifestState /\ queued.status = "queued"
      /\ turned \in ManifestState /\ turned.status = "uploading"
  BY <1>1 DEF ManifestState, Gone, Slot
<1> HIDE DEF queued, turned
<1>3. now \in ManifestState /\ ~Gone(now) /\ (now.status \in {"queued", "validating"} => Full(id))
  BY <1>2 DEF Gone
<1> HIDE DEF now
<1>4. manifest' \in [UploadId -> ManifestState] /\ manifest'[id] = now /\ \A i \in UploadId : i # id => manifest'[i] = manifest[i]
  BY <1>1, <1>3 DEF UploadsTypeOK
<1>5. /\ conversions' \in Seq(UploadId) /\ Range(conversions) \subseteq Range(conversions')
      /\ Range(conversions') \subseteq Range(conversions) \cup {id}
      /\ Full(id) => id \in Range(conversions') \/ worker.id = id
      /\ ~Full(id) => conversions' = conversions
  BY <1>1, EnqueuedKeeps DEF UploadsTypeOK
<1>6. worker.id = id => LettingGo(id)
  <2>1. id # NoId /\ worker # [at |-> "work", id |-> id]
    BY <1>1, UploadsAssumption DEF UploadId, NoId, Locked
  <2> QED BY <1>1, <2>1 DEF UploadsTypeOK, LettingGo
<1>7. mislaid \subseteq mislaid' /\ mislaid' \subseteq UploadId
  BY <1>1 DEF UploadsTypeOK
<1>8. Released(id)
  <2>1. id \notin mislaid' /\ Full(id) => id \in Range(conversions')
    BY <1>1, <1>5, <1>6
  <2>2. id \notin mislaid' => ~Gone(manifest[id])
    BY <1>1, <1>7 DEF Gone
  <2>3. id \in Range(conversions') => id \in Queued \/ Full(id)
    BY <1>5 DEF Queued
  <2>4. id \notin mislaid' /\ manifest'[id].status \in {"queued", "validating"} => Full(id)
    BY <1>3, <1>4 DEF Waits
  <2> QED BY <1>1, <1>3, <1>4, <1>5, <2>1, <2>2, <2>3, <2>4 DEF Released
<1> QED BY <1>1, <1>4, <1>5, <1>7, <1>8, OwnerStepKeepsInv DEF UploadsTypeOK

LEMMA OwnerRetriesKeepsInv ==
  ASSUME UploadsInv, OwnerRetries(config.id, config.seen[config.id]), Releases,
         UNCHANGED <<page, thread, worker, events>>
  PROVE  UploadsInv'
<1> DEFINE id == config.id
           now == [config.seen[id] EXCEPT !.status = "queued"]
<1>1. /\ config.op = "retry" /\ UploadsTypeOK /\ id \in UploadId /\ config.seen[id] \in ManifestState
      /\ config.seen[id].status = "error" /\ events.creates \in Nat /\ id <= events.creates
      /\ id \notin mislaid => manifest[id].status = config.seen[id].status
      /\ UNCHANGED <<part, mislaid>>
  BY OwnerFacts DEF OwnerRetries, Permitted, Gone
<1>2. CASE Full(id)
  <2>1. /\ manifest' = [manifest EXCEPT ![id] = now] /\ conversions' = Enqueued(id)
        /\ deferred' = (IF id \in Queued THEN deferred \cup {id} ELSE deferred)
    BY <1>2 DEF OwnerRetries, Writes, Deferred
  <2>2. now \in ManifestState /\ now.status = "queued" /\ ~Gone(now)
    BY <1>1 DEF ManifestState, Gone
  <2> HIDE DEF now
  <2>3. manifest' \in [UploadId -> ManifestState] /\ manifest'[id] = now /\ \A i \in UploadId : i # id => manifest'[i] = manifest[i]
    BY <1>1, <2>1, <2>2 DEF UploadsTypeOK
  <2>4. /\ conversions' \in Seq(UploadId) /\ Range(conversions) \subseteq Range(conversions')
        /\ Range(conversions') \subseteq Range(conversions) \cup {id}
        /\ id \in Range(conversions') \/ worker.id = id
    BY <1>1, <2>1, EnqueuedKeeps DEF UploadsTypeOK
  <2>5. id \in Range(conversions') \cup deferred'
    BY <2>1, <2>4 DEF Queued
  <2>6. deferred' \subseteq UploadId /\ deferred' \subseteq deferred \cup {id} /\ deferred \subseteq deferred'
    BY <1>1, <2>1 DEF UploadsTypeOK
  <2>7. Released(id)
    <3>1. id \notin mislaid' => ~Gone(manifest[id])
      BY <1>1 DEF Gone
    <3> QED BY <1>1, <1>2, <2>2, <2>3, <2>4, <2>5, <2>6, <3>1 DEF Released
  <2> QED BY <1>1, <2>3, <2>4, <2>6, <2>7, OwnerStepKeepsInv DEF UploadsTypeOK
<1>3. CASE ~Full(id)
  <2>1. UNCHANGED <<manifest, conversions, deferred>>
    BY <1>3 DEF OwnerRetries
  <2>2. Released(id)
    BY <1>1, <2>1, UntouchedIsReleased DEF Queued
  <2> QED BY <1>1, <2>1, <2>2, OwnerStepKeepsInv DEF UploadsTypeOK
<1> QED BY <1>2, <1>3

LEMMA OwnerCancelsKeepsInv ==
  ASSUME UploadsInv, OwnerCancels(config.id, config.seen[config.id]), Releases,
         UNCHANGED <<page, thread, worker, events>>
  PROVE  UploadsInv'
<1> DEFINE id == config.id
           left == [manifest EXCEPT ![id] = Absent]
<1>1. /\ config.op = "cancel" /\ UploadsTypeOK /\ id \in UploadId /\ ~Locked(id) /\ events.creates \in Nat
      /\ manifest' = Promoted(left) \/ manifest' = left
      /\ part' = [part EXCEPT ![id] = <<>>] /\ deferred' = deferred \ {id} /\ UNCHANGED <<conversions, mislaid>>
  BY OwnerFacts DEF OwnerCancels
<1>2. left \in [UploadId -> ManifestState] /\ left[id] = Absent /\ \A i \in UploadId : i # id => left[i] = manifest[i]
  BY <1>1, FreeThreadState DEF UploadsTypeOK
<1> HIDE DEF left
<1>3. /\ manifest' \in [UploadId -> ManifestState] /\ manifest'[id].status = "absent"
      /\ \A i \in UploadId : i # id => manifest'[i].status = manifest[i].status
  <2>1. Absent.status = "absent"
    BY DEF Absent
  <2> QED BY <1>1, <1>2, <2>1, PromotedKeeps
<1>4. part' \in [UploadId -> Seq(Nat)] /\ part'[id] = <<>> /\ \A i \in UploadId : i # id => part'[i] = part[i]
  BY <1>1 DEF UploadsTypeOK
<1>5. Released(id)
  <2>1. Gone(manifest'[id]) /\ manifest'[id].status \notin {"queued", "validating"}
    BY <1>3 DEF Gone, Waits
  <2> QED BY <1>1, <1>4, <2>1 DEF Released, Queued
<1> QED BY <1>1, <1>3, <1>4, <1>5, OwnerStepKeepsInv DEF UploadsTypeOK

LEMMA OwnerStartsKeepsInv ==
  ASSUME UploadsInv, OwnerStarts(config.id, config.seen[config.id]), Releases,
         UNCHANGED <<page, thread, worker, events>>
  PROVE  UploadsInv'
<1> DEFINE id == config.id
           mine == [config.seen[id] EXCEPT !.status = "uploading", !.transfer = "active"]
           theirs(i) == [config.seen[i] EXCEPT !.status = "paused", !.transfer = "paused"]
<1>1. /\ config.op = "start" /\ UploadsTypeOK /\ id \in UploadId /\ config.seen[id] \in ManifestState
      /\ config.seen[id].status \in {"uploading", "paused"} /\ events.creates \in Nat /\ id <= events.creates
      /\ id \notin mislaid => manifest[id].status = config.seen[id].status
      /\ \A i \in UploadId : ~Gone(config.seen[i]) => i <= events.creates
      /\ UNCHANGED <<part, conversions, deferred>>
      /\ manifest' = [i \in UploadId |-> IF i = id THEN mine
                                         ELSE IF Transfers(config.seen[i]) THEN theirs(i) ELSE manifest[i]]
      /\ mislaid' = mislaid \cup {i \in UploadId \ {id} : Transfers(config.seen[i]) /\ manifest[i] # config.seen[i]}
  BY OwnerFacts DEF OwnerStarts, Permitted, Gone
<1>2. config.seen \in [UploadId -> ManifestState]
  BY <1>1 DEF UploadsTypeOK, ConfigState
<1>3. mine \in ManifestState /\ mine.status = "uploading"
  BY <1>1 DEF ManifestState, Gone
<1>4. ASSUME NEW i \in UploadId, Transfers(config.seen[i])
      PROVE  theirs(i) \in ManifestState /\ theirs(i).status = "paused" /\ config.seen[i].status = "uploading"
  <2>1. config.seen[i] \in ManifestState
    BY <1>2
  <2> QED BY <1>4, <2>1 DEF ManifestState, Gone, Transfers
<1> HIDE DEF mine, theirs
<1>5. manifest' \in [UploadId -> ManifestState]
  BY <1>1, <1>3, <1>4 DEF UploadsTypeOK
<1>6. mislaid \subseteq mislaid' /\ mislaid' \subseteq UploadId
  BY <1>1 DEF UploadsTypeOK
<1>7. ASSUME NEW i \in UploadId PROVE Released(i)
  <2>1. CASE i = id
    <3>1. manifest'[i].status = "uploading"
      BY <1>1, <1>3, <2>1
    <3>2. i \notin mislaid' => ~Gone(manifest[i])
      BY <1>1, <1>6, <2>1 DEF Gone
    <3> QED BY <1>1, <2>1, <3>1, <3>2 DEF Released, Gone, Waits, Queued
  <2>2. CASE i # id /\ Transfers(config.seen[i])
    <3>1. manifest'[i].status = "paused" /\ i <= events.creates
      BY <1>1, <1>4, <2>2 DEF Gone
    <3>2. i \notin mislaid' => ~Gone(manifest[i])
      BY <1>1, <1>4, <2>2 DEF Gone
    <3> QED BY <1>1, <3>1, <3>2 DEF Released, Gone, Waits, Queued
  <2>3. CASE i # id /\ ~Transfers(config.seen[i])
    <3>1. manifest'[i] = manifest[i]
      BY <1>1, <2>3
    <3> QED BY <1>1, <1>6, <3>1, UntouchedIsReleased DEF Queued
  <2> QED BY <2>1, <2>2, <2>3
<1> QED BY <1>1, <1>5, <1>6, <1>7, ReleaseKeepsInv DEF UploadsTypeOK, Releases

LEMMA OwnerDoesKeepsInv ==
  ASSUME UploadsInv, OwnerDoes
  PROVE  UploadsInv'
BY OwnerStartsKeepsInv, OwnerPausesKeepsInv, OwnerResumesKeepsInv, OwnerRetriesKeepsInv,
   OwnerCancelsKeepsInv
   DEF OwnerDoes

(* ------------------------------------------------------------------------ *)
(* The worker and the restart.                                                *)

LEMMA WorkerTakesKeepsInv ==
  ASSUME UploadsInv, WorkerTakes
  PROVE  UploadsInv'
<1> DEFINE id == Head(conversions)
<1>1. /\ worker = NoWork /\ conversions # <<>> /\ ~Locked(id) /\ ~HeldByAction(id) /\ UploadsTypeOK
      /\ conversions' = Tail(conversions)
      /\ worker' = [at |-> IF Gone(manifest[id]) THEN "finish" ELSE "work", id |-> id]
      /\ UNCHANGED <<manifest, part, page, thread, config, deferred, events, mislaid>>
  BY DEF UploadsInv, WorkerTakes
<1>2. /\ conversions' \in Seq(UploadId) /\ id \in UploadId
      /\ Range(conversions) = {id} \cup Range(conversions')
  BY <1>1, TailKeeps DEF UploadsTypeOK
<1>3. worker'.id = id /\ worker'.at \in {"work", "finish"} /\ (worker'.at = "work" => ~Gone(manifest[id]))
      /\ worker' \in [at : {"idle", "work", "finish"}, id : UploadId \cup {NoId}] /\ id # NoId
  BY <1>1, <1>2, UploadsAssumption DEF UploadId, NoId
<1>4. worker.id = NoId /\ worker.at = "idle" /\ Queued' = Range(conversions) /\ Queued' \subseteq Queued
  BY <1>1, <1>2, <1>3 DEF NoWork, Queued
<1>5. UploadsTypeOK'
  BY <1>1, <1>2, <1>3 DEF UploadsTypeOK
<1>6. \A h \in Thread : ~Holding(h, id)
  BY <1>1 DEF Locked, Holding
<1>7. \A i \in UploadId : (worker' = [at |-> "work", id |-> i] => i = id /\ ~Gone(manifest[i]))
                          /\ (worker' = [at |-> "finish", id |-> i] => i = id)
  BY <1>3
<1>8. LocksExclude'
  <2>1. \A h \in Thread, i \in UploadId : Holding(h, i)' => Holding(h, i)
    BY <1>1 DEF Holding
  <2>2. \A i \in UploadId : HeldByAction(i)' => ~Locked(i)'
    BY <1>1, <1>7 DEF UploadsInv, LocksExclude, HeldByAction, Locked
  <2> QED BY <1>6, <1>7, <2>1, <2>2 DEF UploadsInv, LocksExclude
<1>9. ChunkIsInPlace' /\ HeldKeepsItsStatus' /\ PartIsABeginning'
  BY <1>1 DEF UploadsInv, ChunkIsInPlace, Full, Gone, HeldKeepsItsStatus, HeldByAction, PartIsABeginning
<1>10. IdsAreFresh'
  BY <1>1, <1>4 DEF UploadsInv, IdsAreFresh, Gone
<1>11. ReceivedIsFull'
  BY <1>1, <1>4, <1>7 DEF UploadsInv, ReceivedIsFull, Waits, Full, Gone
<1>12. NoChunkWhileLettingGo'
  BY <1>1, <1>6, <1>7 DEF NoChunkWhileLettingGo, LettingGo, Holding
<1>13. ReceivedIsPrepared'
  <2>1. ReceivedIsPrepared
    BY DEF UploadsInv
  <2> SUFFICES ASSUME NEW i \in UploadId, Waits(i), i \notin mislaid
               PROVE  \/ i \in Range(conversions') \cup deferred
                      \/ worker' = [at |-> "work", id |-> i]
                      \/ \E h \in Thread : thread[h].id = i /\ thread[h].at = "enqueue"
    BY <1>1 DEF ReceivedIsPrepared, Waits
  <2>2. CASE i = id
    <3>1. ~Gone(manifest[id])
      BY <2>2 DEF Waits, Gone
    <3> QED BY <1>1, <2>2, <3>1
  <2>3. CASE i # id
    <3>1. worker # [at |-> "work", id |-> i]
      BY <1>4
    <3> QED BY <1>2, <2>1, <2>3, <3>1 DEF ReceivedIsPrepared, Waits
  <2> QED BY <2>2, <2>3
<1> QED BY <1>5, <1>8, <1>9, <1>10, <1>11, <1>12, <1>13 DEF UploadsInv

LEMMA WorkerEndsKeepsInv ==
  ASSUME UploadsInv, WorkerEnds
  PROVE  UploadsInv'
<1> DEFINE id == worker.id
<1>1. /\ worker.at = "work" /\ UploadsTypeOK /\ id \in UploadId
      /\ worker = [at |-> "work", id |-> id] /\ Locked(id) /\ ~HeldByAction(id)
      /\ \A h \in Thread : ~Holding(h, id)
      /\ UNCHANGED <<page, thread, config, conversions, deferred, mislaid>>
  <2>1. id \in UploadId
    BY DEF UploadsInv, UploadsTypeOK, WorkerEnds
  <2>2. worker = [at |-> "work", id |-> id]
    BY DEF UploadsInv, UploadsTypeOK, WorkerEnds
  <2> QED BY <2>1, <2>2 DEF UploadsInv, LocksExclude, Locked, WorkerEnds
<1>2. worker' = [worker EXCEPT !.at = "finish"]
  BY DEF WorkerEnds
<1>3. /\ worker'.at = "finish" /\ worker'.id = id
      /\ worker' \in [at : {"idle", "work", "finish"}, id : UploadId \cup {NoId}] /\ id # NoId
  BY <1>1, <1>2 DEF UploadsTypeOK
<1> DEFINE Ends == {"complete", "failed", "error", "waiting-laptop"}
           Kept == {"error", "waiting-laptop"}
<1>4. PICK status \in Ends :
        /\ status = "complete" \/ Eventful
        /\ status = "complete" => UNCHANGED events
        /\ manifest' = [manifest EXCEPT ![id].status = status,
                                        ![id].transfer = IF status \in Kept THEN @ ELSE "complete"]
        /\ part' = IF status \in Kept THEN part ELSE [part EXCEPT ![id] = <<>>]
  BY DEF WorkerEnds
<1>5. /\ events' \in [all : 0..MaxEvents, creates : 0..MaxEvents]
      /\ events'.creates = events.creates /\ events'.creates <= events'.all
  <2>1. CASE UNCHANGED events
    BY <1>1, <2>1 DEF UploadsTypeOK
  <2>2. CASE Eventful
    <3>1. events.creates \in Nat /\ events.all \in Nat /\ events.creates <= events.all
      BY <1>1, UploadsAssumption DEF UploadsTypeOK
    <3>2. /\ events' \in [all : 0..MaxEvents, creates : 0..MaxEvents]
          /\ events'.creates = events.creates /\ events.all <= events'.all
      BY <1>1, <2>2, EventfulCounts
    <3>3. events'.all \in Nat
      BY <3>2, UploadsAssumption
    <3> QED BY <3>1, <3>2, <3>3
  <2> QED BY <1>4, <2>1, <2>2
<1> DEFINE new == [manifest[id] EXCEPT !.status = status, !.transfer = IF status \in Kept THEN @ ELSE "complete"]
<1>6. new \in ManifestState /\ new.status = status
  <2>1. ~Gone(manifest[id])
    BY <1>1 DEF UploadsInv, ReceivedIsFull
  <2>2. manifest[id] \in ManifestState
    BY <1>1 DEF UploadsTypeOK
  <2> QED BY <2>1, <2>2 DEF ManifestState, Gone
<1>7. manifest' = [manifest EXCEPT ![id] = new]
  BY <1>1, <1>4 DEF UploadsTypeOK
<1> HIDE DEF new
<1>8. /\ manifest' \in [UploadId -> ManifestState] /\ manifest'[id].status \in Ends
      /\ \A i \in UploadId : i # id => manifest'[i] = manifest[i]
  BY <1>1, <1>6, <1>7 DEF UploadsTypeOK
<1>9. /\ part' \in [UploadId -> Seq(Nat)] /\ \A i \in UploadId : i # id => part'[i] = part[i]
      /\ part'[id] = part[id] \/ (part'[id] = <<>> /\ Gone(manifest'[id]))
  BY <1>1, <1>4, <1>6, <1>7 DEF UploadsTypeOK, Gone
<1>10. UploadsTypeOK'
  <2>1. \A i \in UploadId : Len(part'[i]) <= Size
    <3>1. Len(<<>>) <= Size
      BY UploadsAssumption
    <3>2. \A i \in UploadId : part'[i] = part[i] \/ part'[i] = <<>>
      BY <1>9
    <3>3. \A i \in UploadId : Len(part[i]) <= Size
      BY <1>1 DEF UploadsTypeOK
    <3> QED BY <3>1, <3>2, <3>3
  <2> QED BY <1>1, <1>3, <1>5, <1>8, <1>9, <2>1 DEF UploadsTypeOK
<1>11. \A i \in UploadId : worker' # [at |-> "work", id |-> i] /\ (LettingGo(i)' => i = id)
  BY <1>3 DEF LettingGo
<1>12. LocksExclude'
  <2>1. \A h \in Thread, i \in UploadId : Holding(h, i)' => Holding(h, i)
    BY <1>1 DEF Holding
  <2>2. \A i \in UploadId : Locked(i)' => Locked(i)
    BY <1>1, <1>11 DEF Locked
  <2> QED BY <1>1, <1>11, <2>1, <2>2 DEF UploadsInv, LocksExclude, HeldByAction
<1>13. ChunkIsInPlace'
  <2>1. ChunkIsInPlace
    BY DEF UploadsInv
  <2>2. \A h \in Thread : thread[h].at \in {"write", "save", "enqueue"} => thread[h].id # id /\ thread[h].id \in UploadId
    BY <1>1, ThreadFields DEF Holding
  <2> QED BY <1>1, <1>8, <1>9, <2>1, <2>2 DEF ChunkIsInPlace, Full, Gone
<1>14. Queued' = Queued
  BY <1>1, <1>3 DEF Queued
<1>15. IdsAreFresh'
  <2>1. \A i \in UploadId : ~Gone(manifest[i]) => i <= events.creates
    BY DEF UploadsInv, IdsAreFresh
  <2>2. id <= events.creates
    BY <1>1, <2>1 DEF UploadsInv, ReceivedIsFull
  <2>3. \A i \in UploadId : ~Gone(manifest'[i]) => i <= events.creates
    BY <1>8, <2>1, <2>2
  <2> QED BY <1>1, <1>5, <1>14, <2>3 DEF UploadsInv, IdsAreFresh, Gone
<1>16. ReceivedIsFull'
  <2>1. ReceivedIsFull
    BY DEF UploadsInv
  <2> SUFFICES ASSUME NEW i \in UploadId \ mislaid
               PROVE  /\ manifest'[i].status \in {"queued", "validating"} => Len(part'[i]) = Size
                      /\ i \in Queued \cup deferred => Len(part'[i]) = Size \/ Gone(manifest'[i])
    BY <1>1, <1>11, <1>14 DEF ReceivedIsFull, Waits, Full, Gone
  <2>2. CASE i = id
    <3>1. id \in Queued
      BY DEF Queued
    <3>2. Full(id)
      BY <1>1, <2>1, <2>2, <3>1 DEF ReceivedIsFull
    <3> QED BY <1>8, <1>9, <2>2, <3>2 DEF Full
  <2>3. CASE i # id
    BY <1>8, <1>9, <2>1, <2>3 DEF ReceivedIsFull, Waits, Full
  <2> QED BY <2>2, <2>3
<1>17. NoChunkWhileLettingGo'
  BY <1>1, <1>11 DEF NoChunkWhileLettingGo, Holding
<1>18. HeldKeepsItsStatus'
  BY <1>1, <1>8 DEF UploadsInv, HeldKeepsItsStatus, HeldByAction
<1>19. PartIsABeginning'
  <2>1. <<>> = [k \in 1..Len(<<>>) |-> k]
    OBVIOUS
  <2> QED BY <1>9, <2>1 DEF UploadsInv, PartIsABeginning
<1>20. ReceivedIsPrepared'
  <2>1. ReceivedIsPrepared
    BY DEF UploadsInv
  <2> SUFFICES ASSUME NEW i \in UploadId, manifest'[i].status \in {"queued", "validating"}, i \notin mislaid
               PROVE  \/ i \in Range(conversions) \cup deferred
                      \/ \E h \in Thread : thread[h].id = i /\ thread[h].at = "enqueue"
    BY <1>1 DEF ReceivedIsPrepared
  <2>2. i # id
    BY <1>8
  <2> QED BY <1>8, <2>1, <2>2 DEF ReceivedIsPrepared
<1> QED BY <1>10, <1>12, <1>13, <1>15, <1>16, <1>17, <1>18, <1>19, <1>20 DEF UploadsInv

LEMMA WorkerFinishesKeepsInv ==
  ASSUME UploadsInv, WorkerFinishes
  PROVE  UploadsInv'
<1> DEFINE id == worker.id
           longer == Append(conversions, id)
<1>1. /\ worker.at = "finish" /\ UploadsTypeOK /\ id \in UploadId /\ worker' = NoWork
      /\ conversions' = (IF id \in deferred THEN longer ELSE conversions) /\ deferred' = deferred \ {id}
      /\ UNCHANGED <<manifest, part, page, thread, config, events, mislaid>>
  BY DEF UploadsInv, UploadsTypeOK, WorkerFinishes
<1>2. /\ longer \in Seq(UploadId) /\ Len(longer) = Len(conversions) + 1
      /\ \A k \in 1..Len(conversions) : longer[k] = conversions[k]
      /\ longer[Len(conversions) + 1] = id
  BY <1>1 DEF UploadsTypeOK
<1>3. DOMAIN longer = 1..(Len(conversions) + 1) /\ DOMAIN conversions = 1..Len(conversions) /\ Len(conversions) \in Nat
  BY <1>1, <1>2 DEF UploadsTypeOK
<1> HIDE DEF longer
<1>4. Range(longer) = Range(conversions) \cup {id}
  BY <1>2, <1>3 DEF Range
<1>5. conversions' \in Seq(UploadId) /\ Range(conversions') \cup deferred' \subseteq Range(conversions) \cup deferred
      /\ Range(conversions) \cup deferred \subseteq Range(conversions') \cup deferred'
  BY <1>1, <1>2, <1>4 DEF UploadsTypeOK
<1>6. /\ worker' \in [at : {"idle", "work", "finish"}, id : UploadId \cup {NoId}]
      /\ worker'.at = "idle" /\ worker'.id = NoId
      /\ \A i \in UploadId : worker' # [at |-> "work", id |-> i] /\ worker' # [at |-> "finish", id |-> i]
  BY <1>1 DEF NoWork
<1>7. UploadsTypeOK'
  BY <1>1, <1>5, <1>6 DEF UploadsTypeOK
<1>8. \A i \in UploadId : worker # [at |-> "work", id |-> i]
  BY <1>1
<1>9. LocksExclude' /\ HeldKeepsItsStatus' /\ NoChunkWhileLettingGo'
  BY <1>1, <1>6 DEF UploadsInv, LocksExclude, HeldByAction, Locked, Holding, HeldKeepsItsStatus,
                    NoChunkWhileLettingGo, LettingGo
<1>10. ChunkIsInPlace' /\ PartIsABeginning'
  BY <1>1 DEF UploadsInv, ChunkIsInPlace, Full, Gone, PartIsABeginning
<1>11. \A i \in Queued' \cup deferred' : i \in Queued \cup deferred \/ i = NoId
  BY <1>5, <1>6 DEF Queued
<1>12. IdsAreFresh'
  <2>1. NoId <= events.creates
    BY <1>1, UploadsAssumption DEF UploadsTypeOK, NoId
  <2> QED BY <1>1, <1>11, <2>1 DEF UploadsInv, IdsAreFresh, Gone
<1>13. ReceivedIsFull'
  <2>1. \A i \in UploadId : i # NoId
    BY UploadsAssumption DEF UploadId, NoId
  <2> QED BY <1>1, <1>6, <1>11, <2>1 DEF UploadsInv, ReceivedIsFull, Waits, Full, Gone
<1>14. ReceivedIsPrepared'
  BY <1>1, <1>5, <1>8 DEF UploadsInv, ReceivedIsPrepared
<1> QED BY <1>7, <1>9, <1>10, <1>12, <1>13, <1>14 DEF UploadsInv

LEMMA RestartKeepsInv ==
  ASSUME UploadsInv, Restart
  PROVE  UploadsInv'
<1> DEFINE ready == {i \in UploadId : Full(i) /\ manifest[i].status \in {"uploading", "validating", "queued", "error"}}
           n == Cardinality(ready)
           again(i) == [manifest[i] EXCEPT !.status = "queued"]
           check(p) == [page[p] EXCEPT !.at = "check", !.thread = "none"]
<1>1. /\ UploadsTypeOK /\ Eventful
      /\ manifest' = [i \in UploadId |-> IF i \in ready THEN again(i) ELSE manifest[i]]
      /\ conversions' \in Bijection(1..n, ready)
      /\ thread' = [h \in Thread |-> Free] /\ config' = Unlocked /\ worker' = NoWork /\ deferred' = {}
      /\ page' = [p \in Page |-> IF page[p].at = "send" THEN check(p)
                                 ELSE IF page[p].at \in {"create", "turn", "look"} THEN AtRest ELSE page[p]]
      /\ UNCHANGED <<part, mislaid>>
  BY DEF UploadsInv, Restart
<1>2. /\ conversions' \in Seq(UploadId) /\ Range(conversions') = ready
  <2>1. IsFiniteSet(ready) /\ n \in Nat
    <3>1. IsFiniteSet(UploadId)
      BY FS_Interval, UploadsAssumption DEF UploadId
    <3> QED BY <3>1, FS_Subset, FS_CardinalityType
  <2> HIDE DEF n
  <2>2. conversions' \in [1..n -> ready] /\ \A t \in ready : \E s \in 1..n : conversions'[s] = t
    BY <1>1 DEF Bijection, Injection, Surjection, IsInjective
  <2>3. conversions' \in Seq(ready)
    BY <2>1, <2>2, SeqDef
  <2>4. conversions' \in Seq(UploadId)
    BY <2>1, <2>2, SeqDef
  <2>5. Range(conversions') = ready
    BY <2>2 DEF Range
  <2> QED BY <2>4, <2>5
<1> HIDE DEF n
<1>3. ASSUME NEW i \in UploadId, i \in ready
      PROVE  again(i) \in ManifestState /\ again(i).status = "queued" /\ Full(i) /\ ~Gone(manifest[i])
  <2>1. manifest[i] \in ManifestState
    BY <1>1 DEF UploadsTypeOK
  <2> QED BY <1>3, <2>1 DEF ManifestState, Gone
<1> HIDE DEF again
<1>4. /\ manifest' \in [UploadId -> ManifestState]
      /\ \A i \in UploadId : i \in ready => manifest'[i].status = "queued" /\ Full(i) /\ ~Gone(manifest[i])
      /\ \A i \in UploadId : i \notin ready => manifest'[i] = manifest[i]
  BY <1>1, <1>3 DEF UploadsTypeOK
<1>5. page' \in [Page -> PageState]
  <2>1. ASSUME NEW p \in Page, page[p].at = "send" PROVE check(p) \in PageState
    <3>1. page[p] \in PageState
      BY <1>1 DEF UploadsTypeOK
    <3> QED BY <2>1, <3>1 DEF PageState
  <2> HIDE DEF check
  <2> QED BY <1>1, <2>1, RestingPage DEF UploadsTypeOK
<1>6. /\ thread' \in [Thread -> ThreadState] /\ \A h \in Thread : thread'[h].at = "free"
      /\ config' \in ConfigState /\ config'.op = "none" /\ \A i \in UploadId : Gone(config'.seen[i])
      /\ worker' \in [at : {"idle", "work", "finish"}, id : UploadId \cup {NoId}]
      /\ worker'.at = "idle" /\ worker'.id = NoId
      /\ deferred' = {}
  <2>1. Unlocked \in ConfigState /\ Unlocked.op = "none" /\ \A i \in UploadId : Unlocked.seen[i] = Absent
    BY FreeThreadState DEF Unlocked, ConfigState
  <2>2. Gone(Absent)
    BY DEF Absent, Gone
  <2> QED BY <1>1, <2>1, <2>2, FreeThreadState DEF NoWork
<1>7. /\ events' \in [all : 0..MaxEvents, creates : 0..MaxEvents]
      /\ events'.creates = events.creates /\ events'.creates <= events'.all
  <2>1. /\ events' \in [all : 0..MaxEvents, creates : 0..MaxEvents]
        /\ events'.creates = events.creates /\ events.all <= events'.all
    BY <1>1, EventfulCounts
  <2>2. events.creates \in Nat /\ events.all \in Nat /\ events'.all \in Nat /\ events.creates <= events.all
    <3>1. events \in [all : 0..MaxEvents, creates : 0..MaxEvents] /\ events.creates <= events.all
      BY <1>1 DEF UploadsTypeOK
    <3> QED BY <2>1, <3>1, UploadsAssumption
  <2> QED BY <2>1, <2>2
<1>8. \A i \in UploadId : worker' # [at |-> "work", id |-> i] /\ worker' # [at |-> "finish", id |-> i]
  BY <1>6
<1>9. UploadsTypeOK'
  <2>1. deferred' \subseteq UploadId /\ mislaid' \subseteq UploadId
    BY <1>1, <1>6 DEF UploadsTypeOK
  <2>2. part' \in [UploadId -> Seq(Nat)] /\ \A i \in UploadId : Len(part'[i]) <= Size
    BY <1>1 DEF UploadsTypeOK
  <2> QED BY <1>2, <1>4, <1>5, <1>6, <1>7, <2>1, <2>2 DEF UploadsTypeOK
<1>10. LocksExclude' /\ HeldKeepsItsStatus' /\ NoChunkWhileLettingGo' /\ ChunkIsInPlace'
  BY <1>6, <1>8 DEF LocksExclude, Holding, HeldByAction, Locked, HeldKeepsItsStatus,
                    NoChunkWhileLettingGo, LettingGo, ChunkIsInPlace
<1>11. \A i \in Queued' \cup deferred' : i \in ready \/ i = NoId
  BY <1>2, <1>6 DEF Queued
<1>12. \A i \in UploadId : ~Gone(manifest'[i]) => ~Gone(manifest[i])
  BY <1>4
<1>13. IdsAreFresh'
  <2>1. \A i \in UploadId : ~Gone(manifest[i]) => i <= events.creates
    BY DEF UploadsInv, IdsAreFresh
  <2>2. NoId <= events.creates
    <3>1. events \in [all : 0..MaxEvents, creates : 0..MaxEvents]
      BY <1>1 DEF UploadsTypeOK
    <3> QED BY <3>1, UploadsAssumption DEF NoId
  <2>3. \A i \in ready : i <= events.creates
    BY <1>4, <2>1
  <2>4. \A i \in Queued' \cup deferred' : i <= events'.creates
    BY <1>7, <1>11, <2>2, <2>3
  <2>5. \A i \in UploadId : ~Gone(manifest'[i]) => i <= events'.creates
    BY <1>7, <1>12, <2>1
  <2> QED BY <1>6, <2>4, <2>5 DEF IdsAreFresh, Gone
<1>14. ReceivedIsFull'
  <2>1. ReceivedIsFull
    BY DEF UploadsInv
  <2>2. \A i \in UploadId : i # NoId
    BY UploadsAssumption DEF UploadId, NoId
  <2>3. \A i \in UploadId \ mislaid : manifest'[i].status \in {"queued", "validating"} => Full(i)
    BY <1>4, <2>1 DEF ReceivedIsFull, Waits
  <2>4. \A i \in UploadId : i \in Queued' \cup deferred' => Full(i)
    BY <1>4, <1>11, <2>2
  <2> QED BY <1>1, <1>8, <2>3, <2>4 DEF ReceivedIsFull, Waits, Full
<1>15. PartIsABeginning'
  BY <1>1 DEF UploadsInv, PartIsABeginning
<1>16. ReceivedIsPrepared'
  <2>1. ReceivedIsFull
    BY DEF UploadsInv
  <2> SUFFICES ASSUME NEW i \in UploadId, manifest'[i].status \in {"queued", "validating"}, i \notin mislaid
               PROVE  i \in Range(conversions')
    BY <1>1 DEF ReceivedIsPrepared
  <2>2. CASE i \in ready
    BY <1>2, <2>2
  <2>3. CASE i \notin ready
    <3>1. Waits(i)
      BY <1>4, <2>3 DEF Waits
    <3>2. Full(i)
      BY <2>1, <3>1 DEF ReceivedIsFull
    <3> QED BY <2>3, <3>1, <3>2 DEF Waits
  <2> QED BY <2>2, <2>3
<1> QED BY <1>9, <1>10, <1>13, <1>14, <1>15, <1>16 DEF UploadsInv

(* ------------------------------------------------------------------------ *)
(* The specification.                                                         *)

LEMMA UploadsInitHasInv == UploadsInit => UploadsInv
<1> SUFFICES ASSUME UploadsInit PROVE UploadsInv
  OBVIOUS
<1>1. /\ manifest = [i \in UploadId |-> Absent] /\ part = [i \in UploadId |-> <<>>]
      /\ page = [p \in Page |-> AtRest] /\ thread = [h \in Thread |-> Free]
      /\ config = Unlocked /\ conversions = <<>> /\ worker = NoWork /\ deferred = {}
      /\ events = [all |-> 0, creates |-> 0] /\ mislaid = {}
  BY DEF UploadsInit
<1>2. Gone(Absent) /\ Absent.status = "absent" /\ \A i \in UploadId : i # NoId
  BY UploadsAssumption DEF Absent, Gone, UploadId, NoId
<1>3. /\ config \in ConfigState /\ config.op = "none" /\ \A i \in UploadId : config.seen[i] = Absent
  BY <1>1, FreeThreadState DEF Unlocked, ConfigState
<1>4. /\ worker \in [at : {"idle", "work", "finish"}, id : UploadId \cup {NoId}]
      /\ worker.at = "idle" /\ worker.id = NoId
  BY <1>1 DEF NoWork
<1>5. \A h \in Thread : thread[h].at = "free"
  BY <1>1, FreeThreadState
<1>6. \A i \in UploadId : manifest[i].status = "absent" /\ Gone(manifest[i])
  BY <1>1, <1>2
<1>7. Range(conversions) = {} /\ conversions \in Seq(UploadId)
  BY <1>1 DEF Range
<1>8. UploadsTypeOK
  BY <1>1, <1>3, <1>4, <1>7, FreeThreadState, RestingPage, UploadsAssumption DEF UploadsTypeOK
<1>9. Queued \cup deferred = {NoId}
  BY <1>1, <1>4, <1>7 DEF Queued
<1>10. \A i \in UploadId : worker # [at |-> "work", id |-> i] /\ worker # [at |-> "finish", id |-> i]
  BY <1>4
<1>11. LocksExclude /\ ChunkIsInPlace /\ NoChunkWhileLettingGo /\ HeldKeepsItsStatus
  BY <1>3, <1>5, <1>10 DEF LocksExclude, Holding, HeldByAction, Locked, ChunkIsInPlace,
                           NoChunkWhileLettingGo, LettingGo, HeldKeepsItsStatus
<1>12. IdsAreFresh
  BY <1>1, <1>2, <1>3, <1>5, <1>6, <1>9 DEF IdsAreFresh, NoId
<1>13. ReceivedIsFull /\ ReceivedIsPrepared
  BY <1>2, <1>6, <1>9, <1>10 DEF ReceivedIsFull, ReceivedIsPrepared, Waits
<1>14. PartIsABeginning
  <2>1. <<>> = [k \in 1..Len(<<>>) |-> k]
    OBVIOUS
  <2> QED BY <1>1, <2>1 DEF PartIsABeginning
<1> QED BY <1>8, <1>11, <1>12, <1>13, <1>14 DEF UploadsInv

LEMMA UploadsStepKeepsInv == UploadsInv /\ [UploadsNext]_uploadVars => UploadsInv'
<1> SUFFICES ASSUME UploadsInv, [UploadsNext]_uploadVars PROVE UploadsInv'
  OBVIOUS
<1>1. ASSUME NEW p \in Page, \/ \E f \in File : Submit(p, f)
                             \/ Look(p) \/ Timeout(p) \/ Continue(p) \/ PageAsks(p)
      PROVE  UploadsInv'
  BY <1>1, SubmitKeepsInv, LookKeepsInv, TimeoutKeepsInv, ContinueKeepsInv, PageAsksKeepsInv
<1>2. ASSUME NEW h \in Thread, \/ AppendReads(h) \/ AppendWrites(h) \/ AppendSaves(h)
                               \/ AppendEnqueues(h) \/ AppendChooses(h) \/ AppendHands(h)
      PROVE  UploadsInv'
  BY <1>2, AppendReadsKeepsInv, AppendWritesKeepsInv, AppendSavesKeepsInv, AppendEnqueuesKeepsInv,
     AppendChoosesKeepsInv, AppendHandsKeepsInv
<1>3. ASSUME NEW i \in UploadId, NEW op \in {"start", "pause", "resume", "retry", "cancel"}, OwnerAsks(op, i)
      PROVE  UploadsInv'
  BY <1>3, OwnerAsksKeepsInv
<1>4. ASSUME Created \/ Heartbeat \/ OwnerDoes \/ WorkerTakes \/ WorkerEnds \/ WorkerFinishes \/ Restart
      PROVE  UploadsInv'
  BY <1>4, CreatedKeepsInv, HeartbeatKeepsInv, OwnerDoesKeepsInv, WorkerTakesKeepsInv,
     WorkerEndsKeepsInv,
     WorkerFinishesKeepsInv, RestartKeepsInv
<1>5. CASE UNCHANGED uploadVars
  <2>1. Quiet
    BY <1>5 DEF UploadsInv, UploadsTypeOK, Quiet, uploadVars
  <2> QED BY <2>1, QuietKeepsInv
<1> QED BY <1>1, <1>2, <1>3, <1>4, <1>5 DEF UploadsNext

LEMMA UploadsInvHolds == UploadsSpec => []UploadsInv
<1> QED BY UploadsInitHasInv, UploadsStepKeepsInv, PTL DEF UploadsSpec

(* In every state of every run the manifests, part files, pages, chunks, locks *)
(* and the queue have their shape, and every upload's lock one owner at most.  *)
THEOREM UploadsTypeCorrect == UploadsSpec => []UploadsTypeOK
<1>1. UploadsInv => UploadsTypeOK
  BY DEF UploadsInv
<1> QED BY <1>1, UploadsInvHolds, PTL

(* However chunks time out, come again, race an action of the owner, the       *)
(* worker or a restart: what was received of a video is its beginning, and a   *)
(* video that says it waits to be prepared will be taken up by the worker      *)
(* (append_upload, uploads.py:995; finish_conversion_job, uploads.py:856).     *)
THEOREM ReceivedStaysInGoodHands == UploadsSpec => []ReceivedIsInGoodHands
<1>1. UploadsInv => ReceivedIsInGoodHands
  BY DEF UploadsInv, ReceivedIsInGoodHands
<1> QED BY <1>1, UploadsInvHolds, PTL

-----------------------------------------------------------------------------
(* The playlist page. *)

Order == Seq(Item)
TapRecord == [item : Item, way : {"up", "down"}, shows : Order]

(* The orders, the taps that wait and the requests have their shape.          *)
PlaylistTypeOK ==
  /\ pi \in Order /\ list \in Order /\ rows \in Order
  /\ chain \in [moves : Seq(TapRecord), saving : {"no", "sent", "done", "refused"}, failed : BOOLEAN,
                confirmed : Order, answer : Order, after : {"no", "cache", "read", "asked"}, alone : BOOLEAN]
  /\ read \in [at : {"no", "waits", "answered"}, behind : Nat, answer : Order]
  /\ change \in [at : {"no", "waits", "sent", "done"}, item : Item \cup {None}, answer : Order]
  /\ change.at # "no" => change.item \in Item
  /\ moves \in 0..MaxMoves /\ others \in 0..MaxChanges

\* Whatever may become the list once was the order of the Pi, or is what an
\* arrow left that broke off.
OrdersAreReal ==
  /\ pi \in had /\ chain.answer \in had /\ read.answer \in had /\ change.answer \in had
  /\ chain.confirmed \in had \cup broken
  /\ ~Pending => list \in had \cup broken

\* One request at a time: of a move that waits and was not dropped, and not
\* while what follows the last one is under way.
MovesGoOneByOne ==
  /\ chain.saving # "no" => Pending /\ chain.after = "no"
  /\ chain.saving \in {"sent", "done"} => ~chain.failed

\* While nobody else edits, every tap that waits shows what it makes of the
\* one before, the first of the order on the Pi, and the list is the last.
TapsFollowEachOther ==
  chain.alone =>
    /\ rows = list
    /\ Pending /\ ~chain.failed =>
         /\ list = chain.moves[Len(chain.moves)].shows
         /\ \A k \in 2..Len(chain.moves) :
              chain.moves[k].shows = Moved(chain.moves[k - 1].shows, chain.moves[k].item, chain.moves[k].way)
         /\ LET first == Head(chain.moves)
            IN  IF chain.saving = "done" THEN pi = first.shows /\ chain.answer = first.shows
                ELSE chain.saving # "refused" => first.shows = Moved(pi, first.item, first.way)

PlaylistInv == PlaylistTypeOK /\ OrdersAreReal /\ MovesGoOneByOne /\ TapsFollowEachOther

(* ------------------------------------------------------------------------ *)
(* Orders.                                                                    *)

\* An arrow that may be used leaves an order.
LEMMA MovedIsOrder ==
  ASSUME NEW s \in Order, NEW x, NEW way, CanMove(s, x, way)
  PROVE  /\ Moved(s, x, way) \in Order
         /\ PlaceOf(s, x) \in DOMAIN s /\ Target(PlaceOf(s, x), way) \in DOMAIN s
<1>1. PICK i \in DOMAIN s : s[i] = x
  BY DEF CanMove, Range
<1>2. PlaceOf(s, x) \in DOMAIN s
  BY <1>1 DEF PlaceOf
<1>3. Target(PlaceOf(s, x), way) \in DOMAIN s
  BY DEF CanMove
<1>4. ASSUME NEW j \in DOMAIN s, NEW k \in DOMAIN s PROVE Swap(s, j, k) \in Order
  BY <1>4 DEF Swap, Order
<1> QED BY <1>2, <1>3, <1>4 DEF Moved

\* Adding and removing leave an order.
LEMMA EditedIsOrder ==
  ASSUME NEW s \in Order, NEW x \in Item
  PROVE  Edited(s, x) \in Order
<1>1. Append(s, x) \in Order
  BY DEF Order
<1>2. ASSUME x \in Range(s) PROVE Left(s, PlaceOf(s, x)) \in Order
  <2> DEFINE i == PlaceOf(s, x)
             n == Len(s) - 1
  <2>1. i \in DOMAIN s
    <3>1. PICK k \in DOMAIN s : s[k] = x
      BY <1>2 DEF Range
    <3> QED BY <3>1 DEF PlaceOf
  <2>2. DOMAIN s = 1..Len(s) /\ Len(s) \in Nat /\ \A k \in 1..Len(s) : s[k] \in Item
    BY DEF Order
  <2>3. n \in Nat /\ i \in Nat
    BY <2>1, <2>2
  <2>4. \A k \in 1..n : k \in 1..Len(s) /\ k + 1 \in 1..Len(s)
    BY <2>2
  <2>5. [k \in 1..n |-> IF k < i THEN s[k] ELSE s[k + 1]] \in [1..n -> Item]
    BY <2>2, <2>4
  <2>6. Left(s, i) \in [1..n -> Item]
    BY <2>5 DEF Left
  <2> HIDE DEF n
  <2> QED BY <2>3, <2>6, SeqDef DEF Order
<1> QED BY <1>1, <1>2 DEF Edited

\* What waits when the first tap is done.
LEMMA TapsLeft ==
  ASSUME NEW q \in Seq(TapRecord), q # <<>>
  PROVE  /\ Len(q) \in Nat \ {0} /\ Tail(q) \in Seq(TapRecord) /\ Len(Tail(q)) = Len(q) - 1
         /\ \A k \in 1..(Len(q) - 1) : Tail(q)[k] = q[k + 1]
         /\ Head(q) = q[1] /\ Head(q) \in TapRecord /\ (Tail(q) = <<>> <=> Len(q) = 1)
         /\ Tail(q) # <<>> => Head(Tail(q)) = q[2]
<1>1. /\ Len(q) \in Nat \ {0} /\ Tail(q) \in Seq(TapRecord) /\ Len(Tail(q)) = Len(q) - 1
      /\ \A k \in 1..(Len(q) - 1) : Tail(q)[k] = q[k + 1]
      /\ Head(q) = q[1] /\ Head(q) \in TapRecord
  OBVIOUS
<1>2. Tail(q) = <<>> <=> Len(q) = 1
  <2> DEFINE rest == Tail(q)
  <2>1. rest \in Seq(TapRecord) /\ Len(rest) = Len(q) - 1
    BY <1>1
  <2> HIDE DEF rest
  <2>2. rest = <<>> <=> Len(rest) = 0
    BY <2>1, EmptySeq
  <2> QED BY <1>1, <2>1, <2>2 DEF rest
<1>3. Tail(q) # <<>> => Head(Tail(q)) = q[2]
  <2> SUFFICES ASSUME Tail(q) # <<>> PROVE Head(Tail(q)) = q[2]
    OBVIOUS
  <2>1. Head(Tail(q)) = Tail(q)[1] /\ 1 \in 1..(Len(q) - 1)
    BY <1>1, <1>2
  <2> QED BY <1>1, <2>1
<1> QED BY <1>1, <1>2, <1>3

LEMMA OthersCount ==
  ASSUME PlaylistTypeOK, Event
  PROVE  others' \in 0..MaxChanges
BY PlaylistAssumption DEF PlaylistTypeOK, Event

(* ------------------------------------------------------------------------ *)
(* Steps.                                                                     *)

\* What the taps say is untouched.
LEMMA TapsKept ==
  ASSUME PlaylistInv, UNCHANGED <<pi, list, rows, chain>>
  PROVE  TapsFollowEachOther' /\ MovesGoOneByOne'
BY DEF PlaylistInv, TapsFollowEachOther, MovesGoOneByOne, Pending

\* A step that leaves orders, taps and rows alone.
LEMMA RequestKeepsInv ==
  ASSUME PlaylistInv, UNCHANGED <<pi, had, list, rows, chain, broken>>,
         read' \in [at : {"no", "waits", "answered"}, behind : Nat, answer : Order], read'.answer \in had,
         change' \in [at : {"no", "waits", "sent", "done"}, item : Item \cup {None}, answer : Order],
         change'.answer \in had, change'.at # "no" => change'.item \in Item,
         moves' \in 0..MaxMoves, others' \in 0..MaxChanges
  PROVE  PlaylistInv'
<1>1. PlaylistTypeOK' /\ OrdersAreReal'
  BY DEF PlaylistInv, PlaylistTypeOK, OrdersAreReal, Pending
<1> QED BY <1>1, TapsKept DEF PlaylistInv

\* A list that is read or answered is drawn, unless moves wait.
LEMMA ShownKeepsInv ==
  ASSUME PlaylistInv, NEW l \in Order, l \in had, ~Pending, Shows(l),
         UNCHANGED <<pi, had, broken, moves>>, others' \in 0..MaxChanges,
         chain' \in [moves : Seq(TapRecord), saving : {"no", "sent", "done", "refused"}, failed : BOOLEAN,
                     confirmed : Order, answer : Order, after : {"no", "cache", "read", "asked"}, alone : BOOLEAN],
         chain'.moves = chain.moves, chain'.saving = chain.saving, chain'.failed = chain.failed,
         chain'.confirmed = chain.confirmed, chain'.answer = chain.answer,
         read' \in [at : {"no", "waits", "answered"}, behind : Nat, answer : Order], read'.answer \in had,
         UNCHANGED change
  PROVE  PlaylistInv'
<1>1. list' = l /\ rows' = l /\ ~Pending'
  BY DEF Shows, Pending
<1>2. PlaylistTypeOK' /\ OrdersAreReal'
  BY <1>1 DEF PlaylistInv, PlaylistTypeOK, OrdersAreReal
<1>3. MovesGoOneByOne'
  BY <1>1 DEF PlaylistInv, MovesGoOneByOne
<1>4. TapsFollowEachOther'
  BY <1>1 DEF TapsFollowEachOther
<1> QED BY <1>2, <1>3, <1>4 DEF PlaylistInv

LEMMA TapKeepsInv ==
  ASSUME PlaylistInv, NEW x \in Item, NEW way \in {"up", "down"}, TapMove(x, way)
  PROVE  PlaylistInv'
<1> DEFINE i == PlaceOf(list, x)
           j == Target(i, way)
           drawn == i \in DOMAIN rows /\ j \in DOMAIN rows
           now == Moved(list, x, way)
           tap == [item |-> x, way |-> way, shows |-> now]
           base == IF Pending THEN chain
                   ELSE [chain EXCEPT !.failed = FALSE, !.confirmed = list,
                           !.alone = list = pi /\ rows = list /\ change.at \in {"no", "waits"}]
           longer == [base EXCEPT !.moves = Append(@, tap)]
<1>1. /\ PlaylistTypeOK /\ moves' \in 0..MaxMoves /\ ~(Pending /\ chain.failed) /\ CanMove(list, x, way)
      /\ list' = now /\ UNCHANGED <<pi, had, read, change, others>>
      /\ IF drawn THEN rows' = Swap(rows, i, j) /\ UNCHANGED broken /\ chain' = longer
         ELSE broken' = broken \cup {now} /\ UNCHANGED <<rows, chain>>
  <2>1. moves \in Nat /\ moves < MaxMoves /\ moves' = moves + 1
    BY PlaylistAssumption DEF PlaylistInv, PlaylistTypeOK, TapMove
  <2> QED BY <2>1, PlaylistAssumption DEF PlaylistInv, TapMove
<1>2. now \in Order /\ i \in DOMAIN list /\ j \in DOMAIN list
  BY <1>1, MovedIsOrder DEF PlaylistTypeOK
<1>3. tap \in TapRecord /\ tap.shows = now /\ tap.item = x /\ tap.way = way
  BY <1>2 DEF TapRecord
<1>4. CASE ~drawn
  <2>1. rows # list
    BY <1>2, <1>4
  <2>2. ~chain.alone
    BY <2>1 DEF PlaylistInv, TapsFollowEachOther
  <2>3. UNCHANGED <<rows, chain>> /\ broken' = broken \cup {now}
    BY <1>1, <1>4
  <2>4. PlaylistTypeOK' /\ OrdersAreReal' /\ MovesGoOneByOne'
    BY <1>1, <1>2, <2>3 DEF PlaylistInv, PlaylistTypeOK, OrdersAreReal, MovesGoOneByOne, Pending
  <2>5. TapsFollowEachOther'
    BY <2>2, <2>3 DEF TapsFollowEachOther
  <2> QED BY <2>4, <2>5 DEF PlaylistInv
<1>5. CASE drawn
  <2>1. rows' = Swap(rows, i, j) /\ UNCHANGED broken /\ chain' = longer
    BY <1>1, <1>5
  <2>2. /\ base \in [moves : Seq(TapRecord), saving : {"no", "sent", "done", "refused"}, failed : BOOLEAN,
                     confirmed : Order, answer : Order, after : {"no", "cache", "read", "asked"}, alone : BOOLEAN]
        /\ base.moves = chain.moves /\ base.saving = chain.saving /\ base.after = chain.after
        /\ base.answer = chain.answer /\ ~base.failed
        /\ Pending => base = chain
        /\ ~Pending => /\ base.confirmed = list
                       /\ base.alone => list = pi /\ rows = list
    BY <1>1 DEF PlaylistTypeOK
  <2>3. chain.moves \in Seq(TapRecord)
    BY <1>1 DEF PlaylistTypeOK
  <2> DEFINE moved == Append(chain.moves, tap)
             n == Len(chain.moves)
  <2> HIDE DEF tap
  <2>4. /\ moved \in Seq(TapRecord) /\ Len(moved) = n + 1 /\ n \in Nat /\ moved # <<>> /\ Head(moved) = moved[1]
        /\ \A k \in 1..n : moved[k] = chain.moves[k]
        /\ moved[n + 1] = tap
    BY <1>3, <2>3
  <2> HIDE DEF base
  <2>5. /\ chain' \in [moves : Seq(TapRecord), saving : {"no", "sent", "done", "refused"}, failed : BOOLEAN,
                       confirmed : Order, answer : Order, after : {"no", "cache", "read", "asked"}, alone : BOOLEAN]
        /\ chain'.moves = moved /\ chain'.saving = base.saving /\ chain'.after = base.after
        /\ chain'.answer = base.answer /\ chain'.failed = base.failed /\ chain'.confirmed = base.confirmed
        /\ chain'.alone = base.alone
    BY <2>1, <2>2, <2>4
  <2> HIDE DEF moved, longer
  <2>6. rows' \in Order
    <3>1. rows \in Order /\ i \in DOMAIN rows /\ j \in DOMAIN rows
      BY <1>1, <1>5 DEF PlaylistTypeOK
    <3> HIDE DEF i, j
    <3> QED BY <2>1, <3>1 DEF Swap, Order
  <2>7. PlaylistTypeOK'
    BY <1>1, <1>2, <2>5, <2>6 DEF PlaylistTypeOK
  <2>8. Pending'
    BY <2>4, <2>5 DEF Pending
  <2>9. OrdersAreReal'
    BY <1>1, <2>1, <2>2, <2>5, <2>8 DEF PlaylistInv, OrdersAreReal
  <2>10. MovesGoOneByOne'
    BY <2>2, <2>5, <2>8 DEF PlaylistInv, MovesGoOneByOne
  <2>11. TapsFollowEachOther'
    <3> SUFFICES ASSUME chain'.alone
                 PROVE  /\ rows' = list'
                        /\ list' = moved[Len(moved)].shows
                        /\ \A k \in 2..Len(moved) : moved[k].shows = Moved(moved[k - 1].shows, moved[k].item, moved[k].way)
                        /\ IF chain'.saving = "done" THEN pi = moved[1].shows /\ chain'.answer = moved[1].shows
                           ELSE chain'.saving # "refused" => moved[1].shows = Moved(pi, moved[1].item, moved[1].way)
      BY <1>1, <2>4, <2>5 DEF TapsFollowEachOther
    <3>1. rows = list /\ (~Pending => list = pi)
      BY <2>2, <2>5 DEF PlaylistInv, TapsFollowEachOther
    <3>2. rows' = list'
      BY <1>1, <2>1, <3>1 DEF Moved
    <3>3. CASE ~Pending
      <4>1. n = 0
        BY <3>3 DEF Pending
      <4>2. chain'.saving = "no"
        BY <2>2, <2>5, <3>3 DEF PlaylistInv, MovesGoOneByOne
      <4>3. moved[1] = tap /\ Len(moved) = 1
        BY <2>4, <4>1
      <4> QED BY <1>1, <1>3, <3>1, <3>2, <3>3, <4>2, <4>3
    <3>4. CASE Pending
      <4>1. /\ chain.alone /\ ~chain.failed /\ list = chain.moves[n].shows
            /\ \A k \in 2..n :
                 chain.moves[k].shows = Moved(chain.moves[k - 1].shows, chain.moves[k].item, chain.moves[k].way)
            /\ IF chain.saving = "done" THEN pi = Head(chain.moves).shows /\ chain.answer = Head(chain.moves).shows
               ELSE chain.saving # "refused" =>
                      Head(chain.moves).shows = Moved(pi, Head(chain.moves).item, Head(chain.moves).way)
        BY <2>2, <2>5, <3>4 DEF PlaylistInv, TapsFollowEachOther
      <4>2. n >= 1 /\ Head(chain.moves) = chain.moves[1] /\ moved[1] = chain.moves[1] /\ moved[n] = chain.moves[n]
        BY <2>3, <2>4, <3>4 DEF Pending
      <4>3. \A k \in 2..Len(moved) : moved[k].shows = Moved(moved[k - 1].shows, moved[k].item, moved[k].way)
        <5> SUFFICES ASSUME NEW k \in 2..(n + 1)
                     PROVE  moved[k].shows = Moved(moved[k - 1].shows, moved[k].item, moved[k].way)
          BY <2>4
        <5>1. CASE k = n + 1
          <6>1. moved[k] = tap /\ moved[k - 1] = chain.moves[n]
            BY <2>4, <4>2, <5>1
          <6> QED BY <1>3, <4>1, <6>1
        <5>2. CASE k # n + 1
          <6>1. k \in 2..n /\ moved[k] = chain.moves[k] /\ moved[k - 1] = chain.moves[k - 1]
            BY <2>4, <5>2
          <6> QED BY <4>1, <6>1
        <5> QED BY <5>1, <5>2
      <4>4. list' = moved[Len(moved)].shows
        BY <1>1, <1>3, <2>4
      <4> QED BY <2>2, <2>5, <3>2, <3>4, <4>1, <4>2, <4>3, <4>4
    <3> QED BY <3>3, <3>4
  <2> QED BY <2>7, <2>9, <2>10, <2>11 DEF PlaylistInv
<1> QED BY <1>4, <1>5

\* The record of the chain, step by step.
ChainState ==
  [moves : Seq(TapRecord), saving : {"no", "sent", "done", "refused"}, failed : BOOLEAN,
   confirmed : Order, answer : Order, after : {"no", "cache", "read", "asked"}, alone : BOOLEAN]

LEMMA SendMoveKeepsInv ==
  ASSUME PlaylistInv, SendMove
  PROVE  PlaylistInv'
<1>1. /\ Pending /\ chain.saving = "no" /\ chain.after = "no" /\ ~chain.failed /\ chain \in ChainState
      /\ chain' = [chain EXCEPT !.saving = "sent"]
      /\ UNCHANGED <<pi, had, list, rows, read, change, broken, moves, others>>
  BY DEF PlaylistInv, PlaylistTypeOK, ChainState, SendMove, Goes
<1>2. /\ chain' \in ChainState /\ chain'.moves = chain.moves /\ chain'.saving = "sent" /\ chain'.failed = chain.failed
      /\ chain'.confirmed = chain.confirmed /\ chain'.answer = chain.answer /\ chain'.after = chain.after
      /\ chain'.alone = chain.alone
  BY <1>1 DEF ChainState
<1>3. PlaylistTypeOK' /\ OrdersAreReal'
  BY <1>1, <1>2 DEF PlaylistInv, PlaylistTypeOK, ChainState, OrdersAreReal, Pending
<1>4. MovesGoOneByOne' /\ TapsFollowEachOther'
  BY <1>1, <1>2 DEF PlaylistInv, MovesGoOneByOne, TapsFollowEachOther, Pending
<1> QED BY <1>3, <1>4 DEF PlaylistInv

LEMMA PiMovesKeepsInv ==
  ASSUME PlaylistInv, PiMoves
  PROVE  PlaylistInv'
<1> DEFINE m == Head(chain.moves)
           now == Moved(pi, m.item, m.way)
<1>1. /\ PlaylistTypeOK /\ chain \in ChainState /\ chain.saving = "sent" /\ Pending /\ chain.after = "no" /\ ~chain.failed
      /\ UNCHANGED <<list, rows, read, change, broken, moves, others>>
  BY DEF PlaylistInv, PlaylistTypeOK, ChainState, PiMoves, MovesGoOneByOne
<1>2. CASE CanMove(pi, m.item, m.way)
  <2>1. now \in Order
    BY <1>1, <1>2, MovedIsOrder DEF PlaylistTypeOK
  <2>2. pi' = now /\ had' = had \cup {now} /\ chain' = [chain EXCEPT !.saving = "done", !.answer = now]
    BY <1>2 DEF PiMoves, Saves
  <2> HIDE DEF now
  <2>3. /\ chain' \in ChainState /\ chain'.moves = chain.moves /\ chain'.saving = "done" /\ chain'.failed = chain.failed
        /\ chain'.confirmed = chain.confirmed /\ chain'.answer = now /\ chain'.after = chain.after
        /\ chain'.alone = chain.alone
    BY <1>1, <2>1, <2>2 DEF ChainState
  <2>4. PlaylistTypeOK'
    BY <1>1, <2>1, <2>2, <2>3 DEF PlaylistTypeOK, ChainState
  <2>5. OrdersAreReal' /\ MovesGoOneByOne'
    BY <1>1, <2>2, <2>3 DEF PlaylistInv, OrdersAreReal, MovesGoOneByOne, Pending
  <2>6. TapsFollowEachOther'
    <3> SUFFICES ASSUME chain.alone
                 PROVE  /\ rows = list /\ list = chain.moves[Len(chain.moves)].shows
                        /\ \A k \in 2..Len(chain.moves) : chain.moves[k].shows
                             = Moved(chain.moves[k - 1].shows, chain.moves[k].item, chain.moves[k].way)
                        /\ now = m.shows
      BY <1>1, <2>2, <2>3 DEF TapsFollowEachOther
    <3> QED BY <1>1 DEF PlaylistInv, TapsFollowEachOther, now
  <2> QED BY <2>4, <2>5, <2>6 DEF PlaylistInv
<1>3. CASE ~CanMove(pi, m.item, m.way)
  <2>1. UNCHANGED <<pi, had>> /\ chain' = [chain EXCEPT !.saving = "refused"]
    BY <1>3 DEF PiMoves
  <2>2. /\ chain' \in ChainState /\ chain'.moves = chain.moves /\ chain'.saving = "refused" /\ chain'.failed = chain.failed
        /\ chain'.confirmed = chain.confirmed /\ chain'.answer = chain.answer /\ chain'.after = chain.after
        /\ chain'.alone = chain.alone
    BY <1>1, <2>1 DEF ChainState
  <2>3. PlaylistTypeOK' /\ OrdersAreReal'
    BY <1>1, <2>1, <2>2 DEF PlaylistInv, PlaylistTypeOK, ChainState, OrdersAreReal, Pending
  <2>4. MovesGoOneByOne' /\ TapsFollowEachOther'
    BY <1>1, <2>1, <2>2 DEF PlaylistInv, MovesGoOneByOne, TapsFollowEachOther, Pending
  <2> QED BY <2>3, <2>4 DEF PlaylistInv
<1> QED BY <1>2, <1>3

LEMMA LoseMoveKeepsInv ==
  ASSUME PlaylistInv, LoseMove
  PROVE  PlaylistInv'
<1>1. /\ PlaylistTypeOK /\ chain \in ChainState /\ chain.saving \in {"sent", "done"} /\ Pending /\ chain.after = "no"
      /\ ~chain.failed /\ others' \in 0..MaxChanges /\ chain' = [chain EXCEPT !.saving = "refused"]
      /\ UNCHANGED <<pi, had, list, rows, read, change, broken, moves>>
  BY OthersCount DEF PlaylistInv, PlaylistTypeOK, ChainState, LoseMove, MovesGoOneByOne
<1>2. /\ chain' \in ChainState /\ chain'.moves = chain.moves /\ chain'.saving = "refused" /\ chain'.failed = chain.failed
      /\ chain'.confirmed = chain.confirmed /\ chain'.answer = chain.answer /\ chain'.after = chain.after
      /\ chain'.alone = chain.alone
  BY <1>1 DEF ChainState
<1>3. PlaylistTypeOK' /\ OrdersAreReal'
  BY <1>1, <1>2 DEF PlaylistInv, PlaylistTypeOK, ChainState, OrdersAreReal, Pending
<1>4. MovesGoOneByOne' /\ TapsFollowEachOther'
  BY <1>1, <1>2 DEF PlaylistInv, MovesGoOneByOne, TapsFollowEachOther, Pending
<1> QED BY <1>3, <1>4 DEF PlaylistInv

LEMMA EndMoveKeepsInv ==
  ASSUME PlaylistInv, EndMove
  PROVE  PlaylistInv'
<1> DEFINE failed == chain.failed \/ chain.saving = "refused"
           confirmed == IF chain.saving = "done" THEN chain.answer ELSE chain.confirmed
           rest == Tail(chain.moves)
           next == IF rest # <<>> THEN "no" ELSE IF failed THEN "read" ELSE "cache"
           now == [chain EXCEPT !.moves = rest, !.saving = "no", !.failed = failed, !.confirmed = confirmed,
                     !.after = next]
           heard == [read EXCEPT !.behind = IF @ > 0 THEN @ - 1 ELSE 0]
<1>1. /\ PlaylistTypeOK /\ chain \in ChainState /\ chain.moves \in Seq(TapRecord) /\ chain.moves # <<>>
      /\ chain.after = "no" /\ chain' = now /\ read' = heard
      /\ (chain.saving \in {"done", "refused"} \/ (chain.saving = "no" /\ chain.failed))
      /\ IF rest # <<>> THEN UNCHANGED <<list, rows>>
         ELSE list' = confirmed /\ rows' = (IF failed THEN confirmed ELSE rows)
      /\ UNCHANGED <<pi, had, change, broken, moves, others>>
  BY DEF PlaylistInv, PlaylistTypeOK, ChainState, EndMove, Pending, Goes
<1>2. /\ Len(chain.moves) \in Nat \ {0} /\ rest \in Seq(TapRecord) /\ Len(rest) = Len(chain.moves) - 1
      /\ \A k \in 1..(Len(chain.moves) - 1) : rest[k] = chain.moves[k + 1]
      /\ Head(chain.moves) = chain.moves[1] /\ (rest = <<>> <=> Len(chain.moves) = 1)
      /\ rest # <<>> => Head(rest) = chain.moves[2]
  BY <1>1, TapsLeft
<1>3. confirmed \in Order /\ failed \in BOOLEAN /\ next \in {"no", "cache", "read"}
  BY <1>1 DEF ChainState
<1>4. confirmed \in had \cup broken
  BY DEF PlaylistInv, OrdersAreReal
<1>5. (failed <=> chain.saving # "done") /\ (~failed => ~chain.failed)
  BY <1>1 DEF PlaylistInv, MovesGoOneByOne
<1>6. heard \in [at : {"no", "waits", "answered"}, behind : Nat, answer : Order] /\ heard.answer = read.answer
  BY <1>1 DEF PlaylistTypeOK
<1> HIDE DEF rest, confirmed, failed, next, heard
<1>7. /\ chain' \in ChainState /\ chain'.moves = rest /\ chain'.saving = "no" /\ chain'.failed = failed
      /\ chain'.confirmed = confirmed /\ chain'.answer = chain.answer /\ chain'.after = next
      /\ chain'.alone = chain.alone
  BY <1>1, <1>2, <1>3 DEF ChainState
<1> HIDE DEF now
<1>8. PlaylistTypeOK'
  BY <1>1, <1>3, <1>6, <1>7 DEF PlaylistTypeOK, ChainState
<1>9. OrdersAreReal'
  <2>1. rest = <<>> => list' = confirmed
    BY <1>1
  <2> QED BY <1>1, <1>4, <1>6, <1>7, <2>1 DEF PlaylistInv, OrdersAreReal, Pending
<1>10. MovesGoOneByOne'
  BY <1>7 DEF MovesGoOneByOne
<1>11. TapsFollowEachOther'
  <2> SUFFICES ASSUME chain.alone
               PROVE  /\ rows' = list'
                      /\ rest # <<>> /\ ~failed =>
                           /\ list' = rest[Len(rest)].shows
                           /\ \A k \in 2..Len(rest) : rest[k].shows = Moved(rest[k - 1].shows, rest[k].item, rest[k].way)
                           /\ rest[1].shows = Moved(pi, rest[1].item, rest[1].way)
    <3>1. rest # <<>> => Head(rest) = rest[1]
      BY <1>2
    <3> QED BY <1>1, <1>7, <3>1 DEF TapsFollowEachOther, Pending
  <2>1. rows = list
    BY DEF PlaylistInv, TapsFollowEachOther
  <2>2. ~failed =>
          /\ list = chain.moves[Len(chain.moves)].shows
          /\ \A k \in 2..Len(chain.moves) :
               chain.moves[k].shows = Moved(chain.moves[k - 1].shows, chain.moves[k].item, chain.moves[k].way)
          /\ pi = chain.moves[1].shows /\ chain.answer = chain.moves[1].shows
    BY <1>1, <1>2, <1>5 DEF PlaylistInv, TapsFollowEachOther, Pending
  <2>3. CASE rest = <<>>
    <3>1. ~failed => list = confirmed
      BY <1>2, <1>5, <2>2, <2>3 DEF confirmed
    <3> QED BY <1>1, <2>1, <2>3, <3>1
  <2>4. CASE rest # <<>>
    <3>1. rows' = list' /\ list' = list
      BY <1>1, <2>1, <2>4
    <3> SUFFICES ASSUME ~failed
                 PROVE  /\ list = rest[Len(rest)].shows
                        /\ \A k \in 2..Len(rest) : rest[k].shows = Moved(rest[k - 1].shows, rest[k].item, rest[k].way)
                        /\ rest[1].shows = Moved(pi, rest[1].item, rest[1].way)
      BY <3>1
    <3>2. Len(chain.moves) >= 2 /\ rest[Len(rest)] = chain.moves[Len(chain.moves)] /\ rest[1] = chain.moves[2]
      BY <1>2, <2>4
    <3>3. ASSUME NEW k \in 2..Len(rest)
          PROVE  /\ rest[k] = chain.moves[k + 1] /\ rest[k - 1] = chain.moves[k]
                 /\ k + 1 \in 2..Len(chain.moves) /\ (k + 1) - 1 = k
      <4>1. /\ Len(rest) \in Nat /\ Len(chain.moves) = Len(rest) + 1
            /\ \A i \in 1..Len(rest) : rest[i] = chain.moves[i + 1]
        BY <1>2, <2>4
      <4>2. k \in 1..Len(rest) /\ k - 1 \in 1..Len(rest) /\ (k - 1) + 1 = k /\ (k + 1) - 1 = k
        BY <4>1
      <4>3. k + 1 \in 2..Len(chain.moves)
        BY <4>1
      <4> QED BY <4>1, <4>2, <4>3
    <3>4. 2 \in 2..Len(chain.moves) /\ 2 - 1 = 1
      BY <1>2, <3>2
    <3>5. \A k \in 2..Len(rest) : rest[k].shows = Moved(rest[k - 1].shows, rest[k].item, rest[k].way)
      <4> TAKE k \in 2..Len(rest)
      <4>1. chain.moves[k + 1].shows
              = Moved(chain.moves[(k + 1) - 1].shows, chain.moves[k + 1].item, chain.moves[k + 1].way)
        BY <2>2, <3>3
      <4> QED BY <3>3, <4>1
    <3>6. rest[1].shows = Moved(pi, rest[1].item, rest[1].way)
      BY <2>2, <3>2, <3>4
    <3> QED BY <2>2, <3>2, <3>5, <3>6
  <2> QED BY <2>3, <2>4
<1> QED BY <1>8, <1>9, <1>10, <1>11 DEF PlaylistInv

LEMMA FollowsKeepsInv ==
  ASSUME PlaylistInv, WhatFollows
  PROVE  PlaylistInv'
<1>1. /\ PlaylistTypeOK /\ chain \in ChainState /\ chain.after # "no" /\ chain.saving = "no"
      /\ UNCHANGED <<pi, had, read, change, broken, moves>> /\ others' \in 0..MaxChanges
      /\ pi \in Order /\ chain.answer \in Order /\ pi \in had /\ chain.answer \in had
  BY OthersCount DEF PlaylistInv, PlaylistTypeOK, ChainState, WhatFollows, AfterMoves,
     MovesGoOneByOne, OrdersAreReal
<1>2. PICK after \in {"no", "asked"}, answer \in {chain.answer, pi} :
        chain' = [chain EXCEPT !.after = after, !.answer = answer]
  <2>1. chain = [chain EXCEPT !.answer = chain.answer]
    BY <1>1 DEF ChainState
  <2>2. CASE chain' = [chain EXCEPT !.after = "no"]
    <3> DEFINE same == chain.answer
    <3>1. [chain EXCEPT !.after = "no"] = [chain EXCEPT !.after = "no", !.answer = same]
      BY <1>1 DEF ChainState
    <3> QED BY <2>2, <3>1
  <2>3. CASE chain' = [chain EXCEPT !.after = "asked", !.answer = pi]
    BY <2>3
  <2> QED BY <2>2, <2>3 DEF WhatFollows, AfterMoves
<1>3. /\ chain' \in ChainState /\ chain'.moves = chain.moves /\ chain'.saving = "no" /\ chain'.failed = chain.failed
      /\ chain'.confirmed = chain.confirmed /\ chain'.answer = answer /\ chain'.alone = chain.alone
  BY <1>1, <1>2 DEF ChainState
<1>4. UNCHANGED <<list, rows>> \/ (~Pending /\ Shows(chain.answer))
  BY DEF WhatFollows, AfterMoves
<1>5. MovesGoOneByOne'
  BY <1>3 DEF MovesGoOneByOne
<1>6. CASE UNCHANGED <<list, rows>>
  <2>1. PlaylistTypeOK' /\ OrdersAreReal'
    BY <1>1, <1>3, <1>6 DEF PlaylistInv, PlaylistTypeOK, ChainState, OrdersAreReal, Pending
  <2>2. TapsFollowEachOther'
    BY <1>1, <1>3, <1>6 DEF PlaylistInv, TapsFollowEachOther, Pending
  <2> QED BY <1>5, <2>1, <2>2 DEF PlaylistInv
<1>7. CASE ~Pending /\ Shows(chain.answer)
  <2>1. list' = chain.answer /\ rows' = chain.answer /\ ~Pending'
    BY <1>3, <1>7 DEF Shows, Pending
  <2>2. PlaylistTypeOK' /\ OrdersAreReal'
    BY <1>1, <1>3, <2>1 DEF PlaylistInv, PlaylistTypeOK, ChainState, OrdersAreReal
  <2>3. TapsFollowEachOther'
    BY <2>1 DEF TapsFollowEachOther
  <2> QED BY <1>5, <2>2, <2>3 DEF PlaylistInv
<1> QED BY <1>4, <1>6, <1>7

LEMMA ReadsKeepInv ==
  ASSUME PlaylistInv, Read \/ PiIsRead \/ LoseRead
  PROVE  PlaylistInv'
<1>1. /\ PlaylistTypeOK /\ others' \in 0..MaxChanges /\ Len(chain.moves) \in Nat /\ pi \in had /\ pi \in Order
      /\ read.answer \in had /\ UNCHANGED <<pi, had, list, rows, chain, change, broken, moves>>
  BY OthersCount DEF PlaylistInv, PlaylistTypeOK, OrdersAreReal, Read, PiIsRead, LoseRead
<1>2. /\ read' \in [at : {"no", "waits", "answered"}, behind : Nat, answer : Order]
      /\ read'.answer \in had
  <2>1. CASE Read
    <3>1. read' = [read EXCEPT !.at = "waits", !.behind = Len(chain.moves)]
      BY <2>1 DEF Read
    <3> QED BY <1>1, <3>1 DEF PlaylistTypeOK
  <2>2. CASE PiIsRead
    <3>1. read' = [read EXCEPT !.at = "answered", !.answer = pi]
      BY <2>2 DEF PiIsRead
    <3> QED BY <1>1, <3>1 DEF PlaylistTypeOK
  <2>3. CASE LoseRead
    <3>1. read' = [read EXCEPT !.at = "no"]
      BY <2>3 DEF LoseRead
    <3> QED BY <1>1, <3>1 DEF PlaylistTypeOK
  <2> QED BY <2>1, <2>2, <2>3
<1>3. change.answer \in had
  BY DEF PlaylistInv, OrdersAreReal
<1> QED BY <1>1, <1>2, <1>3, RequestKeepsInv DEF PlaylistTypeOK

LEMMA ReadAnswerKeepsInv ==
  ASSUME PlaylistInv, ReadAnswer
  PROVE  PlaylistInv'
<1>1. /\ PlaylistTypeOK /\ read.answer \in had /\ read.answer \in Order /\ change.answer \in had
      /\ read' = [read EXCEPT !.at = "no"] /\ UNCHANGED <<pi, had, chain, change, broken, moves, others>>
  BY DEF PlaylistInv, PlaylistTypeOK, OrdersAreReal, ReadAnswer
<1>2. read' \in [at : {"no", "waits", "answered"}, behind : Nat, answer : Order] /\ read'.answer = read.answer
  BY <1>1 DEF PlaylistTypeOK
<1>3. CASE Pending
  BY <1>1, <1>2, <1>3, RequestKeepsInv DEF ReadAnswer, PlaylistTypeOK
<1>4. CASE ~Pending
  <2>1. Shows(read.answer)
    BY <1>4 DEF ReadAnswer
  <2> QED BY <1>1, <1>2, <1>4, <2>1, ShownKeepsInv DEF PlaylistTypeOK
<1> QED BY <1>3, <1>4

LEMMA OpenPageKeepsInv ==
  ASSUME PlaylistInv, OpenPage
  PROVE  PlaylistInv'
<1>1. rows' = list /\ UNCHANGED <<pi, had, list, chain, read, change, broken, moves, others>>
  BY DEF OpenPage
<1>2. PlaylistTypeOK' /\ OrdersAreReal' /\ MovesGoOneByOne'
  BY <1>1 DEF PlaylistInv, PlaylistTypeOK, OrdersAreReal, MovesGoOneByOne, Pending
<1>3. TapsFollowEachOther'
  BY <1>1 DEF PlaylistInv, TapsFollowEachOther, Pending
<1> QED BY <1>2, <1>3 DEF PlaylistInv

LEMMA ChangesKeepInv ==
  ASSUME PlaylistInv, (\E x \in Item : Change(x)) \/ SendChange \/ LoseChange
  PROVE  PlaylistInv'
<1>1. /\ PlaylistTypeOK /\ others' \in 0..MaxChanges /\ change.answer \in had /\ read.answer \in had
      /\ UNCHANGED <<pi, had, list, rows, chain, read, broken, moves>>
  BY OthersCount DEF PlaylistInv, PlaylistTypeOK, OrdersAreReal, Change, SendChange, LoseChange
<1>2. /\ change' \in [at : {"no", "waits", "sent", "done"}, item : Item \cup {None}, answer : Order]
      /\ change'.answer \in had /\ (change'.at # "no" => change'.item \in Item)
  <2>1. ASSUME NEW x \in Item, Change(x)
        PROVE  change' = [change EXCEPT !.at = "waits", !.item = x]
    BY <2>1 DEF Change
  <2>2. CASE SendChange
    <3>1. change' = [change EXCEPT !.at = "sent"] /\ change.at # "no"
      BY <2>2 DEF SendChange
    <3> QED BY <1>1, <3>1 DEF PlaylistTypeOK
  <2>3. CASE LoseChange
    <3>1. change' = [change EXCEPT !.at = "no"]
      BY <2>3 DEF LoseChange
    <3> QED BY <1>1, <3>1 DEF PlaylistTypeOK
  <2>4. ASSUME NEW x \in Item, change' = [change EXCEPT !.at = "waits", !.item = x]
        PROVE  /\ change' \in [at : {"no", "waits", "sent", "done"}, item : Item \cup {None}, answer : Order]
               /\ change'.answer \in had /\ change'.item \in Item
    BY <1>1, <2>4 DEF PlaylistTypeOK
  <2> QED BY <2>1, <2>2, <2>3, <2>4
<1> QED BY <1>1, <1>2, RequestKeepsInv DEF PlaylistTypeOK

\* Somebody else has changed the playlist.
LEMMA EditKeepsInv ==
  ASSUME PlaylistInv, NEW now \in Order, Saves(now), chain' = [chain EXCEPT !.alone = FALSE],
         UNCHANGED <<list, rows, read, broken, moves>>, others' \in 0..MaxChanges,
         change' \in [at : {"no", "waits", "sent", "done"}, item : Item \cup {None}, answer : Order],
         change'.answer \in had', change'.at # "no" => change'.item \in Item
  PROVE  PlaylistInv'
<1>1. pi' = now /\ had' = had \cup {now} /\ chain \in ChainState
  BY DEF Saves, PlaylistInv, PlaylistTypeOK, ChainState
<1>2. /\ chain' \in ChainState /\ chain'.moves = chain.moves /\ chain'.saving = chain.saving
      /\ chain'.failed = chain.failed /\ chain'.confirmed = chain.confirmed /\ chain'.answer = chain.answer
      /\ chain'.after = chain.after /\ ~chain'.alone
  BY <1>1 DEF ChainState
<1>3. PlaylistTypeOK'
  BY <1>1, <1>2 DEF PlaylistInv, PlaylistTypeOK, ChainState
<1>4. OrdersAreReal' /\ MovesGoOneByOne'
  BY <1>1, <1>2 DEF PlaylistInv, OrdersAreReal, MovesGoOneByOne, Pending
<1>5. TapsFollowEachOther'
  BY <1>2 DEF TapsFollowEachOther
<1> QED BY <1>3, <1>4, <1>5 DEF PlaylistInv

LEMMA PiChangesKeepsInv ==
  ASSUME PlaylistInv, PiChanges
  PROVE  PlaylistInv'
<1> DEFINE now == Edited(pi, change.item)
<1>1. /\ PlaylistTypeOK /\ change.item \in Item /\ pi \in Order /\ Saves(now)
      /\ change' = [change EXCEPT !.at = "done", !.answer = now] /\ chain' = [chain EXCEPT !.alone = FALSE]
      /\ UNCHANGED <<list, rows, read, broken, moves, others>>
  BY DEF PlaylistInv, PlaylistTypeOK, PiChanges
<1>2. now \in Order
  BY <1>1, EditedIsOrder
<1> HIDE DEF now
<1>3. /\ change' \in [at : {"no", "waits", "sent", "done"}, item : Item \cup {None}, answer : Order]
      /\ change'.answer = now /\ change'.item \in Item
  BY <1>1, <1>2 DEF PlaylistTypeOK
<1>4. now \in had'
  BY <1>1 DEF Saves
<1> QED BY <1>1, <1>2, <1>3, <1>4, EditKeepsInv DEF PlaylistTypeOK

LEMMA ChangeAnswerKeepsInv ==
  ASSUME PlaylistInv, ChangeAnswer
  PROVE  PlaylistInv'
<1>1. /\ change.answer \in Order /\ change.answer \in had /\ list' = change.answer /\ rows' = change.answer
      /\ change' = [change EXCEPT !.at = "no"] /\ chain' = [chain EXCEPT !.alone = FALSE] /\ chain \in ChainState
      /\ UNCHANGED <<pi, had, read, broken, moves, others>>
  BY DEF PlaylistInv, PlaylistTypeOK, ChainState, OrdersAreReal, ChangeAnswer, Shows
<1>2. /\ chain' \in ChainState /\ chain'.moves = chain.moves /\ chain'.saving = chain.saving
      /\ chain'.failed = chain.failed /\ chain'.confirmed = chain.confirmed /\ chain'.answer = chain.answer
      /\ chain'.after = chain.after /\ ~chain'.alone
  BY <1>1 DEF ChainState
<1>3. /\ change' \in [at : {"no", "waits", "sent", "done"}, item : Item \cup {None}, answer : Order]
      /\ change'.answer = change.answer /\ change'.at = "no"
  BY <1>1 DEF PlaylistInv, PlaylistTypeOK
<1>4. PlaylistTypeOK'
  BY <1>1, <1>2, <1>3 DEF PlaylistInv, PlaylistTypeOK, ChainState
<1>5. OrdersAreReal' /\ MovesGoOneByOne'
  BY <1>1, <1>2, <1>3 DEF PlaylistInv, OrdersAreReal, MovesGoOneByOne, Pending
<1>6. TapsFollowEachOther'
  BY <1>2 DEF TapsFollowEachOther
<1> QED BY <1>4, <1>5, <1>6 DEF PlaylistInv

LEMMA OtherDeviceKeepsInv ==
  ASSUME PlaylistInv, OtherDevice
  PROVE  PlaylistInv'
<1>1. /\ PlaylistTypeOK /\ others' \in 0..MaxChanges /\ pi \in Order /\ change.answer \in had
      /\ chain' = [chain EXCEPT !.alone = FALSE] /\ UNCHANGED <<list, rows, read, change, broken, moves>>
  BY OthersCount DEF PlaylistInv, PlaylistTypeOK, OrdersAreReal, OtherDevice
<1>2. PICK now \in Order : Saves(now)
  <2>1. ASSUME NEW x \in Item, NEW way \in {"up", "down"}, CanMove(pi, x, way), Saves(Moved(pi, x, way))
        PROVE  \E now \in Order : Saves(now)
    BY <1>1, <2>1, MovedIsOrder
  <2>2. ASSUME NEW x \in Item, Saves(Edited(pi, x))
        PROVE  \E now \in Order : Saves(now)
    BY <1>1, <2>2, EditedIsOrder
  <2> QED BY <2>1, <2>2 DEF OtherDevice
<1>3. change.answer \in had'
  BY <1>1, <1>2 DEF Saves
<1> QED BY <1>1, <1>2, <1>3, EditKeepsInv DEF PlaylistTypeOK

(* ------------------------------------------------------------------------ *)
(* The specification of the playlist.                                         *)

LEMMA PlaylistInitHasInv == PlaylistInit => PlaylistInv
<1> SUFFICES ASSUME PlaylistInit PROVE PlaylistInv
  OBVIOUS
<1>1. pi \in Order
  <2>1. Cardinality(Item) \in Nat /\ Bijection(1..Cardinality(Item), Item) # {}
    BY FS_CardinalityType, PlaylistAssumption DEF ExistsBijection
  <2>2. pi \in Bijection(1..Cardinality(Item), Item)
    BY <2>1 DEF PlaylistInit
  <2>3. pi \in [1..Cardinality(Item) -> Item]
    BY <2>2 DEF Bijection, Injection
  <2> QED BY <2>1, <2>3, SeqDef DEF Order
<1>2. /\ had = {pi} /\ list = pi /\ rows = pi /\ moves = 0 /\ others = 0
      /\ chain = [moves |-> <<>>, saving |-> "no", failed |-> FALSE, confirmed |-> pi,
                  answer |-> pi, after |-> "no", alone |-> TRUE]
      /\ read = [at |-> "no", behind |-> 0, answer |-> pi]
      /\ change = [at |-> "no", item |-> None, answer |-> pi]
  BY DEF PlaylistInit
<1>3. PlaylistTypeOK
  BY <1>1, <1>2, PlaylistAssumption DEF PlaylistTypeOK
<1>4. OrdersAreReal /\ MovesGoOneByOne /\ TapsFollowEachOther
  BY <1>2 DEF OrdersAreReal, MovesGoOneByOne, TapsFollowEachOther, Pending
<1> QED BY <1>3, <1>4 DEF PlaylistInv

LEMMA PlaylistStepKeepsInv == PlaylistInv /\ [PlaylistNext]_playlistVars => PlaylistInv'
<1> SUFFICES ASSUME PlaylistInv, [PlaylistNext]_playlistVars PROVE PlaylistInv'
  OBVIOUS
<1>1. ASSUME NEW x \in Item, NEW way \in {"up", "down"}, TapMove(x, way) PROVE PlaylistInv'
  BY <1>1, TapKeepsInv
<1>2. ASSUME SendMove \/ PiMoves \/ LoseMove \/ EndMove \/ WhatFollows PROVE PlaylistInv'
  BY <1>2, SendMoveKeepsInv, PiMovesKeepsInv, LoseMoveKeepsInv, EndMoveKeepsInv, FollowsKeepsInv
<1>3. ASSUME Read \/ PiIsRead \/ LoseRead \/ ReadAnswer \/ OpenPage PROVE PlaylistInv'
  BY <1>3, ReadsKeepInv, ReadAnswerKeepsInv, OpenPageKeepsInv
<1>4. ASSUME (\E x \in Item : Change(x)) \/ SendChange \/ LoseChange PROVE PlaylistInv'
  BY <1>4, ChangesKeepInv
<1>5. ASSUME PiChanges \/ ChangeAnswer \/ OtherDevice PROVE PlaylistInv'
  BY <1>5, PiChangesKeepsInv, ChangeAnswerKeepsInv, OtherDeviceKeepsInv
<1>6. CASE UNCHANGED playlistVars
  BY <1>6, RequestKeepsInv DEF playlistVars, PlaylistInv, PlaylistTypeOK, OrdersAreReal
<1> QED BY <1>1, <1>2, <1>3, <1>4, <1>5, <1>6 DEF PlaylistNext

LEMMA PlaylistInvHolds == PlaylistSpec => []PlaylistInv
<1> QED BY PlaylistInitHasInv, PlaylistStepKeepsInv, PTL DEF PlaylistSpec

(* Whatever is tapped, lost or edited elsewhere, the orders, the moves that    *)
(* wait and the requests have their shape (family/playlists.js).              *)
THEOREM PlaylistTypeCorrect == PlaylistSpec => []PlaylistTypeOK
<1>1. PlaylistInv => PlaylistTypeOK
  BY DEF PlaylistInv
<1> QED BY <1>1, PlaylistInvHolds, PTL

(* Of rows moved faster than they are saved, the page keeps only orders the    *)
(* Pi had, every move does what its row showed, and the rows are the list     *)
(* (movePlaylistItem, docs/family-collections.md:23).                          *)
THEOREM PlaylistStaysHonest == PlaylistSpec => []PlaylistIsHonest
<1>1. PlaylistInv => PlaylistIsHonest
  <2> SUFFICES ASSUME PlaylistInv PROVE PlaylistIsHonest
    OBVIOUS
  <2>1. QuietListIsReal
    BY DEF PlaylistInv, OrdersAreReal, QuietListIsReal
  <2>2. MoveDoesWhatItShowed
    BY DEF PlaylistInv, MovesGoOneByOne, TapsFollowEachOther, MoveDoesWhatItShowed
  <2>3. RowsAreTheList
    BY DEF PlaylistInv, TapsFollowEachOther, RowsAreTheList
  <2> QED BY <2>1, <2>2, <2>3 DEF PlaylistIsHonest
<1> QED BY <1>1, PlaylistInvHolds, PTL

-----------------------------------------------------------------------------
(* The page of Up Next. *)

QueueValue == [order : Seq(Entry), phase : {"waiting", "starting", "playing"}]
ChangeAction == {"add", "clear", "start", "remove", "up", "down"}
ChangeState == [action : ChangeAction, entry : Entry \cup {Nothing}, step : {"asked", "done", "refused"},
                data : QueueValue, question : BOOLEAN]

PageTypeOK ==
  /\ queue \in QueueValue /\ shown \in QueueValue
  /\ queueRead \in [step : {"idle", "asked", "read"}, data : QueueValue]
  /\ queueChange \subseteq ChangeState
  /\ view \in {"home", "queue", "away"}
  /\ question \in [open : BOOLEAN, action : {Nothing, "remove", "clear"}, entry : Entry \cup {Nothing}]
  /\ question.open => question.action # Nothing
  /\ accept \in BOOLEAN /\ used \subseteq Entry /\ late \in BOOLEAN /\ elsewhere \subseteq Entry
  /\ taps \in Nat /\ upsets \in Nat

EachOnce(order) == \A i, k \in DOMAIN order : order[i] = order[k] => i = k

(* A queue of different entries, busy only with one of them.                  *)
WellFormed(q) == q \in QueueValue /\ EachOnce(q.order) /\ (Active(q) => q.order # <<>>)

(* An entry is added once, so the queue never holds it twice.                 *)
EntriesAreUsedOnce ==
  /\ WellFormed(queue) /\ Range(queue.order) \subseteq used
  /\ \A c \in queueChange : c.action = "add" =>
       c.entry \in used /\ (c.step = "asked" => c.entry \notin Range(queue.order))
  /\ \A c, d \in queueChange : c.action = "add" /\ d.action = "add" /\ c.entry = d.entry => c = d

QuestionsAreAskedOnce ==
  /\ \A c \in queueChange : c.question => ~accept
  /\ \A c, d \in queueChange : c.question /\ d.question => c = d

(* A page that shows an empty queue misses only what others have added, or is *)
(* about to be told.                                                          *)
AddIsOnItsWay == \E c \in queueChange : c.step = "done" /\ c.action = "add"

EmptyIsUpToDate ==
  /\ ~late /\ shown = Waiting(<<>>) => Range(queue.order) \subseteq elsewhere \/ AddIsOnItsWay
  /\ \A c \in queueChange : c.step = "done" /\ c.action = "add" => c.data.order # <<>>

PageInv == PageTypeOK /\ EntriesAreUsedOnce /\ QuestionsAreAskedOnce /\ EmptyIsUpToDate

-----------------------------------------------------------------------------
(* What a change leaves is made of what was there.                            *)
OnlyOf(order, of) == EachOnce(order) /\ order \in Seq(Entry) /\ Range(order) \subseteq Range(of)

LEMMA PlaceIsThere ==
  ASSUME NEW q \in QueueValue, NEW e \in Range(q.order)
  PROVE  Place(q, e) \in DOMAIN q.order /\ q.order[Place(q, e)] = e
BY DEF Place, Range

LEMMA ThePlaceIs ==
  ASSUME NEW q \in QueueValue, EachOnce(q.order), NEW i \in DOMAIN q.order
  PROVE  q.order[i] \in Range(q.order) /\ Place(q, q.order[i]) = i
<1>1. q.order[i] \in Range(q.order)
  BY DEF Range
<1>2. Place(q, q.order[i]) \in DOMAIN q.order /\ q.order[Place(q, q.order[i])] = q.order[i]
  BY <1>1, PlaceIsThere
<1> QED BY <1>1, <1>2 DEF EachOnce

LEMMA DropOnlyDrops ==
  ASSUME NEW seq \in Seq(Entry), EachOnce(seq), NEW k \in DOMAIN seq
  PROVE  OnlyOf(Drop(seq, k), seq)
<1> DEFINE d == Drop(seq, k)
           at(i) == IF i < k THEN i ELSE i + 1
<1>1. Len(seq) \in Nat /\ DOMAIN seq = 1..Len(seq) /\ Len(seq) - 1 \in Nat
  BY LenProperties
<1>2. DOMAIN d = 1..(Len(seq) - 1) /\ \A i \in DOMAIN d : at(i) \in DOMAIN seq /\ d[i] = seq[at(i)]
  BY <1>1 DEF Drop
<1>3. d \in Seq(Entry)
  BY <1>1, SMT DEF Drop
<1> HIDE DEF d
<1>4. EachOnce(d)
  BY <1>1, <1>2 DEF EachOnce
<1>5. Range(d) \subseteq Range(seq)
  BY <1>2 DEF Range
<1> QED BY <1>3, <1>4, <1>5 DEF OnlyOf, d

LEMMA ExchangeKeepsEntries ==
  ASSUME NEW q \in QueueValue, EachOnce(q.order), NEW i \in DOMAIN q.order, NEW j \in DOMAIN q.order
  PROVE  /\ OnlyOf(Exchanged(q, i, j).order, q.order) /\ Exchanged(q, i, j) \in QueueValue
         /\ Exchanged(q, i, j).phase = q.phase /\ Exchanged(q, i, j).order # <<>>
<1> DEFINE s == [q.order EXCEPT ![i] = q.order[j], ![j] = q.order[i]]
<1>1. q.order \in Seq(Entry) /\ Len(q.order) \in Nat /\ DOMAIN q.order = 1..Len(q.order)
  BY LenProperties DEF QueueValue
<1>2. Exchanged(q, i, j).order = s /\ Exchanged(q, i, j).phase = q.phase
  BY DEF Exchanged, QueueValue
<1>3. DOMAIN s = DOMAIN q.order /\ s \in Seq(Entry)
  BY <1>1
<1>4. Exchanged(q, i, j) \in QueueValue
  BY <1>3 DEF Exchanged, QueueValue
<1>5. \A k \in DOMAIN s : s[k] = q.order[IF k = j THEN i ELSE IF k = i THEN j ELSE k]
  BY <1>1
<1> HIDE DEF s
<1>6. EachOnce(s)
  BY <1>3, <1>5 DEF EachOnce
<1>7. Range(s) \subseteq Range(q.order)
  BY <1>3, <1>5 DEF Range
<1>8. s # <<>>
  BY <1>1, <1>3
<1> QED BY <1>2, <1>3, <1>4, <1>6, <1>7, <1>8 DEF OnlyOf

LEMMA AppendAddsOne ==
  ASSUME NEW seq \in Seq(Entry), EachOnce(seq), NEW e \in Entry \ Range(seq)
  PROVE  /\ Append(seq, e) \in Seq(Entry) /\ EachOnce(Append(seq, e)) /\ Append(seq, e) # <<>>
         /\ Range(Append(seq, e)) \subseteq Range(seq) \cup {e}
<1> DEFINE a == Append(seq, e)
<1>1. Len(seq) \in Nat /\ DOMAIN seq = 1..Len(seq)
  BY LenProperties
<1>2. /\ a \in Seq(Entry) /\ Len(a) = Len(seq) + 1 /\ DOMAIN a = 1..(Len(seq) + 1)
      /\ \A i \in 1..Len(seq) : a[i] = seq[i] /\ a[Len(seq) + 1] = e
  BY <1>1, AppendProperties, LenProperties
<1>3. a[Len(seq) + 1] = e
  BY <1>1, AppendProperties
<1> HIDE DEF a
<1>4. \A i \in 1..Len(seq) : a[i] \in Range(seq) /\ a[i] # e
  BY <1>1, <1>2 DEF Range
<1>5. EachOnce(a)
  BY <1>1, <1>2, <1>3, <1>4 DEF EachOnce
<1>6. Range(a) \subseteq Range(seq) \cup {e}
  BY <1>1, <1>2, <1>3, <1>4 DEF Range
<1>7. a # <<>>
  BY <1>1, <1>2
<1> QED BY <1>2, <1>5, <1>6, <1>7 DEF a

LEMMA FirstAloneIsOne ==
  ASSUME NEW seq \in Seq(Entry), seq # <<>>
  PROVE  OnlyOf(SubSeq(seq, 1, 1), seq) /\ SubSeq(seq, 1, 1) # <<>>
<1>1. Len(seq) \in Nat /\ Len(seq) >= 1 /\ DOMAIN seq = 1..Len(seq)
  BY LenProperties, EmptySeq
<1> DEFINE one == SubSeq(seq, 1, 1)
<1>2. one \in Seq(Entry) /\ Len(one) = 1 /\ one[1] = seq[1]
  BY <1>1, SubSeqProperties
<1>3. seq[1] \in Entry /\ seq[1] \in Range(seq)
  BY <1>1 DEF Range
<1> HIDE DEF one
<1>4. DOMAIN one = 1..1 /\ one # <<>>
  <2>1. DOMAIN one = 1..Len(one)
    BY <1>2, LenProperties
  <2> QED BY <1>2, <2>1
<1>5. EachOnce(one) /\ Range(one) \subseteq Range(seq)
  BY <1>2, <1>3, <1>4 DEF EachOnce, Range
<1> QED BY <1>2, <1>4, <1>5 DEF OnlyOf, one

LEMMA TailOnlyDrops ==
  ASSUME NEW seq \in Seq(Entry), EachOnce(seq), seq # <<>>
  PROVE  OnlyOf(Tail(seq), seq) /\ (Len(seq) # 1 => Tail(seq) # <<>>)
<1>1. Len(seq) \in Nat /\ Len(seq) >= 1 /\ DOMAIN seq = 1..Len(seq)
  BY LenProperties, EmptySeq
<1> DEFINE t == Tail(seq)
<1>2. /\ t \in Seq(Entry) /\ Len(t) = Len(seq) - 1 /\ DOMAIN t = 1..(Len(seq) - 1)
      /\ \A i \in 1..(Len(seq) - 1) : t[i] = seq[i + 1]
  BY <1>1
<1> HIDE DEF t
<1>3. EachOnce(t)
  <2> SUFFICES ASSUME NEW i \in 1..(Len(seq) - 1), NEW k \in 1..(Len(seq) - 1), seq[i + 1] = seq[k + 1]
               PROVE  i = k
    BY <1>2 DEF EachOnce
  <2>1. i + 1 \in DOMAIN seq /\ k + 1 \in DOMAIN seq
    BY <1>1
  <2>2. i + 1 = k + 1
    BY <2>1 DEF EachOnce
  <2> QED BY <1>1, <2>2
<1>4. Range(t) \subseteq Range(seq)
  BY <1>1, <1>2 DEF Range
<1>5. Len(seq) # 1 => t # <<>>
  BY <1>1, <1>2
<1> QED BY <1>2, <1>3, <1>4, <1>5 DEF OnlyOf, t

(* What an accepted change makes of a queue.                                  *)
LEMMA AfterIsWellFormed ==
  ASSUME NEW q, WellFormed(q), NEW action \in ChangeAction, NEW e, Accepts(q, action, e),
         action = "add" => e \in Entry \ Range(q.order)
  PROVE  /\ WellFormed(After(q, action, e))
         /\ Range(After(q, action, e).order) \subseteq Range(q.order) \cup (IF action = "add" THEN {e} ELSE {})
         /\ action = "add" => After(q, action, e).order # <<>>
         /\ action # "add" /\ q = Waiting(<<>>) => After(q, action, e) = q
<1>1. /\ q \in QueueValue /\ q.order \in Seq(Entry) /\ EachOnce(q.order) /\ (Active(q) => q.order # <<>>)
      /\ q.phase \in {"waiting", "starting", "playing"}
  BY DEF WellFormed, QueueValue
<1>2. Range(<<>>) = {} /\ Waiting(<<>>) \in QueueValue /\ WellFormed(Waiting(<<>>))
  BY DEF Range, Waiting, QueueValue, WellFormed, Active, EachOnce
<1>3. CASE action = "add"
  <2>1. After(q, action, e) = [q EXCEPT !.order = Append(q.order, e)]
    BY <1>3 DEF After
  <2>2. /\ Append(q.order, e) \in Seq(Entry) /\ EachOnce(Append(q.order, e)) /\ Append(q.order, e) # <<>>
        /\ Range(Append(q.order, e)) \subseteq Range(q.order) \cup {e}
    BY <1>1, <1>3, AppendAddsOne
  <2>3. After(q, action, e) \in QueueValue /\ After(q, action, e).order = Append(q.order, e)
    BY <1>1, <2>1, <2>2 DEF QueueValue
  <2> QED BY <1>3, <2>2, <2>3 DEF WellFormed
<1>4. CASE action = "clear"
  <2>1. CASE q.phase = "playing"
    <3>1. After(q, action, e) = [q EXCEPT !.order = SubSeq(q.order, 1, 1)]
      BY <1>4, <2>1 DEF After
    <3>2. OnlyOf(SubSeq(q.order, 1, 1), q.order) /\ SubSeq(q.order, 1, 1) # <<>>
      BY <1>1, <2>1, FirstAloneIsOne DEF Active
    <3>3. After(q, action, e) \in QueueValue /\ After(q, action, e).order = SubSeq(q.order, 1, 1)
      BY <1>1, <3>1, <3>2 DEF QueueValue, OnlyOf
    <3>4. q # Waiting(<<>>)
      BY <2>1 DEF Waiting
    <3> QED BY <1>4, <3>2, <3>3, <3>4 DEF WellFormed, OnlyOf
  <2>2. CASE q.phase # "playing"
    <3>1. After(q, action, e) = Waiting(<<>>)
      BY <1>4, <2>2 DEF After
    <3>2. Waiting(<<>>).order = <<>>
      BY DEF Waiting
    <3> QED BY <1>2, <1>4, <3>1, <3>2
  <2> QED BY <2>1, <2>2
<1>5. CASE action = "start"
  <2>1. q.order # <<>>
    BY <1>5 DEF Accepts
  <2>2. /\ After(q, action, e) \in QueueValue /\ After(q, action, e).order = q.order
    <3>1. After(q, action, e) = IF q.phase = "playing" THEN q ELSE [q EXCEPT !.phase = "starting"]
      BY <1>5 DEF After
    <3> QED BY <1>1, <3>1 DEF QueueValue
  <2>3. q # Waiting(<<>>)
    BY <2>1 DEF Waiting
  <2> QED BY <1>1, <1>5, <2>1, <2>2, <2>3 DEF WellFormed
<1>6. CASE action = "remove"
  <2>1. e \in Range(q.order) /\ e # AtWork(q)
    BY <1>6 DEF Accepts
  <2>2. After(q, action, e) = [q EXCEPT !.order = Drop(q.order, Place(q, e))]
    BY <1>6 DEF After
  <2>3. Place(q, e) \in DOMAIN q.order /\ q.order[Place(q, e)] = e
    BY <1>1, <2>1, PlaceIsThere
  <2>4. OnlyOf(Drop(q.order, Place(q, e)), q.order)
    BY <1>1, <2>3, DropOnlyDrops
  <2>5. After(q, action, e) \in QueueValue /\ After(q, action, e).order = Drop(q.order, Place(q, e))
        /\ After(q, action, e).phase = q.phase
    BY <1>1, <2>2, <2>4 DEF QueueValue, OnlyOf
  <2>6. Active(q) => Drop(q.order, Place(q, e)) # <<>>
    <3> SUFFICES ASSUME Active(q) PROVE Drop(q.order, Place(q, e)) # <<>>
      OBVIOUS
    <3>1. Len(q.order) \in Nat /\ DOMAIN q.order = 1..Len(q.order) /\ q.order # <<>>
      BY <1>1, LenProperties
    <3>2. AtWork(q) = q.order[1]
      BY <1>1, <3>1 DEF AtWork
    <3>3. Place(q, e) # 1 /\ Len(q.order) >= 2
      BY <2>1, <2>3, <3>1, <3>2
    <3>4. 1 \in DOMAIN Drop(q.order, Place(q, e))
      BY <3>1, <3>3 DEF Drop
    <3> QED BY <3>4
  <2>7. q # Waiting(<<>>)
    BY <1>2, <2>1 DEF Waiting
  <2> QED BY <1>6, <2>4, <2>5, <2>6, <2>7 DEF WellFormed, OnlyOf, Active
<1>7. CASE action \in {"up", "down"}
  <2> DEFINE i == Place(q, e)
             j == Beside(action, Place(q, e))
  <2>1. e \in Range(q.order) /\ j \in DOMAIN q.order
    BY <1>7 DEF Accepts
  <2>2. After(q, action, e) = Exchanged(q, i, j)
    BY <1>7 DEF After
  <2>3. i \in DOMAIN q.order
    BY <1>1, <2>1, PlaceIsThere
  <2> HIDE DEF i, j
  <2>4. /\ OnlyOf(Exchanged(q, i, j).order, q.order) /\ Exchanged(q, i, j) \in QueueValue
        /\ Exchanged(q, i, j).phase = q.phase /\ Exchanged(q, i, j).order # <<>>
    BY <1>1, <2>1, <2>3, ExchangeKeepsEntries
  <2>5. q # Waiting(<<>>)
    BY <1>2, <2>1 DEF Waiting
  <2> QED BY <1>7, <2>2, <2>4, <2>5 DEF WellFormed, OnlyOf
<1> QED BY <1>3, <1>4, <1>5, <1>6, <1>7 DEF ChangeAction

-----------------------------------------------------------------------------
LEMMA NothingWaits == Range(Waiting(<<>>).order) = {}
BY DEF Range, Waiting

LEMMA PageInitIsSound == UpNextInit => PageInv
<1> SUFFICES ASSUME UpNextInit PROVE PageInv
  OBVIOUS
<1>1. Cardinality(Entry) \in Nat
  BY UpNextAssumption, FS_CardinalityType
<1>a. PICK n \in 0..Cardinality(Entry) : \E order \in [1..n -> Entry] :
        /\ \A i, k \in 1..n : order[i] = order[k] => i = k
        /\ queue = Waiting(order) /\ used = Range(order)
  BY DEF UpNextInit
<1>2. PICK order \in [1..n -> Entry] :
        /\ \A i, k \in 1..n : order[i] = order[k] => i = k
        /\ queue = Waiting(order) /\ used = Range(order)
  BY <1>a
<1>3. order \in Seq(Entry) /\ Range(order) \subseteq Entry
  BY <1>1, <1>2 DEF Range
<1>4. WellFormed(queue) /\ queue.order = order
  BY <1>2, <1>3 DEF WellFormed, EachOnce, QueueValue, Waiting, Active
<1>5. Waiting(<<>>) \in QueueValue
  BY DEF Waiting, QueueValue
<1>6. PageTypeOK
  BY <1>2, <1>3, <1>4, <1>5 DEF UpNextInit, PageTypeOK, WellFormed, Idle, NoQuestion
<1>7. EntriesAreUsedOnce /\ QuestionsAreAskedOnce
  BY <1>2, <1>4 DEF UpNextInit, EntriesAreUsedOnce, QuestionsAreAskedOnce
<1>8. EmptyIsUpToDate
  BY <1>2, NothingWaits DEF UpNextInit, EmptyIsUpToDate
<1> QED BY <1>6, <1>7, <1>8 DEF PageInv

LEMMA NoQuestionIsOne ==
  /\ NoQuestion \in [open : BOOLEAN, action : {Nothing, "remove", "clear"}, entry : Entry \cup {Nothing}]
  /\ ~NoQuestion.open
BY DEF NoQuestion

LEMMA AskedIsTyped == PageTypeOK => Asked \in [step : {"idle", "asked", "read"}, data : QueueValue]
BY DEF PageTypeOK, Asked

(* Reads and looking around touch no change and neither queue.                *)
LEMMA LookingIsSound ==
  ASSUME PageInv, UNCHANGED <<queue, shown, queueChange, used, late, elsewhere, accept>>,
         Poll \/ PiReads \/ ReadFails \/ Cancel \/ AskClear \/ (\E e \in Rows : AskRemove(e))
         \/ (\E v \in {"home", "queue", "away"} : Go(v))
  PROVE  PageInv'
<1>1. Asked \in [step : {"idle", "asked", "read"}, data : QueueValue] /\ PageTypeOK
  BY AskedIsTyped DEF PageInv
<1>2. Waiting(<<>>) \in QueueValue
  BY DEF Waiting, QueueValue
<1>3. PageTypeOK'
  <2>1. CASE Poll \/ PiReads \/ ReadFails
    BY <1>1, <1>2, <2>1 DEF PageTypeOK, Poll, PiReads, ReadFails, Idle
  <2>2. CASE Cancel \/ AskClear
    <3>1. /\ question' \in [open : BOOLEAN, action : {Nothing, "remove", "clear"}, entry : Entry \cup {Nothing}]
          /\ question'.open => question'.action # Nothing
      <4>1. CASE Cancel
        BY <4>1, NoQuestionIsOne DEF Cancel
      <4>2. CASE AskClear
        BY <4>2 DEF AskClear, Nothing
      <4> QED BY <2>2, <4>1, <4>2
    <3>2. taps' \in Nat /\ UNCHANGED <<queueRead, view, upsets>>
      BY <1>1, <2>2 DEF PageTypeOK, Cancel, AskClear, Tap
    <3> QED BY <1>1, <3>1, <3>2 DEF PageTypeOK
  <2>3. CASE \E e \in Rows : AskRemove(e)
    <3>1. PICK e \in Rows : AskRemove(e)
      BY <2>3
    <3>2. e \in Entry
      BY <1>1, <3>1 DEF Rows, Range, PageTypeOK, QueueValue
    <3> QED BY <1>1, <3>1, <3>2 DEF PageTypeOK, AskRemove, Tap, Nothing
  <2>4. CASE \E v \in {"home", "queue", "away"} : Go(v)
    BY <1>1, <2>4 DEF PageTypeOK, Go, Tap
  <2> QED BY <2>1, <2>2, <2>3, <2>4
<1>4. EntriesAreUsedOnce' /\ QuestionsAreAskedOnce' /\ EmptyIsUpToDate'
  BY DEF PageInv, EntriesAreUsedOnce, QuestionsAreAskedOnce, EmptyIsUpToDate, AddIsOnItsWay
<1> QED BY <1>3, <1>4 DEF PageInv

LEMMA LoadedIsSound ==
  ASSUME PageInv, Loaded
  PROVE  PageInv'
<1>1. PageTypeOK /\ queueRead.data \in QueueValue /\ Waiting(<<>>) \in QueueValue
  BY DEF PageInv, PageTypeOK, Waiting, QueueValue
<1>2. PageTypeOK'
  BY <1>1 DEF PageTypeOK, Loaded, Idle
<1>3. EntriesAreUsedOnce' /\ QuestionsAreAskedOnce'
  BY DEF PageInv, EntriesAreUsedOnce, QuestionsAreAskedOnce, Loaded
<1>4. EmptyIsUpToDate'
  BY NothingWaits DEF PageInv, EmptyIsUpToDate, Loaded
<1> QED BY <1>2, <1>3, <1>4 DEF PageInv

(* A change is sent.  Only an entry that was never used is added, and only an *)
(* enabled button answers the question.                                       *)
LEMMA SendsIsSound ==
  ASSUME PageInv, NEW action \in ChangeAction, NEW e \in Entry \cup {Nothing}, NEW asked \in BOOLEAN,
         Sends(action, e, asked), asked => accept /\ ~accept', ~asked => UNCHANGED accept,
         action = "add" => e \notin used /\ used' = used \cup {e} /\ e \in Entry,
         action # "add" => UNCHANGED used, Tap,
         UNCHANGED <<queue, shown, queueRead, view, question, upsets, late, elsewhere>>, accept' \in BOOLEAN
  PROVE  PageInv'
<1> DEFINE c == [action |-> action, entry |-> e, step |-> "asked", data |-> shown, question |-> asked]
<1>1. /\ queueChange' = queueChange \cup {c} /\ c \in ChangeState /\ c.step = "asked" /\ c.action = action
      /\ c.entry = e /\ c.question = asked
  BY DEF Sends, PageInv, PageTypeOK, ChangeState
<1> HIDE DEF c
<1>2. PageTypeOK'
  BY <1>1 DEF PageInv, PageTypeOK, Tap
<1>3. EntriesAreUsedOnce'
  BY <1>1 DEF PageInv, EntriesAreUsedOnce
<1>4. QuestionsAreAskedOnce'
  BY <1>1 DEF PageInv, QuestionsAreAskedOnce
<1>5. EmptyIsUpToDate'
  BY <1>1 DEF PageInv, EmptyIsUpToDate, AddIsOnItsWay
<1> QED BY <1>2, <1>3, <1>4, <1>5 DEF PageInv

LEMMA TapIsSound ==
  ASSUME PageInv,
         \/ (\E e \in Entry : AddToQueue(e)) \/ Start \/ Accept
         \/ (\E e \in Rows, action \in {"up", "down"} : MoveItem(e, action))
  PROVE  PageInv'
<1>1. PageTypeOK
  BY DEF PageInv
<1>2. CASE \E e \in Entry : AddToQueue(e)
  <2>1. PICK e \in Entry : AddToQueue(e)
    BY <1>2
  <2>2. "add" \in ChangeAction /\ FALSE \in BOOLEAN /\ accept' \in BOOLEAN
    BY <1>1, <2>1 DEF ChangeAction, AddToQueue, PageTypeOK
  <2>3. /\ Sends("add", e, FALSE) /\ UNCHANGED accept /\ e \notin used /\ used' = used \cup {e} /\ Tap
        /\ UNCHANGED <<queue, shown, queueRead, view, question, upsets, late, elsewhere>>
    BY <2>1 DEF AddToQueue
  <2> QED BY <2>2, <2>3, SendsIsSound
<1>3. CASE Start
  <2>1. "start" \in ChangeAction /\ FALSE \in BOOLEAN /\ accept' \in BOOLEAN
    BY <1>1, <1>3 DEF ChangeAction, Start, PageTypeOK
  <2>2. /\ Sends("start", Nothing, FALSE) /\ UNCHANGED <<accept, used>> /\ Tap
        /\ UNCHANGED <<queue, shown, queueRead, view, question, upsets, late, elsewhere>>
    BY <1>3 DEF Start
  <2> QED BY <2>1, <2>2, SendsIsSound
<1>4. CASE Accept
  <2>1. /\ question.action \in ChangeAction \ {"add"} /\ question.entry \in Entry \cup {Nothing} /\ TRUE \in BOOLEAN
        /\ accept' \in BOOLEAN
    BY <1>1, <1>4 DEF ChangeAction, Accept, PageTypeOK, Nothing
  <2>2. /\ Sends(question.action, question.entry, TRUE) /\ accept /\ ~accept' /\ UNCHANGED used /\ Tap
        /\ UNCHANGED <<queue, shown, queueRead, view, question, upsets, late, elsewhere>>
    BY <1>4 DEF Accept
  <2> QED BY <2>1, <2>2, SendsIsSound
<1>5. CASE \E e \in Rows, action \in {"up", "down"} : MoveItem(e, action)
  <2>1. PICK e \in Rows, action \in {"up", "down"} : MoveItem(e, action)
    BY <1>5
  <2>2. e \in Entry /\ action \in ChangeAction \ {"add"} /\ FALSE \in BOOLEAN /\ accept' \in BOOLEAN
    BY <1>1, <2>1 DEF ChangeAction, MoveItem, PageTypeOK, Rows, Range, QueueValue
  <2>3. /\ Sends(action, e, FALSE) /\ UNCHANGED <<accept, used>> /\ Tap
        /\ UNCHANGED <<queue, shown, queueRead, view, question, upsets, late, elsewhere>>
    BY <2>1 DEF MoveItem
  <2> QED BY <2>2, <2>3, SendsIsSound
<1> QED BY <1>2, <1>3, <1>4, <1>5

(* The Pi makes the change, or refuses it.                                    *)
LEMMA QueueChangesIsSound ==
  ASSUME PageInv, NEW c \in queueChange, QueueChanges(c)
  PROVE  PageInv'
<1> DEFINE after == After(queue, c.action, c.entry)
           done == [c EXCEPT !.step = "done", !.data = after]
           refused == [c EXCEPT !.step = "refused"]
<1>1. /\ PageTypeOK /\ EntriesAreUsedOnce /\ QuestionsAreAskedOnce /\ EmptyIsUpToDate
      /\ c \in ChangeState /\ c.step = "asked" /\ WellFormed(queue)
      /\ UNCHANGED <<shown, queueRead, view, question, accept, used, taps, upsets, late, elsewhere>>
  BY DEF PageInv, PageTypeOK, QueueChanges, EntriesAreUsedOnce
<1>2. c.action \in ChangeAction /\ (c.action = "add" => c.entry \in used /\ c.entry \in Entry \ Range(queue.order))
  BY <1>1 DEF ChangeState, EntriesAreUsedOnce, PageTypeOK
<1>3. CASE Accepts(queue, c.action, c.entry)
  <2>1. queue' = after /\ queueChange' = (queueChange \ {c}) \cup {done}
    BY <1>3 DEF QueueChanges
  <2>2. /\ WellFormed(after)
        /\ Range(after.order) \subseteq Range(queue.order) \cup (IF c.action = "add" THEN {c.entry} ELSE {})
        /\ c.action = "add" => after.order # <<>>
        /\ c.action # "add" /\ queue = Waiting(<<>>) => after = queue
    BY <1>1, <1>2, <1>3, AfterIsWellFormed
  <2> HIDE DEF after
  <2>3. /\ done \in ChangeState /\ done.step = "done" /\ done.action = c.action /\ done.entry = c.entry
        /\ done.data = after /\ done.question = c.question
    BY <1>1, <2>2 DEF ChangeState, WellFormed
  <2> HIDE DEF done
  <2>4. PageTypeOK'
    BY <1>1, <2>1, <2>2, <2>3 DEF PageTypeOK, WellFormed
  <2>5. EntriesAreUsedOnce'
    <3>1. WellFormed(queue') /\ Range(queue'.order) \subseteq used'
      BY <1>1, <1>2, <2>1, <2>2 DEF EntriesAreUsedOnce
    <3>2. ASSUME NEW d \in queueChange', d.action = "add"
          PROVE  d.entry \in used' /\ (d.step = "asked" => d.entry \notin Range(queue'.order))
      <4>1. CASE d = done
        BY <1>1, <1>2, <2>3, <3>2, <4>1
      <4>2. CASE d # done
        <5>1. d \in queueChange /\ d # c
          BY <2>1, <4>2
        <5>2. c.action = "add" => d.entry # c.entry
          BY <1>1, <3>2, <5>1 DEF EntriesAreUsedOnce
        <5> QED BY <1>1, <2>1, <2>2, <3>2, <5>1, <5>2 DEF EntriesAreUsedOnce
      <4> QED BY <4>1, <4>2
    <3>3. ASSUME NEW d \in queueChange', NEW d2 \in queueChange', d.action = "add", d2.action = "add",
                 d.entry = d2.entry
          PROVE  d = d2
      BY <1>1, <2>1, <2>3, <3>3 DEF EntriesAreUsedOnce
    <3> QED BY <3>1, <3>2, <3>3 DEF EntriesAreUsedOnce
  <2>6. QuestionsAreAskedOnce'
    BY <1>1, <2>1, <2>3 DEF QuestionsAreAskedOnce
  <2>7. EmptyIsUpToDate'
    <3>1. \A d \in queueChange' : d.step = "done" /\ d.action = "add" => d.data.order # <<>>
      BY <1>1, <2>1, <2>2, <2>3 DEF EmptyIsUpToDate
    <3>2. ASSUME ~late', shown' = Waiting(<<>>) PROVE Range(queue'.order) \subseteq elsewhere' \/ AddIsOnItsWay'
      <4>1. CASE c.action = "add"
        BY <2>1, <2>3, <4>1 DEF AddIsOnItsWay
      <4>2. CASE c.action # "add" /\ AddIsOnItsWay
        <5>1. PICK d \in queueChange : d.step = "done" /\ d.action = "add"
          BY <4>2 DEF AddIsOnItsWay
        <5>2. d \in queueChange'
          BY <1>1, <2>1, <5>1
        <5> QED BY <5>1, <5>2 DEF AddIsOnItsWay
      <4>3. CASE c.action # "add" /\ ~AddIsOnItsWay
        BY <1>1, <2>1, <2>2, <3>2, <4>3 DEF EmptyIsUpToDate
      <4> QED BY <4>1, <4>2, <4>3
    <3> QED BY <3>1, <3>2 DEF EmptyIsUpToDate
  <2> QED BY <2>4, <2>5, <2>6, <2>7 DEF PageInv
<1>4. CASE ~Accepts(queue, c.action, c.entry)
  <2>1. queue' = queue /\ queueChange' = (queueChange \ {c}) \cup {refused}
    BY <1>4 DEF QueueChanges
  <2>2. /\ refused \in ChangeState /\ refused.step = "refused" /\ refused.action = c.action
        /\ refused.entry = c.entry /\ refused.question = c.question
    BY <1>1 DEF ChangeState
  <2> HIDE DEF refused
  <2>3. PageTypeOK'
    BY <1>1, <2>1, <2>2 DEF PageTypeOK
  <2>4. EntriesAreUsedOnce'
    BY <1>1, <1>2, <2>1, <2>2 DEF EntriesAreUsedOnce
  <2>5. QuestionsAreAskedOnce'
    BY <1>1, <2>1, <2>2 DEF QuestionsAreAskedOnce
  <2>6. EmptyIsUpToDate'
    BY <1>1, <2>1, <2>2 DEF EmptyIsUpToDate, AddIsOnItsWay
  <2> QED BY <2>3, <2>4, <2>5, <2>6 DEF PageInv
<1> QED BY <1>3, <1>4

(* A change ends: answered, refused or lost.                                  *)
LEMMA EndIsSound ==
  ASSUME PageInv, NEW c \in queueChange, queueChange' = queueChange \ {c},
         ChangeAnswered(c) \/ Refused(c) \/ ChangeFails(c)
  PROVE  PageInv'
<1>1. /\ PageTypeOK /\ EntriesAreUsedOnce /\ QuestionsAreAskedOnce /\ EmptyIsUpToDate /\ c \in ChangeState
      /\ UNCHANGED <<queue, used>>
  BY DEF PageInv, PageTypeOK, ChangeAnswered, Refused, ChangeFails
<1>2. Asked \in [step : {"idle", "asked", "read"}, data : QueueValue]
  BY <1>1, AskedIsTyped
<1>3. PageTypeOK'
  <2>1. accept' \in BOOLEAN
    <3>1. accept \in BOOLEAN /\ c.question \in BOOLEAN
      BY <1>1 DEF PageTypeOK, ChangeState
    <3>2. accept' = accept \/ accept' = (accept \/ c.question) \/ accept' = TRUE
      BY DEF ChangeAnswered, Refused, ChangeFails
    <3> QED BY <3>1, <3>2
  <2>2. late' \in BOOLEAN
    <3>1. late \in BOOLEAN
      BY <1>1 DEF PageTypeOK
    <3>2. late' = late \/ late' = (late \/ c.data # queue) \/ late' = (late \/ c.step = "done")
      BY DEF ChangeAnswered, Refused, ChangeFails
    <3> QED BY <3>1, <3>2
  <2>3. /\ question' \in [open : BOOLEAN, action : {Nothing, "remove", "clear"}, entry : Entry \cup {Nothing}]
        /\ question'.open => question'.action # Nothing
    <3>1. question' = question \/ question' = NoQuestion
      BY DEF ChangeAnswered, Refused, ChangeFails
    <3> QED BY <1>1, <3>1, NoQuestionIsOne DEF PageTypeOK
  <2>4. shown' \in QueueValue /\ queueRead' \in [step : {"idle", "asked", "read"}, data : QueueValue]
    <3>1. shown' = shown \/ shown' = c.data
      BY DEF ChangeAnswered, Refused, ChangeFails
    <3>2. queueRead' = queueRead \/ queueRead' = Asked
      BY DEF ChangeAnswered, Refused, ChangeFails
    <3> QED BY <1>1, <1>2, <3>1, <3>2 DEF PageTypeOK, ChangeState
  <2>5. UNCHANGED <<view, taps>> /\ upsets' \in Nat /\ elsewhere' \subseteq Entry
    <3>1. upsets' = upsets \/ upsets' = upsets + 1
      BY DEF ChangeAnswered, Refused, ChangeFails
    <3>2. elsewhere' = elsewhere \/ elsewhere' = {}
      BY DEF ChangeAnswered, Refused, ChangeFails
    <3> QED BY <1>1, <3>1, <3>2 DEF PageTypeOK, ChangeAnswered, Refused, ChangeFails
  <2> QED BY <1>1, <2>1, <2>2, <2>3, <2>4, <2>5 DEF PageTypeOK
<1>4. EntriesAreUsedOnce'
  BY <1>1 DEF EntriesAreUsedOnce
<1>5. QuestionsAreAskedOnce'
  <2>1. accept' => accept \/ c.question
    BY <1>1 DEF ChangeAnswered, Refused, ChangeFails, ChangeState, PageTypeOK
  <2> QED BY <1>1, <2>1 DEF QuestionsAreAskedOnce
<1>6. EmptyIsUpToDate'
  <2>1. CASE c.step = "done" /\ c.action = "add" /\ ChangeAnswered(c)
    <3>1. shown' = c.data /\ c.data.order # <<>>
      BY <1>1, <2>1 DEF ChangeAnswered, EmptyIsUpToDate
    <3>2. shown' # Waiting(<<>>)
      BY <3>1 DEF Waiting
    <3> QED BY <1>1, <3>2 DEF EmptyIsUpToDate
  <2>2. CASE c.step = "done" /\ c.action # "add" /\ c.action # "start" /\ ChangeAnswered(c)
    BY <1>1, <2>2, NothingWaits DEF ChangeAnswered, EmptyIsUpToDate
  <2>3. CASE late' /\ ~ChangeAnswered(c)
    BY <1>1, <2>3 DEF EmptyIsUpToDate
  <2>4. CASE /\ UNCHANGED <<shown, elsewhere>> /\ (~late' => ~late) /\ ~(c.step = "done" /\ c.action = "add")
    BY <1>1, <2>4 DEF EmptyIsUpToDate, AddIsOnItsWay
  <2> QED BY <1>1, <2>1, <2>2, <2>3, <2>4 DEF ChangeAnswered, Refused, ChangeFails, PageTypeOK
<1> QED BY <1>3, <1>4, <1>5, <1>6 DEF PageInv

(* The Pi's queue changes under the page: it stays a queue of different       *)
(* entries, and what it gains is new and counted as elsewhere.                *)
LEMMA OthersAreSound ==
  ASSUME PageInv, NEW added \in SUBSET (Entry \ used),
         WellFormed(queue'), Range(queue'.order) \subseteq Range(queue.order) \cup added,
         used' = used \cup added, elsewhere' = elsewhere \cup added, upsets' \in Nat,
         UNCHANGED <<shown, queueRead, queueChange, view, question, accept, taps, late>>
  PROVE  PageInv'
<1>1. PageTypeOK /\ EntriesAreUsedOnce /\ QuestionsAreAskedOnce /\ EmptyIsUpToDate
  BY DEF PageInv
<1>2. PageTypeOK'
  BY <1>1 DEF PageTypeOK, WellFormed
<1>3. EntriesAreUsedOnce'
  BY <1>1 DEF EntriesAreUsedOnce
<1>4. QuestionsAreAskedOnce' /\ EmptyIsUpToDate'
  BY <1>1 DEF QuestionsAreAskedOnce, EmptyIsUpToDate, AddIsOnItsWay
<1> QED BY <1>2, <1>3, <1>4 DEF PageInv

LEMMA AnotherDeviceIsSound ==
  ASSUME PageInv, NEW e \in Entry, NEW action \in ChangeAction, AnotherDevice(action, e)
  PROVE  PageInv'
<1> DEFINE added == IF action = "add" THEN {e} ELSE {}
<1>1. /\ WellFormed(queue) /\ Range(queue.order) \subseteq used /\ PageTypeOK
  BY DEF PageInv, EntriesAreUsedOnce
<1>2. /\ Accepts(queue, action, e) /\ queue' = After(queue, action, e)
      /\ action = "add" => e \notin used
      /\ used' = used \cup added /\ elsewhere' = elsewhere \cup added /\ upsets' = upsets + 1
      /\ UNCHANGED <<shown, queueRead, queueChange, view, question, accept, taps, late>>
  BY DEF AnotherDevice
<1>3. action = "add" => e \in Entry \ Range(queue.order)
  BY <1>1, <1>2
<1>4. WellFormed(queue') /\ Range(queue'.order) \subseteq Range(queue.order) \cup added
  BY <1>1, <1>2, <1>3, AfterIsWellFormed
<1>5. added \in SUBSET (Entry \ used) /\ upsets' \in Nat
  BY <1>1, <1>2 DEF PageTypeOK
<1> HIDE DEF added
<1> QED BY <1>2, <1>4, <1>5, OthersAreSound

LEMMA TvIsSound ==
  ASSUME PageInv, TvPlays \/ TvFinishes \/ TvStops
  PROVE  PageInv'
<1>1. /\ WellFormed(queue) /\ queue \in QueueValue /\ queue.order \in Seq(Entry) /\ upsets \in Nat
      /\ UNCHANGED <<shown, queueRead, queueChange, view, question, accept, used, taps, upsets, late, elsewhere>>
  BY DEF PageInv, PageTypeOK, EntriesAreUsedOnce, WellFormed, QueueValue, TvPlays, TvFinishes, TvStops
<1>2. queue.order # <<>>
  BY <1>1 DEF TvPlays, TvFinishes, TvStops, WellFormed, Active
<1>3. WellFormed(queue') /\ Range(queue'.order) \subseteq Range(queue.order)
  <2>1. CASE TvPlays \/ TvStops
    BY <1>1, <1>2, <2>1 DEF TvPlays, TvStops, WellFormed, QueueValue
  <2>2. CASE TvFinishes
    <3>1. OnlyOf(Tail(queue.order), queue.order) /\ (Len(queue.order) # 1 => Tail(queue.order) # <<>>)
      BY <1>1, <1>2, TailOnlyDrops DEF WellFormed
    <3>2. WellFormed(Waiting(<<>>)) /\ Range(Waiting(<<>>).order) = {}
      BY DEF Range, Waiting, QueueValue, WellFormed, Active, EachOnce
    <3> QED BY <2>2, <3>1, <3>2 DEF TvFinishes, WellFormed, OnlyOf, QueueValue
  <2> QED BY <2>1, <2>2
<1>4. {} \in SUBSET (Entry \ used) /\ used' = used \cup {} /\ elsewhere' = elsewhere \cup {}
  BY <1>1
<1> QED BY <1>1, <1>3, <1>4, OthersAreSound

LEMMA PageStaysSound == UpNextSpec => []PageInv
<1>1. UpNextInit => PageInv
  BY PageInitIsSound
<1>2. PageInv /\ [UpNextNext]_pageVars => PageInv'
  <2> SUFFICES ASSUME PageInv, [UpNextNext]_pageVars PROVE PageInv'
    OBVIOUS
  <2>1. CASE UNCHANGED pageVars
    BY <2>1 DEF pageVars, PageInv, PageTypeOK, EntriesAreUsedOnce, QuestionsAreAskedOnce,
       EmptyIsUpToDate,
               AddIsOnItsWay
  <2>2. CASE Poll \/ PiReads \/ ReadFails \/ Cancel \/ AskClear \/ (\E e \in Rows : AskRemove(e))
             \/ (\E v \in {"home", "queue", "away"} : Go(v))
    <3>1. UNCHANGED <<queue, shown, queueChange, used, late, elsewhere, accept>>
      BY <2>2 DEF Poll, PiReads, ReadFails, Cancel, AskClear, AskRemove, Go
    <3> QED BY <2>2, <3>1, LookingIsSound
  <2>3. CASE Loaded
    BY <2>3, LoadedIsSound
  <2>4. CASE \/ (\E e \in Entry : AddToQueue(e)) \/ Start \/ Accept
             \/ (\E e \in Rows, action \in {"up", "down"} : MoveItem(e, action))
    BY <2>4, TapIsSound
  <2>5. ASSUME NEW c \in queueChange, QueueChanges(c) PROVE PageInv'
    BY <2>5, QueueChangesIsSound
  <2>6. ASSUME NEW c \in queueChange, ChangeAnswered(c) \/ Refused(c) \/ ChangeFails(c) PROVE PageInv'
    <3>1. queueChange' = queueChange \ {c}
      BY <2>6 DEF ChangeAnswered, Refused, ChangeFails
    <3> QED BY <2>6, <3>1, EndIsSound
  <2>7. CASE TvPlays \/ TvFinishes \/ TvStops
    BY <2>7, TvIsSound
  <2>8. ASSUME NEW e \in Entry, NEW action \in {"add", "remove", "up", "down", "start", "clear"},
               AnotherDevice(action, e)
        PROVE  PageInv'
    <3>1. action \in ChangeAction
      BY DEF ChangeAction
    <3> QED BY <2>8, <3>1, AnotherDeviceIsSound
  <2> QED BY <2>1, <2>2, <2>3, <2>4, <2>5, <2>6, <2>7, <2>8 DEF UpNextNext
<1> QED BY <1>1, <1>2, PTL DEF UpNextSpec

(* The queue, the page's copy of it, the read and the changes under way keep  *)
(* their types.                                                               *)
THEOREM UpNextTypeCorrect == UpNextSpec => []PageTypeOK
<1>1. PageInv => PageTypeOK
  BY DEF PageInv
<1> QED BY <1>1, PageStaysSound, PTL

(* A row is protected by two rules: the page's goes by its place, the Pi's by *)
(* its entry.  Over different entries they are one.                           *)
LEMMA OffersMeanAccepts ==
  ASSUME NEW q, WellFormed(q), NEW e \in Range(q.order), NEW action \in {"up", "down", "remove"}
  PROVE  Offers(q, action, e) <=> Accepts(q, action, e)
<1> DEFINE n == Len(q.order)
           i == Place(q, e)
<1>1. /\ q \in QueueValue /\ q.order \in Seq(Entry) /\ n \in Nat /\ DOMAIN q.order = 1..n
      /\ i \in 1..n /\ q.order[i] = e
  BY PlaceIsThere, LenProperties DEF WellFormed, QueueValue
<1>2. \A k \in 1..n : q.order[k] = AtWork(q) <=> Active(q) /\ k = 1
  <2>1. CASE Active(q)
    <3>1. AtWork(q) = q.order[1] /\ 1 \in 1..n
      BY <1>1, <2>1 DEF AtWork, WellFormed
    <3> QED BY <1>1, <2>1, <3>1 DEF WellFormed, EachOnce
  <2>2. CASE ~Active(q)
    <3>1. AtWork(q) = Nothing /\ Nothing \notin Entry
      BY <2>2, UpNextAssumption DEF AtWork, Nothing
    <3> QED BY <1>1, <2>2, <3>1
  <2> QED BY <2>1, <2>2
<1> HIDE DEF n, i
<1>3. CASE action = "remove"
  BY <1>1, <1>2, <1>3 DEF Offers, Accepts, i
<1>4. CASE action = "up"
  BY <1>1, <1>2, <1>4 DEF Offers, Accepts, Beside, i
<1>5. CASE action = "down"
  BY <1>1, <1>2, <1>5 DEF Offers, Accepts, Beside, i, n
<1> QED BY <1>3, <1>4, <1>5

(* For any entries, taps and upsets: the page of Up Next offers what the Pi   *)
(* accepts, asks a question once, and once its home page has stopped to poll  *)
(* it misses only what others have added since, unless its answer was late.   *)
THEOREM UpNextPageStaysTrue == UpNextSpec => []UpNextPageIsTrue
<1>1. PageInv => UpNextPageIsTrue
  <2> SUFFICES ASSUME PageInv PROVE UpNextPageIsTrue
    OBVIOUS
  <2>1. OffersAreAccepted
    <3> SUFFICES ASSUME shown = queue, NEW e \in Rows, NEW a \in {"up", "down", "remove"}
                 PROVE  Offers(shown, a, e) <=> Accepts(queue, a, e)
      BY DEF OffersAreAccepted
    <3>1. WellFormed(queue) /\ e \in Range(queue.order)
      BY DEF PageInv, EntriesAreUsedOnce, Rows
    <3> QED BY <3>1, OffersMeanAccepts
  <2>2. AskedOnce
    <3> DEFINE asking == {c \in queueChange : c.question}
    <3>1. CASE asking = {}
      <4>1. Cardinality(asking) = 0
        BY <3>1, FS_EmptySet
      <4> QED BY <4>1 DEF AskedOnce
    <3>2. CASE asking # {}
      <4>1. PICK c \in asking : TRUE
        BY <3>2
      <4>2. asking = {c}
        BY <4>1 DEF PageInv, QuestionsAreAskedOnce
      <4>3. Cardinality(asking) = 1
        BY <4>2, FS_Singleton
      <4> QED BY <4>3 DEF AskedOnce
    <3> QED BY <3>1, <3>2
  <2>3. StoppedPollMissesOnlyOthers
    <3> SUFFICES ASSUME view = "home", ~Polls, queueChange = {}, ~late
                 PROVE  queue = shown \/ (queue.order # <<>> /\ Range(queue.order) \subseteq elsewhere)
      BY DEF StoppedPollMissesOnlyOthers
    <3>1. shown = Waiting(<<>>)
      BY DEF Polls, Active, Waiting, PageInv, PageTypeOK, QueueValue
    <3>2. Range(queue.order) \subseteq elsewhere
      BY <3>1 DEF PageInv, EmptyIsUpToDate, AddIsOnItsWay
    <3>3. queue.order = <<>> => queue = Waiting(<<>>)
      BY DEF PageInv, EntriesAreUsedOnce, WellFormed, QueueValue, Active, Waiting
    <3> QED BY <3>1, <3>2, <3>3
  <2> QED BY <2>1, <2>2, <2>3 DEF UpNextPageIsTrue
<1> QED BY <1>1, PageStaysSound, PTL
-----------------------------------------------------------------------------
\* What is stored of a title, a post or refresh, what the page shows, a doubt.
TitleRecord == [listed : BOOLEAN, has : SUBSET Field]
ViewingJob ==
  [kind : {"none", "post", "list", "domains"},
   at : {"rest", "sent", "answered", "read", "persist", "told", "write"},
   field : Field \cup {"none"}, value : BOOLEAN, mutation : Nat, added : BOOLEAN, held : Nat,
   back : TitleRecord, data : TitleRecord, revision : Nat, known : Nat, alone : BOOLEAN]

TitleState == [record : TitleRecord, object : Nat, objects : Nat, mutations : Nat, known : Nat]
DoubtState == [page : BOOLEAN, snapshot : BOOLEAN, behind : BOOLEAN, saved : Nat]

\* Every variable has its shape.
ViewingTypeOK ==
  /\ kept \in [record : TitleRecord, revision : Nat]
  /\ title \in TitleState
  /\ job \in [Job -> ViewingJob]
  /\ snapshot \in [data : TitleRecord, revision : Nat]
  /\ doubt \in DoubtState

\* A post and a refresh are in a stage of their own kind.
JobsAreInStages ==
  \A j \in Job :
    /\ job[j].kind = "none" => job[j].at = "rest"
    /\ job[j].kind = "post" => job[j].at \in {"sent", "answered"}
    /\ job[j].kind = "list" => job[j].at \in {"sent", "read", "persist", "told"}
    /\ job[j].kind = "domains" => job[j].at \in {"sent", "read", "persist", "told", "write"}

\* Job j may still change what is shown; it is answered already.
Reading(j) == job[j].kind = "domains" \/ (job[j].kind = "list" /\ job[j].at \in {"sent", "read"})
Answers(j) == (Posting(j) /\ job[j].at = "answered") \/ (Reading(j) /\ job[j].at # "sent")

\* Every edit has a number of its own, and the Pi has saved what is answered.
EditsAreNumbered ==
  /\ doubt.saved <= title.mutations
  /\ \A j \in Job : job[j].mutation <= title.mutations
  /\ \A j \in Job : Answers(j) /\ Posting(j) => job[j].mutation <= doubt.saved
  /\ \A j, k \in Job : Posting(j) /\ Posting(k) /\ j # k => job[j].mutation # job[k].mutation

\* Nobody knows a revision that the Pi has not had.
RevisionsAreTold ==
  /\ title.known <= kept.revision /\ snapshot.revision <= kept.revision
  /\ \A j \in Job : job[j].known <= kept.revision
  /\ \A j \in Job : Answers(j) =>
       /\ job[j].revision <= kept.revision
       /\ job[j].revision = kept.revision => job[j].data = kept.record

\* An edit that began beside no other, with none after it, is the only one.
AloneIsAlone ==
  \A j \in Job : Posting(j) /\ job[j].alone =>
    LatestEdit(j) /\ \A k \in Job \ {j} : ~Posting(k)

\* What is in no object of the list is not shown.
NoObjectNoRecord == title.object = 0 => title.record = Unlisted

\* A read that began alone, with no edit since, has the Pi's latest answer.
QuietReadIsLatest ==
  \A j \in Job : Reading(j) /\ job[j].alone /\ Applies(j) =>
    /\ \A k \in Job : ~Posting(k)
    /\ Answers(j) => job[j].revision = kept.revision

\* What the latest edit is answered is what the Pi keeps.
LatestAnswerIsKept ==
  ~doubt.page => \A j \in Job : LatestEdit(j) /\ Answers(j) => job[j].data = kept.record

\* A roll-back of the latest edit, unsaved and alone, leaves what the Pi keeps,
\* and so does a read that is shown before it fails.
RollBackIsTrue ==
  ~doubt.page =>
    \A j \in Job : LatestEdit(j) /\ job[j].at = "sent" /\ job[j].alone =>
      /\ ~doubt.behind /\ job[j].added => kept.record = Unlisted
      /\ ~doubt.behind /\ ~job[j].added /\ job[j].held = 0 => title.record = kept.record
      /\ \A k \in Job : Reading(k) /\ Answers(k) /\ Applies(k) => job[k].data = kept.record

\* With the latest edit ended the page shows what the Pi keeps; an older edit
\* that is still under way is saved by now, or will be a doubt.
EndedIsShown ==
  (~doubt.page /\ ~doubt.behind /\ \A j \in Job : ~LatestEdit(j)) =>
    /\ title.record = kept.record
    /\ \A j \in Job : Posting(j) => job[j].mutation < doubt.saved

\* A page that is behind waits for its read, and shows nothing older meanwhile.
BehindWaits ==
  (~doubt.page /\ doubt.behind) =>
    /\ \E j \in Job : job[j].kind = "domains"
    /\ \/ \E j \in Job : LatestEdit(j) /\ ~job[j].alone
       \/ \A j \in Job : /\ ~(job[j].kind = "list" /\ job[j].at \in {"persist", "told"})
                         /\ Posting(j) => LatestEdit(j)

\* What holds of the jobs and the numbers, whatever is in doubt.
ViewingBase ==
  ViewingTypeOK /\ JobsAreInStages /\ EditsAreNumbered /\ RevisionsAreTold /\ AloneIsAlone /\ NoObjectNoRecord

\* The strengthening: why the page is the Pi's once its jobs have ended.
ViewingInv ==
  /\ ViewingBase
  /\ QuietReadIsLatest /\ LatestAnswerIsKept /\ RollBackIsTrue /\ EndedIsShown /\ BehindWaits
  /\ SnapshotIsTrue

\* A field is set in a record that has its shape.
LEMMA TitleRecords ==
  /\ Unlisted \in TitleRecord /\ Resting \in ViewingJob
  /\ \A r \in TitleRecord, f \in Field, v \in BOOLEAN : WithField(r, f, v) \in TitleRecord
BY DEF TitleRecord, ViewingJob, Unlisted, Resting, WithField

\* Caching a record shows it, in an object.
LEMMA CachedTitle ==
  ASSUME NEW p \in TitleState, NEW r \in TitleRecord
  PROVE  /\ Cached(p, r) \in TitleState
         /\ Cached(p, r).record = r /\ Cached(p, r).object # 0
         /\ Cached(p, r).mutations = p.mutations /\ Cached(p, r).known = p.known
<1>1. CASE p.object > 0
  BY <1>1 DEF TitleState, Cached
<1>2. CASE p.object = 0
  <2>1. Cached(p, r) = [record |-> r, object |-> p.objects + 1, objects |-> p.objects + 1,
                        mutations |-> p.mutations, known |-> p.known]
    <3>1. ~(p.object > 0)
      BY <1>2
    <3>2. Cached(p, r) = [p EXCEPT !.record = r, !.object = p.objects + 1, !.objects = p.objects + 1]
      BY <3>1 DEF Cached, TitleState
    <3> QED BY <3>2 DEF TitleState
  <2>2. p.objects + 1 \in Nat \ {0}
    BY DEF TitleState
  <2> QED BY <2>1, <2>2 DEF TitleState
<1> QED BY <1>1, <1>2 DEF TitleState

\* Merging an answer shows it, or takes the title out of the list.
LEMMA MergedTitle ==
  ASSUME NEW p \in TitleState, NEW r \in TitleRecord
  PROVE  /\ Merged(p, r) \in TitleState
         /\ Merged(p, r).record = r /\ (Merged(p, r).object = 0 => r = Unlisted)
         /\ Merged(p, r).mutations = p.mutations /\ Merged(p, r).known = p.known
BY CachedTitle DEF TitleState, Merged

\* A roll-back takes out what the edit brought in, and changes nothing in a new list.
LEMMA RolledBackTitle ==
  ASSUME NEW p \in TitleState, NEW post \in ViewingJob, p.object = 0 => p.record = Unlisted
  PROVE  /\ RolledBack(p, post) \in TitleState
         /\ RolledBack(p, post).object = 0 => RolledBack(p, post).record = Unlisted
         /\ RolledBack(p, post).mutations = p.mutations /\ RolledBack(p, post).known = p.known
         /\ post.added => RolledBack(p, post).record = Unlisted
         /\ ~post.added /\ post.held = 0 => RolledBack(p, post) = p
BY TitleRecords DEF TitleState, ViewingJob, RolledBack

\* A merge makes an edit forget its object, and nothing else.
LEMMA DetachedJob ==
  ASSUME NEW r \in ViewingJob, NEW d, d = [r EXCEPT !.added = FALSE, !.held = 0]
  PROVE  /\ d \in ViewingJob /\ ~d.added
         /\ d.kind = r.kind /\ d.at = r.at /\ d.mutation = r.mutation /\ d.data = r.data
         /\ d.revision = r.revision /\ d.known = r.known /\ d.alone = r.alone
<1> DEFINE e == [r EXCEPT !.held = 0]
<1>1. d = [e EXCEPT !.added = FALSE]
  BY DEF ViewingJob
<1>2. /\ e \in ViewingJob /\ e.alone = r.alone
      /\ e.kind = r.kind /\ e.at = r.at /\ e.mutation = r.mutation /\ e.data = r.data
      /\ e.revision = r.revision /\ e.known = r.known
  BY DEF ViewingJob
<1> HIDE DEF e
<1>3. /\ d \in ViewingJob /\ ~d.added /\ d.alone = e.alone
      /\ d.kind = e.kind /\ d.at = e.at /\ d.mutation = e.mutation /\ d.data = e.data
      /\ d.revision = e.revision /\ d.known = e.known
  BY <1>1, <1>2 DEF ViewingJob
<1> QED BY <1>2, <1>3

\* An answer to the latest edit ends the doubts when it is the Pi's latest.
LEMMA TrustedDoubt ==
  ASSUME doubt \in DoubtState, NEW j \in Job
  PROVE  /\ Trusted(j) \in DoubtState
         /\ Trusted(j).page = (doubt.page /\ ~Settled(j)) /\ ~Trusted(j).behind
         /\ Trusted(j).saved = doubt.saved /\ Trusted(j).snapshot = doubt.snapshot
BY DEF DoubtState, Trusted

\* So does the answer of a refresh, which otherwise brings its own.
LEMMA DrawnDoubt ==
  ASSUME doubt \in DoubtState, NEW j \in Job
  PROVE  /\ Drawn(j) \in DoubtState
         /\ Drawn(j).saved = doubt.saved /\ Drawn(j).snapshot = doubt.snapshot
         /\ ~Applies(j) => Drawn(j).behind = doubt.behind /\ Drawn(j).page = (doubt.page \/ doubt.behind)
         /\ Applies(j) =>
              /\ ~Drawn(j).behind
              /\ Settled(j) => ~Drawn(j).page
              /\ ~Settled(j) => Drawn(j).page =
                   (doubt.page \/ (~job[j].alone /\ \A k \in Job : ~LatestEdit(k)))
<1> Trusted(j) \in DoubtState /\ Trusted(j).page = (doubt.page /\ ~Settled(j)) /\ ~Trusted(j).behind
    /\ Trusted(j).saved = doubt.saved /\ Trusted(j).snapshot = doubt.snapshot
  BY TrustedDoubt
<1> QED BY DEF DoubtState, Drawn

\* An edit is numbered last, so every read under way will be dropped.
LEMMA EditKeeps ==
  ASSUME ViewingInv, NEW j \in Job, NEW f \in Field, Edit(j, f)
  PROVE  ViewingInv'
<1> USE DEF ViewingInv, ViewingBase
<1>t. /\ title' \in TitleState /\ title'.mutations = title.mutations + 1
      /\ title'.object # 0 /\ title'.known = title.known
  <2> DEFINE p == Cached(title, WithField(title.record, f, f \notin title.record.has))
  <2>1. p \in TitleState /\ p.object # 0 /\ p.mutations = title.mutations /\ p.known = title.known
    BY CachedTitle, TitleRecords DEF ViewingTypeOK, TitleState
  <2>2. title' = [p EXCEPT !.mutations = @ + 1]
    BY DEF Edit
  <2> HIDE DEF p
  <2> QED BY <2>1, <2>2 DEF TitleState
<1>n. /\ job'[j] \in ViewingJob /\ job'[j].kind = "post" /\ job'[j].at = "sent" /\ job'[j].known = 0
      /\ job'[j].mutation = title.mutations + 1
      /\ job'[j].added = (title.object = 0) /\ job'[j].held = title.object
      /\ job'[j].alone => \A k \in Job : ~Posting(k)
  <2> DEFINE v == f \notin title.record.has
             alone == \A other \in Job : ~Posting(other)
             added == title.object = 0
  <2>1. job'[j] = [Resting EXCEPT !.kind = "post", !.at = "sent", !.field = f, !.value = v,
                     !.mutation = title.mutations + 1, !.added = added,
                     !.held = title.object, !.alone = alone]
    BY DEF Edit
  <2>2. v \in BOOLEAN /\ alone \in BOOLEAN /\ added \in BOOLEAN
    OBVIOUS
  <2>3. title.mutations + 1 \in Nat /\ title.object \in Nat
    BY DEF ViewingTypeOK, TitleState
  <2> HIDE DEF v, alone, added
  <2>4. /\ job'[j] \in ViewingJob /\ job'[j].kind = "post" /\ job'[j].at = "sent" /\ job'[j].known = 0
        /\ job'[j].mutation = title.mutations + 1
        /\ job'[j].added = added /\ job'[j].held = title.object /\ job'[j].alone = alone
    <3>1. job'[j] = [kind |-> "post", at |-> "sent", field |-> f, value |-> v,
                     mutation |-> title.mutations + 1, added |-> added, held |-> title.object,
                     back |-> Unlisted, data |-> Unlisted, revision |-> 0, known |-> 0, alone |-> alone]
      BY <2>1, ZenonT(60) DEF Resting
    <3>2. Unlisted \in TitleRecord
      BY TitleRecords
    <3> QED BY <2>2, <2>3, <3>1, <3>2 DEF ViewingJob
  <2> QED BY <2>4 DEF added, alone
<1>o. \A k \in Job \ {j} :
       /\ job'[k] \in ViewingJob
       /\ job'[k].kind = job[k].kind /\ job'[k].at = job[k].at /\ job'[k].mutation = job[k].mutation
       /\ job'[k].data = job[k].data /\ job'[k].revision = job[k].revision /\ job'[k].known = job[k].known
       /\ job'[k].added = job[k].added /\ job'[k].held = job[k].held
       /\ job'[k].alone => job[k].alone /\ ~Posting(k)
  <2> TAKE k \in Job \ {j}
  <2> DEFINE alone == job[k].alone /\ ~Posting(k)
  <2>1. job'[k] = [job[k] EXCEPT !.alone = alone]
    BY DEF Edit
  <2>2. alone \in BOOLEAN /\ (alone => job[k].alone /\ ~Posting(k)) /\ job[k] \in ViewingJob
    BY DEF ViewingTypeOK
  <2> HIDE DEF alone
  <2> QED BY <2>1, <2>2 DEF ViewingJob
<1>u. /\ job[j].at = "rest" /\ UNCHANGED <<kept, snapshot, doubt>>
      /\ job' \in [Job -> ViewingJob]
  BY <1>n, <1>o DEF Edit
<1>r. ~Posting(j) /\ ~Reading(j)
  BY <1>u DEF JobsAreInStages, Posting, Reading
<1>1. ViewingTypeOK'
  BY <1>t, <1>u DEF ViewingTypeOK
<1>2. JobsAreInStages'
  BY <1>n, <1>o DEF JobsAreInStages
<1>3. EditsAreNumbered'
  BY <1>t, <1>n, <1>o, <1>u, SMTT(20) DEF EditsAreNumbered, Reading, Answers, Posting,
      ViewingTypeOK, TitleState, ViewingJob, DoubtState
<1>4. RevisionsAreTold'
  BY <1>t, <1>n, <1>o, <1>u DEF RevisionsAreTold, Reading, Answers, Posting, ViewingTypeOK
<1>5. AloneIsAlone'
  BY <1>t, <1>n, <1>o DEF AloneIsAlone, Posting, LatestEdit
<1>6. NoObjectNoRecord'
  BY <1>t DEF NoObjectNoRecord
<1>7. QuietReadIsLatest'
  BY <1>t, <1>n, <1>o DEF QuietReadIsLatest, Reading, Applies, ViewingTypeOK, TitleState,
      EditsAreNumbered
<1>8. LatestAnswerIsKept'
  BY <1>t, <1>n, <1>o DEF LatestAnswerIsKept, Answers, LatestEdit, ViewingTypeOK, TitleState,
      EditsAreNumbered
<1>9. RollBackIsTrue'
  BY <1>t, <1>n, <1>o, <1>u DEF RollBackIsTrue, Reading, LatestEdit, Applies, ViewingTypeOK, TitleState,
      ViewingJob, EditsAreNumbered, NoObjectNoRecord, EndedIsShown
<1>10. EndedIsShown'
  BY <1>t, <1>n DEF EndedIsShown, Posting, LatestEdit
<1>11. BehindWaits'
  BY <1>t, <1>n, <1>o, <1>u DEF BehindWaits, Posting, LatestEdit, DoubtState, JobsAreInStages
<1>12. SnapshotIsTrue'
  BY <1>u DEF SnapshotIsTrue
<1> QED BY <1>1, <1>2, <1>3, <1>4, <1>5, <1>6, <1>7, <1>8, <1>9, <1>10, <1>11, <1>12

\* The Pi's answer is its record; saving out of order is a doubt.
LEMMA PiSavesKeeps ==
  ASSUME ViewingInv, NEW j \in Job, PiSaves(j)
  PROVE  ViewingInv'
<1> USE DEF ViewingInv, ViewingBase
<1> DEFINE record == WithField(kept.record, job[j].field, job[j].value)
<1>k. /\ kept' = [record |-> record, revision |-> kept.revision + 1]
      /\ kept'.record = record /\ kept'.revision = kept.revision + 1
      /\ record \in TitleRecord
  BY DEF PiSaves, Stored, WithField, ViewingTypeOK, TitleRecord, ViewingJob
<1>n. /\ job' = [job EXCEPT ![j] = job'[j]] /\ job'[j] \in ViewingJob
      /\ job'[j].kind = "post" /\ job'[j].at = "answered" /\ job'[j].known = job[j].known
      /\ job'[j].mutation = job[j].mutation /\ job'[j].alone = job[j].alone
      /\ job'[j].data = record /\ job'[j].revision = kept.revision + 1
  <2>1. job' = [job EXCEPT ![j].at = "answered", ![j].data = record, ![j].revision = kept'.revision]
    BY DEF PiSaves
  <2>2. job[j] \in ViewingJob /\ job[j].kind = "post" /\ kept.revision + 1 \in Nat
    BY DEF PiSaves, Posting, ViewingTypeOK
  <2>3. job'[j] = [job[j] EXCEPT !.at = "answered", !.data = record, !.revision = kept.revision + 1]
    BY <1>k, <2>1 DEF ViewingTypeOK
  <2>4. job' = [job EXCEPT ![j] = job'[j]]
    BY <2>1 DEF ViewingTypeOK
  <2> HIDE DEF record
  <2> QED BY <1>k, <2>2, <2>3, <2>4 DEF ViewingJob
<1>u. /\ Posting(j) /\ job[j].at = "sent" /\ UNCHANGED <<title, snapshot>>
      /\ doubt' \in DoubtState /\ doubt'.behind = doubt.behind /\ doubt'.snapshot = doubt.snapshot
      /\ job[j].mutation < doubt.saved => doubt'.page /\ doubt'.saved = doubt.saved
      /\ ~(job[j].mutation < doubt.saved) => doubt'.page = doubt.page /\ doubt'.saved = job[j].mutation
  BY DEF PiSaves, ViewingTypeOK, ViewingJob, DoubtState
<1> HIDE DEF record
<1>1. ViewingTypeOK'
  BY <1>k, <1>n, <1>u DEF ViewingTypeOK
<1>2. JobsAreInStages'
  BY <1>n DEF JobsAreInStages, ViewingTypeOK
<1>3. EditsAreNumbered'
  BY <1>n, <1>u DEF EditsAreNumbered, Reading, Answers, Posting, ViewingTypeOK, ViewingJob,
      DoubtState
<1>4. RevisionsAreTold'
  BY <1>k, <1>n, <1>u DEF RevisionsAreTold, Reading, Answers, Posting, ViewingTypeOK, TitleState,
      ViewingJob
<1>5. AloneIsAlone'
  BY <1>n, <1>u DEF AloneIsAlone, Posting, LatestEdit, ViewingTypeOK
<1>6. NoObjectNoRecord'
  BY <1>u DEF NoObjectNoRecord
<1>7. QuietReadIsLatest'
  BY <1>n, <1>u DEF QuietReadIsLatest, Reading, Applies, ViewingTypeOK
<1>8. LatestAnswerIsKept'
  BY <1>k, <1>n, <1>u DEF LatestAnswerIsKept, Reading, Answers, Posting, LatestEdit, ViewingTypeOK,
      TitleState, DoubtState, EditsAreNumbered
<1>9. RollBackIsTrue'
  BY <1>n, <1>u DEF RollBackIsTrue, Posting, LatestEdit, ViewingTypeOK, AloneIsAlone
<1>10. EndedIsShown'
  BY <1>n, <1>u DEF EndedIsShown, Posting, LatestEdit, ViewingTypeOK
<1>11. BehindWaits'
  BY <1>n, <1>u DEF BehindWaits, Posting, LatestEdit, ViewingTypeOK
<1>12. SnapshotIsTrue'
  BY <1>k, <1>u DEF SnapshotIsTrue, ViewingTypeOK, RevisionsAreTold
<1> QED BY <1>1, <1>2, <1>3, <1>4, <1>5, <1>6, <1>7, <1>8, <1>9, <1>10, <1>11, <1>12

\* A change elsewhere is a doubt, and nobody has been alone with it.
LEMMA PiChangesTitleKeeps ==
  ASSUME ViewingInv, NEW f \in Field, PiChangesTitle(f)
  PROVE  ViewingInv'
<1> USE DEF ViewingInv, ViewingBase
<1> DEFINE record == WithField(kept.record, f, f \notin kept.record.has)
<1>k. /\ kept' = [record |-> record, revision |-> kept.revision + 1]
      /\ kept'.record = record /\ kept'.revision = kept.revision + 1
      /\ record \in TitleRecord
  BY DEF PiChangesTitle, Stored, WithField, ViewingTypeOK, TitleRecord
<1>o. \A k \in Job :
       /\ job'[k] \in ViewingJob
       /\ job'[k].kind = job[k].kind /\ job'[k].at = job[k].at /\ job'[k].mutation = job[k].mutation
       /\ job'[k].data = job[k].data /\ job'[k].revision = job[k].revision /\ job'[k].known = job[k].known
       /\ job'[k].added = job[k].added /\ job'[k].held = job[k].held
       /\ ~job'[k].alone
  <2> TAKE k \in Job
  <2>1. job'[k] = [job[k] EXCEPT !.alone = FALSE] /\ job[k] \in ViewingJob
    BY DEF PiChangesTitle, ViewingTypeOK
  <2> QED BY <2>1 DEF ViewingJob
<1>u. /\ UNCHANGED <<title, snapshot>> /\ job' \in [Job -> ViewingJob]
      /\ doubt' \in DoubtState /\ doubt'.page
      /\ doubt'.snapshot = doubt.snapshot /\ doubt'.saved = doubt.saved
  <2>1. job' \in [Job -> ViewingJob]
    BY <1>o DEF PiChangesTitle
  <2> QED BY <2>1 DEF PiChangesTitle, ViewingTypeOK, DoubtState
<1> HIDE DEF record
<1>1. ViewingTypeOK'
  BY <1>k, <1>u DEF ViewingTypeOK
<1>2. JobsAreInStages'
  BY <1>o DEF JobsAreInStages
<1>3. EditsAreNumbered'
  BY <1>o, <1>u DEF EditsAreNumbered, Reading, Answers, Posting
<1>4. RevisionsAreTold'
  BY <1>k, <1>o, <1>u DEF RevisionsAreTold, Reading, Answers, Posting, ViewingTypeOK, TitleState,
      ViewingJob
<1>5. AloneIsAlone'
  BY <1>o DEF AloneIsAlone
<1>6. NoObjectNoRecord'
  BY <1>u DEF NoObjectNoRecord
<1>7. QuietReadIsLatest'
  BY <1>o DEF QuietReadIsLatest
<1>8. LatestAnswerIsKept'
  BY <1>u DEF LatestAnswerIsKept
<1>9. RollBackIsTrue'
  BY <1>o DEF RollBackIsTrue
<1>10. EndedIsShown'
  BY <1>u DEF EndedIsShown
<1>11. BehindWaits'
  BY <1>u DEF BehindWaits
<1>12. SnapshotIsTrue'
  BY <1>k, <1>u DEF SnapshotIsTrue, ViewingTypeOK, RevisionsAreTold
<1> QED BY <1>1, <1>2, <1>3, <1>4, <1>5, <1>6, <1>7, <1>8, <1>9, <1>10, <1>11, <1>12

\* The answer to the latest edit is what the Pi keeps, if no doubt was raised.
LEMMA EditAnsweredKeeps ==
  ASSUME ViewingInv, NEW j \in Job, EditAnswered(j)
  PROVE  ViewingInv'
<1> USE DEF ViewingInv, ViewingBase
<1>n. /\ job' = [job EXCEPT ![j] = job'[j]] /\ job'[j] \in ViewingJob
      /\ job'[j].kind = "list" /\ job'[j].at = "persist" /\ job'[j].known = 0 /\ job'[j].mutation = 0
  BY TitleRecords DEF EditAnswered, Persisting, Resting, ViewingTypeOK, ViewingJob
<1>t. /\ title' \in TitleState /\ title'.mutations = title.mutations /\ title'.known = title.known
      /\ LatestEdit(j) => title'.record = job[j].data /\ title'.object # 0
      /\ ~LatestEdit(j) => title' = title
  <2>1. title \in TitleState /\ job[j].data \in TitleRecord
    BY DEF ViewingTypeOK, ViewingJob
  <2>2. CASE LatestEdit(j)
    <3>1. title' = Cached(title, job[j].data)
      BY <2>2 DEF EditAnswered
    <3> QED BY <2>1, <2>2, <3>1, CachedTitle
  <2>3. CASE ~LatestEdit(j)
    BY <2>1, <2>3 DEF EditAnswered
  <2> QED BY <2>2, <2>3
<1>d. /\ doubt' \in DoubtState /\ doubt'.saved = doubt.saved /\ doubt'.snapshot = doubt.snapshot
      /\ LatestEdit(j) => ~doubt'.behind /\ doubt'.page = (doubt.page /\ ~Settled(j))
      /\ ~LatestEdit(j) => doubt' = doubt
  BY TrustedDoubt DEF EditAnswered, ViewingTypeOK
<1>u. Posting(j) /\ job[j].at = "answered" /\ UNCHANGED <<kept, snapshot>>
  BY DEF EditAnswered
<1>1. ViewingTypeOK'
  BY <1>n, <1>t, <1>d, <1>u DEF ViewingTypeOK
<1>2. JobsAreInStages'
  BY <1>n DEF JobsAreInStages, ViewingTypeOK
<1>3. EditsAreNumbered'
  BY <1>n, <1>t, <1>d DEF EditsAreNumbered, Reading, Answers, Posting, ViewingTypeOK, TitleState
<1>4. RevisionsAreTold'
  BY <1>n, <1>t, <1>u DEF RevisionsAreTold, Reading, Answers, Posting, ViewingTypeOK
<1>5. AloneIsAlone'
  BY <1>n, <1>u DEF AloneIsAlone, Posting, ViewingTypeOK
<1>6. NoObjectNoRecord'
  BY <1>t DEF NoObjectNoRecord
<1>7. QuietReadIsLatest'
  BY <1>n, <1>t, <1>u DEF QuietReadIsLatest, Reading, Applies, ViewingTypeOK
<1>8. LatestAnswerIsKept'
  BY <1>n, <1>t, <1>d, <1>u DEF LatestAnswerIsKept, Reading, Answers, Posting, LatestEdit,
      ViewingTypeOK, EditsAreNumbered
<1>9. RollBackIsTrue'
  BY <1>n, <1>u DEF RollBackIsTrue, Posting, LatestEdit, ViewingTypeOK, AloneIsAlone
<1>10. EndedIsShown'
  BY <1>n, <1>t, <1>d, <1>u DEF EndedIsShown, Posting, LatestEdit, ViewingTypeOK, TitleState,
      ViewingJob, DoubtState, JobsAreInStages, EditsAreNumbered, Settled, RevisionsAreTold, Answers,
      LatestAnswerIsKept
<1>11. BehindWaits'
  BY <1>n, <1>t, <1>d, <1>u DEF BehindWaits, Posting, LatestEdit, ViewingTypeOK
<1>12. SnapshotIsTrue'
  BY <1>d, <1>u DEF SnapshotIsTrue
<1> QED BY <1>1, <1>2, <1>3, <1>4, <1>5, <1>6, <1>7, <1>8, <1>9, <1>10, <1>11, <1>12

\* An edit that failed alone and unsaved leaves what the Pi keeps.
LEMMA FailedKeeps ==
  ASSUME ViewingInv, NEW j \in Job, Failed(j)
  PROVE  ViewingInv'
<1> USE DEF ViewingInv, ViewingBase
<1>t. /\ title' \in TitleState /\ title'.mutations = title.mutations /\ title'.known = title.known
      /\ title'.object = 0 => title'.record = Unlisted
      /\ job[j].added => title'.record = Unlisted
      /\ ~job[j].added /\ job[j].held = 0 => title' = title
  BY RolledBackTitle DEF Failed, ViewingTypeOK, NoObjectNoRecord
<1>n. job'[j] \in ViewingJob /\ job'[j].kind = "none" /\ job'[j].at = "rest" /\ job'[j].known = 0
      /\ job'[j].mutation = 0
  BY TitleRecords DEF Failed, Leaving, Resting, ViewingTypeOK, TitleState, ViewingJob
<1>o. \A k \in Job \ {j} :
       /\ job'[k] \in ViewingJob
       /\ job'[k].kind = job[k].kind /\ job'[k].at = job[k].at /\ job'[k].mutation = job[k].mutation
       /\ job'[k].data = job[k].data /\ job'[k].revision = job[k].revision /\ job'[k].known = job[k].known
       /\ job'[k].added = job[k].added /\ job'[k].held = job[k].held
       /\ job'[k].alone = job[k].alone
  BY DEF Failed, Leaving, ViewingTypeOK, TitleState, ViewingJob
<1>u. /\ Posting(j) /\ UNCHANGED <<kept, snapshot>> /\ job' \in [Job -> ViewingJob]
      /\ doubt' \in DoubtState /\ doubt'.saved = doubt.saved /\ doubt'.snapshot = doubt.snapshot
      /\ doubt'.behind = doubt.behind /\ (doubt.page => doubt'.page)
      /\ doubt'.page \/ (\E k \in Job \ {j} : LatestEdit(k))
           \/ (job[j].at = "sent" /\ job[j].alone /\ (job[j].added \/ job[j].held = 0))
  <2>1. job' \in [Job -> ViewingJob]
    BY <1>n, <1>o DEF Failed, Leaving
  <2> QED BY <2>1 DEF Failed, ViewingTypeOK, DoubtState
<1>1. ViewingTypeOK'
  BY <1>t, <1>u DEF ViewingTypeOK
<1>2. JobsAreInStages'
  BY <1>n, <1>o DEF JobsAreInStages
<1>3. EditsAreNumbered'
  BY <1>t, <1>n, <1>o, <1>u DEF EditsAreNumbered, Reading, Answers, Posting, TitleState
<1>4. RevisionsAreTold'
  BY <1>t, <1>n, <1>o, <1>u DEF RevisionsAreTold, Reading, Answers, Posting, ViewingTypeOK
<1>5. AloneIsAlone'
  BY <1>n, <1>o, <1>u DEF AloneIsAlone, Posting, LatestEdit
<1>6. NoObjectNoRecord'
  BY <1>t DEF NoObjectNoRecord
<1>7. QuietReadIsLatest'
  BY <1>t, <1>n, <1>o, <1>u DEF QuietReadIsLatest, Reading, Applies, ViewingTypeOK
<1>8. LatestAnswerIsKept'
  BY <1>t, <1>n, <1>o, <1>u DEF LatestAnswerIsKept, Reading, Answers, Posting, LatestEdit
<1>9. RollBackIsTrue'
  BY <1>n, <1>o, <1>u DEF RollBackIsTrue, Posting, LatestEdit, ViewingTypeOK, AloneIsAlone
<1>10. EndedIsShown'
  BY <1>t, <1>n, <1>o, <1>u DEF EndedIsShown, Posting, LatestEdit, AloneIsAlone, RollBackIsTrue, Reading
<1>11. BehindWaits'
  BY <1>t, <1>n, <1>o, <1>u DEF BehindWaits, Posting, LatestEdit, JobsAreInStages, EditsAreNumbered
<1>12. SnapshotIsTrue'
  BY <1>u DEF SnapshotIsTrue
<1> QED BY <1>1, <1>2, <1>3, <1>4, <1>5, <1>6, <1>7, <1>8, <1>9, <1>10, <1>11, <1>12

\* A read that fails changes nothing shown, but may leave a page behind.
LEMMA ReadLostKeeps ==
  ASSUME ViewingInv, NEW j \in Job, ReadLost(j)
  PROVE  ViewingInv'
<1> USE DEF ViewingInv, ViewingBase
<1>1. ViewingTypeOK'
  BY TitleRecords DEF ViewingTypeOK, DoubtState, ReadLost
<1>2. JobsAreInStages'
  BY DEF JobsAreInStages, ReadLost, Resting
<1>3. EditsAreNumbered'
  BY DEF EditsAreNumbered, Reading, Answers, Posting, ViewingTypeOK, TitleState, ReadLost, Resting
<1>4. RevisionsAreTold'
  BY DEF RevisionsAreTold, Reading, Answers, Posting, ViewingTypeOK, ReadLost, Resting
<1>5. AloneIsAlone'
  BY DEF AloneIsAlone, Posting, LatestEdit, ReadLost, Resting
<1>6. NoObjectNoRecord'
  BY DEF NoObjectNoRecord, ReadLost
<1>7. QuietReadIsLatest'
  BY DEF QuietReadIsLatest, Reading, Answers, Posting, Applies, ReadLost, Resting
<1>8. LatestAnswerIsKept'
  BY DEF LatestAnswerIsKept, Reading, Answers, Posting, LatestEdit, ViewingTypeOK, DoubtState, ReadLost,
      Resting
<1>9. RollBackIsTrue'
  BY DEF RollBackIsTrue, Reading, Answers, Posting, LatestEdit, Applies, ReadLost, Resting,
      ViewingTypeOK, ViewingJob
<1>10. EndedIsShown'
  BY DEF EndedIsShown, Posting, LatestEdit, ReadLost, Resting, ViewingTypeOK, DoubtState
<1>11. BehindWaits'
  BY DEF BehindWaits, ReadLost, ViewingTypeOK, DoubtState
<1>12. SnapshotIsTrue'
  BY DEF SnapshotIsTrue, ReadLost
<1> QED BY <1>1, <1>2, <1>3, <1>4, <1>5, <1>6, <1>7, <1>8, <1>9, <1>10, <1>11, <1>12

\* A refresh knows whether it begins beside an edit.
LEMMA RefreshKeeps ==
  ASSUME ViewingInv, NEW j \in Job, NEW kind \in {"list", "domains"}, Refresh(j, kind)
  PROVE  ViewingInv'
<1> USE DEF ViewingInv, ViewingBase
<1>1. ViewingTypeOK'
  <2> DEFINE alone == \A k \in Job : ~Posting(k)
  <2> DEFINE asked == [Resting EXCEPT !.kind = kind, !.at = "sent", !.mutation = title.mutations,
                        !.alone = alone]
  <2>1. job' = [job EXCEPT ![j] = asked] /\ UNCHANGED <<kept, title, snapshot, doubt>>
    BY DEF Refresh
  <2>2. alone \in BOOLEAN /\ title.mutations \in Nat
    BY DEF ViewingTypeOK, TitleState
  <2> HIDE DEF alone
  <2>3. asked \in ViewingJob
    BY <2>2, TitleRecords DEF ViewingJob, Resting
  <2> QED BY <2>1, <2>3 DEF ViewingTypeOK
<1>2. JobsAreInStages'
  BY DEF JobsAreInStages, Refresh
<1>3. EditsAreNumbered'
  BY DEF EditsAreNumbered, Reading, Answers, Posting, ViewingTypeOK, TitleState, Refresh
<1>4. RevisionsAreTold'
  BY DEF RevisionsAreTold, Reading, Answers, Posting, ViewingTypeOK, Refresh, Resting
<1>5. AloneIsAlone'
  BY DEF AloneIsAlone, Posting, LatestEdit, Refresh
<1>6. NoObjectNoRecord'
  BY DEF NoObjectNoRecord, Refresh
<1>7. QuietReadIsLatest'
  BY DEF QuietReadIsLatest, Reading, Answers, Posting, Applies, Refresh
<1>8. LatestAnswerIsKept'
  BY DEF LatestAnswerIsKept, Reading, Answers, Posting, LatestEdit, Refresh
<1>9. RollBackIsTrue'
  BY DEF RollBackIsTrue, Reading, Answers, Posting, LatestEdit, Applies, Refresh
<1>10. EndedIsShown'
  BY DEF EndedIsShown, Posting, LatestEdit, Refresh, JobsAreInStages
<1>11. BehindWaits'
  BY DEF BehindWaits, Posting, LatestEdit, JobsAreInStages, Refresh
<1>12. SnapshotIsTrue'
  BY DEF SnapshotIsTrue, Refresh
<1> QED BY <1>1, <1>2, <1>3, <1>4, <1>5, <1>6, <1>7, <1>8, <1>9, <1>10, <1>11, <1>12

\* A read has what the Pi keeps under the revision of that moment.
LEMMA PiReadsTitlesKeeps ==
  ASSUME ViewingInv, NEW j \in Job, PiReadsTitles(j)
  PROVE  ViewingInv'
<1> USE DEF ViewingInv, ViewingBase
<1>1. ViewingTypeOK'
  <2>1. /\ job' = [job EXCEPT ![j].at = "read", ![j].data = kept.record, ![j].revision = kept.revision]
        /\ UNCHANGED <<kept, title, snapshot, doubt>>
    BY DEF PiReadsTitles
  <2>2. [job[j] EXCEPT !.at = "read", !.data = kept.record, !.revision = kept.revision] \in ViewingJob
    BY ZenonT(60) DEF ViewingTypeOK, ViewingJob
  <2> QED BY <2>1, <2>2 DEF ViewingTypeOK
<1>2. JobsAreInStages'
  BY DEF JobsAreInStages, ViewingTypeOK, PiReadsTitles
<1>3. EditsAreNumbered'
  BY DEF EditsAreNumbered, Reading, Answers, Posting, ViewingTypeOK, PiReadsTitles
<1>4. RevisionsAreTold'
  BY DEF RevisionsAreTold, Reading, Answers, Posting, ViewingTypeOK, PiReadsTitles
<1>5. AloneIsAlone'
  BY DEF AloneIsAlone, Posting, LatestEdit, ViewingTypeOK, PiReadsTitles
<1>6. NoObjectNoRecord'
  BY DEF NoObjectNoRecord, PiReadsTitles
<1>7. QuietReadIsLatest'
  BY DEF QuietReadIsLatest, Reading, Answers, Posting, Applies, PiReadsTitles, ViewingTypeOK
<1>8. LatestAnswerIsKept'
  BY DEF LatestAnswerIsKept, Reading, Answers, Posting, LatestEdit, ViewingTypeOK, PiReadsTitles
<1>9. RollBackIsTrue'
  BY DEF RollBackIsTrue, Reading, Answers, Posting, LatestEdit, Applies, PiReadsTitles, ViewingTypeOK
<1>10. EndedIsShown'
  BY DEF EndedIsShown, Posting, LatestEdit, ViewingTypeOK, PiReadsTitles
<1>11. BehindWaits'
  BY DEF BehindWaits, Posting, LatestEdit, ViewingTypeOK, PiReadsTitles
<1>12. SnapshotIsTrue'
  BY DEF SnapshotIsTrue, PiReadsTitles
<1> QED BY <1>1, <1>2, <1>3, <1>4, <1>5, <1>6, <1>7, <1>8, <1>9, <1>10, <1>11, <1>12

\* A read that is shown is the Pi's latest, or was alone, or brings a doubt.
LEMMA RefreshedKeeps ==
  ASSUME ViewingInv, NEW j \in Job, Refreshed(j)
  PROVE  ViewingInv'
<1> USE DEF ViewingInv, ViewingBase
<1> DEFINE D == Drawn(j)
<1>d. /\ D \in DoubtState /\ D.saved = doubt.saved /\ D.snapshot = doubt.snapshot
      /\ ~Applies(j) => D.behind = doubt.behind /\ D.page = (doubt.page \/ doubt.behind)
      /\ Applies(j) /\ Settled(j) => ~D.behind /\ ~D.page
      /\ Applies(j) /\ ~Settled(j) =>
           ~D.behind /\ D.page = (doubt.page \/ (~job[j].alone /\ \A k \in Job : ~LatestEdit(k)))
  BY DrawnDoubt DEF ViewingTypeOK
<1> HIDE DEF D
<1>t. /\ title' \in TitleState /\ title'.mutations = title.mutations /\ title'.known = title.known
      /\ title'.object = 0 => title'.record = Unlisted
      /\ Applies(j) => title'.record = job[j].data
      /\ ~Applies(j) => title' = title
  <2>1. title \in TitleState /\ job[j].data \in TitleRecord
    BY DEF ViewingTypeOK, ViewingJob
  <2>2. CASE Applies(j)
    <3>1. title' = Merged(title, job[j].data)
      BY <2>2 DEF Refreshed, Shown
    <3> QED BY <2>1, <2>2, <3>1, MergedTitle
  <2>3. CASE ~Applies(j)
    BY <2>1, <2>3 DEF Refreshed, Shown, NoObjectNoRecord
  <2> QED BY <2>2, <2>3
<1>n. /\ job'[j] \in ViewingJob /\ job'[j].known = 0 /\ job'[j].mutation = 0
      /\ ~Reading(j)' /\ ~Posting(j)'
      /\ \/ job'[j].kind = "none" /\ job'[j].at = "rest"
         \/ Applies(j) /\ job'[j].kind = "list" /\ job'[j].at = "persist"
  BY TitleRecords DEF Refreshed, Detached, Persisting, Resting, ViewingTypeOK, ViewingJob, Reading,
      Posting
<1>o. \A k \in Job \ {j} :
       /\ job'[k] \in ViewingJob
       /\ job'[k].kind = job[k].kind /\ job'[k].at = job[k].at /\ job'[k].mutation = job[k].mutation
       /\ job'[k].data = job[k].data /\ job'[k].revision = job[k].revision /\ job'[k].known = job[k].known
       /\ job'[k].alone = job[k].alone
       /\ ~Applies(j) => job'[k] = job[k]
       /\ Applies(j) => ~job'[k].added
  <2> TAKE k \in Job \ {j}
  <2>1. job[k] \in ViewingJob
    BY DEF ViewingTypeOK
  <2>2. CASE Applies(j)
    <3>1. job'[k] = [job[k] EXCEPT !.added = FALSE, !.held = 0]
      BY <2>2 DEF Refreshed, Detached
    <3>2. /\ job'[k] \in ViewingJob /\ ~job'[k].added
          /\ job'[k].kind = job[k].kind /\ job'[k].at = job[k].at /\ job'[k].mutation = job[k].mutation
          /\ job'[k].data = job[k].data /\ job'[k].revision = job[k].revision
          /\ job'[k].known = job[k].known /\ job'[k].alone = job[k].alone
      BY <2>1, <3>1, DetachedJob
    <3> QED BY <2>2, <3>2
  <2>3. CASE ~Applies(j)
    <3>1. job'[k] = job[k]
      BY <2>3 DEF Refreshed, ViewingTypeOK
    <3> QED BY <2>1, <2>3, <3>1
  <2> QED BY <2>2, <2>3
<1>u. /\ Reading(j) /\ Answers(j) /\ job[j].kind = "list" /\ UNCHANGED <<kept, snapshot>>
      /\ job' \in [Job -> ViewingJob]
      /\ doubt' = D
  <2>1. job' \in [Job -> ViewingJob]
    BY <1>n, <1>o DEF Refreshed, Detached, ViewingTypeOK
  <2> QED BY <2>1 DEF Refreshed, D, Reading, Answers
<1>1. ViewingTypeOK'
  BY <1>d, <1>t, <1>u DEF ViewingTypeOK
<1>2. JobsAreInStages'
  BY <1>n, <1>o DEF JobsAreInStages
<1>3. EditsAreNumbered'
  BY <1>d, <1>t, <1>n, <1>o, <1>u DEF EditsAreNumbered, Reading, Answers, Posting, TitleState
<1>4. RevisionsAreTold'
  BY <1>t, <1>n, <1>o, <1>u DEF RevisionsAreTold, Reading, Answers, Posting, ViewingTypeOK
<1>5. AloneIsAlone'
  BY <1>t, <1>n, <1>o DEF AloneIsAlone, Posting, LatestEdit
<1>6. NoObjectNoRecord'
  BY <1>t DEF NoObjectNoRecord
<1>7. QuietReadIsLatest'
  BY <1>t, <1>n, <1>o, <1>u DEF QuietReadIsLatest, Reading, Answers, Posting, Applies,
      JobsAreInStages, Settled
<1>8. LatestAnswerIsKept'
  BY <1>d, <1>t, <1>n, <1>o, <1>u DEF LatestAnswerIsKept, Reading, Answers, Posting, LatestEdit,
      DoubtState, Settled
<1>9. RollBackIsTrue'
  BY <1>d, <1>t, <1>n, <1>o, <1>u DEF RollBackIsTrue, Reading, Answers, Posting, LatestEdit, Applies,
      ViewingJob, JobsAreInStages, EditsAreNumbered, Settled, RevisionsAreTold
<1>10. EndedIsShown'
  BY <1>d, <1>t, <1>n, <1>o, <1>u DEF EndedIsShown, Posting, LatestEdit, DoubtState, JobsAreInStages,
      AloneIsAlone, Settled, RevisionsAreTold, Reading, QuietReadIsLatest
<1>11. BehindWaits'
  BY <1>d, <1>u DEF BehindWaits
<1>12. SnapshotIsTrue'
  BY <1>d, <1>u DEF SnapshotIsTrue
<1> QED BY <1>1, <1>2, <1>3, <1>4, <1>5, <1>6, <1>7, <1>8, <1>9, <1>10, <1>11, <1>12

\* Asking for the revisions changes nothing shown.
LEMMA DomainsReadKeeps ==
  ASSUME ViewingInv, NEW j \in Job, DomainsRead(j)
  PROVE  ViewingInv'
<1> USE DEF ViewingInv, ViewingBase
<1>1. ViewingTypeOK'
  <2>1. job' = [job EXCEPT ![j].at = "persist"] /\ UNCHANGED <<kept, title, snapshot, doubt>>
    BY DEF DomainsRead
  <2>2. [job[j] EXCEPT !.at = "persist"] \in ViewingJob
    BY DEF ViewingTypeOK, ViewingJob
  <2> QED BY <2>1, <2>2 DEF ViewingTypeOK
<1>2. JobsAreInStages'
  BY DEF JobsAreInStages, DomainsRead
<1>3. EditsAreNumbered'
  BY DEF EditsAreNumbered, Reading, Answers, Posting, DomainsRead
<1>4. RevisionsAreTold'
  BY DEF RevisionsAreTold, Reading, Answers, Posting, DomainsRead
<1>5. AloneIsAlone'
  BY DEF AloneIsAlone, Posting, LatestEdit, DomainsRead
<1>6. NoObjectNoRecord'
  BY DEF NoObjectNoRecord, DomainsRead
<1>7. QuietReadIsLatest'
  BY DEF QuietReadIsLatest, Reading, Answers, Posting, Applies, DomainsRead
<1>8. LatestAnswerIsKept'
  BY DEF LatestAnswerIsKept, Reading, Answers, Posting, LatestEdit, DomainsRead
<1>9. RollBackIsTrue'
  BY DEF RollBackIsTrue, Reading, Answers, Posting, LatestEdit, Applies, DomainsRead
<1>10. EndedIsShown'
  BY DEF EndedIsShown, Posting, LatestEdit, DomainsRead
<1>11. BehindWaits'
  BY DEF BehindWaits, Posting, LatestEdit, ViewingTypeOK, DomainsRead
<1>12. SnapshotIsTrue'
  BY DEF SnapshotIsTrue, DomainsRead
<1> QED BY <1>1, <1>2, <1>3, <1>4, <1>5, <1>6, <1>7, <1>8, <1>9, <1>10, <1>11, <1>12

\* The revision told is the one the Pi has at that moment.
LEMMA BootstrapKeeps ==
  ASSUME ViewingInv, NEW j \in Job, Bootstrap(j)
  PROVE  ViewingInv'
<1> USE DEF ViewingInv, ViewingBase
<1>1. ViewingTypeOK'
  <2>1. /\ job' = [job EXCEPT ![j].at = "told", ![j].known = kept.revision]
        /\ UNCHANGED <<kept, title, snapshot, doubt>>
    BY DEF Bootstrap
  <2>2. [job[j] EXCEPT !.at = "told", !.known = kept.revision] \in ViewingJob
    BY ZenonT(60) DEF ViewingTypeOK, ViewingJob
  <2> QED BY <2>1, <2>2 DEF ViewingTypeOK
<1>2. JobsAreInStages'
  BY DEF JobsAreInStages, ViewingTypeOK, Bootstrap
<1>3. EditsAreNumbered'
  BY DEF EditsAreNumbered, Reading, Answers, Posting, ViewingTypeOK, Bootstrap
<1>4. RevisionsAreTold'
  BY DEF RevisionsAreTold, Reading, Answers, Posting, ViewingTypeOK, Bootstrap
<1>5. AloneIsAlone'
  BY DEF AloneIsAlone, Posting, LatestEdit, ViewingTypeOK, Bootstrap
<1>6. NoObjectNoRecord'
  BY DEF NoObjectNoRecord, Bootstrap
<1>7. QuietReadIsLatest'
  BY DEF QuietReadIsLatest, Reading, Answers, Posting, Applies, Bootstrap, ViewingTypeOK
<1>8. LatestAnswerIsKept'
  BY DEF LatestAnswerIsKept, Reading, Answers, Posting, LatestEdit, ViewingTypeOK, Bootstrap
<1>9. RollBackIsTrue'
  BY DEF RollBackIsTrue, Reading, Answers, Posting, LatestEdit, Applies, Bootstrap, ViewingTypeOK
<1>10. EndedIsShown'
  BY DEF EndedIsShown, Posting, LatestEdit, ViewingTypeOK, Bootstrap
<1>11. BehindWaits'
  <2>1. /\ job[j].at = "persist" /\ UNCHANGED <<title, doubt>>
        /\ \A k \in Job : /\ job'[k].kind = job[k].kind /\ job'[k].mutation = job[k].mutation
                          /\ job'[k].alone = job[k].alone
                          /\ k # j => job'[k].at = job[k].at
    BY DEF Bootstrap, ViewingTypeOK, ViewingJob
  <2> QED BY <2>1 DEF BehindWaits, Posting, LatestEdit
<1>12. SnapshotIsTrue'
  BY DEF SnapshotIsTrue, Bootstrap
<1> QED BY <1>1, <1>2, <1>3, <1>4, <1>5, <1>6, <1>7, <1>8, <1>9, <1>10, <1>11, <1>12

\* A snapshot under the Pi's revision has its record, or is in doubt.
LEMMA PersistKeeps ==
  ASSUME ViewingInv, NEW j \in Job, Persist(j)
  PROVE  ViewingInv'
<1> USE DEF ViewingInv, ViewingBase
<1>n. /\ job' = [job EXCEPT ![j] = job'[j]] /\ job'[j] \in ViewingJob
      /\ job'[j].kind = "none" /\ job'[j].at = "rest" /\ job'[j].known = 0 /\ job'[j].mutation = 0
  BY TitleRecords DEF Persist, Resting, ViewingTypeOK, ViewingJob
<1>t. /\ title' \in TitleState /\ title'.mutations = title.mutations /\ title'.object = title.object
      /\ title'.record = title.record
      /\ title'.known \in {title.known, job[j].known}
  BY DEF Persist, ViewingTypeOK, TitleState, ViewingJob
<1>u. /\ job[j].kind = "list" /\ job[j].at \in {"persist", "told"} /\ UNCHANGED kept
      /\ snapshot' \in [data : TitleRecord, revision : Nat]
      /\ snapshot'.data = title.record /\ snapshot'.revision = title'.known
      /\ doubt' \in DoubtState /\ doubt'.saved = doubt.saved /\ doubt'.page = doubt.page
      /\ doubt'.behind = doubt.behind
      /\ doubt'.snapshot = (doubt.page \/ \E k \in Job : Posting(k))
  BY <1>t DEF Persist, Stores, ViewingTypeOK, TitleState, DoubtState
<1>1. ViewingTypeOK'
  BY <1>n, <1>t, <1>u DEF ViewingTypeOK
<1>2. JobsAreInStages'
  BY <1>n DEF JobsAreInStages, ViewingTypeOK
<1>3. EditsAreNumbered'
  BY <1>n, <1>t, <1>u DEF EditsAreNumbered, Reading, Answers, Posting, ViewingTypeOK, TitleState
<1>4. RevisionsAreTold'
  BY <1>n, <1>t, <1>u DEF RevisionsAreTold, Reading, Answers, Posting, ViewingTypeOK
<1>5. AloneIsAlone'
  BY <1>n, <1>t DEF AloneIsAlone, Posting, LatestEdit, ViewingTypeOK
<1>6. NoObjectNoRecord'
  BY <1>t DEF NoObjectNoRecord
<1>7. QuietReadIsLatest'
  BY <1>n, <1>t, <1>u DEF QuietReadIsLatest, Reading, Answers, Posting, Applies, ViewingTypeOK
<1>8. LatestAnswerIsKept'
  BY <1>n, <1>t, <1>u DEF LatestAnswerIsKept, Reading, Answers, Posting, LatestEdit, ViewingTypeOK
<1>9. RollBackIsTrue'
  BY <1>n, <1>t, <1>u DEF RollBackIsTrue, Reading, Answers, Posting, LatestEdit, Applies, ViewingTypeOK
<1>10. EndedIsShown'
  BY <1>n, <1>t, <1>u DEF EndedIsShown, Posting, LatestEdit, ViewingTypeOK
<1>11. BehindWaits'
  BY <1>n, <1>t, <1>u DEF BehindWaits, Posting, LatestEdit, ViewingTypeOK
<1>12. SnapshotIsTrue'
  BY <1>u DEF SnapshotIsTrue, DoubtState, EndedIsShown, BehindWaits, LatestEdit
<1> QED BY <1>1, <1>2, <1>3, <1>4, <1>5, <1>6, <1>7, <1>8, <1>9, <1>10, <1>11, <1>12

\* The revision known by then is one the Pi has had.
LEMMA DomainsToldKeeps ==
  ASSUME ViewingInv, NEW j \in Job, DomainsTold(j)
  PROVE  ViewingInv'
<1> USE DEF ViewingInv, ViewingBase
<1>n. /\ job' = [job EXCEPT ![j] = job'[j]] /\ job'[j] \in ViewingJob
      /\ job'[j].kind = "domains" /\ job'[j].at = "write" /\ job'[j].mutation = job[j].mutation
      /\ job'[j].data = job[j].data /\ job'[j].revision = job[j].revision
      /\ job'[j].known = job[j].known /\ job'[j].alone = job[j].alone
  <2>1. job' = [job EXCEPT ![j].at = "write"] /\ job[j] \in ViewingJob
    BY DEF DomainsTold, ViewingTypeOK
  <2>2. job'[j] = [job[j] EXCEPT !.at = "write"] /\ job' = [job EXCEPT ![j] = job'[j]]
    BY <2>1 DEF ViewingTypeOK
  <2> QED BY <2>1, <2>2 DEF ViewingJob, DomainsTold
<1>t. /\ title' \in TitleState /\ title'.record = title.record /\ title'.object = title.object
      /\ title'.mutations = title.mutations /\ title'.known = job[j].known
  <2>1. title' = [title EXCEPT !.known = job[j].known] /\ job[j].known \in Nat
    BY DEF DomainsTold, ViewingTypeOK, ViewingJob
  <2> QED BY <2>1 DEF ViewingTypeOK, TitleState
<1>u. job[j].kind = "domains" /\ job[j].at = "told" /\ UNCHANGED <<kept, snapshot, doubt>>
  BY DEF DomainsTold
<1>1. ViewingTypeOK'
  BY <1>n, <1>t, <1>u DEF ViewingTypeOK
<1>2. JobsAreInStages'
  BY <1>n, <1>t, <1>u DEF JobsAreInStages, ViewingTypeOK
<1>3. EditsAreNumbered'
  BY <1>n, <1>t, <1>u DEF EditsAreNumbered, Reading, Answers, Posting, ViewingTypeOK
<1>4. RevisionsAreTold'
  BY <1>n, <1>t, <1>u DEF RevisionsAreTold, Reading, Answers, Posting, ViewingTypeOK
<1>5. AloneIsAlone'
  BY <1>n, <1>t, <1>u DEF AloneIsAlone, Posting, LatestEdit, ViewingTypeOK
<1>6. NoObjectNoRecord'
  BY <1>t DEF NoObjectNoRecord
<1>7. QuietReadIsLatest'
  BY <1>n, <1>t, <1>u DEF QuietReadIsLatest, Reading, Answers, Posting, Applies, ViewingTypeOK
<1>8. LatestAnswerIsKept'
  BY <1>n, <1>t, <1>u DEF LatestAnswerIsKept, Reading, Answers, Posting, LatestEdit, ViewingTypeOK
<1>9. RollBackIsTrue'
  BY <1>n, <1>t, <1>u DEF RollBackIsTrue, Reading, Answers, Posting, LatestEdit, Applies, ViewingTypeOK
<1>10. EndedIsShown'
  BY <1>n, <1>t, <1>u DEF EndedIsShown, Posting, LatestEdit, ViewingTypeOK
<1>11. BehindWaits'
  BY <1>n, <1>t, <1>u DEF BehindWaits, Posting, LatestEdit, ViewingTypeOK
<1>12. SnapshotIsTrue'
  BY <1>u DEF SnapshotIsTrue
<1> QED BY <1>1, <1>2, <1>3, <1>4, <1>5, <1>6, <1>7, <1>8, <1>9, <1>10, <1>11, <1>12

\* The late drawing of a start is like that of a refresh, and is stored.
LEMMA DomainsShownKeeps ==
  ASSUME ViewingInv, NEW j \in Job, DomainsShown(j)
  PROVE  ViewingInv'
<1> USE DEF ViewingInv, ViewingBase
<1> DEFINE D == Drawn(j)
<1>d. /\ D \in DoubtState /\ D.saved = doubt.saved /\ D.snapshot = doubt.snapshot
      /\ ~Applies(j) => D.behind = doubt.behind /\ D.page = (doubt.page \/ doubt.behind)
      /\ Applies(j) /\ Settled(j) => ~D.behind /\ ~D.page
      /\ Applies(j) /\ ~Settled(j) =>
           ~D.behind /\ D.page = (doubt.page \/ (~job[j].alone /\ \A k \in Job : ~LatestEdit(k)))
  BY DrawnDoubt DEF ViewingTypeOK
<1> HIDE DEF D
<1>t. /\ title' \in TitleState /\ title'.mutations = title.mutations /\ title'.known = title.known
      /\ title'.object = 0 => title'.record = Unlisted
      /\ Applies(j) => title'.record = job[j].data
      /\ ~Applies(j) => title' = title
  <2>1. title \in TitleState /\ job[j].data \in TitleRecord
    BY DEF ViewingTypeOK, ViewingJob
  <2>2. CASE Applies(j)
    <3>1. title' = Merged(title, job[j].data)
      BY <2>2 DEF DomainsShown, Shown
    <3> QED BY <2>1, <2>2, <3>1, MergedTitle
  <2>3. CASE ~Applies(j)
    BY <2>1, <2>3 DEF DomainsShown, Shown, NoObjectNoRecord
  <2> QED BY <2>2, <2>3
<1>n. /\ job'[j] \in ViewingJob /\ job'[j].known = 0 /\ job'[j].mutation = 0
      /\ ~Reading(j)' /\ ~Posting(j)'
      /\ job'[j].kind = "none" /\ job'[j].at = "rest"
  <2>1. job'[j] = Resting
    BY DEF DomainsShown, Detached, ViewingTypeOK
  <2> QED BY <2>1, TitleRecords DEF Resting, Reading, Posting
<1>o. \A k \in Job \ {j} :
       /\ job'[k] \in ViewingJob
       /\ job'[k].kind = job[k].kind /\ job'[k].at = job[k].at /\ job'[k].mutation = job[k].mutation
       /\ job'[k].data = job[k].data /\ job'[k].revision = job[k].revision /\ job'[k].known = job[k].known
       /\ job'[k].alone = job[k].alone
       /\ ~Applies(j) => job'[k] = job[k]
       /\ Applies(j) => ~job'[k].added
  <2> TAKE k \in Job \ {j}
  <2>1. job[k] \in ViewingJob
    BY DEF ViewingTypeOK
  <2>2. CASE Applies(j)
    <3>1. job'[k] = [job[k] EXCEPT !.added = FALSE, !.held = 0]
      BY <2>2 DEF DomainsShown, Detached
    <3>2. /\ job'[k] \in ViewingJob /\ ~job'[k].added
          /\ job'[k].kind = job[k].kind /\ job'[k].at = job[k].at /\ job'[k].mutation = job[k].mutation
          /\ job'[k].data = job[k].data /\ job'[k].revision = job[k].revision
          /\ job'[k].known = job[k].known /\ job'[k].alone = job[k].alone
      BY <2>1, <3>1, DetachedJob
    <3> QED BY <2>2, <3>2
  <2>3. CASE ~Applies(j)
    <3>1. job'[k] = job[k]
      BY <2>3 DEF DomainsShown, ViewingTypeOK
    <3> QED BY <2>1, <2>3, <3>1
  <2> QED BY <2>2, <2>3
<1>u. /\ Reading(j) /\ Answers(j) /\ job[j].kind = "domains" /\ UNCHANGED kept
      /\ job' \in [Job -> ViewingJob]
      /\ doubt' \in DoubtState /\ doubt'.saved = D.saved /\ doubt'.page = D.page /\ doubt'.behind = D.behind
      /\ ~Applies(j) => snapshot' = snapshot /\ doubt'.snapshot = doubt.snapshot
      /\ Applies(j) => /\ snapshot' \in [data : TitleRecord, revision : Nat]
                       /\ snapshot'.data = job[j].data /\ snapshot'.revision = title.known
                       /\ doubt'.snapshot = (D.page \/ \E k \in Job : Posting(k))
  <2>1. job' \in [Job -> ViewingJob]
    BY <1>n, <1>o DEF DomainsShown, Detached, ViewingTypeOK
  <2>2. Reading(j) /\ Answers(j) /\ job[j].kind = "domains" /\ UNCHANGED kept
    BY DEF DomainsShown, Reading, Answers
  <2>3. CASE Applies(j)
    <3>1. doubt' = [D EXCEPT !.snapshot = D.page \/ \E k \in Job : Posting(k)]
          /\ snapshot' = [data |-> job[j].data, revision |-> title.known]
      BY <2>3 DEF DomainsShown, Stores, D
    <3> QED BY <1>d, <2>1, <2>2, <2>3, <3>1 DEF DoubtState, ViewingTypeOK, ViewingJob, TitleState
  <2>4. CASE ~Applies(j)
    <3>1. doubt' = D /\ snapshot' = snapshot
      BY <2>4 DEF DomainsShown, D
    <3> QED BY <1>d, <2>1, <2>2, <2>4, <3>1
  <2> QED BY <2>3, <2>4
<1>1. ViewingTypeOK'
  BY <1>t, <1>u DEF ViewingTypeOK
<1>2. JobsAreInStages'
  BY <1>n, <1>o DEF JobsAreInStages
<1>3. EditsAreNumbered'
  BY <1>d, <1>t, <1>n, <1>o, <1>u DEF EditsAreNumbered, Reading, Answers, Posting, TitleState
<1>4. RevisionsAreTold'
  BY <1>t, <1>n, <1>o, <1>u DEF RevisionsAreTold, Reading, Answers, Posting, ViewingTypeOK
<1>5. AloneIsAlone'
  BY <1>t, <1>n, <1>o DEF AloneIsAlone, Posting, LatestEdit
<1>6. NoObjectNoRecord'
  BY <1>t DEF NoObjectNoRecord
<1>7. QuietReadIsLatest'
  BY <1>t, <1>n, <1>o, <1>u DEF QuietReadIsLatest, Reading, Answers, Posting, Applies
<1>8. LatestAnswerIsKept'
  BY <1>d, <1>t, <1>n, <1>o, <1>u DEF LatestAnswerIsKept, Reading, Answers, Posting, LatestEdit,
      DoubtState, Settled
<1>9. RollBackIsTrue'
  BY <1>d, <1>t, <1>n, <1>o, <1>u DEF RollBackIsTrue, Reading, Answers, Posting, LatestEdit, Applies,
      ViewingJob, Settled
<1>10. EndedIsShown'
  BY <1>d, <1>t, <1>n, <1>o, <1>u DEF EndedIsShown, Posting, LatestEdit, DoubtState, EditsAreNumbered,
      Settled, RevisionsAreTold, Answers, QuietReadIsLatest
<1>11. BehindWaits'
  BY <1>d, <1>u DEF BehindWaits
<1>12. SnapshotIsTrue'
  BY <1>d, <1>u DEF SnapshotIsTrue, DoubtState, Settled, RevisionsAreTold, LatestEdit, QuietReadIsLatest
<1> QED BY <1>1, <1>2, <1>3, <1>4, <1>5, <1>6, <1>7, <1>8, <1>9, <1>10, <1>11, <1>12

\* A start shows the snapshot, and reads when it is not the Pi's latest.
LEMMA ReopenKeeps ==
  ASSUME ViewingInv, NEW j \in Job, Reopen(j)
  PROVE  ViewingInv'
<1> USE DEF ViewingInv, ViewingBase
<1>t. /\ title' \in TitleState /\ title'.mutations = 0 /\ title'.known = kept.revision
      /\ title'.record = snapshot.data /\ (title'.object = 0 => title'.record = Unlisted)
  BY DEF Reopen, Opened, ViewingTypeOK, TitleState
<1>n. \A k \in Job :
       /\ job'[k] \in ViewingJob /\ job'[k].known = 0 /\ job'[k].mutation = 0
       /\ \/ job'[k].kind = "none" /\ job'[k].at = "rest"
          \/ job'[k].kind = "domains" /\ job'[k].at = "sent"
  BY TitleRecords DEF Reopen, ViewingJob, Resting
<1>u. /\ UNCHANGED <<kept, snapshot>> /\ job' \in [Job -> ViewingJob]
      /\ doubt' \in DoubtState /\ doubt'.page = doubt.snapshot /\ doubt'.snapshot = doubt.snapshot
      /\ doubt'.saved = 0 /\ doubt'.behind = (snapshot.revision # kept.revision)
      /\ doubt'.behind => job'[j].kind = "domains"
  <2>1. job' \in [Job -> ViewingJob]
    BY <1>n DEF Reopen
  <2> DEFINE behind == snapshot.revision # kept.revision
  <2>2. /\ doubt' = [doubt EXCEPT !.page = doubt.snapshot, !.behind = behind, !.saved = 0]
        /\ behind => job'[j].kind = "domains"
        /\ UNCHANGED <<kept, snapshot>> /\ behind \in BOOLEAN
    BY DEF Reopen, Resting
  <2> HIDE DEF behind
  <2>3. /\ doubt' \in DoubtState /\ doubt'.page = doubt.snapshot /\ doubt'.snapshot = doubt.snapshot
        /\ doubt'.saved = 0 /\ doubt'.behind = behind
    BY <2>2 DEF ViewingTypeOK, DoubtState
  <2> QED BY <2>1, <2>2, <2>3 DEF behind
<1>1. ViewingTypeOK'
  BY <1>t, <1>u DEF ViewingTypeOK
<1>2. JobsAreInStages'
  BY <1>n DEF JobsAreInStages
<1>3. EditsAreNumbered'
  BY <1>t, <1>n, <1>u DEF EditsAreNumbered, Reading, Answers, Posting
<1>4. RevisionsAreTold'
  BY <1>t, <1>n, <1>u DEF RevisionsAreTold, Reading, Answers, Posting, ViewingTypeOK
<1>5. AloneIsAlone'
  BY <1>n DEF AloneIsAlone, Posting, LatestEdit
<1>6. NoObjectNoRecord'
  BY <1>t DEF NoObjectNoRecord
<1>7. QuietReadIsLatest'
  BY <1>n DEF QuietReadIsLatest, Reading, Answers, Posting
<1>8. LatestAnswerIsKept'
  BY <1>n DEF LatestAnswerIsKept, Reading, Answers
<1>9. RollBackIsTrue'
  BY <1>n DEF RollBackIsTrue, Posting, LatestEdit, ViewingTypeOK, AloneIsAlone
<1>10. EndedIsShown'
  BY <1>t, <1>n, <1>u DEF EndedIsShown, Posting, DoubtState, SnapshotIsTrue
<1>11. BehindWaits'
  BY <1>n, <1>u DEF BehindWaits, Posting, LatestEdit, ViewingTypeOK
<1>12. SnapshotIsTrue'
  BY <1>u DEF SnapshotIsTrue
<1> QED BY <1>1, <1>2, <1>3, <1>4, <1>5, <1>6, <1>7, <1>8, <1>9, <1>10, <1>11, <1>12

\* The strengthening holds of every behaviour.
LEMMA ViewingStaysSound == ViewingSpec => []ViewingInv
<1>1. ViewingInit => ViewingInv
  <2> SUFFICES ASSUME ViewingInit PROVE ViewingInv
    OBVIOUS
  <2>1. PICK record \in {Unlisted, Listed} :
          /\ kept = [record |-> record, revision |-> 1] /\ title = Opened(record)
          /\ snapshot = [data |-> record, revision |-> 1]
    BY DEF ViewingInit
  <2>2. \A j \in Job : job[j] = Resting
    BY DEF ViewingInit
  <2>3. record \in TitleRecord
    <3>1. Unlisted \in TitleRecord /\ Listed \in TitleRecord
      BY DEF TitleRecord, Unlisted, Listed
    <3> QED BY <2>1, <3>1
  <2>4. /\ title \in TitleState /\ title.known = 1 /\ title.mutations = 0 /\ title.record = record
        /\ title.object = 0 => title.record = Unlisted
    BY <2>1, <2>3 DEF TitleState, Opened
  <2>5. ViewingTypeOK
    BY <2>1, <2>3, <2>4, TitleRecords DEF ViewingInit, ViewingTypeOK, DoubtState
  <2>6. /\ doubt.saved = 0 /\ ~doubt.behind
        /\ \A j \in Job : /\ job[j].kind = "none" /\ job[j].at = "rest" /\ job[j].mutation = 0
                          /\ job[j].known = 0
    BY <2>2 DEF ViewingInit, Resting
  <2> QED BY <2>1, <2>4, <2>5, <2>6
       DEF ViewingInv, ViewingBase, JobsAreInStages, EditsAreNumbered, RevisionsAreTold, AloneIsAlone,
           NoObjectNoRecord, QuietReadIsLatest, LatestAnswerIsKept, RollBackIsTrue, EndedIsShown,
           BehindWaits, SnapshotIsTrue, Reading, Answers, Posting, LatestEdit
<1>2. ViewingInv /\ [ViewingNext]_viewingVars => ViewingInv'
  <2> SUFFICES ASSUME ViewingInv, [ViewingNext]_viewingVars PROVE ViewingInv'
    OBVIOUS
  <2>1. ASSUME NEW j \in Job, NEW f \in Field, Edit(j, f) PROVE ViewingInv'
    BY <2>1, EditKeeps
  <2>2. ASSUME NEW f \in Field, PiChangesTitle(f) PROVE ViewingInv'
    BY <2>2, PiChangesTitleKeeps
  <2>3. ASSUME NEW j \in Job, NEW kind \in {"list", "domains"}, Refresh(j, kind) PROVE ViewingInv'
    BY <2>3, RefreshKeeps
  <2>4. ASSUME NEW j \in Job, PiSaves(j) \/ EditAnswered(j) \/ Failed(j) PROVE ViewingInv'
    BY <2>4, PiSavesKeeps, EditAnsweredKeeps, FailedKeeps
  <2>5. ASSUME NEW j \in Job,
               PiReadsTitles(j) \/ ReadLost(j) \/ Refreshed(j) \/ Bootstrap(j) \/ Persist(j)
        PROVE ViewingInv'
    BY <2>5, PiReadsTitlesKeeps, ReadLostKeeps, RefreshedKeeps, BootstrapKeeps, PersistKeeps
  <2>6. ASSUME NEW j \in Job, DomainsRead(j) \/ DomainsTold(j) \/ DomainsShown(j) PROVE ViewingInv'
    BY <2>6, DomainsReadKeeps, DomainsToldKeeps, DomainsShownKeeps
  <2>7. ASSUME NEW j \in Job, Reopen(j) PROVE ViewingInv'
    BY <2>7, ReopenKeeps
  <2>8. ASSUME UNCHANGED viewingVars PROVE ViewingInv'
    BY <2>8 DEF viewingVars, ViewingInv, ViewingBase, ViewingTypeOK, JobsAreInStages,
        EditsAreNumbered,
         RevisionsAreTold, AloneIsAlone, NoObjectNoRecord, QuietReadIsLatest, LatestAnswerIsKept,
         RollBackIsTrue, EndedIsShown, BehindWaits, SnapshotIsTrue, Reading, Answers, Posting, LatestEdit, Applies
  <2> QED BY <2>1, <2>2, <2>3, <2>4, <2>5, <2>6, <2>7, <2>8 DEF ViewingNext
<1> QED BY <1>1, <1>2, PTL DEF ViewingSpec

(* What the page, the Pi, the snapshot and the jobs hold is always well      *)
(* formed, whatever overlaps (catalogue.js).                                  *)
THEOREM ViewingTypeCorrect == ViewingSpec => []ViewingTypeOK
<1>1. ViewingInv => ViewingTypeOK
  BY DEF ViewingInv, ViewingBase
<1> QED BY <1>1, ViewingStaysSound, PTL

(* Once no edit and no read is under way the page shows what the Pi keeps of  *)
(* the title, but for the doubts the module names, and a snapshot under the   *)
(* Pi's revision is what the Pi keeps.  An edit is followed by its number: an *)
(* answer or a read from before the latest edit is never shown, so what ends  *)
(* last is the latest edit's answer, its roll-back, or a read that began with *)
(* no edit under way.                                                         *)
THEOREM ViewingStaysTrue == ViewingSpec => []ViewingIsTrue
<1>1. ViewingInv => ViewingIsTrue
  <2> SUFFICES ASSUME ViewingInv, ViewingRests, ~doubt.page PROVE title.record = kept.record
    BY DEF ViewingInv, ViewingIsTrue, PageIsTrueAtRest
  <2>1. \A j \in Job : ~LatestEdit(j) /\ job[j].kind # "domains"
    BY DEF ViewingRests, LatestEdit, Posting
  <2> QED BY <2>1 DEF ViewingInv, EndedIsShown, BehindWaits
<1> QED BY <1>1, ViewingStaysSound, PTL
=============================================================================
