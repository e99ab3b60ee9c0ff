----------------------------- MODULE MyTvViewing -----------------------------
(* What a browser shows of one title of My TV (watchlist, rating and so on),  *)
(* what the Pi stores of it, and the snapshot that the next start of the app  *)
(* paints from (portal/js/my-tv-viewing, portal/js/core).                     *)
(*                                                                            *)
(* An edit is shown at once and posted; a refresh asks for the whole list;    *)
(* both end by storing a snapshot under the revision a bootstrap told.  Posts *)
(* and refreshes overlap freely, and a step ends where the page awaits.       *)
(*                                                                            *)
(* A title is shown from an object of the list.  Edits, answers and refreshes *)
(* write to that object; an edit that fails takes the object it brought in    *)
(* out of the list, or puts back the one it had found there.                  *)
EXTENDS Naturals

CONSTANTS
  Field,        \* what can be edited of a title
  Job,          \* posts and refreshes that can be under way at once
  MaxEdits,     \* bound on the edits of this title
  MaxDisturbances   \* bound on changes made elsewhere, failing requests and
                    \* starts of the app, together

VARIABLES
  kept,       \* the Pi: the stored record, and the revision of my_tv_viewing
  title,      \* the page: the record its list shows and the object it is in, the
              \* objects made so far, the mutation count, the revision last told
  job,        \* [Job -> the post or refresh under way]
  snapshot,   \* my-tv-viewing-v1 of the app cache
  viewingEvents,   \* how many edits and disturbances there have been
  doubt       \* ghost: why the page or the snapshot need not be the Pi's now,
              \* and the last edit that the Pi has saved

viewingVars == <<kept, title, job, snapshot, viewingEvents, doubt>>

Unlisted == [listed |-> FALSE, has |-> {}]
Listed == [listed |-> TRUE, has |-> {}]
Resting == [kind |-> "none", at |-> "rest", field |-> "none", value |-> FALSE, mutation |-> 0,
            added |-> FALSE, held |-> 0, back |-> Unlisted, data |-> Unlisted, revision |-> 0,
            known |-> 0, alone |-> TRUE]

Disturbed ==
  /\ viewingEvents.disturbances < MaxDisturbances
  /\ viewingEvents' = [viewingEvents EXCEPT !.disturbances = @ + 1]
Persisting == [Resting EXCEPT !.kind = "list", !.at = "persist"]
Opened(record) == [record |-> record, object |-> IF record = Unlisted THEN 0 ELSE 1,
                   objects |-> 1, mutations |-> 0, known |-> 1]
Posting(j) == job[j].kind = "post"
LatestEdit(j) == Posting(j) /\ job[j].mutation = title.mutations
-----------------------------------------------------------------------------
(* optimisticMyTvViewingRecord; the Pi sets the field of its own record.      *)
WithField(record, f, value) ==
  [listed |-> TRUE, has |-> IF value THEN record.has \cup {f} ELSE record.has \ {f}]

(* cacheMyTvViewingRecord: written to the object in the list, or a new one.   *)
Cached(p, record) ==
  IF p.object > 0 THEN [p EXCEPT !.record = record]
  ELSE [p EXCEPT !.record = record, !.object = p.objects + 1, !.objects = @ + 1]

(* updateMyTvViewing: shown first, then posted.  A button waits for its own   *)
(* save, but a title has more than one button for a field, and the rating     *)
(* waits for none.                                                            *)
Edit(j, f) ==
  /\ job[j].at = "rest"
  /\ viewingEvents.edits < MaxEdits
  /\ viewingEvents' = [viewingEvents EXCEPT !.edits = @ + 1]
  /\ LET value == f \notin title.record.has
     IN  /\ title' = [Cached(title, WithField(title.record, f, value)) EXCEPT !.mutations = @ + 1]
         /\ job' = [k \in Job |->
              IF k = j
                THEN [Resting EXCEPT !.kind = "post", !.at = "sent", !.field = f, !.value = value,
                        !.mutation = title.mutations + 1, !.added = title.object = 0,
                        !.held = title.object, !.alone = \A other \in Job : ~Posting(other)]
                ELSE [job[k] EXCEPT !.alone = @ /\ ~Posting(k)]]
  /\ UNCHANGED <<kept, snapshot, doubt>>

Stored(record) == kept' = [record |-> record, revision |-> kept.revision + 1]

(* my_tv_viewing_update: one transaction with the revision; the reply is the  *)
(* whole record.  (An edit that comes after a later one is a doubt.)          *)
PiSaves(j) ==
  /\ Posting(j) /\ job[j].at = "sent"
  /\ LET record == WithField(kept.record, job[j].field, job[j].value)
     IN  /\ Stored(record)
         /\ job' = [job EXCEPT ![j].at = "answered", ![j].data = record,
                                ![j].revision = kept'.revision]
  /\ doubt' = IF job[j].mutation < doubt.saved THEN [doubt EXCEPT !.page = TRUE]
              ELSE [doubt EXCEPT !.saved = job[j].mutation]
  /\ UNCHANGED <<title, snapshot, viewingEvents>>

(* The same title is changed by another device, or by the television.         *)
PiChangesTitle(f) ==
  /\ Disturbed
  /\ Stored(WithField(kept.record, f, f \notin kept.record.has))
  /\ job' = [j \in Job |-> [job[j] EXCEPT !.alone = FALSE]]
  /\ doubt' = [doubt EXCEPT !.page = TRUE]
  /\ UNCHANGED <<title, snapshot>>

(* A whole answer is shown, the Pi's latest and with no edit to follow.       *)
Settled(j) == job[j].revision = kept.revision /\ \A k \in Job \ {j} : ~Posting(k)
Trusted(j) == [doubt EXCEPT !.page = @ /\ ~Settled(j), !.behind = FALSE]

(* Only the answer to the latest edit of the title is shown.                  *)
EditAnswered(j) ==
  /\ Posting(j) /\ job[j].at = "answered"
  /\ job' = [job EXCEPT ![j] = Persisting]
  /\ IF LatestEdit(j)
       THEN title' = Cached(title, job[j].data) /\ doubt' = Trusted(j)
       ELSE UNCHANGED <<title, doubt>>
  /\ UNCHANGED <<kept, snapshot, viewingEvents>>

(* Plausible bug: a title that the edit brought into the list stays there.    *)
RolledBackMutant(p, post) == p

(* catch: a title the edit brought into the list leaves it again; for any     *)
(* other the object found there is put back, as it is by now.                 *)
RolledBack(p, post) ==
  IF post.added THEN [p EXCEPT !.record = Unlisted, !.object = 0]
  ELSE IF post.held \in {0, p.object} THEN p
  ELSE [p EXCEPT !.record = post.back, !.object = post.held]

(* What the edits hold of an object when it leaves the list.                  *)
Leaving(p, jobs) ==
  [k \in Job |-> IF p.object # title.object /\ jobs[k].held = title.object
                   THEN [jobs[k] EXCEPT !.back = title.record] ELSE jobs[k]]

(* A request fails, at the Pi or on the way back.  In doubt is what a failing *)
(* edit leaves, but for one that was alone and not yet saved and brought the  *)
(* title in (or found the list renewed), or that a later one will make good.  *)
Failed(j) ==
  /\ Posting(j) /\ Disturbed
  /\ title' = RolledBack(title, job[j])
  /\ job' = Leaving(title', [job EXCEPT ![j] = Resting])
  /\ doubt' = [doubt EXCEPT !.page = @ \/
       ~(\/ job[j].at = "sent" /\ job[j].alone /\ (job[j].added \/ job[j].held = 0)
         \/ \E k \in Job \ {j} : LatestEdit(k))]
  /\ UNCHANGED <<kept, snapshot>>

ReadLost(j) ==
  /\ ~Posting(j) /\ Disturbed
  /\ \/ job[j].at \in {"sent", "read"}
     \/ job[j].kind = "domains" /\ job[j].at \in {"persist", "told"}
  /\ job' = [job EXCEPT ![j] = Resting]
  /\ doubt' = [doubt EXCEPT !.page = @ \/ doubt.behind]
  /\ UNCHANGED <<kept, title, snapshot>>
-----------------------------------------------------------------------------
(* loadMyTvViewing({refresh: true}), or with "domains" refreshPortalDomains.  *)
Refresh(j, kind) ==
  /\ job[j].at = "rest"
  /\ job' = [job EXCEPT ![j] =
       [Resting EXCEPT !.kind = kind, !.at = "sent", !.mutation = title.mutations,
          !.alone = \A k \in Job : ~Posting(k)]]
  /\ UNCHANGED <<kept, title, snapshot, viewingEvents, doubt>>

PiReadsTitles(j) ==
  /\ job[j].kind \in {"list", "domains"} /\ job[j].at = "sent"
  /\ job' = [job EXCEPT ![j].at = "read", ![j].data = kept.record, ![j].revision = kept.revision]
  /\ UNCHANGED <<kept, title, snapshot, viewingEvents, doubt>>

(* The answer is dropped when an edit came after the refresh began.           *)
Applies(j) == job[j].mutation = title.mutations

(* mergeMyTvViewingData: the answer replaces what is shown of the title.      *)
Merged(p, item) ==
  IF item = Unlisted THEN [p EXCEPT !.record = Unlisted, !.object = 0] ELSE Cached(p, item)
Shown(j, p) == IF Applies(j) THEN Merged(p, job[j].data) ELSE p

(* The merge makes a new list: a failing edit goes back in the old one.       *)
Detached == [k \in Job |-> [job[k] EXCEPT !.added = FALSE, !.held = 0]]

(* In doubt is an answer beside which the Pi was changed, when it is shown    *)
(* with no edit to follow, and the page of a start that gets none.            *)
Drawn(j) ==
  IF Applies(j)
    THEN [Trusted(j) EXCEPT !.page =
           @ \/ (~Settled(j) /\ ~job[j].alone /\ \A k \in Job : ~LatestEdit(k))]
    ELSE [doubt EXCEPT !.page = @ \/ doubt.behind]

Refreshed(j) ==
  /\ job[j].kind = "list" /\ job[j].at = "read"
  /\ title' = Shown(j, title)
  /\ job' = IF Applies(j) THEN [Detached EXCEPT ![j] = Persisting] ELSE [job EXCEPT ![j] = Resting]
  /\ doubt' = Drawn(j)
  /\ UNCHANGED <<kept, snapshot, viewingEvents>>

(* refreshPortalDomains has its data before it asks for the revisions.        *)
DomainsRead(j) ==
  /\ job[j].kind = "domains" /\ job[j].at = "read"
  /\ job' = [job EXCEPT ![j].at = "persist"]
  /\ UNCHANGED <<kept, title, snapshot, viewingEvents, doubt>>

(* /api/bootstrap tells the revision.                                         *)
Bootstrap(j) ==
  /\ job[j].at = "persist"
  /\ job' = [job EXCEPT ![j].at = "told", ![j].known = kept.revision]
  /\ UNCHANGED <<kept, title, snapshot, viewingEvents, doubt>>

(* In doubt is a snapshot of a page that is, or that shows an edit under way. *)
Stores(data, known, doubts) ==
  /\ snapshot' = [data |-> data, revision |-> known]
  /\ doubt' = [doubts EXCEPT !.snapshot = doubts.page \/ \E k \in Job : Posting(k)]

(* persistMyTvViewingCache writes what is shown by now, under the revision    *)
(* just told, or when it was told none, under the one known.                  *)
Persist(j) ==
  /\ job[j].kind = "list"
  /\ \/ /\ job[j].at = "told" /\ UNCHANGED viewingEvents
        /\ title' = [title EXCEPT !.known = job[j].known]
     \/ job[j].at \in {"persist", "told"} /\ Disturbed /\ UNCHANGED title
  /\ Stores(title.record, title'.known, doubt)
  /\ job' = [job EXCEPT ![j] = Resting]
  /\ UNCHANGED kept

(* refreshPortalDomains stores the library first, which takes a while, and    *)
(* then shows and stores its answer under the revision known by then.         *)
DomainsTold(j) ==
  /\ job[j].kind = "domains" /\ job[j].at = "told"
  /\ title' = [title EXCEPT !.known = job[j].known]
  /\ job' = [job EXCEPT ![j].at = "write"]
  /\ UNCHANGED <<kept, snapshot, viewingEvents, doubt>>

DomainsShown(j) ==
  /\ job[j].kind = "domains" /\ job[j].at = "write"
  /\ title' = Shown(j, title)
  /\ IF Applies(j)
       THEN Stores(job[j].data, title.known, Drawn(j)) /\ job' = [Detached EXCEPT ![j] = Resting]
       ELSE doubt' = Drawn(j) /\ job' = [job EXCEPT ![j] = Resting] /\ UNCHANGED snapshot
  /\ UNCHANGED <<kept, viewingEvents>>

(* The app starts again: the snapshot is painted, and refreshed only when its *)
(* revision is another than the Pi's.  A post under way may have arrived.     *)
Reopen(j) ==
  /\ Disturbed
  /\ LET behind == snapshot.revision # kept.revision
     IN  /\ job' = [k \in Job |->
              IF k = j /\ behind THEN [Resting EXCEPT !.kind = "domains", !.at = "sent"]
              ELSE Resting]
         /\ doubt' = [doubt EXCEPT !.page = doubt.snapshot, !.behind = behind, !.saved = 0]
  /\ title' = [Opened(snapshot.data) EXCEPT !.known = kept.revision]
  /\ UNCHANGED <<kept, snapshot>>
-----------------------------------------------------------------------------
(* The title has been on the Pi, or not; the app has started for once.        *)
ViewingInit ==
  /\ \E record \in {Unlisted, Listed} :
       /\ kept = [record |-> record, revision |-> 1]
       /\ title = Opened(record)
       /\ snapshot = [data |-> record, revision |-> 1]
  /\ job = [j \in Job |-> Resting]
  /\ viewingEvents = [edits |-> 0, disturbances |-> 0]
  /\ doubt = [page |-> FALSE, snapshot |-> FALSE, behind |-> FALSE, saved |-> 0]

ViewingNext ==
  \/ \E j \in Job, f \in Field : Edit(j, f)
  \/ \E f \in Field : PiChangesTitle(f)
  \/ \E j \in Job, kind \in {"list", "domains"} : Refresh(j, kind)
  \/ \E j \in Job : PiSaves(j) \/ EditAnswered(j) \/ Failed(j)
  \/ \E j \in Job : PiReadsTitles(j) \/ ReadLost(j) \/ Refreshed(j) \/ Bootstrap(j) \/ Persist(j)
  \/ \E j \in Job : DomainsRead(j) \/ DomainsTold(j) \/ DomainsShown(j)
  \/ \E j \in Job : Reopen(j)

ViewingSpec == ViewingInit /\ [][ViewingNext]_viewingVars
-----------------------------------------------------------------------------
(* When no edit and no read is under way the page shows what the Pi keeps of  *)
(* the title: after edits that overlapped, were answered late or rolled back, *)
(* refreshes that crossed them and starts from the snapshot.  The doubts are  *)
(* what the code lets happen: a change made elsewhere; a failing edit of what *)
(* was in the list, or beside another, or already saved; edits saved in       *)
(* another order; a read that began beside an edit and was shown after it; a  *)
(* start from a snapshot in doubt, or whose only refresh failed or was        *)
(* dropped.  A whole answer, the Pi's latest, ends them.                      *)
ViewingRests == \A j \in Job : job[j].kind \in {"none", "list"} /\ job[j].at \notin {"sent", "read"}
PageIsTrueAtRest == (ViewingRests /\ ~doubt.page) => title.record = kept.record

(* A snapshot that the next start takes for the Pi's latest is: what was      *)
(* written while an edit was under way is a doubt.                            *)
SnapshotIsTrue ==
  (snapshot.revision = kept.revision /\ ~doubt.snapshot) => snapshot.data = kept.record

(* Both: what is shown, and what the next start will take for the truth.      *)
ViewingIsTrue == PageIsTrueAtRest /\ SnapshotIsTrue
=============================================================================
