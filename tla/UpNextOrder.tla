----------------------------- MODULE UpNextOrder -----------------------------
(* The Up Next list of My TV: rows that are held and dragged into another     *)
(* order (portal/js/my-tv-viewing/up-next-order.js, grid.js), the titles of   *)
(* the page they are drawn from, and the queue of the Pi, which takes a whole *)
(* order or nothing (viewing_queue.py).                                       *)
(*                                                                            *)
(* Rows are kept from one drawing to the next, and what a drag listens to is  *)
(* bound at every drawing of the whole queue and never released: a row drags  *)
(* in every view that shows it, once for each time it was bound.              *)
(*                                                                            *)
(* The rows also have buttons to move a title up and down (grid.js:104-116).  *)
(* Every pane of the page is a grid, in which they are not displayed          *)
(* (experience-viewing.css:231): nobody can press them, and here they are     *)
(* left out.                                                                  *)
EXTENDS Naturals, SequencesExt, Functions, FiniteSetsExt

CONSTANTS
  Titles,     \* number of titles in the list
  Found,      \* the titles that the owner's search finds
  MaxTaps,    \* bound on what the owner does
  MaxUpsets,  \* bound on failing requests and changes made elsewhere
  MaxCalls    \* bound on requests under way

VARIABLES
  pi,         \* up_next_entries: the rank of each title, 0 when not queued
  page,       \* myTvViewingData: up_next and up_next_rank of each title
  view,       \* "queue", "search" or "az"
  pane,       \* the rows of the pane
  bound,      \* how often a row has been bound (two are enough)
  drag,       \* the row under the finger and the order before
  calls,      \* requests under way
  mutations,  \* myTvViewingMutationRevision
  bounds,     \* taps and upsets so far
  muddled     \* page and Pi can differ until the next refresh

orderVars == <<pi, page, view, pane, bound, drag, calls, mutations, bounds, muddled>>

Row == 1..Titles
Unranked == 99   \* 999999 in the code
NoDrag == [row |-> 0, previous |-> <<>>]
Tapped == bounds.taps < MaxTaps /\ bounds' = [bounds EXCEPT !.taps = @ + 1]
Upset == bounds.upsets < MaxUpsets /\ bounds' = [bounds EXCEPT !.upsets = @ + 1]

Send(c) ==
  /\ Cardinality(calls) < MaxCalls
  /\ calls' = calls \cup {c}
  /\ muddled' = (muddled \/ calls # {})
Call(kind) ==
  [kind |-> kind, at |-> "sent", order |-> <<>>, rank |-> <<>>, previous |-> <<>>, title |-> 0,
   enabled |-> FALSE, mutation |-> 0, copy |-> 1, copies |-> 1]
-----------------------------------------------------------------------------
(* myTvViewingItems: queue order by rank, equal ranks as the titles are kept. *)
Before(p, s, t) == p.rank[s] < p.rank[t] \/ (p.rank[s] = p.rank[t] /\ s < t)
Items(p, v) ==
  LET shown == IF v = "search" THEN p.listed \cap Found ELSE p.listed
  IN  SetToSortSeq(shown, LAMBDA s, t : IF v = "az" THEN s > t ELSE Before(p, s, t))
ShownOrder == Items(page, "queue")

(* renderMyTvViewingList: the rows of the items, and bindUpNextReorder when   *)
(* the whole queue is drawn and has two rows or more.                         *)
Draws(p, v) ==
  /\ pane' = Items(p, v)
  /\ bound' = IF v = "queue" /\ Cardinality(p.listed) > 1
                THEN [t \in Row |-> IF t \in p.listed /\ bound[t] < 2 THEN bound[t] + 1 ELSE bound[t]]
                ELSE bound

(* A title without a rank stands after all others.                            *)
Queued(rank) == {t \in Row : rank[t] > 0}
Read(rank) == [listed |-> Queued(rank),
               rank |-> [t \in Row |-> IF rank[t] > 0 THEN rank[t] ELSE Unranked]]
PiOrder == Items(Read(pi), "queue")
Place(order, t) == IF Contains(order, t) THEN CHOOSE i \in DOMAIN order : order[i] = t ELSE 0

(* saveUpNextOrder: the titles of an order get the ranks of their places.     *)
Ranked(p, keys) ==
  [p EXCEPT !.rank = [t \in Row |-> IF Contains(keys, t) THEN Place(keys, t) ELSE p.rank[t]]]
-----------------------------------------------------------------------------
(* Another sort or search, the tab again, the view opened again.              *)
Look(v) ==
  /\ drag = NoDrag /\ Tapped
  /\ view' = v /\ Draws(page, v)
  /\ UNCHANGED <<pi, page, drag, calls, mutations, muddled>>

(* activate, 280 ms after the finger came down on a row that is bound.        *)
Hold(t) ==
  /\ drag = NoDrag /\ Contains(pane, t) /\ bound[t] > 0
  /\ Tapped
  /\ drag' = [row |-> t, previous |-> pane]
  /\ UNCHANGED <<pi, page, view, pane, bound, calls, mutations, muddled>>

(* reorderAtPointer: beside the row nearest to the finger; a row that left    *)
(* the list under the finger comes back.                                      *)
DragTo(place) ==
  /\ drag # NoDrag
  /\ LET others == SelectSeq(pane, LAMBDA t : t # drag.row)
     IN  /\ others # <<>> /\ place \in 1..(Len(others) + 1)
         /\ pane' = InsertAt(others, place, drag.row)
  /\ pane' # pane
  /\ UNCHANGED <<pi, page, view, bound, drag, calls, mutations, bounds, muddled>>

(* finish, once for each time the row was bound.                              *)
Release ==
  /\ drag # NoDrag
  /\ drag' = NoDrag
  /\ IF pane = drag.previous
       THEN UNCHANGED <<page, calls, muddled>>
       ELSE /\ page' = Ranked(page, pane)
            /\ Cardinality(calls) < MaxCalls
            /\ calls' = calls \cup
                 {[Call("save") EXCEPT !.order = pane, !.previous = drag.previous,
                                     !.copy = k, !.copies = bound[drag.row]] :
                    k \in 1..bound[drag.row]}
            /\ muddled' = (muddled \/ calls # {} \/ drag.previous # ShownOrder)
  /\ UNCHANGED <<pi, view, pane, bound, mutations, bounds>>

(* updateMyTvViewing from the sheet of a title; the pane is not drawn again.  *)
Toggle(t) ==
  /\ drag = NoDrag /\ Tapped
  /\ LET enabled == t \notin page.listed
     IN  /\ page' = [page EXCEPT !.listed = IF enabled THEN @ \cup {t} ELSE @ \ {t}]
         /\ Send([Call("edit") EXCEPT !.title = t, !.enabled = enabled, !.mutation = mutations + 1])
  /\ mutations' = mutations + 1
  /\ UNCHANGED <<pi, view, pane, bound, drag>>

(* The owner comes back to the page: loadMyTvViewing({refresh: true}).        *)
Refresh ==
  /\ Tapped
  /\ Send([Call("list") EXCEPT !.mutation = mutations])
  /\ UNCHANGED <<pi, page, view, pane, bound, drag, mutations>>
-----------------------------------------------------------------------------
Becomes(c, d) == calls' = (calls \ {c}) \cup {d}

(* Plausible bug: the new order is stored without a look at the queue.        *)
AcceptedMutant(order) == TRUE

(* my_tv_up_next_reorder refuses any order but one of exactly the queue.      *)
Accepted(order) == ToSet(order) = Queued(pi)

(* my_tv_viewing_update: a title comes in at the end, or leaves its gap.      *)
Edited(t, enabled) == [pi EXCEPT ![t] = IF enabled THEN Max(Range(pi)) + 1 ELSE 0]

PiReorders(c) ==
  /\ c.kind = "save" /\ c.at = "sent"
  /\ IF Accepted(c.order)
       THEN pi' = [t \in Row |-> Place(c.order, t)] /\ Becomes(c, [c EXCEPT !.at = "stored"])
       ELSE UNCHANGED pi /\ Becomes(c, [c EXCEPT !.at = "failed"])
  /\ UNCHANGED <<page, view, pane, bound, drag, mutations, bounds, muddled>>

PiEdits(c) ==
  /\ c.kind = "edit" /\ c.at = "sent"
  /\ pi' = Edited(c.title, c.enabled)
  /\ Becomes(c, [c EXCEPT !.at = "stored", !.rank = pi'])
  /\ UNCHANGED <<page, view, pane, bound, drag, mutations, bounds, muddled>>

PiReads(c) ==
  /\ c.kind = "list" /\ c.at = "sent"
  /\ Becomes(c, [c EXCEPT !.at = "stored", !.rank = pi])
  /\ UNCHANGED <<pi, page, view, pane, bound, drag, mutations, bounds, muddled>>

(* Another device adds, removes or moves a title.                             *)
PiChanges(t) ==
  /\ Upset
  /\ \E enabled \in BOOLEAN : pi' = Edited(t, enabled) /\ pi' # pi
  /\ muddled' = TRUE
  /\ UNCHANGED <<page, view, pane, bound, drag, calls, mutations>>

Lost(c) ==
  /\ c.at \in {"sent", "stored"} /\ Upset
  /\ Becomes(c, [c EXCEPT !.at = "failed"])
  /\ muddled' = (muddled \/ c.kind = "edit" \/ (c.kind = "save" /\ (c.at = "stored" \/ c.copies > 1)))
  /\ UNCHANGED <<pi, page, view, pane, bound, drag, mutations>>
-----------------------------------------------------------------------------
Done(c) == calls' = calls \ {c}

(* An order that was taken says nothing; one that was not is put back, and    *)
(* the pane is drawn.                                                         *)
Saved(c) ==
  /\ c.kind = "save" /\ c.at = "stored" /\ Done(c)
  /\ UNCHANGED <<pi, page, view, pane, bound, drag, mutations, bounds, muddled>>

PutBack(c) ==
  /\ c.kind = "save" /\ c.at = "failed" /\ Done(c)
  /\ page' = Ranked(page, c.previous)
  /\ Draws(page', view)
  /\ UNCHANGED <<pi, view, drag, mutations, bounds, muddled>>

(* The answer of an edit brings the rank the title has now; one that failed   *)
(* leaves what was shown at once.                                             *)
EditEnds(c) ==
  /\ c.kind = "edit" /\ c.at \in {"stored", "failed"} /\ Done(c)
  /\ page' = IF c.at = "stored" /\ c.mutation = mutations /\ c.enabled
               THEN [page EXCEPT !.listed = @ \cup {c.title}, !.rank[c.title] = c.rank[c.title]]
               ELSE page
  /\ UNCHANGED <<pi, view, pane, bound, drag, mutations, bounds, muddled>>

(* A list that was asked for before the last edit is dropped.  An order that  *)
(* was dragged meanwhile does not count as one.                               *)
Refreshed(c) ==
  /\ c.kind = "list" /\ c.at \in {"stored", "failed"} /\ Done(c)
  /\ IF c.at = "stored" /\ c.mutation = mutations
       THEN /\ page' = Read(c.rank)
            /\ Draws(page', view)
       ELSE UNCHANGED <<page, pane, bound>>
  /\ UNCHANGED <<pi, view, drag, mutations, bounds, muddled>>
-----------------------------------------------------------------------------
Init ==
  /\ pi = [i \in Row |-> i]
  /\ page = Read(pi)
  /\ view = "queue" /\ pane = ShownOrder
  /\ bound = [t \in Row |-> 1]
  /\ drag = NoDrag /\ calls = {} /\ mutations = 0
  /\ bounds = [taps |-> 0, upsets |-> 0]
  /\ muddled = FALSE

Next ==
  \/ \E v \in {"queue", "search", "az"} : Look(v)
  \/ \E t \in Row : Hold(t)
  \/ \E place \in Row : DragTo(place)
  \/ Release
  \/ \E t \in Row : Toggle(t)
  \/ Refresh
  \/ \E t \in Row : PiChanges(t)
  \/ \E c \in calls : PiReorders(c)
  \/ \E c \in calls : PiEdits(c)
  \/ \E c \in calls : PiReads(c)
  \/ \E c \in calls : Lost(c)
  \/ \E c \in calls : Saved(c)
  \/ \E c \in calls : PutBack(c)
  \/ \E c \in calls : EditEnds(c)
  \/ \E c \in calls : Refreshed(c)

Spec == Init /\ [][Next]_orderVars
-----------------------------------------------------------------------------
(* When nothing is under way the page shows the queue of the Pi, in order:    *)
(* after drags, edits and orders that were refused or never arrived.  Not so  *)
(* after requests that overlapped, an answer or one copy of an order lost, an *)
(* edit that failed, a change made elsewhere, or a drag in a view that is not *)
(* the queue as the page has it.                                              *)
CalmIsTrue == (calls = {} /\ drag = NoDrag /\ ~muddled) => ShownOrder = PiOrder

(* An order that arrives late, or comes from rows that are shown no more,     *)
(* neither brings a title back nor drops one.                                 *)
ReorderKeepsTitles == [][(\E c \in calls : PiReorders(c)) => Queued(pi') = Queued(pi)]_orderVars

(* The order shown is the order kept, and nothing of the queue gets lost.     *)
OrderIsHonest == []CalmIsTrue /\ ReorderKeepsTitles
=============================================================================
