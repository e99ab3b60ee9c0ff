----------------------------- MODULE MyTvExplore -----------------------------
(* The suggestions of My TV (portal/js/my-tv-viewing/explore.js): one list of *)
(* several is shown and grows page by page.  What was looked at is told to    *)
(* the Pi before the next page is asked, so that a load waits twice; a list   *)
(* is chosen, left for long, or scrolled on while a load is waiting.          *)
EXTENDS Naturals, SequencesExt

CONSTANTS
  List,       \* lists and kinds that can be chosen
  Pages,      \* how many pages the Pi has of a list
  MaxTaps,    \* bound on what the owner does
  MaxFaults,  \* bound on failing requests
  MaxCalls    \* bound on requests under way

VARIABLES
  chosen,     \* myTvExploreList and myTvExploreType
  visit,      \* the view: "shown", "hidden" with the app, or "left"
  shelf,      \* items, page, more, revision and loading
  cards,      \* the cards of the grid
  acted,      \* titles whose card was opened or pressed
  held,       \* myTvExploreFeedback: titles looked at, not told yet
  told,       \* what the Pi has been told
  looked,     \* what has been looked at
  calls,      \* requests under way
  bounds,     \* taps and faults so far
  ignored,    \* a choice was made that no reset followed
  stranded    \* a reset came while an older load was telling

exploreVars == <<chosen, visit, shelf, cards, acted, held, told, looked, calls, bounds, ignored, stranded>>

Feed == List \X (1..Pages)
Fresh(s) == [items |-> <<>>, page |-> 0, more |-> TRUE, revision |-> s.revision + 1, loading |-> FALSE]
Tapped == bounds.taps < MaxTaps /\ bounds' = [bounds EXCEPT !.taps = @ + 1]
Fault == bounds.faults < MaxFaults /\ bounds' = [bounds EXCEPT !.faults = @ + 1]
Room == Cardinality(calls) < MaxCalls

(* A POST of feedback, alone or as the first half of a load.                  *)
Telling(load, revision) ==
  [at |-> "telling", load |-> load, revision |-> revision, pending |-> held, title |-> <<>>]

(* renderMyTvExploreGrid: cards are added for the items that have none; an    *)
(* empty list shows its placeholders or its excuse instead.                   *)
Drawn(items) ==
  IF items = <<>> THEN <<>> ELSE cards \o SelectSeq(items, LAMBDA t : ~Contains(cards, t))
Draws ==
  /\ cards' = Drawn(shelf'.items)
  /\ acted' = acted \cap ToSet(cards')

(* The second half: the page after those shown now, of the list chosen now.   *)
Asks(s, revision, others, list) ==
  /\ shelf' = [s EXCEPT !.loading = TRUE]
  /\ Draws
  /\ calls' = others \cup
       {[at |-> "asked", load |-> TRUE, revision |-> revision, pending |-> {},
         title |-> <<list, s.page + 1>>]}
-----------------------------------------------------------------------------
(* loadMyTvExplore: nothing at all while another one is loading.              *)
Grow ==
  IF shelf.loading \/ ~shelf.more
    THEN UNCHANGED <<shelf, cards, acted, calls, held>>
    ELSE /\ Room
         /\ IF shelf.page > 0 /\ held # {}
              THEN /\ calls' = calls \cup {Telling(TRUE, shelf.revision)}
                   /\ held' = {} /\ UNCHANGED <<shelf, cards, acted>>
              ELSE Asks(shelf, shelf.revision, calls, chosen) /\ UNCHANGED held

Rebuild(list) ==
  /\ UNCHANGED held
  /\ IF shelf.loading
       THEN UNCHANGED <<shelf, cards, acted, calls, stranded>> /\ ignored' = (ignored \/ list # chosen)
       ELSE /\ Room
            /\ Asks(Fresh(shelf), shelf.revision + 1, calls, list)
            /\ ignored' = FALSE
            /\ stranded' = (stranded \/ \E c \in calls : c.at = "telling" /\ c.load)

(* The list or the kind is changed.                                           *)
Choose(list) ==
  /\ visit = "shown" /\ list # chosen /\ Tapped
  /\ chosen' = list /\ Rebuild(list)
  /\ UNCHANGED <<visit, told, looked>>

(* "Show me more", or the end of the list comes into sight.                   *)
More ==
  /\ visit = "shown" /\ Len(shelf.items) > 0
  /\ Tapped /\ Grow
  /\ UNCHANGED <<chosen, visit, told, looked, ignored, stranded>>

(* A card stays in sight for more than a second: queueMyTvExploreFeedback.    *)
Look(title) ==
  /\ visit = "shown" /\ Contains(cards, title) /\ title \notin acted \cup held
  /\ Tapped /\ held' = held \cup {title} /\ looked' = looked \cup {title}
  /\ UNCHANGED <<chosen, visit, shelf, cards, acted, told, calls, ignored, stranded>>

(* A card whose title is opened, or whose button is pressed, counts as looked *)
(* at no more; what the title's sheet and the button save is another matter.  *)
Acts(title) == acted' = acted \cup {title}

OpenTitle(title) ==
  /\ visit = "shown" /\ Contains(cards, title) /\ title \notin acted
  /\ Tapped /\ Acts(title)
  /\ UNCHANGED <<chosen, visit, shelf, cards, held, told, looked, calls, ignored, stranded>>


(* flushMyTvExploreFeedback on its own: 2.2 seconds after the last look, when *)
(* the view is left and when the app is hidden.                               *)
Flush ==
  IF held = {} THEN UNCHANGED <<held, calls>>
  ELSE Room /\ calls' = calls \cup {Telling(FALSE, 0)} /\ held' = {}

FlushTimer ==
  /\ held # {} /\ Flush
  /\ UNCHANGED <<chosen, visit, shelf, cards, acted, told, looked, bounds, ignored, stranded>>

Leave(how) ==
  /\ visit = "shown" /\ Tapped
  /\ visit' = how /\ Flush
  /\ UNCHANGED <<chosen, shelf, cards, acted, told, looked, ignored, stranded>>

(* Back within the minute the feed is kept, unless it has no page yet.        *)
Return(late) ==
  /\ visit # "shown" /\ Tapped
  /\ visit' = "shown"
  /\ IF late \/ (visit = "left" /\ shelf.page = 0)
       THEN Rebuild(chosen)
       ELSE UNCHANGED <<shelf, cards, acted, calls, held, ignored, stranded>>
  /\ UNCHANGED <<chosen, told, looked>>
-----------------------------------------------------------------------------
(* The POST has ended; what could not be told is held again.  A load goes on  *)
(* as the load it was, whatever has been shown since.                         *)
Told(c, well) ==
  /\ c.at = "telling"
  /\ IF well THEN told' = told \cup c.pending /\ UNCHANGED <<held, bounds>>
             ELSE held' = held \cup c.pending /\ Fault /\ UNCHANGED told
  /\ IF c.load THEN Asks(shelf, c.revision, calls \ {c}, chosen)
               ELSE calls' = calls \ {c} /\ UNCHANGED <<shelf, cards, acted>>
  /\ UNCHANGED <<chosen, visit, looked, ignored, stranded>>

(* Plausible bug: the filter of what is shown already is forgotten.           *)
FetchedMutant(s, title) ==
  [s EXCEPT !.items = Append(@, title), !.page = title[2], !.more = title[2] < Pages, !.loading = FALSE]

(* The page that was fetched follows those shown, without what they have.     *)
Fetched(s, title) ==
  [s EXCEPT !.items = IF title[2] > Pages \/ Contains(@, title) THEN @ ELSE Append(@, title),
            !.page = title[2], !.more = title[2] < Pages, !.loading = FALSE]

(* Only the load of this revision says anything, also that it has ended.      *)
Answer(c) ==
  /\ c.at = "asked"
  /\ calls' = calls \ {c}
  /\ shelf' = IF c.revision = shelf.revision THEN Fetched(shelf, c.title) ELSE shelf
  /\ Draws
  /\ UNCHANGED <<chosen, visit, held, told, looked, bounds, ignored, stranded>>

Fails(c) ==
  /\ c.at = "asked" /\ Fault
  /\ calls' = calls \ {c}
  /\ shelf' = IF c.revision = shelf.revision
                THEN [shelf EXCEPT !.more = FALSE, !.loading = FALSE] ELSE shelf
  /\ Draws
  /\ UNCHANGED <<chosen, visit, held, told, looked, ignored, stranded>>
-----------------------------------------------------------------------------
(* The view was never shown: the first visit counts as one after a minute.    *)
Init ==
  /\ chosen \in List
  /\ visit = "left"
  /\ shelf = [items |-> <<>>, page |-> 0, more |-> TRUE, revision |-> 0, loading |-> FALSE]
  /\ cards = <<>> /\ acted = {}
  /\ held = {} /\ told = {} /\ looked = {} /\ calls = {}
  /\ bounds = [taps |-> 0, faults |-> 0]
  /\ ignored = FALSE /\ stranded = FALSE

Next ==
  \/ \E list \in List : Choose(list)
  \/ More
  \/ \E title \in Feed : Look(title)
  \/ \E title \in Feed : OpenTitle(title)
  \/ FlushTimer
  \/ \E how \in {"left", "hidden"} : Leave(how)
  \/ \E late \in BOOLEAN : Return(late)
  \/ \E c \in calls, well \in BOOLEAN : Told(c, well)
  \/ \E c \in calls : Answer(c)
  \/ \E c \in calls : Fails(c)

Spec == Init /\ [][Next]_exploreVars
-----------------------------------------------------------------------------
(* No title is shown twice, and what is shown is the beginning of one list    *)
(* without a gap: of the list chosen, unless it was chosen during a load.     *)
OneBeginning ==
  /\ IsInjective(shelf.items)
  /\ ~ignored => /\ \A i \in DOMAIN shelf.items : shelf.items[i][1] = chosen
                 /\ {shelf.items[i][2] : i \in DOMAIN shelf.items} = 1..Min({shelf.page, Pages})

(* "Finding more..." is said while a page is coming, unless the feed was      *)
(* rebuilt while an older load was still telling what had been looked at.     *)
FindingMore ==
  (shelf.loading /\ ~stranded) => (\E c \in calls : c.at = "asked" /\ c.revision = shelf.revision)

(* What was looked at is told, being told, or held for the next time: a POST  *)
(* that fails gives it back.                                                  *)
LooksAreKept == looked = told \cup held \cup UNION {c.pending : c \in calls}

(* The grid has one card for every title of the page, in its order, though    *)
(* only what is new is ever drawn and a list can change during a load.        *)
GridIsTheList == cards = shelf.items

(* The grid and the feedback both tell the truth about the feed.              *)
ExploreIsHonest == OneBeginning /\ FindingMore /\ LooksAreKept /\ GridIsTheList
=============================================================================
