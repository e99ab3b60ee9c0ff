-------------------------- MODULE ShuffleBagRounds --------------------------
(* A channel that takes from its bag forever.  `drawn` is a history of the   *)
(* items taken since the last refill.                                        *)
EXTENDS ShuffleBag

VARIABLES bag, drawn

roundsVars == <<bag, drawn>>

RoundsInit == bag = EmptyBag /\ drawn = {}

TakeItem ==
  \E taken \in Take(bag) :
    /\ bag' = taken.bag
    /\ drawn' = (IF bag.remaining = <<>> THEN {} ELSE drawn) \cup ({taken.item} \cap Items)

RoundsNext == TakeItem

RoundsSpec == RoundsInit /\ [][RoundsNext]_roundsVars

(* The vector of ShuffleBag.h:21 holds each item at most once, and what was  *)
(* drawn is what is missing from it.                                          *)
RoundsTypeOK ==
  /\ IsBag(bag)
  /\ drawn \subseteq Items
  /\ \/ bag = EmptyBag /\ drawn = {}
     \/ drawn = Items \ {bag.remaining[i] : i \in 1..Len(bag.remaining)}

(* A round never draws an item twice: test shuffleBagVisitsEveryItemBefore-   *)
(* Repeating (CoreTests.cpp:24) for every order, every round and every size.  *)
OncePerRound == [][bag.remaining # <<>> => bag'.last \notin drawn]_roundsVars

(* The same item is never drawn twice running, also across a refill: test     *)
(* shuffleBagAvoidsImmediateRepeatAcrossRefill (CoreTests.cpp:35).            *)
NoImmediateRepeat == [][ItemCount > 1 => bag'.last # bag.last]_roundsVars
=============================================================================
