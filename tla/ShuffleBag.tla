----------------------------- MODULE ShuffleBag -----------------------------
(* The bag a channel draws its programmes from when the guide is off         *)
(* (src/src/library/ShuffleBag.cpp).  An item is taken from the END of       *)
(* `remaining`; an empty bag is refilled with every item in a random order,  *)
(* and when the order would start with the item taken last, its two ends are *)
(* swapped.                                                                  *)
EXTENDS Integers, Sequences

CONSTANT ItemCount

ASSUME ItemCountAssumption == ItemCount \in Nat

Items == 0..(ItemCount - 1)

Nothing == -1

(* The last item taken is no longer in the bag, and no item is in it twice. *)
IsBag(bag) ==
  /\ bag.remaining \in Seq(Items)
  /\ bag.last \in Items \cup {Nothing}
  /\ \A i, j \in 1..Len(bag.remaining) : i # j => bag.remaining[i] # bag.remaining[j]
  /\ \A i \in 1..Len(bag.remaining) : bag.remaining[i] # bag.last

EmptyBag == [remaining |-> <<>>, last |-> Nothing]

Shuffles == {order \in [1..ItemCount -> Items] :
               \A i, j \in 1..ItemCount : i # j => order[i] # order[j]}

EndsSwapped(order) ==
  [i \in 1..ItemCount |-> CASE i = 1         -> order[ItemCount]
                            [] i = ItemCount -> order[1]
                            [] OTHER         -> order[i]]

(* The orders a refill can leave in the bag after `last` was taken. *)
Refills(last) ==
  {IF ItemCount > 1 /\ order[ItemCount] = last THEN EndsSwapped(order) ELSE order :
     order \in Shuffles}

Drawn(remaining, i) ==
  [item |-> remaining[i],
   bag  |-> [remaining |-> SubSeq(remaining, 1, i - 1), last |-> remaining[i]]]

(* Every outcome of one call of take(). *)
Take(bag) ==
  IF ItemCount = 0 THEN {[item |-> Nothing, bag |-> bag]}
  ELSE LET orders == IF bag.remaining = <<>> THEN Refills(bag.last) ELSE {bag.remaining}
       IN  {Drawn(order, Len(order)) : order \in orders}

(* The outcomes of taking until an item is in `usable`, at most ItemCount    *)
(* times, as takeUsableEpisode does: the first usable item left in the bag;  *)
(* else, the bag now empty, the first one among as many items of a refill as *)
(* calls are left.                                                           *)
LastUsable(order, from, usable) ==
  {i \in from..Len(order) : /\ order[i] \in usable
                            /\ \A j \in (i + 1)..Len(order) : order[j] \notin usable}

FromRefill(order, left, usable) ==
  LET hit == LastUsable(order, left + 1, usable)
  IN  IF hit # {} THEN {Drawn(order, i) : i \in hit}
      ELSE {[item |-> Nothing,
             bag  |-> [remaining |-> SubSeq(order, 1, left), last |-> order[left + 1]]]}

TakeUntil(bag, usable) ==
  LET left    == Len(bag.remaining)
      emptied == IF left > 0 THEN bag.remaining[1] ELSE bag.last
      here    == LastUsable(bag.remaining, 1, usable)
  IN  IF here # {} THEN {Drawn(bag.remaining, i) : i \in here}
      ELSE IF left = ItemCount
           THEN {[item |-> Nothing, bag |-> [remaining |-> <<>>, last |-> emptied]]}
           ELSE UNION {FromRefill(order, left, usable) : order \in Refills(emptied)}
=============================================================================
