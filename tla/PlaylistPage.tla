---------------------------- MODULE PlaylistPage ----------------------------
(* One saved playlist on its page (portal/js/family/playlists.js).  Arrows    *)
(* move a row at once and are saved one after another behind the page; other  *)
(* changes wait for them, reads are thrown away while they last, and another  *)
(* device edits the same playlist.                                            *)
EXTENDS Naturals, Sequences, Functions, FiniteSets

CONSTANTS
  Item,        \* what the playlist may hold
  MaxMoves,    \* bound on taps of an arrow
  MaxChanges   \* bound on other changes, reads, faults and other devices

ASSUME PlaylistAssumption ==
  IsFiniteSet(Item) /\ MaxMoves \in Nat /\ MaxChanges \in Nat

VARIABLES
  pi,      \* the order the Pi has saved
  had,     \* every order it ever had
  list,    \* mabelPlaylists
  rows,    \* the rows on the page
  broken,  \* the orders an arrow that broke off half-way has left in the list
  chain,   \* playlistOrderWrites, its moves in order, and what follows the last
  read,    \* loadMabelPlaylists
  change,  \* changeMabelPlaylist
  moves, others

playlistVars == <<pi, had, list, rows, broken, chain, read, change, moves, others>>

None == "none"
Event == others < MaxChanges /\ others' = others + 1
-----------------------------------------------------------------------------
PlaceOf(s, x) == CHOOSE i \in DOMAIN s : s[i] = x
Target(i, way) == IF way = "up" THEN i - 1 ELSE i + 1
CanMove(s, x, way) == x \in Range(s) /\ Target(PlaceOf(s, x), way) \in DOMAIN s
Swap(s, i, j) == [s EXCEPT ![i] = s[j], ![j] = s[i]]
Moved(s, x, way) == Swap(s, PlaceOf(s, x), Target(PlaceOf(s, x), way))

Pending == chain.moves # <<>>

(* renderMabelPlaylists: the page is built again from the list.               *)
Shows(l) == list' = l /\ rows' = l

Saves(order) == pi' = order /\ had' = had \cup {order}

(* movePlaylistItem.  The rows at the two places change places, whichever     *)
(* they are; a row that is not there ends the handler before the save.        *)
TapMove(x, way) ==
  LET i == PlaceOf(list, x)
      j == Target(i, way)
      drawn == i \in DOMAIN rows /\ j \in DOMAIN rows
  IN  /\ moves < MaxMoves /\ moves' = moves + 1
      /\ CanMove(rows, x, way)
      /\ ~(Pending /\ chain.failed)
      /\ CanMove(list, x, way)
      /\ list' = Moved(list, x, way)
      /\ IF drawn
         THEN /\ rows' = Swap(rows, i, j) /\ UNCHANGED broken
              /\ LET c == IF Pending THEN chain
                          ELSE [chain EXCEPT !.failed = FALSE, !.confirmed = list,
                                  !.alone = list = pi /\ rows = list /\ change.at \in {"no", "waits"}]
                 IN  chain' = [c EXCEPT !.moves = Append(@, [item |-> x, way |-> way, shows |-> Moved(list, x, way)])]
         ELSE broken' = broken \cup {list'} /\ UNCHANGED <<rows, chain>>
      /\ UNCHANGED <<pi, had, read, change, others>>

(* Plausible bug: what waits behind a failed move is saved all the same.      *)
GoesMutant(c) == TRUE

(* A move behind one that failed is not sent.                                 *)
Goes(c) == ~c.failed

SendMove ==
  /\ Pending /\ chain.saving = "no" /\ chain.after = "no" /\ Goes(chain)
  /\ chain' = [chain EXCEPT !.saving = "sent"]
  /\ UNCHANGED <<pi, had, list, rows, read, change, broken, moves, others>>

(* playlist_change of the Pi: an item at the edge, or gone, is refused.       *)
PiMoves ==
  LET m == Head(chain.moves)
  IN  /\ chain.saving = "sent"
      /\ IF CanMove(pi, m.item, m.way)
         THEN /\ Saves(Moved(pi, m.item, m.way))
              /\ chain' = [chain EXCEPT !.saving = "done", !.answer = Moved(pi, m.item, m.way)]
         ELSE chain' = [chain EXCEPT !.saving = "refused"] /\ UNCHANGED <<pi, had>>
      /\ UNCHANGED <<list, rows, read, change, broken, moves, others>>

(* The request, or its answer, is lost.                                       *)
LoseMove ==
  /\ chain.saving \in {"sent", "done"} /\ Event
  /\ chain' = [chain EXCEPT !.saving = "refused"]
  /\ UNCHANGED <<pi, had, list, rows, read, change, broken, moves>>

(* The end of a move, sent or not; after the last one the list is what the Pi *)
(* last confirmed, and the page is drawn again only after a failure.          *)
EndMove ==
  LET failed == chain.failed \/ chain.saving = "refused"
      confirmed == IF chain.saving = "done" THEN chain.answer ELSE chain.confirmed
      rest == Tail(chain.moves)
  IN  /\ Pending /\ chain.after = "no"
      /\ chain.saving \in {"done", "refused"} \/ (chain.saving = "no" /\ ~Goes(chain))
      /\ chain' = [chain EXCEPT !.moves = rest, !.saving = "no", !.failed = failed, !.confirmed = confirmed,
                     !.after = IF rest # <<>> THEN "no" ELSE IF failed THEN "read" ELSE "cache"]
      /\ read' = [read EXCEPT !.behind = IF @ > 0 THEN @ - 1 ELSE 0]
      /\ IF rest # <<>> THEN UNCHANGED <<list, rows>>
         ELSE /\ list' = confirmed
              /\ rows' = IF failed THEN confirmed ELSE rows
      /\ UNCHANGED <<pi, had, change, broken, moves, others>>

(* What follows the last move: the saved copy of the device, or a fresh list. *)
AfterMoves ==
  \/ /\ chain.after = "cache" /\ chain' = [chain EXCEPT !.after = "no"] /\ UNCHANGED <<list, rows, others>>
  \/ /\ chain.after = "read" /\ chain' = [chain EXCEPT !.after = "asked", !.answer = pi]
     /\ UNCHANGED <<list, rows, others>>
  \/ /\ chain.after = "asked" /\ chain' = [chain EXCEPT !.after = "no"] /\ UNCHANGED others
     /\ IF Pending THEN UNCHANGED <<list, rows>> ELSE Shows(chain.answer)
  \/ /\ chain.after \in {"read", "asked"} /\ Event
     /\ chain' = [chain EXCEPT !.after = "no"] /\ UNCHANGED <<list, rows>>

WhatFollows == AfterMoves /\ UNCHANGED <<pi, had, read, change, broken, moves>>
-----------------------------------------------------------------------------
(* loadMabelPlaylists, for the tab, the picker or a page that is opened.      *)
Read ==
  /\ read.at = "no" /\ Event
  /\ read' = [read EXCEPT !.at = "waits", !.behind = Len(chain.moves)]
  /\ UNCHANGED <<pi, had, list, rows, chain, change, broken, moves>>

PiIsRead ==
  /\ read.at = "waits" /\ read.behind = 0 /\ chain.after = "no"
  /\ read' = [read EXCEPT !.at = "answered", !.answer = pi]
  /\ UNCHANGED <<pi, had, list, rows, chain, change, broken, moves, others>>

ReadAnswer ==
  /\ read.at = "answered" /\ read' = [read EXCEPT !.at = "no"]
  /\ IF Pending THEN UNCHANGED <<list, rows>> ELSE Shows(read.answer)
  /\ UNCHANGED <<pi, had, chain, change, broken, moves, others>>

LoseRead ==
  /\ read.at \in {"waits", "answered"} /\ read.behind = 0 /\ Event
  /\ read' = [read EXCEPT !.at = "no"]
  /\ UNCHANGED <<pi, had, list, rows, chain, change, broken, moves>>

(* Leaving the page and opening it again draws the list as it is.             *)
OpenPage ==
  /\ rows # list /\ rows' = list
  /\ UNCHANGED <<pi, had, list, chain, read, change, broken, moves, others>>
-----------------------------------------------------------------------------
(* Adding puts an item last, removing takes it out.                           *)
Left(s, i) == [k \in 1..(Len(s) - 1) |-> IF k < i THEN s[k] ELSE s[k + 1]]
Edited(s, x) == IF x \in Range(s) THEN Left(s, PlaceOf(s, x)) ELSE Append(s, x)

(* changeMabelPlaylist waits until no move is pending.                        *)
Change(x) ==
  /\ change.at = "no" /\ Event
  /\ change' = [change EXCEPT !.at = "waits", !.item = x]
  /\ UNCHANGED <<pi, had, list, rows, chain, read, broken, moves>>

SendChange ==
  /\ change.at = "waits" /\ ~Pending /\ chain.after = "no"
  /\ change' = [change EXCEPT !.at = "sent"]
  /\ UNCHANGED <<pi, had, list, rows, chain, read, broken, moves, others>>

PiChanges ==
  /\ change.at = "sent"
  /\ Saves(Edited(pi, change.item))
  /\ change' = [change EXCEPT !.at = "done", !.answer = Edited(pi, change.item)]
  /\ chain' = [chain EXCEPT !.alone = FALSE]
  /\ UNCHANGED <<list, rows, read, broken, moves, others>>

(* Its answer becomes the list, whatever is pending by now.                   *)
ChangeAnswer ==
  /\ change.at = "done" /\ change' = [change EXCEPT !.at = "no"]
  /\ Shows(change.answer) /\ chain' = [chain EXCEPT !.alone = FALSE]
  /\ UNCHANGED <<pi, had, read, broken, moves, others>>

LoseChange ==
  /\ change.at \in {"sent", "done"} /\ Event
  /\ change' = [change EXCEPT !.at = "no"]
  /\ UNCHANGED <<pi, had, list, rows, chain, read, broken, moves>>

OtherDevice ==
  /\ Event
  /\ \/ \E x \in Item, way \in {"up", "down"} : CanMove(pi, x, way) /\ Saves(Moved(pi, x, way))
     \/ \E x \in Item : Saves(Edited(pi, x))
  /\ chain' = [chain EXCEPT !.alone = FALSE]
  /\ UNCHANGED <<list, rows, read, change, broken, moves>>
-----------------------------------------------------------------------------
PlaylistInit ==
  /\ pi = (CHOOSE s \in Bijection(1..Cardinality(Item), Item) : TRUE) /\ had = {pi}
  /\ list = pi /\ rows = pi /\ broken = {}
  /\ chain = [moves |-> <<>>, saving |-> "no", failed |-> FALSE, confirmed |-> pi,
              answer |-> pi, after |-> "no", alone |-> TRUE]
  /\ read = [at |-> "no", behind |-> 0, answer |-> pi]
  /\ change = [at |-> "no", item |-> None, answer |-> pi]
  /\ moves = 0 /\ others = 0

PlaylistNext ==
  \/ \E x \in Item, way \in {"up", "down"} : TapMove(x, way)
  \/ SendMove \/ PiMoves \/ LoseMove \/ EndMove \/ WhatFollows
  \/ Read \/ PiIsRead \/ ReadAnswer \/ LoseRead \/ OpenPage
  \/ \E x \in Item : Change(x)
  \/ SendChange \/ PiChanges \/ ChangeAnswer \/ LoseChange \/ OtherDevice

PlaylistSpec == PlaylistInit /\ [][PlaylistNext]_playlistVars
-----------------------------------------------------------------------------
(* A page with nothing pending has a list the Pi really had: no move that     *)
(* failed, or was dropped behind one that did, survives on the page ("Failed  *)
(* saves restore the confirmed order", docs/family-collections.md:23).        *)
QuietListIsReal == ~Pending => list \in had \cup broken

(* A move does what the row showed when it was tapped, however many wait      *)
(* before it and whichever of them fails, as long as nobody else edits.       *)
MoveDoesWhatItShowed ==
  chain.saving = "done" /\ chain.alone => chain.answer = Head(chain.moves).shows

(* The rows are the list, although a saved move does not draw them again.     *)
RowsAreTheList == chain.alone => rows = list

(* The page neither invents an order nor saves one the owner did not see.     *)
PlaylistIsHonest == QuietListIsReal /\ MoveDoesWhatItShowed /\ RowsAreTheList
=============================================================================
