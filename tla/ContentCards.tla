---------------------------- MODULE ContentCards ----------------------------
(* The cards of My TV (portal/js/my-tv-viewing, ui-components.js): one sheet  *)
(* each for titles, people and seasons, and the journey from card to card     *)
(* that the browser's Back and Forward walk.  A card is painted from what is  *)
(* known, then from the phone's cache, then from the Pi; by then the same     *)
(* sheet may show another card.                                               *)
EXTENDS Naturals, Sequences

CONSTANTS
  TitleCard, Person, Season,   \* what a card can be about
  MaxOpens                 \* bound on the cards opened

VARIABLES
  journey,    \* cardHistoryJourney: the cards, and how deep the owner is
  sheet,      \* [Sheet -> revision, the subject painted, how, whose providers]
  request,    \* the reads of every card opened, in order
  returned    \* ghost: Back or Forward has been used since the last opening

cardVars == <<journey, sheet, request, returned>>

Nothing == "nothing"
Sheet == {"title", "person", "season"}
SheetOf(s) == IF s \in TitleCard THEN "title" ELSE IF s \in Person THEN "person" ELSE "season"

NoJourney == [entries |-> <<>>, depth |-> 0]
Top == IF journey.depth = 0 THEN Nothing ELSE journey.entries[journey.depth].subject
IsOpen(s) == Top # Nothing /\ SheetOf(Top) = s
IsCurrent(i) == request[i].revision = sheet[SheetOf(request[i].subject)].revision
-----------------------------------------------------------------------------
(* renderMyTvTitleDetail and the like.  Providers are painted only when the   *)
(* card has some; else the list stays as it is.                               *)
Paint(of, level) ==
  \E whose \in {sheet[SheetOf(of)].providers} \cup ({of} \cap TitleCard) :
    sheet' = [sheet EXCEPT ![SheetOf(of)] =
               [@ EXCEPT !.subject = of, !.level = level, !.providers = whose]]

(* A title leads to titles, people and its seasons, a person to titles; a     *)
(* list leads to titles and people.                                           *)
Leads(from) ==
  CASE from \in TitleCard -> (TitleCard \cup Person \cup Season) \ {from}
    [] from \in Person -> TitleCard
    [] from \in Season -> {}
    [] OTHER -> TitleCard \cup Person

(* openMyTvTitle, openMyTvPerson, openMyTvTitleSeason: a new revision, the    *)
(* sheet emptied, the reads begun.  Back will return to what is shown now.    *)
OpenCard(s) ==
  /\ Len(request) < MaxOpens
  /\ LET kind == SheetOf(s)
         from == IF Top = Nothing THEN Nothing ELSE sheet[SheetOf(Top)].subject
         revision == sheet[kind].revision + 1
     IN  /\ s \in Leads(from)
         /\ sheet' = [sheet EXCEPT ![kind] =
              [revision |-> revision, subject |-> s, level |-> "preview", providers |-> Nothing]]
         /\ journey' = [entries |-> SubSeq(journey.entries, 1, journey.depth)
                                      \o <<[subject |-> s, returnTo |-> from]>>,
                        depth |-> journey.depth + 1]
         /\ request' = Append(request,
              [subject |-> s, revision |-> revision, cache |-> "due",
               network |-> IF kind = "title" THEN "due" ELSE "later", providers |-> FALSE])
  /\ returned' = FALSE

(* Plausible bug: the cache is painted whenever it comes.                     *)
CachePaintsMutant(i) ==
  IsCurrent(i) /\ (SheetOf(request[i].subject) = "person" => IsOpen("person"))

(* A title's cache may be slower than its network: networkApplied.            *)
CachePaints(i) ==
  LET kind == SheetOf(request[i].subject)
  IN  /\ IsCurrent(i)
      /\ kind = "title" => request[i].network # "done"
      /\ kind = "person" => IsOpen("person")

(* A person or season asks the Pi only then, a season only when still shown   *)
(* and not read of late.                                                      *)
CacheRead(i) ==
  /\ request[i].cache = "due"
  /\ \E found \in {"hit", "miss"}, recent \in BOOLEAN :
       LET kind == SheetOf(request[i].subject)
           asks == kind # "season" \/ (IsCurrent(i) /\ ~(found = "hit" /\ recent))
       IN  /\ request' = [request EXCEPT ![i].cache =
                IF kind = "title" /\ ~CachePaints(i) THEN "miss" ELSE found,
                ![i].network = IF @ # "later" THEN @ ELSE IF asks THEN "due" ELSE "done"]
           /\ IF found = "hit" /\ CachePaints(i) THEN Paint(request[i].subject, "cached") ELSE UNCHANGED sheet
  /\ UNCHANGED <<journey, returned>>

(* Plausible bug: the answer is shown whichever card is open by now.          *)
AppliesMutant(i) == SheetOf(request[i].subject) = "person" => IsOpen("person")

(* The answer is shown when no card was opened in the sheet since.            *)
Applies(i) == IsCurrent(i) /\ (SheetOf(request[i].subject) = "person" => IsOpen("person"))

(* The Pi's details, or an error.  A title painted from the cache is not      *)
(* painted again, but its providers are asked for, and their list is reset.   *)
Answer(i) ==
  /\ request[i].network = "due"
  /\ LET s == request[i].subject
         arrives == Applies(i) /\ request[i].cache # "hit"
     IN  \/ /\ request' = [request EXCEPT ![i].network = "done",
                             ![i].providers = Applies(i) /\ s \in TitleCard]
            /\ IF arrives THEN Paint(s, "fresh")
               ELSE IF Applies(i) /\ s \in TitleCard
                 THEN sheet' = [sheet EXCEPT !["title"].providers = s]
               ELSE UNCHANGED sheet
         \/ request' = [request EXCEPT ![i].network = "failed"] /\ UNCHANGED sheet
  /\ UNCHANGED <<journey, returned>>

(* loadMyTvProviders: for the title selected now, under its revision.         *)
Providers(i) ==
  /\ request[i].providers
  /\ request' = [request EXCEPT ![i].providers = FALSE]
  /\ IF IsCurrent(i) /\ sheet["title"].subject = request[i].subject
       THEN sheet' = [sheet EXCEPT !["title"].providers = request[i].subject]
       ELSE UNCHANGED sheet
  /\ UNCHANGED <<journey, returned>>
-----------------------------------------------------------------------------
(* The cross: nothing of the card may be painted any more.                    *)
CloseCard ==
  /\ Top # Nothing
  /\ sheet' = [sheet EXCEPT ![SheetOf(Top)].revision = @ + 1]
  /\ journey' = NoJourney
  /\ UNCHANGED <<request, returned>>

(* restorePreviousCard: the card before is painted as it was.  The revision   *)
(* stays, and so do the reads of the card left.                               *)
BackOneCard ==
  /\ Top # Nothing
  /\ journey' = [journey EXCEPT !.depth = @ - 1]
  /\ IF journey.depth > 1
       THEN Paint(journey.entries[journey.depth].returnTo, "restored") /\ returned' = TRUE
       ELSE UNCHANGED <<sheet, returned>>
  /\ UNCHANGED request

(* restoreForwardCard: the sheet is opened, and not painted.                  *)
ForwardOneCard ==
  /\ journey.depth < Len(journey.entries)
  /\ journey' = [journey EXCEPT !.depth = @ + 1]
  /\ returned' = TRUE
  /\ UNCHANGED <<sheet, request>>
-----------------------------------------------------------------------------
CardsInit ==
  /\ journey = NoJourney
  /\ sheet = [k \in Sheet |-> [revision |-> 0, subject |-> Nothing, level |-> "preview", providers |-> Nothing]]
  /\ request = <<>>
  /\ returned = FALSE

CardsNext ==
  \/ \E s \in TitleCard \cup Person \cup Season : OpenCard(s)
  \/ \E i \in DOMAIN request : CacheRead(i) \/ Answer(i) \/ Providers(i)
  \/ CloseCard \/ BackOneCard \/ ForwardOneCard

CardsSpec == CardsInit /\ [][CardsNext]_cardVars
-----------------------------------------------------------------------------
(* However late the reads of other cards come, a card that was opened shows   *)
(* its own subject and its own providers, until Back or Forward are used: the *)
(* revisions that details.js, person.js and seasons.js compare.  "Closing/    *)
(* replacing the card aborts its pending reads" (docs/studio-optimisation-    *)
(* delivery-2026-11-04.md:559).                                               *)
OpenedCardIsItsOwn ==
  Top # Nothing /\ ~returned =>
    LET card == sheet[SheetOf(Top)]
    IN  card.subject = Top /\ card.providers \in {Nothing, Top}

(* "late cache results cannot replace fresh network metadata" (the same,      *)
(* line 560): networkApplied of openMyTvTitle.                                *)
FreshStays ==
  [][sheet["title"].level = "fresh" => sheet'["title"].level # "cached"]_cardVars

(* A card is about its own subject, and only ever gets better.                *)
CardsAreTrue == []OpenedCardIsItsOwn /\ FreshStays
=============================================================================
