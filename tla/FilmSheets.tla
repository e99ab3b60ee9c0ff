----------------------------- MODULE FilmSheets -----------------------------
(* The sheets of a film in the portal (portal/js/playback/film-library.js,    *)
(* programmes.js, library/my-tv-library.js) and the shelves they are opened   *)
(* from.  A reload replaces the page's library by new objects, but an open    *)
(* sheet keeps the object it was opened with, and an answer changes that one. *)
EXTENDS Naturals, Sequences, FiniteSets

CONSTANTS
  MaxFilmTaps,   \* bound on what the owner asks for
  MaxFilmUpsets  \* bound on lost requests and on places a player leaves

VARIABLES
  kind,          \* "my_tv": a film of My TV; "channel": one of a film channel;
                 \* "show": a channel of episodes
  film,          \* what the Pi has of it: favourite, place, and its address (0: binned)
  objects,       \* the film in each library the page has read, the last one shown
  filmSheet,     \* the sheet on screen, its object, how it was opened, what it offers
  filmRequests,  \* under way: what, of which object, where to, and its reply
  filmTaps, filmUpsets,
  adrift         \* ghost: the page was told of a change it could not place

filmVars == <<kind, film, objects, filmSheet, filmRequests, filmTaps, filmUpsets, adrift>>

Latest == Len(objects)
NoSheet == [at |-> "none", of |-> 1, context |-> "library", resumable |-> FALSE]
Reading == {"read", "reload"}    \* the library; "reload" ends a manage
FilmBusy(what) == \E r \in filmRequests : r.what = what
Managing == FilmBusy("manage") \/ FilmBusy("reload")
(* watchFilmResumable, of a place that is none, early or late.                *)
InProgress(f) == f.place > 0
-----------------------------------------------------------------------------
OpenFilm(of, context, resumable) ==
  filmSheet' = [at |-> "film", of |-> of, context |-> context, resumable |-> resumable]
(* openWatchFilmSheet, openWatchProgrammeSheet and openWatchChannelSheet: a   *)
(* channel of episodes has no settings, and goes on wherever it is.           *)
FilmSheet(of, context) == kind = "my_tv" /\ OpenFilm(of, context, InProgress(objects[of]))
ProgrammeSheet(of, context) == kind = "channel" /\ OpenFilm(of, context, InProgress(objects[of]))
ChannelSheet(of) == kind = "show" /\ OpenFilm(of, "library", FALSE)
AnySheet(of, context) == FilmSheet(of, context) \/ ProgrammeSheet(of, context) \/ ChannelSheet(of)

FromShelf(A) == filmSheet.at = "none" /\ objects[Latest].address # 0 /\ A
                /\ UNCHANGED <<kind, film, objects, filmRequests, filmTaps, filmUpsets, adrift>>

(* The home page: its search, its favourites and, of channels, what is in     *)
(* progress.                                                                  *)
OpenFromHome ==
  FromShelf(\/ kind # "show" /\ AnySheet(Latest, "library")
            \/ objects[Latest].favourite /\ AnySheet(Latest, "favourite")
            \/ InProgress(objects[Latest]) /\ ProgrammeSheet(Latest, "continue"))
(* My TV's films and Continue Watching.                                       *)
OpenFromMyTv ==
  FromShelf(\/ FilmSheet(Latest, "library")
            \/ InProgress(objects[Latest]) /\ FilmSheet(Latest, "continue"))
(* The rails of the film channels.                                            *)
OpenFromChannels == FromShelf(ProgrammeSheet(Latest, "library"))

(* The settings of a My TV film are made from its object as it is now, those  *)
(* of a channel's film from what the sheet was opened with.                   *)
OpenFilmSettings ==
  /\ kind = "my_tv" /\ filmSheet.at = "film"
  /\ filmSheet' = [filmSheet EXCEPT !.at = "settings", !.resumable = InProgress(objects[filmSheet.of])]
  /\ UNCHANGED <<kind, film, objects, filmRequests, filmTaps, filmUpsets, adrift>>

OpenProgrammeSettings ==
  /\ kind = "channel" /\ filmSheet.at = "film"
  /\ filmSheet' = [filmSheet EXCEPT !.at = "settings"]
  /\ UNCHANGED <<kind, film, objects, filmRequests, filmTaps, filmUpsets, adrift>>

(* Back: a sheet under another opens it anew.                                 *)
LeaveFilmSheet ==
  /\ filmSheet.at # "none"
  /\ IF filmSheet.at = "film" THEN filmSheet' = NoSheet ELSE AnySheet(filmSheet.of, filmSheet.context)
  /\ UNCHANGED <<kind, film, objects, filmRequests, filmTaps, filmUpsets, adrift>>
-----------------------------------------------------------------------------
AskOfFilm(what, to) ==
  /\ filmTaps < MaxFilmTaps /\ filmTaps' = filmTaps + 1 /\ Cardinality(filmRequests) < 2
  /\ filmRequests' = filmRequests \cup
       {[what |-> what, id |-> CHOOSE i \in 0..1 : \A r \in filmRequests : r.id # i,
         of |-> filmSheet.of, to |-> to, reply |-> "none", alone |-> filmRequests = {},
         address |-> objects[filmSheet.of].address, seen |-> objects[1]]}
  /\ UNCHANGED <<kind, film, objects, filmUpsets, adrift>>

(* The heart: the sheet stays, and so does its button.                        *)
PressFavourite ==
  /\ filmSheet.at = "film" /\ UNCHANGED filmSheet
  /\ AskOfFilm("favourite", IF objects[filmSheet.of].favourite THEN 0 ELSE 1)

(* "Remove from Continue Watching": its button waits for the answer.          *)
PressClear ==
  /\ filmSheet.at = "settings" /\ filmSheet.resumable /\ ~FilmBusy("clear")
  /\ filmSheet' = IF kind = "my_tv" THEN NoSheet ELSE filmSheet
  /\ AskOfFilm("clear", 0)

(* Move, rename and bin: manage does one at a time and forgets the others.    *)
Manage(to) ==
  /\ filmSheet.at = "settings" /\ filmSheet' = NoSheet /\ to # objects[filmSheet.of].address
  /\ \/ ~Managing /\ AskOfFilm("manage", to)
     \/ Managing /\ UNCHANGED <<kind, film, objects, filmRequests, filmTaps, filmUpsets, adrift>>

(* A favourite with a place is played from a choice; otherwise it continues   *)
(* at once, over the sheet or in its place.  Where it gets to is Watched's.   *)
PlayFilm ==
  /\ filmSheet.at = "film" /\ ~(filmSheet.context = "favourite" /\ filmSheet.resumable)
  /\ filmSheet' \in (IF kind = "my_tv" THEN {filmSheet, NoSheet} ELSE {NoSheet})
  /\ UNCHANGED <<kind, film, objects, filmRequests, filmTaps, filmUpsets, adrift>>

OpenChoice ==
  /\ filmSheet.at = "film" /\ filmSheet.context = "favourite" /\ filmSheet.resumable
  /\ filmSheet' = [filmSheet EXCEPT !.at = "choice"]
  /\ UNCHANGED <<kind, film, objects, filmRequests, filmTaps, filmUpsets, adrift>>

(* Something else in the page reloads the library.                            *)
Reload ==
  /\ ~FilmBusy("read") /\ UNCHANGED filmSheet
  /\ AskOfFilm("read", 0)
-----------------------------------------------------------------------------
(* Requests that name a film by an address it no longer has are refused.      *)
PiAnswersFilm(r) ==
  /\ r.reply = "none"
  /\ LET there == r.what \in Reading \/ (r.address = film.address /\ film.address # 0)
     IN  /\ filmRequests' = (filmRequests \ {r}) \cup
              {[r EXCEPT !.reply = IF there THEN "done" ELSE "refused", !.seen = IF r.what \in Reading THEN film ELSE @]}
         /\ film' = IF ~there THEN film
                  ELSE CASE r.what = "favourite" -> [film EXCEPT !.favourite = r.to = 1]
                         [] r.what = "clear" -> [film EXCEPT !.place = 0]
                         [] r.what = "manage" -> [film EXCEPT !.address = r.to]
                         [] OTHER -> film
  /\ UNCHANGED <<kind, objects, filmSheet, filmTaps, filmUpsets, adrift>>

RequestGone(r) == filmRequests' = {[q EXCEPT !.alone = FALSE] : q \in filmRequests \ {r}}
(* A change the shown library does not get: it was made to an object that was *)
(* replaced, or something else was under way with it.                         *)
Misplaced(r, placed) == adrift' = (adrift \/ ~placed \/ ~r.alone \/ filmRequests # {r})

(* setFilmFavourite.                                                          *)
FavouriteAnswer(r) ==
  /\ r.what = "favourite" /\ r.reply = "done" /\ RequestGone(r)
  /\ objects' = [objects EXCEPT ![r.of].favourite = r.to = 1]
  /\ Misplaced(r, r.of = Latest)
  /\ UNCHANGED <<kind, film, filmSheet, filmTaps, filmUpsets>>

(* Plausible bug: the film of My TV is not looked up again.                   *)
ClearedMutant(r) == {r.of}

(* clearWatchFilmProgress looks the film up in the library as it is now, the  *)
(* sheet of a channel's film does not.                                        *)
Cleared(r) == IF kind = "my_tv" /\ objects[Latest].address = r.address THEN {r.of, Latest} ELSE {r.of}
ClearAnswer(r) ==
  /\ r.what = "clear" /\ r.reply = "done" /\ RequestGone(r)
  /\ objects' = [i \in 1..Latest |-> IF i \in Cleared(r) THEN [objects[i] EXCEPT !.place = 0] ELSE objects[i]]
  /\ filmSheet' = IF filmSheet.at = (IF kind = "my_tv" THEN "film" ELSE "settings") THEN NoSheet ELSE filmSheet
  /\ Misplaced(r, IF kind = "my_tv" THEN objects[Latest].address = r.address ELSE r.of = Latest)
  /\ UNCHANGED <<kind, film, filmTaps, filmUpsets>>

(* manage reloads the library before it can be asked again.                   *)
ManageAnswer(r) ==
  /\ r.what = "manage" /\ r.reply = "done"
  /\ filmRequests' = (filmRequests \ {r}) \cup {[r EXCEPT !.what = "reload", !.reply = "none"]}
  /\ UNCHANGED <<kind, film, objects, filmSheet, filmTaps, filmUpsets, adrift>>

(* applyLibraryData: whatever was read becomes the library.                   *)
FilmReadAnswer(r) ==
  /\ r.what \in Reading /\ r.reply = "done" /\ RequestGone(r)
  /\ objects' = Append(objects, r.seen)
  /\ adrift' = (filmRequests # {r} \/ ~r.alone)
  /\ UNCHANGED <<kind, film, filmSheet, filmTaps, filmUpsets>>

(* A refusal, or an answer or request that was lost.                          *)
FilmFails(r) ==
  /\ \/ r.reply = "refused" /\ UNCHANGED <<filmUpsets, adrift>>
     \/ r.reply # "refused" /\ filmUpsets < MaxFilmUpsets /\ filmUpsets' = filmUpsets + 1 /\ adrift' = TRUE
  /\ RequestGone(r)
  /\ UNCHANGED <<kind, film, objects, filmSheet, filmTaps>>

(* A player leaves the film somewhere.                                        *)
Watched(place) ==
  /\ filmUpsets < MaxFilmUpsets /\ filmUpsets' = filmUpsets + 1
  /\ film.address # 0 /\ film' = [film EXCEPT !.place = place]
  /\ adrift' = TRUE /\ filmRequests' = {[r EXCEPT !.alone = FALSE] : r \in filmRequests}
  /\ UNCHANGED <<kind, objects, filmSheet, filmTaps>>

FilmInit ==
  /\ kind \in {"my_tv", "channel", "show"}
  /\ \E favourite \in BOOLEAN : film = [favourite |-> favourite, place |-> 1, address |-> 1]
  /\ objects = <<film>> /\ filmSheet = NoSheet /\ filmRequests = {}
  /\ filmTaps = 0 /\ filmUpsets = 0 /\ adrift = FALSE

FilmNext ==
  \/ OpenFromHome \/ OpenFromMyTv \/ OpenFromChannels \/ OpenFilmSettings
  \/ OpenProgrammeSettings \/ LeaveFilmSheet \/ PressFavourite \/ PressClear \/ PlayFilm \/ OpenChoice \/ Reload
  \/ \E to \in {0, 2} : Manage(to)
  \/ \E r \in filmRequests : PiAnswersFilm(r)
  \/ \E r \in filmRequests : FavouriteAnswer(r)
  \/ \E r \in filmRequests : ClearAnswer(r)
  \/ \E r \in filmRequests : ManageAnswer(r)
  \/ \E r \in filmRequests : FilmReadAnswer(r)
  \/ \E r \in filmRequests : FilmFails(r)
  \/ \E place \in {0, 1} : Watched(place)

FilmSpec == FilmInit /\ [][FilmNext]_filmVars
-----------------------------------------------------------------------------
(* The shelves show the film as the Pi has it once nothing is under way,      *)
(* unless a player moved it, two things overlapped, a request was lost, or a  *)
(* sheet outlived the library it was opened from; the next undisturbed reload *)
(* settles those too.                                                         *)
ShelfIsTrue == filmRequests = {} /\ ~adrift => objects[Latest] = film
=============================================================================
