---------------------------- MODULE LocalSeries ----------------------------
(* The sheets of one series kept on the Pi (portal/js/playback/               *)
(* my-tv-series.js): its seasons, their settings, the restart question, the   *)
(* upload of episodes and the watched marks.  A sheet knows the sheets it     *)
(* leads back to; the close event of a dialog runs after the handler that     *)
(* closed it, but before the owner taps again; answers of the Pi come when    *)
(* they like and may open a sheet over whatever is open by then.              *)
EXTENDS Naturals, Sequences

CONSTANTS
  Season,          \* the seasons of the series
  VideoFile,       \* video files of the owner's device
  MaxSeriesTaps,   \* bound on taps
  MaxAsks,         \* bound on requests about marks
  MaxSeriesFaults  \* bound on lost or refused requests

VARIABLES
  open,         \* the open dialogs: [sheet, season, back] and the sheets each lies over
  closing,      \* dialogs whose close event has not run
  chosen,       \* selectedMyTvSeries and selectedMyTvSeason: the way back of each
  restart,      \* myTvSeriesRestartTarget
  target,       \* myTvSeriesUploadTarget
  picker,       \* myTvSeriesSourcePickerOpen
  files,        \* selectedMyTvSeriesFiles
  transfer,     \* the upload form's loop
  watched,      \* the seasons whose episodes the Pi has as watched
  marksShown,   \* and those the page shows so
  seriesAsked,  \* requests about marks, and the library read after a restart
  buttons,      \* the season sheet's mark button: "idle", "asks", disabled
  seriesTaps, asks, seriesFaults,
  chosenFor, sent, mixed, crossedSheets, overlapped

seriesVars == <<open, closing, chosen, restart, target, picker, files, transfer, watched, marksShown, seriesAsked,
                buttons, seriesTaps, asks, seriesFaults, chosenFor, sent, mixed, crossedSheets, overlapped>>

NoSeason == "none"
NoTarget == [season |-> NoSeason, back |-> <<>>]
NoTransfer == [target |-> NoTarget, files |-> {}]
Whole == "series"
SeriesSheet == {"series", "season", "settings", "episode", "restart", "upload", "source"}
ASSUME SeasonAssumption == NoSeason \notin Season /\ Whole \notin Season
places == <<open, closing, chosen>>
uploads == <<chosenFor, sent, mixed, crossedSheets>>
seriesGhosts == <<asks, uploads>>
-----------------------------------------------------------------------------
(* Dialogs.  One that opens lies over all that are open; one that is opened   *)
(* again changes where it is.                                                 *)
IsOpen(sheet) == \E d \in open : d.sheet = sheet
IsTop(d) == d \in open /\ \A e \in open : e = d \/ e.sheet \in d.over
Top == CHOOSE d \in open : IsTop(d)
On(sheet) == (\E d \in open : IsTop(d)) /\ Top.sheet = sheet
Without(dialogs, gone) == {[d EXCEPT !.over = @ \ gone] : d \in {e \in dialogs : e.sheet \notin gone}}
With(dialogs, d) ==
  IF \E e \in dialogs : e.sheet = d.sheet
  THEN {IF e.sheet = d.sheet THEN [d EXCEPT !.over = e.over] ELSE e : e \in dialogs}
  ELSE dialogs \cup {[d EXCEPT !.over = {e.sheet : e \in dialogs}]}
Dialog(sheet, season, back) == [sheet |-> sheet, season |-> season, back |-> back, over |-> {}]

(* The dialog a way back leads to, and the selection that opening it makes.   *)
DialogAt(back) == Dialog(IF Head(back) = Whole THEN "series" ELSE "season", Head(back), Tail(back))
Selecting(c, d) == IF d.sheet \in DOMAIN c THEN [c EXCEPT ![d.sheet] = <<d.back>>] ELSE c
Deselecting(c, gone) == [s \in DOMAIN c |-> IF s \in gone THEN <<>> ELSE c[s]]

(* Closes some dialogs, forgets some selections and follows a way back, if    *)
(* there is one.                                                              *)
LeaveTo(gone, forgotten, back) ==
  LET rest == Without(open, gone)
      c == Deselecting(chosen, forgotten)
  IN  /\ closing' = closing \cup {s \in gone : IsOpen(s)}
      /\ IF back = <<>> THEN open' = rest /\ chosen' = c
         ELSE open' = With(rest, DialogAt(back)) /\ chosen' = Selecting(c, DialogAt(back))

Replace(gone, forgotten, d) ==
  /\ closing' = closing \cup {s \in gone : IsOpen(s)}
  /\ open' = With(Without(open, gone), d)
  /\ chosen' = Selecting(Deselecting(chosen, forgotten), d)

(* wireDialog: the close event forgets what its sheet was about, even when    *)
(* the sheet is open again by now.                                            *)
CloseEvent(s) ==
  /\ s \in closing /\ closing' = closing \ {s}
  /\ chosen' = Deselecting(chosen, {s})
  /\ target' = IF s = "upload" /\ ~picker THEN NoTarget ELSE target
  /\ UNCHANGED <<open, restart, picker, files, transfer, watched, marksShown, seriesAsked, buttons,
                 seriesTaps, seriesFaults, seriesGhosts, overlapped>>

TapOn(sheet) == On(sheet) /\ closing = {} /\ seriesTaps < MaxSeriesTaps /\ seriesTaps' = seriesTaps + 1
Unmoved == <<restart, target, picker, files, transfer, watched, marksShown, seriesAsked, seriesFaults, seriesGhosts, overlapped>>

(* Wiring the season sheet's button again takes back its question; a button   *)
(* that is disabled stays disabled until its request has ended.               *)
Rewired == buttons' = IF buttons = "asks" THEN "idle" ELSE buttons
-----------------------------------------------------------------------------
OpenSeries ==
  /\ open = {} /\ closing = {} /\ seriesTaps < MaxSeriesTaps /\ seriesTaps' = seriesTaps + 1
  /\ Replace({}, {}, Dialog("series", Whole, <<>>)) /\ UNCHANGED <<Unmoved, buttons>>

OpenSeason(s) ==
  /\ TapOn("series") /\ Replace({"series"}, {}, Dialog("season", s, <<Whole>> \o Top.back))
  /\ Rewired /\ UNCHANGED Unmoved

OpenSettings ==
  /\ TapOn("season") /\ Replace({"season"}, {}, Dialog("settings", Top.season, <<Top.season>> \o Top.back))
  /\ UNCHANGED <<Unmoved, buttons>>

(* The menu of the whole series takes the place of its sheet.                 *)
OpenMore ==
  /\ TapOn("series") /\ Replace({"series"}, {"series"}, Dialog("settings", Whole, <<Whole>> \o Top.back))
  /\ UNCHANGED <<Unmoved, buttons>>

OpenEpisode ==
  /\ TapOn("season") /\ Replace({"season"}, {"season"}, Dialog("episode", Top.season, <<Top.season>> \o Top.back))
  /\ UNCHANGED <<Unmoved, buttons>>

(* Back on a card; its close control leaves the whole journey.                *)
LeaveCard ==
  /\ TapOn("series") \/ TapOn("season")
  /\ \E way \in {Top.back, <<>>} : LeaveTo(IF way = <<>> THEN {"series", "season"} ELSE {Top.sheet}, {}, way)
  /\ Rewired /\ UNCHANGED Unmoved

LeaveSheet ==
  /\ TapOn("settings") \/ TapOn("episode")
  /\ LeaveTo({Top.sheet}, {}, Top.back) /\ Rewired /\ UNCHANGED Unmoved
-----------------------------------------------------------------------------
(* Where a sheet asked from the settings of a season leads back to: the       *)
(* season, as long as its selection has not been forgotten.                   *)
WayBack(s) ==
  IF chosen["season"] # <<>> THEN <<s>> \o Head(chosen["season"])
  ELSE <<Whole>> \o (IF chosen["series"] # <<>> THEN Head(chosen["series"]) ELSE <<>>)

AskRestart ==
  /\ TapOn("settings") /\ restart' = Top.season
  /\ Replace({"settings", "season", "series"}, {"season", "series"},
       Dialog("restart", Top.season, IF Top.season = Whole THEN Top.back ELSE WayBack(Top.season)))
  /\ UNCHANGED <<target, picker, files, transfer, watched, marksShown, seriesAsked, seriesFaults,
                 seriesGhosts, overlapped, buttons>>

LeaveRestart ==
  /\ TapOn("restart") /\ restart' = NoSeason /\ LeaveTo({"restart"}, {}, Top.back) /\ Rewired
  /\ UNCHANGED <<target, picker, files, transfer, watched, marksShown, seriesAsked, seriesFaults,
                 seriesGhosts, overlapped>>

SeriesBusy == seriesAsked # {}
AskOfSeries(r) ==
  /\ asks < MaxAsks /\ asks' = asks + 1
  /\ seriesAsked' = seriesAsked \cup {r}
  /\ overlapped' = (overlapped \/ SeriesBusy)

(* confirmMyTvSeriesRestart: its button is disabled until the request ended.  *)
ConfirmRestart ==
  /\ TapOn("restart") /\ restart # NoSeason /\ ~\E r \in seriesAsked : r.what = "restart"
  /\ AskOfSeries([what |-> "restart", season |-> restart, to |-> FALSE, at |-> "sent", from |-> "restart",
                  back |-> Top.back])
  /\ UNCHANGED <<places, restart, target, picker, files, transfer, watched, marksShown,
                 seriesFaults, uploads, buttons>>

(* The mark buttons ask once more before they send.                           *)
PressMark ==
  /\ TapOn("season") /\ buttons = "idle" /\ buttons' = "asks" /\ UNCHANGED <<Unmoved, places>>

QuestionTimesOut ==
  /\ buttons = "asks" /\ buttons' = "idle" /\ UNCHANGED <<Unmoved, places, seriesTaps>>

Mark(s, from) ==
  AskOfSeries([what |-> "mark", season |-> s, to |-> s \notin marksShown, at |-> "sent", from |-> from,
               back |-> Top.back])

ConfirmMark ==
  /\ TapOn("season") /\ buttons = "asks" /\ buttons' = "disabled" /\ Mark(Top.season, "season")
  /\ UNCHANGED <<places, restart, target, picker, files, transfer, watched, marksShown, seriesFaults, uploads>>

(* A season's button on the series sheet, made anew with the sheet.           *)
MarkOnCard(s) ==
  /\ TapOn("series") /\ Mark(s, "card")
  /\ UNCHANGED <<places, restart, target, picker, files, transfer, watched, marksShown,
                 seriesFaults, uploads, buttons>>

PiAnswersSeries(r) ==
  /\ r \in seriesAsked /\ r.at = "sent"
  /\ watched' = IF r.to THEN watched \cup {r.season}
                ELSE IF r.season = Whole THEN {} ELSE watched \ {r.season}
  /\ seriesAsked' = (seriesAsked \ {r}) \cup {[r EXCEPT !.at = "answered"]}
  /\ UNCHANGED <<places, restart, target, picker, files, transfer, marksShown, buttons, seriesTaps,
                 seriesFaults, seriesGhosts, overlapped>>

Enabled(r) == buttons' = IF r.what = "mark" /\ r.from = "season" THEN "idle" ELSE buttons

(* An answer that opens a sheet finds the owner on another one.               *)
Crosses(gone) == crossedSheets' = (crossedSheets \/ Without(open, gone) # {})

(* The season sheet's own mark opens it again, wherever the owner is by now.  *)
MarkOver(r) ==
  /\ seriesAsked' = seriesAsked \ {r} /\ Enabled(r)
  /\ IF r.from = "season"
     THEN Replace({"season"}, {"season"}, Dialog("season", r.season, r.back)) /\ Crosses({"season"})
     ELSE UNCHANGED <<places, crossedSheets>>
  /\ UNCHANGED <<restart, target, picker, files, transfer, watched, seriesTaps, asks, seriesFaults,
                 chosenFor, sent, mixed, overlapped>>

(* finishLocalSeriesIfComplete: the mark that completes the series waits for  *)
(* the Pi once more, to finish its title, before the page goes on.            *)
Completes(r) == r.to /\ Season \subseteq marksShown \cup {r.season}

MarkAnswer(r) ==
  /\ r \in seriesAsked /\ r.what = "mark" /\ r.at = "answered"
  /\ marksShown' = IF r.to THEN marksShown \cup {r.season} ELSE marksShown \ {r.season}
  /\ \/ ~Completes(r) /\ MarkOver(r)
     \/ /\ Completes(r) /\ seriesAsked' = (seriesAsked \ {r}) \cup {[r EXCEPT !.at = "marked"]}
        /\ UNCHANGED <<places, restart, target, picker, files, transfer, watched, buttons, seriesTaps,
                       seriesFaults, seriesGhosts, overlapped>>

MarkEnds(r) ==
  /\ r \in seriesAsked /\ r.what = "mark" /\ r.at = "marked"
  /\ MarkOver(r) /\ UNCHANGED marksShown

(* Plausible bug: the page trusts its own library after a restart.            *)
AfterRestartMutant(r) == "read"

(* The page reads the library again before it goes back.                      *)
AfterRestart(r) == "reads"

RestartAnswer(r) ==
  /\ r \in seriesAsked /\ r.what = "restart" /\ r.at = "answered"
  /\ seriesAsked' = (seriesAsked \ {r}) \cup {[r EXCEPT !.at = AfterRestart(r)]}
  /\ restart' = NoSeason /\ LeaveTo({"restart"}, {}, <<>>)
  /\ UNCHANGED <<target, picker, files, transfer, watched, marksShown, buttons, seriesTaps,
                 seriesFaults, seriesGhosts, overlapped>>

LibraryIsRead(r) ==
  /\ r \in seriesAsked /\ r.at = "reads" /\ marksShown' = watched
  /\ seriesAsked' = (seriesAsked \ {r}) \cup {[r EXCEPT !.at = "read"]}
  /\ UNCHANGED <<places, restart, target, picker, files, transfer, watched, buttons, seriesTaps,
                 seriesFaults, seriesGhosts, overlapped>>

RestartGoesBack(r) ==
  /\ r \in seriesAsked /\ r.at = "read" /\ seriesAsked' = seriesAsked \ {r}
  /\ LeaveTo({}, {}, r.back) /\ Rewired /\ Crosses({})
  /\ UNCHANGED <<restart, target, picker, files, transfer, watched, marksShown, seriesTaps, asks,
                 seriesFaults, chosenFor, sent, mixed, overlapped>>

SeriesFails(r) ==
  /\ r \in seriesAsked /\ r.at # "read" /\ seriesFaults < MaxSeriesFaults /\ seriesFaults' = seriesFaults + 1
  /\ seriesAsked' = seriesAsked \ {r} /\ Enabled(r)
  /\ overlapped' = (overlapped \/ r.at \notin {"sent", "marked"})
  /\ UNCHANGED <<places, restart, target, picker, files, transfer, watched, marksShown, seriesTaps,
                 seriesGhosts>>
-----------------------------------------------------------------------------
(* The upload sheet names the season of the target: both are written here.    *)
AskUpload ==
  /\ TapOn("settings") /\ Top.season # Whole /\ target' = [season |-> Top.season, back |-> WayBack(Top.season)]
  /\ files' = {}
  /\ Replace({"settings", "season", "series"}, {"season", "series"},
             Dialog("upload", NoSeason, WayBack(Top.season)))
  /\ UNCHANGED <<restart, picker, transfer, watched, marksShown, seriesAsked, seriesFaults,
                 seriesGhosts, overlapped, buttons>>

(* Its close control forgets the target at once, cancelling by its event.     *)
LeaveUpload ==
  /\ TapOn("upload") /\ target' \in {NoTarget, target} /\ LeaveTo({"upload"}, {}, Top.back) /\ Rewired
  /\ UNCHANGED <<restart, picker, files, transfer, watched, marksShown, seriesAsked, seriesFaults,
                 seriesGhosts, overlapped>>

ChooseSource ==
  /\ TapOn("upload") /\ target # NoTarget /\ picker' = TRUE
  /\ Replace({"upload"}, {}, Dialog("source", NoSeason, Top.back))
  /\ UNCHANGED <<restart, target, files, transfer, watched, marksShown, seriesAsked, seriesFaults,
                 seriesGhosts, overlapped, buttons>>

(* The source sheet leads back to the upload sheet, by its close control or   *)
(* with files, unless the file field is disabled.                             *)
LeaveSource ==
  /\ TapOn("source") /\ picker' = FALSE
  /\ Replace({"source"}, {}, Dialog("upload", NoSeason, IF target = NoTarget THEN <<>> ELSE target.back))
  /\ \/ UNCHANGED <<files, chosenFor>>
     \/ \E f \in VideoFile \ files : /\ transfer = NoTransfer /\ target # NoTarget
                                /\ files' = files \cup {f}
                                /\ chosenFor' = [chosenFor EXCEPT ![f] = @ \cup {target.season}]
  /\ UNCHANGED <<restart, target, transfer, watched, marksShown, seriesAsked, asks, seriesFaults,
                 sent, mixed, crossedSheets, overlapped, buttons>>

(* To the page for USB drives, with the target.                               *)
ChooseUsb ==
  /\ TapOn("source") /\ picker' = FALSE /\ target' = NoTarget /\ LeaveTo({"source"}, {}, <<>>)
  /\ UNCHANGED <<restart, files, transfer, watched, marksShown, seriesAsked, seriesFaults,
                 seriesGhosts, overlapped, buttons>>

SendFiles ==
  /\ TapOn("upload") /\ transfer = NoTransfer /\ target # NoTarget /\ files # {}
  /\ transfer' = [target |-> target, files |-> files]
  /\ sent' = sent \cup {<<f, target.season>> : f \in files}
  /\ UNCHANGED <<places, restart, target, picker, files, watched, marksShown, seriesAsked, asks,
                 seriesFaults, chosenFor, mixed, crossedSheets, overlapped, buttons>>

(* The whole upload is over; what failed is selected again, in whatever       *)
(* upload sheet there is by now (actions.js:497).                             *)
UploadEnds ==
  /\ transfer # NoTransfer /\ transfer' = NoTransfer
  /\ \/ /\ seriesFaults < MaxSeriesFaults /\ seriesFaults' = seriesFaults + 1
        /\ \E failed \in SUBSET transfer.files \ {{}} :
             /\ files' = failed
             /\ mixed' = IF target \in {NoTarget, transfer.target} THEN mixed ELSE mixed \cup failed
        /\ UNCHANGED <<target, crossedSheets, places>>
     \/ /\ files' = {} /\ target' = NoTarget
        /\ Crosses({"upload"})
        /\ Replace({"upload"}, {}, Dialog("season", transfer.target.season,
             IF Head(transfer.target.back) = transfer.target.season THEN Tail(transfer.target.back)
             ELSE transfer.target.back))
        /\ UNCHANGED <<seriesFaults, mixed>>
  /\ UNCHANGED <<restart, picker, watched, marksShown, seriesAsked, buttons, seriesTaps, asks,
                 chosenFor, sent, overlapped>>
-----------------------------------------------------------------------------
SeriesInit ==
  /\ \E s \in Season : open = {Dialog("settings", s, <<s, Whole>>)}
  /\ closing = {} /\ chosen = [s \in {"series", "season"} |-> <<>>]
  /\ restart = NoSeason /\ target = NoTarget /\ picker = FALSE /\ files = {} /\ transfer = NoTransfer
  /\ watched \in SUBSET Season /\ marksShown = watched /\ seriesAsked = {} /\ buttons = "idle"
  /\ seriesTaps = 0 /\ asks = 0 /\ seriesFaults = 0
  /\ chosenFor = [f \in VideoFile |-> {}] /\ sent = {} /\ mixed = {} /\ crossedSheets = FALSE /\ overlapped = FALSE

SeriesNext ==
  \/ \E s \in SeriesSheet : CloseEvent(s)
  \/ OpenSeries \/ OpenSettings \/ OpenMore \/ OpenEpisode \/ LeaveCard \/ LeaveSheet
  \/ \E s \in Season : OpenSeason(s) \/ MarkOnCard(s)
  \/ AskRestart \/ LeaveRestart \/ ConfirmRestart
  \/ PressMark \/ QuestionTimesOut \/ ConfirmMark
  \/ \E r \in seriesAsked : PiAnswersSeries(r)
  \/ \E r \in seriesAsked : MarkAnswer(r)
  \/ \E r \in seriesAsked : MarkEnds(r)
  \/ \E r \in seriesAsked : RestartAnswer(r)
  \/ \E r \in seriesAsked : LibraryIsRead(r)
  \/ \E r \in seriesAsked : RestartGoesBack(r)
  \/ \E r \in seriesAsked : SeriesFails(r)
  \/ AskUpload \/ LeaveUpload \/ ChooseSource \/ LeaveSource \/ ChooseUsb \/ SendFiles \/ UploadEnds

SeriesSpec == SeriesInit /\ [][SeriesNext]_seriesVars
-----------------------------------------------------------------------------
(* An episode goes to the season whose upload sheet it was chosen in, however *)
(* uploads, marks and restarts overlap with the owner's way through the       *)
(* sheets; but one that failed while another season's sheet was opened is     *)
(* sent there with it.                                                        *)
SentAsChosen == \A p \in sent : p[2] \in chosenFor[p[1]] \/ p[1] \in mixed

(* What a sheet asks about is there as long as it is open, whatever close     *)
(* events and answers come; unless an answer has opened a sheet over another  *)
(* one.                                                                       *)
TargetIsThere ==
  /\ IsOpen("restart") => restart # NoSeason
  /\ (IsOpen("upload") /\ "upload" \notin closing) \/ IsOpen("source") => target # NoTarget \/ crossedSheets

(* Once the requests have ended the page shows the marks of the Pi, unless    *)
(* two of them overlapped or an answer was lost.                              *)
MarksAgree == ~SeriesBusy /\ ~overlapped => marksShown = watched

(* The sheets act on, and show, what the owner opened them for.               *)
SeriesSheetsAreTrue == SentAsChosen /\ TargetIsThere /\ MarksAgree
=============================================================================
