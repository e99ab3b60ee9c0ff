----------------------------- MODULE FamilyPlayer -----------------------------
(* Stories and family memories on a phone (portal/js/family): one dialog with *)
(* one audio and one video element, which the story that is read, the music   *)
(* of the memories and their clips share, a book that opens and closes, and   *)
(* the catalogue behind it.  Animations, timers, answers of the Pi and the    *)
(* promises of play() come when they will; the family may have moved on.      *)
EXTENDS Naturals, Sequences

CONSTANTS
  Story,    \* the stories, all ready
  Scenes,   \* one session of memories: a sequence of "photo" and "clip"
  Length,   \* where a story ends
  MaxFamilyTaps   \* bound on taps, lost answers and scenes that end

ASSUME FamilyAssumption ==
  /\ Story \cap {"none", "music"} = {} /\ Length \in Nat /\ MaxFamilyTaps \in Nat
  /\ Scenes \in Seq({"photo", "clip"}) /\ Scenes # <<>>

VARIABLES
  dialog,     \* open, generation, what it shows, the story that is read
  position,   \* [Story -> where it was left, as the Pi and the page know it]
  audio,      \* the audio element
  clip,       \* the video element, and the serial of the scene it belongs to
  promise,    \* the promises of play() that are not settled
  shelf,      \* the catalogue's page-turn sound and the timer before it
  memories,   \* familyDeviceMemories
  sessions,   \* the generations that asked the Pi for a session
  familyTaps

familyVars == <<dialog, position, audio, clip, promise, shelf, memories, sessions, familyTaps>>

None == "none"
NoAudio == [of |-> None, playing |-> FALSE, muted |-> FALSE, known |-> FALSE, at |-> 0]
NoClip == [playing |-> FALSE, serial |-> 0]
QuietShelf == [timer |-> FALSE, sound |-> FALSE]
NoMemories ==
  [serial |-> 0, index |-> 0, session |-> FALSE, music |-> FALSE, paused |-> FALSE,
   refilling |-> FALSE, timer |-> FALSE, fade |-> None, fading |-> 0]

Tap == familyTaps < MaxFamilyTaps /\ familyTaps' = familyTaps + 1
Reading == dialog.shows \in {"opening", "reading"}
OfThisPlayer(p) == dialog.open /\ p.generation = dialog.generation
-----------------------------------------------------------------------------
(* Media elements.                                                            *)
OfAudio == {"prime", "start", "music", "again"}
OfClip == {"clip", "clip again"}

(* A pause or a new source rejects what waits to play.                        *)
PlayAborted(ps, whose) ==
  {IF p.who \in whose THEN [p EXCEPT !.fate = "rejected"] ELSE p : p \in ps}

(* play(): allowed, or refused at once for want of a tap.                     *)
Promise(who, generation, serial, fate) ==
  [who |-> who, generation |-> generation, serial |-> serial, fate |-> fate]
Fates == {"pending", "rejected"}
Plays(fate, was) == was \/ fate = "pending"

(* No rejection waits: it is delivered before the next event.                 *)
Delivered == \A p \in promise : p.fate = "pending"

(* Plausible bug: the generation of the player before stays valid.            *)
ResetMutant == dialog.generation

(* resetFamilyDevicePlayer, stopFamilyMemoriesDevice and stopFamilyStoryBrowser. *)
Reset == dialog.generation + 1

ResetTo(shows, story) ==
  /\ dialog' = [open |-> shows # None, generation |-> Reset, shows |-> shows, story |-> story, started |-> FALSE]
  /\ clip' = NoClip
-----------------------------------------------------------------------------
(* Stories.                                                                   *)

(* resume(): only when the length of the recording is known.                  *)
Resumed(a, s) == IF a.known THEN [a EXCEPT !.at = position[s]] ELSE a

(* saveFamilyListeningPosition: the request may fail.                         *)
SavePosition(at) ==
  IF dialog.started THEN position' = position \/ position' = [position EXCEPT ![dialog.story] = at]
  ELSE UNCHANGED position

(* playFamilyStoryOnDevice: the audio element is primed, muted, in the tap.   *)
TapStory(s) ==
  /\ Delivered /\ Tap
  /\ dialog.shows \in {None, "catalogue", "closing", "docking"}
  /\ ResetTo("opening", s)
  /\ \E fate \in Fates :
       /\ audio' = [NoAudio EXCEPT !.of = s, !.muted = TRUE, !.playing = Plays(fate, FALSE)]
       /\ promise' = PlayAborted(promise, OfAudio \cup OfClip) \cup {Promise("prime", Reset, 0, fate)}
  /\ shelf' = QuietShelf /\ memories' = NoMemories
  /\ UNCHANGED <<position, sessions>>

(* loadedmetadata.                                                            *)
LengthKnown ==
  /\ Delivered /\ audio.of \in Story /\ ~audio.known
  /\ LET a == [audio EXCEPT !.known = TRUE]
     IN  audio' = IF Reading /\ ~dialog.started THEN Resumed(a, dialog.story) ELSE a
  /\ UNCHANGED <<dialog, position, clip, promise, shelf, memories, sessions, familyTaps>>

Primed(p) ==
  /\ p.who = "prime"
  /\ IF ~OfThisPlayer(p) THEN UNCHANGED audio /\ promise' = promise \ {p}
     ELSE IF p.fate = "rejected"
     THEN audio' = [audio EXCEPT !.muted = FALSE] /\ promise' = promise \ {p}
     ELSE IF dialog.started THEN UNCHANGED audio /\ promise' = promise \ {p}
     ELSE /\ audio' = Resumed([audio EXCEPT !.playing = FALSE, !.muted = FALSE], dialog.story)
          /\ promise' = PlayAborted(promise \ {p}, OfAudio)
  /\ UNCHANGED <<dialog, memories, clip>>

(* start(): the book has opened, was skipped, or Start story was tapped.      *)
StartStory ==
  /\ Delivered /\ Reading /\ ~dialog.started
  /\ dialog.shows = "reading" => Tap
  /\ dialog.shows = "opening" => UNCHANGED familyTaps
  /\ dialog' = [dialog EXCEPT !.shows = "reading", !.started = TRUE]
  /\ \E fate \in Fates :
       /\ audio' = Resumed([audio EXCEPT !.muted = FALSE, !.playing = Plays(fate, @)], dialog.story)
       /\ promise' = promise \cup {Promise("start", dialog.generation, 0, fate)}
  /\ UNCHANGED <<position, clip, shelf, memories, sessions>>

Started(p) ==
  /\ p.who = "start" /\ promise' = promise \ {p}
  /\ dialog' = [dialog EXCEPT !.started = @ /\ ~(OfThisPlayer(p) /\ p.fate = "rejected")]
  /\ UNCHANGED <<audio, memories, clip>>

(* The controls of the audio element, the lock screen and the space bar.      *)
PauseOrPlay ==
  /\ Delivered /\ Tap /\ dialog.shows = "reading" /\ dialog.started
  /\ IF audio.playing
       THEN /\ audio' = [audio EXCEPT !.playing = FALSE]
            /\ promise' = PlayAborted(promise, OfAudio) /\ SavePosition(audio.at)
       ELSE audio' = [audio EXCEPT !.playing = TRUE] /\ UNCHANGED <<position, promise>>
  /\ UNCHANGED <<dialog, clip, shelf, memories, sessions>>

(* familyStoryRestart.                                                        *)
RestartStory ==
  /\ Delivered /\ Tap /\ dialog.shows = "reading" /\ dialog.started
  /\ audio' = [audio EXCEPT !.at = 0, !.playing = TRUE] /\ SavePosition(0)
  /\ UNCHANGED <<dialog, clip, promise, shelf, memories, sessions>>

Listen ==
  /\ Delivered /\ audio.playing /\ audio.known /\ ~audio.muted /\ audio.at < Length
  /\ ~\E p \in promise : p.who = "start"
  /\ audio' = [audio EXCEPT !.at = @ + 1]
  /\ UNCHANGED position \/ SavePosition(audio.at + 1)
  /\ UNCHANGED <<dialog, clip, promise, shelf, memories, sessions, familyTaps>>

(* backFromFamilyDevicePlayer while a story is open.                          *)
PutAway ==
  /\ dialog' = [dialog EXCEPT !.generation = @ + 1, !.shows = "closing", !.story = None, !.started = FALSE]
  /\ audio' = [audio EXCEPT !.playing = FALSE]
  /\ promise' = PlayAborted(promise, OfAudio)
  /\ shelf' = QuietShelf
  /\ UNCHANGED <<clip, memories, sessions>>

BackFromStory == Delivered /\ Tap /\ Reading /\ SavePosition(audio.at) /\ PutAway

StoryEnds ==
  /\ Delivered /\ Reading /\ audio.playing /\ audio.at = Length
  /\ SavePosition(0) /\ PutAway /\ UNCHANGED familyTaps

(* closeFamilyStoryBookIntoCatalogue: the book closes and flies to its shelf. *)
Dock ==
  /\ Delivered /\ dialog.shows = "closing"
  /\ dialog' = [dialog EXCEPT !.shows = "docking"] /\ shelf' = QuietShelf
  /\ UNCHANGED <<position, audio, clip, promise, memories, sessions, familyTaps>>

(* finishReturn: by itself, by Back or by moving on.                          *)
BookIsBack ==
  /\ Delivered /\ dialog.shows \in {"closing", "docking"}
  /\ dialog.shows = "closing" => Tap
  /\ dialog.shows = "docking" => UNCHANGED familyTaps
  /\ dialog' = [dialog EXCEPT !.shows = "catalogue"] /\ shelf' = [timer |-> TRUE, sound |-> FALSE]
  /\ UNCHANGED <<position, audio, clip, promise, memories, sessions>>

(* openFamilyStorytimeOnDevice.                                               *)
TapCatalogue ==
  /\ Delivered /\ Tap /\ dialog.shows = None
  /\ ResetTo("catalogue", None)
  /\ audio' = NoAudio /\ promise' = PlayAborted(promise, OfAudio \cup OfClip)
  /\ shelf' = [timer |-> TRUE, sound |-> FALSE] /\ memories' = NoMemories
  /\ UNCHANGED <<position, sessions>>

(* selectFamilyStoryBook, and the preview that opens after a moment.          *)
SelectBook ==
  /\ Delivered /\ Tap /\ dialog.shows = "catalogue"
  /\ shelf' = [timer |-> TRUE, sound |-> FALSE]
  /\ UNCHANGED <<dialog, position, audio, clip, promise, memories, sessions>>

Preview ==
  /\ Delivered /\ shelf.timer
  /\ shelf' = [timer |-> FALSE, sound |-> dialog.shows = "catalogue"]
  /\ UNCHANGED <<dialog, position, audio, clip, promise, memories, sessions, familyTaps>>
-----------------------------------------------------------------------------
(* Memories.                                                                  *)
Shows(kind) == memories.session /\ Scenes[memories.index] = kind

(* startScene, past the end of the session: more of them are asked for.       *)
Refill ==
  /\ memories' = [memories EXCEPT !.serial = @ + 1, !.refilling = TRUE]
  /\ sessions' = sessions \cup {dialog.generation}
  /\ UNCHANGED <<audio, clip, promise>>

(* startScene, with the state the session has left in m.                      *)
Scene(m, i) ==
  LET serial == m.serial
      quiet == PlayAborted(promise, OfClip)
  IN  IF Scenes[i] = "photo"
      THEN /\ memories' = [m EXCEPT !.index = i, !.paused = FALSE]
           /\ clip' = NoClip
           /\ IF m.music
              THEN \E fate \in Fates :
                     /\ audio' = [NoAudio EXCEPT !.of = "music", !.playing = Plays(fate, audio.playing)]
                     /\ promise' = quiet \cup {Promise("music", dialog.generation, serial, fate)}
              ELSE audio' = NoAudio /\ promise' = quiet
      ELSE \E fate \in Fates :
             /\ memories' = [m EXCEPT !.index = i, !.paused = FALSE, !.fade = "down", !.fading = serial]
             /\ clip' = [playing |-> Plays(fate, FALSE), serial |-> serial]
             /\ promise' = quiet \cup {Promise("clip", dialog.generation, serial, fate)}
             /\ UNCHANGED audio

GoTo(i) ==
  /\ memories.session /\ ~memories.refilling
  /\ IF i > Len(Scenes) THEN Refill
     ELSE Scene([memories EXCEPT !.serial = @ + 1], i) /\ UNCHANGED sessions
  /\ UNCHANGED <<dialog, position, shelf>>

(* playFamilyMemoriesOnDevice.                                                *)
TapMemories ==
  /\ Delivered /\ Tap /\ dialog.shows = None
  /\ ResetTo("memories", None)
  /\ \E music \in BOOLEAN : memories' = [NoMemories EXCEPT !.music = music]
  /\ sessions' = sessions \cup {Reset}
  /\ audio' = NoAudio /\ promise' = PlayAborted(promise, OfAudio \cup OfClip) /\ shelf' = QuietShelf
  /\ UNCHANGED position

(* viewFamilyMemoryOnDevice: one memory, with the controls of the browser.    *)
TapOneMemory ==
  /\ Delivered /\ Tap /\ dialog.shows = None
  /\ ResetTo("one memory", None) /\ memories' = NoMemories
  /\ audio' = NoAudio /\ promise' = PlayAborted(promise, OfAudio \cup OfClip) /\ shelf' = QuietShelf
  /\ UNCHANGED <<position, sessions>>

PlayOneMemory ==
  /\ Delivered /\ Tap /\ dialog.shows = "one memory"
  /\ clip' = [clip EXCEPT !.playing = ~@]
  /\ UNCHANGED <<dialog, position, audio, promise, shelf, memories, sessions>>

(* The Pi's plan of a session; a late one changes nothing.                    *)
SessionComes(g) ==
  /\ Delivered /\ sessions' = sessions \ {g}
  /\ IF dialog.open /\ g = dialog.generation
     THEN Scene([memories EXCEPT !.session = TRUE, !.refilling = FALSE, !.timer = TRUE,
                   !.serial = IF memories.session THEN @ ELSE @ + 1], 1)
     ELSE UNCHANGED <<audio, clip, promise, memories>>
  /\ UNCHANGED <<dialog, position, shelf, familyTaps>>

SessionFails(g) ==
  /\ Delivered /\ Tap /\ sessions' = sessions \ {g}
  /\ memories' = IF dialog.open /\ g = dialog.generation
                 THEN [memories EXCEPT !.refilling = FALSE, !.paused = @ \/ memories.session]
                 ELSE memories
  /\ UNCHANGED <<dialog, position, audio, clip, promise, shelf>>

(* The seconds of a photo, the end of a clip, Next and Previous.              *)
PhotoIsOver ==
  /\ Delivered /\ Tap /\ memories.timer /\ ~memories.paused /\ Shows("photo")
  /\ GoTo(memories.index + 1)

ClipIsOver ==
  /\ Delivered /\ memories.session /\ clip.playing /\ clip.serial = memories.serial
  /\ ~\E p \in promise : p.who \in OfClip
  /\ Tap /\ GoTo(memories.index + 1)

Skip ==
  /\ Delivered /\ Tap /\ dialog.shows = "memories"
  /\ \/ GoTo(memories.index + 1)
     \/ GoTo(IF memories.index > 1 THEN memories.index - 1 ELSE Len(Scenes))

(* What is held fades no further.                                             *)
Held(m) == [m EXCEPT !.paused = TRUE, !.fade = None]

(* pause(true), also when the page is hidden.                                 *)
Hold ==
  /\ memories' = Held(memories)
  /\ audio' = [audio EXCEPT !.playing = FALSE]
  /\ clip' = [clip EXCEPT !.playing = FALSE]

PauseMemories ==
  /\ Delivered /\ Tap /\ memories.session
  /\ Hold /\ promise' = PlayAborted(promise, OfAudio \cup OfClip)
  /\ UNCHANGED <<dialog, position, shelf, sessions>>

PlayMemories ==
  /\ Delivered /\ Tap /\ memories.session /\ memories.paused
  /\ memories' = [memories EXCEPT !.paused = FALSE]
  /\ IF Shows("clip")
     THEN \E fate \in Fates :
            /\ clip' = [clip EXCEPT !.playing = Plays(fate, @)]
            /\ promise' = promise \cup {Promise("clip again", dialog.generation, memories.serial, fate)}
            /\ UNCHANGED audio
     ELSE IF memories.music
     THEN \E fate \in Fates :
            /\ audio' = [audio EXCEPT !.playing = Plays(fate, @)]
            /\ promise' = promise \cup {Promise("again", dialog.generation, memories.serial, fate)}
            /\ UNCHANGED clip
     ELSE UNCHANGED <<audio, clip, promise>>
  /\ UNCHANGED <<dialog, position, shelf, sessions>>

(* What follows a play() of the memories: music rises beside photos only; a   *)
(* refusal pauses, whichever scene asked when it was play itself.             *)
Live(p) == OfThisPlayer(p) /\ p.serial = memories.serial

MusicPlays(p) ==
  /\ p.who \in {"music", "again"} /\ UNCHANGED dialog
  /\ IF p.fate = "pending"
     THEN /\ promise' = promise \ {p}
          /\ memories' = IF (IF p.who = "music" THEN Live(p) ELSE OfThisPlayer(p) /\ Shows("photo")) /\ ~memories.paused
                         THEN [memories EXCEPT !.fade = "up"] ELSE memories
          /\ UNCHANGED <<audio, clip>>
     ELSE IF (IF p.who = "music" THEN Live(p) ELSE OfThisPlayer(p))
     THEN Hold /\ promise' = PlayAborted(promise \ {p}, OfAudio \cup OfClip)
     ELSE promise' = promise \ {p} /\ UNCHANGED <<audio, clip, memories>>

ClipPlays(p) ==
  /\ p.who \in OfClip /\ promise' = promise \ {p}
  /\ memories' = IF p.fate = "rejected" /\ (IF p.who = "clip" THEN Live(p) ELSE OfThisPlayer(p))
                 THEN [memories EXCEPT !.paused = TRUE] ELSE memories
  /\ UNCHANGED <<dialog, audio, clip>>

Settle(p) ==
  /\ p.fate = "rejected" \/ Delivered
  /\ Primed(p) \/ Started(p) \/ MusicPlays(p) \/ ClipPlays(p)
  /\ UNCHANGED <<position, shelf, sessions, familyTaps>>

(* fadeMusic has come to its end; music that was faded for a clip pauses.     *)
FadeEnds ==
  /\ Delivered /\ memories.fade # None
  /\ memories' = [memories EXCEPT !.fade = None]
  /\ IF memories.fade = "down" /\ memories.fading = memories.serial
     THEN audio' = [audio EXCEPT !.playing = FALSE] /\ promise' = PlayAborted(promise, OfAudio)
     ELSE UNCHANGED <<audio, promise>>
  /\ UNCHANGED <<dialog, position, clip, shelf, sessions, familyTaps>>
-----------------------------------------------------------------------------
(* The dialog closes: Close of the catalogue, Back of the memories.           *)
Close ==
  /\ Delivered /\ Tap /\ dialog.shows \in {"catalogue", "memories", "one memory"}
  /\ ResetTo(None, None)
  /\ audio' = NoAudio /\ promise' = PlayAborted(promise, OfAudio \cup OfClip)
  /\ shelf' = QuietShelf /\ memories' = NoMemories
  /\ UNCHANGED <<position, sessions>>

(* The app goes to the background (the memories pause, see PauseMemories).    *)
Hide ==
  /\ Delivered /\ Tap /\ dialog.open /\ dialog.shows # "memories"
  /\ shelf' = [shelf EXCEPT !.sound = FALSE] /\ SavePosition(audio.at)
  /\ UNCHANGED <<dialog, audio, clip, promise, memories, sessions>>

FamilyInit ==
  /\ dialog = [open |-> FALSE, generation |-> 0, shows |-> None, story |-> None, started |-> FALSE]
  /\ position \in [Story -> 0 .. Length - 1]
  /\ audio = NoAudio /\ clip = NoClip /\ promise = {} /\ shelf = QuietShelf
  /\ memories = NoMemories /\ sessions = {} /\ familyTaps = 0

FamilyNext ==
  \/ \E s \in Story : TapStory(s)
  \/ LengthKnown \/ StartStory \/ PauseOrPlay \/ RestartStory \/ Listen \/ BackFromStory \/ StoryEnds
  \/ Dock \/ BookIsBack \/ TapCatalogue \/ SelectBook \/ Preview
  \/ TapMemories \/ TapOneMemory \/ PlayOneMemory
  \/ \E g \in sessions : SessionComes(g) \/ SessionFails(g)
  \/ PhotoIsOver \/ ClipIsOver \/ Skip \/ PauseMemories \/ PlayMemories \/ FadeEnds
  \/ \E p \in promise : Settle(p)
  \/ Close \/ Hide

FamilySpec == FamilyInit /\ [][FamilyNext]_familyVars
-----------------------------------------------------------------------------
(* A closed player is silent, and nothing is left that would start again:     *)
(* "closing the player cancels timers, ..., fades and late session responses" *)
(* (docs/portal-architecture.md:478).                                         *)
ClosedIsSilent ==
  ~dialog.open => ~audio.playing /\ ~clip.playing /\ shelf = QuietShelf /\ memories = NoMemories

(* A voice is heard only of the story whose book is open, once it has opened: *)
(* cancelled openings, late promises and closed books start no narration.     *)
NarrationIsWanted ==
  audio.of \in Story /\ audio.playing /\ ~audio.muted =>
    dialog.open /\ dialog.shows = "reading" /\ dialog.story = audio.of

(* A clip has the floor: music under it is music that is being faded away.    *)
ClipHasTheFloor ==
  clip.playing /\ audio.playing /\ clip.serial = memories.serial => memories.fade = "down"

(* Only what the family is looking at is heard.                               *)
SoundIsWanted == ClosedIsSilent /\ NarrationIsWanted /\ ClipHasTheFloor
=============================================================================
