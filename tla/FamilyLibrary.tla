---------------------------- MODULE FamilyLibrary ----------------------------
(* The family library on the portal (portal/js/family/library.js and          *)
(* uploads.js): photos and videos the Pi prepares in the background, the one  *)
(* library read that may be under way, its second try, the timer that reads   *)
(* again while something is being prepared, and the changes and uploads that  *)
(* go past it.  Stories, music and the settings of a channel travel the same  *)
(* requests and are left out.                                                 *)
EXTENDS Naturals, FiniteSets

CONSTANTS
  MediaItem,       \* photos and videos
  MaxGalleryTaps,  \* bound on the owner's taps
  MaxGalleryUpsets \* bound on failed requests and failed preparations

(* The identity the Pi gives to a photo or video is never empty.              *)
ASSUME MediaAssumption == "none" \notin MediaItem

VARIABLES
  mediaFiles,    \* the Pi: "none", "uploading", "processing", "ready" or "error"
  mediaShown,    \* familyLibrary, which the gallery draws
  mediaRead,     \* familyLibraryRequest: [step, data, try]
  timer,         \* familyRefreshTimer is armed
  gallery,       \* the gallery is the open view
  mediaSheet,    \* the item whose sheet is open
  mediaChange,   \* changes under way: [action, item, step, data]
  mediaUpload,   \* the upload under way: [item, step]
  galleryTaps, galleryUpsets,
  upset,         \* a request failed since the library was last read in peace
  crossed,       \* the last answer drawn was older than what the Pi had by then
  overlooked     \* an upload asked for the library when the read that answered
                 \* it had already been drawn

galleryVars == <<mediaFiles, mediaShown, mediaRead, timer, gallery, mediaSheet, mediaChange, mediaUpload,
                 galleryTaps, galleryUpsets, upset, crossed, overlooked>>

NoMedia == "none"
Empty == [i \in MediaItem |-> NoMedia]
NoRead == [step |-> "idle", data |-> Empty, try |-> 0]
NoUpload == [item |-> NoMedia, step |-> "idle"]
ghosts == <<upset, crossed, overlooked>>
galleryPage == <<gallery, mediaSheet>>
-----------------------------------------------------------------------------
(* loadFamilyLibrary: while a read is under way its result answers everybody  *)
(* who asks; it ends when what it drew is in the phone's cache.               *)
LibraryAsked == IF mediaRead.step = "idle" THEN [NoRead EXCEPT !.step = "asked", !.try = 1] ELSE mediaRead

(* Plausible bug: a received item needs no further look.                      *)
PreparingMutant(library) == \E i \in MediaItem : library[i] = "uploading"

(* While the Pi prepares an item the gallery asks again.                      *)
Preparing(library) == \E i \in MediaItem : library[i] \in {"uploading", "processing"}

(* The gallery shows what the page has.                                       *)
Draws(library) == mediaShown' = library

(* Changes and an upload that were waiting for the read.                      *)
Waiting == {c \in mediaChange : c.step = "reads"}
Settles ==
  /\ mediaChange' = mediaChange \ Waiting
  /\ mediaUpload' = IF mediaUpload.step = "reads" THEN NoUpload ELSE mediaUpload

PiReadsLibrary ==
  /\ mediaRead.step = "asked"
  /\ mediaRead' = [mediaRead EXCEPT !.step = "read", !.data = mediaFiles]
  /\ UNCHANGED <<mediaFiles, mediaShown, timer, galleryPage, mediaChange, mediaUpload,
                 galleryTaps, galleryUpsets, ghosts>>

Loaded ==
  /\ mediaRead.step = "read"
  /\ Draws(mediaRead.data)
  /\ mediaRead' = [NoRead EXCEPT !.step = "drawn"]
  /\ upset' = FALSE /\ overlooked' = FALSE
  /\ crossed' = (mediaRead.data # mediaFiles)
  /\ UNCHANGED <<mediaFiles, timer, galleryPage, mediaChange, mediaUpload, galleryTaps, galleryUpsets>>

(* The cache is written, or cannot be, which nobody notices (foundation.js).  *)
ReadEnds ==
  /\ mediaRead.step = "drawn"
  /\ timer' = Preparing(mediaShown)
  /\ mediaRead' = NoRead
  /\ Settles
  /\ UNCHANGED <<mediaFiles, mediaShown, galleryPage, galleryTaps, galleryUpsets, ghosts>>

(* A read that failed is tried once more; then everybody who waited fails,    *)
(* and no timer is armed.                                                     *)
ReadFails ==
  /\ mediaRead.step \in {"asked", "read"} /\ galleryUpsets < MaxGalleryUpsets
  /\ galleryUpsets' = galleryUpsets + 1
  /\ IF mediaRead.try = 1
     THEN /\ mediaRead' = [mediaRead EXCEPT !.step = "asked", !.try = 2]
          /\ UNCHANGED <<mediaChange, mediaUpload, upset>>
     ELSE /\ mediaRead' = NoRead /\ Settles /\ upset' = TRUE
  /\ UNCHANGED <<mediaFiles, mediaShown, timer, galleryPage, galleryTaps, crossed, overlooked>>

(* Three seconds later, if the gallery is still open.                         *)
TimerFires ==
  /\ timer /\ timer' = FALSE
  /\ mediaRead' = IF gallery THEN LibraryAsked ELSE mediaRead
  /\ UNCHANGED <<mediaFiles, mediaShown, galleryPage, mediaChange, mediaUpload, galleryTaps,
                 galleryUpsets, ghosts>>
-----------------------------------------------------------------------------
GalleryTap == galleryTaps < MaxGalleryTaps /\ galleryTaps' = galleryTaps + 1

(* Opening the gallery's page reads the library.                              *)
OpenGallery ==
  /\ ~gallery /\ GalleryTap
  /\ gallery' = TRUE /\ mediaRead' = LibraryAsked
  /\ UNCHANGED <<mediaFiles, mediaShown, timer, mediaSheet, mediaChange, mediaUpload,
                 galleryUpsets, ghosts>>

LeaveGallery ==
  /\ gallery /\ mediaSheet = NoMedia /\ GalleryTap
  /\ gallery' = FALSE
  /\ UNCHANGED <<mediaFiles, mediaShown, mediaRead, timer, mediaSheet, mediaChange,
                 mediaUpload, galleryUpsets, ghosts>>

OpenSheet(i) ==
  /\ gallery /\ mediaSheet = NoMedia /\ mediaShown[i] # NoMedia /\ GalleryTap
  /\ mediaSheet' = i
  /\ UNCHANGED <<mediaFiles, mediaShown, mediaRead, timer, gallery, mediaChange, mediaUpload,
                 galleryUpsets, ghosts>>

(* Retry is offered for a file that could not be prepared, and its button     *)
(* waits for the answer and the read after it; removal closes the sheet and   *)
(* asks for confirmation first.                                               *)
Sends(action, i) ==
  mediaChange' = mediaChange \cup {[action |-> action, item |-> i, step |-> "asked", data |-> Empty]}

RetryMedia ==
  /\ mediaSheet # NoMedia /\ mediaShown[mediaSheet] = "error" /\ GalleryTap
  /\ {c \in mediaChange : c.action = "retry"} = {}
  /\ Sends("retry", mediaSheet)
  /\ UNCHANGED <<mediaFiles, mediaShown, mediaRead, timer, galleryPage, mediaUpload,
                 galleryUpsets, ghosts>>

RemoveMedia ==
  /\ mediaSheet # NoMedia /\ {c \in mediaChange : c.action = "remove"} = {} /\ GalleryTap
  /\ Sends("remove", mediaSheet)
  /\ mediaSheet' = NoMedia
  /\ UNCHANGED <<mediaFiles, mediaShown, mediaRead, timer, gallery, mediaUpload, galleryUpsets,
                 ghosts>>

CloseSheet ==
  /\ mediaSheet # NoMedia /\ GalleryTap
  /\ mediaSheet' = NoMedia
  /\ UNCHANGED <<mediaFiles, mediaShown, mediaRead, timer, gallery, mediaChange, mediaUpload,
                 galleryUpsets, ghosts>>

PiChangesMedia(c) ==
  /\ c.step = "asked"
  /\ LET after == [mediaFiles EXCEPT ![c.item] = IF c.action = "remove" THEN NoMedia
                                           ELSE IF @ = "error" THEN "processing" ELSE @]
     IN /\ mediaFiles' = after
        /\ mediaChange' = (mediaChange \ {c}) \cup {[c EXCEPT !.step = "done", !.data = after]}
  /\ UNCHANGED <<mediaShown, mediaRead, timer, galleryPage, mediaUpload, galleryTaps,
                 galleryUpsets, ghosts>>

(* The answer holds the whole library; the page draws it and asks what else   *)
(* changed, and a retry closes the sheet and reads the library again.         *)
Changed(c) ==
  /\ c.step = "done"
  /\ Draws(c.data)
  /\ mediaChange' = (mediaChange \ {c}) \cup {[c EXCEPT !.step = "boots"]}
  /\ crossed' = (crossed \/ c.data # mediaFiles)
  /\ UNCHANGED <<mediaFiles, mediaRead, timer, galleryPage, mediaUpload, galleryTaps,
                 galleryUpsets, upset, overlooked>>

ChangeEnds(c) ==
  /\ c.step = "boots"
  /\ IF c.action = "retry"
     THEN /\ mediaChange' = (mediaChange \ {c}) \cup {[c EXCEPT !.step = "reads"]}
          /\ mediaSheet' = NoMedia /\ mediaRead' = LibraryAsked
     ELSE mediaChange' = mediaChange \ {c} /\ UNCHANGED <<mediaSheet, mediaRead>>
  /\ UNCHANGED <<mediaFiles, mediaShown, timer, gallery, mediaUpload, galleryTaps,
                 galleryUpsets, ghosts>>

ChangeFails(c) ==
  /\ c.step # "reads" /\ galleryUpsets < MaxGalleryUpsets
  /\ mediaChange' = mediaChange \ {c}
  /\ galleryUpsets' = galleryUpsets + 1 /\ upset' = TRUE
  /\ UNCHANGED <<mediaFiles, mediaShown, mediaRead, timer, galleryPage, mediaUpload,
                 galleryTaps, crossed, overlooked>>
-----------------------------------------------------------------------------
(* An upload: one at a time, created on the Pi, received, and shown by a read *)
(* of the library.  A file that is chosen again goes on where it stopped.     *)
FreshMedia(i) == \/ mediaFiles[i] = "uploading"
            \/ /\ mediaFiles[i] = NoMedia /\ mediaShown[i] = NoMedia /\ mediaRead.data[i] = NoMedia
               /\ {c \in mediaChange : c.item = i} = {}

Upload(i) ==
  /\ gallery /\ mediaSheet = NoMedia /\ mediaUpload.step = "idle" /\ FreshMedia(i) /\ GalleryTap
  /\ mediaFiles' = [mediaFiles EXCEPT ![i] = "uploading"]
  /\ mediaUpload' = [item |-> i, step |-> "sends"]
  /\ UNCHANGED <<mediaShown, mediaRead, timer, galleryPage, mediaChange, galleryUpsets, ghosts>>

UploadReceived ==
  /\ mediaUpload.step = "sends"
  /\ mediaFiles' = IF mediaFiles[mediaUpload.item] = "uploading"
              THEN [mediaFiles EXCEPT ![mediaUpload.item] = "processing"] ELSE mediaFiles
  /\ mediaUpload' = [mediaUpload EXCEPT !.step = "reads"]
  /\ mediaRead' = LibraryAsked
  /\ overlooked' = (overlooked \/ mediaRead.step = "drawn")
  /\ UNCHANGED <<mediaShown, timer, galleryPage, mediaChange, galleryTaps, galleryUpsets, upset, crossed>>

UploadFails ==
  /\ mediaUpload.step = "sends" /\ galleryUpsets < MaxGalleryUpsets
  /\ mediaUpload' = NoUpload
  /\ galleryUpsets' = galleryUpsets + 1 /\ upset' = TRUE
  /\ UNCHANGED <<mediaFiles, mediaShown, mediaRead, timer, galleryPage, mediaChange,
                 galleryTaps, crossed, overlooked>>

(* Preparation on the Pi, in the background.                                  *)
MediaPrepared(i) ==
  /\ mediaFiles[i] = "processing"
  /\ mediaFiles' = [mediaFiles EXCEPT ![i] = "ready"]
  /\ UNCHANGED <<mediaShown, mediaRead, timer, galleryPage, mediaChange, mediaUpload,
                 galleryTaps, galleryUpsets, ghosts>>

MediaNotPrepared(i) ==
  /\ mediaFiles[i] = "processing" /\ galleryUpsets < MaxGalleryUpsets
  /\ mediaFiles' = [mediaFiles EXCEPT ![i] = "error"]
  /\ galleryUpsets' = galleryUpsets + 1
  /\ UNCHANGED <<mediaShown, mediaRead, timer, galleryPage, mediaChange, mediaUpload,
                 galleryTaps, ghosts>>
-----------------------------------------------------------------------------
GalleryInit ==
  /\ mediaFiles \in {f \in [MediaItem -> {NoMedia, "error", "ready"}] : \E i \in MediaItem : f[i] # "ready"}
  /\ mediaShown = mediaFiles
  /\ mediaRead = NoRead /\ timer = FALSE
  /\ gallery = FALSE /\ mediaSheet = NoMedia
  /\ mediaChange = {} /\ mediaUpload = NoUpload
  /\ galleryTaps = 0 /\ galleryUpsets = 0
  /\ upset = FALSE /\ crossed = FALSE /\ overlooked = FALSE

GalleryNext ==
  \/ PiReadsLibrary \/ Loaded \/ ReadEnds \/ ReadFails \/ TimerFires
  \/ OpenGallery \/ LeaveGallery \/ RetryMedia \/ RemoveMedia \/ CloseSheet
  \/ \E i \in MediaItem : OpenSheet(i)
  \/ \E c \in mediaChange : PiChangesMedia(c)
  \/ \E c \in mediaChange : Changed(c)
  \/ \E c \in mediaChange : ChangeEnds(c)
  \/ \E c \in mediaChange : ChangeFails(c)
  \/ \E i \in MediaItem : Upload(i)
  \/ UploadReceived \/ UploadFails
  \/ \E i \in MediaItem : MediaPrepared(i)
  \/ \E i \in MediaItem : MediaNotPrepared(i)

GallerySpec == GalleryInit /\ [][GalleryNext]_galleryVars
-----------------------------------------------------------------------------
(* An open gallery that asks no more shows what the Pi has, unless a request  *)
(* failed, the last answer drawn was older than another one, or an upload     *)
(* went past a read between its drawing and its end (library.js:24-41).       *)
QuietGalleryIsCurrent ==
  gallery /\ mediaRead.step = "idle" /\ ~timer /\ mediaChange = {} /\ mediaUpload.step = "idle"
  => mediaShown = mediaFiles \/ upset \/ crossed \/ overlooked

(* What was shown as ready does not become unready again, but by such an      *)
(* answer or after one.                                                       *)
NothingGoesBack ==
  \A i \in MediaItem :
    mediaShown[i] = "ready" /\ mediaShown'[i] \in {"uploading", "processing"} => crossed \/ crossed'

(* The gallery comes to rest on the truth: it asks until all is prepared, and *)
(* no answer that was overtaken undoes what it showed.                        *)
GalleryIsCurrent == [][QuietGalleryIsCurrent' /\ NothingGoesBack]_galleryVars
=============================================================================
