------------------------ MODULE MCMabelQueueStore ------------------------
(* What the Pi keeps, and the pages that change it: the transactions of the   *)
(* queue database, the page of Up Next, a saved playlist under its arrows and *)
(* the uploads with the worker that prepares them.  No table or file is       *)
(* shared, so a behaviour is one of them at work, chosen at its start.        *)
EXTENDS MabelQueueStore, UpNextPage, PortalUploads, PlaylistPage

CONSTANTS p1, p2    \* two channels of one programme

MCProgramme == {p1, p2}
MCPlaylists == {<<p1, p2>>, <<p2>>}

VARIABLE atWork

(* Who is not at work starts in one state.                                    *)
PiInit ==
  /\ atWork \in {"store", "page", "playlist", "uploads"}
  /\ StoreInit /\ (atWork # "store" => Ids(db) = {})
  /\ PlaylistInit /\ UploadsInit
  /\ UpNextInit /\ (atWork # "page" => used = {} /\ view = "home")

PiNext ==
  /\ UNCHANGED atWork
  /\ \/ atWork = "store" /\ StoreNext /\ UNCHANGED <<pageVars, playlistVars, uploadVars>>
     \/ atWork = "page" /\ UpNextNext /\ UNCHANGED <<db, playlistVars, uploadVars>>
     \/ atWork = "playlist" /\ PlaylistNext /\ UNCHANGED <<db, pageVars, uploadVars>>
     \/ atWork = "uploads" /\ UploadsNext /\ UNCHANGED <<db, pageVars, playlistVars>>

PiSpec == PiInit /\ [][PiNext]_<<atWork, db, pageVars, playlistVars, uploadVars>>
=============================================================================
