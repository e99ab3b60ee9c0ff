--------------------------- MODULE MCMyTvProgress ---------------------------
(* What a phone and the Pi say to each other while a film is watched: the     *)
(* checkpoints of where it was left, and the streams it is watched by.  The   *)
(* two meet in no state of the Pi, so a behaviour is one of them at work,     *)
(* chosen at its start.                                                       *)
EXTENDS MyTvProgress, RemotePlayer, TLC

CONSTANTS phone, tablet, e1, e2

MCEpisode == <<e1, e2>>
Devices == Permutations({phone, tablet})

VARIABLE atWork

PhoneInit == atWork \in {"checkpoints", "player"} /\ Init /\ PlayerInit

PhoneNext ==
  /\ UNCHANGED atWork
  /\ \/ atWork = "checkpoints" /\ Next /\ UNCHANGED playerVars
     \/ atWork = "player" /\ PlayerNext /\ UNCHANGED vars

PhoneSpec == PhoneInit /\ [][PhoneNext]_<<atWork, vars, playerVars>>
=============================================================================
