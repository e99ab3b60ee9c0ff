---------------------- MODULE MCMabelQueuePlayback ----------------------
(* Small instances of the queue's players: two programmes, two stream tokens
   and one saved playlist. *)
EXTENDS MabelQueuePlayback

CONSTANTS p1, p2, d1, d2

MCProgramme == {p1, p2}
MCPlaylists == {<<p2, p1>>}
MCDevice == {d1, d2}

(* Two browsers; one browser that may vanish, with commands that outlive their
   request; one browser with every fault. *)
MCSettings ==
  {[browsers |-> MCDevice, faults |-> {}],
   [browsers |-> {d1}, faults |-> {"lost", "timeout"}],
   [browsers |-> {d1}, faults |-> {"lost", "timeout", "retune", "crash"}]}
=========================================================================
