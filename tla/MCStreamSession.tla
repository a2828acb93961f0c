--------------------------- MODULE MCStreamSession ---------------------------
(* StreamSession on small instances.                                         *)
EXTENDS StreamSession, TLC

CONSTANTS c1, c2

OneClient  == {c1}
TwoClients == {c1, c2}
Symmetry   == Permutations(Clients)

AllFaults == {"transcribe", "align"}
NoFaults  == {}

ConnectLimits == {"connect", "noaudio"}
LaterLimits   == {"silence", "noaudio", "auth"}
=============================================================================
