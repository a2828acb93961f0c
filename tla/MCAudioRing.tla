------------------------------ MODULE MCAudioRing ------------------------------
(***************************************************************************)
(* Instances of AudioRing for TLC.  Bytes are scaled down: a ring of eight *)
(* stands for the thirty seconds and more of the code.  The hop is odd, as *)
(* one that clients ask for may be, so that it ends inside of a sample.    *)
(***************************************************************************)
EXTENDS AudioRing

\* One sample, several, exactly the ring, more than the ring.
MCFrames == {2, 4, 6, 8, 10}
=============================================================================
