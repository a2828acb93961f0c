-------------------------- MODULE MCTranscriberPool --------------------------
(* TranscriberPool on a small instance.                                      *)
EXTENDS TranscriberPool

CONSTANTS a, b, c, d

FourCallers == {a, b, c, d}
=============================================================================
