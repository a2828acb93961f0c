---------------------------- MODULE MCMultiSpan ----------------------------
(* Multi-span alignment of a few segments.  Far is two positions, so that   *)
(* the positions below are near, just far and far from one another, also    *)
(* when only their surahs tell them apart.                                  *)
EXTENDS MultiSpan

At(p, s, c) == [pos |-> p, surah |-> s, conf |-> c]

MCAligned ==
  {At(1, 1, "low"), At(1, 1, "good"), At(2, 3, "good"),
   At(3, 1, "very"), At(6, 3, "good")}
=============================================================================
