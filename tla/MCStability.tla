----------------------------- MODULE MCStability -----------------------------
(* Stability with a handful of ayahs and one piece of evidence of each class *)
(* the thresholds tell apart, most of them right at a threshold.             *)
EXTENDS Stability

Ev(c, s, r) == [conf |-> c, subs |-> s, ratio |-> r]

EvidenceClasses ==
  {Ev(9, 12, 80),    \* below every confidence threshold
   Ev(10, 0, 0),     \* first lock
   Ev(22, 0, 0),     \* not low, no switch
   Ev(25, 5, 39),    \* switch
   Ev(32, 6, 40),    \* ok
   Ev(45, 6, 54),    \* ok, the ratio too small for a jump
   Ev(45, 6, 55),    \* jump
   Ev(65, 9, 55),    \* jump, too few words for strong
   Ev(65, 10, 55)}   \* strong
=============================================================================
