--------------------------- MODULE MCAyahAlignment ---------------------------
(* Transcripts and references of up to four words.                            *)
EXTENDS AyahAlignment

\* The longer ones have two words between those of two ayahs.
MCTranscripts ==
  [1..2 -> 0..2] \union [1..3 -> 0..2] \union {<<1, 4, 2, 3>>, <<1, 0, 2, 3>>}

MCReferences ==
  {[ids |-> <<1, 2, 1>>, ayah |-> <<1, 1, 2>>],
   [ids |-> <<2, 1, 1, 2>>, ayah |-> <<1, 2, 2, 3>>],
   [ids |-> <<1, 2, 3, 2>>, ayah |-> <<1, 1, 2, 3>>],
   [ids |-> <<2, 1, 3, 4>>, ayah |-> <<1, 1, 2, 2>>]}

\* 1 and 2 are taken for one another.
MCSubCost ==
  [p \in (0..4) \X (0..4) |-> IF p \in {<<1, 2>>, <<2, 1>>} THEN 1 ELSE 2]

MCOffsets == -3..2

MCHeard ==
  {[timed |-> FALSE, start |-> 0, end |-> 0, est |-> FALSE],
   [timed |-> TRUE, start |-> 0, end |-> 1, est |-> FALSE],
   [timed |-> TRUE, start |-> 1, end |-> 0, est |-> FALSE],
   [timed |-> TRUE, start |-> 0, end |-> 4, est |-> FALSE],
   [timed |-> TRUE, start |-> 4, end |-> 5, est |-> FALSE],
   [timed |-> TRUE, start |-> 1, end |-> 2, est |-> TRUE],
   [timed |-> TRUE, start |-> 5, end |-> 6, est |-> TRUE]}
=============================================================================
