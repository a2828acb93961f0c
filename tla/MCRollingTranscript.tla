------------------------- MODULE MCRollingTranscript -------------------------
(* A recitation of words of one to five ticks, with and without pauses, so    *)
(* that slices begin and end before, in and after a word.                     *)
EXTENDS RollingTranscript

Word(n, f, t) == [said |-> n, from |-> f, to |-> t]

\* The longest go on through what two failed attempts leave out.
MCWords ==
  {Word(1, 0, 2), Word(2, 2, 7), Word(3, 7, 8), Word(4, 9, 11), Word(5, 11, 16),
   Word(6, 16, 19), Word(7, 20, 21), Word(8, 23, 28), Word(9, 28, 30),
   Word(10, 31, 36), Word(11, 36, 37), Word(12, 37, 41)}
=============================================================================
