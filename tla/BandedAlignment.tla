--------------------------- MODULE BandedAlignment ---------------------------
(***************************************************************************)
(* weighted_banded_dp of alignment_v2.rs: the cheapest alignment of the    *)
(* words of a transcript (obs) with a stretch of the Quran (ref), one word *)
(* a row, of which only the cells near the expected offset are filled, and *)
(* the traceback.  The stretch may start and end anywhere in ref.          *)
(*                                                                         *)
(* Words are numbers, and 0 is a word that the Quran does not have.  Costs *)
(* are natural numbers; Inf is the code's 1e18, which swallows every cost  *)
(* added to it, as it does in an f64.                                      *)
(* A definition whose name ends in _bug is a faulty variant of the one     *)
(* that follows it: the code does not do this.                             *)
(***************************************************************************)
EXTENDS Integers, Sequences, FiniteSetsExt

CONSTANTS Transcripts,   \* the possible obs_ids
          References,    \* the possible ref_ids, with the ayah of each word
          Offsets, Bands,
          SubCost,       \* of hearing the word o for the word r
          ObsIns,        \* global_obs_ins_cost
          RefDel,        \* global_ref_del_cost
          Inf

\* guess_ayah_alignment_v2_from_transcription calls with neither of them empty.
ASSUME AlignmentAssumption ==
  /\ Transcripts \subseteq Seq(Nat) /\ <<>> \notin Transcripts
  /\ \A r \in References : r.ids \in Seq(Nat) /\ r.ids # <<>>
  /\ Offsets \subseteq Int /\ Bands \subseteq Nat
  /\ ObsIns \in Nat /\ RefDel \in Nat /\ Inf \in Nat

\* The costs are numbers, and none is negative.
ASSUME CostAssumption ==
  \A t \in Transcripts, r \in References :
    \A x \in 1..Len(t), y \in 1..Len(r.ids) : SubCost[t[x], r.ids[y]] \in Nat

VARIABLES
  obs, refr,      \* the transcript and the reference
  offset, band,   \* offset_local and band
  prev, curr,     \* the row before and the one being filled: cost and matches
  ptr,            \* the choice made in each cell of the band
  i, j,           \* the row and the column
  jEnd, cost,     \* j_end and best_cost
  map,            \* transcript_to_ref, counted from 1, and 0 for None
  count,          \* substitutions, deletions, insertions and matches
  pc              \* "row", "cells", "trace" or "aligned"

input == <<obs, refr, offset, band>>
table == <<prev, curr, ptr>>
result == <<jEnd, cost, map, count>>
alignVars == <<input, table, i, j, result, pc>>

ref == refr.ids
m == Len(obs)
n == Len(ref)

Cell(c, k) == [cost |-> c, match |-> k]

Dead == Cell(Inf, 0)

NoCount == [sub |-> 0, del |-> 0, ins |-> 0, match |-> 0]

AlignInit ==
  /\ obs \in Transcripts /\ refr \in References /\ offset \in Offsets /\ band \in Bands
  /\ prev = [k \in 0..n |-> Cell(0, 0)]
  /\ curr = [k \in 0..n |-> Dead]
  /\ ptr = [r \in 1..m |-> [k \in 1..n |-> "outside"]]
  /\ i = 1 /\ j = 0
  /\ jEnd = 0 /\ cost = Inf
  /\ map = [r \in 1..m |-> 0] /\ count = NoCount
  /\ pc = "row"

-----------------------------------------------------------------------------
(* Filling the rows                                                         *)

Larger(a, b) == IF a >= b THEN a ELSE b

Smaller(a, b) == IF a <= b THEN a ELSE b

\* The band of a row: past the end of ref it stays on the last column.
FirstOf(r) == Smaller(Larger(r + offset - band, 1), n)

LastOf(r) == Smaller(r + offset + band, n)

Plus(c, d) == IF c >= Inf THEN Inf ELSE c + d

Matches(r, k) == obs[r] = ref[k] /\ obs[r] # 0

Sub(r, k) == IF Matches(r, k) THEN 0 ELSE SubCost[obs[r], ref[k]]

\* A band that ends before ref starts makes the whole row dead, its column 0 too.
DeadRow ==
  /\ pc = "row" /\ i <= m
  /\ FirstOf(i) > LastOf(i)
  /\ prev' = [k \in 0..n |-> Dead]
  /\ i' = i + 1
  /\ UNCHANGED <<input, curr, ptr, j, result, pc>>

StartRow_bug ==
  /\ pc = "row" /\ i <= m
  /\ FirstOf(i) <= LastOf(i)
  /\ curr' = [curr EXCEPT ![0] = Cell(Plus(prev[0].cost, ObsIns), prev[0].match)]
  /\ j' = FirstOf(i)
  /\ pc' = "cells"
  /\ UNCHANGED <<input, prev, ptr, i, result>>

StartRow ==
  /\ pc = "row" /\ i <= m
  /\ FirstOf(i) <= LastOf(i)
  /\ curr' = [k \in 0..n |->
                IF k = 0 THEN Cell(Plus(prev[0].cost, ObsIns), prev[0].match) ELSE Dead]
  /\ j' = FirstOf(i)
  /\ pc' = "cells"
  /\ UNCHANGED <<input, prev, ptr, i, result>>

SubCell ==
  Cell(Plus(prev[j - 1].cost, Sub(i, j)),
       prev[j - 1].match + (IF Matches(i, j) THEN 1 ELSE 0))

DelCell == Cell(Plus(prev[j].cost, ObsIns), prev[j].match)

InsCell == Cell(Plus(curr[j - 1].cost, RefDel), curr[j - 1].match)

\* take: at the same cost more matches win, and then the first.
Beats(a, b) ==
  \/ a.cost < b.cost
  \/ a.cost = b.cost /\ a.match > b.match

BestCell ==
  LET first == IF Beats(DelCell, SubCell) THEN DelCell ELSE SubCell
  IN  IF Beats(InsCell, first) THEN InsCell ELSE first

BestMove ==
  LET first == IF Beats(DelCell, SubCell) THEN DelCell ELSE SubCell
  IN  IF Beats(InsCell, first) THEN "ins"
      ELSE IF Beats(DelCell, SubCell) THEN "del" ELSE "sub"

FillCell ==
  /\ pc = "cells"
  /\ curr' = [curr EXCEPT ![j] = BestCell]
  /\ ptr' = [ptr EXCEPT ![i][j] = BestMove]
  /\ IF j < LastOf(i)
     THEN j' = j + 1 /\ UNCHANGED <<prev, i, pc>>
     ELSE prev' = curr' /\ i' = i + 1 /\ pc' = "row" /\ UNCHANGED j
  /\ UNCHANGED <<input, result>>

-----------------------------------------------------------------------------
(* The traceback                                                            *)

\* The cheapest end, of these one with the most matches, of these the first.
IsEnd(k) ==
  /\ \A l \in 0..n : ~Beats(prev[l], prev[k])
  /\ \A l \in 0..k - 1 : Beats(prev[k], prev[l])

ChooseEnd ==
  /\ pc = "row" /\ i > m
  /\ \E k \in 0..n : IsEnd(k) /\ jEnd' = k /\ cost' = prev[k].cost /\ j' = k
  /\ i' = m
  /\ pc' = "trace"
  /\ UNCHANGED <<input, table, map, count>>

Tracing == pc = "trace" /\ i > 0 /\ UNCHANGED <<input, table, jEnd, cost, pc>>

\* Only a reference word that is skipped leaves the row.
TraceSub ==
  /\ Tracing /\ j > 0 /\ ptr[i][j] = "sub"
  /\ map' = [map EXCEPT ![i] = j]
  /\ count' = [count EXCEPT !.sub = @ + 1, !.match = @ + (IF Matches(i, j) THEN 1 ELSE 0)]
  /\ i' = i - 1 /\ j' = j - 1


\* In column 0 and outside of the band there is nothing left to align with.
TraceDel ==
  /\ Tracing /\ (j > 0 => ptr[i][j] \in {"del", "outside"})
  /\ count' = [count EXCEPT !.del = @ + 1]
  /\ i' = i - 1
  /\ UNCHANGED <<j, map>>

TraceIns_bug ==
  /\ Tracing /\ j > 0 /\ ptr[i][j] = "ins"
  /\ count' = [count EXCEPT !.ins = @ + 1]
  /\ i' = i - 1
  /\ UNCHANGED <<j, map>>

TraceIns ==
  /\ Tracing /\ j > 0 /\ ptr[i][j] = "ins"
  /\ count' = [count EXCEPT !.ins = @ + 1]
  /\ j' = j - 1
  /\ UNCHANGED <<i, map>>

\* The stretch is ref[j + 1..jEnd].
EndTrace ==
  /\ pc = "trace" /\ i = 0
  /\ pc' = "aligned"
  /\ UNCHANGED <<input, table, i, j, result>>

\* Of the result only the mapping is read again; the locals are gone.
Return ==
  /\ pc = "aligned"
  /\ offset' = 0 /\ band' = 0 /\ prev' = <<>> /\ curr' = <<>> /\ ptr' = <<>>
  /\ i' = 0 /\ j' = 0 /\ jEnd' = 0 /\ cost' = 0 /\ count' = NoCount
  /\ pc' = "returned"
  /\ UNCHANGED <<obs, refr, map>>

AlignNext ==
  \/ DeadRow \/ StartRow \/ FillCell \/ ChooseEnd
  \/ TraceSub \/ TraceDel \/ TraceIns \/ EndTrace \/ Return

AlignSpec == AlignInit /\ [][AlignNext]_alignVars

-----------------------------------------------------------------------------
(* Properties                                                               *)

Moves == {"sub", "del", "ins", "outside"}

\* Every variable is in its range.
AlignTypeOK ==
  /\ obs \in Transcripts /\ refr \in References /\ offset \in Offsets \union {0} /\ band \in Nat
  /\ pc # "returned" => ptr \in [1..m -> [1..n -> Moves]]
  /\ i \in 0..m + 1 /\ j \in 0..n /\ jEnd \in 0..n
  /\ map \in [1..m -> 0..n]
  /\ count \in [sub : Nat, del : Nat, ins : Nat, match : Nat]
  /\ pc \in {"row", "cells", "trace", "aligned", "returned"}

\* Whatever the table says, the traceback gives a path: later words map to later
\* words, every word is mapped or deleted, and every word of the stretch is
\* mapped to or skipped.
TraceIsPath ==
  /\ \A a, b \in 1..m : a < b /\ map[a] # 0 /\ map[b] # 0 => map[a] < map[b]
  /\ pc = "aligned" =>
       /\ count.sub + count.del = m
       /\ count.sub + count.ins = jEnd - j
       /\ \A a \in 1..m : map[a] # 0 => map[a] \in j + 1..jEnd

(* A path through the table: the column in which it leaves each row (row 0 is *)
(* where it starts), and the rows it enters with a substitution.              *)

Enter(leave, subs, r) == leave[r - 1] + (IF r \in subs THEN 1 ELSE 0)

RowInBand(leave, subs, r) ==
  /\ FirstOf(r) <= LastOf(r)
  /\ Enter(leave, subs, r) <= leave[r]
  /\ Enter(leave, subs, r)..leave[r] \subseteq {0} \union FirstOf(r)..LastOf(r)

InBand(leave, subs) == \A r \in 1..m : RowInBand(leave, subs, r)

EntryCost(leave, subs, r) ==
  IF r \in subs THEN Sub(r, Enter(leave, subs, r)) ELSE ObsIns

RowCost(leave, subs, r) ==
  EntryCost(leave, subs, r) + (leave[r] - Enter(leave, subs, r)) * RefDel

RowMatch(leave, subs, r) ==
  IF r \in subs /\ Matches(r, Enter(leave, subs, r)) THEN 1 ELSE 0

\* For every row, the sum of what f gives the rows up to it.
Sums(f, rows) ==
  LET s[r \in 0..rows] == IF r = 0 THEN 0 ELSE s[r - 1] + f[r]
  IN  s

PathCosts(leave, subs) == Sums([r \in 1..m |-> RowCost(leave, subs, r)], m)

PathMatches(leave, subs) == Sums([r \in 1..m |-> RowMatch(leave, subs, r)], m)

WordCost(r) == IF map[r] = 0 THEN ObsIns ELSE Sub(r, map[r])

CostOfMap == Sums([r \in 1..m |-> WordCost(r)], m)[m] + count.ins * RefDel

\* No path in the band is cheaper than the alignment, or as cheap with more
\* matches, and the cost is that of the mapping.  With no path the cost is Inf.
AlignmentIsCheapest ==
  pc = "aligned" =>
    /\ \A leave \in [0..m -> 0..n], subs \in SUBSET (1..m) :
         InBand(leave, subs) =>
           /\ cost <= PathCosts(leave, subs)[m]
           /\ cost < Inf /\ cost = PathCosts(leave, subs)[m] =>
                PathMatches(leave, subs)[m] <= count.match
    /\ cost < Inf => cost = CostOfMap
=============================================================================
