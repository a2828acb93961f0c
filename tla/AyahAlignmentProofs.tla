------------------------- MODULE AyahAlignmentProofs -------------------------
(***************************************************************************)
(* The traceback of the aligner gives a path, for every transcript,        *)
(* reference, offset, band and cost.  Nothing is assumed of what the table *)
(* holds: of the filling of the rows only the places it writes to matter.  *)
(* From the path, the times of the words and the two loops over the ayahs  *)
(* follows that the ayahs come in order and have the times of their words. *)
(* And the path is the cheapest: no path in the band gets to a cell for    *)
(* less than the cell says, and the moves account for what a cell says.    *)
(***************************************************************************)
EXTENDS AyahAlignment, WellFoundedInduction, TLAPS

\* Where the loops are.
Loops ==
  /\ pc = "row" => i \in 1..m + 1
  /\ pc = "cells" => i \in 1..m /\ j \in 1..n
  /\ pc = "aligned" => i = 0

\* Nothing is mapped before the traceback.
Unmapped ==
  pc \in {"row", "cells"} => map = [r \in 1..m |-> 0] /\ count = NoCount

\* The counts c of a traceback that came from row r and column e to <<x, y>>.
Balanced(c, x, y, e, r) ==
  /\ c \in [sub : Nat, del : Nat, ins : Nat, match : Nat]
  /\ x \in Nat /\ y \in Nat /\ e \in Nat /\ r \in Nat
  /\ y <= e /\ c.sub + c.del = r - x /\ c.sub + c.ins = e - y

\* What the traceback has mapped and counted lies behind it.
Traced ==
  pc \in {"trace", "aligned"} =>
    /\ Balanced(count, i, j, jEnd, m)
    /\ \A a \in 1..m : map[a] # 0 => a > i /\ map[a] > j /\ map[a] <= jEnd

Increasing ==
  \A a, b \in 1..m : a < b /\ map[a] # 0 /\ map[b] # 0 => map[a] < map[b]

IInv == AlignTypeOK /\ Loops /\ Unmapped /\ Traced /\ Increasing

\* The transcript and the reference have words.
LEMMA Lengths ==
  ASSUME obs \in Transcripts, refr \in References
  PROVE  m \in Nat /\ m > 0 /\ n \in Nat /\ n > 0
<1>1. obs \in Seq(Nat) /\ obs # <<>> /\ ref \in Seq(Nat) /\ ref # <<>>
  BY AlignmentAssumption DEF ref
<1>2. QED BY <1>1 DEF m, n

\* The band of a row lies in the columns of ref.
LEMMA BandInRow ==
  ASSUME n \in Nat, n > 0, NEW r \in Nat, offset \in Int, band \in Nat
  PROVE  FirstOf(r) \in 1..n /\ LastOf(r) \in Int /\ LastOf(r) <= n
BY DEF FirstOf, LastOf, Larger, Smaller

LEMMA InitHolds == AlignInit => IInv
<1> SUFFICES ASSUME AlignInit PROVE IInv
  OBVIOUS
<1>1. m \in Nat /\ m > 0 /\ n \in Nat /\ n > 0
  BY Lengths DEF AlignInit
<1>2. AlignTypeOK
  BY <1>1, AlignmentAssumption DEF AlignInit, AlignTypeOK, NoCount, Moves
<1>3. Loops /\ Unmapped /\ Traced
  BY <1>1 DEF AlignInit, Loops, Unmapped, Traced
<1>4. Increasing
  BY DEF AlignInit, Increasing
<1>5. QED BY <1>2, <1>3, <1>4 DEF IInv

\* The moves of the traceback.
Moved(c, x, y, c1, x1, y1) ==
  \/ /\ x > 0 /\ y > 0 /\ x1 = x - 1 /\ y1 = y - 1
     /\ \E f \in {0, 1} : c1 = [c EXCEPT !.sub = @ + 1, !.match = @ + f]
  \/ x > 0 /\ x1 = x - 1 /\ y1 = y /\ c1 = [c EXCEPT !.del = @ + 1]
  \/ y > 0 /\ x1 = x /\ y1 = y - 1 /\ c1 = [c EXCEPT !.ins = @ + 1]

\* Each of them counts what it leaves behind.
LEMMA CountStep ==
  ASSUME NEW c, NEW x, NEW y, NEW e, NEW r, Balanced(c, x, y, e, r),
         NEW c1, NEW x1, NEW y1, Moved(c, x, y, c1, x1, y1)
  PROVE  Balanced(c1, x1, y1, e, r)
<1>1. PICK s \in Nat, d \in Nat, k \in Nat, t \in Nat :
        c = [sub |-> s, del |-> d, ins |-> k, match |-> t]
  BY DEF Balanced
<1>2. /\ x \in Nat /\ y \in Nat /\ e \in Nat /\ r \in Nat
      /\ s + d = r - x /\ s + k = e - y /\ y <= e
  BY <1>1 DEF Balanced
<1>3. ASSUME x > 0, y > 0, x1 = x - 1, y1 = y - 1, NEW f \in {0, 1},
             c1 = [c EXCEPT !.sub = @ + 1, !.match = @ + f]
      PROVE  Balanced(c1, x1, y1, e, r)
  <2>1. c1 = [sub |-> s + 1, del |-> d, ins |-> k, match |-> t + f]
    BY <1>1, <1>3
  <2>2. x1 \in Nat /\ y1 \in Nat /\ y1 <= e
        /\ (s + 1) + d = r - x1 /\ (s + 1) + k = e - y1
    BY <1>2, <1>3
  <2>3. QED BY <2>1, <2>2, <1>2 DEF Balanced
<1>4. ASSUME x > 0, x1 = x - 1, y1 = y, c1 = [c EXCEPT !.del = @ + 1]
      PROVE  Balanced(c1, x1, y1, e, r)
  <2>1. c1 = [sub |-> s, del |-> d + 1, ins |-> k, match |-> t]
    BY <1>1, <1>4
  <2>2. x1 \in Nat /\ y1 \in Nat /\ y1 <= e
        /\ s + (d + 1) = r - x1 /\ s + k = e - y1
    BY <1>2, <1>4
  <2>3. QED BY <2>1, <2>2, <1>2 DEF Balanced
<1>5. ASSUME y > 0, x1 = x, y1 = y - 1, c1 = [c EXCEPT !.ins = @ + 1]
      PROVE  Balanced(c1, x1, y1, e, r)
  <2>1. c1 = [sub |-> s, del |-> d, ins |-> k + 1, match |-> t]
    BY <1>1, <1>5
  <2>2. x1 \in Nat /\ y1 \in Nat /\ y1 <= e
        /\ s + d = r - x1 /\ s + (k + 1) = e - y1
    BY <1>2, <1>5
  <2>3. QED BY <2>1, <2>2, <1>2 DEF Balanced
<1>6. QED BY <1>3, <1>4, <1>5 DEF Moved

\* The rows fill the table and touch nothing else.
LEMMA FillKeeps ==
  ASSUME IInv, DeadRow \/ StartRow \/ FillCell
  PROVE  IInv'
<1>1. m \in Nat /\ m > 0 /\ n \in Nat /\ n > 0
  BY Lengths DEF IInv, AlignTypeOK
<1>2. offset \in Int /\ band \in Nat /\ i \in Nat
  BY <1>1, AlignmentAssumption DEF IInv, AlignTypeOK
<1>3. UNCHANGED <<obs, refr, offset, band, jEnd, cost, map, count>>
      /\ m' = m /\ n' = n
  BY DEF DeadRow, StartRow, FillCell, input, result, m, n, ref
<1>4. pc \in {"row", "cells"} /\ pc' \in {"row", "cells"}
  BY DEF DeadRow, StartRow, FillCell, IInv, AlignTypeOK
<1>5. FirstOf(i) \in 1..n /\ LastOf(i) \in Int /\ LastOf(i) <= n
  BY <1>1, <1>2, BandInRow
<1>6. ptr' \in [1..m -> [1..n -> Moves]]
  <2>1. ptr \in [1..m -> [1..n -> Moves]]
    BY <1>4 DEF IInv, AlignTypeOK
  <2>2. CASE DeadRow \/ StartRow
    BY <2>1, <2>2 DEF DeadRow, StartRow
  <2>3. CASE FillCell
    <3>1. PICK c \in Moves : ptr' = [ptr EXCEPT ![i][j] = c]
      BY <2>3 DEF FillCell, BestMove, Moves
    <3>2. QED BY <3>1, <2>1
  <2>4. QED BY <2>2, <2>3
<1>7. i' \in 0..m + 1 /\ j' \in 0..n /\ Loops'
  <2>1. /\ pc = "row" => i \in 1..m + 1
        /\ pc = "cells" => i \in 1..m /\ j \in 1..n
        /\ i \in 0..m + 1 /\ j \in 0..n
    BY DEF IInv, AlignTypeOK, Loops
  <2>2. \/ pc = "row" /\ i <= m /\ i' = i + 1 /\ j' = j /\ pc' = pc
        \/ pc = "row" /\ i <= m /\ i' = i /\ j' = FirstOf(i) /\ pc' = "cells"
        \/ pc = "cells" /\ j < LastOf(i) /\ i' = i /\ j' = j + 1 /\ pc' = pc
        \/ pc = "cells" /\ i' = i + 1 /\ j' = j /\ pc' = "row"
    BY DEF DeadRow, StartRow, FillCell
  <2>3. (i' \in 0..m + 1 /\ j' \in 0..n) /\ (pc' = "row" => i' \in 1..m + 1)
        /\ (pc' = "cells" => i' \in 1..m /\ j' \in 1..n)
    <3> DEFINE first == FirstOf(i) last == LastOf(i)
    <3>1. first \in 1..n /\ last \in Int /\ last <= n
      BY <1>5
    <3> HIDE DEF first, last
    <3>2. QED BY <3>1, <2>1, <2>2, <1>1 DEF first, last
  <2>4. QED BY <2>3, <1>3, <1>4 DEF Loops
<1>8. AlignTypeOK'
  BY <1>3, <1>4, <1>6, <1>7 DEF IInv, AlignTypeOK
<1>9. Unmapped' /\ Traced' /\ Increasing'
  BY <1>3, <1>4 DEF IInv, Unmapped, Traced, Increasing
<1>10. QED BY <1>7, <1>8, <1>9 DEF IInv

LEMMA ChooseEndKeeps ==
  ASSUME IInv, ChooseEnd
  PROVE  IInv'
<1>1. m \in Nat /\ m > 0 /\ n \in Nat /\ n > 0
  BY Lengths DEF IInv, AlignTypeOK
<1>2. UNCHANGED <<obs, refr, offset, band, ptr, map, count>> /\ m' = m /\ n' = n
  BY DEF ChooseEnd, input, table, m, n, ref
<1>3. pc = "row" /\ pc' = "trace" /\ i' = m /\ j' \in 0..n /\ jEnd' = j'
  BY DEF ChooseEnd
<1>4. map = [r \in 1..m |-> 0] /\ count = NoCount
  BY <1>3 DEF IInv, Unmapped
<1>5. AlignTypeOK'
  BY <1>1, <1>2, <1>3 DEF IInv, AlignTypeOK
<1>6. Loops' /\ Unmapped'
  BY <1>3 DEF Loops, Unmapped
<1>7. Traced'
  <2>1. map' = [r \in 1..m |-> 0] /\ count' = NoCount
    BY <1>2, <1>4
  <2>2. PICK e \in 0..n : j' = e /\ jEnd' = e
    BY <1>3
  <2>3. QED BY <1>1, <1>2, <1>3, <2>1, <2>2 DEF Traced, Balanced, NoCount
<1>8. Increasing'
  BY <1>2 DEF IInv, Increasing
<1>9. QED BY <1>5, <1>6, <1>7, <1>8 DEF IInv

LEMMA TraceSubKeeps ==
  ASSUME IInv, TraceSub
  PROVE  IInv'
<1>1. m \in Nat /\ m > 0 /\ n \in Nat /\ n > 0
  BY Lengths DEF IInv, AlignTypeOK
<1>2. UNCHANGED <<obs, refr, offset, band, ptr, jEnd, pc>> /\ m' = m /\ n' = n
  BY DEF TraceSub, Tracing, input, table, m, n, ref
<1>3. /\ pc = "trace" /\ i > 0 /\ j > 0 /\ i' = i - 1 /\ j' = j - 1
      /\ map' = [map EXCEPT ![i] = j]
      /\ i \in 0..m + 1 /\ j \in 0..n /\ jEnd \in 0..n /\ map \in [1..m -> 0..n]
      /\ count \in [sub : Nat, del : Nat, ins : Nat, match : Nat]
  BY DEF TraceSub, Tracing, IInv, AlignTypeOK
<1>4. /\ Balanced(count, i, j, jEnd, m)
      /\ \A a \in 1..m : map[a] # 0 => a > i /\ map[a] > j /\ map[a] <= jEnd
  BY <1>3 DEF IInv, Traced
<1>5. Balanced(count', i', j', jEnd, m)
  <2>1. \E d \in {0, 1} : count' = [count EXCEPT !.sub = @ + 1, !.match = @ + d]
    BY DEF TraceSub
  <2>2. Moved(count, i, j, count', i', j')
    BY <2>1, <1>3 DEF Moved
  <2>3. QED BY <2>2, <1>4, CountStep
<1>6. i \in 1..m /\ j <= jEnd
  <2>1. PICK s \in Nat, d \in Nat : s + d = m - i
    BY <1>4 DEF Balanced
  <2>2. QED BY <2>1, <1>1, <1>3, <1>4 DEF Balanced
<1>7. map' \in [1..m -> 0..n] /\ map'[i] = j /\ \A a \in 1..m : a # i => map'[a] = map[a]
  BY <1>3, <1>6
<1>8. AlignTypeOK'
  <2>1. i' \in 0..m + 1 /\ j' \in 0..n
    BY <1>1, <1>3
  <2>2. count' \in [sub : Nat, del : Nat, ins : Nat, match : Nat]
    BY <1>5 DEF Balanced
  <2>3. QED BY <2>1, <2>2, <1>2, <1>3, <1>7 DEF IInv, AlignTypeOK
<1>9. Loops' /\ Unmapped'
  BY <1>2, <1>3 DEF Loops, Unmapped
<1>10. Traced'
  <2>1. \A a \in 1..m : map'[a] # 0 => a > i' /\ map'[a] > j' /\ map'[a] <= jEnd
    BY <1>1, <1>3, <1>4, <1>6, <1>7
  <2>2. QED BY <2>1, <1>2, <1>5 DEF Traced
<1>11. Increasing'
  <2>1. SUFFICES ASSUME NEW a \in 1..m, NEW b \in 1..m, a < b, map'[a] # 0, map'[b] # 0
                 PROVE  map'[a] < map'[b]
    BY <1>2 DEF Increasing
  <2>2. b # i
    BY <2>1, <1>1, <1>4, <1>6, <1>7
  <2>3. CASE a = i
    BY <2>1, <2>2, <2>3, <1>4, <1>7
  <2>4. CASE a # i
    BY <2>1, <2>2, <2>4, <1>7 DEF IInv, Increasing
  <2>5. QED BY <2>3, <2>4
<1>12. QED BY <1>8, <1>9, <1>10, <1>11 DEF IInv

\* A deletion leaves the row, an insertion the column.
LEMMA TraceGapKeeps ==
  ASSUME IInv, TraceDel \/ TraceIns
  PROVE  IInv'
<1>1. m \in Nat /\ m > 0 /\ n \in Nat /\ n > 0
  BY Lengths DEF IInv, AlignTypeOK
<1>2. UNCHANGED <<obs, refr, offset, band, ptr, jEnd, pc, map>> /\ m' = m /\ n' = n
  BY DEF TraceDel, TraceIns, Tracing, input, table, m, n, ref
<1>3. /\ pc = "trace" /\ i > 0
      /\ i \in 0..m + 1 /\ j \in 0..n /\ jEnd \in 0..n /\ map \in [1..m -> 0..n]
      /\ count \in [sub : Nat, del : Nat, ins : Nat, match : Nat]
  BY DEF TraceDel, TraceIns, Tracing, IInv, AlignTypeOK
<1>4. \/ i' = i - 1 /\ j' = j /\ count' = [count EXCEPT !.del = @ + 1]
      \/ j > 0 /\ i' = i /\ j' = j - 1 /\ count' = [count EXCEPT !.ins = @ + 1]
  BY DEF TraceDel, TraceIns
<1>5. /\ Balanced(count, i, j, jEnd, m)
      /\ \A a \in 1..m : map[a] # 0 => a > i /\ map[a] > j /\ map[a] <= jEnd
  BY <1>3 DEF IInv, Traced
<1>6. Balanced(count', i', j', jEnd, m)
  <2>1. Moved(count, i, j, count', i', j')
    BY <1>3, <1>4 DEF Moved
  <2>2. QED BY <2>1, <1>5, CountStep
<1>7. i' \in 0..m + 1 /\ j' \in 0..n
  BY <1>1, <1>3, <1>4
<1>8. AlignTypeOK'
  <2>1. count' \in [sub : Nat, del : Nat, ins : Nat, match : Nat]
    BY <1>6 DEF Balanced
  <2>2. QED BY <2>1, <1>2, <1>3, <1>7 DEF IInv, AlignTypeOK
<1>9. Loops' /\ Unmapped'
  BY <1>2, <1>3 DEF Loops, Unmapped
<1>10. \A a \in 1..m : map'[a] # 0 => a > i' /\ map'[a] > j' /\ map'[a] <= jEnd
  BY <1>2, <1>3, <1>4, <1>5
<1>11. Traced'
  BY <1>2, <1>6, <1>10 DEF Traced
<1>12. Increasing'
  BY <1>2 DEF IInv, Increasing
<1>13. QED BY <1>8, <1>9, <1>11, <1>12 DEF IInv

LEMMA EndKeeps ==
  ASSUME IInv, EndTrace \/ Return
  PROVE  IInv'
<1>1. m \in Nat /\ m > 0 /\ n \in Nat /\ n > 0
  BY Lengths DEF IInv, AlignTypeOK
<1>2. CASE EndTrace
  <2>1. UNCHANGED <<obs, refr, offset, band, ptr, i, j, jEnd, map, count>>
        /\ m' = m /\ n' = n /\ pc = "trace" /\ i = 0 /\ pc' = "aligned"
    BY <1>2 DEF EndTrace, input, table, result, m, n, ref
  <2>2. AlignTypeOK'
    BY <2>1 DEF IInv, AlignTypeOK
  <2>3. Loops' /\ Unmapped' /\ Traced' /\ Increasing'
    BY <2>1 DEF IInv, Loops, Unmapped, Traced, Increasing
  <2>4. QED BY <2>2, <2>3 DEF IInv
<1>3. CASE Return
  <2>1. UNCHANGED <<obs, refr, map>> /\ m' = m /\ n' = n /\ pc' = "returned"
        /\ offset' = 0 /\ band' = 0 /\ i' = 0 /\ j' = 0 /\ jEnd' = 0 /\ count' = NoCount
    BY <1>3 DEF Return, m, n, ref
  <2>2. AlignTypeOK'
    BY <2>1, <1>1 DEF IInv, AlignTypeOK, NoCount
  <2>3. Loops' /\ Unmapped' /\ Traced' /\ Increasing'
    BY <2>1 DEF IInv, Loops, Unmapped, Traced, Increasing
  <2>4. QED BY <2>2, <2>3 DEF IInv
<1>4. QED BY <1>2, <1>3

LEMMA StepKeeps == IInv /\ [Next]_vars => IInv'
<1> SUFFICES ASSUME IInv, [Next]_vars PROVE IInv'
  OBVIOUS
<1>1. CASE AlignNext
  BY <1>1, FillKeeps, ChooseEndKeeps, TraceSubKeeps, TraceGapKeeps, EndKeeps
  DEF AlignNext
<1>2. CASE UNCHANGED alignVars
  <2>1. UNCHANGED <<obs, refr, offset, band, ptr, i, j, jEnd, map, count, pc>>
        /\ m' = m /\ n' = n
    BY <1>2 DEF alignVars, input, table, result, m, n, ref
  <2>2. QED
    BY <2>1 DEF IInv, AlignTypeOK, Loops, Unmapped, Traced, Increasing
<1>3. QED
  BY <1>1, <1>2 DEF Next, vars, Align, UpgradeFails, NothingMapped, TimeAyahs, FillNext, ClipNext,
      Step

LEMMA InvImplies == IInv => TraceIsPath
<1> SUFFICES ASSUME IInv PROVE TraceIsPath
  OBVIOUS
<1>1. \A a, b \in 1..m : a < b /\ map[a] # 0 /\ map[b] # 0 => map[a] < map[b]
  BY DEF IInv, Increasing
<1>2. ASSUME pc = "aligned"
      PROVE  /\ count.sub + count.del = m
             /\ count.sub + count.ins = jEnd - j
             /\ \A a \in 1..m : map[a] # 0 => map[a] \in j + 1..jEnd
  <2>1. m \in Nat /\ i = 0 /\ j \in Nat /\ jEnd \in Nat /\ map \in [1..m -> Nat]
    BY <1>2, Lengths DEF IInv, AlignTypeOK, Loops
  <2>2. QED BY <1>2, <2>1 DEF IInv, Traced, Balanced
<1>3. QED BY <1>1, <1>2 DEF TraceIsPath

\* However the table was filled, the traceback maps later words to later words
\* and accounts for every word of the transcript and of the stretch
\* (TraceIsPath), for every input and every table of costs.
THEOREM TracesArePaths == Spec => []TraceIsPath
<1>1. Init => IInv
  BY InitHolds DEF Init
<1>2. QED BY <1>1, StepKeeps, InvImplies, PTL DEF Spec

-----------------------------------------------------------------------------
(* Least and greatest numbers                                               *)

\* A set of natural numbers has a least one, and Min is that.
LEMMA MinIsLeast ==
  ASSUME NEW S, S \subseteq Nat, S # {}
  PROVE  Min(S) \in S /\ \A y \in S : Min(S) <= y
<1> DEFINE R == OpToRel(<, Nat)
<1>1. IsWellFoundedOn(R, Nat)
  BY NatLessThanWellFounded
<1>2. \A x, y \in Nat : <<y, x>> \in R <=> y < x
  BY DEF OpToRel
<1> HIDE DEF R
<1>3. PICK x \in S : \A y \in S : ~(<<y, x>> \in R)
  BY <1>1, WFMin
<1>4. \A y \in S : x <= y
  <2> SUFFICES ASSUME NEW y \in S PROVE x <= y
    OBVIOUS
  <2>1. x \in Nat /\ y \in Nat /\ ~(y < x)
    BY <1>2, <1>3
  <2> QED
    BY <2>1
<1> QED
  BY <1>4 DEF Min

\* A bounded one has a greatest, and Max is that.
LEMMA MaxIsGreatest ==
  ASSUME NEW S, S \subseteq Nat, S # {}, NEW B \in Nat, \A y \in S : y <= B
  PROVE  Max(S) \in S /\ \A y \in S : y <= Max(S)
<1> DEFINE U == {B - y : y \in S}
<1>1. \A y \in S : B - y \in Nat
  OBVIOUS
<1>2. U \subseteq Nat
  BY <1>1
<1>3. U # {}
  <2>1. PICK y \in S : TRUE
    OBVIOUS
  <2>2. B - y \in U
    OBVIOUS
  <2> QED
    BY <2>2
<1>4. Min(U) \in U /\ \A u \in U : Min(U) <= u
  BY <1>2, <1>3, MinIsLeast
<1>5. PICK x \in S : Min(U) = B - x
  BY <1>4
<1>6. ASSUME NEW y \in S PROVE x >= y
  <2>1. B - y \in U
    OBVIOUS
  <2>2. B - x <= B - y
    BY <2>1, <1>4, <1>5
  <2>3. x \in Nat /\ y \in Nat
    OBVIOUS
  <2> QED
    BY <2>2, <2>3
<1>7. \E z \in S : \A y \in S : z >= y
  BY <1>6
<1>8. Max(S) \in S /\ \A y \in S : Max(S) >= y
  BY <1>7 DEF Max
<1> QED
  BY <1>8

\* Finitely many numbers have a bound.
LEMMA FinitelyManyAreBounded ==
  ASSUME NEW N \in Nat, NEW f \in [1..N -> Nat]
  PROVE  \E B \in Nat : \A l \in 1..N : f[l] <= B
<1> DEFINE Bounded(k) == \E B \in Nat : \A l \in 1..k : f[l] <= B
           T == {k \in 0..N : ~Bounded(k)}
<1>1. SUFFICES ASSUME T # {} PROVE FALSE
  <2>1. N \in 0..N
    OBVIOUS
  <2> QED
    BY <1>1, <2>1
<1>2. T \subseteq Nat
  OBVIOUS
<1>3. Min(T) \in T /\ \A y \in T : Min(T) <= y
  BY <1>1, <1>2, MinIsLeast
<1>4. PICK k \in T : \A y \in T : k <= y
  BY <1>3
<1>5. k # 0
  <2>1. \A l \in 1..0 : f[l] <= 0
    OBVIOUS
  <2>2. Bounded(0)
    BY <2>1
  <2> QED
    BY <2>2, <1>4
<1>6. k - 1 \in 0..N /\ k - 1 < k /\ k \in 1..N
  BY <1>5
<1>7. Bounded(k - 1)
  <2> HIDE DEF Bounded
  <2>1. k - 1 \notin T
    <3> SUFFICES ASSUME k - 1 \in T PROVE FALSE
      OBVIOUS
    <3>1. k <= k - 1
      BY <1>4
    <3> QED
      BY <3>1, <1>6
  <2> QED
    BY <2>1, <1>6
<1>8. PICK B \in Nat : \A l \in 1..k - 1 : f[l] <= B
  BY <1>7
<1>9. f[k] \in Nat
  BY <1>6
<1>10. \A l \in 1..k : f[l] <= B + f[k]
  <2> SUFFICES ASSUME NEW l \in 1..k PROVE f[l] <= B + f[k]
    OBVIOUS
  <2>1. l \in 1..N /\ f[l] \in Nat
    BY <1>6
  <2>2. l = k \/ l \in 1..k - 1
    BY <1>6
  <2> QED
    BY <2>1, <2>2, <1>8, <1>9
<1>11. B + f[k] \in Nat
  BY <1>9
<1>12. Bounded(k)
  BY <1>10, <1>11
<1> QED
  BY <1>12, <1>4

-----------------------------------------------------------------------------
(* The times of the words                                                   *)

Words == [timed : BOOLEAN, start : Nat, end : Nat, est : BOOLEAN]

\* The times up to a word are bounded.
LEMMA EndsAreBounded ==
  ASSUME NEW N \in Nat, NEW raw \in [1..N -> Words]
  PROVE  \E B \in Nat : \A k \in 0..N : \A t \in EndsUpTo(raw, k) : t \in Nat /\ t <= B
<1>1. \A l \in 1..N : raw[l].start \in Nat /\ raw[l].end \in Nat
  BY DEF Words
<1> DEFINE s == [l \in 1..N |-> raw[l].start]
           e == [l \in 1..N |-> raw[l].end]
<1>2. s \in [1..N -> Nat] /\ e \in [1..N -> Nat]
  BY <1>1
<1>3. PICK B \in Nat : \A l \in 1..N : s[l] <= B
  BY <1>2, FinitelyManyAreBounded
<1>4. PICK C \in Nat : \A l \in 1..N : e[l] <= C
  BY <1>2, FinitelyManyAreBounded
<1>5. \A l \in 1..N : raw[l].start <= B + C /\ raw[l].end <= B + C
  <2> SUFFICES ASSUME NEW l \in 1..N
               PROVE  raw[l].start <= B + C /\ raw[l].end <= B + C
    OBVIOUS
  <2>1. raw[l].start <= B /\ raw[l].end <= C
    BY <1>3, <1>4
  <2> QED
    BY <2>1, <1>1
<1>6. ASSUME NEW k \in 0..N, NEW t \in EndsUpTo(raw, k)
      PROVE  t \in Nat /\ t <= B + C
  <2>1. PICK l \in 1..k : t \in {raw[l].start, raw[l].end}
    BY <1>6 DEF EndsUpTo
  <2>2. l \in 1..N
    BY <2>1
  <2> QED
    BY <2>1, <2>2, <1>1, <1>5
<1>7. B + C \in Nat
  OBVIOUS
<1> QED
  BY <1>6, <1>7

\* A timed word starts after every timed word before it ends, and ends after it
\* starts; nothing else of a word changes.
LEMMA SmoothIsInOrder ==
  ASSUME NEW N \in Nat, NEW raw \in [1..N -> Words], NEW w, w = Smooth(raw)
  PROVE  /\ w \in [1..N -> Words]
         /\ \A k \in 1..N : w[k].timed => w[k].start <= w[k].end
         /\ \A k, l \in 1..N :
              k < l /\ w[k].timed /\ w[l].timed => w[k].end <= w[l].start
<1> DEFINE E(k) == EndsUpTo(raw, k)
<1>1. PICK B \in Nat : \A k \in 0..N : \A t \in E(k) : t \in Nat /\ t <= B
  BY EndsAreBounded
<1>2. \A k, l \in 0..N : k <= l => E(k) \subseteq E(l)
  <2> SUFFICES ASSUME NEW k \in 0..N, NEW l \in 0..N, k <= l, NEW t \in E(k)
               PROVE  t \in E(l)
    OBVIOUS
  <2>1. PICK x \in 1..k : raw[x].timed /\ t \in {raw[x].start, raw[x].end}
    BY DEF EndsUpTo
  <2>2. x \in 1..l
    BY <2>1
  <2> QED
    BY <2>1, <2>2 DEF EndsUpTo
<1>3. \A k \in 1..N : raw[k] \in Words
  OBVIOUS
<1>4. ASSUME NEW k \in 1..N, raw[k].timed
      PROVE  raw[k].start \in E(k) /\ raw[k].end \in E(k)
  BY <1>4 DEF EndsUpTo
<1>5. DOMAIN raw = 1..N /\ DOMAIN w = 1..N
  BY DEF Smooth
<1>6. ASSUME NEW k \in 1..N, ~raw[k].timed
      PROVE  w[k] = raw[k]
  BY <1>5, <1>6 DEF Smooth
<1>7. ASSUME NEW k \in 1..N, raw[k].timed
      PROVE  w[k] = [raw[k] EXCEPT !.start = Max({raw[k].start} \union E(k - 1)),
                                   !.end = Max(E(k))]
  BY <1>5, <1>7 DEF Smooth
<1> HIDE DEF E
<1>8. ASSUME NEW k \in 1..N, raw[k].timed
      PROVE  LET s == Max({raw[k].start} \union E(k - 1))
                 e == Max(E(k))
             IN  /\ s \in Nat /\ e \in Nat /\ s <= e
                 /\ \A t \in E(k) : t <= e
                 /\ \A t \in E(k - 1) : t <= s
                 /\ e \in E(k)
  <2> DEFINE S == {raw[k].start} \union E(k - 1)
  <2>1. k \in 0..N /\ k - 1 \in 0..N /\ k - 1 <= k
    OBVIOUS
  <2>2. E(k - 1) \subseteq E(k)
    BY <2>1, <1>2
  <2>3. S \subseteq E(k) /\ S # {}
    BY <2>2, <1>4, <1>8
  <2>4. E(k) \subseteq Nat /\ E(k) # {} /\ \A t \in E(k) : t <= B
    BY <2>1, <2>3, <1>1
  <2>5. S \subseteq Nat /\ \A t \in S : t <= B
    BY <2>3, <2>4
  <2>6. Max(S) \in S /\ \A t \in S : t <= Max(S)
    BY <2>3, <2>5, MaxIsGreatest
  <2>7. Max(E(k)) \in E(k) /\ \A t \in E(k) : t <= Max(E(k))
    BY <2>4, MaxIsGreatest
  <2> QED
    BY <2>3, <2>4, <2>6, <2>7
<1>9. ASSUME NEW k \in 1..N, raw[k].timed
      PROVE  /\ w[k].timed = raw[k].timed /\ w[k] \in Words
             /\ w[k].start <= w[k].end
             /\ \A t \in E(k - 1) : t <= w[k].start
             /\ w[k].end \in E(k)
  <2>1. PICK s, e : /\ s = Max({raw[k].start} \union E(k - 1)) /\ e = Max(E(k))
                    /\ s \in Nat /\ e \in Nat /\ s <= e
                    /\ \A t \in E(k - 1) : t <= s
                    /\ e \in E(k)
    BY <1>8, <1>9
  <2>2. w[k] = [raw[k] EXCEPT !.start = s, !.end = e]
    BY <2>1, <1>7, <1>9
  <2>3. w[k] \in Words /\ w[k].timed = raw[k].timed /\ w[k].start = s /\ w[k].end = e
    <3>1. PICK x \in Words : x = raw[k]
      BY <1>3
    <3>2. w[k] = [x EXCEPT !.start = s, !.end = e]
      BY <2>2, <3>1
    <3>3. s \in Nat /\ e \in Nat
      BY <2>1
    <3>4. PICK y : y = w[k]
      OBVIOUS
    <3>5. y = [x EXCEPT !.start = s, !.end = e]
      BY <3>2, <3>4
    <3>6. y \in Words /\ y.timed = x.timed /\ y.start = s /\ y.end = e
      BY ONLY <3>3, <3>5, x \in Words DEF Words
    <3> QED
      BY <3>1, <3>4, <3>6, Zenon
  <2> QED
    BY <2>1, <2>3
<1>10. ASSUME NEW k \in 1..N
       PROVE  w[k].timed = raw[k].timed /\ w[k] \in Words
  BY <1>3, <1>6, <1>9
<1>11. w \in [1..N -> Words]
  <2>1. w = [k \in 1..N |-> w[k]]
    BY <1>5 DEF Smooth
  <2> QED
    BY <2>1, <1>10
<1>12. \A k \in 1..N : w[k].timed => w[k].start <= w[k].end
  BY <1>9, <1>10
<1>13. ASSUME NEW k \in 1..N, NEW l \in 1..N, k < l, w[k].timed, w[l].timed
       PROVE  w[k].end <= w[l].start
  <2>1. k \in 0..N /\ l - 1 \in 0..N /\ k <= l - 1
    BY <1>13
  <2>2. raw[k].timed /\ raw[l].timed
    BY <1>10, <1>13
  <2>3. w[k].end \in E(l - 1)
    BY <2>1, <2>2, <1>2, <1>9
  <2> QED
    BY <2>2, <2>3, <1>9
<1> QED
  BY <1>11, <1>12, <1>13

-----------------------------------------------------------------------------
(* The span, and the ayah of every word                                     *)

\* The anchors are words of the reference that words are mapped to.
LEMMA AnchorsAreMapped ==
  ASSUME IInv, Mapped # {}
  PROVE  /\ Min(Anchors) \in 1..n /\ Max(Anchors) \in 1..n
         /\ Min(Anchors) <= Max(Anchors)
<1>1. m \in Nat /\ n \in Nat /\ map \in [1..m -> 0..n]
  BY Lengths DEF IInv, AlignTypeOK
<1>2. Anchors \subseteq 1..n /\ Anchors # {}
  <2>1. Mapped \subseteq 1..n
    BY <1>1 DEF Mapped
  <2>2. Matched \subseteq 1..n
    BY <1>1 DEF Matched
  <2> QED
    BY <2>1, <2>2 DEF Anchors
<1>3. Anchors \subseteq Nat /\ \A y \in Anchors : y <= n
  BY <1>1, <1>2
<1>4. Min(Anchors) \in Anchors /\ \A y \in Anchors : Min(Anchors) <= y
  BY <1>2, <1>3, MinIsLeast
<1>5. Max(Anchors) \in Anchors
  BY <1>1, <1>2, <1>3, MaxIsGreatest
<1> QED
  BY <1>2, <1>4, <1>5

\* The ayahs of the reference are in order.
LEMMA AyahsAreInOrder ==
  ASSUME IInv
  PROVE  /\ \A r \in 1..n : Ayah(r) \in Nat /\ Ayah(r) # NoAyah
         /\ \A r, t \in 1..n : r <= t => Ayah(r) <= Ayah(t)
<1>1. refr \in References
  BY DEF IInv, AlignTypeOK
<1>2. n = Len(refr.ids)
  BY DEF n, ref
<1> QED
  BY <1>1, <1>2, AyahAssumption DEF Ayah

\* Words have ayahs of the span, and later words no earlier ones.
LEMMA SpanIsInOrder ==
  ASSUME IInv, Mapped # {}
  PROVE  /\ First \in Nat /\ First # NoAyah /\ Final \in Nat /\ First <= Final
         /\ \A k \in 1..m : TokenAyah(k) \in {NoAyah} \union First..Final
         /\ \A k, l \in 1..m :
              k <= l /\ TokenAyah(k) # NoAyah /\ TokenAyah(l) # NoAyah
                => TokenAyah(k) <= TokenAyah(l)
<1>1. m \in Nat /\ n \in Nat /\ map \in [1..m -> 0..n]
  BY Lengths DEF IInv, AlignTypeOK
<1>2. /\ \A r \in 1..n : Ayah(r) \in Nat /\ Ayah(r) # NoAyah
      /\ \A r, t \in 1..n : r <= t => Ayah(r) <= Ayah(t)
  BY AyahsAreInOrder
<1>3. PICK x, y : /\ x = Min(Anchors) /\ y = Max(Anchors)
                  /\ x \in 1..n /\ y \in 1..n /\ x <= y
  BY AnchorsAreMapped
<1>4. First = Ayah(x) /\ Final = Ayah(y)
  BY <1>3 DEF First, Final
<1>5. ASSUME NEW k \in 1..m, TokenAyah(k) # NoAyah
      PROVE  /\ map[k] # 0 /\ map[k] \in 1..n /\ map[k] \in x..y
             /\ TokenAyah(k) = Ayah(map[k])
  BY <1>1, <1>3, <1>5 DEF TokenAyah, InSpan
<1>6. ASSUME NEW k \in 1..m, TokenAyah(k) # NoAyah
      PROVE  TokenAyah(k) \in First..Final
  <2>1. PICK r : r = map[k] /\ r \in 1..n /\ r \in x..y /\ TokenAyah(k) = Ayah(r)
    BY <1>5, <1>6
  <2>2. Ayah(x) <= Ayah(r) /\ Ayah(r) <= Ayah(y)
    BY <2>1, <1>2, <1>3
  <2> QED
    BY <2>1, <2>2, <1>2, <1>3, <1>4
<1>7. ASSUME NEW k \in 1..m, NEW l \in 1..m, k <= l,
             TokenAyah(k) # NoAyah, TokenAyah(l) # NoAyah
      PROVE  TokenAyah(k) <= TokenAyah(l)
  <2>1. PICK r \in 1..n : map[k] = r /\ r # 0 /\ TokenAyah(k) = Ayah(r)
    BY <1>5, <1>7
  <2>2. PICK t \in 1..n : map[l] = t /\ t # 0 /\ TokenAyah(l) = Ayah(t)
    BY <1>5, <1>7
  <2>3. r <= t
    <3>1. k = l \/ k < l
      BY <1>7, <1>1
    <3>2. k < l => r < t
      BY <2>1, <2>2 DEF IInv, Increasing
    <3> QED
      BY <3>1, <3>2, <2>1, <2>2
  <2> QED
    BY <2>1, <2>2, <2>3, <1>2
<1> QED
  BY <1>2, <1>3, <1>4, <1>6, <1>7

\* A word that was given to an ayah before that of a mapped word is before it.
LEMMA WordsAreApart ==
  ASSUME IInv, Mapped # {}, NEW w, NEW k \in 1..m, NEW l \in 1..m,
         TokenAyah(k) # NoAyah, Assigned(w, l) # NoAyah,
         Assigned(w, l) < TokenAyah(k)
  PROVE  l < k
<1>1. m \in Nat
  BY Lengths DEF IInv, AlignTypeOK
<1>2. SUFFICES ASSUME k <= l PROVE FALSE
  BY <1>1
<1> DEFINE p == Max(Before(l))
           f == Min(After(l))
<1>3. \A x \in 1..m : TokenAyah(x) \in Nat
  <2>1. PICK A \in Nat, Z \in Nat : A = First /\ Z = Final
    BY SpanIsInOrder
  <2>2. \A x \in 1..m : TokenAyah(x) \in {NoAyah} \union A..Z
    BY <2>1, SpanIsInOrder
  <2> QED
    BY <2>2 DEF NoAyah
<1>4. \A x \in 1..m :
        k <= x /\ TokenAyah(x) # NoAyah => TokenAyah(k) <= TokenAyah(x)
  BY SpanIsInOrder
<1>5. \A x \in 1..m :
        k <= x /\ TokenAyah(x) # NoAyah => ~(TokenAyah(x) < TokenAyah(k))
  BY <1>3, <1>4
<1>6. Before(l) # {} /\ p \in 1..m /\ k <= p /\ TokenAyah(p) # NoAyah
  <2>1. k \in Before(l)
    BY <1>1, <1>2 DEF Before
  <2>2. Before(l) \subseteq Nat /\ \A y \in Before(l) : y <= l
    BY <1>1 DEF Before
  <2>3. l \in Nat
    BY <1>1
  <2>4. p \in Before(l) /\ \A y \in Before(l) : y <= p
    BY <2>1, <2>2, <2>3, MaxIsGreatest
  <2> QED
    BY <2>1, <2>4, <1>1 DEF Before
<1>7. After(l) # {} => f \in 1..m /\ k <= f /\ TokenAyah(f) # NoAyah
  <2> SUFFICES ASSUME After(l) # {}
               PROVE  f \in 1..m /\ k <= f /\ TokenAyah(f) # NoAyah
    OBVIOUS
  <2>1. After(l) \subseteq Nat
    BY <1>1 DEF After
  <2>2. f \in After(l)
    BY <2>1, MinIsLeast
  <2>3. f \in l..m /\ TokenAyah(f) # NoAyah
    BY <2>2 DEF After
  <2> QED
    BY <2>3, <1>1, <1>2
<1> HIDE DEF p, f
<1>8. \/ Assigned(w, l) = TokenAyah(l) /\ TokenAyah(l) # NoAyah
      \/ Assigned(w, l) = TokenAyah(p)
      \/ After(l) # {} /\ Assigned(w, l) = TokenAyah(f)
  BY <1>6, Zenon DEF Assigned, p, f
<1> QED
  BY <1>2, <1>5, <1>6, <1>7, <1>8

-----------------------------------------------------------------------------
(* The times of an ayah                                                     *)

Times == Nat \union {NoTime}

\* An ayah has both of its times or neither.
Both(t) ==
  /\ t.start \in Times /\ t.end \in Times
  /\ t.start = NoTime <=> t.end = NoTime

\* The times t of ayah a are those of its words, and no real time lies outside them.
OfItsWords(w, a, t) ==
  /\ t.start # NoTime =>
       \E x, y \in 1..m :
         /\ w[x].timed /\ Assigned(w, x) = a /\ t.start = w[x].start
         /\ w[y].timed /\ Assigned(w, y) = a /\ t.end = w[y].end
  /\ \A k \in 1..m : w[k].timed /\ Assigned(w, k) = a =>
       /\ t.start # NoTime
       /\ ~w[k].est => t.start <= w[k].start /\ w[k].end <= t.end

\* An ayah with timed words gets the least and the greatest time of some of them,
\* and its real times if it has any.
LEMMA TimesOfAnAyah ==
  ASSUME IInv, NEW w \in [1..m -> Words], NEW a, NEW t, t = AyahTime(w, a)
  PROVE  Both(t) /\ OfItsWords(w, a, t)
<1>1. m \in Nat
  BY Lengths DEF IInv, AlignTypeOK
<1> DEFINE timed == {k \in 1..m : Assigned(w, k) = a /\ w[k].timed}
           real == {k \in timed : ~w[k].est}
           used == IF real # {} THEN real ELSE timed
           starts == {w[k].start : k \in used}
           ends == {w[k].end : k \in used}
<1>2. t = [start |-> Least(starts), end |-> Greatest(ends)]
  BY DEF AyahTime
<1>3. used \subseteq timed /\ (used = {} <=> timed = {})
      /\ \A k \in timed : ~w[k].est => k \in used
  OBVIOUS
<1>4. \A k \in timed : k \in 1..m /\ w[k].timed /\ Assigned(w, k) = a
  OBVIOUS
<1>5. \A k \in 1..m : w[k].start \in Nat /\ w[k].end \in Nat
  BY DEF Words
<1>6. \A k \in used : k \in 1..m
  BY <1>3, <1>4
<1>7. \A k \in 1..m : w[k].timed /\ Assigned(w, k) = a => k \in timed
  OBVIOUS
<1> HIDE DEF used, real, timed
<1>8. CASE used = {}
  <2>1. starts = {} /\ ends = {}
    BY <1>8
  <2>2. t.start = NoTime /\ t.end = NoTime
    BY <2>1, <1>2 DEF Least, Greatest
  <2>3. \A k \in 1..m : ~(w[k].timed /\ Assigned(w, k) = a)
    BY <1>3, <1>7, <1>8
  <2> QED
    BY <2>2, <2>3 DEF Times, Both, OfItsWords
<1>9. CASE used # {}
  <2>1. starts \subseteq Nat /\ ends \subseteq Nat
    BY <1>5, <1>6
  <2>2. starts # {} /\ ends # {}
    <3>1. PICK k \in used : TRUE
      BY <1>9
    <3>2. w[k].start \in starts /\ w[k].end \in ends
      OBVIOUS
    <3> QED
      BY <3>2
  <2>3. PICK B \in Nat : \A l \in 1..m : w[l].end <= B
    <3> DEFINE e == [l \in 1..m |-> w[l].end]
    <3>1. e \in [1..m -> Nat]
      BY <1>5
    <3>2. PICK B \in Nat : \A l \in 1..m : e[l] <= B
      BY <3>1, <1>1, FinitelyManyAreBounded
    <3> QED
      BY <3>2
  <2>4. \A y \in ends : y <= B
    BY <2>3, <1>6
  <2>5. Min(starts) \in starts /\ \A y \in starts : Min(starts) <= y
    BY <2>1, <2>2, MinIsLeast
  <2>6. Max(ends) \in ends /\ \A y \in ends : y <= Max(ends)
    BY <2>1, <2>2, <2>4, MaxIsGreatest
  <2>7. t.start = Min(starts) /\ t.end = Max(ends)
    <3> HIDE DEF starts, ends
    <3>1. Least(starts) = Min(starts) /\ Greatest(ends) = Max(ends)
      BY <2>2 DEF Least, Greatest
    <3> QED
      BY <3>1, <1>2
  <2>8. t.start \in Nat /\ t.end \in Nat
    BY <2>1, <2>5, <2>6, <2>7
  <2>9. PICK x \in used : t.start = w[x].start
    BY <2>5, <2>7
  <2>10. PICK y \in used : t.end = w[y].end
    BY <2>6, <2>7
  <2>11. \A k \in used : t.start <= w[k].start /\ w[k].end <= t.end
    BY <2>5, <2>6, <2>7
  <2>12. t.start # NoTime /\ t.end # NoTime
    BY <2>8 DEF NoTime
  <2>13. x \in timed /\ y \in timed
    BY <1>3
  <2>14. \E xx, yy \in 1..m :
                /\ w[xx].timed /\ Assigned(w, xx) = a /\ t.start = w[xx].start
                /\ w[yy].timed /\ Assigned(w, yy) = a /\ t.end = w[yy].end
    BY <2>9, <2>10, <2>13, <1>4
  <2>15. \A k \in 1..m : w[k].timed /\ Assigned(w, k) = a /\ ~w[k].est =>
           t.start <= w[k].start /\ w[k].end <= t.end
    BY <2>11, <1>3, <1>7
  <2> QED
    BY <2>8, <2>12, <2>14, <2>15 DEF Times, Both, OfItsWords
<1> QED
  BY <1>8, <1>9

-----------------------------------------------------------------------------
(* From the alignment to the times                                          *)

\* The alignment is over.
Timing == stage \in {"filling", "clipping", "done"}

\* The words are in the order of their times.
Timely == InTime(words)

Settled ==
  /\ pc = "returned" /\ Mapped # {}
  /\ at \in First..Final
  /\ words \in [1..m -> Words]
  /\ upgrade = "smooth" => Timely

SegsTyped ==
  /\ segs = [a \in First..Final |-> [start |-> segs[a].start, end |-> segs[a].end]]
  /\ \A a \in First..Final : Both(segs[a])

Placed(k) == TokenAyah(k) # NoAyah /\ words[k].timed

\* The ayahs before that of a word are over when it starts, and its own ayah is not,
\* if the words are in order.
Fitted(k) ==
  ~words[k].est /\ Timely =>
    /\ \A a \in First..Final :
         a < TokenAyah(k) => segs[a].start <= words[k].start /\ segs[a].end <= words[k].start
    /\ segs[TokenAyah(k)].start <= words[k].start
    /\ words[k].end <= segs[TokenAyah(k)].end

\* How far the loops have come if some word has times.
Reached(k) ==
  /\ segs[TokenAyah(k)].start # NoTime
  /\ stage = "filling" => \A a \in First..at - 1 : segs[a].start # NoTime
  /\ stage # "filling" => \A a \in First..Final : segs[a].start # NoTime
  /\ stage = "clipping" => \A a \in First..at - 1 : Ordered(a)
  /\ stage = "done" => \A a \in First..Final : Ordered(a)

TInv ==
  Timing => Settled /\ SegsTyped /\ \A k \in 1..m : Placed(k) => Fitted(k) /\ Reached(k)

\* What the alignment leaves alone.
LEMMA AlignmentStays ==
  ASSUME UNCHANGED alignVars
  PROVE  /\ First' = First /\ Final' = Final /\ Mapped' = Mapped /\ m' = m /\ pc' = pc
         /\ \A k : TokenAyah(k)' = TokenAyah(k)
<1>1. obs' = obs /\ refr' = refr /\ map' = map /\ pc' = pc
  BY DEF alignVars, input, result
<1>2. m' = m /\ ref' = ref
  BY <1>1 DEF m, ref
<1>3. Mapped' = Mapped /\ Matched' = Matched
  BY <1>1, <1>2 DEF Mapped, Matched, Matches
<1>4. Anchors' = Anchors
  BY <1>3 DEF Anchors
<1>5. First' = First /\ Final' = Final
  BY <1>1, <1>4 DEF First, Final, Ayah
<1>6. \A k : TokenAyah(k)' = TokenAyah(k)
  BY <1>1, <1>4 DEF TokenAyah, InSpan, Ayah
<1> QED
  BY <1>1, <1>2, <1>3, <1>5, <1>6

\* The first later ayah with a start gives it.
LEMMA NextStartIsNext ==
  ASSUME IInv, Settled, SegsTyped
  PROVE  /\ NextStart \in Times
         /\ \A b \in at + 1..Final : segs[b].start # NoTime =>
              /\ NextStart # NoTime
              /\ \E c \in First..Final : c <= b /\ at < c /\ NextStart = segs[c].start
<1>1. PICK A \in Nat, Z \in Nat, x \in Nat : A = First /\ Z = Final /\ x = at /\ x \in A..Z
  BY SpanIsInOrder DEF Settled
<1> DEFINE later == {a \in at + 1..Final : segs[a].start # NoTime}
<1>2. later \subseteq Nat /\ later \subseteq First..Final
  BY <1>1
<1>3. CASE later = {}
  BY <1>3 DEF NextStart, Times
<1>4. CASE later # {}
  <2>1. Min(later) \in later /\ \A y \in later : Min(later) <= y
    BY <1>2, <1>4, MinIsLeast
  <2>2. NextStart = segs[Min(later)].start
    BY <1>4 DEF NextStart
  <2>3. PICK c \in later : c = Min(later)
    BY <2>1
  <2>4. c \in First..Final /\ at < c /\ segs[c].start # NoTime
    BY <1>1, <1>2
  <2>5. NextStart \in Times /\ NextStart # NoTime
    BY <2>2, <2>3, <2>4 DEF SegsTyped, Both
  <2> QED
    BY <2>1, <2>2, <2>3, <2>4, <2>5
<1> QED
  BY <1>3, <1>4

\* The end that a later ayah may not start before.
LEMMA LastEndIsLast ==
  ASSUME IInv, Settled, SegsTyped
  PROVE  /\ LastEnd \in Times
         /\ (\A a \in First..Final : segs[a].start # NoTime) =>
              /\ at = First => LastEnd = NoTime
              /\ at > First => LastEnd = segs[at - 1].end
<1>1. PICK A \in Nat, Z \in Nat, x \in Nat : A = First /\ Z = Final /\ x = at /\ x \in A..Z
  BY SpanIsInOrder DEF Settled
<1> DEFINE earlier == {a \in First..at - 1 : segs[a].end # NoTime}
<1>2. earlier \subseteq Nat /\ earlier \subseteq First..Final /\ \A y \in earlier : y <= at - 1
  BY <1>1
<1>3. CASE earlier = {}
  <2>1. LastEnd = NoTime
    BY <1>3 DEF LastEnd
  <2>2. ASSUME \A a \in First..Final : segs[a].start # NoTime, at > First
        PROVE  FALSE
    <3>1. at - 1 \in First..Final /\ at - 1 \in First..at - 1
      BY <1>1, <2>2
    <3>2. segs[at - 1].end # NoTime
      BY <3>1, <2>2 DEF SegsTyped, Both
    <3> QED
      BY <3>1, <3>2, <1>3
  <2> QED
    BY <2>1, <2>2 DEF Times
<1>4. CASE earlier # {}
  <2>1. at - 1 \in Nat /\ at > First
    BY <1>1, <1>4
  <2>2. Max(earlier) \in earlier /\ \A y \in earlier : y <= Max(earlier)
    BY <1>2, <1>4, <2>1, MaxIsGreatest
  <2>3. LastEnd = segs[Max(earlier)].end
    BY <1>4 DEF LastEnd
  <2>4. LastEnd \in Times
    BY <2>2, <2>3, <1>2 DEF SegsTyped, Both
  <2>5. ASSUME \A a \in First..Final : segs[a].start # NoTime
        PROVE  LastEnd = segs[at - 1].end
    <3>1. at - 1 \in First..Final /\ at - 1 \in First..at - 1
      BY <1>1, <2>1
    <3>2. segs[at - 1].end # NoTime
      BY <3>1, <2>5 DEF SegsTyped, Both
    <3>3. at - 1 \in earlier
      BY <3>1, <3>2
    <3>4. PICK y \in Nat : y = Max(earlier) /\ y <= at - 1 /\ at - 1 <= y
      BY <3>3, <2>2, <1>2
    <3>5. y = at - 1
      BY <3>4, <1>1
    <3> QED
      BY <3>4, <3>5, <2>3
  <2> QED
    BY <1>1, <2>1, <2>4, <2>5
<1> QED
  BY <1>3, <1>4

\* What the first loop makes of an ayah: it gets both of its times if it or another
\* has them, and no times that a word gave it are changed.
LEMMA FilledAyah ==
  ASSUME IInv, TInv, stage = "filling", NEW t, t = Filled(segs[at])
  PROVE  /\ t = [start |-> t.start, end |-> t.end] /\ Both(t)
         /\ \A k \in 1..m : Placed(k) =>
              /\ t.start # NoTime
              /\ at = TokenAyah(k) => t.start = segs[at].start /\ t.end = segs[at].end
              /\ at < TokenAyah(k) /\ ~words[k].est /\ Timely =>
                   t.start <= words[k].start /\ t.end <= words[k].start
<1>1. Settled /\ SegsTyped /\ \A k \in 1..m : Placed(k) => Fitted(k) /\ Reached(k)
  BY DEF TInv, Timing
<1>2. PICK A \in Nat, Z \in Nat, x \in Nat : A = First /\ Z = Final /\ x = at /\ x \in A..Z
  BY <1>1, SpanIsInOrder DEF Settled
<1>3. PICK s, e : s = segs[at].start /\ e = segs[at].end
                  /\ s \in Times /\ e \in Times /\ (s = NoTime <=> e = NoTime)
  BY <1>1, <1>2 DEF SegsTyped, Both
<1>4. PICK q : /\ q = NextStart /\ q \in Times
               /\ \A b \in at + 1..Final : segs[b].start # NoTime =>
                    /\ q # NoTime
                    /\ \E c \in First..Final : c <= b /\ at < c /\ q = segs[c].start
  BY <1>1, NextStartIsNext
<1>5. PICK p : /\ p = PrevEnd /\ p \in Times
               /\ (at = First => p = NoTime)
               /\ (at # First => at - 1 \in First..Final /\ p = segs[at - 1].end)
  <2>1. at # First => at - 1 \in First..Final
    BY <1>2
  <2>2. at # First => PrevEnd = segs[at - 1].end /\ segs[at - 1].end \in Times
    BY <2>1, <1>1 DEF PrevEnd, SegsTyped, Both
  <2>3. at = First => PrevEnd = NoTime
    BY DEF PrevEnd
  <2> QED
    BY <2>1, <2>2, <2>3 DEF Times
<1>6. PICK st : st = Or(s, Or(p, q))
  OBVIOUS
<1>7. t.start = st /\ t.end = Or(e, Or(q, st)) /\ t = [start |-> t.start, end |-> t.end]
  BY <1>3, <1>4, <1>5, <1>6 DEF Filled
<1>8. Both(t)
  BY <1>3, <1>4, <1>5, <1>6, <1>7 DEF Both, Or, Times, NoTime
<1>9. ASSUME NEW k \in 1..m, Placed(k)
      PROVE  /\ t.start # NoTime
             /\ at = TokenAyah(k) => t.start = segs[at].start /\ t.end = segs[at].end
             /\ at < TokenAyah(k) /\ ~words[k].est /\ Timely =>
                  t.start <= words[k].start /\ t.end <= words[k].start
  <2>1. PICK a \in A..Z : a = TokenAyah(k)
    BY <1>1, <1>2, <1>9, SpanIsInOrder DEF Settled, Placed
  <2>2. /\ segs[a].start # NoTime
        /\ \A b \in First..at - 1 : segs[b].start # NoTime
    BY <1>1, <1>9, <2>1 DEF Reached
  <2>3. at = a => s # NoTime /\ e # NoTime
    BY <2>2, <1>3
  <2>4. at > a => p # NoTime
    <3> SUFFICES ASSUME at > a PROVE p # NoTime
      OBVIOUS
    <3>1. at # First /\ at - 1 \in First..Final /\ at - 1 \in First..at - 1
      BY <1>2, <2>1
    <3>2. segs[at - 1].end # NoTime
      BY <3>1, <2>2, <1>1 DEF SegsTyped, Both
    <3> QED
      BY <3>1, <3>2, <1>5
  <2>5. at < a => q # NoTime
    <3> SUFFICES ASSUME at < a PROVE q # NoTime
      OBVIOUS
    <3>1. a \in at + 1..Final
      BY <1>2, <2>1
    <3> QED
      BY <3>1, <2>2, <1>4
  <2>6. t.start # NoTime
    <3>1. at = a \/ at > a \/ at < a
      BY <1>2, <2>1
    <3> QED
      BY <3>1, <2>3, <2>4, <2>5, <1>6, <1>7 DEF Or
  <2>7. at = a => t.start = segs[at].start /\ t.end = segs[at].end
    BY <2>3, <1>3, <1>6, <1>7 DEF Or
  <2>8. ASSUME at < a, ~words[k].est, Timely
        PROVE  t.start <= words[k].start /\ t.end <= words[k].start
    <3>1. PICK v \in Nat : v = words[k].start
      BY <1>1 DEF Settled, Words
    <3>2. \A b \in First..Final : b < a => segs[b].start <= v /\ segs[b].end <= v
      BY <1>1, <1>9, <2>1, <2>8, <3>1 DEF Fitted
    <3>3. segs[a].start <= v
      BY <1>1, <1>9, <2>1, <2>8, <3>1 DEF Fitted
    <3>4. s <= v /\ e <= v
      BY <3>2, <1>2, <1>3, <2>8
    <3>5. p <= v
      <4>1. CASE at = First
        BY <4>1, <1>5, <3>1 DEF NoTime
      <4>2. CASE at # First
        <5>1. at - 1 \in First..Final /\ at - 1 < a
          BY <4>2, <1>2, <1>5, <2>1, <2>8
        <5> QED
          BY <5>1, <4>2, <1>5, <3>2
      <4> QED
        BY <4>1, <4>2
    <3>6. q <= v
      <4>1. a \in at + 1..Final
        BY <1>2, <2>1, <2>8
      <4>2. PICK c \in First..Final : c <= a /\ q = segs[c].start
        BY <4>1, <2>2, <1>4
      <4>3. c = a \/ c < a
        BY <4>2, <1>2, <2>1
      <4> QED
        BY <4>2, <4>3, <3>2, <3>3
    <3> QED
      BY <3>1, <3>4, <3>5, <3>6, <1>6, <1>7 DEF Or
  <2> QED
    BY <2>1, <2>6, <2>7, <2>8
<1> QED
  BY <1>7, <1>8, <1>9

\* What the second loop makes of an ayah: it starts no earlier than the one before
\* it ends, and if that was over before a word then so is this one, or it has it.
LEMMA ClippedAyah ==
  ASSUME IInv, TInv, stage = "clipping", NEW t, t = Clipped(segs[at])
  PROVE  /\ t = [start |-> t.start, end |-> t.end] /\ Both(t)
         /\ \A k \in 1..m : Placed(k) =>
              /\ t.start # NoTime /\ t.start <= t.end
              /\ at > First => segs[at - 1].end <= t.start
              /\ at = TokenAyah(k) /\ ~words[k].est /\ Timely =>
                   t.start <= words[k].start /\ words[k].end <= t.end
              /\ at < TokenAyah(k) /\ ~words[k].est /\ Timely =>
                   t.start <= words[k].start /\ t.end <= words[k].start
<1>1. Settled /\ SegsTyped /\ \A k \in 1..m : Placed(k) => Fitted(k) /\ Reached(k)
  BY DEF TInv, Timing
<1>2. PICK A \in Nat, Z \in Nat, x \in Nat : A = First /\ Z = Final /\ x = at /\ x \in A..Z
  BY <1>1, SpanIsInOrder DEF Settled
<1>3. PICK s, e : s = segs[at].start /\ e = segs[at].end
                  /\ s \in Times /\ e \in Times /\ (s = NoTime <=> e = NoTime)
  BY <1>1, <1>2 DEF SegsTyped, Both
<1>4. PICK p : /\ p = LastEnd /\ p \in Times
               /\ (\A a \in First..Final : segs[a].start # NoTime) =>
                    /\ at = First => p = NoTime
                    /\ at > First => p = segs[at - 1].end
  BY <1>1, LastEndIsLast
<1>5. PICK st : st = IF s # NoTime /\ s < p THEN p ELSE s
  OBVIOUS
<1>6. /\ t.start = st /\ t.end = IF e # NoTime /\ e < st THEN st ELSE e
      /\ t = [start |-> t.start, end |-> t.end]
  BY <1>3, <1>4, <1>5 DEF Clipped, ClippedStart
<1>7. Both(t)
  BY <1>3, <1>4, <1>5, <1>6 DEF Both, Times, NoTime
<1>8. ASSUME NEW k \in 1..m, Placed(k)
      PROVE  /\ t.start # NoTime /\ t.start <= t.end
             /\ at > First => segs[at - 1].end <= t.start
             /\ at = TokenAyah(k) /\ ~words[k].est /\ Timely =>
                  t.start <= words[k].start /\ words[k].end <= t.end
             /\ at < TokenAyah(k) /\ ~words[k].est /\ Timely =>
                  t.start <= words[k].start /\ t.end <= words[k].start
  <2>1. PICK a \in A..Z : a = TokenAyah(k)
    BY <1>1, <1>2, <1>8, SpanIsInOrder DEF Settled, Placed
  <2>2. \A b \in First..Final : segs[b].start # NoTime
    BY <1>1, <1>8 DEF Reached
  <2>3. s # NoTime /\ e # NoTime
    BY <2>2, <1>2, <1>3
  <2>4. t.start # NoTime /\ t.start <= t.end /\ p <= t.start
    BY <2>3, <1>3, <1>4, <1>5, <1>6 DEF Times, NoTime
  <2>5. (at = First => p = NoTime) /\ (at > First => p = segs[at - 1].end)
    BY <2>2, <1>4
  <2>6. ASSUME at <= a, ~words[k].est, Timely
        PROVE  /\ at = a => t.start <= words[k].start /\ words[k].end <= t.end
               /\ at < a => t.start <= words[k].start /\ t.end <= words[k].start
    <3>1. PICK v \in Nat, u \in Nat : v = words[k].start /\ u = words[k].end
      BY <1>1 DEF Settled, Words
    <3>2. \A b \in First..Final : b < a => segs[b].start <= v /\ segs[b].end <= v
      BY <1>1, <1>8, <2>1, <2>6, <3>1 DEF Fitted
    <3>3. segs[a].start <= v /\ u <= segs[a].end
      BY <1>1, <1>8, <2>1, <2>6, <3>1 DEF Fitted
    <3>4. p <= v
      <4>1. CASE at = First
        BY <4>1, <2>5, <3>1 DEF NoTime
      <4>2. CASE at # First
        <5>1. at > First /\ at - 1 \in First..Final /\ at - 1 < a
          BY <4>2, <1>2, <2>1, <2>6
        <5> QED
          BY <5>1, <2>5, <3>2
      <4> QED
        BY <4>1, <4>2
    <3>5. at = a => s <= v /\ u <= e
      BY <3>3, <1>3
    <3>6. at < a => s <= v /\ e <= v
      BY <3>2, <1>2, <1>3
    <3>7. at = a => t.start <= v /\ u <= t.end
      BY <3>1, <3>4, <3>5, <2>3, <1>3, <1>4, <1>5, <1>6 DEF Times, NoTime
    <3>8. at < a => t.start <= v /\ t.end <= v
      BY <3>1, <3>4, <3>6, <2>3, <1>3, <1>4, <1>5, <1>6 DEF Times, NoTime
    <3> QED
      BY <3>1, <3>7, <3>8
  <2>7. (at = a => at <= a) /\ (at < a => at <= a)
    BY <1>2, <2>1
  <2> QED
    BY <2>1, <2>4, <2>5, <2>6, <2>7
<1> QED
  BY <1>6, <1>7, <1>8

LEMMA TimeAyahsKeeps ==
  ASSUME IInv, TimeAyahs
  PROVE  TInv'
<1>1. stage = "aligning" /\ pc = "returned" /\ Mapped # {}
      /\ at' = First /\ stage' = "filling" /\ UNCHANGED alignVars
  BY DEF TimeAyahs
<1>2. PICK mode \in {"smooth", "off"}, raw \in [1..m -> Heard] :
        /\ upgrade' = mode
        /\ words' = Upgraded(mode, raw)
        /\ segs' = [a \in First..Final |-> AyahTime(Upgraded(mode, raw), a)]
  BY DEF TimeAyahs
<1>3. PICK w : w = Upgraded(mode, raw)
  OBVIOUS
<1>4. m \in Nat /\ raw \in [1..m -> Words]
  BY AyahAssumption, Lengths DEF IInv, AlignTypeOK, Words
<1>5. w \in [1..m -> Words] /\ (mode = "smooth" => InTime(w))
  <2>1. CASE mode = "smooth"
    <3>1. w = Smooth(raw)
      BY <2>1, <1>3 DEF Upgraded
    <3> QED
      BY <3>1, <1>4, SmoothIsInOrder DEF InTime
  <2>2. CASE mode # "smooth"
    BY <2>2, <1>3, <1>4 DEF Upgraded
  <2> QED
    BY <2>1, <2>2
<1>6. /\ First' = First /\ Final' = Final /\ Mapped' = Mapped /\ m' = m /\ pc' = pc
      /\ \A k : TokenAyah(k)' = TokenAyah(k)
  BY <1>1, AlignmentStays
<1>7. PICK A \in Nat, Z \in Nat : A = First /\ Z = Final /\ A <= Z /\ A # NoAyah
  BY <1>1, SpanIsInOrder
<1>8. words' = w /\ segs' = [a \in A..Z |-> AyahTime(w, a)]
  BY <1>2, <1>3, <1>7
<1>9. ASSUME NEW a \in A..Z
      PROVE  /\ Both(segs'[a]) /\ OfItsWords(w, a, segs'[a])
             /\ segs'[a] = [start |-> segs'[a].start, end |-> segs'[a].end]
  <2>1. PICK t : t = AyahTime(w, a) /\ t = segs'[a]
    BY <1>8
  <2>2. t = [start |-> t.start, end |-> t.end]
    BY <2>1 DEF AyahTime
  <2>3. Both(t) /\ OfItsWords(w, a, t)
    BY <2>1, <1>5, TimesOfAnAyah
  <2> QED
    BY <2>1, <2>2, <2>3
<1>10. SegsTyped'
  BY <1>6, <1>7, <1>8, <1>9 DEF SegsTyped
<1>11. Timely' <=> InTime(w)
  BY <1>6, <1>8 DEF Timely, InTime
<1>12. Settled'
  BY <1>1, <1>2, <1>5, <1>6, <1>7, <1>8, <1>11 DEF Settled
<1>13. ASSUME NEW k \in 1..m, TokenAyah(k) # NoAyah, w[k].timed
       PROVE  /\ segs'[TokenAyah(k)].start # NoTime
              /\ ~w[k].est /\ InTime(w) =>
                   /\ \A a \in A..Z : a < TokenAyah(k) =>
                        segs'[a].start <= w[k].start /\ segs'[a].end <= w[k].start
                   /\ segs'[TokenAyah(k)].start <= w[k].start
                   /\ w[k].end <= segs'[TokenAyah(k)].end
  <2>1. TokenAyah(k) \in A..Z /\ Assigned(w, k) = TokenAyah(k)
    BY <1>1, <1>7, <1>13, SpanIsInOrder DEF Assigned
  <2>2. /\ segs'[TokenAyah(k)].start # NoTime
        /\ ~w[k].est => /\ segs'[TokenAyah(k)].start <= w[k].start
                        /\ w[k].end <= segs'[TokenAyah(k)].end
    BY <2>1, <1>9, <1>13 DEF OfItsWords
  <2>3. ASSUME InTime(w), NEW a \in A..Z, a < TokenAyah(k)
        PROVE  segs'[a].start <= w[k].start /\ segs'[a].end <= w[k].start
    <3>1. PICK v \in Nat : v = w[k].start
      BY <1>5 DEF Words
    <3>2. ASSUME NEW x \in 1..m, w[x].timed, Assigned(w, x) = a
          PROVE  w[x].start <= v /\ w[x].end <= v
      <4>1. a # NoAyah
        BY <1>7 DEF NoAyah
      <4>2. x < k
        BY <4>1, <3>2, <2>3, <1>1, <1>13, WordsAreApart
      <4>3. w[x].end <= v /\ w[x].start <= w[x].end
        BY <4>2, <3>1, <3>2, <2>3, <1>13 DEF InTime
      <4>4. w[x].start \in Nat /\ w[x].end \in Nat
        BY <1>5 DEF Words
      <4> QED
        BY <4>3, <4>4
    <3>3. CASE segs'[a].start = NoTime
      <4>1. Both(segs'[a])
        BY <1>9
      <4>2. segs'[a].start = NoTime /\ segs'[a].end = NoTime
        BY <4>1, <3>3 DEF Both
      <4> QED
        BY <4>2, <3>1 DEF NoTime
    <3>4. CASE segs'[a].start # NoTime
      <4>1. PICK x, y \in 1..m :
              /\ w[x].timed /\ Assigned(w, x) = a /\ segs'[a].start = w[x].start
              /\ w[y].timed /\ Assigned(w, y) = a /\ segs'[a].end = w[y].end
        BY <3>4, <1>9 DEF OfItsWords
      <4>2. w[x].start <= v /\ w[y].end <= v
        BY <4>1, <3>2
      <4> QED
        BY ONLY <4>1, <4>2, <3>1, Zenon
    <3> QED
      BY <3>3, <3>4
  <2> QED
    BY <2>2, <2>3
<1>14. ASSUME NEW k \in 1..m', Placed(k)'
       PROVE  Fitted(k)' /\ Reached(k)'
  <2>1. k \in 1..m /\ TokenAyah(k)' = TokenAyah(k) /\ TokenAyah(k) # NoAyah /\ w[k].timed
    BY <1>6, <1>8, <1>14 DEF Placed
  <2>2. Fitted(k)'
    BY <2>1, <1>6, <1>7, <1>8, <1>11, <1>13 DEF Fitted
  <2>3. \A a \in First'..at' - 1 : FALSE
    BY <1>1, <1>6, <1>7
  <2>4. Reached(k)'
    BY <2>1, <2>3, <1>1, <1>13 DEF Reached
  <2> QED
    BY <2>2, <2>4
<1> QED
  BY <1>10, <1>14, <1>12 DEF TInv

\* One step of a loop over the ayahs replaces the times of one of them.
LEMMA LoopStep ==
  ASSUME IInv, Settled, SegsTyped, NEW t, t = [start |-> t.start, end |-> t.end], Both(t),
         segs' = [segs EXCEPT ![at] = t], NEW next, Step(next)
  PROVE  /\ segs'[at] = t /\ \A a \in First..Final : a # at => segs'[a] = segs[a]
         /\ Settled' /\ SegsTyped'
         /\ \/ at < Final /\ at' = at + 1 /\ stage' = stage
            \/ at = Final /\ at' = First /\ stage' = next
         /\ First' = First /\ Final' = Final /\ m' = m /\ words' = words
         /\ Timely' = Timely
         /\ \A k : TokenAyah(k)' = TokenAyah(k)
<1>1. /\ First' = First /\ Final' = Final /\ Mapped' = Mapped /\ m' = m /\ pc' = pc
      /\ \A k : TokenAyah(k)' = TokenAyah(k)
  BY AlignmentStays DEF Step
<1>2. PICK A \in Nat, Z \in Nat, x \in Nat : A = First /\ Z = Final /\ x = at /\ x \in A..Z
  BY SpanIsInOrder DEF Settled
<1>3. words' = words /\ upgrade' = upgrade /\ Timely' = Timely
  BY <1>1 DEF Step, Timely, InTime
<1>4. \/ at < Final /\ at' = at + 1 /\ stage' = stage
      \/ at = Final /\ at' = First /\ stage' = next
  BY <1>2 DEF Step
<1>5. at' \in First..Final
  BY <1>2, <1>4
<1>6. DOMAIN segs = A..Z /\ \A a \in A..Z : segs[a] = [start |-> segs[a].start, end |-> segs[a].end]
  BY <1>2 DEF SegsTyped
<1>7. segs'[at] = t /\ \A a \in A..Z : a # at => segs'[a] = segs[a]
  BY <1>2, <1>6
<1>8. segs' = [a \in A..Z |-> segs'[a]]
  BY <1>2, <1>6
<1>9. \A a \in A..Z : segs'[a] = [start |-> segs'[a].start, end |-> segs'[a].end]
  BY <1>6, <1>7
<1>10. segs' = [a \in A..Z |-> [start |-> segs'[a].start, end |-> segs'[a].end]]
  BY <1>8, <1>9
<1>11. \A a \in A..Z : Both(segs'[a])
  BY <1>2, <1>7 DEF SegsTyped
<1>12. SegsTyped'
  BY <1>1, <1>2, <1>10, <1>11 DEF SegsTyped
<1>13. Settled'
  BY <1>1, <1>3, <1>5 DEF Settled
<1> QED
  BY <1>1, <1>2, <1>3, <1>4, <1>7, <1>12, <1>13

LEMMA FillNextKeeps ==
  ASSUME IInv, TInv, FillNext
  PROVE  TInv'
<1>1. stage = "filling" /\ Step("clipping") /\ segs' = [segs EXCEPT ![at] = Filled(segs[at])]
  BY DEF FillNext
<1>2. Settled /\ SegsTyped /\ \A k \in 1..m : Placed(k) => Fitted(k) /\ Reached(k)
  BY <1>1 DEF TInv, Timing
<1>3. PICK t : t = Filled(segs[at])
  OBVIOUS
<1>4. /\ t = [start |-> t.start, end |-> t.end] /\ Both(t)
      /\ \A k \in 1..m : Placed(k) =>
           /\ t.start # NoTime
           /\ at = TokenAyah(k) => t.start = segs[at].start /\ t.end = segs[at].end
           /\ at < TokenAyah(k) /\ ~words[k].est /\ Timely =>
                t.start <= words[k].start /\ t.end <= words[k].start
  BY <1>1, <1>3, FilledAyah
<1>5. /\ segs'[at] = t /\ \A a \in First..Final : a # at => segs'[a] = segs[a]
      /\ Settled' /\ SegsTyped'
      /\ \/ at < Final /\ at' = at + 1 /\ stage' = "filling"
         \/ at = Final /\ at' = First /\ stage' = "clipping"
      /\ First' = First /\ Final' = Final /\ m' = m /\ words' = words /\ Timely' = Timely
      /\ \A k : TokenAyah(k)' = TokenAyah(k)
  BY <1>1, <1>2, <1>3, <1>4, LoopStep
<1>6. PICK A \in Nat, Z \in Nat, x \in Nat : A = First /\ Z = Final /\ x = at /\ x \in A..Z
  BY <1>2, SpanIsInOrder DEF Settled
<1>7. ASSUME NEW k \in 1..m', Placed(k)'
      PROVE  Fitted(k)' /\ Reached(k)'
  <2>1. k \in 1..m /\ Placed(k) /\ TokenAyah(k)' = TokenAyah(k)
    BY <1>5, <1>7 DEF Placed
  <2>2. PICK b \in A..Z : b = TokenAyah(k)
    BY <2>1, <1>2, <1>6, SpanIsInOrder DEF Settled, Placed
  <2>3. Fitted(k) /\ Reached(k)
    BY <2>1, <1>2
  <2>4. segs'[b].start = segs[b].start /\ segs'[b].end = segs[b].end
    BY <2>1, <2>2, <1>4, <1>5, <1>6
  <2>5. ASSUME ~words[k].est, Timely, NEW a \in A..Z, a < b
        PROVE  segs'[a].start <= words[k].start /\ segs'[a].end <= words[k].start
    <3>1. CASE a = at
      BY <3>1, <2>1, <2>2, <2>5, <1>4, <1>5
    <3>2. CASE a # at
      BY <3>2, <2>2, <2>3, <2>5, <1>5, <1>6 DEF Fitted
    <3> QED
      BY <3>1, <3>2
  <2>6. Fitted(k)'
    BY <2>1, <2>2, <2>3, <2>4, <2>5, <1>5, <1>6 DEF Fitted
  <2>7. ASSUME NEW a \in A..at
        PROVE  segs'[a].start # NoTime
    <3>1. CASE a = at
      BY <3>1, <2>1, <1>4, <1>5
    <3>2. CASE a # at
      <4>1. a \in First..at - 1 /\ a \in First..Final
        BY <3>2, <1>6
      <4> QED
        BY <4>1, <3>2, <2>3, <1>1, <1>5 DEF Reached
    <3> QED
      BY <3>1, <3>2
  <2>8. Reached(k)'
    <3>1. segs'[b].start # NoTime
      BY <2>2, <2>3, <2>4 DEF Reached
    <3>2. CASE at < Final /\ at' = at + 1 /\ stage' = "filling"
      <4>1. \A a \in First'..at' - 1 : segs'[a].start # NoTime
        <5>1. at' - 1 = at
          BY <3>2, <1>6
        <5> QED
          BY <5>1, <2>7, <1>5, <1>6
      <4> QED
        BY <4>1, <3>1, <3>2, <2>1, <2>2 DEF Reached
    <3>3. CASE at = Final /\ at' = First /\ stage' = "clipping"
      <4>1. \A a \in First'..Final' : segs'[a].start # NoTime
        BY <3>3, <2>7, <1>5, <1>6
      <4>2. \A a \in First'..at' - 1 : FALSE
        BY <3>3, <1>5, <1>6
      <4> QED
        BY <4>1, <4>2, <3>1, <3>3, <2>1, <2>2 DEF Reached
    <3> QED
      BY <3>2, <3>3, <1>5
  <2> QED
    BY <2>6, <2>8
<1> QED
  BY <1>5, <1>7 DEF TInv

LEMMA ClipNextKeeps ==
  ASSUME IInv, TInv, ClipNext
  PROVE  TInv'
<1>1. stage = "clipping" /\ Step("done") /\ segs' = [segs EXCEPT ![at] = Clipped(segs[at])]
  BY DEF ClipNext
<1>2. Settled /\ SegsTyped /\ \A k \in 1..m : Placed(k) => Fitted(k) /\ Reached(k)
  BY <1>1 DEF TInv, Timing
<1>3. PICK t : t = Clipped(segs[at])
  OBVIOUS
<1>4. /\ t = [start |-> t.start, end |-> t.end] /\ Both(t)
      /\ \A k \in 1..m : Placed(k) =>
           /\ t.start # NoTime /\ t.start <= t.end
           /\ at > First => segs[at - 1].end <= t.start
           /\ at = TokenAyah(k) /\ ~words[k].est /\ Timely =>
                t.start <= words[k].start /\ words[k].end <= t.end
           /\ at < TokenAyah(k) /\ ~words[k].est /\ Timely =>
                t.start <= words[k].start /\ t.end <= words[k].start
  BY <1>1, <1>3, ClippedAyah
<1>5. /\ segs'[at] = t /\ \A a \in First..Final : a # at => segs'[a] = segs[a]
      /\ Settled' /\ SegsTyped'
      /\ \/ at < Final /\ at' = at + 1 /\ stage' = "clipping"
         \/ at = Final /\ at' = First /\ stage' = "done"
      /\ First' = First /\ Final' = Final /\ m' = m /\ words' = words /\ Timely' = Timely
      /\ \A k : TokenAyah(k)' = TokenAyah(k)
  BY <1>1, <1>2, <1>3, <1>4, LoopStep
<1>6. PICK A \in Nat, Z \in Nat, x \in Nat : A = First /\ Z = Final /\ x = at /\ x \in A..Z
  BY <1>2, SpanIsInOrder DEF Settled
<1>7. ASSUME NEW k \in 1..m', Placed(k)'
      PROVE  Fitted(k)' /\ Reached(k)'
  <2>1. k \in 1..m /\ Placed(k) /\ TokenAyah(k)' = TokenAyah(k)
    BY <1>5, <1>7 DEF Placed
  <2>2. PICK b \in A..Z : b = TokenAyah(k)
    BY <2>1, <1>2, <1>6, SpanIsInOrder DEF Settled, Placed
  <2>3. Fitted(k) /\ Reached(k)
    BY <2>1, <1>2
  <2>4. ASSUME ~words[k].est, Timely
        PROVE  segs'[b].start <= words[k].start /\ words[k].end <= segs'[b].end
    <3>1. CASE b = at
      BY <3>1, <2>1, <2>2, <2>4, <1>4, <1>5
    <3>2. CASE b # at
      BY <3>2, <2>2, <2>3, <2>4, <1>5, <1>6 DEF Fitted
    <3> QED
      BY <3>1, <3>2
  <2>5. ASSUME ~words[k].est, Timely, NEW a \in A..Z, a < b
        PROVE  segs'[a].start <= words[k].start /\ segs'[a].end <= words[k].start
    <3>1. CASE a = at
      BY <3>1, <2>1, <2>2, <2>5, <1>4, <1>5
    <3>2. CASE a # at
      BY <3>2, <2>2, <2>3, <2>5, <1>5, <1>6 DEF Fitted
    <3> QED
      BY <3>1, <3>2
  <2>6. Fitted(k)'
    BY <2>1, <2>2, <2>4, <2>5, <1>5, <1>6 DEF Fitted
  <2>7. ASSUME NEW a \in A..Z
        PROVE  segs'[a].start # NoTime
    <3>1. CASE a = at
      BY <3>1, <2>1, <1>4, <1>5
    <3>2. CASE a # at
      BY <3>2, <2>3, <1>1, <1>5, <1>6 DEF Reached
    <3> QED
      BY <3>1, <3>2
  <2>8. ASSUME NEW a \in A..at
        PROVE  Ordered(a)'
    <3>1. a \in A..Z /\ segs'[a].start # NoTime
      BY <1>6, <2>7
    <3>2. CASE a = at
      <4>1. segs'[a].start <= segs'[a].end
        BY <3>2, <2>1, <1>4, <1>5
      <4>2. a > First => segs'[a - 1].end <= segs'[a].start
        <5> SUFFICES ASSUME a > First PROVE segs'[a - 1].end <= segs'[a].start
          OBVIOUS
        <5>1. a - 1 \in First..Final /\ a - 1 # at
          BY <3>2, <1>6
        <5>2. segs'[a - 1] = segs[at - 1]
          BY <5>1, <3>2, <1>5
        <5> QED
          BY <5>2, <3>2, <2>1, <1>4, <1>5
      <4> QED
        BY <3>1, <4>1, <4>2, <1>5 DEF Ordered
    <3>3. CASE a # at
      <4>1. a \in First..at - 1
        BY <3>3, <1>6
      <4>2. Ordered(a) /\ segs'[a] = segs[a]
        BY <4>1, <3>1, <3>3, <2>3, <1>1, <1>5, <1>6 DEF Reached
      <4>3. a > First => segs'[a - 1] = segs[a - 1]
        <5> SUFFICES ASSUME a > First PROVE segs'[a - 1] = segs[a - 1]
          OBVIOUS
        <5>1. a - 1 \in First..Final /\ a - 1 # at
          BY <4>1, <1>6
        <5> QED
          BY <5>1, <1>5
      <4> QED
        BY <4>2, <4>3, <1>5 DEF Ordered
    <3> QED
      BY <3>2, <3>3
  <2>9. Reached(k)'
    <3>1. segs'[TokenAyah(k)'].start # NoTime /\ \A a \in First'..Final' : segs'[a].start # NoTime
      BY <2>1, <2>2, <2>7, <1>5, <1>6
    <3>2. CASE at < Final /\ at' = at + 1 /\ stage' = "clipping"
      <4>1. \A a \in First'..at' - 1 : Ordered(a)'
        <5>1. at' - 1 = at
          BY <3>2, <1>6
        <5> QED
          BY <5>1, <2>8, <1>5, <1>6
      <4> QED
        BY <4>1, <3>1, <3>2 DEF Reached
    <3>3. CASE at = Final /\ at' = First /\ stage' = "done"
      <4>1. \A a \in First'..Final' : Ordered(a)'
        BY <3>3, <2>8, <1>5, <1>6
      <4> QED
        BY <4>1, <3>1, <3>3 DEF Reached
    <3> QED
      BY <3>2, <3>3, <1>5
  <2> QED
    BY <2>6, <2>9
<1> QED
  BY <1>5, <1>7 DEF TInv

LEMMA TimesKeep == IInv /\ TInv /\ [Next]_vars => TInv'
<1> SUFFICES ASSUME IInv, TInv, [Next]_vars PROVE TInv'
  OBVIOUS
<1>1. CASE Align
  <2>1. pc # "returned"
    BY <1>1 DEF Align, AlignNext, DeadRow, StartRow, FillCell, ChooseEnd, TraceSub,
      TraceDel, TraceIns, Tracing, EndTrace, Return
  <2>2. ~Timing
    BY <2>1 DEF TInv, Settled
  <2>3. stage' = stage
    BY <1>1 DEF Align, timeVars
  <2> QED
    BY <2>2, <2>3 DEF TInv, Timing
<1>2. CASE NothingMapped \/ UpgradeFails
  BY <1>2 DEF NothingMapped, UpgradeFails, TInv, Timing
<1>3. CASE TimeAyahs
  BY <1>3, TimeAyahsKeeps
<1>4. CASE FillNext
  BY <1>4, FillNextKeeps
<1>5. CASE ClipNext
  BY <1>5, ClipNextKeeps
<1>6. CASE UNCHANGED vars
  <2>1. UNCHANGED alignVars /\ UNCHANGED <<words, segs, at, upgrade, stage>>
    BY <1>6 DEF vars, timeVars
  <2>2. /\ First' = First /\ Final' = Final /\ Mapped' = Mapped /\ m' = m /\ pc' = pc
        /\ \A k : TokenAyah(k)' = TokenAyah(k)
    BY <2>1, AlignmentStays
  <2>3. Timely' = Timely
    BY <2>1, <2>2 DEF Timely, InTime
  <2>4. Timing => (Settled => Settled') /\ (SegsTyped => SegsTyped')
    BY <2>1, <2>2, <2>3 DEF Settled, SegsTyped
  <2>5. ASSUME NEW k, Placed(k)', Placed(k) => Fitted(k) /\ Reached(k)
        PROVE  Fitted(k)' /\ Reached(k)'
    <3>1. Placed(k)
      BY <2>1, <2>2, <2>5 DEF Placed
    <3>2. Fitted(k)'
      BY <3>1, <2>1, <2>2, <2>5, <2>3 DEF Fitted
    <3>3. Reached(k)'
      BY <3>1, <2>1, <2>2, <2>5 DEF Reached, Ordered
    <3> QED
      BY <3>2, <3>3
  <2>6. SUFFICES ASSUME Timing' PROVE TInv'
    BY DEF TInv
  <2>7. Timing
    BY <2>1, <2>6 DEF Timing
  <2>8. \A k \in 1..m' : Placed(k)' => Fitted(k)' /\ Reached(k)'
    BY <2>2, <2>5, <2>7 DEF TInv
  <2> QED
    BY <2>4, <2>7, <2>8 DEF TInv
<1> QED
  BY <1>1, <1>2, <1>3, <1>4, <1>5, <1>6 DEF Next

LEMMA TimesFit == TInv => SegmentsFitTheWords
<1> SUFFICES ASSUME TInv, stage = "done", NEW k \in 1..m,
                    TokenAyah(k) # NoAyah, words[k].timed
             PROVE  /\ \A a \in First..Final : Ordered(a)
                    /\ ~words[k].est /\ (upgrade = "smooth" \/ InTime(words)) =>
                         /\ segs[TokenAyah(k)].start <= words[k].start
                         /\ words[k].end <= segs[TokenAyah(k)].end
  BY DEF SegmentsFitTheWords
<1> QED
  BY DEF TInv, Timing, Settled, Timely, Placed, Fitted, Reached

\* Whatever the words, their times, the alignment and the setting, the ayahs of the
\* span come in order, and each has the real times of its words if these are smoothed
\* or come in order (SegmentsFitTheWords).
THEOREM SegmentsFit == Spec => []SegmentsFitTheWords
<1>1. Init => IInv /\ TInv
  BY InitHolds DEF Init, TInv, Timing
<1>2. (IInv /\ TInv) /\ [Next]_vars => (IInv /\ TInv)'
  BY StepKeeps, TimesKeep
<1> QED
  BY <1>1, <1>2, TimesFit, PTL DEF Spec

-----------------------------------------------------------------------------
(* Sums                                                                    *)

\* s is the recursive function that Sums chooses.
IsSums(s, f, N) == s = [r \in 0..N |-> IF r = 0 THEN 0 ELSE s[r - 1] + f[r]]

\* There is one, by induction on N over the least number without.
LEMMA SumsExist ==
  ASSUME NEW N \in Nat, NEW f
  PROVE  \E s : IsSums(s, f, N)
<1> DEFINE Have(k) == \E s : IsSums(s, f, k)
           T == {k \in 0..N : ~Have(k)}
<1>1. SUFFICES ASSUME T # {} PROVE FALSE
  <2>1. N \in 0..N
    OBVIOUS
  <2> HIDE DEF Have
  <2>2. Have(N)
    BY <1>1, <2>1
  <2> QED
    BY <2>2 DEF Have
<1>2. PICK k \in T : \A y \in T : k <= y
  <2>1. T \subseteq Nat
    OBVIOUS
  <2> QED
    BY <1>1, <2>1, MinIsLeast
<1>3. k # 0
  <2>1. IsSums([r \in 0..0 |-> 0], f, 0)
    BY DEF IsSums
  <2>2. Have(0)
    BY <2>1
  <2> HIDE DEF Have
  <2> QED
    BY <2>2
<1>4. k - 1 \in 0..N /\ k \in 1..N
  BY <1>3
<1>5. Have(k - 1)
  <2> HIDE DEF Have
  <2>1. k - 1 \notin T
    <3> SUFFICES ASSUME k - 1 \in T PROVE FALSE
      OBVIOUS
    <3>1. k <= k - 1
      BY <1>2
    <3> QED
      BY <3>1, <1>4
  <2> QED
    BY <2>1, <1>4
<1>6. PICK g : IsSums(g, f, k - 1)
  BY <1>5
<1> DEFINE h == [r \in 0..k |-> IF r = k THEN g[k - 1] + f[k] ELSE g[r]]
<1>7. ASSUME NEW r \in 0..k
      PROVE  h[r] = IF r = 0 THEN 0 ELSE h[r - 1] + f[r]
  <2>1. CASE r = k
    <3>1. k - 1 \in 0..k /\ k - 1 # k
      BY <1>4
    <3>2. h[k] = g[k - 1] + f[k] /\ h[k - 1] = g[k - 1]
      BY <3>1, <1>4
    <3> QED
      BY <3>2, <2>1, <1>3
  <2>2. CASE r # k
    <3>1. r \in 0..k - 1
      BY <2>2, <1>4
    <3>2. g[r] = IF r = 0 THEN 0 ELSE g[r - 1] + f[r]
      BY <3>1, <1>6 DEF IsSums
    <3>3. h[r] = g[r]
      BY <2>2
    <3>4. r # 0 => r - 1 \in 0..k /\ r - 1 # k
      BY <3>1, <1>4
    <3>5. r # 0 => h[r - 1] = g[r - 1]
      BY <3>4
    <3> QED
      BY <3>2, <3>3, <3>5
  <2> QED
    BY <2>1, <2>2
<1>8. IsSums(h, f, k)
  BY <1>7 DEF IsSums
<1>9. Have(k)
  BY <1>8
<1> HIDE DEF Have
<1> QED
  BY <1>9, <1>2

LEMMA SumsAre ==
  ASSUME NEW N \in Nat, NEW f
  PROVE  \E s : /\ s = Sums(f, N) /\ s[0] = 0
                /\ \A r \in 1..N : s[r] = s[r - 1] + f[r]
<1>1. PICK s : s = [r \in 0..N |-> IF r = 0 THEN 0 ELSE s[r - 1] + f[r]]
  BY SumsExist DEF IsSums
<1>2. Sums(f, N) = [r \in 0..N |-> IF r = 0 THEN 0 ELSE Sums(f, N)[r - 1] + f[r]]
  BY <1>1 DEF Sums
<1>3. PICK c : c = Sums(f, N)
  OBVIOUS
<1>4. c = [r \in 0..N |-> IF r = 0 THEN 0 ELSE c[r - 1] + f[r]]
  BY <1>2, <1>3
<1>5. c[0] = 0
  <2>1. 0 \in 0..N
    OBVIOUS
  <2> QED
    BY <1>4, <2>1
<1>6. ASSUME NEW r \in 1..N PROVE c[r] = c[r - 1] + f[r]
  <2>1. r \in 0..N /\ r # 0
    OBVIOUS
  <2> QED
    BY <1>4, <2>1
<1> QED
  BY <1>3, <1>5, <1>6

\* Numbers have sums that are numbers.
LEMMA SumsType ==
  ASSUME NEW N \in Nat, NEW f \in [1..N -> Nat]
  PROVE  \A k \in 0..N : Sums(f, N)[k] \in Nat
<1> DEFINE T == {k \in 0..N : Sums(f, N)[k] \notin Nat}
<1>1. SUFFICES ASSUME T # {} PROVE FALSE
  OBVIOUS
<1>2. PICK k \in T : \A y \in T : k <= y
  <2>1. T \subseteq Nat
    OBVIOUS
  <2> QED
    BY <1>1, <2>1, MinIsLeast
<1>3. PICK s : s = Sums(f, N) /\ s[0] = 0 /\ \A r \in 1..N : s[r] = s[r - 1] + f[r]
  BY SumsAre
<1>4. k # 0
  BY <1>3
<1>5. k \in 1..N /\ k - 1 \in 0..N /\ ~(k <= k - 1)
  BY <1>4
<1>6. s[k - 1] \in Nat
  <2>1. k - 1 \notin T
    BY <1>2, <1>5
  <2> QED
    BY <2>1, <1>3, <1>5
<1>7. s[k] \in Nat
  BY <1>3, <1>5, <1>6
<1> QED
  BY <1>3, <1>7

\* One more in one place is one more in all sums that it is in.
LEMMA SumsMove ==
  ASSUME NEW N \in Nat, NEW f \in [1..N -> Nat], NEW p \in 1..N, NEW x \in Nat,
         NEW g, g = [f EXCEPT ![p] = f[p] + x]
  PROVE  Sums(g, N)[N] = Sums(f, N)[N] + x
<1> DEFINE Adds(k) == Sums(g, N)[k] = Sums(f, N)[k] + (IF k >= p THEN x ELSE 0)
           T == {k \in 0..N : ~Adds(k)}
<1>1. SUFFICES ASSUME T # {} PROVE FALSE
  <2>1. N \in 0..N /\ N >= p
    OBVIOUS
  <2>2. Adds(N)
    BY <1>1, <2>1
  <2> QED
    BY <2>1, <2>2
<1>2. PICK k \in T : \A y \in T : k <= y
  <2>1. T \subseteq Nat
    OBVIOUS
  <2> QED
    BY <1>1, <2>1, MinIsLeast
<1>3. PICK s : s = Sums(f, N) /\ s[0] = 0 /\ \A r \in 1..N : s[r] = s[r - 1] + f[r]
  BY SumsAre
<1>4. PICK t : t = Sums(g, N) /\ t[0] = 0 /\ \A r \in 1..N : t[r] = t[r - 1] + g[r]
  BY ONLY N \in Nat, SumsAre
<1>5. \A r \in 0..N : s[r] \in Nat
  BY <1>3, SumsType
<1>6. k # 0
  BY <1>3, <1>4
<1>7. k \in 1..N /\ k - 1 \in 0..N /\ ~(k <= k - 1)
  BY <1>6
<1>8. t[k - 1] = s[k - 1] + (IF k - 1 >= p THEN x ELSE 0)
  <2>1. k - 1 \notin T
    BY <1>2, <1>7
  <2> QED
    BY <2>1, <1>3, <1>4, <1>7
<1>9. g[k] = IF k = p THEN f[k] + x ELSE f[k]
  BY <1>7
<1>10. t[k] = s[k] + (IF k >= p THEN x ELSE 0)
  <2>1. s[k - 1] \in Nat /\ f[k] \in Nat
    BY <1>5, <1>7
  <2>2. t[k] = t[k - 1] + g[k] /\ s[k] = s[k - 1] + f[k]
    BY <1>3, <1>4, <1>7
  <2> QED
    BY <2>1, <2>2, <1>7, <1>8, <1>9
<1> QED
  BY <1>3, <1>4, <1>10

LEMMA SumsOfNothing ==
  ASSUME NEW N \in Nat
  PROVE  Sums([r \in 1..N |-> 0], N)[N] = 0
<1> DEFINE f == [r \in 1..N |-> 0]
           T == {k \in 0..N : Sums(f, N)[k] # 0}
<1>1. SUFFICES ASSUME T # {} PROVE FALSE
  OBVIOUS
<1>2. PICK k \in T : \A y \in T : k <= y
  <2>1. T \subseteq Nat
    OBVIOUS
  <2> QED
    BY <1>1, <2>1, MinIsLeast
<1>3. PICK s : s = Sums(f, N) /\ s[0] = 0 /\ \A r \in 1..N : s[r] = s[r - 1] + f[r]
  BY SumsAre
<1>4. k # 0
  BY <1>3
<1>5. k \in 1..N /\ k - 1 \in 0..N /\ ~(k <= k - 1)
  BY <1>4
<1>6. s[k - 1] = 0
  <2>1. k - 1 \notin T
    BY <1>2, <1>5
  <2> QED
    BY <2>1, <1>3, <1>5
<1>7. s[k] = 0
  BY <1>3, <1>5, <1>6
<1> QED
  BY <1>3, <1>7

-----------------------------------------------------------------------------
(* The rows of the table                                                    *)

\* What a cell holds.
Cells == [cost : Nat, match : Nat]

\* A cell that is no worse than a path of cost x with y matches.
NoWorse(c, x, y) == c.cost <= x /\ (c.cost = x => c.match >= y)

\* An edge costs the cell that it leads to no more than it costs the path.
LEMMA EdgeKeeps ==
  ASSUME NEW c \in Cells, NEW x \in Nat, NEW y \in Nat, NoWorse(c, x, y),
         NEW d \in Nat, NEW e \in Nat
  PROVE  /\ Cell(Plus(c.cost, d), c.match + e) \in Cells
         /\ NoWorse(Cell(Plus(c.cost, d), c.match + e), x + d, y + e)
<1>1. PICK f \in Nat, g \in Nat : c = [cost |-> f, match |-> g]
  BY DEF Cells
<1>2. Inf \in Nat
  BY AlignmentAssumption
<1>3. c.cost = f /\ c.match = g
  BY <1>1
<1>4. PICK h \in Nat : h = Plus(f, d) /\ (h = f + d \/ (h = Inf /\ f >= Inf))
  BY <1>2 DEF Plus
<1>5. Cell(Plus(c.cost, d), c.match + e) = [cost |-> h, match |-> g + e]
  BY <1>3, <1>4 DEF Cell
<1>6. f <= x /\ (f = x => g >= y)
  BY <1>3 DEF NoWorse
<1>7. h <= x + d /\ (h = x + d => g + e >= y + e)
  BY <1>2, <1>4, <1>6
<1> QED
  BY <1>5, <1>7 DEF NoWorse, Cells

\* What is not beaten is no worse.
LEMMA UnbeatenIsNoWorse ==
  ASSUME NEW c \in Cells, NEW b \in Cells, ~Beats(b, c),
         NEW x \in Nat, NEW y \in Nat, NoWorse(b, x, y)
  PROVE  NoWorse(c, x, y)
BY DEF Cells, Beats, NoWorse

\* The band of every row.
LEMMA RowsHaveBands ==
  ASSUME IInv
  PROVE  /\ offset \in Int /\ band \in Nat /\ ObsIns \in Nat /\ RefDel \in Nat /\ Inf \in Nat
         /\ \A r \in Nat : FirstOf(r) \in 1..n /\ LastOf(r) \in Int /\ LastOf(r) <= n
<1>1. m \in Nat /\ m > 0 /\ n \in Nat /\ n > 0
  BY Lengths DEF IInv, AlignTypeOK
<1>2. /\ Offsets \subseteq Int /\ Bands \subseteq Nat
      /\ ObsIns \in Nat /\ RefDel \in Nat /\ Inf \in Nat
  BY AlignmentAssumption, Zenon
<1>3. offset \in Int /\ band \in Nat
  BY <1>2 DEF IInv, AlignTypeOK
<1> QED
  BY <1>1, <1>2, <1>3, BandInRow

\* What it costs to hear one word for another.
LEMMA CostsAreNumbers ==
  ASSUME IInv
  PROVE  \A r \in 1..m, k \in 1..n : Sub(r, k) \in Nat
<1>1. obs \in Transcripts /\ refr \in References /\ m = Len(obs) /\ n = Len(refr.ids)
  BY DEF IInv, AlignTypeOK, m, n, ref
<1> QED
  BY <1>1, CostAssumption DEF Sub, ref

\* Where the inputs are the same, so are the paths.
LEMMA PathsStay ==
  ASSUME UNCHANGED input
  PROVE  /\ m' = m /\ n' = n
         /\ \A r : FirstOf(r)' = FirstOf(r) /\ LastOf(r)' = LastOf(r)
         /\ \A r, k : Matches(r, k)' = Matches(r, k) /\ Sub(r, k)' = Sub(r, k)
         /\ \A leave, subs, r :
              /\ RowInBand(leave, subs, r)' = RowInBand(leave, subs, r)
              /\ EntryCost(leave, subs, r)' = EntryCost(leave, subs, r)
              /\ RowMatch(leave, subs, r)' = RowMatch(leave, subs, r)
         /\ \A leave, subs :
              /\ PathCosts(leave, subs)' = PathCosts(leave, subs)
              /\ PathMatches(leave, subs)' = PathMatches(leave, subs)
<1>1. obs' = obs /\ refr' = refr /\ offset' = offset /\ band' = band
  BY DEF input
<1>2. m' = m /\ n' = n /\ ref' = ref
  BY <1>1 DEF m, n, ref
<1>3. \A r : FirstOf(r)' = FirstOf(r) /\ LastOf(r)' = LastOf(r)
  BY <1>1, <1>2 DEF FirstOf, LastOf, Larger, Smaller
<1>4. \A r, k : Matches(r, k)' = Matches(r, k) /\ Sub(r, k)' = Sub(r, k)
  BY <1>1, <1>2 DEF Matches, Sub
<1>5. \A leave, subs, r :
        /\ RowInBand(leave, subs, r)' = RowInBand(leave, subs, r)
        /\ EntryCost(leave, subs, r)' = EntryCost(leave, subs, r)
        /\ RowMatch(leave, subs, r)' = RowMatch(leave, subs, r)
  BY <1>3, <1>4 DEF RowInBand, EntryCost, RowMatch, Enter
<1>6. \A leave, subs, r : RowCost(leave, subs, r)' = RowCost(leave, subs, r)
  BY <1>5 DEF RowCost, Enter
<1>7. \A leave, subs :
        /\ [r \in 1..m' |-> RowCost(leave, subs, r)'] = [r \in 1..m |-> RowCost(leave, subs, r)]
        /\ [r \in 1..m' |-> RowMatch(leave, subs, r)'] = [r \in 1..m |-> RowMatch(leave, subs, r)]
  BY <1>2, <1>5, <1>6
<1>8. \A leave, subs :
        /\ PathCosts(leave, subs)' = PathCosts(leave, subs)
        /\ PathMatches(leave, subs)' = PathMatches(leave, subs)
  BY <1>2, <1>7 DEF PathCosts, PathMatches
<1> QED
  BY <1>2, <1>3, <1>4, <1>5, <1>8

\* No path through row r gets to a cell of the row p for less.
RowIsBest(p, r) ==
  \A leave \in [0..m -> 0..n], subs \in SUBSET (1..m) :
    (\A q \in 1..r : RowInBand(leave, subs, q)) =>
      /\ PathCosts(leave, subs)[r] \in Nat /\ PathMatches(leave, subs)[r] \in Nat
      /\ NoWorse(p[leave[r]], PathCosts(leave, subs)[r], PathMatches(leave, subs)[r])

\* A path that has come to column l of row r, where it is at the moment.
Comes(leave, subs, r, l) ==
  /\ Enter(leave, subs, r) <= l
  /\ Enter(leave, subs, r)..l \subseteq {0} \union FirstOf(r)..LastOf(r)

\* What the path has cost in column l.
CostThere(leave, subs, r, l) ==
  PathCosts(leave, subs)[r - 1] + EntryCost(leave, subs, r)
  + (l - Enter(leave, subs, r)) * RefDel

\* The matches of the path in the row.
MatchesThere(leave, subs, r) ==
  PathMatches(leave, subs)[r - 1] + RowMatch(leave, subs, r)

\* The same for the cells of row r, before column k, of a row p that is being filled.
CellsAreBest(p, r, k) ==
  \A leave \in [0..m -> 0..n], subs \in SUBSET (1..m) :
    (\A q \in 1..r - 1 : RowInBand(leave, subs, q)) =>
      \A l \in 0..n : l < k /\ Comes(leave, subs, r, l) =>
        NoWorse(p[l], CostThere(leave, subs, r, l), MatchesThere(leave, subs, r))

\* The row that was filled last is the best, and so is what is filled of the next.
\* The end of the path is no worse than any cell of the last row.
Best ==
  /\ pc \in {"row", "cells"} =>
       /\ prev \in [0..n -> Cells] /\ curr \in [0..n -> Cells]
       /\ RowIsBest(prev, i - 1)
  /\ pc = "cells" => FirstOf(i) <= j /\ j <= LastOf(i) /\ CellsAreBest(curr, i, j)
  /\ pc \in {"trace", "aligned"} =>
       /\ prev \in [0..n -> Cells] /\ RowIsBest(prev, m) /\ cost = prev[jEnd].cost
       /\ \A l \in 0..n : ~Beats(prev[l], prev[jEnd])

LEMMA RowIsBestStays ==
  ASSUME UNCHANGED input, NEW p, NEW r, RowIsBest(p, r)
  PROVE  RowIsBest(p, r)'
<1>1. m' = m /\ n' = n
  BY PathsStay
<1> SUFFICES ASSUME NEW leave \in [0..m -> 0..n], NEW subs \in SUBSET (1..m),
                    \A q \in 1..r : RowInBand(leave, subs, q)'
             PROVE  /\ PathCosts(leave, subs)'[r] \in Nat
                    /\ PathMatches(leave, subs)'[r] \in Nat
                    /\ NoWorse(p[leave[r]], PathCosts(leave, subs)'[r],
                               PathMatches(leave, subs)'[r])
  BY <1>1 DEF RowIsBest, NoWorse
<1>2. \A q \in 1..r : RowInBand(leave, subs, q)
  BY PathsStay
<1> QED
  BY <1>2, PathsStay DEF RowIsBest

LEMMA CellsAreBestStays ==
  ASSUME UNCHANGED input, NEW p, NEW r, NEW k, CellsAreBest(p, r, k)
  PROVE  CellsAreBest(p, r, k)'
<1>1. \A leave, subs, q, l :
        /\ Comes(leave, subs, q, l)' = Comes(leave, subs, q, l)
        /\ CostThere(leave, subs, q, l)' = CostThere(leave, subs, q, l)
        /\ MatchesThere(leave, subs, q)' = MatchesThere(leave, subs, q)
  BY PathsStay DEF Comes, CostThere, MatchesThere, Enter
<1> QED
  BY <1>1, PathsStay DEF CellsAreBest

\* How a path enters a row.
LEMMA Entered ==
  ASSUME IInv, NEW leave \in [0..m -> 0..n], NEW subs \in SUBSET (1..m), NEW r \in 1..m,
         NEW l \in 0..n, Comes(leave, subs, r, l)
  PROVE  /\ leave[r - 1] \in 0..n
         /\ Enter(leave, subs, r) \in 0..n
         /\ EntryCost(leave, subs, r) \in Nat /\ RowMatch(leave, subs, r) \in {0, 1}
         /\ r \in subs =>
              LET e == Enter(leave, subs, r)
              IN  /\ e \in 1..n /\ leave[r - 1] = e - 1
                  /\ EntryCost(leave, subs, r) = Sub(r, e)
                  /\ RowMatch(leave, subs, r) = IF Matches(r, e) THEN 1 ELSE 0
         /\ r \notin subs =>
              /\ Enter(leave, subs, r) = leave[r - 1]
              /\ EntryCost(leave, subs, r) = ObsIns /\ RowMatch(leave, subs, r) = 0
<1>1. m \in Nat /\ n \in Nat
  BY Lengths DEF IInv, AlignTypeOK
<1>2. r - 1 \in 0..m
  BY <1>1
<1>3. PICK x \in 0..n : x = leave[r - 1]
  BY <1>2
<1>4. ObsIns \in Nat
  BY AlignmentAssumption
<1>5. CASE r \in subs
  <2>1. Enter(leave, subs, r) = x + 1
    BY <1>3, <1>5 DEF Enter
  <2>2. x + 1 \in 1..n /\ x = (x + 1) - 1
    BY <2>1, <1>1 DEF Comes
  <2>3. Sub(r, x + 1) \in Nat
    BY <2>2, CostsAreNumbers
  <2>4. /\ EntryCost(leave, subs, r) = Sub(r, x + 1)
        /\ RowMatch(leave, subs, r) = IF Matches(r, x + 1) THEN 1 ELSE 0
    BY <2>1, <1>5 DEF EntryCost, RowMatch
  <2> QED
    BY <1>3, <1>5, <2>1, <2>2, <2>3, <2>4
<1>6. CASE r \notin subs
  BY <1>3, <1>4, <1>6 DEF Enter, EntryCost, RowMatch
<1> QED
  BY <1>5, <1>6

LEMMA DeadRowIsBest ==
  ASSUME IInv, Best, DeadRow
  PROVE  Best'
<1>1. /\ UNCHANGED input /\ pc = "row" /\ pc' = "row" /\ i' = i + 1 /\ curr' = curr
      /\ prev' = [k \in 0..n |-> Dead] /\ FirstOf(i) > LastOf(i) /\ i <= m
  BY DEF DeadRow, result
<1>2. m \in Nat /\ n \in Nat /\ i \in 1..m /\ n' = n
  BY <1>1, Lengths, PathsStay DEF IInv, AlignTypeOK, Loops
<1>3. Dead \in Cells
  BY AlignmentAssumption DEF Dead, Cell, Cells
<1>4. PICK p : p = prev'
  OBVIOUS
<1>5. RowIsBest(p, i)
  <2> SUFFICES ASSUME NEW leave \in [0..m -> 0..n], NEW subs \in SUBSET (1..m),
                      \A q \in 1..i : RowInBand(leave, subs, q)
               PROVE  FALSE
    BY DEF RowIsBest
  <2>1. RowInBand(leave, subs, i)
    BY <1>2
  <2>2. FirstOf(i) <= LastOf(i)
    BY <2>1 DEF RowInBand
  <2>3. FirstOf(i) \in Int /\ LastOf(i) \in Int
    <3>1. i \in Nat
      BY <1>2
    <3>2. FirstOf(i) \in 1..n /\ LastOf(i) \in Int
      BY <3>1, RowsHaveBands
    <3> QED
      BY <3>2
  <2> QED
    BY <2>2, <2>3, <1>1
<1>6. PICK r : r = i
  OBVIOUS
<1>7. RowIsBest(p, r)'
  BY <1>1, <1>5, <1>6, RowIsBestStays
<1>8. r = i' - 1
  BY <1>1, <1>2, <1>6
<1>9. RowIsBest(prev, i - 1)'
  BY <1>4, <1>7, <1>8 DEF RowIsBest
<1>10. prev' \in [0..n' -> Cells] /\ curr' \in [0..n' -> Cells]
  BY <1>1, <1>2, <1>3 DEF Best
<1> QED
  BY <1>1, <1>9, <1>10 DEF Best

-----------------------------------------------------------------------------
(* Filling keeps the rows the best                                         *)

\* What a path costs grows row by row.
LEMMA PathsGrow ==
  ASSUME m \in Nat, NEW leave, NEW subs
  PROVE  /\ PathCosts(leave, subs)[0] = 0 /\ PathMatches(leave, subs)[0] = 0
         /\ \A r \in 1..m :
              /\ PathCosts(leave, subs)[r] =
                   PathCosts(leave, subs)[r - 1] + RowCost(leave, subs, r)
              /\ PathMatches(leave, subs)[r] = MatchesThere(leave, subs, r)
<1> DEFINE f == [r \in 1..m |-> RowCost(leave, subs, r)]
           g == [r \in 1..m |-> RowMatch(leave, subs, r)]
<1>1. PICK s : /\ s = Sums(f, m) /\ s[0] = 0
               /\ \A r \in 1..m : s[r] = s[r - 1] + f[r]
  BY SumsAre
<1>2. PICK t : /\ t = Sums(g, m) /\ t[0] = 0
               /\ \A r \in 1..m : t[r] = t[r - 1] + g[r]
  BY SumsAre
<1>3. s = PathCosts(leave, subs) /\ t = PathMatches(leave, subs)
  BY <1>1, <1>2 DEF PathCosts, PathMatches
<1> QED
  BY <1>1, <1>2, <1>3 DEF MatchesThere

LEMMA InitIsBest ==
  ASSUME AlignInit, IInv
  PROVE  Best
<1>1. m \in Nat /\ n \in Nat /\ Inf \in Nat
  BY Lengths, RowsHaveBands DEF IInv, AlignTypeOK
<1>2. /\ prev = [k \in 0..n |-> Cell(0, 0)] /\ curr = [k \in 0..n |-> Dead]
      /\ pc = "row" /\ i = 1
  BY DEF AlignInit
<1>3. Cell(0, 0) \in Cells /\ Dead \in Cells
  BY <1>1 DEF Cell, Dead, Cells
<1>4. NoWorse(Cell(0, 0), 0, 0)
  BY DEF NoWorse, Cell
<1>5. RowIsBest(prev, 0)
  <2> SUFFICES ASSUME NEW leave \in [0..m -> 0..n], NEW subs \in SUBSET (1..m)
               PROVE  /\ PathCosts(leave, subs)[0] \in Nat /\ PathMatches(leave, subs)[0] \in Nat
                      /\ NoWorse(prev[leave[0]], PathCosts(leave, subs)[0],
                                 PathMatches(leave, subs)[0])
    BY DEF RowIsBest
  <2>1. PathCosts(leave, subs)[0] = 0 /\ PathMatches(leave, subs)[0] = 0
    BY <1>1, PathsGrow
  <2>2. 0 \in 0..m
    BY <1>1
  <2>3. prev[leave[0]] = Cell(0, 0)
    BY <2>2, <1>2
  <2> QED
    BY <2>1, <2>3, <1>4
<1>6. RowIsBest(prev, i - 1)
  <2>1. i - 1 = 0
    BY <1>2
  <2> QED
    BY <2>1, <1>5
<1> QED
  BY <1>2, <1>3, <1>6 DEF Best

LEMMA StartRowIsBest ==
  ASSUME IInv, Best, StartRow
  PROVE  Best'
<1>1. /\ UNCHANGED input /\ pc = "row" /\ pc' = "cells" /\ i' = i /\ prev' = prev
      /\ j' = FirstOf(i) /\ FirstOf(i) <= LastOf(i) /\ i <= m
      /\ curr' = [k \in 0..n |->
                    IF k = 0 THEN Cell(Plus(prev[0].cost, ObsIns), prev[0].match) ELSE Dead]
  BY DEF StartRow
<1>2. m \in Nat /\ n \in Nat /\ n > 0 /\ i \in 1..m /\ n' = n
  BY <1>1, Lengths, PathsStay DEF IInv, AlignTypeOK, Loops
<1>3. PICK F \in 1..n, L \in Int : F = FirstOf(i) /\ L = LastOf(i)
  <2>1. i \in Nat
    BY <1>2
  <2> QED
    BY <2>1, RowsHaveBands
<1>4. prev \in [0..n -> Cells] /\ RowIsBest(prev, i - 1)
  BY <1>1 DEF Best
<1>5. ObsIns \in Nat /\ RefDel \in Nat /\ Inf \in Nat
  BY RowsHaveBands
<1>6. 0 \in 0..n /\ prev[0] \in Cells
  BY <1>2, <1>4
<1>7. prev[0].match + 0 = prev[0].match /\ NoWorse(prev[0], prev[0].cost, prev[0].match)
      /\ prev[0].cost \in Nat /\ prev[0].match \in Nat
  BY <1>6 DEF Cells, NoWorse
<1>8. Cell(Plus(prev[0].cost, ObsIns), prev[0].match) \in Cells
  <2>1. 0 \in Nat
    OBVIOUS
  <2>2. Cell(Plus(prev[0].cost, ObsIns), prev[0].match + 0) \in Cells
    BY <2>1, <1>5, <1>6, <1>7, EdgeKeeps
  <2> QED
    BY <2>2, <1>7
<1>9. Dead \in Cells
  BY <1>5 DEF Dead, Cell, Cells
<1>10. PICK c : c = curr'
  OBVIOUS
<1>11. c \in [0..n -> Cells]
  BY <1>1, <1>8, <1>9, <1>10
<1>12. CellsAreBest(c, i, F)
  <2> SUFFICES ASSUME NEW leave \in [0..m -> 0..n], NEW subs \in SUBSET (1..m),
                      \A q \in 1..i - 1 : RowInBand(leave, subs, q),
                      NEW l \in 0..n, l < F, Comes(leave, subs, i, l)
               PROVE  NoWorse(c[l], CostThere(leave, subs, i, l), MatchesThere(leave, subs, i))
    BY DEF CellsAreBest
  <2>1. PICK e \in 0..n : e = Enter(leave, subs, i) /\ e <= l
    BY <1>2, Entered DEF Comes
  <2>2. e..l \subseteq {0} \union F..L
    BY <2>1, <1>3 DEF Comes
  <2>3. l = 0
    <3>1. l \in e..l
      BY <2>1
    <3> QED
      BY <3>1, <2>2, <1>3
  <2>4. e = 0
    BY <2>1, <2>3
  <2>5. /\ i \notin subs /\ leave[i - 1] = 0
        /\ EntryCost(leave, subs, i) = ObsIns /\ RowMatch(leave, subs, i) = 0
    <3>1. i \in subs => e \in 1..n
      BY <2>1, <1>2, Entered
    <3>2. i \notin subs
      BY <3>1, <2>4
    <3> QED
      BY <3>2, <2>1, <2>4, <1>2, Entered
  <2>6. PICK x \in Nat, y \in Nat :
          /\ x = PathCosts(leave, subs)[i - 1] /\ y = PathMatches(leave, subs)[i - 1]
          /\ NoWorse(prev[0], x, y)
    BY <2>5, <1>4 DEF RowIsBest
  <2>7. CostThere(leave, subs, i, l) = x + ObsIns + (0 - 0) * RefDel
        /\ MatchesThere(leave, subs, i) = y + 0
    BY <2>1, <2>3, <2>4, <2>5, <2>6 DEF CostThere, MatchesThere
  <2>8. CostThere(leave, subs, i, l) = x + ObsIns
    BY <2>7, <1>5
  <2>9. NoWorse(Cell(Plus(prev[0].cost, ObsIns), prev[0].match + 0), x + ObsIns, y + 0)
    <3>1. 0 \in Nat
      OBVIOUS
    <3> QED
      BY <3>1, <2>6, <1>5, <1>6, EdgeKeeps
  <2>10. c[l] = Cell(Plus(prev[0].cost, ObsIns), prev[0].match + 0)
    BY <2>3, <1>1, <1>6, <1>7, <1>10
  <2> QED
    BY <2>7, <2>8, <2>9, <2>10
<1>13. PICK r : r = i
  OBVIOUS
<1>14. CellsAreBest(c, r, F)'
  BY <1>1, <1>12, <1>13, CellsAreBestStays
<1>15. CellsAreBest(curr, i, j)'
  BY <1>1, <1>3, <1>10, <1>13, <1>14 DEF CellsAreBest
<1>16. PICK p, q : p = prev /\ q = i - 1
  OBVIOUS
<1>17. RowIsBest(p, q)'
  BY <1>1, <1>4, <1>16, RowIsBestStays
<1>18. RowIsBest(prev, i - 1)'
  BY <1>1, <1>16, <1>17 DEF RowIsBest
<1>19. prev' \in [0..n' -> Cells] /\ curr' \in [0..n' -> Cells]
  BY <1>1, <1>2, <1>4, <1>10, <1>11
<1>20. FirstOf(i)' = F /\ LastOf(i)' = L
  BY <1>1, <1>3, PathsStay DEF FirstOf, LastOf
<1>21. FirstOf(i)' <= j' /\ j' <= LastOf(i)'
  BY <1>1, <1>3, <1>20
<1> QED
  BY <1>1, <1>15, <1>18, <1>19, <1>21 DEF Best

\* The best of the three ways to a cell is beaten by none of them.
LEMMA BestCellIsBest ==
  ASSUME SubCell \in Cells, DelCell \in Cells, InsCell \in Cells
  PROVE  /\ BestCell \in {SubCell, DelCell, InsCell}
         /\ \A c \in {SubCell, DelCell, InsCell} : ~Beats(c, BestCell)
<1>1. PICK a \in Cells, b \in Cells, c \in Cells : a = SubCell /\ b = DelCell /\ c = InsCell
  OBVIOUS
<1>2. BestCell = LET first == IF Beats(b, a) THEN b ELSE a
                 IN  IF Beats(c, first) THEN c ELSE first
  BY <1>1 DEF BestCell
<1>3. \A x, y, z \in Cells : ~Beats(x, x) /\ (Beats(x, y) => ~Beats(y, x))
        /\ (Beats(x, y) /\ Beats(y, z) => Beats(x, z))
        /\ (~Beats(x, y) /\ Beats(x, z) => ~Beats(y, z) \/ Beats(x, z))
        /\ (Beats(x, y) /\ ~Beats(z, y) => ~Beats(z, x))
  BY DEF Beats, Cells
<1>4. BestCell \in {a, b, c}
  BY <1>2
<1>5. ~Beats(a, BestCell) /\ ~Beats(b, BestCell) /\ ~Beats(c, BestCell)
  <2> DEFINE first == IF Beats(b, a) THEN b ELSE a
  <2>1. first \in Cells /\ ~Beats(a, first) /\ ~Beats(b, first)
    BY <1>3
  <2>2. BestCell = IF Beats(c, first) THEN c ELSE first
    BY <1>2
  <2> HIDE DEF first
  <2>3. CASE Beats(c, first)
    <3>1. ~Beats(a, c) /\ ~Beats(b, c) /\ ~Beats(c, c)
      BY <2>1, <2>3, <1>3
    <3> QED
      BY <3>1, <2>2, <2>3
  <2>4. CASE ~Beats(c, first)
    BY <2>1, <2>2, <2>4
  <2> QED
    BY <2>3, <2>4
<1> QED
  BY <1>1, <1>4, <1>5

\* A path to the cell comes by one of three edges, and none of them beats the cell.
LEMMA FillCellIsBest ==
  ASSUME IInv, Best, FillCell
  PROVE  Best'
<1>1. /\ UNCHANGED input /\ pc = "cells" /\ curr' = [curr EXCEPT ![j] = BestCell]
      /\ \/ j < LastOf(i) /\ j' = j + 1 /\ prev' = prev /\ i' = i /\ pc' = "cells"
         \/ ~(j < LastOf(i)) /\ prev' = curr' /\ i' = i + 1 /\ pc' = "row"
  BY DEF FillCell
<1>2. m \in Nat /\ n \in Nat /\ n > 0 /\ i \in 1..m /\ j \in 1..n /\ n' = n /\ m' = m
  BY <1>1, Lengths, PathsStay DEF IInv, AlignTypeOK, Loops
<1>3. PICK F \in 1..n, L \in Int : F = FirstOf(i) /\ L = LastOf(i) /\ L <= n
  <2>1. i \in Nat
    BY <1>2
  <2> QED
    BY <2>1, RowsHaveBands
<1>4. /\ prev \in [0..n -> Cells] /\ curr \in [0..n -> Cells] /\ RowIsBest(prev, i - 1)
      /\ F <= j /\ j <= L /\ CellsAreBest(curr, i, j)
  BY <1>1, <1>3 DEF Best
<1>5. ObsIns \in Nat /\ RefDel \in Nat /\ Inf \in Nat /\ Sub(i, j) \in Nat
  BY <1>2, RowsHaveBands, CostsAreNumbers
<1>6. j - 1 \in 0..n /\ j \in 0..n
      /\ prev[j - 1] \in Cells /\ prev[j] \in Cells /\ curr[j - 1] \in Cells
  BY <1>2, <1>4
<1>7. PICK h \in {0, 1} : h = IF Matches(i, j) THEN 1 ELSE 0
  OBVIOUS
<1>8. /\ SubCell = Cell(Plus(prev[j - 1].cost, Sub(i, j)), prev[j - 1].match + h)
      /\ DelCell = Cell(Plus(prev[j].cost, ObsIns), prev[j].match + 0)
      /\ InsCell = Cell(Plus(curr[j - 1].cost, RefDel), curr[j - 1].match + 0)
  BY <1>6, <1>7 DEF SubCell, DelCell, InsCell, Cells
<1>9. h \in Nat /\ 0 \in Nat
  OBVIOUS
<1>10. \A c \in Cells : NoWorse(c, c.cost, c.match) /\ c.cost \in Nat /\ c.match \in Nat
  BY DEF NoWorse, Cells
<1>11. SubCell \in Cells /\ DelCell \in Cells /\ InsCell \in Cells
  <2>1. SubCell \in Cells
    BY <1>5, <1>6, <1>8, <1>9, <1>10, EdgeKeeps
  <2>2. DelCell \in Cells
    BY <1>5, <1>6, <1>8, <1>9, <1>10, EdgeKeeps
  <2>3. InsCell \in Cells
    BY <1>5, <1>6, <1>8, <1>9, <1>10, EdgeKeeps
  <2> QED
    BY <2>1, <2>2, <2>3
<1>12. BestCell \in Cells
       /\ ~Beats(SubCell, BestCell) /\ ~Beats(DelCell, BestCell) /\ ~Beats(InsCell, BestCell)
  BY <1>11, BestCellIsBest
<1>13. PICK c : c = curr'
  OBVIOUS
<1>14. /\ c \in [0..n -> Cells] /\ c[j] = BestCell
       /\ \A l \in 0..n : l # j => c[l] = curr[l]
  BY <1>1, <1>4, <1>6, <1>12, <1>13
<1>15. ASSUME NEW leave \in [0..m -> 0..n], NEW subs \in SUBSET (1..m),
              \A q \in 1..i - 1 : RowInBand(leave, subs, q),
              NEW l \in 0..n, l <= j, Comes(leave, subs, i, l)
       PROVE  /\ NoWorse(c[l], CostThere(leave, subs, i, l), MatchesThere(leave, subs, i))
              /\ CostThere(leave, subs, i, l) \in Nat /\ MatchesThere(leave, subs, i) \in Nat
  <2>1. PICK e \in 0..n : e = Enter(leave, subs, i) /\ e <= l
    BY <1>2, <1>15, Entered DEF Comes
  <2>2. PICK x \in Nat, y \in Nat :
          /\ x = PathCosts(leave, subs)[i - 1] /\ y = PathMatches(leave, subs)[i - 1]
          /\ NoWorse(prev[leave[i - 1]], x, y)
    BY <1>4, <1>15 DEF RowIsBest
  <2>3. PICK d \in Nat, g \in Nat :
          d = EntryCost(leave, subs, i) /\ g = RowMatch(leave, subs, i)
    BY <1>2, <1>15, Entered
  <2>4. \A k \in 0..n : CostThere(leave, subs, i, k) = x + d + (k - e) * RefDel
    BY <2>1, <2>2, <2>3 DEF CostThere
  <2>5. MatchesThere(leave, subs, i) = y + g
    BY <2>2, <2>3 DEF MatchesThere
  <2>6. CostThere(leave, subs, i, l) \in Nat /\ MatchesThere(leave, subs, i) \in Nat
    <3>1. l - e \in Nat
      BY <2>1
    <3>2. (l - e) * RefDel \in Nat
      BY <3>1, <1>5
    <3> QED
      BY <3>2, <2>4, <2>5
  <2>7. CASE l < j
    <3>1. NoWorse(curr[l], CostThere(leave, subs, i, l), MatchesThere(leave, subs, i))
      BY <2>7, <1>4, <1>15 DEF CellsAreBest
    <3>2. c[l] = curr[l]
      BY <2>7, <1>14
    <3> QED
      BY <3>1, <3>2, <2>6
  <2>8. CASE l = j
    <3>1. CASE e = j
      <4>1. CostThere(leave, subs, i, l) = x + d
        <5>1. CostThere(leave, subs, i, l) = x + d + (j - j) * RefDel
          BY <3>1, <2>4, <2>8
        <5> QED
          BY <5>1, <1>2, <1>5
      <4>2. CASE i \in subs
        <5>1. leave[i - 1] = j - 1 /\ d = Sub(i, j) /\ g = h
          <6>1. /\ leave[i - 1] = e - 1
                /\ EntryCost(leave, subs, i) = Sub(i, e)
                /\ RowMatch(leave, subs, i) = IF Matches(i, e) THEN 1 ELSE 0
            BY <4>2, <2>1, <1>2, <1>15, Entered
          <6> QED
            BY <6>1, <3>1, <2>3, <1>7
        <5>2. NoWorse(SubCell, x + d, y + g)
          BY <5>1, <2>2, <1>5, <1>6, <1>8, <1>9, EdgeKeeps
        <5>3. NoWorse(BestCell, x + d, y + g)
          BY <5>2, <1>11, <1>12, UnbeatenIsNoWorse
        <5> QED
          BY <5>3, <4>1, <2>5, <2>6, <2>8, <1>14
      <4>3. CASE i \notin subs
        <5>1. leave[i - 1] = j /\ d = ObsIns /\ g = 0
          BY <3>1, <4>3, <2>1, <2>3, <1>2, <1>15, Entered
        <5>2. NoWorse(DelCell, x + d, y + g)
          BY <5>1, <2>2, <1>5, <1>6, <1>8, <1>9, EdgeKeeps
        <5>3. NoWorse(BestCell, x + d, y + g)
          BY <5>2, <1>11, <1>12, UnbeatenIsNoWorse
        <5> QED
          BY <5>3, <4>1, <2>5, <2>6, <2>8, <1>14
      <4> QED
        BY <4>2, <4>3
    <3>2. CASE e # j
      <4>1. e <= j - 1 /\ j - 1 < j
        BY <3>2, <2>1, <2>8, <1>2
      <4>2. e..j - 1 \subseteq e..j
        BY <1>2, <2>1
      <4>3. Comes(leave, subs, i, j - 1)
        BY <4>1, <4>2, <2>1, <2>8, <1>15 DEF Comes
      <4>4. NoWorse(curr[j - 1], CostThere(leave, subs, i, j - 1), MatchesThere(leave, subs, i))
        BY <4>1, <4>3, <1>4, <1>6, <1>15 DEF CellsAreBest
      <4>5. PICK w \in Nat, v \in Nat : w = (j - 1) - e /\ v = w * RefDel
        <5>1. (j - 1) - e \in Nat
          BY <4>1, <1>2, <2>1
        <5>2. ((j - 1) - e) * RefDel \in Nat
          BY <5>1, <1>5
        <5> QED
          BY <5>1, <5>2
      <4>6. CostThere(leave, subs, i, j - 1) = x + d + v
        BY <4>5, <2>4, <1>6
      <4>7. CostThere(leave, subs, i, l) = (x + d + v) + RefDel
        <5>1. l - e = w + 1
          BY <4>5, <2>1, <2>8, <1>2
        <5>2. (w + 1) * RefDel = v + RefDel
          BY <4>5, <1>5
        <5>3. CostThere(leave, subs, i, l) = x + d + (w + 1) * RefDel
          BY <5>1, <2>4
        <5> QED
          BY <5>2, <5>3, <1>5
      <4>8. NoWorse(InsCell, (x + d + v) + RefDel, (y + g) + 0)
        <5>1. x + d + v \in Nat /\ y + g \in Nat
          OBVIOUS
        <5>2. NoWorse(curr[j - 1], x + d + v, y + g)
          BY <4>4, <4>6, <2>5
        <5> QED
          BY <5>1, <5>2, <1>5, <1>6, <1>8, <1>9, EdgeKeeps
      <4>9. NoWorse(BestCell, (x + d + v) + RefDel, (y + g) + 0)
        <5>1. (x + d + v) + RefDel \in Nat /\ (y + g) + 0 \in Nat
          BY <1>5
        <5> QED
          BY <5>1, <4>8, <1>11, <1>12, UnbeatenIsNoWorse
      <4>10. (y + g) + 0 = y + g
        OBVIOUS
      <4> QED
        BY <4>7, <4>9, <4>10, <2>5, <2>6, <2>8, <1>14
    <3> QED
      BY <3>1, <3>2
  <2> QED
    BY <2>7, <2>8, <1>15, <1>2
<1>16. PICK r : r = i
  OBVIOUS
<1>17. CASE j < LastOf(i) /\ j' = j + 1 /\ prev' = prev /\ i' = i /\ pc' = "cells"
  <2>1. CellsAreBest(c, i, j + 1)
    <3> SUFFICES ASSUME NEW leave \in [0..m -> 0..n], NEW subs \in SUBSET (1..m),
                        \A q \in 1..i - 1 : RowInBand(leave, subs, q),
                        NEW l \in 0..n, l < j + 1, Comes(leave, subs, i, l)
                 PROVE  NoWorse(c[l], CostThere(leave, subs, i, l), MatchesThere(leave, subs, i))
      BY DEF CellsAreBest
    <3>1. l <= j
      BY <1>2
    <3> QED
      BY <3>1, <1>15
  <2>2. PICK k \in Nat : k = j + 1
    BY <1>2
  <2>3. CellsAreBest(c, r, k)'
    BY <2>1, <2>2, <1>1, <1>16, CellsAreBestStays
  <2>4. CellsAreBest(curr, i, j)'
    BY <2>2, <2>3, <1>13, <1>16, <1>17 DEF CellsAreBest
  <2>5. PICK p, q : p = prev /\ q = i - 1
    OBVIOUS
  <2>6. RowIsBest(p, q)'
    BY <2>5, <1>1, <1>4, RowIsBestStays
  <2>7. RowIsBest(prev, i - 1)'
    BY <2>5, <2>6, <1>17 DEF RowIsBest
  <2>8. prev' \in [0..n' -> Cells] /\ curr' \in [0..n' -> Cells]
    BY <1>2, <1>4, <1>13, <1>14, <1>17
  <2>9. FirstOf(i)' = F /\ LastOf(i)' = L
    BY <1>1, <1>3, <1>17, PathsStay DEF FirstOf, LastOf
  <2>10. FirstOf(i)' <= j' /\ j' <= LastOf(i)'
    BY <2>9, <1>2, <1>3, <1>4, <1>17
  <2> QED
    BY <2>4, <2>7, <2>8, <2>10, <1>17 DEF Best
<1>18. CASE ~(j < LastOf(i)) /\ prev' = curr' /\ i' = i + 1 /\ pc' = "row"
  <2>1. j = L
    BY <1>2, <1>3, <1>4, <1>18
  <2>2. RowIsBest(c, i)
    <3> SUFFICES ASSUME NEW leave \in [0..m -> 0..n], NEW subs \in SUBSET (1..m),
                        \A q \in 1..i : RowInBand(leave, subs, q)
                 PROVE  /\ PathCosts(leave, subs)[i] \in Nat
                        /\ PathMatches(leave, subs)[i] \in Nat
                        /\ NoWorse(c[leave[i]], PathCosts(leave, subs)[i],
                                   PathMatches(leave, subs)[i])
      BY DEF RowIsBest
    <3>1. RowInBand(leave, subs, i) /\ \A q \in 1..i - 1 : RowInBand(leave, subs, q)
      BY <1>2
    <3>2. PICK l \in 0..n : l = leave[i]
      BY <1>2
    <3>3. Comes(leave, subs, i, l)
      BY <3>1, <3>2 DEF RowInBand, Comes
    <3>4. PICK e \in 0..n : e = Enter(leave, subs, i) /\ e <= l
      BY <3>3, <1>2, Entered DEF Comes
    <3>5. l <= j
      <4>1. l \in e..l
        BY <3>4
      <4>2. l \in {0} \union F..L
        BY <4>1, <3>3, <3>4, <1>3 DEF Comes
      <4> QED
        BY <4>2, <2>1, <1>2, <1>3
    <3>6. /\ NoWorse(c[l], CostThere(leave, subs, i, l), MatchesThere(leave, subs, i))
          /\ CostThere(leave, subs, i, l) \in Nat /\ MatchesThere(leave, subs, i) \in Nat
      BY <3>1, <3>3, <3>5, <1>15
    <3>7. PathCosts(leave, subs)[i] = CostThere(leave, subs, i, l)
          /\ PathMatches(leave, subs)[i] = MatchesThere(leave, subs, i)
      <4>1. PICK x \in Nat : x = PathCosts(leave, subs)[i - 1]
        BY <3>1, <1>4 DEF RowIsBest
      <4>2. PICK d \in Nat : d = EntryCost(leave, subs, i)
        BY <3>3, <1>2, Entered
      <4>3. PICK v \in Nat : v = (l - e) * RefDel
        <5>1. l - e \in Nat
          BY <3>4
        <5> QED
          BY <5>1, <1>5
      <4>4. RowCost(leave, subs, i) = d + v /\ CostThere(leave, subs, i, l) = x + d + v
        BY <3>2, <3>4, <4>1, <4>2, <4>3 DEF RowCost, CostThere
      <4>5. /\ PathCosts(leave, subs)[i] = x + RowCost(leave, subs, i)
            /\ PathMatches(leave, subs)[i] = MatchesThere(leave, subs, i)
        BY <4>1, <1>2, PathsGrow
      <4>6. x + (d + v) = x + d + v
        OBVIOUS
      <4> QED
        BY <4>4, <4>5, <4>6
    <3> QED
      BY <3>2, <3>6, <3>7
  <2>3. RowIsBest(c, r)'
    BY <2>2, <1>1, <1>16, RowIsBestStays
  <2>4. i' - 1 = r
    BY <1>2, <1>16, <1>18
  <2>5. RowIsBest(prev, i - 1)'
    BY <2>3, <2>4, <1>13, <1>18 DEF RowIsBest
  <2>6. prev' \in [0..n' -> Cells] /\ curr' \in [0..n' -> Cells]
    BY <1>2, <1>13, <1>14, <1>18
  <2> QED
    BY <2>5, <2>6, <1>18 DEF Best
<1> QED
  BY <1>1, <1>17, <1>18

LEMMA ChooseEndIsBest ==
  ASSUME IInv, Best, ChooseEnd
  PROVE  Best'
<1>1. /\ UNCHANGED <<input, table>> /\ pc = "row" /\ pc' = "trace" /\ i > m
  BY DEF ChooseEnd
<1>2. PICK e \in 0..n : IsEnd(e) /\ jEnd' = e /\ cost' = prev[e].cost
  BY DEF ChooseEnd
<1>3. m \in Nat /\ i = m + 1 /\ n' = n /\ m' = m /\ prev' = prev
  BY <1>1, Lengths, PathsStay DEF IInv, AlignTypeOK, Loops, table
<1>4. prev \in [0..n -> Cells] /\ RowIsBest(prev, i - 1)
  BY <1>1 DEF Best
<1>5. PICK p, r : p = prev /\ r = m /\ r = i - 1
  BY <1>3
<1>6. RowIsBest(p, r)'
  BY <1>1, <1>4, <1>5, RowIsBestStays
<1>7. RowIsBest(prev, m)'
  BY <1>3, <1>5, <1>6 DEF RowIsBest
<1>8. cost' = prev'[jEnd'].cost /\ \A l \in 0..n' : ~Beats(prev'[l], prev'[jEnd'])
  BY <1>2, <1>3 DEF IsEnd
<1>9. (\A l \in 0..n : ~Beats(prev[l], prev[jEnd]))'
  BY <1>8 DEF Beats
<1> QED
  BY <1>1, <1>3, <1>4, <1>7, <1>8, <1>9 DEF Best

LEMMA TraceIsBest ==
  ASSUME IInv, Best, TraceSub \/ TraceDel \/ TraceIns \/ EndTrace
  PROVE  Best'
<1>1. /\ UNCHANGED <<input, table, jEnd, cost>>
      /\ pc \in {"trace", "aligned"} /\ pc' \in {"trace", "aligned"}
  BY DEF TraceSub, TraceDel, TraceIns, Tracing, EndTrace, result
<1>2. n' = n /\ m' = m /\ prev' = prev
  BY <1>1, PathsStay DEF table
<1>3. prev \in [0..n -> Cells] /\ RowIsBest(prev, m) /\ cost = prev[jEnd].cost
      /\ \A l \in 0..n : ~Beats(prev[l], prev[jEnd])
  BY <1>1 DEF Best
<1>4. PICK p, r : p = prev /\ r = m
  OBVIOUS
<1>5. RowIsBest(p, r)'
  BY <1>1, <1>3, <1>4, RowIsBestStays
<1>6. RowIsBest(prev, m)'
  BY <1>2, <1>4, <1>5 DEF RowIsBest
<1>7. (\A l \in 0..n : ~Beats(prev[l], prev[jEnd]))'
  BY <1>1, <1>2, <1>3 DEF Beats
<1> QED
  BY <1>1, <1>2, <1>3, <1>6, <1>7 DEF Best

LEMMA BestKeeps == IInv /\ Best /\ [Next]_vars => Best'
<1> SUFFICES ASSUME IInv, Best, [Next]_vars PROVE Best'
  OBVIOUS
<1>1. CASE AlignNext
  <2>1. CASE Return
    BY <2>1 DEF Return, Best
  <2> QED
    BY <1>1, <2>1, DeadRowIsBest, StartRowIsBest, FillCellIsBest, ChooseEndIsBest, TraceIsBest
    DEF AlignNext
<1>2. CASE UNCHANGED alignVars
  <2>1. UNCHANGED <<input, table, i, j, result, pc>> /\ prev' = prev /\ curr' = curr
        /\ jEnd' = jEnd /\ cost' = cost
    BY <1>2 DEF alignVars, table, result
  <2>2. n' = n /\ m' = m
    BY <2>1, PathsStay
  <2>3. PICK p, c, r, k, q : p = prev /\ c = curr /\ r = i /\ k = j /\ q = i - 1
    OBVIOUS
  <2>4. pc \in {"row", "cells"} => RowIsBest(prev, i - 1)'
    <3>1. RowIsBest(prev, i - 1) => RowIsBest(p, q)'
      BY <2>1, <2>3, RowIsBestStays
    <3>2. RowIsBest(p, q)' => RowIsBest(prev, i - 1)'
      BY <2>1, <2>3 DEF RowIsBest
    <3> QED
      BY <3>1, <3>2 DEF Best
  <2>5. pc = "cells" => CellsAreBest(curr, i, j)'
    <3>1. CellsAreBest(curr, i, j) => CellsAreBest(c, r, k)'
      BY <2>1, <2>3, CellsAreBestStays
    <3>2. CellsAreBest(c, r, k)' => CellsAreBest(curr, i, j)'
      BY <2>1, <2>3 DEF CellsAreBest
    <3> QED
      BY <3>1, <3>2 DEF Best
  <2>6. pc = "cells" => FirstOf(i)' <= j' /\ j' <= LastOf(i)'
    BY <2>1, PathsStay DEF Best, FirstOf, LastOf
  <2>7. pc \in {"trace", "aligned"} => RowIsBest(prev, m)'
    <3>1. PICK x : x = m
      OBVIOUS
    <3>2. RowIsBest(prev, m) => RowIsBest(p, x)'
      BY <3>1, <2>1, <2>3, RowIsBestStays
    <3>3. RowIsBest(p, x)' => RowIsBest(prev, m)'
      BY <3>1, <2>1, <2>2, <2>3 DEF RowIsBest
    <3> QED
      BY <3>2, <3>3 DEF Best
  <2>8. pc \in {"trace", "aligned"} => (\A l \in 0..n : ~Beats(prev[l], prev[jEnd]))'
    BY <2>1, <2>2 DEF Best, Beats
  <2> QED
    BY <2>1, <2>2, <2>4, <2>5, <2>6, <2>7, <2>8 DEF Best
<1> QED
  BY <1>1, <1>2 DEF Next, vars, Align, UpgradeFails, NothingMapped, TimeAyahs, FillNext, ClipNext,
      Step

\* No path in the band is better than the end that was chosen.
LEMMA EndIsBest ==
  ASSUME IInv, Best, pc = "aligned",
         NEW leave \in [0..m -> 0..n], NEW subs \in SUBSET (1..m), InBand(leave, subs)
  PROVE  NoWorse(prev[jEnd], PathCosts(leave, subs)[m], PathMatches(leave, subs)[m])
<1>1. prev \in [0..n -> Cells] /\ RowIsBest(prev, m)
      /\ \A l \in 0..n : ~Beats(prev[l], prev[jEnd])
  BY DEF Best
<1>2. m \in Nat /\ jEnd \in 0..n
  BY Lengths DEF IInv, AlignTypeOK
<1>3. PICK l \in 0..n : l = leave[m]
  BY <1>2
<1>4. PICK x \in Nat, y \in Nat :
        /\ x = PathCosts(leave, subs)[m] /\ y = PathMatches(leave, subs)[m]
        /\ NoWorse(prev[l], x, y)
  BY <1>1, <1>3 DEF RowIsBest, InBand
<1>5. prev[l] \in Cells /\ prev[jEnd] \in Cells /\ ~Beats(prev[l], prev[jEnd])
  BY <1>1, <1>2, <1>3
<1>6. NoWorse(prev[jEnd], x, y)
  BY <1>4, <1>5, UnbeatenIsNoWorse
<1> QED
  BY <1>4, <1>6

-----------------------------------------------------------------------------
(* What the moves say of the table                                          *)

\* The matches that a substitution adds.
Hits(r, k) == IF Matches(r, k) THEN 1 ELSE 0

\* A cell of a table V has what its move gives it.
Follows(V, r, k) ==
  /\ ptr[r][k] = "sub" =>
       V[r][k] = Cell(Plus(V[r - 1][k - 1].cost, Sub(r, k)), V[r - 1][k - 1].match + Hits(r, k))
  /\ ptr[r][k] = "del" => V[r][k] = Cell(Plus(V[r - 1][k].cost, ObsIns), V[r - 1][k].match)
  /\ ptr[r][k] = "ins" => V[r][k] = Cell(Plus(V[r][k - 1].cost, RefDel), V[r][k - 1].match)
  /\ ptr[r][k] = "outside" => V[r][k].cost >= Inf

\* A row of a table V has what its moves give it, and column 0 only deletions.
RowFollows(V, r) ==
  /\ V[r][0].cost >= Inf
       \/ V[r][0] = Cell(Plus(V[r - 1][0].cost, ObsIns), V[r - 1][0].match)
  /\ \A k \in 1..n : Follows(V, r, k)

\* Row r is not filled from column k on.
Empty(r, k) == \A l \in k..n : ptr[r][l] = "outside"

\* No row is filled from r on.
EmptyFrom(r) == \A q \in r..m : Empty(q, 1)

\* What the traceback has put behind it.
CostBehind ==
  Sums([r \in 1..m |-> IF r <= i THEN 0 ELSE WordCost(r)], m)[m] + count.ins * RefDel

\* The rows that the code keeps are the last ones of a table of all rows, and what
\* the end cost is what lies behind the traceback and what its cell still costs.
Explains(V) ==
  /\ V[0] = [k \in 0..n |-> Cell(0, 0)]
  /\ pc = "row" =>
       /\ prev = V[i - 1] /\ \A r \in 1..i - 1 : RowFollows(V, r)
       /\ EmptyFrom(i)
  /\ pc = "cells" =>
       /\ prev = V[i - 1] /\ curr = V[i] /\ \A r \in 1..i : RowFollows(V, r)
       /\ Empty(i, j) /\ EmptyFrom(i + 1)
  /\ pc \in {"trace", "aligned"} =>
       /\ \A r \in 1..m : RowFollows(V, r)
       /\ cost < Inf =>
            /\ V[i][j].cost + CostBehind = cost
            /\ V[i][j].match + count.match = prev[jEnd].match

\* A table of all rows, of which the code keeps two.
Tables == [0..m -> [0..n -> Cells]]

\* There is such a table until the locals are gone.
Explained == pc # "returned" => \E V \in Tables : Explains(V)

LEMMA InitIsExplained ==
  ASSUME AlignInit, IInv
  PROVE  Explained
<1>1. m \in Nat /\ n \in Nat
  BY Lengths DEF IInv, AlignTypeOK
<1> DEFINE row == [k \in 0..n |-> Cell(0, 0)]
           V == [r \in 0..m |-> row]
<1>2. Cell(0, 0) \in Cells
  BY DEF Cell, Cells
<1>3. V \in Tables
  BY <1>2 DEF Tables
<1>4. pc = "row" /\ i = 1 /\ prev = row /\ ptr = [r \in 1..m |-> [k \in 1..n |-> "outside"]]
  BY DEF AlignInit
<1>5. V[0] = row
  BY <1>1
<1>6. V[i - 1] = row
  <2>1. i - 1 = 0
    BY <1>4
  <2> QED
    BY <2>1, <1>5
<1>7. \A r \in 1..i - 1 : FALSE
  BY <1>4
<1>8. EmptyFrom(i)
  BY <1>1, <1>4 DEF EmptyFrom, Empty
<1> HIDE DEF V
<1>9. Explains(V)
  BY <1>4, <1>5, <1>6, <1>7, <1>8 DEF Explains
<1> QED
  BY <1>3, <1>9 DEF Explained

\* A row that keeps its moves and its cells, and the cells of the row before.
LEMMA RowStays ==
  ASSUME IInv, UNCHANGED input, NEW V, NEW W, NEW r \in 1..m,
         V[r] = W[r], V[r - 1] = W[r - 1], ptr'[r] = ptr[r], RowFollows(V, r)
  PROVE  RowFollows(W, r)'
<1>1. n' = n
  BY PathsStay
<1>2. ASSUME NEW k \in 1..n
      PROVE  Follows(W, r, k)'
  <2>1. Follows(V, r, k) /\ Matches(r, k)' = Matches(r, k) /\ Sub(r, k)' = Sub(r, k)
    BY PathsStay DEF RowFollows
  <2> QED
    BY <2>1 DEF Follows, Hits
<1> QED
  BY <1>1, <1>2 DEF RowFollows

LEMMA DeadRowIsExplained ==
  ASSUME IInv, Best, Explained, DeadRow
  PROVE  Explained'
<1>1. /\ UNCHANGED input /\ pc = "row" /\ pc' = "row" /\ i' = i + 1 /\ ptr' = ptr
      /\ prev' = [k \in 0..n |-> Dead] /\ i <= m
  BY DEF DeadRow
<1>2. m \in Nat /\ n \in Nat /\ i \in 1..m /\ n' = n /\ m' = m
  BY <1>1, Lengths, PathsStay DEF IInv, AlignTypeOK, Loops
<1>3. PICK V \in Tables : Explains(V)
  BY <1>1 DEF Explained
<1>4. /\ V[0] = [k \in 0..n |-> Cell(0, 0)] /\ prev = V[i - 1]
      /\ \A r \in 1..i - 1 : RowFollows(V, r)
      /\ EmptyFrom(i)
  BY <1>1, <1>3 DEF Explains
<1> DEFINE dead == [k \in 0..n |-> Dead]
<1>5. Dead \in Cells /\ Dead.cost = Inf /\ Inf \in Nat
  BY RowsHaveBands DEF Dead, Cell, Cells
<1>6. PICK W \in Tables : W[i] = dead /\ \A r \in 0..m : r # i => W[r] = V[r]
  <2>1. [V EXCEPT ![i] = dead] \in Tables
    BY <1>2, <1>3, <1>5 DEF Tables
  <2>2. \A X : [V EXCEPT ![i] = X][i] = X /\ \A r \in 0..m : r # i => [V EXCEPT ![i] = X][r] = V[r]
    BY <1>2, <1>3 DEF Tables
  <2> HIDE DEF dead
  <2> QED
    BY <2>1, <2>2
<1>7. W[0] = [k \in 0..n |-> Cell(0, 0)] /\ 0 \in 0..m
  BY <1>2, <1>4, <1>6
<1>8. ASSUME NEW r \in 1..i - 1
      PROVE  RowFollows(W, r)'
  <2>1. r \in 1..m /\ r \in 0..m /\ r - 1 \in 0..m /\ r # i /\ r - 1 # i
    BY <1>2
  <2>2. W[r] = V[r] /\ W[r - 1] = V[r - 1]
    BY <2>1, <1>6
  <2> QED
    BY <2>1, <2>2, <1>1, <1>4, RowStays
<1>9. PICK r : r = i
  OBVIOUS
<1>10. RowFollows(W, r)'
  <2>1. \A k \in 0..n : W[r][k].cost >= Inf
    <3>1. W[r] = [k \in 0..n |-> Dead]
      BY <1>6, <1>9
    <3>2. \A k \in 0..n : W[r][k] = Dead
      BY <3>1
    <3>3. Dead.cost >= Inf
      BY <1>5
    <3> QED
      BY <3>2, <3>3
  <2>2. \A k \in 1..n : ptr[r][k] = "outside"
    BY <1>2, <1>4, <1>9 DEF EmptyFrom, Empty
  <2>3. \A k \in 1..n : Follows(W, r, k)'
    BY <2>1, <2>2, <1>1 DEF Follows
  <2> QED
    BY <2>1, <2>3, <1>2 DEF RowFollows
<1>11. \A q \in 1..i' - 1 : RowFollows(W, q)'
  <2>1. i' - 1 = r /\ r \in 1..m
    BY <1>1, <1>2, <1>9
  <2>2. \A q \in 1..r - 1 : RowFollows(W, q)'
    BY <1>8, <1>9
  <2>3. \A q \in 1..r : q = r \/ q \in 1..r - 1
    BY <2>1
  <2>4. \A q \in 1..r : RowFollows(W, q)'
    BY <2>2, <2>3, <1>10
  <2> QED
    BY <2>1, <2>4
<1>12. prev' = W[i' - 1]
  <2>1. i' - 1 = i
    BY <1>1, <1>2
  <2> QED
    BY <2>1, <1>1, <1>6
<1>13. EmptyFrom(i)'
  BY <1>1, <1>2, <1>4 DEF EmptyFrom, Empty
<1>14. W[0] = [k \in 0..n' |-> Cell(0, 0)]
  BY <1>2, <1>7
<1>15. Explains(W)'
  BY <1>1, <1>11, <1>12, <1>13, <1>14 DEF Explains
<1>16. W \in Tables'
  BY <1>2, <1>6 DEF Tables
<1> QED
  BY <1>15, <1>16 DEF Explained

\* A table with another row i.
LEMMA RowReplaced ==
  ASSUME m \in Nat, NEW V \in Tables, NEW r \in 0..m, NEW X \in [0..n -> Cells]
  PROVE  \E W \in Tables : W[r] = X /\ \A q \in 0..m : q # r => W[q] = V[q]
<1>1. [V EXCEPT ![r] = X] \in Tables
  BY DEF Tables
<1>2. [V EXCEPT ![r] = X][r] = X /\ \A q \in 0..m : q # r => [V EXCEPT ![r] = X][q] = V[q]
  BY DEF Tables
<1> QED
  BY <1>1, <1>2

\* The rows before one that changes stay explained.
LEMMA RowsStay ==
  ASSUME IInv, UNCHANGED input, NEW V, NEW W, NEW N \in Nat, N <= m,
         \A r \in 0..N : W[r] = V[r],
         \A r \in 1..N : ptr'[r] = ptr[r] /\ RowFollows(V, r)
  PROVE  \A r \in 1..N : RowFollows(W, r)'
<1> SUFFICES ASSUME NEW r \in 1..N PROVE RowFollows(W, r)'
  OBVIOUS
<1>1. m \in Nat
  BY Lengths DEF IInv, AlignTypeOK
<1>2. r \in 1..m /\ r \in 0..N /\ r - 1 \in 0..N
  BY <1>1
<1> QED
  BY <1>2, RowStays

LEMMA StartRowIsExplained ==
  ASSUME IInv, Best, Explained, StartRow
  PROVE  Explained'
<1>1. /\ UNCHANGED input /\ pc = "row" /\ pc' = "cells" /\ i' = i /\ ptr' = ptr
      /\ prev' = prev /\ j' = FirstOf(i) /\ i <= m
      /\ curr' = [k \in 0..n |->
                    IF k = 0 THEN Cell(Plus(prev[0].cost, ObsIns), prev[0].match) ELSE Dead]
  BY DEF StartRow
<1>2. m \in Nat /\ n \in Nat /\ i \in 1..m /\ n' = n /\ m' = m /\ FirstOf(i) \in 1..n
  <2>1. m \in Nat /\ n \in Nat /\ i \in 1..m /\ n' = n /\ m' = m
    BY <1>1, Lengths, PathsStay DEF IInv, AlignTypeOK, Loops
  <2>2. i \in Nat
    BY <2>1
  <2> QED
    BY <2>1, <2>2, RowsHaveBands
<1>3. PICK V \in Tables : Explains(V)
  BY <1>1 DEF Explained
<1>4. /\ V[0] = [k \in 0..n |-> Cell(0, 0)] /\ prev = V[i - 1]
      /\ \A r \in 1..i - 1 : RowFollows(V, r)
      /\ EmptyFrom(i)
  BY <1>1, <1>3 DEF Explains
<1>5. curr' \in [0..n -> Cells]
  <2>1. Best'
    BY StartRowIsBest
  <2> QED
    BY <2>1, <1>1, <1>2 DEF Best
<1>6. PICK r : r = i
  OBVIOUS
<1>7. PICK c : c = curr'
  OBVIOUS
<1>8. PICK W \in Tables : W[r] = c /\ \A q \in 0..m : q # r => W[q] = V[q]
  <2>1. r \in 0..m /\ c \in [0..n -> Cells]
    BY <1>2, <1>5, <1>6, <1>7
  <2> QED
    BY <2>1, <1>2, RowReplaced
<1>9. \A q \in 1..r - 1 : RowFollows(W, q)'
  <2>1. r - 1 \in Nat /\ r - 1 <= m /\ \A q \in 0..r - 1 : W[q] = V[q]
    BY <1>2, <1>6, <1>8
  <2>2. \A q \in 1..r - 1 : ptr'[q] = ptr[q] /\ RowFollows(V, q)
    BY <1>1, <1>4, <1>6
  <2> QED
    BY <2>1, <2>2, <1>1, RowsStay
<1>10. W[r - 1] = prev /\ W[0] = [k \in 0..n |-> Cell(0, 0)]
  BY <1>2, <1>4, <1>6, <1>8
<1>11. RowFollows(W, r)'
  <2>1. W[r][0] = Cell(Plus(W[r - 1][0].cost, ObsIns), W[r - 1][0].match)
    <3>1. 0 \in 0..n
      BY <1>2
    <3>2. c[0] = Cell(Plus(prev[0].cost, ObsIns), prev[0].match)
      BY <3>1, <1>1, <1>7
    <3> QED
      BY <3>2, <1>8, <1>10
  <2>2. Dead.cost >= Inf
    BY RowsHaveBands DEF Dead, Cell
  <2>3. \A k \in 1..n : W[r][k] = Dead
    BY <1>1, <1>7, <1>8
  <2>4. \A k \in 1..n : W[r][k].cost >= Inf
    BY <2>2, <2>3
  <2>5. \A k \in 1..n : ptr[r][k] = "outside"
    BY <1>2, <1>4, <1>6 DEF EmptyFrom, Empty
  <2>6. \A k \in 1..n : Follows(W, r, k)'
    BY <2>4, <2>5, <1>1 DEF Follows
  <2>7. (W[r][0] = Cell(Plus(W[r - 1][0].cost, ObsIns), W[r - 1][0].match))'
    BY <2>1 DEF Cell, Plus
  <2> QED
    BY <2>6, <2>7, <1>2 DEF RowFollows
<1>12. \A q \in 1..i' : RowFollows(W, q)'
  <2>1. i' = r /\ \A q \in 1..r : q = r \/ q \in 1..r - 1
    BY <1>1, <1>2, <1>6
  <2>2. \A q \in 1..r : RowFollows(W, q)'
    BY <2>1, <1>9, <1>11
  <2> QED
    BY <2>1, <2>2
<1>13. prev' = W[i' - 1] /\ curr' = W[i']
  BY <1>1, <1>6, <1>7, <1>8, <1>10
<1>14. EmptyFrom(i + 1)' /\ Empty(i, j)'
  BY <1>1, <1>2, <1>4 DEF EmptyFrom, Empty
<1>15. W[0] = [k \in 0..n' |-> Cell(0, 0)]
  BY <1>2, <1>10
<1>16. Explains(W)'
  BY <1>1, <1>12, <1>13, <1>14, <1>15 DEF Explains
<1>17. W \in Tables'
  BY <1>2, <1>8 DEF Tables
<1> QED
  BY <1>16, <1>17 DEF Explained

LEMMA FillCellIsExplained ==
  ASSUME IInv, Best, Explained, FillCell
  PROVE  Explained'
<1>1. /\ UNCHANGED input /\ pc = "cells" /\ curr' = [curr EXCEPT ![j] = BestCell]
      /\ ptr' = [ptr EXCEPT ![i][j] = BestMove]
      /\ \/ j < LastOf(i) /\ j' = j + 1 /\ prev' = prev /\ i' = i /\ pc' = "cells"
         \/ ~(j < LastOf(i)) /\ prev' = curr' /\ i' = i + 1 /\ pc' = "row"
  BY DEF FillCell
<1>2. m \in Nat /\ n \in Nat /\ i \in 1..m /\ j \in 1..n /\ n' = n /\ m' = m
  BY <1>1, Lengths, PathsStay DEF IInv, AlignTypeOK, Loops
<1>3. PICK V \in Tables : Explains(V)
  BY <1>1 DEF Explained
<1>4. /\ V[0] = [k \in 0..n |-> Cell(0, 0)] /\ prev = V[i - 1] /\ curr = V[i]
      /\ \A r \in 1..i : RowFollows(V, r)
      /\ Empty(i, j) /\ EmptyFrom(i + 1)
  BY <1>1, <1>3 DEF Explains
<1>5. curr' \in [0..n -> Cells] /\ curr \in [0..n -> Cells]
  <2>1. Best'
    BY FillCellIsBest
  <2> QED
    BY <2>1, <1>1, <1>2 DEF Best
<1>6. PICK r \in 1..m, y \in 1..n : r = i /\ y = j
  BY <1>2
<1>7. PICK c, b, mv : c = curr' /\ b = BestCell /\ mv = BestMove
  OBVIOUS
<1>8. PICK W \in Tables : W[r] = c /\ \A q \in 0..m : q # r => W[q] = V[q]
  <2>1. r \in 0..m /\ c \in [0..n -> Cells]
    BY <1>2, <1>5, <1>7
  <2> QED
    BY <2>1, <1>2, RowReplaced
<1>9. \A k \in 0..n : W[r][k] = IF k = y THEN b ELSE V[r][k]
  BY <1>1, <1>4, <1>5, <1>6, <1>7, <1>8
<1>10. /\ ptr'[r][y] = mv /\ \A k \in 1..n : k # y => ptr'[r][k] = ptr[r][k]
       /\ \A q \in 1..m : q # r => ptr'[q] = ptr[q]
  <2>1. ptr \in [1..m -> [1..n -> Moves]]
    BY <1>1 DEF IInv, AlignTypeOK
  <2> QED
    BY <2>1, <1>1, <1>6, <1>7
<1>11. W[r - 1] = prev /\ W[r - 1] = V[r - 1] /\ W[0] = [k \in 0..n |-> Cell(0, 0)]
  BY <1>2, <1>4, <1>6, <1>8
<1>12. \A q \in 1..r - 1 : RowFollows(W, q)'
  <2>1. r - 1 \in Nat /\ r - 1 <= m /\ \A q \in 0..r - 1 : W[q] = V[q]
    BY <1>2, <1>6, <1>8
  <2>2. \A q \in 1..r - 1 : ptr'[q] = ptr[q] /\ RowFollows(V, q)
    BY <1>2, <1>4, <1>6, <1>10
  <2> QED
    BY <2>1, <2>2, <1>1, RowsStay
<1>13. ASSUME NEW k \in 1..n, k < y PROVE Follows(W, r, k)'
  <2>1. Follows(V, r, k)
    BY <1>2, <1>4, <1>6 DEF RowFollows
  <2>2. /\ ptr'[r][k] = ptr[r][k] /\ W[r][k] = V[r][k] /\ W[r][k - 1] = V[r][k - 1]
    BY <1>2, <1>9, <1>10, <1>13
  <2>3. Matches(r, k)' = Matches(r, k) /\ Sub(r, k)' = Sub(r, k)
    BY <1>1, PathsStay
  <2> QED
    BY <2>1, <2>2, <2>3, <1>11 DEF Follows, Hits
<1>14. ASSUME NEW k \in 1..n, k > y PROVE Follows(W, r, k)'
  <2>1. Follows(V, r, k) /\ ptr[r][k] = "outside"
    BY <1>2, <1>4, <1>6, <1>14 DEF RowFollows, Empty
  <2>2. V[r][k].cost >= Inf
    BY <2>1 DEF Follows
  <2>3. ptr'[r][k] = "outside" /\ W[r][k].cost >= Inf
    BY <2>1, <2>2, <1>9, <1>10, <1>14
  <2> QED
    BY <2>3 DEF Follows
<1>15. Follows(W, r, y)'
  <2>1. /\ W[r][y] = b /\ ptr'[r][y] = mv /\ W[r][y - 1] = V[r][y - 1]
    BY <1>2, <1>9, <1>10
  <2>2. /\ SubCell = Cell(Plus(W[r - 1][y - 1].cost, Sub(r, y)), W[r - 1][y - 1].match + Hits(r, y))
        /\ DelCell = Cell(Plus(W[r - 1][y].cost, ObsIns), W[r - 1][y].match)
        /\ InsCell = Cell(Plus(W[r][y - 1].cost, RefDel), W[r][y - 1].match)
    BY <2>1, <1>4, <1>6, <1>11 DEF SubCell, DelCell, InsCell, Hits
  <2>3. /\ mv = "sub" => b = SubCell
        /\ mv = "del" => b = DelCell
        /\ mv = "ins" => b = InsCell
        /\ mv # "outside"
    BY <1>7 DEF BestCell, BestMove
  <2>4. Sub(r, y)' = Sub(r, y) /\ Hits(r, y)' = Hits(r, y)
    BY <1>1, PathsStay DEF Hits
  <2>5. (Follows(W, r, y))' <=>
          /\ mv = "sub" =>
               b = Cell(Plus(W[r - 1][y - 1].cost, Sub(r, y)), W[r - 1][y - 1].match + Hits(r, y))
          /\ mv = "del" => b = Cell(Plus(W[r - 1][y].cost, ObsIns), W[r - 1][y].match)
          /\ mv = "ins" => b = Cell(Plus(W[r][y - 1].cost, RefDel), W[r][y - 1].match)
          /\ mv = "outside" => b.cost >= Inf
    BY <2>1, <2>4 DEF Follows
  <2> QED
    BY <2>2, <2>3, <2>5
<1>16. RowFollows(W, r)'
  <2>1. \A k \in 1..n : k < y \/ k = y \/ k > y
    BY <1>2
  <2>2. \A k \in 1..n : Follows(W, r, k)'
    BY <2>1, <1>13, <1>14, <1>15
  <2>3. W[r][0] = V[r][0]
    BY <1>2, <1>9
  <2>4. RowFollows(V, r)
    BY <1>2, <1>4, <1>6
  <2> QED
    BY <2>2, <2>3, <2>4, <1>2, <1>11 DEF RowFollows
<1>17. \A q \in 1..r : RowFollows(W, q)'
  <2>1. \A q \in 1..r : q = r \/ q \in 1..r - 1
    BY <1>2
  <2> QED
    BY <2>1, <1>12, <1>16
<1>18. W[0] = [k \in 0..n' |-> Cell(0, 0)] /\ W \in Tables'
  BY <1>2, <1>8, <1>11 DEF Tables
<1>19. EmptyFrom(r + 1)'
  <2>1. \A q \in r + 1..m : q \in 1..m /\ q # r /\ \A l \in 1..n : ptr[q][l] = "outside"
    BY <1>2, <1>4, <1>6 DEF EmptyFrom, Empty
  <2> QED
    BY <2>1, <1>2, <1>10 DEF EmptyFrom, Empty
<1>20. CASE i' = i /\ j' = j + 1 /\ prev' = prev /\ pc' = "cells"
  <2>1. prev' = W[i' - 1] /\ curr' = W[i'] /\ \A q \in 1..i' : RowFollows(W, q)'
    BY <1>6, <1>7, <1>8, <1>11, <1>17, <1>20
  <2>2. EmptyFrom(i + 1)'
    BY <1>6, <1>19, <1>20 DEF EmptyFrom, Empty
  <2>3. Empty(i, j)'
    <3>1. \A l \in y + 1..n : l \in 1..n /\ l # y /\ ptr[r][l] = "outside"
      BY <1>2, <1>4, <1>6 DEF Empty
    <3> QED
      BY <3>1, <1>2, <1>6, <1>10, <1>20 DEF Empty
  <2>4. Explains(W)'
    BY <2>1, <2>2, <2>3, <1>18, <1>20 DEF Explains
  <2> QED
    BY <2>4, <1>18 DEF Explained
<1>21. CASE prev' = curr' /\ i' = i + 1 /\ pc' = "row"
  <2>1. i' - 1 = r /\ i' = r + 1
    BY <1>2, <1>6, <1>21
  <2>2. prev' = W[i' - 1] /\ \A q \in 1..i' - 1 : RowFollows(W, q)'
    BY <2>1, <1>7, <1>8, <1>17, <1>21
  <2>3. EmptyFrom(i)'
    BY <2>1, <1>19 DEF EmptyFrom, Empty
  <2>4. Explains(W)'
    BY <2>2, <2>3, <1>18, <1>21 DEF Explains
  <2> QED
    BY <2>4, <1>18 DEF Explained
<1> QED
  BY <1>1, <1>20, <1>21

-----------------------------------------------------------------------------
(* The traceback puts behind it what it leaves                             *)

\* What the words behind the traceback cost.
Behind == [r \in 1..m |-> IF r <= i THEN 0 ELSE WordCost(r)]

LEMMA WordCostsAreNumbers ==
  ASSUME IInv
  PROVE  \A r \in 1..m : WordCost(r) \in Nat
<1> SUFFICES ASSUME NEW r \in 1..m PROVE WordCost(r) \in Nat
  OBVIOUS
<1>1. map[r] \in 0..n /\ n \in Nat /\ ObsIns \in Nat
  BY Lengths, RowsHaveBands DEF IInv, AlignTypeOK
<1>2. map[r] # 0 => Sub(r, map[r]) \in Nat
  <2>1. map[r] # 0 => map[r] \in 1..n
    BY <1>1
  <2> QED
    BY <2>1, CostsAreNumbers
<1> QED
  BY <1>1, <1>2 DEF WordCost

LEMMA BehindIsNumbers ==
  ASSUME IInv
  PROVE  /\ Behind \in [1..m -> Nat] /\ CostBehind = Sums(Behind, m)[m] + count.ins * RefDel
         /\ Sums(Behind, m)[m] \in Nat /\ count.ins * RefDel \in Nat
<1>1. Behind \in [1..m -> Nat]
  BY WordCostsAreNumbers DEF Behind
<1>2. m \in Nat /\ m \in 0..m /\ count.ins \in Nat /\ RefDel \in Nat
  BY Lengths, RowsHaveBands DEF IInv, AlignTypeOK
<1>3. Sums(Behind, m)[m] \in Nat
  BY <1>1, <1>2, SumsType
<1>4. count.ins * RefDel \in Nat
  BY <1>2
<1> QED
  BY <1>1, <1>3, <1>4 DEF CostBehind, Behind

\* A row that the traceback leaves puts the cost of its word behind it.
LEMMA RowIsBehind ==
  ASSUME IInv, UNCHANGED input, i \in 1..m, i' = i - 1, count'.ins = count.ins,
         NEW q, q = i, NEW x \in Nat, WordCost(q)' = x,
         \A r \in 1..m : r # q => map'[r] = map[r]
  PROVE  CostBehind' = CostBehind + x
<1>1. m' = m /\ m \in Nat /\ q \in 1..m
  BY PathsStay, Lengths DEF IInv, AlignTypeOK
<1>2. \A r \in 1..m : r # q => WordCost(r)' = WordCost(r)
  BY PathsStay DEF WordCost
<1>3. PICK f \in [1..m -> Nat] : f = Behind
  BY BehindIsNumbers
<1>4. Behind' = [r \in 1..m |-> IF r <= q - 1 THEN 0 ELSE WordCost(r)']
  BY <1>1 DEF Behind
<1>5. f[q] = 0
  BY <1>1, <1>3 DEF Behind
<1>6. ASSUME NEW r \in 1..m
      PROVE  (IF r <= q - 1 THEN 0 ELSE WordCost(r)') = IF r = q THEN x ELSE f[r]
  <2>1. f[r] = IF r <= q THEN 0 ELSE WordCost(r)
    BY <1>3 DEF Behind
  <2>2. CASE r = q
    BY <2>2, <1>1
  <2>3. CASE r < q
    BY <2>1, <2>3, <1>1
  <2>4. CASE r > q
    BY <2>1, <2>4, <1>1, <1>2
  <2> QED
    BY <2>2, <2>3, <2>4, <1>1
<1>7. Behind' = [f EXCEPT ![q] = f[q] + x]
  <2>1. Behind' = [r \in 1..m |-> IF r = q THEN x ELSE f[r]]
    BY <1>4, <1>6
  <2>2. f[q] + x = x
    BY <1>5
  <2> QED
    BY <2>1, <2>2
<1>8. PICK g : g = Behind'
  OBVIOUS
<1>9. Sums(g, m)[m] = Sums(f, m)[m] + x
  <2>1. g = [f EXCEPT ![q] = f[q] + x]
    BY <1>7, <1>8
  <2>2. m \in Nat /\ q \in 1..m /\ x \in Nat /\ f \in [1..m -> Nat]
    BY <1>1
  <2> QED
    BY ONLY <2>1, <2>2, SumsMove
<1>10. CostBehind' = Sums(g, m)[m] + count.ins * RefDel
  BY <1>1, <1>8 DEF CostBehind, Behind
<1>11. CostBehind = Sums(f, m)[m] + count.ins * RefDel
       /\ Sums(f, m)[m] \in Nat /\ count.ins * RefDel \in Nat
  BY <1>3, BehindIsNumbers
<1> QED
  BY <1>9, <1>10, <1>11

\* A sum below Inf is the sum of its parts.
LEMMA PlusIsExact ==
  ASSUME NEW c \in Nat, NEW d \in Nat, Plus(c, d) < Inf
  PROVE  Plus(c, d) = c + d
BY AlignmentAssumption DEF Plus

LEMMA CellsStay ==
  ASSUME IInv, UNCHANGED <<input, ptr>>, NEW V, \A r \in 1..m : RowFollows(V, r)
  PROVE  (\A r \in 1..m : RowFollows(V, r))'
<1>1. m \in Nat /\ m' = m
  BY PathsStay, Lengths DEF IInv, AlignTypeOK
<1>2. \A r \in 1..m : RowFollows(V, r)'
  BY RowStays
<1> QED
  BY <1>1, <1>2

LEMMA ChooseEndIsExplained ==
  ASSUME IInv, Best, Explained, ChooseEnd
  PROVE  Explained'
<1>1. /\ UNCHANGED input /\ pc = "row" /\ pc' = "trace" /\ i > m /\ ptr' = ptr
      /\ prev' = prev /\ i' = m /\ j' = jEnd' /\ map' = map /\ count' = count
  BY DEF ChooseEnd, table
<1>2. m \in Nat /\ n \in Nat /\ i = m + 1 /\ n' = n /\ m' = m
  BY <1>1, Lengths, PathsStay DEF IInv, AlignTypeOK, Loops
<1>3. PICK V \in Tables : Explains(V)
  BY <1>1 DEF Explained
<1>4. /\ V[0] = [k \in 0..n |-> Cell(0, 0)] /\ prev = V[m]
      /\ \A r \in 1..m : RowFollows(V, r)
  <2>1. i - 1 = m
    BY <1>2
  <2> QED
    BY <2>1, <1>1, <1>3 DEF Explains
<1>5. Best' /\ IInv'
  BY ChooseEndIsBest, ChooseEndKeeps
<1>6. cost' = V[m][jEnd'].cost /\ prev' = V[m] /\ jEnd' \in 0..n
  BY <1>1, <1>2, <1>4, <1>5 DEF Best, IInv, AlignTypeOK
<1>7. V[m][jEnd'] \in Cells
  BY <1>2, <1>6 DEF Tables
<1>8. count' = NoCount /\ count'.ins = 0 /\ count'.match = 0
  BY <1>1 DEF IInv, Unmapped, NoCount
<1>9. CostBehind' = 0
  <2>1. [r \in 1..m' |-> IF r <= i' THEN 0 ELSE WordCost(r)'] = [r \in 1..m |-> 0]
    BY <1>1, <1>2
  <2>2. Sums([r \in 1..m |-> 0], m)[m] = 0
    BY <1>2, SumsOfNothing
  <2>3. 0 * RefDel = 0 /\ 0 + 0 = 0
    BY RowsHaveBands
  <2> QED
    BY <2>1, <2>2, <2>3, <1>2, <1>8 DEF CostBehind
<1>10. V[i'][j'].cost + CostBehind' = cost' /\ V[i'][j'].match + count'.match = prev'[jEnd'].match
  <2>1. V[m][jEnd'].cost \in Nat /\ V[m][jEnd'].match \in Nat
    BY <1>7 DEF Cells
  <2> QED
    BY <2>1, <1>1, <1>6, <1>8, <1>9
<1>11. (\A r \in 1..m : RowFollows(V, r))'
  BY <1>1, <1>4, CellsStay
<1>12. V[0] = [k \in 0..n' |-> Cell(0, 0)] /\ V \in Tables'
  BY <1>2, <1>4 DEF Tables
<1>13. Explains(V)'
  BY <1>1, <1>10, <1>11, <1>12 DEF Explains
<1> QED
  BY <1>12, <1>13 DEF Explained

\* One step of the traceback: what it leaves, it puts behind it.
LEMMA TraceStep ==
  ASSUME IInv, Tracing, pc = "trace", NEW V \in Tables, Explains(V),
         i' \in 0..m, j' \in 0..n,
         NEW x \in Nat, NEW y \in Nat, CostBehind' = CostBehind + x,
         count'.match = count.match + y,
         V[i][j].cost < Inf =>
           /\ V[i][j].cost = V[i'][j'].cost + x
           /\ V[i][j].match = V[i'][j'].match + y
  PROVE  Explained'
<1>1. UNCHANGED <<input, table, jEnd, cost, pc>> /\ prev' = prev /\ ptr' = ptr
  BY DEF Tracing, table
<1>2. m' = m /\ n' = n /\ m \in Nat /\ n \in Nat /\ i \in 0..m /\ j \in 0..n
  <2>1. i \in Nat /\ Balanced(count, i, j, jEnd, m)
    BY DEF IInv, AlignTypeOK, Traced
  <2>2. count.sub \in Nat /\ count.del \in Nat /\ count.sub + count.del = m - i
    BY <2>1 DEF Balanced
  <2>3. m' = m /\ n' = n /\ m \in Nat /\ n \in Nat /\ i \in 0..m + 1 /\ j \in 0..n
    BY <1>1, PathsStay, Lengths DEF IInv, AlignTypeOK
  <2> QED
    BY <2>2, <2>3
<1>3. /\ V[0] = [k \in 0..n |-> Cell(0, 0)] /\ \A r \in 1..m : RowFollows(V, r)
      /\ cost < Inf => /\ V[i][j].cost + CostBehind = cost
                       /\ V[i][j].match + count.match = prev[jEnd].match
  BY DEF Explains
<1>4. V[i][j] \in Cells /\ V[i'][j'] \in Cells
  BY <1>2 DEF Tables
<1>5. CostBehind \in Nat /\ count.match \in Nat
  <2>1. CostBehind \in Nat
    BY BehindIsNumbers
  <2> QED
    BY <2>1 DEF IInv, AlignTypeOK
<1>6. cost < Inf => V[i'][j'].cost + CostBehind' = cost
                    /\ V[i'][j'].match + count'.match = prev[jEnd].match
  <2> SUFFICES ASSUME cost < Inf
               PROVE  V[i'][j'].cost + CostBehind' = cost
                      /\ V[i'][j'].match + count'.match = prev[jEnd].match
    OBVIOUS
  <2>1. PICK a \in Nat, b \in Nat, c \in Nat, d \in Nat :
          /\ a = V[i][j].cost /\ b = V[i][j].match
          /\ c = V[i'][j'].cost /\ d = V[i'][j'].match
    BY <1>4 DEF Cells
  <2>2. PICK g \in Nat, h \in Nat : g = CostBehind /\ h = count.match
    BY <1>5
  <2>3. a + g = cost /\ b + h = prev[jEnd].match
    BY <2>1, <2>2, <1>3
  <2>4. a < Inf
    BY <2>3, RowsHaveBands
  <2>5. a = c + x /\ b = d + y
    BY <2>1, <2>4
  <2>6. CostBehind' = g + x /\ count'.match = h + y
    BY <2>2
  <2>7. c + (g + x) = cost /\ d + (h + y) = prev[jEnd].match
    BY <2>3, <2>5
  <2> QED
    BY <2>1, <2>6, <2>7
<1>7. (\A r \in 1..m : RowFollows(V, r))'
  BY <1>1, <1>3, CellsStay
<1>8. V[0] = [k \in 0..n' |-> Cell(0, 0)] /\ V \in Tables'
  BY <1>2, <1>3 DEF Tables
<1>9. Explains(V)'
  BY <1>1, <1>6, <1>7, <1>8 DEF Explains
<1> QED
  BY <1>8, <1>9 DEF Explained

LEMMA TraceSubIsExplained ==
  ASSUME IInv, Explained, TraceSub
  PROVE  Explained'
<1>1. /\ Tracing /\ pc = "trace" /\ UNCHANGED input /\ j > 0 /\ ptr[i][j] = "sub"
      /\ map' = [map EXCEPT ![i] = j] /\ i' = i - 1 /\ j' = j - 1 /\ i > 0
      /\ count' = [count EXCEPT !.sub = @ + 1, !.match = @ + (IF Matches(i, j) THEN 1 ELSE 0)]
  BY DEF TraceSub, Tracing
<1>2. PICK V \in Tables : Explains(V)
  BY <1>1 DEF Explained
<1>3. /\ m \in Nat /\ n \in Nat /\ i \in 1..m /\ j \in 1..n /\ j - 1 \in 0..n
      /\ count \in [sub : Nat, del : Nat, ins : Nat, match : Nat]
      /\ map \in [1..m -> 0..n]
  <2>1. Balanced(count, i, j, jEnd, m)
    BY <1>1 DEF IInv, Traced
  <2>2. count.sub \in Nat /\ count.del \in Nat /\ count.sub + count.del = m - i
    BY <2>1 DEF Balanced
  <2>3. i \in 0..m + 1 /\ j \in 0..n /\ m \in Nat /\ n \in Nat
    BY Lengths DEF IInv, AlignTypeOK
  <2>4. /\ count \in [sub : Nat, del : Nat, ins : Nat, match : Nat]
        /\ map \in [1..m -> 0..n]
    BY DEF IInv, AlignTypeOK
  <2> QED
    BY <2>2, <2>3, <2>4, <1>1
<1>4. PICK q \in 1..m, k \in 1..n : q = i /\ k = j
  BY <1>3
<1>5. PICK x \in Nat, y \in {0, 1} : x = Sub(q, k) /\ y = IF Matches(q, k) THEN 1 ELSE 0
  <2>1. Sub(q, k) \in Nat
    BY CostsAreNumbers
  <2> QED
    BY <2>1
<1>6. count'.ins = count.ins /\ count'.match = count.match + y
  BY <1>1, <1>3, <1>4, <1>5
<1>7. /\ map'[q] = k /\ \A r \in 1..m : r # q => map'[r] = map[r]
  BY <1>1, <1>3, <1>4
<1>8. WordCost(q)' = x
  <2>1. Sub(q, k)' = x /\ k # 0
    BY <1>1, <1>5, PathsStay
  <2> QED
    BY <2>1, <1>7 DEF WordCost
<1>9. CostBehind' = CostBehind + x
  BY <1>1, <1>3, <1>4, <1>6, <1>7, <1>8, RowIsBehind
<1>10. V[i][j].cost < Inf =>
         /\ V[i][j].cost = V[i'][j'].cost + x
         /\ V[i][j].match = V[i'][j'].match + y
  <2>1. Follows(V, q, k)
    BY <1>1, <1>2 DEF Explains, RowFollows
  <2>2. V[q][k] = Cell(Plus(V[q - 1][k - 1].cost, x), V[q - 1][k - 1].match + y)
    BY <2>1, <1>1, <1>4, <1>5 DEF Follows, Hits
  <2>3. V[q - 1][k - 1].cost \in Nat
    <3>1. q - 1 \in 0..m /\ k - 1 \in 0..n
      BY <1>3
    <3>2. V[q - 1][k - 1] \in Cells
      BY <3>1 DEF Tables
    <3> QED
      BY <3>2 DEF Cells
  <2>4. V[q][k].cost = Plus(V[q - 1][k - 1].cost, x)
        /\ V[q][k].match = V[q - 1][k - 1].match + y
    BY <2>2 DEF Cell
  <2>5. V[q][k].cost < Inf => V[q][k].cost = V[q - 1][k - 1].cost + x
    BY <2>3, <2>4, PlusIsExact
  <2>6. i' = q - 1 /\ j' = k - 1
    BY <1>1, <1>4
  <2> QED
    BY <2>4, <2>5, <2>6, <1>4
<1>11. i' \in 0..m /\ j' \in 0..n /\ y \in Nat
  BY <1>1, <1>3
<1> QED
  BY <1>1, <1>2, <1>6, <1>9, <1>10, <1>11, TraceStep

LEMMA TraceDelIsExplained ==
  ASSUME IInv, Explained, TraceDel
  PROVE  Explained'
<1>1. /\ Tracing /\ pc = "trace" /\ UNCHANGED input /\ i > 0
      /\ (j > 0 => ptr[i][j] \in {"del", "outside"})
      /\ map' = map /\ i' = i - 1 /\ j' = j
      /\ count' = [count EXCEPT !.del = @ + 1]
  BY DEF TraceDel, Tracing
<1>2. PICK V \in Tables : Explains(V)
  BY <1>1 DEF Explained
<1>3. /\ m \in Nat /\ n \in Nat /\ i \in 1..m /\ j \in 0..n
      /\ count \in [sub : Nat, del : Nat, ins : Nat, match : Nat]
      /\ map \in [1..m -> 0..n] /\ map[i] = 0
  <2>1. Balanced(count, i, j, jEnd, m) /\ \A a \in 1..m : map[a] # 0 => a > i
    BY <1>1 DEF IInv, Traced
  <2>2. count.sub \in Nat /\ count.del \in Nat /\ count.sub + count.del = m - i
    BY <2>1 DEF Balanced
  <2>3. i \in 0..m + 1 /\ j \in 0..n /\ m \in Nat /\ n \in Nat
    BY Lengths DEF IInv, AlignTypeOK
  <2>4. /\ count \in [sub : Nat, del : Nat, ins : Nat, match : Nat]
        /\ map \in [1..m -> 0..n]
    BY DEF IInv, AlignTypeOK
  <2>5. i \in 1..m
    BY <2>2, <2>3, <1>1
  <2>6. map[i] = 0
    BY <2>1, <2>5
  <2> QED
    BY <2>3, <2>4, <2>5, <2>6
<1>4. PICK q \in 1..m, k \in 0..n, x \in Nat : q = i /\ k = j /\ x = ObsIns
  BY <1>3, RowsHaveBands
<1>5. count'.ins = count.ins /\ count'.match = count.match + 0
  BY <1>1, <1>3
<1>6. WordCost(q)' = x
  BY <1>1, <1>3, <1>4 DEF WordCost
<1>7. CostBehind' = CostBehind + x
  BY <1>1, <1>3, <1>4, <1>5, <1>6, RowIsBehind
<1>8. V[q - 1][k].cost \in Nat /\ V[q - 1][k].match \in Nat
  <2>1. q - 1 \in 0..m /\ k \in 0..n
    BY <1>3
  <2>2. V[q - 1][k] \in Cells
    BY <2>1 DEF Tables
  <2> QED
    BY <2>2 DEF Cells
<1>9. V[q][k].cost < Inf =>
        V[q][k] = Cell(Plus(V[q - 1][k].cost, x), V[q - 1][k].match)
  <2>1. RowFollows(V, q)
    BY <1>1, <1>2 DEF Explains
  <2>2. V[q][k].cost \in Nat /\ Inf \in Nat
    <3>1. q \in 0..m
      BY <1>3
    <3>2. V[q][k] \in Cells
      BY <3>1 DEF Tables
    <3> QED
      BY <3>2, RowsHaveBands DEF Cells
  <2>3. CASE k = 0
    BY <2>1, <2>2, <2>3, <1>4 DEF RowFollows
  <2>4. CASE k # 0
    <3>1. k \in 1..n
      BY <2>4
    <3>2. Follows(V, q, k) /\ ptr[q][k] \in {"del", "outside"}
      BY <3>1, <2>1, <1>1, <1>4 DEF RowFollows
    <3> QED
      BY <3>2, <2>2, <1>4 DEF Follows
  <2> QED
    BY <2>3, <2>4
<1>10. V[i][j].cost < Inf =>
         /\ V[i][j].cost = V[i'][j'].cost + x
         /\ V[i][j].match = V[i'][j'].match + 0
  <2> SUFFICES ASSUME V[q][k].cost < Inf
               PROVE  /\ V[q][k].cost = V[q - 1][k].cost + x
                      /\ V[q][k].match = V[q - 1][k].match + 0
    BY <1>1, <1>4
  <2>1. V[q][k].cost = Plus(V[q - 1][k].cost, x) /\ V[q][k].match = V[q - 1][k].match
    BY <1>9 DEF Cell
  <2>2. V[q][k].cost = V[q - 1][k].cost + x
    BY <2>1, <1>8, PlusIsExact
  <2> QED
    BY <2>1, <2>2, <1>8
<1>11. i' \in 0..m /\ j' \in 0..n /\ 0 \in Nat
  BY <1>1, <1>3
<1> QED
  BY <1>1, <1>2, <1>5, <1>7, <1>10, <1>11, TraceStep

LEMMA TraceInsIsExplained ==
  ASSUME IInv, Explained, TraceIns
  PROVE  Explained'
<1>1. /\ Tracing /\ pc = "trace" /\ UNCHANGED input /\ i > 0 /\ j > 0 /\ ptr[i][j] = "ins"
      /\ map' = map /\ i' = i /\ j' = j - 1
      /\ count' = [count EXCEPT !.ins = @ + 1]
  BY DEF TraceIns, Tracing
<1>2. PICK V \in Tables : Explains(V)
  BY <1>1 DEF Explained
<1>3. /\ m \in Nat /\ n \in Nat /\ i \in 1..m /\ j \in 1..n /\ j - 1 \in 0..n
      /\ count \in [sub : Nat, del : Nat, ins : Nat, match : Nat]
  <2>1. Balanced(count, i, j, jEnd, m)
    BY <1>1 DEF IInv, Traced
  <2>2. count.sub \in Nat /\ count.del \in Nat /\ count.sub + count.del = m - i
    BY <2>1 DEF Balanced
  <2>3. i \in 0..m + 1 /\ j \in 0..n /\ m \in Nat /\ n \in Nat
    BY Lengths DEF IInv, AlignTypeOK
  <2>4. count \in [sub : Nat, del : Nat, ins : Nat, match : Nat]
    BY DEF IInv, AlignTypeOK
  <2> QED
    BY <2>2, <2>3, <2>4, <1>1
<1>4. PICK q \in 1..m, k \in 1..n, x \in Nat : q = i /\ k = j /\ x = RefDel
  BY <1>3, RowsHaveBands
<1>5. count'.ins = count.ins + 1 /\ count'.match = count.match + 0
  BY <1>1, <1>3
<1>6. CostBehind' = CostBehind + x
  <2>1. \A r : WordCost(r)' = WordCost(r)
    BY <1>1, PathsStay DEF WordCost
  <2>2. Behind' = Behind /\ m' = m
    BY <2>1, <1>1, PathsStay DEF Behind
  <2>3. PICK s \in Nat, c \in Nat : s = Sums(Behind, m)[m] /\ c = count.ins
    BY <1>3, BehindIsNumbers
  <2>4. CostBehind = s + c * x
    BY <2>3, <1>4, BehindIsNumbers
  <2>5. CostBehind' = s + (c + 1) * x
    BY <2>2, <2>3, <1>4, <1>5 DEF CostBehind, Behind
  <2>6. (c + 1) * x = c * x + x /\ c * x \in Nat
    OBVIOUS
  <2> QED
    BY <2>4, <2>5, <2>6
<1>7. V[i][j].cost < Inf =>
        /\ V[i][j].cost = V[i'][j'].cost + x
        /\ V[i][j].match = V[i'][j'].match + 0
  <2>1. Follows(V, q, k)
    BY <1>1, <1>2 DEF Explains, RowFollows
  <2>2. V[q][k] = Cell(Plus(V[q][k - 1].cost, x), V[q][k - 1].match)
    BY <2>1, <1>1, <1>4 DEF Follows
  <2>3. V[q][k - 1].cost \in Nat /\ V[q][k - 1].match \in Nat
    <3>1. q \in 0..m /\ k - 1 \in 0..n
      BY <1>3
    <3>2. V[q][k - 1] \in Cells
      BY <3>1 DEF Tables
    <3> QED
      BY <3>2 DEF Cells
  <2>4. V[q][k].cost = Plus(V[q][k - 1].cost, x)
        /\ V[q][k].match = V[q][k - 1].match
    BY <2>2 DEF Cell
  <2>5. V[q][k].cost < Inf => V[q][k].cost = V[q][k - 1].cost + x
    BY <2>3, <2>4, PlusIsExact
  <2>6. i' = q /\ j' = k - 1
    BY <1>1, <1>4
  <2> QED
    BY <2>3, <2>4, <2>5, <2>6, <1>4
<1>8. i' \in 0..m /\ j' \in 0..n /\ 0 \in Nat
  BY <1>1, <1>3
<1> QED
  BY <1>1, <1>2, <1>5, <1>6, <1>7, <1>8, TraceStep

\* The same table explains what no step has changed.
LEMMA StillExplained ==
  ASSUME IInv, Explained, UNCHANGED <<input, table, i, j, result>>,
         \/ pc' = pc
         \/ pc = "trace" /\ pc' = "aligned"
  PROVE  Explained'
<1>1. CASE pc = "returned"
  BY <1>1 DEF Explained
<1>2. CASE pc # "returned"
  <2>1. PICK V \in Tables : Explains(V)
    BY <1>2 DEF Explained
  <2>2. /\ UNCHANGED input /\ prev' = prev /\ curr' = curr /\ ptr' = ptr /\ i' = i /\ j' = j
        /\ jEnd' = jEnd /\ cost' = cost /\ map' = map /\ count' = count
    BY DEF table, result
  <2>3. n' = n /\ m' = m /\ \A r : RowFollows(V, r)' = RowFollows(V, r)
    BY <2>2, PathsStay DEF RowFollows, Follows, Hits
  <2>4. /\ \A r, k : Empty(r, k)' = Empty(r, k)
        /\ \A r : EmptyFrom(r)' = EmptyFrom(r)
    BY <2>2, <2>3 DEF Empty, EmptyFrom
  <2>5. CostBehind' = CostBehind
    <3>1. \A r : WordCost(r)' = WordCost(r)
      BY <2>2, PathsStay DEF WordCost
    <3> QED
      BY <3>1, <2>2, <2>3 DEF CostBehind
  <2>6. V[0] = [k \in 0..n |-> Cell(0, 0)]
    BY <2>1 DEF Explains
  <2>7. pc = "row" => /\ prev = V[i - 1] /\ \A r \in 1..i - 1 : RowFollows(V, r)
                      /\ EmptyFrom(i)
    BY <2>1 DEF Explains
  <2>8. pc = "cells" => /\ prev = V[i - 1] /\ curr = V[i] /\ \A r \in 1..i : RowFollows(V, r)
                        /\ Empty(i, j) /\ EmptyFrom(i + 1)
    BY <2>1 DEF Explains
  <2>9. pc \in {"trace", "aligned"} =>
          /\ \A r \in 1..m : RowFollows(V, r)
          /\ cost < Inf => /\ V[i][j].cost + CostBehind = cost
                           /\ V[i][j].match + count.match = prev[jEnd].match
    BY <2>1 DEF Explains
  <2>10. (V[0] = [k \in 0..n |-> Cell(0, 0)])'
    BY <2>3, <2>6
  <2>11. pc' = "row" => /\ prev' = V[i' - 1] /\ \A r \in 1..i' - 1 : RowFollows(V, r)'
                        /\ EmptyFrom(i)'
    <3>1. EmptyFrom(i) => EmptyFrom(i)'
      BY <2>2, <2>3 DEF Empty, EmptyFrom
    <3> QED
      BY <3>1, <2>2, <2>3, <2>7
  <2>12. pc' = "cells" =>
           /\ prev' = V[i' - 1] /\ curr' = V[i'] /\ \A r \in 1..i' : RowFollows(V, r)'
           /\ Empty(i, j)' /\ EmptyFrom(i + 1)'
    <3>1. (EmptyFrom(i + 1) => EmptyFrom(i + 1)') /\ (Empty(i, j) => Empty(i, j)')
      BY <2>2, <2>3 DEF Empty, EmptyFrom
    <3> QED
      BY <3>1, <2>2, <2>3, <2>8
  <2>13. pc' \in {"trace", "aligned"} =>
           /\ \A r \in 1..m' : RowFollows(V, r)'
           /\ cost' < Inf => /\ V[i'][j'].cost + CostBehind' = cost'
                             /\ V[i'][j'].match + count'.match = prev'[jEnd'].match
    BY <2>2, <2>3, <2>5, <2>9
  <2>14. Explains(V)'
    BY <2>10, <2>11, <2>12, <2>13 DEF Explains
  <2>15. V \in Tables'
    BY <2>1, <2>3 DEF Tables
  <2> QED
    BY <2>14, <2>15 DEF Explained
<1> QED
  BY <1>1, <1>2

LEMMA ExplainedKeeps == IInv /\ Best /\ Explained /\ [Next]_vars => Explained'
<1> SUFFICES ASSUME IInv, Best, Explained, [Next]_vars PROVE Explained'
  OBVIOUS
<1>1. CASE AlignNext
  <2>1. CASE Return
    BY <2>1 DEF Return, Explained
  <2>2. CASE EndTrace
    <3>1. UNCHANGED <<input, table, i, j, result>> /\ pc = "trace" /\ pc' = "aligned"
      BY <2>2 DEF EndTrace
    <3> QED
      BY <3>1, StillExplained
  <2> QED
    BY <1>1, <2>1, <2>2, DeadRowIsExplained, StartRowIsExplained, FillCellIsExplained,
       ChooseEndIsExplained, TraceSubIsExplained, TraceDelIsExplained, TraceInsIsExplained
    DEF AlignNext
<1>2. CASE UNCHANGED alignVars
  <2>1. UNCHANGED <<input, table, i, j, result>> /\ pc' = pc
    BY <1>2 DEF alignVars
  <2> QED
    BY <2>1, StillExplained
<1> QED
  BY <1>1, <1>2 DEF Next, vars, Align, UpgradeFails, NothingMapped, TimeAyahs, FillNext, ClipNext,
      Step

\* What lies behind a traceback that has ended is the cost of its mapping.
LEMMA CheapestAtTheEnd ==
  ASSUME IInv, Best, Explained
  PROVE  AlignmentIsCheapest
<1> SUFFICES ASSUME pc = "aligned"
             PROVE  /\ \A leave \in [0..m -> 0..n], subs \in SUBSET (1..m) :
                         InBand(leave, subs) =>
                           /\ cost <= PathCosts(leave, subs)[m]
                           /\ cost < Inf /\ cost = PathCosts(leave, subs)[m] =>
                                PathMatches(leave, subs)[m] <= count.match
                    /\ cost < Inf => cost = CostOfMap
  BY DEF AlignmentIsCheapest
<1>1. m \in Nat /\ n \in Nat /\ i = 0 /\ j \in 0..n /\ jEnd \in 0..n /\ count.match \in Nat
  BY Lengths DEF IInv, AlignTypeOK, Loops
<1>2. PICK V \in Tables : Explains(V)
  BY DEF Explained
<1>3. V[i][j] = Cell(0, 0)
  BY <1>1, <1>2 DEF Explains
<1>4. cost < Inf => 0 + CostBehind = cost /\ 0 + count.match = prev[jEnd].match
  BY <1>2, <1>3 DEF Explains, Cell
<1>5. CostBehind = CostOfMap
  <2>1. \A r \in 1..m : (IF r <= i THEN 0 ELSE WordCost(r)) = WordCost(r)
    BY <1>1
  <2>2. [r \in 1..m |-> IF r <= i THEN 0 ELSE WordCost(r)] = [r \in 1..m |-> WordCost(r)]
    BY <2>1
  <2> QED
    BY <2>2 DEF CostBehind, CostOfMap
<1>6. CostBehind \in Nat
  BY BehindIsNumbers
<1>7. cost < Inf => cost = CostOfMap /\ prev[jEnd].match = count.match
  BY <1>1, <1>4, <1>5, <1>6
<1>8. cost = prev[jEnd].cost /\ prev[jEnd] \in Cells
  BY <1>1 DEF Best
<1>9. ASSUME NEW leave \in [0..m -> 0..n], NEW subs \in SUBSET (1..m), InBand(leave, subs)
      PROVE  /\ cost <= PathCosts(leave, subs)[m]
             /\ cost < Inf /\ cost = PathCosts(leave, subs)[m] =>
                  PathMatches(leave, subs)[m] <= count.match
  <2>1. NoWorse(prev[jEnd], PathCosts(leave, subs)[m], PathMatches(leave, subs)[m])
    BY <1>9, EndIsBest
  <2>2. PathMatches(leave, subs)[m] \in Nat
    <3>1. RowIsBest(prev, m)
      BY DEF Best
    <3> QED
      BY <3>1, <1>9 DEF RowIsBest, InBand
  <2> QED
    BY <2>1, <2>2, <1>1, <1>7, <1>8 DEF NoWorse
<1> QED
  BY <1>7, <1>9

\* The alignment that the traceback reads off the table is the cheapest of those
\* in the band, with the most matches of the cheapest (AlignmentIsCheapest), for
\* every transcript, reference, band and table of costs.
THEOREM CheapestIsFound == Spec => []AlignmentIsCheapest
<1>1. Init => IInv /\ Best /\ Explained
  BY InitHolds, InitIsBest, InitIsExplained DEF Init
<1>2. IInv /\ Best /\ Explained /\ [Next]_vars => (IInv /\ Best /\ Explained)'
  BY StepKeeps, BestKeeps, ExplainedKeeps
<1>3. IInv /\ Best /\ Explained => AlignmentIsCheapest
  BY CheapestAtTheEnd
<1> QED
  BY <1>1, <1>2, <1>3, PTL DEF Spec
=============================================================================
