--------------------------- MODULE MultiSpanProofs ---------------------------
(***************************************************************************)
(* Theorems about MultiSpan, for every recording, every alignment of its   *)
(* segments and every distance that counts as far.                         *)
(*                                                                         *)
(* During the scan the spans and jumps are a chain that the current span   *)
(* ends; the trusted segment is in the current span and before the pending *)
(* one, so a split always leaves something on both of its sides.  From     *)
(* then on no span is empty: the renumbering after the scan is the         *)
(* identity, and that of a dropped intro takes one from every index.       *)
(*                                                                         *)
(* Why a span starts where it does is said about the past of the scan: a   *)
(* second invariant relates the jumps to the segments that were trusted.   *)
(***************************************************************************)
EXTENDS MultiSpan, FiniteSetTheorems, SequenceTheorems, TLAPS

SpanSet == [first : Nat, last : Nat]
JumpSet == [at : Nat, segment : Nat, from : Nat, to : Nat]

\* The spans sp, none of them empty, follow each other.
Tiled(sp) ==
  /\ sp \in Seq(SpanSet) /\ Len(sp) >= 1
  /\ \A k \in 1..Len(sp) : sp[k].first >= 1 /\ sp[k].first <= sp[k].last
  /\ \A k \in 1..Len(sp) : k > 1 => sp[k].first = sp[k - 1].last + 1

\* The jumps jp are the seams of sp.
Sewn(jp, sp) ==
  /\ jp \in Seq(JumpSet) /\ Len(jp) = Len(sp) - 1
  /\ \A k \in 1..Len(jp) :
       /\ jp[k].from = k /\ jp[k].to = k + 1
       /\ jp[k].segment = sp[k + 1].first
       /\ jp[k].at \in sp[k + 1].first .. sp[k + 1].last

Chain == Tiled(spans) /\ Sewn(jumps, spans)

\* Up to where the spans go.
Until == segs # <<>> => spans[Len(spans)].last = Len(segs)

\* While the segments are scanned.
Scanning ==
  phase = "scan" =>
    /\ cur = Len(spans)
    /\ segs = <<>> => last = 0 /\ pending.start = 0 /\ spans[cur].last = 1
    /\ last \in 0..Len(segs)
    /\ last # 0 => spans[cur].first <= last
    /\ \A k \in 1..Len(jumps) : jumps[k].at <= last
    /\ pending \in [start : 0..Len(segs), count : Nat, from : Nat]
    /\ pending.start # 0 => pending.from = cur /\ last # 0 /\ last < pending.start

\* One alignment for each span.
Aligns ==
  phase \in {"drop", "done"} =>
    /\ refined \in Seq([over : SpanSet, result : Refinements]) /\ Len(refined) = Len(spans)
    /\ \A k \in 1..Len(spans) : refined[k].over = spans[k]

IInv ==
  /\ segs \in Seq(Aligned \union {NoAlign}) /\ phase \in Phases
  /\ phase # "scan" => segs # <<>>
  /\ Chain /\ Until /\ Scanning /\ Aligns
  /\ phase \notin {"drop", "done"} => spans[1].first = 1

LEMMA InitHolds == Init => IInv
<1> SUFFICES ASSUME Init PROVE IInv
  OBVIOUS
<1> USE DEF Init
<1>1. spans = <<[first |-> 1, last |-> 1]>> /\ Len(spans) = 1 /\ Len(jumps) = 0 /\ Len(segs) = 0
  OBVIOUS
<1>2. spans[1] = [first |-> 1, last |-> 1] /\ spans \in Seq(SpanSet)
  BY <1>1 DEF SpanSet
<1>3. Tiled(spans)
  BY <1>1, <1>2 DEF Tiled
<1>4. Sewn(jumps, spans)
  BY <1>1 DEF Sewn
<1>5. segs \in Seq(Aligned \union {NoAlign})
  OBVIOUS
<1>6. Scanning
  BY <1>1 DEF Scanning, NoPending
<1> QED
  BY <1>1, <1>2, <1>3, <1>4, <1>5, <1>6 DEF IInv, Chain, Until, Aligns, Phases

-----------------------------------------------------------------------------
(* The scan                                                                 *)

\* The last span of sp gets another end in ex.
Ends(ex, sp, l) == ex = [sp EXCEPT ![Len(sp)].last = l]

LEMMA NewEnd ==
  ASSUME NEW sp \in Seq(SpanSet), Len(sp) >= 1, NEW l \in Nat,
         NEW ex, Ends(ex, sp, l)
  PROVE  /\ ex \in Seq(SpanSet) /\ Len(ex) = Len(sp)
         /\ \A k \in 1..Len(sp) : /\ ex[k] \in SpanSet /\ ex[k].first = sp[k].first
                                  /\ ex[k].last = IF k = Len(sp) THEN l ELSE sp[k].last
<1> DEFINE e == [sp[Len(sp)] EXCEPT !.last = l]
<1>1. Len(sp) \in 1..Len(sp) /\ \A k \in 1..Len(sp) : sp[k] \in SpanSet
  OBVIOUS
<1>2. e \in SpanSet /\ e.first = sp[Len(sp)].first /\ e.last = l
  BY <1>1 DEF SpanSet
<1>3. ex = [sp EXCEPT ![Len(sp)] = e]
  BY DEF Ends
<1> HIDE DEF e
<1>4. /\ ex \in Seq(SpanSet) /\ Len(ex) = Len(sp)
      /\ \A k \in 1..Len(sp) : ex[k] = IF k = Len(sp) THEN e ELSE sp[k]
  BY <1>1, <1>2, <1>3, ExceptSeq
<1>5. \A k \in 1..Len(sp) : /\ ex[k] \in SpanSet /\ ex[k].first = sp[k].first
                            /\ ex[k].last = IF k = Len(sp) THEN l ELSE sp[k].last
  BY <1>1, <1>2, <1>4
<1> QED
  BY <1>4, <1>5

\* What Sewn says of one jump.
LEMMA Seam ==
  ASSUME NEW jp, NEW sp, Sewn(jp, sp), Len(sp) \in Nat, NEW k \in 1..Len(jp)
  PROVE  /\ Len(jp) = Len(sp) - 1 /\ Len(jp) \in Nat
         /\ k + 1 \in 1..Len(sp)
         /\ jp[k].from = k /\ jp[k].to = k + 1
         /\ jp[k].segment = sp[k + 1].first
         /\ jp[k].at \in sp[k + 1].first .. sp[k + 1].last
<1>1. jp \in Seq(JumpSet) /\ Len(jp) = Len(sp) - 1
  BY DEF Sewn
<1>2. Len(jp) \in Nat
  BY <1>1
<1>3. k + 1 \in 1..Len(sp)
  BY <1>1, <1>2
<1>4. /\ jp[k].from = k /\ jp[k].to = k + 1
      /\ jp[k].segment = sp[k + 1].first
      /\ jp[k].at \in sp[k + 1].first .. sp[k + 1].last
  BY Zenon DEF Sewn
<1> QED
  BY <1>1, <1>2, <1>3, <1>4

LEMMA Seams ==
  ASSUME NEW jp, NEW sp, Sewn(jp, sp), NEW n \in Nat, Len(sp) = n
  PROVE  /\ jp \in Seq(JumpSet) /\ Len(jp) = n - 1 /\ Len(jp) \in Nat
         /\ \A k \in 1..n - 1 :
              /\ jp[k].from = k /\ jp[k].to = k + 1
              /\ jp[k].segment = sp[k + 1].first
              /\ jp[k].at \in sp[k + 1].first .. sp[k + 1].last
<1>1. jp \in Seq(JumpSet) /\ Len(jp) = n - 1
  BY DEF Sewn
<1>2. Len(jp) \in Nat
  BY <1>1
<1>3. 1..n - 1 = 1..Len(jp)
  BY <1>1
<1>4. \A k \in 1..Len(jp) :
        /\ jp[k].from = k /\ jp[k].to = k + 1
        /\ jp[k].segment = sp[k + 1].first
        /\ jp[k].at \in sp[k + 1].first .. sp[k + 1].last
  BY Zenon DEF Sewn
<1> QED
  BY <1>1, <1>2, <1>3, <1>4, Zenon

\* The last span grows.
LEMMA ExtendChain ==
  ASSUME NEW sp, Tiled(sp), NEW jp, Sewn(jp, sp),
         NEW i \in Nat, i >= sp[Len(sp)].last,
         NEW ex, Ends(ex, sp, i)
  PROVE  /\ Tiled(ex) /\ Sewn(jp, ex) /\ Len(ex) = Len(sp) /\ ex[Len(sp)].last = i
         /\ \A k \in 1..Len(sp) : ex[k].first = sp[k].first
<1>1. Len(sp) \in 1..Len(sp) /\ sp \in Seq(SpanSet) /\ Len(sp) \in Nat
  BY DEF Tiled
<1>2. ex \in Seq(SpanSet) /\ Len(ex) = Len(sp)
  BY <1>1, NewEnd
<1>3. \A k \in 1..Len(sp) :
        /\ sp[k] \in SpanSet /\ ex[k].first = sp[k].first
        /\ ex[k].last = IF k = Len(sp) THEN i ELSE sp[k].last
  BY <1>1, NewEnd
<1>4. Tiled(ex)
  <2>1. \A k \in 1..Len(sp) : /\ sp[k].first \in Nat /\ sp[k].last \in Nat
                              /\ sp[k].first >= 1 /\ sp[k].first <= sp[k].last
                              /\ k > 1 => sp[k].first = sp[k - 1].last + 1
    <3>1. \A k \in 1..Len(sp) : sp[k] \in SpanSet
      BY <1>3
    <3> QED
      BY <3>1 DEF Tiled, SpanSet
  <2>4. /\ \A k \in 1..Len(sp) : k # Len(sp) => ex[k].last = sp[k].last
        /\ ex[Len(sp)].last = i
    BY <1>1, <1>3
  <2>2. ASSUME NEW k \in 1..Len(sp)
        PROVE  ex[k].first >= 1 /\ ex[k].first <= ex[k].last
    <3>1. CASE k = Len(sp)
      <4>1. sp[k].first \in Nat /\ sp[k].last \in Nat /\ sp[k].first <= sp[k].last
            /\ sp[k].last <= i /\ sp[k].first >= 1
        BY <2>1, <3>1
      <4> QED
        BY <1>3, <2>4, <3>1, <4>1
    <3>2. CASE k # Len(sp)
      BY <1>3, <2>1, <2>4, <3>2
    <3> QED
      BY <3>1, <3>2
  <2>3. ASSUME NEW k \in 1..Len(sp), k > 1
        PROVE  ex[k].first = ex[k - 1].last + 1
    <3>1. k - 1 \in 1..Len(sp) /\ k - 1 # Len(sp)
      BY <1>1, <2>3
    <3> QED
      BY <1>3, <2>1, <2>3, <2>4, <3>1
  <2> QED
    BY <1>1, <1>2, <2>2, <2>3 DEF Tiled
<1>5. Sewn(jp, ex)
  <2> SUFFICES ASSUME NEW k \in 1..Len(jp)
               PROVE  /\ jp[k].segment = ex[k + 1].first
                      /\ jp[k].at \in ex[k + 1].first .. ex[k + 1].last
    BY <1>2 DEF Sewn
  <2>1. /\ k + 1 \in 1..Len(sp) /\ jp[k].segment = sp[k + 1].first
        /\ jp[k].at \in sp[k + 1].first .. sp[k + 1].last
    BY <1>1, Seam
  <2>2. sp[k + 1].first \in Nat /\ sp[k + 1].last \in Nat /\ ex[k + 1].first = sp[k + 1].first
        /\ ex[k + 1].last \in Nat /\ sp[k + 1].last <= ex[k + 1].last
    <3>1. sp[k + 1] \in [first : Nat, last : Nat]
      BY <1>3, <2>1 DEF SpanSet
    <3> QED
      BY <1>3, <2>1, <3>1
  <2> QED
    BY <2>1, <2>2
<1> QED
  BY <1>1, <1>2, <1>3, <1>4, <1>5

\* The span new begins at f in the last one of sp, of which cut is what is left.
Cuts(cut, new, sp, f, i) ==
  /\ f \in Nat /\ i \in Nat /\ f <= i /\ sp[Len(sp)].first < f
  /\ cut \in Seq(SpanSet) /\ Len(cut) = Len(sp)
  /\ \A k \in 1..Len(sp) : /\ cut[k].first = sp[k].first
                           /\ cut[k].last = IF k = Len(sp) THEN f - 1 ELSE sp[k].last
  /\ new \in SpanSet /\ new.first = f /\ new.last = i

\* The jump goes there from the last of sp, and the jumps jp are before it.
Joins(jump, jp, sp, f, i) ==
  /\ jump \in JumpSet /\ jump.at \in f..i /\ jump.segment = f
  /\ jump.from = Len(sp) /\ jump.to = Len(sp) + 1
  /\ \A k \in 1..Len(jp) : jp[k].at < f

\* The last span is cut before f and a new one begins there.
LEMMA SplitChain ==
  ASSUME NEW sp, Tiled(sp), NEW jp, Sewn(jp, sp), NEW f, NEW i,
         NEW cut, NEW new, Cuts(cut, new, sp, f, i),
         NEW jump, Joins(jump, jp, sp, f, i)
  PROVE  /\ Tiled(Append(cut, new)) /\ Sewn(Append(jp, jump), Append(cut, new))
         /\ Len(Append(cut, new)) = Len(sp) + 1
         /\ Append(cut, new)[Len(sp) + 1] = new
         /\ \A k \in 1..Len(sp) : Append(cut, new)[k].first = sp[k].first
<1> DEFINE n == Len(sp)
<1>0. n \in Nat /\ Len(sp) = n
  BY DEF Tiled
<1> HIDE DEF n
<1>9. /\ jp \in Seq(JumpSet) /\ Len(jp) = n - 1 /\ Len(jp) \in Nat
      /\ \A k \in 1..n - 1 :
           /\ jp[k].from = k /\ jp[k].to = k + 1
           /\ jp[k].segment = sp[k + 1].first
           /\ jp[k].at \in sp[k + 1].first .. sp[k + 1].last
  BY <1>0, Seams
<1> USE DEF Cuts, Joins, n
<1> PICK ns : ns = Append(cut, new)
  OBVIOUS
<1> PICK nj : nj = Append(jp, jump)
  OBVIOUS
<1>1. n \in Nat /\ n \in 1..n /\ sp \in Seq(SpanSet) /\ \A k \in 1..n : sp[k] \in SpanSet
  BY DEF Tiled
<1>2. sp[n].first >= 1 /\ sp[n].first \in Nat /\ f - 1 \in Nat
  BY <1>1 DEF Tiled, SpanSet
<1>3. /\ ns \in Seq(SpanSet) /\ Len(ns) = n + 1
      /\ \A k \in 1..n : ns[k].first = sp[k].first
      /\ \A k \in 1..n : ns[k].last = IF k = n THEN f - 1 ELSE sp[k].last
      /\ ns[n + 1] = new
  <2>1. /\ ns \in Seq(SpanSet) /\ Len(ns) = n + 1
        /\ \A k \in 1..n : ns[k] = cut[k]
        /\ ns[n + 1] = new
    BY AppendProperties
  <2> QED
    BY <2>1
<1>4. ns[n + 1].first = f /\ ns[n + 1].last = i
  BY <1>3
<1>5. \A k \in 1..n : /\ sp[k].first \in Nat /\ sp[k].last \in Nat /\ sp[k].first >= 1
                      /\ sp[k].first <= sp[k].last
                      /\ k > 1 => sp[k].first = sp[k - 1].last + 1 /\ k - 1 \in 1..n
  <2>1. \A k \in 1..n : sp[k].first \in Nat /\ sp[k].last \in Nat
    BY <1>1 DEF SpanSet
  <2>2. \A k \in 1..n : /\ sp[k].first >= 1 /\ sp[k].first <= sp[k].last
                        /\ k > 1 => sp[k].first = sp[k - 1].last + 1
    BY DEF Tiled
  <2> QED
    BY <1>1, <2>1, <2>2
<1> HIDE DEF n
<1>6. Tiled(ns)
  <2>1. \A k \in 1..n + 1 : ns[k].first >= 1 /\ ns[k].first <= ns[k].last
    <3> SUFFICES ASSUME NEW k \in 1..n + 1 PROVE ns[k].first >= 1 /\ ns[k].first <= ns[k].last
      OBVIOUS
    <3>1. CASE k = n + 1
      BY <1>1, <1>2, <1>3, <1>4, <3>1 DEF n
    <3>2. CASE k # n + 1
      BY <1>1, <1>2, <1>3, <1>4, <1>5, <3>2 DEF n
    <3> QED
      BY <3>1, <3>2
  <2>2. \A k \in 1..n + 1 : k > 1 => ns[k].first = ns[k - 1].last + 1
    <3> SUFFICES ASSUME NEW k \in 1..n + 1, k > 1 PROVE ns[k].first = ns[k - 1].last + 1
      OBVIOUS
    <3>1. CASE k = n + 1
      <4>1. k - 1 = n
        BY <1>1, <3>1
      <4> QED
        BY <1>1, <1>2, <1>3, <1>4, <3>1, <4>1
    <3>2. CASE k # n + 1
      <4>1. k \in 1..n /\ k - 1 \in 1..n /\ k - 1 # n
        BY <1>1, <3>2
      <4> QED
        BY <1>3, <1>4, <1>5, <4>1
    <3> QED
      BY <3>1, <3>2
  <2> QED
    BY <1>1, <1>3, <2>1, <2>2 DEF Tiled
<1>7. Sewn(nj, ns)
  <2>1. /\ jp \in Seq(JumpSet) /\ Len(jp) = n - 1 /\ Len(jp) \in Nat
        /\ \A k \in 1..n - 1 :
             /\ jp[k].from = k /\ jp[k].to = k + 1
             /\ jp[k].segment = sp[k + 1].first
             /\ jp[k].at \in sp[k + 1].first .. sp[k + 1].last
    BY <1>9
  <2>4. /\ nj \in Seq(JumpSet) /\ Len(nj) = n
        /\ \A k \in 1..n - 1 : nj[k] = jp[k]
        /\ nj[n] = jump
    BY <1>1, <2>1, AppendProperties
  <2>5. ASSUME NEW k \in 1..n
        PROVE  /\ nj[k].from = k /\ nj[k].to = k + 1
               /\ nj[k].segment = ns[k + 1].first
               /\ nj[k].at \in ns[k + 1].first .. ns[k + 1].last
    <3>1. CASE k = n
      BY <1>3, <1>4, <2>4, <3>1
    <3>2. CASE k # n
      <4>1. k \in 1..n - 1 /\ k + 1 \in 1..n /\ k \in 1..Len(jp)
        BY <1>1, <2>1, <3>2
      <4>2. /\ jp[k].at \in sp[k + 1].first .. sp[k + 1].last
            /\ jp[k].at < f
        BY <2>1, <4>1 DEF n
      <4>3. jp[k].at \in ns[k + 1].first .. ns[k + 1].last
        <5>1. sp[k + 1].first \in Nat /\ sp[k + 1].last \in Nat
          BY <1>5, <4>1
        <5>2. ns[k + 1].first = sp[k + 1].first
              /\ ns[k + 1].last = IF k + 1 = n THEN f - 1 ELSE sp[k + 1].last
          BY <1>3, <4>1
        <5>3. CASE k + 1 = n
          BY <4>2, <5>1, <5>2, <5>3
        <5>4. CASE k + 1 # n
          BY <4>2, <5>1, <5>2, <5>4
        <5> QED
          BY <5>3, <5>4
      <4> QED
        BY <1>3, <1>4, <2>1, <2>4, <4>1, <4>3
    <3> QED
      BY <3>1, <3>2
  <2> QED
    BY <1>1, <1>3, <2>4, <2>5 DEF Sewn
<1> QED
  BY <1>1, <1>3, <1>6, <1>7 DEF n

LEMMA JumpsAreTyped ==
  ASSUME Chain
  PROVE  \A k \in 1..Len(jumps) : jumps[k].at \in Nat
<1>1. \A k \in 1..Len(jumps) : jumps[k] \in JumpSet
  BY DEF Chain, Sewn
<1> QED
  BY <1>1 DEF JumpSet

\* A split of the current span, as Split does it.
LEMMA SplitKeeps ==
  ASSUME Chain, cur = Len(spans), NEW f \in Nat, NEW i \in Nat, f <= i, NEW at \in f..i,
         Split(cur, f, i, at), spans[cur].first < f,
         \A k \in 1..Len(jumps) : jumps[k].at < f
  PROVE  /\ Chain' /\ Len(spans') = Len(spans) + 1
         /\ spans'[Len(spans) + 1] = [first |-> f, last |-> i]
         /\ \A k \in 1..Len(spans) : spans'[k].first = spans[k].first
         /\ \A k \in 1..Len(jumps') : jumps'[k].at <= i
<1>1. /\ spans \in Seq(SpanSet) /\ Len(spans) \in Nat /\ Len(spans) >= 1
      /\ Len(spans) \in 1..Len(spans) /\ spans[Len(spans)] \in SpanSet
      /\ spans[Len(spans)].first >= 1
      /\ jumps \in Seq(JumpSet)
  BY DEF Chain, Tiled, Sewn
<1>2. PICK l \in Nat : l = f - 1 /\ Before(f) = l
  BY <1>1 DEF Before, SpanSet
<1>3. PICK cut : cut = [spans EXCEPT ![Len(spans)].last = l] /\ Ends(cut, spans, l)
  BY DEF Ends
<1>4. PICK new : new = [first |-> f, last |-> i]
  OBVIOUS
<1>5. PICK jump : jump = [at |-> at, segment |-> f, from |-> Len(spans), to |-> Len(spans) + 1]
  OBVIOUS
<1>6. /\ cut \in Seq(SpanSet) /\ Len(cut) = Len(spans)
      /\ \A k \in 1..Len(spans) : /\ cut[k].first = spans[k].first
                                  /\ cut[k].last = IF k = Len(spans) THEN f - 1 ELSE spans[k].last
  <2>1. /\ cut \in Seq(SpanSet) /\ Len(cut) = Len(spans)
        /\ \A k \in 1..Len(spans) : /\ cut[k].first = spans[k].first
                                    /\ cut[k].last = IF k = Len(spans) THEN l ELSE spans[k].last
    <3>1. l \in Nat /\ spans \in Seq(SpanSet) /\ Len(spans) >= 1 /\ Ends(cut, spans, l)
      BY <1>1, <1>2, <1>3
    <3> QED
      BY <3>1, NewEnd
  <2> QED
    BY <1>2, <2>1
<1>7. new \in SpanSet /\ new.first = f /\ new.last = i
  BY <1>4 DEF SpanSet
<1>8. /\ jump \in JumpSet /\ jump.at \in f..i /\ jump.at \in Nat /\ jump.segment = f
      /\ jump.from = Len(spans) /\ jump.to = Len(spans) + 1
  BY <1>1, <1>5 DEF JumpSet
<1>9. spans' = Append(cut, new)
  <2>1. [Extended(i) EXCEPT ![cur].last = Before(f)] = cut
    <3>1. PICK n \in 1..Len(spans) : n = Len(spans)
      BY <1>1
    <3>2. \A k \in DOMAIN spans : spans[k] \in SpanSet
      BY <1>1
    <3>3. [[spans EXCEPT ![n].last = i] EXCEPT ![n].last = l] = [spans EXCEPT ![n].last = l]
      BY <3>1, <3>2 DEF SpanSet
    <3> QED
      BY <1>2, <1>3, <3>1, <3>3 DEF Extended
  <2> QED
    BY <1>4, <2>1 DEF Split
<1>10. jumps' = Append(jumps, jump)
  BY <1>5 DEF Split
<1>11. /\ Tiled(Append(cut, new)) /\ Sewn(Append(jumps, jump), Append(cut, new))
       /\ Len(Append(cut, new)) = Len(spans) + 1
       /\ Append(cut, new)[Len(spans) + 1] = new
       /\ \A k \in 1..Len(spans) : Append(cut, new)[k].first = spans[k].first
  <2>1. Tiled(spans) /\ Sewn(jumps, spans)
    BY DEF Chain
  <2>2. Cuts(cut, new, spans, f, i)
    BY <1>6, <1>7 DEF Cuts
  <2>3. Joins(jump, jumps, spans, f, i)
    BY <1>8 DEF Joins
  <2> QED
    BY <2>1, <2>2, <2>3, SplitChain
<1>12. \A k \in 1..Len(jumps') : jumps'[k].at <= i
  <2>1. \A k \in 1..Len(jumps) : jumps[k].at \in Nat
    BY JumpsAreTyped
  <2>2. /\ Len(jumps') = Len(jumps) + 1 /\ \A k \in 1..Len(jumps) : jumps'[k] = jumps[k]
        /\ jumps'[Len(jumps) + 1] = jump
    BY <1>1, <1>8, <1>10, AppendProperties
  <2>3. Len(jumps) \in Nat
    BY <1>1
  <2> QED
    BY <1>8, <2>1, <2>2, <2>3
<1> QED
  BY <1>4, <1>9, <1>10, <1>11, <1>12 DEF Chain

\* The current span grows.
LEMMA StayKeeps ==
  ASSUME Chain, cur = Len(spans), NEW i \in Nat, i >= spans[cur].last, StayInSpan(i)
  PROVE  /\ Chain' /\ Len(spans') = Len(spans) /\ spans'[Len(spans)].last = i
         /\ \A k \in 1..Len(spans) : spans'[k].first = spans[k].first
<1>1. spans' = [spans EXCEPT ![Len(spans)].last = i] /\ jumps' = jumps
  BY DEF StayInSpan, Extended
<1>2. Tiled(spans) /\ Sewn(jumps, spans)
  BY DEF Chain
<1>3. PICK ex : ex = spans' /\ Ends(ex, spans, i)
  BY <1>1 DEF Ends
<1>4. /\ Tiled(ex) /\ Sewn(jumps, ex) /\ Len(ex) = Len(spans) /\ ex[Len(spans)].last = i
      /\ \A k \in 1..Len(spans) : ex[k].first = spans[k].first
  <2>1. i >= spans[Len(spans)].last
    OBVIOUS
  <2> QED
    BY <1>2, <1>3, <2>1, ExtendChain
<1> QED
  BY <1>1, <1>3, <1>4 DEF Chain

LEMMA ScanKeeps ==
  ASSUME IInv, NEW seg \in Aligned \union {NoAlign}, Scan(seg)
  PROVE  IInv'
<1>1. Len(segs) \in Nat /\ \E x \in Nat : x = Len(segs) + 1
  BY DEF IInv
<1>0. PICK i \in Nat : i = Len(segs) + 1
  BY <1>1
<1>2. /\ phase = "scan" /\ phase' = phase /\ UNCHANGED <<refined, active>>
      /\ segs' = Append(segs, seg) /\ segs' \in Seq(Aligned \union {NoAlign}) /\ Len(segs') = i
      /\ segs' # <<>>
      /\ Skip(seg, i) \/ Follow(seg, i) \/ JumpAtOnce(seg, i) \/ Suspect(seg, i) \/ Confirm(seg, i)
  BY <1>0, <1>1 DEF IInv, Scan
<1>3. /\ Chain /\ cur = Len(spans) /\ cur \in 1..Len(spans) /\ last \in 0..Len(segs)
      /\ last # 0 => spans[cur].first <= last
      /\ \A k \in 1..Len(jumps) : jumps[k].at <= last
      /\ pending \in [start : 0..Len(segs), count : Nat, from : Nat]
      /\ pending.start # 0 => pending.from = cur /\ last # 0 /\ last < pending.start
      /\ spans[1].first = 1
  BY <1>2 DEF IInv, Scanning, Chain, Tiled
<1>4. spans[cur].first \in Nat /\ spans[cur].last \in Nat /\ spans[cur].last <= i
      /\ spans[cur].first <= spans[cur].last
  <2>1. spans[cur] \in SpanSet /\ spans[cur].first <= spans[cur].last
    BY <1>3 DEF Chain, Tiled
  <2>2. spans[cur].last <= i
    BY <1>0, <1>1, <1>2, <1>3 DEF IInv, Scanning, Until
  <2> QED
    BY <2>1, <2>2 DEF SpanSet
<1>5. \A k \in 1..Len(jumps) : jumps[k].at \in Nat
  BY <1>3, JumpsAreTyped
<1>6. CASE /\ StayInSpan(i) /\ last' \in {last, i} /\ (last' = 0 => last = 0)
           /\ \/ pending' = pending
              \/ pending' = NoPending
              \/ last' # 0 /\ last' = last /\ pending' = [start |-> i, count |-> 1, from |-> cur]
              \/ last' = last /\ pending' = [pending EXCEPT !.count = @ + 1]
           /\ pending' = pending /\ pending.start # 0 => last' = last
  <2>1. /\ Chain' /\ Len(spans') = Len(spans) /\ spans'[Len(spans)].last = i
        /\ \A k \in 1..Len(spans) : spans'[k].first = spans[k].first
    BY <1>3, <1>4, <1>6, StayKeeps
  <2>2. cur' = cur /\ jumps' = jumps
    BY <1>6 DEF StayInSpan
  <2>3. pending' \in [start : 0..i, count : Nat, from : Nat]
    BY <1>0, <1>1, <1>3, <1>6 DEF NoPending
  <2>4. pending'.start # 0 => pending'.from = cur' /\ last' # 0 /\ last' < pending'.start
    BY <1>0, <1>1, <1>3, <1>6, <2>2 DEF NoPending
  <2>5. last' \in 0..i /\ (last' # 0 => spans'[cur].first <= last')
        /\ \A k \in 1..Len(jumps) : jumps[k].at <= last'
    BY <1>0, <1>1, <1>3, <1>4, <1>5, <1>6, <2>1
  <2>6. Scanning'
    BY <1>2, <1>3, <2>1, <2>2, <2>3, <2>4, <2>5 DEF Scanning
  <2> QED
    BY <1>2, <1>3, <2>1, <2>6 DEF IInv, Until, Aligns
<1>7. ASSUME NEW f \in Nat, last < f, f <= i, last # 0, Split(cur, f, i, i), GoToNewSpan, Trust(i)
      PROVE  IInv'
  <2>1. spans[cur].first < f /\ \A k \in 1..Len(jumps) : jumps[k].at < f
    BY <1>0, <1>1, <1>3, <1>4, <1>5, <1>7
  <2>2. /\ Chain' /\ Len(spans') = Len(spans) + 1
        /\ spans'[Len(spans) + 1] = [first |-> f, last |-> i]
        /\ \A k \in 1..Len(spans) : spans'[k].first = spans[k].first
        /\ \A k \in 1..Len(jumps') : jumps'[k].at <= i
    <3>1. Chain /\ cur = Len(spans) /\ i \in f..i
      BY <1>3, <1>7
    <3> QED
      BY <1>7, <2>1, <3>1, SplitKeeps
  <2>3. cur' = Len(spans) + 1 /\ last' = i /\ pending' = NoPending
    BY <1>7 DEF GoToNewSpan, Trust
  <2>4. spans'[cur'].first = f /\ spans'[cur'].last = i
    BY <2>2, <2>3
  <2>5. Scanning'
    BY <1>0, <1>1, <1>2, <1>7, <2>2, <2>3, <2>4 DEF Scanning, NoPending
  <2>6. spans'[1].first = spans[1].first
    BY <1>3, <2>2 DEF Chain, Tiled
  <2> QED
    BY <1>2, <1>3, <2>2, <2>3, <2>4, <2>5, <2>6 DEF IInv, Until, Aligns
<1>8. CASE Skip(seg, i) \/ Follow(seg, i) \/ Suspect(seg, i)
  BY <1>0, <1>1, <1>3, <1>6, <1>8 DEF Skip, Follow, Suspect, FarAway, Trust, NoPending
<1>9. CASE JumpAtOnce(seg, i)
  BY <1>0, <1>1, <1>3, <1>7, <1>9 DEF JumpAtOnce, FarAway
<1>10. CASE Confirm(seg, i)
  <2>1. pending.start # 0
    BY <1>10 DEF Confirm, Confirms
  <2>2. pending.start \in Nat /\ last < pending.start /\ pending.start <= i /\ pending.from = cur
    BY <1>0, <1>1, <1>3, <2>1
  <2> QED
    BY <1>3, <1>6, <1>7, <1>10, <2>1, <2>2 DEF Confirm
<1> QED
  BY <1>2, <1>8, <1>9, <1>10

\* The end of the scan: the pending jump is the last segment.
LEMMA EndScanKeeps ==
  ASSUME IInv, EndScan
  PROVE  IInv'
<1>1. PICK i \in Nat : i = Len(segs)
  BY DEF IInv
<1>2. /\ phase = "scan" /\ phase' = "compact" /\ segs # <<>> /\ segs' = segs
      /\ cur' = cur /\ last' = last /\ pending' = pending
      /\ Chain /\ cur = Len(spans) /\ last \in 0..i
      /\ last # 0 => spans[cur].first <= last
      /\ \A k \in 1..Len(jumps) : jumps[k].at <= last
      /\ pending \in [start : 0..i, count : Nat, from : Nat]
      /\ pending.start # 0 => pending.from = cur /\ last # 0 /\ last < pending.start
      /\ spans[1].first = 1
  BY <1>1 DEF EndScan, IInv, Scanning
<1>3. CASE TailJump
  <2>1. Split(cur, i, i, i) /\ last # 0 /\ last < i
    <3>1. pending.start # 0 /\ pending.start >= i /\ pending.start \in 0..i
      BY <1>1, <1>2, <1>3 DEF TailJump
    <3>2. pending.start = i
      BY <3>1
    <3> QED
      BY <1>1, <1>2, <1>3, <3>1, <3>2 DEF EndScan
  <2>2. spans[cur].first \in Nat
    <3>1. spans[cur] \in SpanSet
      BY <1>2 DEF Chain, Tiled
    <3> QED
      BY <3>1 DEF SpanSet
  <2>3. \A k \in 1..Len(jumps) : jumps[k].at \in Nat
    BY <1>2, JumpsAreTyped
  <2>4. spans[cur].first < i /\ \A k \in 1..Len(jumps) : jumps[k].at < i
    BY <1>2, <2>1, <2>2, <2>3
  <2>5. /\ Chain' /\ Len(spans') = Len(spans) + 1
        /\ spans'[Len(spans) + 1] = [first |-> i, last |-> i]
        /\ \A k \in 1..Len(spans) : spans'[k].first = spans[k].first
    BY <1>2, <2>1, <2>4, SplitKeeps
  <2>6. spans'[Len(spans')].last = i
    BY <2>5
  <2>7. spans'[1].first = spans[1].first
    BY <1>2, <2>5 DEF Chain, Tiled
  <2> QED
    BY <1>1, <1>2, <2>5, <2>6, <2>7 DEF IInv, Until, Scanning, Aligns, Phases
<1>4. CASE ~TailJump
  <2>1. UNCHANGED <<spans, jumps>>
    BY <1>4 DEF EndScan
  <2> QED
    BY <1>2, <2>1 DEF IInv, Chain, Until, Scanning, Aligns, Phases
<1> QED
  BY <1>3, <1>4

-----------------------------------------------------------------------------
(* Dropping spans                                                           *)

\* To keep all the elements of a sequence, from the first or the second one.
LEMMA KeptRange ==
  ASSUME NEW S, NEW s \in Seq(S), NEW a \in 1..2, NEW n \in Nat, n = Len(s), a <= n + 1
  PROVE  /\ Kept(s, a..n) \in Seq(S) /\ Len(Kept(s, a..n)) = n - a + 1
         /\ \A k \in 1..n - a + 1 : Kept(s, a..n)[k] = s[k + a - 1]
<1>1. Cardinality(a..n) = n - a + 1 /\ n - a + 1 \in Nat
  BY FS_Interval
<1>2. \A j \in a..n : Cardinality({i \in a..n : i <= j}) = j - a + 1
  <2> SUFFICES ASSUME NEW j \in a..n PROVE Cardinality({i \in a..n : i <= j}) = j - a + 1
    OBVIOUS
  <2>1. {i \in a..n : i <= j} = a..j
    OBVIOUS
  <2>2. Cardinality(a..j) = j - a + 1
    BY FS_Interval
  <2> QED
    BY <2>1, <2>2
<1>3. \A k \in 1..n - a + 1 :
        (CHOOSE j \in a..n : Cardinality({i \in a..n : i <= j}) = k) = k + a - 1
  <2> SUFFICES ASSUME NEW k \in 1..n - a + 1
               PROVE  (CHOOSE j \in a..n : Cardinality({i \in a..n : i <= j}) = k) = k + a - 1
    OBVIOUS
  <2>1. k + a - 1 \in a..n /\ (k + a - 1) - a + 1 = k
    OBVIOUS
  <2>2. \A j \in a..n : Cardinality({i \in a..n : i <= j}) = k => j = k + a - 1
    BY <1>2
  <2>3. Cardinality({i \in a..n : i <= k + a - 1}) = k
    BY <1>2, <2>1
  <2> QED
    BY <2>1, <2>2, <2>3
<1>4. Kept(s, a..n) = [k \in 1..n - a + 1 |-> s[k + a - 1]]
  <2>1. Kept(s, a..n) =
          [k \in 1..n - a + 1 |-> s[CHOOSE j \in a..n : Cardinality({i \in a..n : i <= j}) = k]]
    BY <1>1 DEF Kept
  <2>2. \A k \in 1..n - a + 1 :
          s[CHOOSE j \in a..n : Cardinality({i \in a..n : i <= j}) = k] = s[k + a - 1]
    BY <1>3
  <2> QED
    BY <2>1, <2>2
<1>5. \A k \in 1..n - a + 1 : s[k + a - 1] \in S
  <2> SUFFICES ASSUME NEW k \in 1..n - a + 1 PROVE s[k + a - 1] \in S
    OBVIOUS
  <2>1. k + a - 1 \in 1..Len(s)
    OBVIOUS
  <2> QED
    BY <2>1
<1> QED
  BY <1>1, <1>4, <1>5

LEMMA KeptAll ==
  ASSUME NEW S, NEW s \in Seq(S)
  PROVE  Kept(s, 1..Len(s)) = s
<1>1. Len(s) \in Nat
  OBVIOUS
<1>2. /\ Kept(s, 1..Len(s)) \in Seq(S) /\ Len(Kept(s, 1..Len(s))) = Len(s)
      /\ \A k \in 1..Len(s) : Kept(s, 1..Len(s))[k] = s[k]
  BY <1>1, KeptRange
<1> QED
  BY <1>2, SeqEqual

\* No span is empty: nothing is dropped after the scan.
LEMMA CompactIsIdle ==
  ASSUME IInv, Compact
  PROVE  spans' = spans /\ jumps' = jumps
<1>1. /\ spans \in Seq(SpanSet) /\ Len(spans) \in Nat /\ jumps \in Seq(JumpSet)
      /\ Len(jumps) = Len(spans) - 1 /\ Len(jumps) \in Nat
      /\ DOMAIN spans = 1..Len(spans) /\ DOMAIN jumps = 1..Len(jumps)
      /\ \A k \in 1..Len(spans) : spans[k].first <= spans[k].last
      /\ \A k \in 1..Len(jumps) : jumps[k].from = k /\ jumps[k].to = k + 1
  BY DEF IInv, Chain, Tiled, Sewn
<1>2. Nonempty = 1..Len(spans)
  <2>1. \A k \in 1..Len(spans) : spans[k].last >= spans[k].first
    <3>1. \A k \in 1..Len(spans) : spans[k] \in SpanSet
      BY <1>1
    <3> QED
      BY <1>1, <3>1 DEF SpanSet
  <2> QED
    BY <1>1, <2>1 DEF Nonempty
<1>3. \A k \in 1..Len(spans) : NewIndex(k) = k
  <2> SUFFICES ASSUME NEW k \in 1..Len(spans) PROVE NewIndex(k) = k
    OBVIOUS
  <2>1. {j \in Nonempty : j <= k} = 1..k
    BY <1>1, <1>2
  <2>2. Cardinality(1..k) = k
    BY <1>1, FS_Interval
  <2> QED
    BY <2>1, <2>2 DEF NewIndex
<1>4. spans' = spans
  BY <1>1, <1>2, KeptAll DEF Compact
<1>5. [k \in DOMAIN jumps |-> [jumps[k] EXCEPT !.from = NewIndex(@), !.to = NewIndex(@)]] = jumps
  <2>1. ASSUME NEW k \in 1..Len(jumps)
        PROVE  [jumps[k] EXCEPT !.from = NewIndex(@), !.to = NewIndex(@)] = jumps[k]
    <3>1. jumps[k] \in JumpSet
      BY <1>1
    <3>2. k \in 1..Len(spans) /\ k + 1 \in 1..Len(spans)
      BY <1>1
    <3>3. NewIndex(jumps[k].from) = jumps[k].from /\ NewIndex(jumps[k].to) = jumps[k].to
      BY <1>1, <1>3, <3>2
    <3> QED
      BY <3>1, <3>3 DEF JumpSet
  <2>2. jumps = [k \in DOMAIN jumps |-> jumps[k]]
    BY <1>1
  <2>3. [k \in DOMAIN jumps |-> [jumps[k] EXCEPT !.from = NewIndex(@), !.to = NewIndex(@)]]
          = [k \in DOMAIN jumps |-> jumps[k]]
    BY <1>1, <2>1
  <2> QED
    BY <2>2, <2>3
<1>6. {k \in DOMAIN jumps : jumps[k].from \in Nonempty /\ jumps[k].to \in Nonempty} = 1..Len(jumps)
  BY <1>1, <1>2
<1>7. jumps' = jumps
  <2>1. jumps' = Kept(jumps, 1..Len(jumps))
    BY <1>5, <1>6 DEF Compact
  <2> QED
    BY <1>1, <2>1, KeptAll
<1> QED
  BY <1>4, <1>7

LEMMA CompactKeeps ==
  ASSUME IInv, Compact
  PROVE  IInv'
BY CompactIsIdle DEF Compact, IInv, Chain, Until, Scanning, Aligns, Phases

LEMMA RefineKeeps ==
  ASSUME IInv, Refine
  PROVE  IInv'
<1>1. PICK r \in [DOMAIN spans -> Refinements] :
        refined' = [k \in DOMAIN spans |-> [over |-> spans[k], result |-> r[k]]]
  BY DEF Refine
<1>2. spans \in Seq(SpanSet) /\ DOMAIN spans = 1..Len(spans) /\ Len(spans) \in Nat
  BY DEF IInv, Chain, Tiled
<1>3. /\ refined' \in Seq([over : SpanSet, result : Refinements]) /\ Len(refined') = Len(spans)
      /\ \A k \in 1..Len(spans) : refined'[k].over = spans[k]
  BY <1>1, <1>2
<1>4. UNCHANGED <<segs, spans, jumps, cur, last, pending>> /\ phase' = "drop" /\ phase = "refine"
  BY DEF Refine, scanVars
<1> QED
  BY <1>3, <1>4 DEF IInv, Chain, Until, Scanning, Aligns, Phases

\* A jump between other spans.
Renumbers(q, r, a, b) == q = [r EXCEPT !.from = a, !.to = b]

LEMMA Renumbered ==
  ASSUME NEW r \in JumpSet, NEW a \in Nat, NEW b \in Nat,
         NEW q, Renumbers(q, r, a, b)
  PROVE  /\ q \in JumpSet /\ q.from = a /\ q.to = b
         /\ q.at = r.at /\ q.segment = r.segment
BY DEF JumpSet, Renumbers

\* The first span and the first jump go, and the others move up.
LEMMA DropIntroKeeps ==
  ASSUME IInv, DropIntro
  PROVE  IInv'
<1>1. /\ spans \in Seq(SpanSet) /\ Len(spans) \in Nat /\ Len(spans) >= 2 /\ spans # <<>>
      /\ jumps \in Seq(JumpSet) /\ Len(jumps) = Len(spans) - 1 /\ Len(jumps) \in Nat
      /\ DOMAIN jumps = 1..Len(jumps)
      /\ \A k \in 1..Len(jumps) : jumps[k].from = k /\ jumps[k].to = k + 1
      /\ phase = "drop" /\ phase' = phase /\ segs' = segs
  <2>1. /\ spans \in Seq(SpanSet) /\ jumps \in Seq(JumpSet) /\ Len(jumps) = Len(spans) - 1
        /\ \A k \in 1..Len(jumps) : jumps[k].from = k /\ jumps[k].to = k + 1
    BY DEF IInv, Chain, Tiled, Sewn
  <2>2. Len(spans) >= 2 /\ phase = "drop" /\ phase' = phase /\ segs' = segs
    BY DEF DropIntro
  <2> QED
    BY <2>1, <2>2
<1>2. /\ spans' \in Seq(SpanSet) /\ Len(spans') = Len(spans) - 1
      /\ \A k \in 1..Len(spans') : k + 1 \in 1..Len(spans) /\ spans'[k] = spans[k + 1]
  <2>1. spans' = Tail(spans)
    BY DEF DropIntro
  <2> QED
    BY <1>1, <2>1, HeadTailProperties
<1>3. Tiled(spans')
  <2>1. \A k \in 1..Len(spans') : spans'[k].first >= 1 /\ spans'[k].first <= spans'[k].last
    BY <1>2 DEF IInv, Chain, Tiled
  <2>2. ASSUME NEW k \in 1..Len(spans'), k > 1
        PROVE  spans'[k].first = spans'[k - 1].last + 1
    <3>1. /\ k - 1 \in 1..Len(spans') /\ (k - 1) + 1 = k /\ k + 1 \in 1..Len(spans)
          /\ k + 1 > 1 /\ (k + 1) - 1 = k
      BY <1>1, <1>2, <2>2
    <3>2. spans[k + 1].first = spans[k].last + 1
      BY <3>1 DEF IInv, Chain, Tiled
    <3>3. spans'[k - 1] = spans[k] /\ spans'[k] = spans[k + 1]
      BY <1>2, <3>1
    <3> QED
      BY <3>2, <3>3
  <2> QED
    BY <1>1, <1>2, <2>1, <2>2 DEF Tiled
<1> DEFINE shifted == [k \in DOMAIN jumps |->
                         [jumps[k] EXCEPT !.from = Before(@), !.to = Before(@)]]
<1>4. {k \in DOMAIN jumps : jumps[k].from # 1 /\ jumps[k].to # 1} = 2..Len(jumps)
  BY <1>1
<1>5. jumps' = Kept(shifted, 2..Len(jumps))
  BY <1>4 DEF DropIntro
<1>6. \A k \in 1..Len(jumps) :
        /\ shifted[k] \in JumpSet
        /\ shifted[k].from = Before(k) /\ shifted[k].to = Before(k + 1)
        /\ shifted[k].at = jumps[k].at /\ shifted[k].segment = jumps[k].segment
  <2> SUFFICES ASSUME NEW k \in 1..Len(jumps)
               PROVE  /\ shifted[k] \in JumpSet
                      /\ shifted[k].from = Before(k) /\ shifted[k].to = Before(k + 1)
                      /\ shifted[k].at = jumps[k].at /\ shifted[k].segment = jumps[k].segment
    OBVIOUS
  <2>1. jumps[k] \in JumpSet /\ jumps[k].from = k /\ jumps[k].to = k + 1
    BY <1>1
  <2>2. Renumbers(shifted[k], jumps[k], Before(k), Before(k + 1))
    <3>1. shifted[k] = [jumps[k] EXCEPT !.from = Before(jumps[k].from),
                                        !.to = Before(jumps[k].to)]
      BY <1>1
    <3> QED
      BY <2>1, <3>1 DEF Renumbers
  <2>3. Before(k) \in Nat /\ Before(k + 1) \in Nat
    BY <1>1 DEF Before
  <2> HIDE DEF shifted
  <2> QED
    BY <2>1, <2>2, <2>3, Renumbered
<1>7. shifted \in Seq(JumpSet) /\ Len(shifted) = Len(jumps)
  <2>1. DOMAIN shifted = 1..Len(jumps) /\ shifted = [k \in DOMAIN shifted |-> shifted[k]]
    BY <1>1
  <2> HIDE DEF shifted
  <2>2. shifted \in [1..Len(jumps) -> JumpSet]
    BY <1>6, <2>1
  <2> QED
    BY <1>1, <2>2
<1> HIDE DEF shifted
<1>8. /\ jumps' \in Seq(JumpSet) /\ Len(jumps') = Len(jumps) - 1
      /\ \A k \in 1..Len(jumps) - 1 : jumps'[k] = shifted[k + 1]
  <2>1. /\ Kept(shifted, 2..Len(jumps)) \in Seq(JumpSet)
        /\ Len(Kept(shifted, 2..Len(jumps))) = Len(jumps) - 2 + 1
        /\ \A k \in 1..Len(jumps) - 2 + 1 : Kept(shifted, 2..Len(jumps))[k] = shifted[k + 2 - 1]
    <3>1. PICK n \in Nat : n = Len(shifted)
      BY <1>1, <1>7
    <3>2. 2 \in 1..2 /\ 2 <= n + 1
      BY <1>1, <1>7, <3>1
    <3>3. /\ Kept(shifted, 2..n) \in Seq(JumpSet) /\ Len(Kept(shifted, 2..n)) = n - 2 + 1
          /\ \A k \in 1..n - 2 + 1 : Kept(shifted, 2..n)[k] = shifted[k + 2 - 1]
      BY <1>7, <3>1, <3>2, KeptRange
    <3> QED
      BY <1>7, <3>1, <3>3
  <2> QED
    BY <1>1, <1>5, <2>1
<1>9. Sewn(jumps', spans')
  <2> SUFFICES ASSUME NEW k \in 1..Len(jumps')
               PROVE  /\ jumps'[k].from = k /\ jumps'[k].to = k + 1
                      /\ jumps'[k].segment = spans'[k + 1].first
                      /\ jumps'[k].at \in spans'[k + 1].first .. spans'[k + 1].last
    BY <1>1, <1>2, <1>8 DEF Sewn
  <2>1. k + 1 \in 1..Len(jumps) /\ k + 1 \in 1..Len(spans') /\ jumps'[k] = shifted[k + 1]
    BY <1>1, <1>2, <1>8
  <2>2. spans'[k + 1] = spans[(k + 1) + 1]
    BY <1>2, <2>1
  <2>3. /\ jumps[k + 1].segment = spans[(k + 1) + 1].first
        /\ jumps[k + 1].at \in spans[(k + 1) + 1].first .. spans[(k + 1) + 1].last
    BY <2>1 DEF IInv, Chain, Sewn
  <2>4. Before(k + 1) = k /\ Before((k + 1) + 1) = k + 1
    BY <2>1 DEF Before
  <2> QED
    BY <1>6, <2>1, <2>2, <2>3, <2>4
<1>10. /\ refined' \in Seq([over : SpanSet, result : Refinements]) /\ Len(refined') = Len(spans')
       /\ \A k \in 1..Len(spans') : refined'[k].over = spans'[k]
  <2>1. /\ refined \in Seq([over : SpanSet, result : Refinements]) /\ Len(refined) = Len(spans)
        /\ \A k \in 1..Len(spans) : refined[k].over = spans[k]
    BY <1>1 DEF IInv, Aligns
  <2>2. refined' = Tail(refined)
    BY DEF DropIntro
  <2>4. refined # <<>>
    <3>1. refined = <<>> => Len(refined) = 0
      OBVIOUS
    <3> QED
      BY <1>1, <2>1, <3>1
  <2>3. /\ refined' \in Seq([over : SpanSet, result : Refinements]) /\ Len(refined') = Len(refined) - 1
        /\ \A k \in 1..Len(refined') : refined'[k] = refined[k + 1]
    BY <2>1, <2>2, <2>4, HeadTailProperties
  <2>5. \A k \in 1..Len(spans') : refined'[k].over = spans'[k]
    BY <1>1, <1>2, <2>1, <2>3
  <2>6. Len(refined') = Len(spans')
    BY <1>2, <2>1, <2>3
  <2> QED
    BY <2>3, <2>5, <2>6
<1>11. spans'[Len(spans')] = spans[Len(spans)]
  <2>1. Len(spans') \in 1..Len(spans') /\ Len(spans') + 1 = Len(spans)
    BY <1>1, <1>2
  <2> QED
    BY <1>2, <2>1
<1> QED
  BY <1>1, <1>3, <1>9, <1>10, <1>11 DEF IInv, Chain, Until, Scanning, Aligns

LEMMA NextHolds == IInv /\ [Next]_vars => IInv'
<1> SUFFICES ASSUME IInv, [Next]_vars PROVE IInv'
  OBVIOUS
<1>1. CASE Activate
  BY <1>1 DEF Activate, scanVars, IInv, Chain, Until, Scanning, Aligns, Phases
<1>2. CASE UNCHANGED vars
  BY <1>2 DEF vars, IInv, Chain, Until, Scanning, Aligns, Phases
<1> QED
  BY <1>1, <1>2, ScanKeeps, EndScanKeeps, CompactKeeps, RefineKeeps, DropIntroKeeps DEF Next

LEMMA IInvHolds == Spec => []IInv
BY InitHolds, NextHolds, PTL DEF Spec

\* Every segment is in exactly one span, however many jumps were confirmed, at
\* once, late or at the end of the recording, and whatever intro was dropped.
THEOREM SpansTileTheRecording == Spec => []SpansTile
<1>1. IInv => SpansTile
  BY DEF IInv, Chain, Tiled, Until, SpansTile
<1> QED
  BY <1>1, IInvHolds, PTL

\* The reported jumps are the seams between the reported spans, in order, and
\* the alignments are those of the reported spans.
THEOREM JumpsAreTheSeams == Spec => []JumpsAreSeams
<1>1. IInv => JumpsAreSeams
  BY DEF IInv, Chain, Tiled, Sewn, Aligns, JumpsAreSeams
<1> QED
  BY <1>1, IInvHolds, PTL

-----------------------------------------------------------------------------
(* Why spans start where they do                                            *)

\* The trusted segments are good, the last of them is `last`, and a very
\* confident segment is one of them.
Trusts ==
  /\ trusted \subseteq 1..Len(segs) /\ last \in 0..Len(segs)
  /\ \A t \in trusted : IsGood(segs[t]) /\ t <= last
  /\ last # 0 => last \in trusted
  /\ \A a \in 1..Len(segs) : IsGood(segs[a]) /\ segs[a].conf = "very" => a \in trusted

\* The pending jump is the last good segment; without one that is `last`.
PendingIsLast ==
  /\ pending.start \in 0..Len(segs)
  /\ \A a \in 1..Len(segs) : IsGood(segs[a]) =>
       a <= IF pending.start = 0 THEN last ELSE pending.start
  /\ pending.start # 0 =>
       /\ pending.count = 1 /\ last # 0 /\ last < pending.start
       /\ IsGood(segs[pending.start]) /\ Far(segs[pending.start], segs[last])

\* A span may start at s.
Justified(s) ==
  /\ IsGood(segs[s])
  /\ \E t \in trusted :
       /\ IsTrustedBefore(t, s) /\ Far(segs[s], segs[t])
       /\ \/ segs[s].conf = "very"
          \/ \E c \in s + 1 .. Len(segs) :
               /\ IsGood(segs[c]) /\ NoneGoodBetween(s, c)
               /\ Far(segs[c], segs[t]) /\ Cluster(segs[c], segs[s])
          \/ phase # "scan" /\ s = Len(segs)

JumpsAreJustified ==
  \A k \in 1..Len(jumps) : jumps[k].segment \in 1..Len(segs) /\ Justified(jumps[k].segment)

\* Two good segments in a row that agree.
Agree(a, b) ==
  a < b /\ IsGood(segs[a]) /\ IsGood(segs[b]) /\ NoneGoodBetween(a, b) /\ Cluster(segs[a], segs[b])

AgreedAreTrusted ==
  \A a, b \in 1..Len(segs) : Agree(a, b) => a \in trusted \/ b \in trusted

FarIsSplit ==
  phase = "scan" =>
    \A t, a \in trusted :
      IsTrustedBefore(t, a) /\ Far(segs[a], segs[t]) => \E j \in t + 1 .. a : IsFirst(j)

\* What the scan did, of its past: the segments it trusted and why it split.
JInv == Trusts /\ PendingIsLast /\ JumpsAreJustified /\ AgreedAreTrusted /\ FarIsSplit

LEMMA InitJInv == Init => JInv
<1> SUFFICES ASSUME Init PROVE JInv
  OBVIOUS
<1>1. Len(segs) = 0 /\ Len(jumps) = 0 /\ trusted = {} /\ last = 0 /\ pending.start = 0
  BY DEF Init, NoPending
<1> QED
  BY <1>1 DEF JInv, Trusts, PendingIsLast, JumpsAreJustified, AgreedAreTrusted, FarIsSplit

\* Segments are close to each other or not from either side.
LEMMA ClusterIsSymmetric ==
  ASSUME NEW a \in Aligned, NEW b \in Aligned
  PROVE  Cluster(a, b) <=> Cluster(b, a)
<1>1. a.pos \in Nat /\ b.pos \in Nat
  BY ConstantsAssumption
<1> QED
  BY <1>1 DEF Cluster, Distance

\* What was justified stays so while segments are added and trusted.
LEMMA JustifiedStays ==
  ASSUME NEW i \in Nat, i = Len(segs) + 1, Len(segs) \in Nat, trusted \subseteq 1..Len(segs),
         DOMAIN segs = 1..Len(segs), DOMAIN segs' = 1..i, Len(segs') = i,
         \A k \in 1..Len(segs) : segs'[k] = segs[k],
         trusted' = trusted \/ trusted' = trusted \union {i},
         phase = "scan", phase' = "scan",
         NEW s \in 1..Len(segs), Justified(s)
  PROVE  Justified(s)'
<1>1. PICK t \in trusted :
        /\ IsTrustedBefore(t, s) /\ Far(segs[s], segs[t])
        /\ \/ segs[s].conf = "very"
           \/ \E c \in s + 1 .. Len(segs) :
                /\ IsGood(segs[c]) /\ NoneGoodBetween(s, c)
                /\ Far(segs[c], segs[t]) /\ Cluster(segs[c], segs[s])
  BY DEF Justified
<1>2. t \in trusted' /\ IsTrustedBefore(t, s)'
  <2>1. \A u \in trusted' : u < s => u \in trusted
    OBVIOUS
  <2> QED
    BY <1>1, <2>1 DEF IsTrustedBefore
<1>3. segs'[s] = segs[s] /\ segs'[t] = segs[t] /\ IsGood(segs[s])
  BY DEF Justified
<1>4. ASSUME NEW c \in s + 1 .. Len(segs), IsGood(segs[c]), NoneGoodBetween(s, c),
             Far(segs[c], segs[t]), Cluster(segs[c], segs[s])
      PROVE  \E d \in s + 1 .. i :
               /\ IsGood(segs'[d]) /\ NoneGoodBetween(s, d)'
               /\ Far(segs'[d], segs'[t]) /\ Cluster(segs'[d], segs'[s])
  <2>1. c \in s + 1 .. i /\ c \in 1..Len(segs) /\ segs'[c] = segs[c]
    OBVIOUS
  <2>2. NoneGoodBetween(s, c)'
    BY <1>4, <2>1 DEF NoneGoodBetween
  <2> QED
    BY <1>3, <1>4, <2>1, <2>2
<1>5. \/ segs'[s].conf = "very"
      \/ \E d \in s + 1 .. i :
           /\ IsGood(segs'[d]) /\ NoneGoodBetween(s, d)'
           /\ Far(segs'[d], segs'[t]) /\ Cluster(segs'[d], segs'[s])
  BY <1>1, <1>3, <1>4
<1> QED
  BY <1>1, <1>2, <1>3, <1>5 DEF Justified

\* What a turn of the loop does to what the invariant is about.
LEMMA ScanTurn ==
  ASSUME IInv, JInv, NEW seg \in Aligned \union {NoAlign}, Scan(seg)
  PROVE  \E i \in Nat :
           /\ i = Len(segs) + 1 /\ Len(segs) \in Nat
           /\ DOMAIN segs = 1..Len(segs) /\ DOMAIN segs' = 1..i /\ Len(segs') = i
           /\ \A k \in 1..Len(segs) : segs'[k] = segs[k]
           /\ segs'[i] = seg /\ phase = "scan" /\ phase' = "scan"
           /\ \/ ~IsGood(seg) /\ UNCHANGED <<last, pending, trusted>> /\ StayInSpan(i)
              \/ /\ IsGood(seg) /\ (last # 0 => ~Far(seg, segs[last]))
                 /\ StayInSpan(i) /\ Trust(i)
              \/ /\ FarAway(seg) /\ seg.conf = "very"
                 /\ Split(cur, i, i, i) /\ Trust(i)
              \/ /\ FarAway(seg) /\ seg.conf # "very" /\ ~Confirms(seg)
                 /\ StayInSpan(i) /\ UNCHANGED <<last, trusted>>
                 /\ pending' = [start |-> i, count |-> 1, from |-> cur]
              \/ /\ FarAway(seg) /\ seg.conf # "very" /\ Confirms(seg)
                 /\ Split(cur, pending.start, i, i) /\ Trust(i)
<1>1. PICK i \in Nat : i = Len(segs) + 1 /\ Len(segs) \in Nat /\ DOMAIN segs = 1..Len(segs)
  BY DEF IInv
<1>2. /\ phase = "scan" /\ phase' = "scan" /\ segs' = Append(segs, seg)
      /\ Skip(seg, i) \/ Follow(seg, i) \/ JumpAtOnce(seg, i) \/ Suspect(seg, i) \/ Confirm(seg, i)
  BY <1>1 DEF Scan
<1>3. /\ DOMAIN segs' = 1..i /\ Len(segs') = i /\ segs'[i] = seg
      /\ \A k \in 1..Len(segs) : segs'[k] = segs[k]
  BY <1>1, <1>2 DEF IInv
<1>4. pending.start # 0 => pending.count + 1 >= 2 /\ pending.from = cur
  BY <1>2 DEF IInv, Scanning, JInv, PendingIsLast
<1>5. CASE Confirm(seg, i)
  <2>1. Split(cur, pending.start, i, i) /\ Trust(i)
    BY <1>4, <1>5 DEF Confirm, Confirms
  <2> QED
    BY <1>1, <1>2, <1>3, <1>5, <2>1 DEF Confirm
<1>6. CASE ~Confirm(seg, i)
  BY <1>1, <1>2, <1>3, <1>6 DEF Skip, Follow, JumpAtOnce, Suspect
<1> QED
  BY <1>5, <1>6

\* A split adds a jump to the new span and leaves the others.
LEMMA SplitAdds ==
  ASSUME IInv, NEW f, NEW i, NEW at, NEW from, Split(from, f, i, at),
         f \in Nat, at \in Nat, from \in Nat
  PROVE  /\ Len(jumps') = Len(jumps) + 1 /\ Len(jumps) \in Nat
         /\ \A k \in 1..Len(jumps) : jumps'[k] = jumps[k]
         /\ jumps'[Len(jumps) + 1].segment = f
<1>1. jumps \in Seq(JumpSet) /\ Len(spans) \in Nat
  BY DEF IInv, Chain, Tiled, Sewn
<1>2. PICK jump : jump = [at |-> at, segment |-> f, from |-> from, to |-> Len(spans) + 1]
  OBVIOUS
<1>3. jump \in JumpSet /\ jump.segment = f
  BY <1>1, <1>2 DEF JumpSet
<1>4. jumps' = Append(jumps, jump)
  BY <1>2 DEF Split
<1> QED
  BY <1>1, <1>3, <1>4, AppendProperties

\* Spans keep their beginnings, and a new one begins where it should.
LEMMA SplitFirsts ==
  ASSUME IInv, cur = Len(spans), NEW f \in Nat, NEW i \in Nat, NEW at, Split(cur, f, i, at)
  PROVE  IsFirst(f)' /\ \A j : IsFirst(j) => IsFirst(j)'
<1>1. spans \in Seq(SpanSet) /\ Len(spans) \in Nat /\ Len(spans) >= 1
  BY DEF IInv, Chain, Tiled
<1>2. PICK l \in Nat : l = Before(f)
  BY DEF Before
<1>3. PICK cut : cut = [spans EXCEPT ![Len(spans)].last = l] /\ Ends(cut, spans, l)
  BY DEF Ends
<1>4. /\ cut \in Seq(SpanSet) /\ Len(cut) = Len(spans)
      /\ \A k \in 1..Len(spans) : cut[k].first = spans[k].first
  <2>1. Ends(cut, spans, l) /\ l \in Nat
    BY <1>3
  <2> QED
    BY <1>1, <2>1, NewEnd
<1>5. PICK new : new = [first |-> f, last |-> i]
  OBVIOUS
<1>6. spans' = Append(cut, new)
  <2>1. PICK n \in 1..Len(spans) : n = Len(spans)
    BY <1>1
  <2>2. \A k \in DOMAIN spans : spans[k] \in SpanSet
    BY <1>1
  <2>3. [[spans EXCEPT ![n].last = i] EXCEPT ![n].last = l] = [spans EXCEPT ![n].last = l]
    BY <2>1, <2>2 DEF SpanSet
  <2>4. [Extended(i) EXCEPT ![cur].last = Before(f)] = cut
    BY <1>2, <1>3, <2>1, <2>3 DEF Extended
  <2> QED
    BY <1>5, <2>4 DEF Split
<1>7. new \in SpanSet /\ new.first = f
  BY <1>5 DEF SpanSet
<1>8. /\ Len(spans') = Len(spans) + 1 /\ spans' \in Seq(SpanSet)
      /\ \A k \in 1..Len(spans) : spans'[k] = cut[k]
      /\ spans'[Len(spans) + 1] = new
  BY <1>4, <1>6, <1>7, AppendProperties
<1>9. IsFirst(f)'
  <2>1. Len(spans) + 1 \in DOMAIN spans'
    BY <1>1, <1>8
  <2> QED
    BY <1>7, <1>8, <2>1 DEF IsFirst
<1>10. ASSUME NEW j, IsFirst(j)
       PROVE  IsFirst(j)'
  <2>1. PICK k \in 1..Len(spans) : spans[k].first = j
    BY <1>1, <1>10 DEF IsFirst
  <2>2. k \in DOMAIN spans' /\ spans'[k].first = j
    BY <1>1, <1>4, <1>8, <2>1
  <2> QED
    BY <2>2 DEF IsFirst
<1> QED
  BY <1>9, <1>10

LEMMA StayFirsts ==
  ASSUME IInv, cur = Len(spans), NEW i \in Nat, StayInSpan(i)
  PROVE  \A j : IsFirst(j) => IsFirst(j)'
<1>1. spans \in Seq(SpanSet) /\ Len(spans) >= 1
  BY DEF IInv, Chain, Tiled
<1>2. PICK ex : ex = spans' /\ Ends(ex, spans, i)
  BY DEF StayInSpan, Extended, Ends
<1>3. /\ ex \in Seq(SpanSet) /\ Len(ex) = Len(spans)
      /\ \A k \in 1..Len(spans) : ex[k].first = spans[k].first
  BY <1>1, <1>2, NewEnd
<1> QED
  BY <1>1, <1>2, <1>3 DEF IsFirst

LEMMA ScanJInv ==
  ASSUME IInv, IInv', JInv, NEW seg \in Aligned \union {NoAlign}, Scan(seg)
  PROVE  JInv'
<1>1. PICK i \in Nat :
           /\ i = Len(segs) + 1 /\ Len(segs) \in Nat
           /\ DOMAIN segs = 1..Len(segs) /\ DOMAIN segs' = 1..i /\ Len(segs') = i
           /\ \A k \in 1..Len(segs) : segs'[k] = segs[k]
           /\ segs'[i] = seg /\ phase = "scan" /\ phase' = "scan"
           /\ \/ ~IsGood(seg) /\ UNCHANGED <<last, pending, trusted>> /\ StayInSpan(i)
              \/ /\ IsGood(seg) /\ (last # 0 => ~Far(seg, segs[last]))
                 /\ StayInSpan(i) /\ Trust(i)
              \/ /\ FarAway(seg) /\ seg.conf = "very"
                 /\ Split(cur, i, i, i) /\ Trust(i)
              \/ /\ FarAway(seg) /\ seg.conf # "very" /\ ~Confirms(seg)
                 /\ StayInSpan(i) /\ UNCHANGED <<last, trusted>>
                 /\ pending' = [start |-> i, count |-> 1, from |-> cur]
              \/ /\ FarAway(seg) /\ seg.conf # "very" /\ Confirms(seg)
                 /\ Split(cur, pending.start, i, i) /\ Trust(i)
  BY ScanTurn
<1>2. /\ trusted \subseteq 1..Len(segs) /\ last \in 0..Len(segs)
      /\ pending.start \in 0..Len(segs) /\ cur \in Nat
  BY <1>1 DEF JInv, Trusts, PendingIsLast, IInv, Scanning, Chain, Tiled
<1>3. FarAway(seg) => IsGood(seg) /\ last # 0 /\ Far(seg, segs[last])
  BY DEF FarAway
<1>12. 1..Len(segs) \subseteq 1..i /\ i \in 1..i
  BY <1>1
<1>4. Confirms(seg) => pending.start # 0
  BY DEF Confirms
<1>5. Trusts'
  <2>1. CASE UNCHANGED <<last, trusted>> /\ (IsGood(seg) => seg.conf # "very")
    BY <1>1, <1>2, <2>1 DEF JInv, Trusts
  <2>2. CASE Trust(i) /\ IsGood(seg)
    <3>1. trusted' = trusted \union {i} /\ last' = i
      BY <2>2 DEF Trust
    <3>2. \A t \in trusted : IsGood(segs[t]) /\ t <= last /\ segs'[t] = segs[t] /\ t <= i
      BY <1>1, <1>2 DEF JInv, Trusts
    <3>3. \A a \in 1..i : IsGood(segs'[a]) /\ segs'[a].conf = "very" => a \in trusted'
      BY <1>1, <3>1 DEF JInv, Trusts
    <3>4. \A t \in trusted' : IsGood(segs'[t]) /\ t <= i
      BY <1>1, <2>2, <3>1, <3>2
    <3>5. trusted' \subseteq 1..i /\ last' \in 0..i /\ last' \in trusted'
      <4>1. trusted' \subseteq 1..i
        BY <1>2, <1>12, <3>1
      <4> QED
        BY <1>1, <3>1, <4>1
    <3> QED
      BY <1>1, <3>1, <3>3, <3>4, <3>5 DEF Trusts
  <2>3. \/ UNCHANGED <<last, trusted>> /\ (IsGood(seg) => seg.conf # "very")
        \/ Trust(i) /\ IsGood(seg)
    BY <1>1, <1>3
  <2> QED
    BY <2>1, <2>2, <2>3
<1>6. PendingIsLast'
  <2>1. CASE ~IsGood(seg) /\ UNCHANGED <<last, pending>>
    BY <1>1, <1>2, <2>1 DEF JInv, PendingIsLast
  <2>2. CASE Trust(i)
    BY <1>1, <2>2 DEF Trust, NoPending, PendingIsLast
  <2>3. CASE FarAway(seg) /\ UNCHANGED last /\ pending' = [start |-> i, count |-> 1, from |-> cur]
    BY <1>1, <1>2, <1>3, <2>3 DEF PendingIsLast
  <2> QED
    BY <1>1, <2>1, <2>2, <2>3
<1>7. trusted' = trusted \/ trusted' = trusted \union {i}
  BY <1>1 DEF Trust
<1>8. \A s \in 1..Len(segs) : Justified(s) => Justified(s)'
  BY <1>1, <1>2, <1>7, JustifiedStays
<1> PICK old \in Nat : old = Len(jumps)
  BY DEF IInv, Chain, Sewn
<1>20. \A k \in 1..old : jumps[k].segment \in 1..Len(segs) /\ Justified(jumps[k].segment)
  BY DEF JInv, JumpsAreJustified
<1>9. JumpsAreJustified'
  <2>1. CASE StayInSpan(i)
    <3>1. jumps' = jumps
      BY <2>1 DEF StayInSpan
    <3> QED
      BY <1>1, <1>8, <1>20, <3>1 DEF JumpsAreJustified
  <2>2. ASSUME NEW f \in 1..i, Split(cur, f, i, i), Justified(f)'
        PROVE  JumpsAreJustified'
    <3>1. /\ Len(jumps') = old + 1
          /\ \A k \in 1..old : jumps'[k] = jumps[k]
          /\ jumps'[old + 1].segment = f
      BY <1>2, <2>2, SplitAdds
    <3>2. ASSUME NEW k \in 1..old + 1
          PROVE  (jumps[k].segment \in 1..Len(segs) /\ Justified(jumps[k].segment))'
      <4>1. CASE k = old + 1
        BY <1>1, <2>2, <3>1, <4>1
      <4>2. CASE k # old + 1
        <5>1. k \in 1..old
          BY <4>2
        <5>2. PICK s \in 1..Len(segs) : jumps[k].segment = s /\ Justified(s)
          BY <1>20, <5>1
        <5>3. jumps'[k].segment = s /\ Justified(s)' /\ s \in 1..i
          BY <1>1, <1>8, <3>1, <5>1, <5>2
        <5> QED
          BY <1>1, <5>3
      <4> QED
        BY <4>1, <4>2
    <3> QED
      BY <1>1, <3>1, <3>2 DEF JumpsAreJustified
  <2> PICK t \in 0..Len(segs) : t = last
    BY <1>2
  <2>5. last # 0 => /\ t \in trusted /\ t \in 1..Len(segs) /\ segs'[t] = segs[t]
                    /\ \A u \in trusted : u <= t
                    /\ \A f \in t + 1 .. i : IsTrustedBefore(t, f)'
    <3>1. last # 0 => t \in trusted /\ t \in 1..Len(segs) /\ \A u \in trusted : u <= t
      BY <1>2 DEF JInv, Trusts
    <3>2. last # 0 => \A f \in t + 1 .. i : IsTrustedBefore(t, f)'
      BY <1>1, <1>7, <3>1 DEF IsTrustedBefore
    <3> QED
      BY <1>1, <3>1, <3>2
  <2>3. CASE FarAway(seg) /\ seg.conf = "very" /\ Split(cur, i, i, i) /\ Trust(i)
    <3>1. t \in trusted' /\ IsTrustedBefore(t, i)' /\ Far(seg, segs'[t]) /\ IsGood(seg)
      BY <1>1, <1>3, <1>7, <2>3, <2>5
    <3>2. Justified(i)'
      BY <1>1, <2>3, <3>1 DEF Justified
    <3> QED
      BY <1>1, <2>2, <2>3, <3>2
  <2>4. CASE FarAway(seg) /\ Confirms(seg) /\ Split(cur, pending.start, i, i) /\ Trust(i)
    <3>1. pending.start \in 1..Len(segs)
      BY <1>2, <1>4, <2>4
    <3> PICK f \in 1..Len(segs) : f = pending.start
      BY <3>1
    <3>2. /\ t < f /\ IsGood(segs[f]) /\ Far(segs[f], segs[t])
          /\ \A a \in 1..Len(segs) : IsGood(segs[a]) => a <= f
      BY <1>1, <3>1 DEF JInv, PendingIsLast
    <3>3. Cluster(seg, segs[f]) /\ IsGood(seg) /\ Far(seg, segs[t])
      BY <1>3, <2>4 DEF Confirms
    <3>4. t \in trusted' /\ IsTrustedBefore(t, f)'
      BY <1>1, <1>3, <1>7, <2>4, <2>5, <3>2
    <3>5. segs'[i] = seg /\ segs'[t] = segs[t] /\ segs'[f] = segs[f]
      BY <1>1, <1>3, <2>4, <2>5
    <3>6. NoneGoodBetween(f, i)'
      BY <1>1, <3>2 DEF NoneGoodBetween
    <3>7. i \in f + 1 .. Len(segs')
      BY <1>1
    <3>8. Justified(f)'
      <4>1. \E c \in f + 1 .. Len(segs') :
              /\ IsGood(segs'[c]) /\ NoneGoodBetween(f, c)'
              /\ Far(segs'[c], segs'[t]) /\ Cluster(segs'[c], segs'[f])
        BY <3>3, <3>5, <3>6, <3>7
      <4> QED
        BY <3>2, <3>4, <3>5, <4>1 DEF Justified
    <3>9. Split(cur, f, i, i) /\ f \in 1..i
      BY <1>1, <2>4
    <3> QED
      BY <2>2, <3>8, <3>9
  <2> QED
    BY <1>1, <2>1, <2>3, <2>4
<1>10. AgreedAreTrusted'
  <2> SUFFICES ASSUME NEW a \in 1..i, NEW b \in 1..i, Agree(a, b)', a \notin trusted', b \notin trusted'
               PROVE  FALSE
    BY <1>1 DEF AgreedAreTrusted
  <2>0. a < b
    BY DEF Agree
  <2>1. CASE b # i
    <3>1. a \in 1..Len(segs) /\ b \in 1..Len(segs) /\ a \notin trusted /\ b \notin trusted
      BY <1>1, <1>7, <2>0, <2>1
    <3>2. Agree(a, b)
      BY <1>1, <3>1 DEF Agree, NoneGoodBetween
    <3> QED
      BY <3>1, <3>2 DEF JInv, AgreedAreTrusted
  <2>2. CASE b = i
    <3>1. /\ a \in 1..Len(segs) /\ a \notin trusted
          /\ IsGood(seg) /\ IsGood(segs[a]) /\ Cluster(segs[a], seg)
          /\ \A c \in 1..Len(segs) : a < c => ~IsGood(segs[c])
      <4>1. a \in 1..Len(segs) /\ a \notin trusted
        BY <1>1, <1>7, <2>0, <2>2
      <4>2. IsGood(segs'[a]) /\ IsGood(segs'[b]) /\ Cluster(segs'[a], segs'[b])
        BY DEF Agree
      <4>3. \A c \in 1..i : a < c /\ c < b => ~IsGood(segs'[c])
        BY <1>1 DEF Agree, NoneGoodBetween
      <4>4. segs'[a] = segs[a] /\ segs'[b] = seg
        BY <1>1, <2>2, <4>1
      <4>5. \A c \in 1..Len(segs) : a < c => ~IsGood(segs[c])
        BY <1>1, <2>2, <4>3
      <4> QED
        BY <4>1, <4>2, <4>4, <4>5
    <3>2. FarAway(seg) /\ ~Confirms(seg)
      BY <1>1, <2>2, <3>1 DEF Trust
    <3>3. CASE pending.start = 0
      <4>1. a <= last /\ last \in trusted /\ last \in 1..Len(segs) /\ IsGood(segs[last])
        BY <1>2, <1>3, <3>1, <3>2, <3>3 DEF JInv, Trusts, PendingIsLast
      <4> QED
        BY <3>1, <4>1
    <3>4. CASE pending.start # 0
      <4>1. a <= pending.start /\ pending.start \in 1..Len(segs) /\ IsGood(segs[pending.start])
        BY <1>2, <3>1, <3>4 DEF JInv, PendingIsLast
      <4>2. a = pending.start
        BY <3>1, <4>1
      <4>3. seg \in Aligned /\ segs[a] \in Aligned
        <5>1. seg # NoAlign /\ segs[a] # NoAlign
          BY <3>1 DEF IsGood
        <5>2. segs[a] \in Aligned \union {NoAlign}
          BY <3>1 DEF IInv
        <5> QED
          BY <5>1, <5>2
      <4> QED
        BY <3>1, <3>2, <3>4, <4>2, <4>3, ClusterIsSymmetric DEF Confirms
    <3> QED
      BY <3>3, <3>4
  <2> QED
    BY <2>1, <2>2
<1>11. FarIsSplit'
  <2> SUFFICES ASSUME NEW t \in trusted', NEW a \in trusted',
                      IsTrustedBefore(t, a)', Far(segs'[a], segs'[t])
               PROVE  \E j \in t + 1 .. a : IsFirst(j)'
    BY DEF FarIsSplit
  <2>1. t < a
    BY DEF IsTrustedBefore
  <2>2. t \in trusted /\ t \in 1..Len(segs)
    <3>1. a \in 1..i /\ t \in 1..i
      BY <1>1, <1>5 DEF Trusts
    <3>2. t # i
      BY <2>1, <3>1
    <3> QED
      BY <1>2, <1>7, <3>2
  <2>3. CASE a # i
    <3>1. a \in trusted /\ a \in 1..Len(segs)
      BY <1>2, <1>7, <2>3
    <3>2. IsTrustedBefore(t, a) /\ Far(segs[a], segs[t])
      BY <1>1, <1>7, <2>2, <3>1 DEF IsTrustedBefore
    <3>3. PICK j \in t + 1 .. a : IsFirst(j)
      BY <1>1, <2>2, <3>1, <3>2 DEF JInv, FarIsSplit
    <3>4. cur = Len(spans) /\ (pending.start # 0 => pending.start \in Nat)
      BY <1>1, <1>2 DEF IInv, Scanning
    <3> QED
      BY <1>1, <1>4, <3>3, <3>4, SplitFirsts, StayFirsts
  <2>4. CASE a = i
    <3>1. trusted' = trusted \union {i}
      BY <1>1, <1>2, <1>7, <2>4
    <3>2. t = last
      <4>1. last # 0 => last \in trusted /\ last < a /\ last \in Nat
        BY <1>1, <1>2, <2>4 DEF JInv, Trusts
      <4>2. last \in trusted /\ t <= last
        BY <1>2, <2>2, <4>1 DEF JInv, Trusts
      <4> QED
        BY <1>2, <2>2, <3>1, <4>1, <4>2 DEF IsTrustedBefore
    <3>3. Far(seg, segs[last]) /\ last # 0
      BY <1>1, <2>2, <2>4, <3>2
    <3>4. i \notin trusted
      BY <1>1, <1>2
    <3>5. PICK f \in {i, pending.start} : Split(cur, f, i, i) /\ (f = i \/ Confirms(seg))
      BY <1>1, <3>1, <3>3, <3>4
    <3>6. f \in last + 1 .. i
      BY <1>1, <1>2, <1>4, <3>3, <3>5 DEF JInv, PendingIsLast
    <3>8. cur = Len(spans) /\ f \in Nat
      BY <1>1, <1>2, <3>6 DEF IInv, Scanning
    <3>7. IsFirst(f)'
      BY <3>5, <3>8, SplitFirsts
    <3> QED
      BY <2>4, <3>2, <3>6, <3>7
  <2> QED
    BY <2>3, <2>4
<1> QED
  BY <1>5, <1>6, <1>9, <1>10, <1>11 DEF JInv

\* After the scan the segments and what was trusted stay, and only fewer jumps
\* are reported.
LEMMA LaterJInv ==
  ASSUME JInv, UNCHANGED <<segs, last, pending, trusted>>, phase' # "scan",
         \A k \in 1..Len(jumps') :
           \/ \E l \in 1..Len(jumps) : jumps'[k].segment = jumps[l].segment
           \/ \E s \in 1..Len(segs) : jumps'[k].segment = s /\ Justified(s)'
  PROVE  JInv'
<1>1. Trusts' /\ PendingIsLast' /\ AgreedAreTrusted' /\ FarIsSplit'
  BY DEF JInv, Trusts, PendingIsLast, AgreedAreTrusted, Agree, NoneGoodBetween, FarIsSplit
<1>2. \A s : Justified(s) => Justified(s)'
  BY DEF Justified, IsTrustedBefore, NoneGoodBetween
<1>3. JumpsAreJustified'
  <2> SUFFICES ASSUME NEW k \in 1..Len(jumps')
               PROVE  (jumps[k].segment \in 1..Len(segs) /\ Justified(jumps[k].segment))'
    BY DEF JumpsAreJustified
  <2>1. PICK s \in 1..Len(segs) : jumps'[k].segment = s /\ Justified(s)'
    <3>1. CASE \E l \in 1..Len(jumps) : jumps'[k].segment = jumps[l].segment
      <4>1. PICK s \in 1..Len(segs) : jumps'[k].segment = s /\ Justified(s)
        BY <3>1 DEF JInv, JumpsAreJustified
      <4> QED
        BY <1>2, <4>1
    <3>2. CASE \E s \in 1..Len(segs) : jumps'[k].segment = s /\ Justified(s)'
      BY <3>2
    <3> QED
      BY <3>1, <3>2
  <2> QED
    BY <2>1
<1> QED
  BY <1>1, <1>3 DEF JInv

LEMMA EndScanJInv ==
  ASSUME IInv, JInv, EndScan
  PROVE  JInv'
<1>1. PICK i \in Nat : i = Len(segs)
  BY DEF IInv
<1>2. phase = "scan" /\ phase' = "compact" /\ UNCHANGED <<segs, last, pending, trusted>>
  BY DEF EndScan
<1>3. CASE ~TailJump
  <2>1. jumps' = jumps
    BY <1>3 DEF EndScan
  <2> QED
    BY <1>2, <2>1, LaterJInv
<1>4. CASE TailJump
  <2>1. /\ pending.start = i /\ i # 0 /\ last # 0 /\ last < i
        /\ IsGood(segs[i]) /\ Far(segs[i], segs[last])
    BY <1>1, <1>4 DEF TailJump, JInv, PendingIsLast
  <2>2. Split(cur, i, i, i) /\ cur \in Nat
    BY <1>1, <1>2, <1>4, <2>1 DEF EndScan, IInv, Scanning, Chain, Tiled
  <2> PICK old \in Nat : old = Len(jumps)
    BY DEF IInv, Chain, Sewn
  <2>3. /\ Len(jumps') = old + 1
        /\ \A k \in 1..old : jumps'[k] = jumps[k]
        /\ jumps'[old + 1].segment = i
    BY <2>2, SplitAdds
  <2>4. Justified(i)'
    <3>1. PICK t \in trusted : t = last /\ IsTrustedBefore(t, i)
      BY <2>1 DEF JInv, Trusts, IsTrustedBefore
    <3>2. IsTrustedBefore(t, i)' /\ t \in trusted' /\ Far(segs'[i], segs'[t])
      BY <1>2, <2>1, <3>1 DEF IsTrustedBefore
    <3> QED
      BY <1>1, <1>2, <2>1, <3>2 DEF Justified
  <2>5. ASSUME NEW k \in 1..Len(jumps')
        PROVE  \/ \E l \in 1..Len(jumps) : jumps'[k].segment = jumps[l].segment
               \/ \E s \in 1..Len(segs) : jumps'[k].segment = s /\ Justified(s)'
    <3>1. CASE k = old + 1
      BY <1>1, <2>1, <2>3, <2>4, <3>1
    <3>2. CASE k # old + 1
      BY <2>3, <3>2
    <3> QED
      BY <3>1, <3>2
  <2>6. phase' # "scan"
    BY <1>2
  <2> QED
    BY <1>2, <2>5, <2>6, LaterJInv
<1> QED
  BY <1>3, <1>4

LEMMA DropIntroJInv ==
  ASSUME IInv, IInv', JInv, DropIntro
  PROVE  JInv'
<1>1. /\ phase = "drop" /\ phase' = "drop" /\ spans' = Tail(spans)
      /\ UNCHANGED <<segs, last, pending, trusted>>
  BY DEF DropIntro
<1>6. spans \in Seq(SpanSet) /\ Len(spans) >= 2
  BY DEF DropIntro, IInv, Chain, Tiled
<1> PICK n \in Nat : n = Len(spans) /\ n >= 2
  BY <1>6
<1>2. Len(spans') = n - 1 /\ \A k \in 1..n - 1 : spans'[k] = spans[k + 1]
  <2>1. spans \in Seq(SpanSet) /\ spans # <<>>
    BY DEF IInv, Chain, Tiled
  <2> QED
    BY <1>1, <2>1, HeadTailProperties
<1>3. Len(jumps) = n - 1 /\ \A k \in 1..n - 1 : jumps[k].segment = spans[k + 1].first
  BY Seams DEF IInv, Chain
<1>4. Len(jumps') = n - 2 /\ \A k \in 1..n - 2 : jumps'[k].segment = spans'[k + 1].first
  <2>1. Sewn(jumps', spans')
    BY DEF IInv, Chain
  <2>2. PICK l \in Nat : l = n - 1 /\ Len(spans') = l
    BY <1>2
  <2>3. Len(jumps') = l - 1 /\ \A k \in 1..l - 1 : jumps'[k].segment = spans'[k + 1].first
    BY <2>1, <2>2, Seams
  <2> QED
    BY <2>2, <2>3
<1>5. ASSUME NEW k \in 1..Len(jumps')
      PROVE  \E l \in 1..Len(jumps) : jumps'[k].segment = jumps[l].segment
  <2>1. k \in 1..n - 2 /\ k + 1 \in 1..n - 1
    BY <1>4
  <2>2. jumps'[k].segment = spans[(k + 1) + 1].first
    BY <1>2, <1>4, <2>1
  <2>3. jumps[k + 1].segment = spans[(k + 1) + 1].first
    BY <1>3, <2>1
  <2> QED
    BY <1>3, <2>1, <2>2, <2>3
<1> QED
  BY <1>1, <1>5, LaterJInv

LEMMA NextJInv == IInv /\ IInv' /\ JInv /\ [Next]_vars => JInv'
<1> SUFFICES ASSUME IInv, IInv', JInv, [Next]_vars PROVE JInv'
  OBVIOUS
<1>1. CASE Compact
  <2>1. jumps' = jumps /\ UNCHANGED <<segs, last, pending, trusted>> /\ phase' # "scan"
    BY <1>1, CompactIsIdle DEF Compact
  <2> QED
    BY <2>1, LaterJInv
<1>2. CASE Refine \/ Activate
  <2>1. jumps' = jumps /\ UNCHANGED <<segs, last, pending, trusted>> /\ phase' # "scan"
    BY <1>2 DEF Refine, Activate, scanVars
  <2> QED
    BY <2>1, LaterJInv
<1>3. CASE UNCHANGED vars
  <2>1. UNCHANGED <<segs, spans, jumps, last, pending, phase, trusted>>
    BY <1>3 DEF vars
  <2>2. Trusts' /\ PendingIsLast' /\ AgreedAreTrusted' /\ FarIsSplit'
    BY <2>1 DEF JInv, Trusts, PendingIsLast, AgreedAreTrusted, Agree, NoneGoodBetween, FarIsSplit,
                IsTrustedBefore, IsFirst
  <2>3. \A s : Justified(s) => Justified(s)'
    BY <2>1 DEF Justified, IsTrustedBefore, NoneGoodBetween
  <2>4. JumpsAreJustified'
    BY <2>1, <2>3 DEF JInv, JumpsAreJustified
  <2> QED
    BY <2>2, <2>4 DEF JInv
<1> QED
  BY <1>1, <1>2, <1>3, ScanJInv, EndScanJInv, DropIntroJInv DEF Next

LEMMA JInvHolds == Spec => []JInv
<1>1. Spec => [](IInv /\ JInv)
  BY InitHolds, InitJInv, NextHolds, NextJInv, PTL DEF Spec
<1> QED
  BY <1>1, PTL

\* A span starts only where a very confident segment, or a doubtful one that the
\* next good one confirms or that is the last of the recording, is far from the
\* segment trusted before it.
THEOREM SplitsHaveReasons == Spec => []SplitsAreJustified
<1>1. IInv /\ JInv => SplitsAreJustified
  <2> SUFFICES ASSUME IInv, JInv PROVE SplitsAreJustified
    OBVIOUS
  <2>1. DOMAIN jumps = 1..Len(jumps)
    BY DEF IInv, Chain, Sewn
  <2>2. \A k \in DOMAIN jumps : Justified(jumps[k].segment)
    BY <2>1 DEF JInv, JumpsAreJustified
  <2> QED
    BY <2>2 DEF SplitsAreJustified, Justified
<1> QED
  BY <1>1, IInvHolds, JInvHolds, PTL

\* Very confident segments are trusted, of two that agree one is, and a trusted
\* segment far from the one trusted before it is in a later span.
THEOREM JumpsAreFound == Spec => []NoJumpMissed
<1>1. IInv /\ JInv => NoJumpMissed
  <2> SUFFICES ASSUME IInv, JInv PROVE NoJumpMissed
    OBVIOUS
  <2>1. DOMAIN segs = 1..Len(segs)
    BY DEF IInv
  <2>2. \A a \in DOMAIN segs : IsGood(segs[a]) /\ segs[a].conf = "very" => a \in trusted
    BY <2>1 DEF JInv, Trusts
  <2>3. \A a, b \in DOMAIN segs :
          a < b /\ IsGood(segs[a]) /\ IsGood(segs[b]) /\ NoneGoodBetween(a, b)
            /\ Cluster(segs[a], segs[b]) => a \in trusted \/ b \in trusted
    BY <2>1 DEF JInv, AgreedAreTrusted, Agree
  <2> QED
    BY <2>2, <2>3 DEF NoJumpMissed, JInv, FarIsSplit
<1> QED
  BY <1>1, IInvHolds, JInvHolds, PTL
=============================================================================
