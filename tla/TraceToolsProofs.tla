--------------------------- MODULE TraceToolsProofs ---------------------------
(***************************************************************************)
(* Proofs about TraceIndex and TraceTools, for records, files, indexes and *)
(* buffers of any size: the trace files are a log, and the tools are right *)
(* about it.                                                               *)
(***************************************************************************)
EXTENDS TraceTools, SequenceTheorems, FiniteSetTheorems, WellFoundedInduction,
        TLAPS

-----------------------------------------------------------------------------
(* Induction over numbers, stated for a set instead of an operator.        *)

LEMMA LeastElement ==
    ASSUME NEW S, S \subseteq Nat, S # {}
    PROVE  \E x \in S : \A y \in S : x <= y
  <1> DEFINE R == {p \in Nat \X Nat : p[1] < p[2]}
  <1>1. OpToRel(<, Nat) = R
    BY DEF OpToRel
  <1>2. IsWellFoundedOn(R, Nat)
    BY <1>1, NatLessThanWellFounded
  <1> HIDE DEF R
  <1>3. PICK x \in S : \A y \in S : <<y, x>> \notin R
    BY <1>2, WFMin
  <1>4. \A y \in S : x <= y
    <2>1. TAKE y \in S
    <2>2. <<y, x>> \in Nat \X Nat /\ ~(y < x)
      BY <1>3 DEF R
    <2> QED BY <2>2
  <1> QED BY <1>4

\* What holds at 0 and goes on from each number below n to the next.
LEMMA UpTo ==
    ASSUME NEW n \in Nat, NEW S, 0 \in S,
           \A k \in 0 .. n - 1 : k \in S => k + 1 \in S
    PROVE  0 .. n \subseteq S
  <1> DEFINE Out == {k \in 0 .. n : k \notin S}
  <1>1. SUFFICES ASSUME Out # {} PROVE FALSE
    OBVIOUS
  <1>2. PICK x \in Out : \A y \in Out : x <= y
    <2>1. Out \subseteq Nat
      OBVIOUS
    <2> HIDE DEF Out
    <2> QED BY <1>1, <2>1, LeastElement
  <1>3. x # 0 /\ x \in 1 .. n
    BY <1>2
  <1>4. x - 1 \in 0 .. n - 1 /\ x - 1 \notin Out
    BY <1>2, <1>3
  <1> QED BY <1>2, <1>4

\* The values that step makes from base, one after the other.
Follows(f, base, step, n) ==
    f[0] = base /\ \A k \in 0 .. n - 1 : f[k + 1] = step[k][f[k]]

\* A function may be defined by recursion over the numbers up to n.
LEMMA Recursion ==
    ASSUME NEW V, NEW base \in V, NEW step \in [Nat -> [V -> V]], NEW n \in Nat
    PROVE  \E f \in [0 .. n -> V] : Follows(f, base, step, n)
  <1> DEFINE S == {m \in Nat : \E f \in [0 .. m -> V] : Follows(f, base, step, m)}
  <1>1. 0 \in S
    <2> DEFINE g == [i \in 0 .. 0 |-> base]
    <2>1. g \in [0 .. 0 -> V] /\ Follows(g, base, step, 0)
      BY DEF Follows
    <2> QED BY <2>1
  <1>2. ASSUME NEW m \in S PROVE m + 1 \in S
    <2>1. PICK f \in [0 .. m -> V] : Follows(f, base, step, m)
      BY <1>2
    <2> DEFINE g == [i \in 0 .. m + 1 |->
                        IF i = m + 1 THEN step[m][f[m]] ELSE f[i]]
    <2>2. m \in Nat /\ f[m] \in V /\ m + 1 \in Nat
      BY <1>2
    <2>3. g \in [0 .. m + 1 -> V]
      BY <2>2
    <2>4. \A i \in 0 .. m : g[i] = f[i]
      BY <2>2
    <2>5. g[m + 1] = step[m][f[m]]
      BY <2>2
    <2> HIDE DEF g
    <2>6. ASSUME NEW k \in 0 .. m PROVE g[k + 1] = step[k][g[k]]
      <3>1. CASE k = m
        BY <2>2, <2>4, <2>5, <3>1
      <3>2. CASE k # m
        <4>1. k \in 0 .. m - 1 /\ k + 1 \in 0 .. m
          BY <2>2, <3>2
        <4> QED BY <2>1, <2>4, <4>1 DEF Follows
      <3> QED BY <3>1, <3>2
    <2>7. g[0] = base /\ m + 1 - 1 = m
      BY <2>1, <2>2, <2>4 DEF Follows
    <2>8. Follows(g, base, step, m + 1)
      BY <2>6, <2>7 DEF Follows
    <2> QED BY <2>2, <2>3, <2>8
  <1> HIDE DEF S
  <1>3. 0 .. n \subseteq S
    BY <1>1, <1>2, UpTo
  <1> QED BY <1>3 DEF S

-----------------------------------------------------------------------------
(* Buffers of whole records. e lists where the n records of b end.         *)

Cut(b, n, e) ==
    /\ e \in [0 .. n -> 0 .. Len(b)]
    /\ e[0] = 0 /\ e[n] = Len(b)
    /\ \A i, j \in 0 .. n : i < j => e[i] < e[j]
    /\ Breaks(b, 0) = {e[i] : i \in 1 .. n}

\* The k-th end has k breaks at or before it, so Records finds it as Nth(k).
LEMMA CutBreaks ==
    ASSUME NEW b, NEW n \in Nat, NEW e, Cut(b, n, e), NEW k \in 0 .. n
    PROVE  /\ {x \in Breaks(b, 0) : x <= e[k]} = {e[i] : i \in 1 .. k}
           /\ Cardinality({x \in Breaks(b, 0) : x <= e[k]}) = k
           /\ Cardinality(Breaks(b, 0)) = n
  <1>0. /\ \A i \in 0 .. n : e[i] \in Int
        /\ \A i, j \in 0 .. n : i < j => e[i] < e[j]
        /\ Breaks(b, 0) = {e[i] : i \in 1 .. n}
    BY DEF Cut
  <1>1. ASSUME NEW m \in 0 .. n
        PROVE  Cardinality({e[i] : i \in 1 .. m}) = m
    <2> DEFINE S == {e[i] : i \in 1 .. m}
               f == [i \in 1 .. m |-> e[i]]
    <2>1. f \in Bijection(1 .. m, S)
      <3>1. f \in Surjection(1 .. m, S)
        BY DEF Surjection
      <3>2. \A i, j \in 1 .. m : f[i] = f[j] => i = j
        BY <1>0
      <3> QED BY <3>1, <3>2 DEF Bijection, Injection, Surjection, IsInjective
    <2>2. ExistsBijection(1 .. m, S)
      BY <2>1 DEF ExistsBijection
    <2>3. IsFiniteSet(1 .. m) /\ Cardinality(1 .. m) = m
      BY FS_Interval
    <2> HIDE DEF S
    <2>4. Cardinality(S) = m
      BY <2>2, <2>3, FS_Bijection
    <2> QED BY <2>4 DEF S
  <1>2. {x \in Breaks(b, 0) : x <= e[k]} = {e[i] : i \in 1 .. k}
    <2>1. ASSUME NEW i \in 1 .. n PROVE e[i] <= e[k] <=> i <= k
      BY <1>0
    <2> QED BY <1>0, <2>1
  <1> QED BY <1>0, <1>1, <1>2

\* A record ends where the next one begins.
LEMMA CutEnd ==
    ASSUME NEW b, NEW n \in Nat, NEW e, Cut(b, n, e), NEW k \in 0 .. n - 1,
           Len(b) \in Nat
    PROVE  EndOf(b, e[k]) = e[k + 1]
  <1>0. /\ \A i \in 0 .. n : e[i] \in 0 .. Len(b)
        /\ \A i, j \in 0 .. n : i < j => e[i] < e[j]
        /\ Breaks(b, 0) = {e[i] : i \in 1 .. n}
    BY DEF Cut
  <1>1. Breaks(b, e[k]) = {x \in Breaks(b, 0) : x > e[k]}
    BY <1>0 DEF Breaks
  <1>2. e[k + 1] \in Breaks(b, e[k])
    BY <1>0, <1>1
  <1>3. \A x \in Breaks(b, e[k]) : e[k + 1] <= x
    <2> SUFFICES ASSUME NEW i \in 1 .. n, e[i] > e[k] PROVE e[k + 1] <= e[i]
      BY <1>0, <1>1
    <2>1. i >= k + 1
      BY <1>0
    <2> QED BY <1>0, <2>1
  <1>4. Breaks(b, e[k]) \subseteq Nat
    BY <1>0 DEF Breaks
  <1> QED BY <1>2, <1>3, <1>4 DEF EndOf

\* Records takes the buffer apart at these ends.
LEMMA CutRecords ==
    ASSUME NEW b, NEW n \in Nat, NEW e, Cut(b, n, e), Len(b) \in Nat
    PROVE  Records(b) = [i \in 1 .. n |-> CycleOf(SubSeq(b, e[i - 1] + 1, e[i]))]
  <1> DEFINE ends == Breaks(b, 0)
             Nth(i) == CHOOSE x \in ends : Cardinality({y \in ends : y <= x}) = i
  <1>0. \A k \in 0 .. n : /\ Cardinality({y \in ends : y <= e[k]}) = k
                           /\ Cardinality(ends) = n
    BY CutBreaks
  <1>1. Cardinality(ends) = n
    <2>1. 0 \in 0 .. n
      OBVIOUS
    <2> HIDE DEF ends
    <2> QED BY <1>0, <2>1
  <1>2. ASSUME NEW k \in 1 .. n PROVE Nth(k) = e[k]
    <2>1. e[k] \in ends /\ Cardinality({y \in ends : y <= e[k]}) = k
      BY <1>0 DEF Cut
    <2>2. ASSUME NEW x \in ends, Cardinality({y \in ends : y <= x}) = k
          PROVE  x = e[k]
      <3>1. PICK j \in 1 .. n : x = e[j]
        BY DEF Cut
      <3>2. Cardinality({y \in ends : y <= e[j]}) = j
        BY <1>0
      <3> QED BY <2>2, <3>1, <3>2
    <2> HIDE DEF ends
    <2> QED BY <2>1, <2>2
  <1>3. ASSUME NEW i \in 1 .. n
        PROVE  Parse(b, IF i = 1 THEN 0 ELSE Nth(i - 1))
                 = CycleOf(SubSeq(b, e[i - 1] + 1, e[i]))
    <2>1. (IF i = 1 THEN 0 ELSE Nth(i - 1)) = e[i - 1]
      <3>1. e[0] = 0 /\ (i # 1 => i - 1 \in 1 .. n)
        BY DEF Cut
      <3> HIDE DEF Nth
      <3> QED BY <1>2, <3>1
    <2>2. EndOf(b, e[i - 1]) = e[i]
      BY CutEnd
    <2> HIDE DEF Nth
    <2> QED BY <2>1, <2>2 DEF Parse
  <1>4. Records(b) = [i \in 1 .. Cardinality(ends) |->
                         Parse(b, IF i = 1 THEN 0 ELSE Nth(i - 1))]
    BY DEF Records
  <1> HIDE DEF ends, Nth
  <1> QED BY <1>1, <1>3, <1>4

\* A record is closed by its only break.
IsRecord(r, T) ==
    /\ r \in Seq(T) /\ Len(r) > 0
    /\ \A i \in 1 .. Len(r) : r[i].id = "BR" <=> i = Len(r)

LEMMA RecordParsed ==
    ASSUME NEW T, NEW r, IsRecord(r, T)
    PROVE  Parse(r, 0) = CycleOf(r)
  <1>1. r \in Seq(T) /\ Len(r) \in Nat /\ Len(r) > 0
    BY LenProperties DEF IsRecord
  <1>2. Breaks(r, 0) = {Len(r)}
    BY <1>1 DEF Breaks, IsRecord
  <1>3. EndOf(r, 0) = Len(r)
    BY <1>1, <1>2 DEF EndOf
  <1>4. SubSeq(r, 1, Len(r)) = r
    BY <1>1, SubSeqFull
  <1>5. SubSeq(r, 0 + 1, EndOf(r, 0)) = r
    BY <1>1, <1>3, <1>4
  <1> QED BY <1>5, Zenon DEF Parse

LEMMA EmptyCut ==
    /\ Cut(<<>>, 0, [i \in 0 .. 0 |-> 0])
    /\ Records(<<>>) = <<>>
  <1> DEFINE e == [i \in 0 .. 0 |-> 0]
  <1>1. Len(<<>>) = 0
    BY EmptySeq
  <1>2. Breaks(<<>>, 0) = {}
    BY <1>1 DEF Breaks
  <1>3. Cut(<<>>, 0, e)
    BY <1>1, <1>2 DEF Cut
  <1> HIDE DEF e
  <1>4. Records(<<>>) = [i \in 1 .. 0 |-> CycleOf(SubSeq(<<>>, e[i - 1] + 1, e[i]))]
    BY <1>1, <1>3, CutRecords
  <1>5. Records(<<>>) = <<>>
    BY <1>4
  <1> QED BY <1>3, <1>5 DEF e

\* A record behind a buffer of records is one more record.
LEMMA CutConcat ==
    ASSUME NEW T, NEW b \in Seq(T), NEW n \in Nat, NEW e, Cut(b, n, e),
           NEW r, IsRecord(r, T)
    PROVE  /\ \E f : Cut(b \o r, n + 1, f)
           /\ Records(b \o r) = Append(Records(b), CycleOf(r))
  <1> DEFINE c == b \o r
             f == [i \in 0 .. n + 1 |-> IF i = n + 1 THEN Len(c) ELSE e[i]]
  <1>1. /\ r \in Seq(T) /\ Len(r) \in Nat /\ Len(r) > 0 /\ Len(b) \in Nat
        /\ c \in Seq(T) /\ Len(c) = Len(b) + Len(r)
        /\ \A i \in 1 .. Len(c) :
              c[i] = IF i <= Len(b) THEN b[i] ELSE r[i - Len(b)]
    BY LenProperties, ConcatProperties DEF IsRecord
  <1>2. /\ \A i \in 0 .. n : e[i] \in 0 .. Len(b)
        /\ \A i, j \in 0 .. n : i < j => e[i] < e[j]
        /\ Breaks(b, 0) = {e[i] : i \in 1 .. n}
        /\ e[0] = 0 /\ e[n] = Len(b)
    BY DEF Cut
  <1> HIDE DEF c
  <1>3. Breaks(c, 0) = Breaks(b, 0) \cup {Len(c)}
    <2>1. ASSUME NEW i \in 1 .. Len(b) PROVE c[i].id = "BR" <=> b[i].id = "BR"
      BY <1>1
    <2>2. ASSUME NEW i \in Len(b) + 1 .. Len(c) PROVE c[i].id = "BR" <=> i = Len(c)
      <3>1. PICK j \in 1 .. Len(r) : i = j + Len(b)
        BY <1>1
      <3>2. c[i] = r[j] /\ (r[j].id = "BR" <=> j = Len(r))
        BY <1>1, <3>1 DEF IsRecord
      <3>3. i = Len(c) <=> j = Len(r)
        <4>1. /\ Len(c) = Len(b) + Len(r) /\ i = j + Len(b)
              /\ Len(b) \in Nat /\ Len(r) \in Nat /\ j \in Nat
          BY <1>1, <3>1
        <4> HIDE DEF c
        <4> QED BY <4>1
      <3> QED BY <3>2, <3>3
    <2>3. 1 .. Len(c) = 1 .. Len(b) \cup Len(b) + 1 .. Len(c)
      BY <1>1
    <2> QED BY <1>1, <2>1, <2>2, <2>3 DEF Breaks
  <1>4. /\ f \in [0 .. n + 1 -> 0 .. Len(c)]
        /\ f[0] = 0 /\ f[n + 1] = Len(c) /\ f[n] = Len(b)
        /\ \A i \in 0 .. n : f[i] = e[i]
    BY <1>1, <1>2
  <1> HIDE DEF f
  <1>5. Cut(c, n + 1, f)
    <2>1. ASSUME NEW i \in 0 .. n + 1, NEW j \in 0 .. n + 1, i < j
          PROVE  f[i] < f[j]
      <3>1. CASE j \in 0 .. n
        BY <1>2, <1>4, <2>1, <3>1
      <3>2. CASE j = n + 1
        <4>1. i \in 0 .. n /\ f[i] = e[i] /\ e[i] \in 0 .. Len(b)
          BY <1>2, <1>4, <2>1, <3>2
        <4> QED BY <1>1, <1>4, <3>2, <4>1
      <3> QED BY <3>1, <3>2
    <2>2. {f[i] : i \in 1 .. n + 1} = {e[i] : i \in 1 .. n} \cup {Len(c)}
      <3>1. 1 .. n + 1 = 1 .. n \cup {n + 1}
        OBVIOUS
      <3>2. \A i \in 1 .. n : f[i] = e[i]
        BY <1>4
      <3> QED BY <1>4, <3>1, <3>2
    <2> QED BY <1>2, <1>3, <1>4, <2>1, <2>2 DEF Cut
  <1>6. Records(b) = [i \in 1 .. n |-> CycleOf(SubSeq(b, e[i - 1] + 1, e[i]))]
    BY <1>1, CutRecords
  <1>7. Records(c) = [i \in 1 .. n + 1 |-> CycleOf(SubSeq(c, f[i - 1] + 1, f[i]))]
    BY <1>1, <1>5, CutRecords
  <1>8. ASSUME NEW i \in 1 .. n PROVE Records(c)[i] = Records(b)[i]
    <2>1. f[i] = e[i] /\ f[i - 1] = e[i - 1] /\ e[i - 1] < e[i]
          /\ e[i] \in 0 .. Len(b) /\ e[i - 1] \in 0 .. Len(b)
      BY <1>2, <1>4
    <2>2. e[i - 1] + 1 \in 1 .. Len(b) /\ e[i] \in 1 .. Len(b)
      BY <1>1, <2>1
    <2>3. SubSeq(c, e[i - 1] + 1, e[i]) = SubSeq(b, e[i - 1] + 1, e[i])
      BY <1>1, <2>2, SubSeqOfConcat1 DEF c
    <2>4. Records(b)[i] = CycleOf(SubSeq(b, e[i - 1] + 1, e[i]))
      BY <1>6, Zenon
    <2>5. Records(c)[i] = CycleOf(SubSeq(c, f[i - 1] + 1, f[i]))
      <3>1. i \in 1 .. n + 1
        OBVIOUS
      <3> QED BY <1>7, <3>1, Zenon
    <2> QED BY <2>1, <2>3, <2>4, <2>5, Zenon
  <1>9. Records(c)[n + 1] = CycleOf(r)
    <2>1. /\ Len(b) + 1 \in Len(b) + 1 .. Len(b) + Len(r)
          /\ Len(b) + Len(r) \in Len(b) + 1 .. Len(b) + Len(r)
          /\ Len(b) + 1 - Len(b) = 1 /\ Len(b) + Len(r) - Len(b) = Len(r)
      BY <1>1
    <2>2. SubSeq(c, Len(b) + 1, Len(b) + Len(r))
             = SubSeq(r, Len(b) + 1 - Len(b), Len(b) + Len(r) - Len(b))
      BY <1>1, <2>1, SubSeqOfConcat2 DEF c
    <2>3. SubSeq(r, 1, Len(r)) = r
      BY <1>1, SubSeqFull
    <2>4. Records(c)[n + 1] = CycleOf(SubSeq(c, f[n + 1 - 1] + 1, f[n + 1]))
      <3>1. n + 1 \in 1 .. n + 1
        OBVIOUS
      <3>2. \A i \in 1 .. n + 1 :
               Records(c)[i] = CycleOf(SubSeq(c, f[i - 1] + 1, f[i]))
        BY <1>7, Zenon
      <3> DEFINE m == n + 1
      <3>3. m \in 1 .. n + 1
        BY <3>1
      <3> HIDE DEF m
      <3>4. Records(c)[m] = CycleOf(SubSeq(c, f[m - 1] + 1, f[m]))
        BY <3>2, <3>3
      <3> QED BY <3>4 DEF m
    <2>5. SubSeq(c, f[n + 1 - 1] + 1, f[n + 1]) = r
      <3>1. f[n + 1 - 1] = Len(b) /\ f[n + 1] = Len(b) + Len(r)
        BY <1>1, <1>4
      <3> QED BY <2>1, <2>2, <2>3, <3>1
    <2> QED BY <2>4, <2>5, Zenon
  <1>10. Append(Records(b), CycleOf(r))
            = [i \in 1 .. n + 1 |-> IF i = n + 1 THEN CycleOf(r) ELSE Records(b)[i]]
    <2> DEFINE s == Records(b)
               U == {s[i] : i \in 1 .. n} \cup {CycleOf(r)}
    <2>1. s \in [1 .. n -> U]
      BY <1>6
    <2>2. s \in Seq(U) /\ Len(s) = n
      BY <2>1
    <2> HIDE DEF s, U
    <2>3. CycleOf(r) \in U
      BY DEF U
    <2>4. /\ Append(s, CycleOf(r)) \in Seq(U)
          /\ Len(Append(s, CycleOf(r))) = n + 1
          /\ \A i \in 1 .. n : Append(s, CycleOf(r))[i] = s[i]
          /\ Append(s, CycleOf(r))[n + 1] = CycleOf(r)
      BY <2>2, <2>3, AppendProperties
    <2>5. Append(s, CycleOf(r)) \in [1 .. n + 1 -> U]
      BY <2>4, LenProperties
    <2> DEFINE a == Append(s, CycleOf(r))
    <2>6. a \in [1 .. n + 1 -> U] /\ (\A i \in 1 .. n : a[i] = s[i])
          /\ a[n + 1] = CycleOf(r)
      BY <2>4, <2>5
    <2> HIDE DEF a
    <2>7. a = [i \in 1 .. n + 1 |-> IF i = n + 1 THEN CycleOf(r) ELSE s[i]]
      BY <2>6
    <2> QED BY <2>7 DEF a, s
  <1>11. Records(c) = Append(Records(b), CycleOf(r))
    <2> DEFINE g == Records(c)
               h == Records(b)
    <2>1. g = [i \in 1 .. n + 1 |-> g[i]]
      BY <1>7, Zenon
    <2>2. \A i \in 1 .. n : g[i] = h[i]
      BY <1>8
    <2>3. g[n + 1] = CycleOf(r)
      BY <1>9
    <2>4. Append(h, CycleOf(r))
            = [i \in 1 .. n + 1 |-> IF i = n + 1 THEN CycleOf(r) ELSE h[i]]
      BY <1>10
    <2> HIDE DEF g, h
    <2>5. g = Append(h, CycleOf(r))
      BY <2>1, <2>2, <2>3, <2>4
    <2> QED BY <2>5 DEF g, h
  <1> QED BY <1>5, <1>11 DEF c

-----------------------------------------------------------------------------
(* The files of an index, one behind the other.                            *)

\* f lists what the first sequences of s make together.
Flattened(f, s, n) ==
    /\ f[0] = <<>>
    /\ \A k \in 0 .. n - 1 : f[k + 1] = f[k] \o s[k + 1]
    /\ \A k \in 0 .. n : FlattenSeq([i \in 1 .. k |-> s[i]]) = f[k]

LEMMA Flatten ==
    ASSUME NEW U, NEW n \in Nat, NEW s \in [1 .. n -> Seq(U)]
    PROVE  \E f \in [0 .. n -> Seq(U)] : Flattened(f, s, n)
  <1> DEFINE V == Seq(U)
             none == <<>>
             step == [k \in Nat |-> [v \in V |->
                         IF k + 1 \in 1 .. n THEN v \o s[k + 1] ELSE v]]
  <1>1. none \in V
    BY EmptySeq
  <1>2. step \in [Nat -> [V -> V]]
    <2>1. \A k \in Nat, v \in V : k + 1 \in 1 .. n => v \o s[k + 1] \in V
      BY ConcatProperties
    <2> HIDE DEF V
    <2> QED BY <2>1
  <1>3. \A k \in 0 .. n - 1, v \in V : step[k][v] = v \o s[k + 1]
    <2> HIDE DEF V
    <2> QED OBVIOUS
  <1> HIDE DEF V, step, none
  <1>4. \E f \in [0 .. n -> V] : Follows(f, none, step, n)
    BY <1>1, <1>2, Recursion
  <1>5. PICK f \in [0 .. n -> V] :
            f[0] = none /\ \A k \in 0 .. n - 1 : f[k + 1] = f[k] \o s[k + 1]
    <2>1. PICK f \in [0 .. n -> V] : Follows(f, none, step, n)
      BY <1>4
    <2>2. ASSUME NEW k \in 0 .. n - 1 PROVE f[k + 1] = f[k] \o s[k + 1]
      <3>1. f[k] \in V
        BY <2>1
      <3> QED BY <1>3, <2>1, <3>1 DEF Follows
    <2>3. f[0] = none
      BY <2>1 DEF Follows
    <2> QED BY <2>2, <2>3
  <1>6. \A i \in 1 .. n : s[i] \in Seq(U) /\ none \o s[i] = s[i]
    BY ConcatEmptySeq DEF none
  <1>7. ASSUME NEW k \in 0 .. n PROVE FlattenSeq([i \in 1 .. k |-> s[i]]) = f[k]
    <2> DEFINE t == [i \in 1 .. k |-> s[i]]
               F == CHOOSE g : g = [i \in 1 .. Len(t) |->
                                       IF i = 1 THEN t[i] ELSE g[i - 1] \o t[i]]
    <2>1. Len(t) = k /\ t \in Seq(V)
      BY DEF V
    <2>2. CASE k = 0
      <3>1. t = <<>>
        BY <2>2
      <3> HIDE DEF t
      <3>2. FlattenSeq(t) = t
        BY <2>1, <2>2 DEF FlattenSeq
      <3> QED BY <1>5, <2>2, <3>1, <3>2 DEF t, none
    <2>3. CASE k # 0
      <3>1. \A i \in 1 .. k : t[i] = s[i]
        OBVIOUS
      <3> HIDE DEF t
      <3>2. FlattenSeq(t) = F[k]
        BY <2>1, <2>3 DEF FlattenSeq
      <3>3. \E g : g = [i \in 1 .. Len(t) |-> IF i = 1 THEN t[i] ELSE g[i - 1] \o t[i]]
        <4> DEFINE g == [i \in 1 .. k |-> f[i]]
        <4>1. ASSUME NEW i \in 1 .. k
              PROVE  g[i] = IF i = 1 THEN t[i] ELSE g[i - 1] \o t[i]
          <5>1. PICK j \in 0 .. n - 1 : i = j + 1
            <6>1. i - 1 \in 0 .. n - 1 /\ i = (i - 1) + 1
              OBVIOUS
            <6> QED BY <6>1
          <5>0. f[j + 1] = f[j] \o s[j + 1]
            BY <1>5, Zenon
          <5>2. f[i] = f[j] \o s[i] /\ t[i] = s[i] /\ i \in 1 .. n
            <6>1. f[i] = f[j] \o s[i]
              BY <5>0, <5>1, Zenon
            <6>2. t[i] = s[i]
              BY <3>1
            <6> QED BY <6>1, <6>2
          <5>3. g[i] = f[i] /\ (i # 1 => g[i - 1] = f[j])
            BY <5>1
          <5>4. i = 1 => f[j] \o s[i] = s[i]
            <6>1. none \o s[i] = s[i] /\ f[0] = none
              BY <1>5, <1>6, <5>2
            <6>2. i = 1 => j = 0
              BY <5>1
            <6> QED BY <6>1, <6>2
          <5> HIDE DEF g
          <5> QED BY <5>2, <5>3, <5>4
        <4>2. g = [i \in 1 .. k |-> g[i]]
          OBVIOUS
        <4> HIDE DEF g
        <4>3. g = [i \in 1 .. k |-> IF i = 1 THEN t[i] ELSE g[i - 1] \o t[i]]
          BY <4>1, <4>2
        <4> QED BY <2>1, <4>3
      <3>4. F = [i \in 1 .. k |-> IF i = 1 THEN t[i] ELSE F[i - 1] \o t[i]]
        BY <2>1, <3>3
      <3> HIDE DEF F
      <3> DEFINE S == {i \in 0 .. k : i # 0 => F[i] = f[i]}
      <3>5. 0 \in S
        OBVIOUS
      <3>6. ASSUME NEW i \in 0 .. k - 1, i \in S PROVE i + 1 \in S
        <4>1. i + 1 \in 1 .. k /\ i + 1 \in 1 .. n /\ i \in 0 .. n - 1
          OBVIOUS
        <4>2. F[i + 1] = IF i + 1 = 1 THEN t[i + 1] ELSE F[i + 1 - 1] \o t[i + 1]
          <5>1. \A m \in 1 .. k : F[m] = IF m = 1 THEN t[m] ELSE F[m - 1] \o t[m]
            BY <3>4, Zenon
          <5>2. PICK m \in 1 .. k : m = i + 1
            BY <4>1
          <5>3. F[m] = IF m = 1 THEN t[m] ELSE F[m - 1] \o t[m]
            BY <5>1, <5>2
          <5> QED BY <5>2, <5>3
        <4>3. f[i + 1] = f[i] \o s[i + 1] /\ none \o s[i + 1] = s[i + 1]
              /\ t[i + 1] = s[i + 1]
          BY <1>5, <1>6, <3>1, <4>1, Zenon
        <4>4. i + 1 - 1 = i /\ (i + 1 = 1 <=> i = 0)
          OBVIOUS
        <4>5. CASE i = 0
          <5>1. f[i] = none
            BY <1>5, <4>5
          <5>2. F[i + 1] = t[i + 1]
            BY <4>2, <4>4, <4>5
          <5>3. F[i + 1] = f[i + 1]
            BY <4>3, <5>1, <5>2
          <5> QED BY <4>1, <5>3
        <4>6. CASE i # 0
          <5>1. F[i] = f[i]
            BY <3>6, <4>6
          <5>2. F[i + 1] = F[i] \o t[i + 1]
            BY <4>2, <4>4, <4>6
          <5>3. F[i + 1] = f[i + 1]
            BY <4>3, <5>1, <5>2
          <5> QED BY <4>1, <5>3
        <4> QED BY <4>5, <4>6
      <3> HIDE DEF S
      <3>7. 0 .. k \subseteq S
        <4>1. k \in Nat
          OBVIOUS
        <4> QED BY <3>5, <3>6, <4>1, UpTo, Zenon
      <3>8. k \in S
        BY <3>7
      <3> QED BY <2>3, <3>2, <3>8 DEF S, t
    <2> QED BY <2>2, <2>3
  <1>8. f \in [0 .. n -> Seq(U)] /\ f[0] = <<>>
    BY <1>5 DEF V, none
  <1>9. \A k \in 0 .. n : FlattenSeq([i \in 1 .. k |-> s[i]]) = f[k]
    BY <1>7
  <1>10. \A k \in 0 .. n - 1 : f[k + 1] = f[k] \o s[k + 1]
    BY <1>5
  <1>11. Flattened(f, s, n)
    BY <1>8, <1>9, <1>10 DEF Flattened
  <1> QED BY <1>8, <1>11

FileAt(w, i) == w.files[w.lines[i].path]

\* One file more adds its records.
LEMMA FiledSteps ==
    ASSUME NEW U, NEW w, NEW n \in Nat,
           \A i \in 1 .. n : Records(FileAt(w, i)) \in Seq(U)
    PROVE  /\ Filed(w, 0) = <<>>
           /\ \A k \in 0 .. n : Filed(w, k) \in Seq(U)
           /\ \A k \in 0 .. n - 1 :
                 Filed(w, k + 1) = Filed(w, k) \o Records(FileAt(w, k + 1))
  <1> DEFINE s == [i \in 1 .. n |-> Records(FileAt(w, i))]
  <1>1. s \in [1 .. n -> Seq(U)]
    OBVIOUS
  <1>2. \A k \in 0 .. n : Filed(w, k) = FlattenSeq([i \in 1 .. k |-> s[i]])
    <2>1. ASSUME NEW k \in 0 .. n
          PROVE  [i \in 1 .. k |-> s[i]] = [i \in 1 .. k |-> Records(FileAt(w, i))]
      OBVIOUS
    <2> HIDE DEF s
    <2> QED BY <2>1 DEF Filed, FileAt
  <1>3. \A k \in 1 .. n : s[k] = Records(FileAt(w, k))
    OBVIOUS
  <1> HIDE DEF s
  <1>4. PICK f \in [0 .. n -> Seq(U)] : Flattened(f, s, n)
    BY <1>1, Flatten
  <1>5. \A k \in 0 .. n : Filed(w, k) = f[k]
    BY <1>2, <1>4 DEF Flattened
  <1>6. ASSUME NEW k \in 0 .. n - 1
        PROVE  Filed(w, k + 1) = Filed(w, k) \o Records(FileAt(w, k + 1))
    <2>1. k + 1 \in 1 .. n /\ k + 1 \in 0 .. n /\ k \in 0 .. n
      OBVIOUS
    <2>2. f[k + 1] = f[k] \o s[k + 1]
      BY <1>4 DEF Flattened
    <2> QED BY <1>3, <1>5, <2>1, <2>2
  <1>7. 0 \in 0 .. n /\ f[0] = <<>>
    BY <1>4 DEF Flattened
  <1> QED BY <1>4, <1>5, <1>6, <1>7

-----------------------------------------------------------------------------
(* What the index writer keeps true.                                       *)

Cycles(T) == {CycleOf(s) : s \in Seq(T)}

Whole(b, n, T) == b \in Seq(T) /\ n \in Nat /\ \E e : Cut(b, n, e)

\* Every line of the index counts the records of its file, and the count of
\* the records in the buffer is right.
WriterOK(w, T) ==
    /\ w \in [data : Seq(T), count : Nat, fileCount : Nat,
              files : [0 .. w.fileCount - 1 -> Seq(T)],
              lines : Seq([path : Nat, cycle : Nat])]
    /\ Whole(w.data, w.count, T) /\ Len(w.data) <= MaxFileSize
    /\ \A i \in 1 .. Len(w.lines) :
          /\ w.lines[i].path \in 0 .. w.fileCount - 1
          /\ w.lines[i].cycle > 0
          /\ Whole(FileAt(w, i), w.lines[i].cycle, T)

LEMMA WholeRecords ==
    ASSUME NEW T, NEW b, NEW n, Whole(b, n, T)
    PROVE  /\ Records(b) \in Seq(Cycles(T))
           /\ Len(Records(b)) = n
           /\ n = 0 <=> b = <<>>
  <1>1. PICK e : Cut(b, n, e)
    BY DEF Whole
  <1>2. b \in Seq(T) /\ n \in Nat /\ Len(b) \in Nat
    BY LenProperties DEF Whole
  <1>3. Records(b) = [i \in 1 .. n |-> CycleOf(SubSeq(b, e[i - 1] + 1, e[i]))]
    BY <1>1, <1>2, CutRecords
  <1>4. ASSUME NEW i \in 1 .. n
        PROVE  CycleOf(SubSeq(b, e[i - 1] + 1, e[i])) \in Cycles(T)
    <2>1. e[i - 1] \in 0 .. Len(b) /\ e[i] \in 0 .. Len(b)
      BY <1>1, <1>2 DEF Cut
    <2>2. \A j \in e[i - 1] + 1 .. e[i] : b[j] \in T
      BY <1>2, <2>1, ElementOfSeq
    <2>3. SubSeq(b, e[i - 1] + 1, e[i]) \in Seq(T)
      BY <2>1, <2>2, SubSeqProperties
    <2> QED BY <2>3 DEF Cycles
  <1>5. Records(b) \in [1 .. n -> Cycles(T)]
    BY <1>3, <1>4
  <1>6. Records(b) \in Seq(Cycles(T)) /\ Len(Records(b)) = n
    <2> DEFINE s == Records(b)
               U == Cycles(T)
    <2>1. s \in [1 .. n -> U]
      BY <1>5
    <2> HIDE DEF s, U
    <2>2. s \in Seq(U) /\ Len(s) = n
      BY <1>2, <2>1
    <2> QED BY <2>2 DEF s, U
  <1>7. e[0] = 0 /\ e[n] = Len(b) /\ (0 < n => e[0] < e[n])
    BY <1>1, <1>2 DEF Cut
  <1>8. Len(b) = 0 <=> b = <<>>
    BY <1>2, EmptySeq
  <1> QED BY <1>2, <1>6, <1>7, <1>8

LEMMA PrefixOfConcat ==
    ASSUME NEW U, NEW s \in Seq(U), NEW t \in Seq(U)
    PROVE  IsPrefix(s, s \o t)
  <1>1. /\ Len(s) \in Nat /\ Len(t) \in Nat /\ s \o t \in Seq(U)
        /\ Len(s \o t) = Len(s) + Len(t)
    BY LenProperties, ConcatProperties
  <1>2. SubSeq(s \o t, 1, Len(s)) = SubSeq(s, 1, Len(s))
    <2>1. CASE Len(s) = 0
      BY <2>1, SubSeqEmpty
    <2>2. CASE Len(s) > 0
      <3>1. 1 \in 1 .. Len(s) /\ Len(s) \in 1 .. Len(s)
        BY <1>1, <2>2
      <3> QED BY <3>1, SubSeqOfConcat1
    <2> QED BY <1>1, <2>1, <2>2
  <1> QED BY <1>1, <1>2 DEF IsPrefix

\* The files of an index are sequences of records, which Filed adds up.
LEMMA FiledOK ==
    ASSUME NEW T, NEW w, WriterOK(w, T)
    PROVE  /\ Len(w.lines) \in Nat
           /\ \A i \in 1 .. Len(w.lines) :
                 /\ Records(FileAt(w, i)) \in Seq(Cycles(T))
                 /\ Len(Records(FileAt(w, i))) = w.lines[i].cycle
           /\ Filed(w, 0) = <<>>
           /\ \A k \in 0 .. Len(w.lines) : Filed(w, k) \in Seq(Cycles(T))
           /\ \A k \in 0 .. Len(w.lines) - 1 :
                 Filed(w, k + 1) = Filed(w, k) \o Records(FileAt(w, k + 1))
           /\ Records(w.data) \in Seq(Cycles(T)) /\ Len(Records(w.data)) = w.count
           /\ IndexLog(w) \in Seq(Cycles(T))
  <1>1. Len(w.lines) \in Nat
    BY LenProperties DEF WriterOK
  <1>2. ASSUME NEW i \in 1 .. Len(w.lines)
        PROVE  /\ Records(FileAt(w, i)) \in Seq(Cycles(T))
               /\ Len(Records(FileAt(w, i))) = w.lines[i].cycle
    BY WholeRecords DEF WriterOK
  <1>3. /\ Filed(w, 0) = <<>>
        /\ \A k \in 0 .. Len(w.lines) : Filed(w, k) \in Seq(Cycles(T))
        /\ \A k \in 0 .. Len(w.lines) - 1 :
              Filed(w, k + 1) = Filed(w, k) \o Records(FileAt(w, k + 1))
    BY <1>1, <1>2, FiledSteps
  <1>4. Records(w.data) \in Seq(Cycles(T)) /\ Len(Records(w.data)) = w.count
    BY WholeRecords DEF WriterOK
  <1>5. IndexLog(w) \in Seq(Cycles(T))
    <2>1. Filed(w, Len(w.lines)) \in Seq(Cycles(T))
      BY <1>1, <1>3
    <2> QED BY <1>4, <2>1, ConcatProperties DEF IndexLog
  <1> QED BY <1>1, <1>2, <1>3, <1>4, <1>5

LEMMA SameFiles ==
    ASSUME NEW v, NEW w, NEW n, \A i \in 1 .. n : FileAt(v, i) = FileAt(w, i)
    PROVE  Filed(v, n) = Filed(w, n)
  <1>1. [i \in 1 .. n |-> Records(FileAt(v, i))] = [i \in 1 .. n |-> Records(FileAt(w, i))]
    OBVIOUS
  <1> QED BY <1>1 DEF Filed, FileAt

\* Each file begins in the log where the files before it end.
LEMMA FiledInLog ==
    ASSUME NEW T, NEW w, WriterOK(w, T), NEW n \in 0 .. Len(w.lines)
    PROVE  \E t \in Seq(Cycles(T)) : IndexLog(w) = Filed(w, n) \o t
  <1> DEFINE L == Len(w.lines)
             U == Cycles(T)
             S == {k \in 0 .. L - n :
                     \E t \in Seq(U) : Filed(w, n + k) = Filed(w, n) \o t}
  <1>1. /\ L \in Nat /\ n \in Nat /\ n <= L
        /\ \A i \in 1 .. L : Records(FileAt(w, i)) \in Seq(U)
        /\ \A k \in 0 .. L : Filed(w, k) \in Seq(U)
        /\ \A k \in 0 .. L - 1 :
              Filed(w, k + 1) = Filed(w, k) \o Records(FileAt(w, k + 1))
        /\ Records(w.data) \in Seq(U)
    BY FiledOK
  <1> HIDE DEF L, U
  <1>2. 0 \in S
    <2>1. Filed(w, n) \in Seq(U) /\ <<>> \in Seq(U)
      BY <1>1, EmptySeq
    <2>2. n + 0 = n /\ Filed(w, n) = Filed(w, n) \o <<>>
      <3>1. n + 0 = n
        BY <1>1
      <3>2. Filed(w, n) \o <<>> = Filed(w, n)
        BY <2>1, ConcatEmptySeq
      <3> QED BY <3>1, <3>2
    <2>3. 0 \in 0 .. L - n
      BY <1>1
    <2> DEFINE none == <<>>
    <2>4. none \in Seq(U) /\ Filed(w, n + 0) = Filed(w, n) \o none
      BY <2>1, <2>2
    <2> HIDE DEF none
    <2> QED BY <2>3, <2>4
  <1>3. ASSUME NEW k \in 0 .. L - n - 1, k \in S PROVE k + 1 \in S
    <2>1. PICK t \in Seq(U) : Filed(w, n + k) = Filed(w, n) \o t
      BY <1>3
    <2> DEFINE r == Records(FileAt(w, n + k + 1))
    <2>2. /\ n + k \in 0 .. L - 1 /\ n + k + 1 \in 1 .. L /\ n + (k + 1) = n + k + 1
          /\ k + 1 \in 0 .. L - n
      BY <1>1
    <2>3. r \in Seq(U) /\ Filed(w, n) \in Seq(U)
      BY <1>1, <2>2
    <2>4. Filed(w, n + k + 1) = Filed(w, n + k) \o r
      BY <1>1, <2>2
    <2> HIDE DEF r
    <2>5. (Filed(w, n) \o t) \o r = Filed(w, n) \o (t \o r) /\ t \o r \in Seq(U)
      BY <2>3, ConcatAssociative, ConcatProperties, SMTT(30)
    <2> QED BY <2>1, <2>2, <2>4, <2>5
  <1> HIDE DEF S
  <1>4. L - n \in S
    <2>1. L - n \in Nat
      BY <1>1
    <2>2. 0 .. L - n \subseteq S
      BY <1>2, <1>3, <2>1, UpTo
    <2> QED BY <2>1, <2>2
  <1>5. PICK t \in Seq(U) : Filed(w, L) = Filed(w, n) \o t
    <2>1. n + (L - n) = L
      BY <1>1
    <2> QED BY <1>4, <2>1 DEF S
  <1>6. IndexLog(w) = (Filed(w, n) \o t) \o Records(w.data)
    BY <1>5 DEF IndexLog, L
  <1>7. /\ (Filed(w, n) \o t) \o Records(w.data) = Filed(w, n) \o (t \o Records(w.data))
        /\ t \o Records(w.data) \in Seq(U)
    <2> DEFINE r == Records(w.data)
               s == Filed(w, n)
    <2>1. r \in Seq(U) /\ s \in Seq(U)
      BY <1>1
    <2> HIDE DEF r, s
    <2>2. (s \o t) \o r = s \o (t \o r) /\ t \o r \in Seq(U)
      BY <2>1, ConcatAssociative, ConcatProperties
    <2> QED BY <2>2 DEF r, s
  <1> QED BY <1>6, <1>7 DEF U

\* FlushData moves the records of the buffer into a file of their own.
LEMMA Flushed ==
    ASSUME NEW T, NEW w, WriterOK(w, T), MaxFileSize \in Nat
    PROVE  LET v == FlushData(w)
           IN  /\ WriterOK(v, T)
               /\ v.data = <<>> /\ v.count = 0
               /\ IndexLog(v) = IndexLog(w)
  <1> DEFINE v == FlushData(w)
             L == Len(w.lines)
             line == [path |-> w.fileCount, cycle |-> w.count]
             U == Cycles(T)
             Line == [path : Nat, cycle : Nat]
  <1>1. /\ w = [data |-> w.data, count |-> w.count, fileCount |-> w.fileCount,
                files |-> w.files, lines |-> w.lines]
        /\ w.data \in Seq(T) /\ w.count \in Nat /\ w.fileCount \in Nat
        /\ w.files \in [0 .. w.fileCount - 1 -> Seq(T)]
        /\ w.lines \in Seq(Line) /\ L \in Nat
        /\ line \in Line
    BY LenProperties DEF WriterOK
  <1>2. Records(<<>>) = <<>> /\ Whole(<<>>, 0, T) /\ Len(<<>>) = 0
    BY EmptyCut, EmptySeq DEF Whole
  <1>3. w.count = 0 <=> w.data = <<>>
    BY WholeRecords DEF WriterOK
  <1>4. CASE w.data = <<>>
    <2>1. v = w
      BY <1>4 DEF FlushData
    <2> QED BY <1>3, <1>4, <2>1
  <1>5. CASE w.data # <<>>
    <2>1. v = [data |-> <<>>, count |-> 0, fileCount |-> w.fileCount + 1,
               files |-> WithFile(w.files, w.fileCount, w.data),
               lines |-> Append(w.lines, line)]
      BY <1>1, <1>5 DEF FlushData
    <2> HIDE DEF v, line
    <2>2. /\ v.files \in [0 .. v.fileCount - 1 -> Seq(T)]
          /\ v.files[w.fileCount] = w.data
          /\ \A p \in 0 .. w.fileCount - 1 : v.files[p] = w.files[p]
      BY <1>1, <2>1, SMTT(30) DEF WithFile
    <2>3. /\ v.lines \in Seq(Line) /\ Len(v.lines) = L + 1
          /\ \A i \in 1 .. L : v.lines[i] = w.lines[i]
          /\ v.lines[L + 1] = line
      <3> HIDE DEF Line
      <3>1. v.lines = Append(w.lines, line)
        BY <2>1
      <3> QED BY <1>1, <3>1, AppendProperties
    <2>4. /\ v \in [data : Seq(T), count : Nat, fileCount : Nat,
                    files : [0 .. v.fileCount - 1 -> Seq(T)],
                    lines : Seq([path : Nat, cycle : Nat])]
      <3>1. v.data \in Seq(T) /\ v.count \in Nat /\ v.fileCount \in Nat
        BY <1>1, <2>1, EmptySeq
      <3>2. v = [data |-> v.data, count |-> v.count, fileCount |-> v.fileCount,
                 files |-> v.files, lines |-> v.lines]
        BY <2>1
      <3> QED BY <2>2, <2>3, <3>1, <3>2
    <2>5. ASSUME NEW i \in 1 .. L
          PROVE  v.lines[i].path = w.lines[i].path /\ FileAt(v, i) = FileAt(w, i)
      <3>1. w.lines[i].path \in 0 .. w.fileCount - 1
        BY DEF WriterOK
      <3> QED BY <2>2, <2>3, <3>1 DEF FileAt
    <2>6. /\ v.lines[L + 1].path = w.fileCount /\ FileAt(v, L + 1) = w.data
          /\ v.lines[L + 1].cycle = w.count
      BY <2>2, <2>3 DEF FileAt, line
    <2>7. WriterOK(v, T)
      <3>1. ASSUME NEW i \in 1 .. Len(v.lines)
            PROVE  /\ v.lines[i].path \in 0 .. v.fileCount - 1
                   /\ v.lines[i].cycle > 0
                   /\ Whole(FileAt(v, i), v.lines[i].cycle, T)
        <4>1. CASE i \in 1 .. L
          <5>1. /\ w.lines[i].path \in 0 .. w.fileCount - 1
                /\ w.lines[i].cycle > 0
                /\ Whole(FileAt(w, i), w.lines[i].cycle, T)
            BY <4>1 DEF WriterOK
          <5>2. v.fileCount = w.fileCount + 1 /\ v.lines[i] = w.lines[i]
                /\ FileAt(v, i) = FileAt(w, i)
            BY <2>1, <2>3, <2>5, <4>1
          <5>3. v.lines[i].path \in 0 .. v.fileCount - 1
            <6>1. PICK n \in Nat : n = w.fileCount
              BY <1>1
            <6>2. v.lines[i].path \in 0 .. n - 1 /\ v.fileCount = n + 1
              BY <5>1, <5>2, <6>1
            <6> QED BY <6>1, <6>2
          <5> QED BY <5>1, <5>2, <5>3
        <4>2. CASE i = L + 1
          <5>1. Whole(w.data, w.count, T)
            BY DEF WriterOK
          <5>2. v.fileCount = w.fileCount + 1 /\ w.count > 0
            BY <1>1, <1>3, <1>5, <2>1
          <5>3. v.lines[i].path \in 0 .. v.fileCount - 1
            BY <1>1, <2>6, <4>2, <5>2
          <5> QED BY <2>6, <4>2, <5>1, <5>2, <5>3
        <4> QED BY <1>1, <2>3, <4>1, <4>2
      <3>2. Whole(v.data, v.count, T) /\ Len(v.data) <= MaxFileSize
        BY <1>2, <2>1
      <3> QED BY <2>4, <3>1, <3>2 DEF WriterOK
    <2>8. IndexLog(v) = IndexLog(w)
      <3>1. Filed(v, L) = Filed(w, L)
        BY <2>5, SameFiles
      <3>2. Filed(v, L + 1) = Filed(v, L) \o Records(FileAt(v, L + 1))
        <4>1. \A k \in 0 .. Len(v.lines) - 1 :
                 Filed(v, k + 1) = Filed(v, k) \o Records(FileAt(v, k + 1))
          BY <2>7, FiledOK
        <4>2. L \in 0 .. Len(v.lines) - 1
          BY <1>1, <2>3
        <4> QED BY <4>1, <4>2
      <3>3. Filed(v, Len(v.lines)) = IndexLog(w)
        BY <2>3, <2>6, <3>1, <3>2 DEF IndexLog
      <3>4. IndexLog(w) \in Seq(U)
        BY FiledOK
      <3>5. IndexLog(v) = IndexLog(w) \o <<>>
        BY <1>2, <2>1, <3>3 DEF IndexLog
      <3> HIDE DEF U
      <3> QED BY <3>4, <3>5, ConcatEmptySeq
    <2> QED BY <2>1, <2>7, <2>8 DEF v
  <1> QED BY <1>4, <1>5

\* Write adds one record to the log, whether or not it flushes first.
LEMMA Written ==
    ASSUME NEW T, NEW w, WriterOK(w, T), MaxFileSize \in Nat,
           NEW r, IsRecord(r, T), Len(r) <= MaxFileSize
    PROVE  /\ WriterOK(Write(w, r), T)
           /\ IndexLog(Write(w, r)) = Append(IndexLog(w), CycleOf(r))
  <1> DEFINE v == IF Len(w.data) + Len(r) > MaxFileSize THEN FlushData(w) ELSE w
             u == Write(w, r)
             U == Cycles(T)
  <1>1. r \in Seq(T) /\ Len(r) \in Nat /\ w.data \in Seq(T) /\ Len(w.data) \in Nat
    BY LenProperties DEF IsRecord, WriterOK
  <1>2. /\ WriterOK(v, T) /\ IndexLog(v) = IndexLog(w)
        /\ Len(v.data) + Len(r) <= MaxFileSize
    <2>1. CASE Len(w.data) + Len(r) > MaxFileSize
      <3>1. v = FlushData(w)
        BY <2>1
      <3> HIDE DEF v
      <3>2. WriterOK(v, T) /\ v.data = <<>> /\ IndexLog(v) = IndexLog(w)
        BY <3>1, Flushed
      <3>3. Len(<<>>) = 0
        BY EmptySeq
      <3> QED BY <1>1, <3>2, <3>3
    <2>2. CASE ~(Len(w.data) + Len(r) > MaxFileSize)
      BY <1>1, <2>2
    <2> QED BY <2>1, <2>2
  <1>3. u = [v EXCEPT !.data = @ \o r, !.count = @ + 1]
    BY DEF Write
  <1> HIDE DEF v, u
  <1>4. /\ v \in [data : Seq(T), count : Nat, fileCount : Nat,
                  files : [0 .. v.fileCount - 1 -> Seq(T)],
                  lines : Seq([path : Nat, cycle : Nat])]
        /\ Len(v.data) \in Nat
        /\ v.data \o r \in Seq(T) /\ Len(v.data \o r) = Len(v.data) + Len(r)
    BY <1>1, <1>2, LenProperties, ConcatProperties DEF WriterOK
  <1>5. /\ u.data = v.data \o r /\ u.count = v.count + 1
        /\ u.fileCount = v.fileCount /\ u.files = v.files /\ u.lines = v.lines
        /\ u = [data |-> u.data, count |-> u.count, fileCount |-> u.fileCount,
                files |-> u.files, lines |-> u.lines]
    BY <1>3, <1>4
  <1>6. /\ Whole(u.data, u.count, T)
        /\ Records(u.data) = Append(Records(v.data), CycleOf(r))
    <2>1. v.data \in Seq(T) /\ v.count \in Nat
      BY <1>4
    <2>2. PICK e : Cut(v.data, v.count, e)
      BY <1>2 DEF WriterOK, Whole
    <2>3. /\ \E f : Cut(v.data \o r, v.count + 1, f)
          /\ Records(v.data \o r) = Append(Records(v.data), CycleOf(r))
      BY <2>1, <2>2, CutConcat
    <2> QED BY <1>4, <1>5, <2>1, <2>3 DEF Whole
  <1>7. \A i : FileAt(u, i) = FileAt(v, i)
    BY <1>5 DEF FileAt
  <1>8. WriterOK(u, T)
    <2>1. u \in [data : Seq(T), count : Nat, fileCount : Nat,
                 files : [0 .. u.fileCount - 1 -> Seq(T)],
                 lines : Seq([path : Nat, cycle : Nat])]
      <3>1. u.data \in Seq(T) /\ u.count \in Nat /\ u.fileCount \in Nat
        BY <1>4, <1>5
      <3>2. u.files \in [0 .. u.fileCount - 1 -> Seq(T)]
            /\ u.lines \in Seq([path : Nat, cycle : Nat])
        BY <1>4, <1>5
      <3> QED BY <1>5, <3>1, <3>2
    <2>2. Len(u.data) <= MaxFileSize
      BY <1>2, <1>4, <1>5
    <2> QED BY <1>2, <1>5, <1>6, <1>7, <2>1, <2>2 DEF WriterOK
  <1>9. IndexLog(u) = Append(IndexLog(v), CycleOf(r))
    <2> DEFINE s == Filed(v, Len(v.lines))
               t == Records(v.data)
               c == CycleOf(r)
    <2>1. s \in Seq(U) /\ t \in Seq(U)
      <3>1. Len(v.lines) \in 0 .. Len(v.lines)
        <4>1. Len(v.lines) \in Nat
          BY <1>2, FiledOK
        <4> QED BY <4>1
      <3> QED BY <1>2, <3>1, FiledOK
    <2>2. c \in U
      BY <1>1 DEF Cycles
    <2>3. Filed(u, Len(u.lines)) = s
      BY <1>5, <1>7, SameFiles
    <2>4. IndexLog(u) = s \o Append(t, c)
      BY <1>6, <2>3 DEF IndexLog
    <2>5. IndexLog(v) = s \o t
      BY DEF IndexLog
    <2> HIDE DEF s, t, c, U
    <2>6. s \o Append(t, c) = Append(s \o t, c)
      BY <2>1, <2>2, AppendIsConcat, ConcatAssociative, ConcatProperties
    <2> QED BY <2>4, <2>5, <2>6 DEF c
  <1> QED BY <1>2, <1>8, <1>9 DEF u

\* What an end of the process that skips the destructor leaves of the files.
LEMMA Dropped ==
    ASSUME NEW T, NEW w, WriterOK(w, T), MaxFileSize \in Nat,
           NEW n \in 0 .. Len(w.lines),
           NEW v, v = [w EXCEPT !.data = <<>>, !.count = 0,
                                !.lines = SubSeq(w.lines, 1, n)]
    PROVE  /\ WriterOK(v, T)
           /\ v.data = <<>> /\ v.count = 0
           /\ IsPrefix(IndexLog(v), IndexLog(w))
  <1> DEFINE Line == [path : Nat, cycle : Nat]
             U == Cycles(T)
  <1>1. /\ w = [data |-> w.data, count |-> w.count, fileCount |-> w.fileCount,
                files |-> w.files, lines |-> w.lines]
        /\ w.fileCount \in Nat
        /\ w.files \in [0 .. w.fileCount - 1 -> Seq(T)]
        /\ w.lines \in Seq(Line) /\ Len(w.lines) \in Nat
    BY LenProperties DEF WriterOK
  <1>2. /\ v.data = <<>> /\ v.count = 0 /\ v.fileCount = w.fileCount
        /\ v.files = w.files /\ v.lines = SubSeq(w.lines, 1, n)
        /\ v = [data |-> v.data, count |-> v.count, fileCount |-> v.fileCount,
                files |-> v.files, lines |-> v.lines]
    BY <1>1
  <1>3. /\ v.lines \in Seq(Line) /\ Len(v.lines) = n
        /\ \A i \in 1 .. n : v.lines[i] = w.lines[i]
    <2>1. \A i \in 1 .. n : w.lines[i] \in Line
      <3> HIDE DEF Line
      <3> QED BY <1>1, ElementOfSeq
    <2>2. IF 1 <= n THEN n - 1 + 1 = n ELSE n = 0
      BY <1>1
    <2>3. \A i \in 1 .. n : 1 + i - 1 = i
      BY <1>1
    <2> HIDE DEF Line
    <2>4. /\ SubSeq(w.lines, 1, n) \in Seq(Line)
          /\ Len(SubSeq(w.lines, 1, n)) = n
          /\ \A i \in 1 .. n : SubSeq(w.lines, 1, n)[i] = w.lines[i]
      BY <1>1, <2>1, <2>2, <2>3, SubSeqProperties
    <2> QED BY <1>2, <2>4
  <1>4. \A i \in 1 .. n : FileAt(v, i) = FileAt(w, i)
    BY <1>2, <1>3 DEF FileAt
  <1>5. Records(<<>>) = <<>> /\ Whole(<<>>, 0, T) /\ Len(<<>>) = 0
    BY EmptyCut, EmptySeq DEF Whole
  <1>6. WriterOK(v, T)
    <2>1. v \in [data : Seq(T), count : Nat, fileCount : Nat,
                 files : [0 .. v.fileCount - 1 -> Seq(T)],
                 lines : Seq([path : Nat, cycle : Nat])]
      <3>1. v.data \in Seq(T) /\ v.count \in Nat /\ v.fileCount \in Nat
        BY <1>1, <1>2, EmptySeq
      <3> QED BY <1>1, <1>2, <1>3, <3>1
    <2>2. ASSUME NEW i \in 1 .. Len(v.lines)
          PROVE  /\ v.lines[i].path \in 0 .. v.fileCount - 1
                 /\ v.lines[i].cycle > 0
                 /\ Whole(FileAt(v, i), v.lines[i].cycle, T)
      <3>1. i \in 1 .. n /\ i \in 1 .. Len(w.lines)
        BY <1>1, <1>3
      <3> QED BY <1>2, <1>3, <1>4, <3>1 DEF WriterOK
    <2>3. Whole(v.data, v.count, T) /\ Len(v.data) <= MaxFileSize
      BY <1>2, <1>5
    <2> QED BY <2>1, <2>2, <2>3 DEF WriterOK
  <1>7. IsPrefix(IndexLog(v), IndexLog(w))
    <2>1. Filed(v, n) = Filed(w, n)
      BY <1>4, SameFiles
    <2>2. Filed(w, n) \in Seq(U)
      BY FiledOK
    <2>3. IndexLog(v) = Filed(w, n)
      <3>1. IndexLog(v) = Filed(w, n) \o <<>>
        BY <1>2, <1>3, <1>5, <2>1 DEF IndexLog
      <3> HIDE DEF U
      <3> QED BY <2>2, <3>1, ConcatEmptySeq
    <2>4. PICK t \in Seq(U) : IndexLog(w) = Filed(w, n) \o t
      BY FiledInLog
    <2> DEFINE s == Filed(w, n)
    <2> HIDE DEF s, U
    <2>5. IsPrefix(s, s \o t)
      BY <2>2, PrefixOfConcat DEF s
    <2> QED BY <2>3, <2>4, <2>5 DEF s
  <1> QED BY <1>2, <1>6, <1>7

-----------------------------------------------------------------------------
(* The reader stands in front of a record or behind the last one, and its  *)
(* cycle counts the records of the files in front of it.                   *)

Readers == [entry : Nat, offset : Nat, cycle : Nat]

Standing(r, k, e) ==
    LET n == Entries[r.entry].cycle
    IN  /\ Cut(FileOf(r), n, e)
        /\ k \in 0 .. n - 1
        /\ r.offset = e[k]
        /\ r.cycle = Len(Filed(writer, r.entry - 1)) + k

ReaderOK(r) ==
    /\ r \in Readers /\ r.entry \in 1 .. Len(Entries) + 1
    /\ IsEnd(r) => r.offset = 0 /\ r.cycle = Len(Filed(writer, Len(Entries)))
    /\ ~IsEnd(r) => \E k, e : Standing(r, k, e)

\* The facts about the files that the lemmas on the reader need.
LEMMA Index ==
    ASSUME NEW T, WriterOK(writer, T)
    PROVE  /\ Len(Entries) \in Nat
           /\ Len(Filed(writer, 0)) = 0
           /\ \A i \in 0 .. Len(Entries) : Len(Filed(writer, i)) \in Nat
           /\ \A i \in 1 .. Len(Entries) :
                 /\ Entries[i].cycle \in Nat /\ Entries[i].cycle > 0
                 /\ Whole(FileAt(writer, i), Entries[i].cycle, T)
                 /\ Len(FileAt(writer, i)) \in Nat
                 /\ Len(Filed(writer, i))
                       = Len(Filed(writer, i - 1)) + Entries[i].cycle
  <1> DEFINE L == Len(Entries)
             U == Cycles(T)
  <1>1. /\ L \in Nat
        /\ \A i \in 1 .. L : /\ Records(FileAt(writer, i)) \in Seq(U)
                             /\ Len(Records(FileAt(writer, i))) = Entries[i].cycle
        /\ Filed(writer, 0) = <<>>
        /\ \A k \in 0 .. L : Filed(writer, k) \in Seq(U)
        /\ \A k \in 0 .. L - 1 : Filed(writer, k + 1)
                 = Filed(writer, k) \o Records(FileAt(writer, k + 1))
    BY FiledOK DEF Entries
  <1>2. \A i \in 1 .. L : /\ Entries[i].cycle > 0
                          /\ Whole(FileAt(writer, i), Entries[i].cycle, T)
                          /\ Entries[i].cycle \in Nat
                          /\ Len(FileAt(writer, i)) \in Nat
    BY LenProperties DEF WriterOK, Entries, Whole
  <1> HIDE DEF L, U
  <1>3. ASSUME NEW k \in 0 .. L PROVE Len(Filed(writer, k)) \in Nat
    <2>1. Filed(writer, k) \in Seq(U)
      BY <1>1
    <2> QED BY <2>1, LenProperties
  <1>4. ASSUME NEW i \in 1 .. L
        PROVE  Len(Filed(writer, i)) = Len(Filed(writer, i - 1)) + Entries[i].cycle
    <2>1. PICK k \in 0 .. L - 1 : k = i - 1
      BY <1>1
    <2>2. /\ Filed(writer, k) \in Seq(U) /\ Records(FileAt(writer, i)) \in Seq(U)
          /\ Filed(writer, k + 1) = Filed(writer, k) \o Records(FileAt(writer, k + 1))
      <3>1. k \in 0 .. L
        BY <1>1
      <3> QED BY <1>1, <3>1
    <2>3. k + 1 = i
      BY <2>1
    <2>4. Filed(writer, i) = Filed(writer, k) \o Records(FileAt(writer, i))
      BY <2>2, <2>3
    <2> DEFINE s == Filed(writer, k)
               t == Records(FileAt(writer, i))
    <2>5. s \in Seq(U) /\ t \in Seq(U)
      BY <2>2
    <2> HIDE DEF s, t
    <2>6. Len(s \o t) = Len(s) + Len(t)
      BY <2>5, ConcatProperties
    <2> QED BY <1>1, <2>1, <2>4, <2>6 DEF s, t
  <1>5. Len(Filed(writer, 0)) = 0
    BY <1>1, EmptySeq
  <1> QED BY <1>1, <1>2, <1>3, <1>4, <1>5 DEF L

\* The files in front of an entry never hold more records than the log.
LEMMA FiledGrows ==
    ASSUME NEW T, WriterOK(writer, T), NEW i \in 0 .. Len(Entries),
           NEW j \in 0 .. Len(Entries), i <= j
    PROVE  Len(Filed(writer, i)) <= Len(Filed(writer, j))
  <1> DEFINE L == Len(Entries)
             F(k) == Len(Filed(writer, k))
             S == {k \in 0 .. L - i : F(i) <= F(i + k)}
  <1>1. L \in Nat /\ \A k \in 0 .. L : F(k) \in Nat
    BY Index
  <1>2. \A k \in 1 .. L : F(k) = F(k - 1) + Entries[k].cycle /\ Entries[k].cycle \in Nat
    BY Index
  <1> HIDE DEF F, L
  <1>3. 0 \in S
    BY <1>1 DEF L
  <1>4. ASSUME NEW k \in 0 .. L - i - 1, k \in S PROVE k + 1 \in S
    <2>1. PICK m \in 1 .. L : m = i + k + 1
      BY <1>1 DEF L
    <2>2. F(m) = F(m - 1) + Entries[m].cycle /\ Entries[m].cycle \in Nat
          /\ F(m - 1) \in Nat /\ F(i) \in Nat /\ F(i) <= F(i + k)
      BY <1>1, <1>2, <1>4 DEF L
    <2>3. m - 1 = i + k /\ m = i + (k + 1) /\ k + 1 \in 0 .. L - i
      BY <1>1, <2>1 DEF L
    <2> QED BY <2>2, <2>3
  <1> HIDE DEF S
  <1>5. 0 .. L - i \subseteq S
    <2>1. L - i \in Nat
      BY <1>1 DEF L
    <2> QED BY <1>3, <1>4, <2>1, UpTo
  <1>6. j - i \in S /\ i + (j - i) = j
    BY <1>1, <1>5 DEF L
  <1> QED BY <1>6 DEF S, F

\* In front of the first record, or of the end of an empty index.
LEMMA AtFirst ==
    ASSUME NEW T, WriterOK(writer, T), NEW i \in 1 .. Len(Entries) + 1,
           NEW r, r = [entry |-> i, offset |-> 0,
                       cycle |-> Len(Filed(writer, i - 1))]
    PROVE  ReaderOK(r)
  <1>1. Len(Entries) \in Nat /\ i - 1 \in 0 .. Len(Entries)
    BY Index
  <1>2. r.cycle \in Nat
    BY <1>1, Index
  <1>3. CASE i = Len(Entries) + 1
    BY <1>1, <1>2, <1>3 DEF ReaderOK, Readers, IsEnd
  <1>4. CASE i # Len(Entries) + 1
    <2>1. i \in 1 .. Len(Entries)
      BY <1>1, <1>4
    <2>2. /\ Entries[i].cycle \in Nat /\ Entries[i].cycle > 0
          /\ Whole(FileAt(writer, i), Entries[i].cycle, T)
      BY <2>1, Index
    <2>3. PICK e : Cut(FileAt(writer, i), Entries[i].cycle, e)
      BY <2>2 DEF Whole
    <2>4. FileOf(r) = FileAt(writer, i)
      BY DEF FileOf, FileAt, Entries
    <2>5. Standing(r, 0, e)
      <3>1. e[0] = 0 /\ 0 \in 0 .. Entries[i].cycle - 1
        BY <2>2, <2>3 DEF Cut
      <3>2. r.cycle = Len(Filed(writer, r.entry - 1)) + 0
        BY <1>2
      <3>3. r.offset = e[0] /\ Entries[r.entry].cycle = Entries[i].cycle
        BY <3>1
      <3> QED BY <2>3, <2>4, <3>1, <3>2, <3>3 DEF Standing
    <2>6. \E k, f : Standing(r, k, f)
      BY <2>5
    <2>7. ~IsEnd(r)
      BY <1>4 DEF IsEnd
    <2>8. r \in Readers
      BY <1>1, <1>2 DEF Readers
    <2> QED BY <2>6, <2>7, <2>8 DEF ReaderOK
  <1> QED BY <1>3, <1>4

\* The reader shows the record of the log whose number it counts.
LEMMA ShowsLog ==
    ASSUME NEW T, WriterOK(writer, T), NEW r, ReaderOK(r), ~IsEnd(r)
    PROVE  /\ r.cycle \in 0 .. Len(Filed(writer, Len(Entries))) - 1
           /\ r.cycle + 1 \in 1 .. Len(Log)
           /\ GetCycle(r) = Log[r.cycle + 1]
           /\ GetCycle(r) \in Cycles(T)
  <1> DEFINE L == Len(Entries)
             U == Cycles(T)
             i == r.entry
             b == FileAt(writer, i)
             n == Entries[i].cycle
             s == Filed(writer, i - 1)
             g == Records(b)
  <1>1. i \in 1 .. L /\ i - 1 \in 0 .. L - 1 /\ L \in Nat
    <2>1. L \in Nat
      BY Index
    <2> QED BY <2>1 DEF ReaderOK, IsEnd
  <1>2. PICK k, e : Standing(r, k, e)
    BY DEF ReaderOK
  <1>3. /\ Cut(b, n, e) /\ k \in 0 .. n - 1 /\ r.offset = e[k]
        /\ r.cycle = Len(s) + k
    BY <1>2 DEF Standing, FileOf, FileAt, Entries
  <1>4. n \in Nat /\ Len(b) \in Nat
    BY <1>1, Index
  <1>5. EndOf(b, e[k]) = e[k + 1]
    BY <1>3, <1>4, CutEnd
  <1>6. GetCycle(r) = CycleOf(SubSeq(b, e[k] + 1, e[k + 1]))
    <2>1. FileOf(r) = b
      BY DEF FileOf, FileAt, Entries
    <2> HIDE DEF b
    <2> QED BY <1>3, <1>5, <2>1 DEF GetCycle, Parse
  <1>7. g = [m \in 1 .. n |-> CycleOf(SubSeq(b, e[m - 1] + 1, e[m]))]
    BY <1>3, <1>4, CutRecords
  <1>8. GetCycle(r) = g[k + 1]
    <2>1. PICK m \in 1 .. n : m = k + 1
      BY <1>3, <1>4
    <2>2. g[m] = CycleOf(SubSeq(b, e[m - 1] + 1, e[m]))
      BY <1>7, Zenon
    <2>3. m - 1 = k
      BY <1>3, <1>4, <2>1
    <2> HIDE DEF g, b, n
    <2> QED BY <1>6, <2>1, <2>2, <2>3
  <1>9. PICK t \in Seq(U) : Log = Filed(writer, i) \o t
    <2>1. i \in 0 .. Len(writer.lines)
      BY <1>1 DEF Entries
    <2> QED BY <2>1, FiledInLog DEF Log
  <1>10. Filed(writer, i) = s \o g /\ s \in Seq(U) /\ g \in Seq(U) /\ Len(g) = n
    <2>1. /\ \A j \in 1 .. L : /\ Records(FileAt(writer, j)) \in Seq(U)
                               /\ Len(Records(FileAt(writer, j))) = Entries[j].cycle
          /\ \A j \in 0 .. L : Filed(writer, j) \in Seq(U)
          /\ \A j \in 0 .. L - 1 : Filed(writer, j + 1)
                   = Filed(writer, j) \o Records(FileAt(writer, j + 1))
      BY FiledOK DEF Entries
    <2>2. PICK j \in 0 .. L - 1 : j = i - 1
      BY <1>1
    <2>3. j + 1 = i /\ j \in 0 .. L
      BY <1>1, <2>2
    <2>4. Filed(writer, j + 1) = Filed(writer, j) \o Records(FileAt(writer, j + 1))
      BY <2>1
    <2> HIDE DEF U, L
    <2> QED BY <1>1, <2>1, <2>2, <2>3, <2>4
  <1> HIDE DEF L, U, b, n, s, g, i
  <1>11. /\ Log = (s \o g) \o t /\ s \o g \in Seq(U)
         /\ Len(s \o g) = Len(s) + n /\ Len(s) \in Nat
    BY <1>9, <1>10, ConcatProperties, LenProperties
  <1>12. /\ Len(Log) = Len(s) + n + Len(t) /\ Len(t) \in Nat
         /\ \A j \in 1 .. Len(s) + n : Log[j] = (s \o g)[j]
    <2>1. Len(t) \in Nat
      BY LenProperties
    <2> DEFINE q == s \o g
    <2>2. q \in Seq(U)
      BY <1>11
    <2> HIDE DEF q
    <2>3. /\ Len(q \o t) = Len(q) + Len(t)
          /\ \A j \in 1 .. Len(q) + Len(t) :
                (q \o t)[j] = IF j <= Len(q) THEN q[j] ELSE t[j - Len(q)]
      BY <2>2, ConcatProperties
    <2>4. Log = q \o t /\ Len(q) = Len(s) + n
      BY <1>11 DEF q
    <2>5. \A j \in 1 .. Len(s) + n : Log[j] = q[j]
      BY <1>4, <1>11, <2>1, <2>3, <2>4
    <2> QED BY <2>1, <2>3, <2>4, <2>5 DEF q
  <1>13. Log[Len(s) + (k + 1)] = g[k + 1]
    <2>1. PICK j \in 1 .. Len(s) + n : j = Len(s) + (k + 1)
      BY <1>3, <1>4, <1>11, SMTT(30)
    <2>2. (s \o g)[j] = IF j <= Len(s) THEN s[j] ELSE g[j - Len(s)]
      <3>1. \A m \in 1 .. Len(s) + Len(g) :
               (s \o g)[m] = IF m <= Len(s) THEN s[m] ELSE g[m - Len(s)]
        BY <1>10, ConcatProperties
      <3> QED BY <1>10, <3>1
    <2>3. j - Len(s) = k + 1 /\ ~(j <= Len(s))
      BY <1>3, <1>4, <1>11, <2>1
    <2>4. Log[j] = (s \o g)[j]
      BY <1>12
    <2> QED BY <2>1, <2>2, <2>3, <2>4
  <1>14. r.cycle \in Nat /\ r.cycle + 1 = Len(s) + (k + 1)
         /\ r.cycle + 1 \in 1 .. Len(s) + n
    BY <1>3, <1>4, <1>11
  <1>15. r.cycle + 1 \in 1 .. Len(Log)
    BY <1>4, <1>11, <1>12, <1>14
  <1>16. g[k + 1] \in U
    <2>1. k + 1 \in 1 .. Len(g)
      BY <1>3, <1>4, <1>10
    <2> QED BY <1>10, <2>1, ElementOfSeq
  <1>17. r.cycle \in 0 .. Len(Filed(writer, L)) - 1
    <2>1. Len(Filed(writer, i)) = Len(s) + n
      BY <1>10, <1>11
    <2>2. /\ Len(Filed(writer, i)) <= Len(Filed(writer, L))
          /\ Len(Filed(writer, L)) \in Nat
      <3>1. i \in 0 .. L /\ L \in 0 .. L /\ i <= L
        BY <1>1
      <3> QED BY <3>1, FiledGrows, Index DEF L
    <2> QED BY <1>4, <1>11, <1>14, <2>1, <2>2
  <1> QED BY <1>8, <1>13, <1>14, <1>15, <1>16, <1>17 DEF U, L

\* Next moves it by one record, from the last of a file to the next file.
LEMMA NextMoves ==
    ASSUME NEW T, WriterOK(writer, T), NEW r, ReaderOK(r), ~IsEnd(r)
    PROVE  ReaderOK(Next1(r)) /\ Next1(r).cycle = r.cycle + 1
  <1> DEFINE L == Len(Entries)
             i == r.entry
             b == FileAt(writer, i)
             n == Entries[i].cycle
             s == Filed(writer, i - 1)
             q == Next1(r)
  <1>1. i \in 1 .. L /\ i - 1 \in 0 .. L - 1 /\ L \in Nat
    <2>1. L \in Nat
      BY Index
    <2> QED BY <2>1 DEF ReaderOK, IsEnd
  <1>2. PICK k, e : Standing(r, k, e)
    BY DEF ReaderOK
  <1>3. /\ Cut(b, n, e) /\ k \in 0 .. n - 1 /\ r.offset = e[k]
        /\ r.cycle = Len(s) + k /\ FileOf(r) = b
    BY <1>2 DEF Standing, FileOf, FileAt, Entries
  <1>4. n \in Nat /\ Len(b) \in Nat /\ Len(s) \in Nat /\ Len(Filed(writer, i)) = Len(s) + n
    <2>1. i - 1 \in 0 .. L
      BY <1>1
    <2> QED BY <1>1, <2>1, Index
  <1>5. EndOf(b, e[k]) = e[k + 1]
    BY <1>3, <1>4, CutEnd
  <1>6. r \in Readers
    BY DEF ReaderOK
  <1> HIDE DEF b, n, s, i
  <1>7. q = IF e[k + 1] # Len(b)
            THEN [r EXCEPT !.offset = e[k + 1], !.cycle = @ + 1]
            ELSE [entry |-> i + 1, offset |-> 0, cycle |-> r.cycle + 1]
    BY <1>3, <1>5 DEF Next1, i
  <1> HIDE DEF q
  <1>8. /\ \A x, y \in 0 .. n : x < y => e[x] < e[y]
        /\ e[n] = Len(b) /\ \A x \in 0 .. n : e[x] \in 0 .. Len(b)
    BY <1>3 DEF Cut
  <1>9. CASE k + 1 < n
    <2>1. k + 1 \in 0 .. n - 1
      BY <1>3, <1>4, <1>9
    <2>2. e[k + 1] # Len(b) /\ e[k + 1] \in Nat
      BY <1>4, <1>8, <2>1
    <2>3. /\ q = [r EXCEPT !.offset = e[k + 1], !.cycle = @ + 1]
          /\ q.entry = i /\ q.offset = e[k + 1] /\ q.cycle = r.cycle + 1
          /\ q \in Readers
      <3> DEFINE x == e[k + 1]
      <3>1. q = [r EXCEPT !.offset = x, !.cycle = @ + 1] /\ x \in Nat
        BY <1>7, <2>2
      <3> HIDE DEF x
      <3>2. PICK m \in Nat, o \in Nat, c \in Nat :
                r = [entry |-> m, offset |-> o, cycle |-> c]
        BY <1>6 DEF Readers
      <3>3. q = [entry |-> m, offset |-> x, cycle |-> c + 1]
        <4>1. q = [[entry |-> m, offset |-> o, cycle |-> c]
                      EXCEPT !.offset = x, !.cycle = @ + 1]
          BY <3>1, <3>2, Zenon
        <4> QED BY <4>1
      <3>4. q.entry = i /\ q.offset = x /\ q.cycle = r.cycle + 1 /\ q \in Readers
        BY <3>1, <3>2, <3>3 DEF Readers, i
      <3> QED BY <3>1, <3>4 DEF x
    <2>4. q.cycle = Len(s) + (k + 1)
      BY <1>3, <1>4, <2>3
    <2>5. FileOf(q) = b /\ ~IsEnd(q) /\ Entries[q.entry].cycle = n
      BY <1>1, <2>3 DEF FileOf, FileAt, Entries, b, IsEnd, n
    <2>6. Standing(q, k + 1, e)
      BY <1>3, <2>1, <2>3, <2>4, <2>5 DEF Standing, s
    <2>7. \E m, f : Standing(q, m, f)
      BY <2>6
    <2>8. q.entry \in 1 .. L + 1
      BY <1>1, <2>3
    <2> QED BY <2>3, <2>5, <2>7, <2>8 DEF ReaderOK, q
  <1>10. CASE ~(k + 1 < n)
    <2>1. k + 1 = n
      BY <1>3, <1>4, <1>10
    <2>2. r.cycle + 1 = Len(Filed(writer, i))
      BY <1>3, <1>4, <2>1
    <2>3. i + 1 \in 1 .. L + 1 /\ i + 1 - 1 = i
      BY <1>1
    <2>4. q = [entry |-> i + 1, offset |-> 0, cycle |-> Len(Filed(writer, i + 1 - 1))]
      BY <1>7, <1>8, <2>1, <2>2, <2>3
    <2>5. ReaderOK(q)
      <3>1. PICK j \in 1 .. L + 1 : j = i + 1
        BY <2>3
      <3>2. j - 1 = i
        BY <1>1, <3>1 DEF i
      <3>3. q = [entry |-> j, offset |-> 0, cycle |-> r.cycle + 1]
        BY <1>7, <1>8, <2>1, <3>1
      <3>4. q = [entry |-> j, offset |-> 0, cycle |-> Len(Filed(writer, j - 1))]
        BY <2>2, <3>2, <3>3
      <3> QED BY <3>4, AtFirst
    <2> QED BY <2>2, <2>3, <2>4, <2>5 DEF q
  <1> QED BY <1>9, <1>10

\* Two sums of the same numbers are the same.
Sums(f, h, n) == f[0] = 0 /\ \A k \in 1 .. n : f[k] = f[k - 1] + h[k]

LEMMA SameSums ==
    ASSUME NEW n \in Nat, NEW h, NEW f, NEW g, Sums(f, h, n), Sums(g, h, n)
    PROVE  \A k \in 0 .. n : f[k] = g[k]
  <1> DEFINE S == {k \in 0 .. n : f[k] = g[k]}
  <1>0. f[0] = g[0] /\ \A k \in 1 .. n : /\ f[k] = f[k - 1] + h[k]
                                         /\ g[k] = g[k - 1] + h[k]
    BY DEF Sums
  <1>1. 0 \in S
    BY <1>0
  <1>2. ASSUME NEW k \in 0 .. n - 1, k \in S PROVE k + 1 \in S
    <2>1. PICK m \in 1 .. n : m = k + 1
      OBVIOUS
    <2>2. f[m] = f[m - 1] + h[m] /\ g[m] = g[m - 1] + h[m] /\ m - 1 = k
      BY <1>0, <2>1
    <2>3. f[m] = g[m]
      BY <1>2, <2>2
    <2> QED BY <2>1, <2>3
  <1> HIDE DEF S
  <1>3. 0 .. n \subseteq S
    BY <1>1, <1>2, UpTo
  <1> QED BY <1>3 DEF S

\* The sums of the counts in the index are the records of the files.
LEMMA CountsBefore ==
    ASSUME NEW T, WriterOK(writer, T), NEW i \in 1 .. Len(Entries) + 1
    PROVE  CyclesBefore(i) = Len(Filed(writer, i - 1))
  <1> DEFINE L == Len(Entries)
             h == [k \in 1 .. L |-> Entries[k].cycle]
             g == [k \in 0 .. L |-> Len(Filed(writer, k))]
             Sum(f) == f = [k \in 0 .. L |-> IF k = 0 THEN 0
                                             ELSE f[k - 1] + Entries[k].cycle]
             s == CHOOSE f : Sum(f)
  <1>1. /\ L \in Nat /\ g[0] = 0 /\ i - 1 \in 0 .. L
        /\ \A k \in 1 .. L : g[k] = g[k - 1] + Entries[k].cycle
    BY Index
  <1>2. Sum(g)
    <2>1. g = [k \in 0 .. L |-> g[k]]
      OBVIOUS
    <2>2. \A k \in 0 .. L : k # 0 => k \in 1 .. L
      BY <1>1
    <2> HIDE DEF g
    <2> QED BY <1>1, <2>1, <2>2
  <1>3. Sum(s)
    BY <1>2
  <1>4. CyclesBefore(i) = s[i - 1]
    BY DEF CyclesBefore
  <1> HIDE DEF s
  <1>5. s[0] = 0 /\ \A k \in 1 .. L : s[k] = s[k - 1] + h[k]
    <2>1. \A k \in 0 .. L : s[k] = IF k = 0 THEN 0 ELSE s[k - 1] + Entries[k].cycle
      BY <1>3, Zenon
    <2>2. 0 \in 0 .. L
      BY <1>1
    <2>3. \A k \in 1 .. L : k \in 0 .. L /\ k # 0 /\ h[k] = Entries[k].cycle
      BY <1>1
    <2> HIDE DEF h
    <2> QED BY <2>1, <2>2, <2>3
  <1>6. \A k \in 1 .. L : g[k] = g[k - 1] + h[k]
    BY <1>1
  <1>7. g[i - 1] = Len(Filed(writer, i - 1))
    BY <1>1
  <1> HIDE DEF g, h, L
  <1>8. \A k \in 0 .. L : s[k] = g[k]
    <2>1. Sums(s, h, L) /\ Sums(g, h, L) /\ L \in Nat
      BY <1>1, <1>5, <1>6 DEF Sums
    <2> QED BY <2>1, SameSums
  <1> QED BY <1>1, <1>4, <1>7, <1>8

\* The records in front of the reader are those that it has counted.
LEMMA PositionIsCycle ==
    ASSUME NEW T, WriterOK(writer, T), ReaderOK(reader), Reading
    PROVE  Position = reader.cycle
  <1> DEFINE L == Len(Entries)
             Marks(k) == Breaks(writer.files[Entries[k].path], 0)
             h == [k \in 1 .. L |-> Cardinality(Marks(k))]
             g == [k \in 0 .. L |-> Len(Filed(writer, k))]
             Sum(f) == f = [k \in 0 .. L |-> IF k = 0 THEN 0
                                             ELSE f[k - 1] + Cardinality(Marks(k))]
             s == CHOOSE f : Sum(f)
             i == reader.entry
  <1>1. /\ L \in Nat /\ g[0] = 0 /\ i - 1 \in 0 .. L /\ i \in 1 .. L + 1
        /\ \A k \in 1 .. L : g[k] = g[k - 1] + Entries[k].cycle
    BY Index DEF ReaderOK
  <1>2. ASSUME NEW k \in 1 .. L PROVE Cardinality(Marks(k)) = Entries[k].cycle
    <2>1. Whole(FileAt(writer, k), Entries[k].cycle, T)
      BY Index
    <2>2. PICK e : Cut(FileAt(writer, k), Entries[k].cycle, e)
      BY <2>1 DEF Whole
    <2>3. Entries[k].cycle \in Nat /\ 0 \in 0 .. Entries[k].cycle
      BY <2>1 DEF Whole
    <2>4. Cardinality(Breaks(FileAt(writer, k), 0)) = Entries[k].cycle
      BY <2>2, <2>3, CutBreaks
    <2> QED BY <2>4 DEF FileAt, Entries
  <1>3. \A k \in 1 .. L : g[k] = g[k - 1] + Cardinality(Marks(k))
    BY <1>1, <1>2
  <1>4. Sum(g)
    <2>1. g = [k \in 0 .. L |-> g[k]]
      OBVIOUS
    <2>2. \A k \in 0 .. L : k # 0 => k \in 1 .. L
      BY <1>1
    <2> HIDE DEF g, Marks
    <2> QED BY <1>1, <1>3, <2>1, <2>2
  <1>5. Sum(s)
    BY <1>4
  <1>6. Position = s[i - 1] + IF IsEnd(reader) THEN 0
                   ELSE Cardinality({x \in Marks(i) : x <= reader.offset})
    BY DEF Position
  <1> HIDE DEF s
  <1>7. s[0] = 0 /\ \A k \in 1 .. L : s[k] = s[k - 1] + h[k]
    <2>1. \A k \in 0 .. L : s[k] = IF k = 0 THEN 0 ELSE s[k - 1] + Cardinality(Marks(k))
      BY <1>5, Zenon
    <2>2. 0 \in 0 .. L
      BY <1>1
    <2>3. \A k \in 1 .. L : k \in 0 .. L /\ k # 0 /\ h[k] = Cardinality(Marks(k))
      BY <1>1
    <2> HIDE DEF h, Marks
    <2> QED BY <2>1, <2>2, <2>3
  <1>8. \A k \in 1 .. L : g[k] = g[k - 1] + h[k]
    BY <1>3
  <1>9. g[i - 1] = Len(Filed(writer, i - 1)) /\ g[i - 1] \in Nat
    BY <1>1, Index
  <1> HIDE DEF g, h
  <1>10. s[i - 1] = g[i - 1]
    <2>1. \A k \in 0 .. L : s[k] = g[k]
      <3>1. Sums(s, h, L) /\ Sums(g, h, L) /\ L \in Nat
        BY <1>1, <1>7, <1>8 DEF Sums
      <3> QED BY <3>1, SameSums
    <2> QED BY <1>1, <2>1
  <1>11. CASE IsEnd(reader)
    <2>1. i - 1 = L /\ reader.cycle = Len(Filed(writer, L))
      BY <1>1, <1>11 DEF IsEnd, ReaderOK
    <2> QED BY <1>6, <1>9, <1>10, <1>11, <2>1
  <1>12. CASE ~IsEnd(reader)
    <2>1. PICK k, e : Standing(reader, k, e)
      BY <1>12 DEF ReaderOK
    <2>2. /\ Cut(FileOf(reader), Entries[i].cycle, e)
          /\ k \in 0 .. Entries[i].cycle - 1 /\ reader.offset = e[k]
          /\ reader.cycle = Len(Filed(writer, i - 1)) + k
      BY <2>1 DEF Standing
    <2>3. i \in 1 .. L
      BY <1>1, <1>12 DEF IsEnd
    <2>4. Entries[i].cycle \in Nat
      BY <2>3, Index
    <2>5. k \in 0 .. Entries[i].cycle
      BY <2>2, <2>4
    <2>6. Cardinality({x \in Breaks(FileOf(reader), 0) : x <= e[k]}) = k
      <3> DEFINE b == FileOf(reader)
                 n == Entries[i].cycle
      <3>1. Cut(b, n, e) /\ n \in Nat /\ k \in 0 .. n
        BY <2>2, <2>4, <2>5
      <3> HIDE DEF b, n
      <3>2. Cardinality({x \in Breaks(b, 0) : x <= e[k]}) = k
        BY <3>1, CutBreaks
      <3> QED BY <3>2 DEF b
    <2>7. Marks(i) = Breaks(FileOf(reader), 0)
      BY DEF FileOf
    <2> HIDE DEF Marks
    <2>8. Position = s[i - 1] + k
      BY <1>6, <1>12, <2>2, <2>6, <2>7
    <2> QED BY <1>9, <1>10, <2>2, <2>8
  <1> QED BY <1>11, <1>12

\* The entries behind a cycle are those whose files reach past it.
LEMMA EntriesBehind ==
    ASSUME NEW T, WriterOK(writer, T), NEW dst \in Nat
    PROVE  /\ EntriesPast(dst)
                 = {i \in 1 .. Len(Entries) : Len(Filed(writer, i)) > dst}
           /\ EntriesPast(dst) # {} <=> dst < Len(Filed(writer, Len(Entries)))
           /\ EntriesPast(dst) # {} =>
                 LET i == Min(EntriesPast(dst))
                 IN  /\ i \in 1 .. Len(Entries)
                     /\ Len(Filed(writer, i - 1)) <= dst
  <1> DEFINE L == Len(Entries)
             F == [i \in 0 .. L |-> Len(Filed(writer, i))]
             S == {i \in 1 .. L : F[i] > dst}
  <1>1. /\ L \in Nat /\ F[0] = 0 /\ F[L] = Len(Filed(writer, L))
        /\ \A i \in 0 .. L : F[i] \in Nat
        /\ \A i \in 1 .. L : /\ F[i] = F[i - 1] + Entries[i].cycle
                             /\ i - 1 \in 0 .. L /\ F[i] = Len(Filed(writer, i))
                             /\ F[i - 1] = Len(Filed(writer, i - 1))
    BY Index
  <1>2. DOMAIN Entries = 1 .. L
    BY DEF WriterOK, Entries
  <1>3. \A i \in 1 .. L : CyclesBefore(i) = Len(Filed(writer, i - 1))
    <2>1. \A i \in 1 .. L : i \in 1 .. L + 1
      BY <1>1
    <2> QED BY <2>1, CountsBefore
  <1>4. EntriesPast(dst) = S
    <2> HIDE DEF F
    <2>1. \A i \in 1 .. L : CyclesBefore(i) + Entries[i].cycle = F[i]
      BY <1>1, <1>3
    <2>2. EntriesPast(dst)
             = {i \in 1 .. L : CyclesBefore(i) + Entries[i].cycle > dst}
      BY <1>2, Zenon DEF EntriesPast
    <2> QED BY <2>1, <2>2
  <1>5. \A i \in 1 .. L : F[i] <= F[L]
    <2>1. \A i \in 1 .. L : i \in 0 .. L /\ L \in 0 .. L /\ i <= L
      BY <1>1
    <2>2. \A i \in 1 .. L : Len(Filed(writer, i)) <= Len(Filed(writer, L))
      BY <2>1, FiledGrows
    <2> QED BY <1>1, <2>2
  <1> HIDE DEF F
  <1>6. S # {} <=> dst < F[L]
    <2>1. dst < F[L] => L \in S
      BY <1>1
    <2>2. ASSUME NEW i \in S PROVE dst < F[L]
      <3>1. i \in 1 .. L /\ F[i] > dst /\ F[i] <= F[L] /\ F[i] \in Nat /\ F[L] \in Nat
        BY <1>1, <1>5
      <3> QED BY <3>1
    <2> QED BY <2>1, <2>2
  <1>7. ASSUME S # {} PROVE Min(S) \in 1 .. L /\ F[Min(S) - 1] <= dst
    <2>1. S \subseteq Nat
      OBVIOUS
    <2>2. \E x \in S : \A y \in S : x <= y
      <3> HIDE DEF S
      <3> QED BY <1>7, <2>1, LeastElement
    <2>3. Min(S) \in S /\ \A y \in S : Min(S) <= y
      <3> HIDE DEF S
      <3> QED BY <2>2 DEF Min
    <2> DEFINE i == Min(S)
    <2> HIDE DEF i
    <2>4. i \in 1 .. L /\ \A y \in 1 .. L : F[y] > dst => i <= y
      BY <2>3 DEF i
    <2>5. CASE i = 1
      BY <1>1, <2>4, <2>5 DEF i
    <2>6. CASE i # 1
      <3>1. i - 1 \in 1 .. L /\ ~(i <= i - 1)
        BY <1>1, <2>4, <2>6
      <3>2. ~(F[i - 1] > dst)
        BY <2>4, <3>1
      <3>3. F[i - 1] \in Nat
        BY <1>1, <2>4
      <3>4. F[i - 1] <= dst
        BY <3>2, <3>3
      <3> QED BY <2>4, <3>4 DEF i
    <2> QED BY <2>5, <2>6
  <1>8. S = {i \in 1 .. L : Len(Filed(writer, i)) > dst}
    BY <1>1
  <1>9. ASSUME EntriesPast(dst) # {}
        PROVE  /\ Min(EntriesPast(dst)) \in 1 .. L
               /\ Len(Filed(writer, Min(EntriesPast(dst)) - 1)) <= dst
    <2>1. PICK i \in 1 .. L : i = Min(S) /\ F[i - 1] <= dst
      BY <1>4, <1>7, <1>9
    <2>2. F[i - 1] = Len(Filed(writer, i - 1))
      BY <1>1
    <2> QED BY <1>4, <2>1, <2>2
  <1> QED BY <1>1, <1>4, <1>6, <1>8, <1>9

\* A skip ends in front of the record that is n further, if there is one.
LEMMA Skips ==
    ASSUME NEW T, WriterOK(writer, T), NEW r, ReaderOK(r), NEW n \in Nat
    PROVE  /\ CanSkip(r, n) <=> r.cycle + n < Len(Filed(writer, Len(Entries)))
           /\ CanSkip(r, n) => /\ ReaderOK(SkipTo(r, n))
                               /\ SkipTo(r, n).cycle = r.cycle + n
  <1> DEFINE L == Len(Entries)
             dst == r.cycle + n
             i == Min(EntriesPast(dst))
             skipped == CyclesBefore(i)
             base == [entry |-> i, offset |-> 0, cycle |-> skipped]
             m == dst - skipped
             Steps(f) == f = [k \in 0 .. m |->
                                IF k = 0 THEN base
                                ELSE IF IsEnd(f[k - 1]) THEN f[k - 1]
                                ELSE Next1(f[k - 1])]
             after == CHOOSE f : Steps(f)
             total == Len(Filed(writer, L))
  <1>1. dst \in Nat
    BY DEF ReaderOK, Readers
  <1>2. CanSkip(r, n) <=> dst < total
    BY <1>1, EntriesBehind DEF CanSkip
  <1>3. ASSUME CanSkip(r, n)
        PROVE  ReaderOK(SkipTo(r, n)) /\ SkipTo(r, n).cycle = dst
    <2>0. SkipTo(r, n) = after[m]
      BY DEF SkipTo
    <2>1. i \in 1 .. L /\ Len(Filed(writer, i - 1)) <= dst
      BY <1>1, <1>3, EntriesBehind DEF CanSkip
    <2>2. /\ L \in Nat /\ i \in 1 .. L + 1 /\ i - 1 \in 0 .. L
          /\ Len(Filed(writer, i - 1)) \in Nat /\ total \in Nat
      <3>1. L \in Nat /\ i \in 1 .. L + 1 /\ i - 1 \in 0 .. L /\ L \in 0 .. L
        <4>1. L \in Nat
          BY Index
        <4> HIDE DEF i, L
        <4> QED BY <2>1, <4>1
      <3> HIDE DEF i
      <3> QED BY <3>1, Index
    <2>3. skipped = Len(Filed(writer, i - 1))
      BY <2>2, CountsBefore
    <2>4. m \in Nat /\ skipped \in Nat /\ skipped + m = dst /\ dst < total
      BY <1>1, <1>2, <1>3, <2>1, <2>2, <2>3
    <2>5. ReaderOK(base)
      BY <2>2, <2>3, AtFirst
    <2> DEFINE V == {x \in Readers : ReaderOK(x)}
               step == [k \in Nat |-> [v \in V |->
                           IF IsEnd(v) THEN v ELSE Next1(v)]]
    <2>6. base \in V
      BY <2>5 DEF ReaderOK
    <2>7. step \in [Nat -> [V -> V]]
      <3>1. ASSUME NEW v \in V, ~IsEnd(v) PROVE Next1(v) \in V
        BY <3>1, NextMoves DEF ReaderOK
      <3> HIDE DEF V
      <3> QED BY <3>1
    <2>8. \A k \in Nat, v \in V : step[k][v] = IF IsEnd(v) THEN v ELSE Next1(v)
      <3> HIDE DEF V
      <3> QED OBVIOUS
    <2> HIDE DEF L, dst, i, skipped, base, m, V, step, after, total
    <2>9. PICK f \in [0 .. m -> V] : Follows(f, base, step, m)
      BY <2>4, <2>6, <2>7, Recursion
    <2>10. Steps(f)
      <3>1. f = [k \in 0 .. m |-> f[k]]
        OBVIOUS
      <3>2. ASSUME NEW k \in 0 .. m
            PROVE  f[k] = IF k = 0 THEN base
                          ELSE IF IsEnd(f[k - 1]) THEN f[k - 1]
                          ELSE Next1(f[k - 1])
        <4>1. CASE k = 0
          BY <2>9, <4>1 DEF Follows
        <4>2. CASE k # 0
          <5>1. PICK j \in 0 .. m - 1 : j = k - 1
            BY <2>4, <4>2
          <5>2. j + 1 = k /\ j \in Nat /\ f[j] \in V
            BY <2>4, <5>1
          <5>3. f[j + 1] = step[j][f[j]]
            BY <2>9 DEF Follows
          <5>4. f[k] = IF IsEnd(f[j]) THEN f[j] ELSE Next1(f[j])
            BY <2>8, <5>2, <5>3
          <5> QED BY <4>2, <5>1, <5>4
        <4> QED BY <4>1, <4>2
      <3> QED BY <3>1, <3>2
    <2>11. Steps(after)
      BY <2>10 DEF after
    <2> DEFINE S == {k \in 0 .. m : after[k] \in V /\ after[k].cycle = skipped + k}
    <2>12. \A k \in 0 .. m : after[k] = IF k = 0 THEN base
                                        ELSE IF IsEnd(after[k - 1]) THEN after[k - 1]
                                        ELSE Next1(after[k - 1])
      BY <2>11, Zenon
    <2>13. 0 \in S
      <3>1. 0 \in 0 .. m /\ after[0] = base
        BY <2>4, <2>12
      <3>2. base.cycle = skipped + 0
        BY <2>4 DEF base
      <3> QED BY <2>6, <3>1, <3>2
    <2>14. ASSUME NEW k \in 0 .. m - 1, k \in S PROVE k + 1 \in S
      <3>1. after[k] \in V /\ after[k].cycle = skipped + k
        BY <2>14
      <3> DEFINE a == after[k]
      <3> HIDE DEF a
      <3>2. ReaderOK(a) /\ a.cycle = skipped + k
        BY <3>1 DEF a, V
      <3>3. ~IsEnd(a)
        BY <2>4, <3>2 DEF ReaderOK, total, L
      <3>4. ReaderOK(Next1(a)) /\ Next1(a).cycle = a.cycle + 1
        BY <3>2, <3>3, NextMoves
      <3>5. PICK j \in 0 .. m : j = k + 1
        BY <2>4
      <3>6. j - 1 = k /\ j # 0
        BY <2>4, <3>5
      <3>7. after[j] = Next1(a)
        BY <2>12, <3>3, <3>6 DEF a
      <3>8. after[j] \in V /\ after[j].cycle = skipped + j
        <4>1. Next1(a) \in V
          BY <3>4 DEF V, ReaderOK
        <4>2. Next1(a).cycle = skipped + j
          BY <2>4, <3>2, <3>4, <3>5
        <4> QED BY <3>7, <4>1, <4>2
      <3> QED BY <3>5, <3>8
    <2> HIDE DEF S
    <2>15. 0 .. m \subseteq S
      BY <2>4, <2>13, <2>14, UpTo
    <2>16. m \in S
      BY <2>4, <2>15
    <2>17. after[m] \in V /\ after[m].cycle = skipped + m
      BY <2>16 DEF S
    <2> QED BY <2>0, <2>4, <2>17 DEF V
  <1> QED BY <1>2, <1>3

-----------------------------------------------------------------------------
(* The logger, the writer and the reader together.                         *)

Values == {<<>>, <<0>>} \cup {s.pc : s \in Snapshots}
          \cup {s.reg : s \in Snapshots} \cup {s.io : s \in Snapshots}
          \cup UNION {{events[i].v : i \in DOMAIN events} : events \in EventLists}
Nodes == [id : {"BA", "IN", "FP", "IO", "BR"} \cup EventIds, v : Values]

\* A record nobody has ended yet.
Plain(s) == s \in Seq(Nodes) /\ \A i \in 1 .. Len(s) : s[i].id # "BR"

LEMMA PlainParts ==
    /\ Plain(<<>>)
    /\ \A n \in Nodes : n.id # "BR" => Plain(<<n>>)
    /\ \A s, t : Plain(s) /\ Plain(t) => Plain(s \o t)
  <1>1. Plain(<<>>)
    BY EmptySeq DEF Plain
  <1>2. ASSUME NEW n \in Nodes, n.id # "BR" PROVE Plain(<<n>>)
    BY <1>2 DEF Plain
  <1>3. ASSUME NEW s, NEW t, Plain(s), Plain(t) PROVE Plain(s \o t)
    <2>1. /\ s \in Seq(Nodes) /\ t \in Seq(Nodes)
          /\ Len(s) \in Nat /\ Len(t) \in Nat
      BY <1>3, LenProperties DEF Plain
    <2>2. /\ s \o t \in Seq(Nodes) /\ Len(s \o t) = Len(s) + Len(t)
          /\ \A i \in 1 .. Len(s) + Len(t) :
                (s \o t)[i] = IF i <= Len(s) THEN s[i] ELSE t[i - Len(s)]
      BY <2>1, ConcatProperties
    <2>3. ASSUME NEW i \in 1 .. Len(s) + Len(t) PROVE (s \o t)[i].id # "BR"
      <3>1. CASE i <= Len(s)
        BY <1>3, <2>1, <2>2, <3>1 DEF Plain
      <3>2. CASE ~(i <= Len(s))
        <4>1. i - Len(s) \in 1 .. Len(t)
          BY <2>1, <3>2
        <4> QED BY <1>3, <2>2, <3>2, <4>1 DEF Plain
      <3> QED BY <3>1, <3>2
    <2> QED BY <2>2, <2>3 DEF Plain
  <1> QED BY <1>1, <1>2, <1>3

Core ==
    /\ Plain(current) /\ (current # <<>> => Len(current) < BufferSize)
    /\ state \in {"run", "closed"}
    /\ WriterOK(writer, Nodes)
    /\ state = "run" => logged = IndexLog(writer) /\ ~Reading
    /\ state = "closed" => writer.data = <<>> /\ writer.count = 0
    /\ Reading => ReaderOK(reader)
    /\ tool # NoTool => Reading

\* The record that EndCycle hands to the writer.
LEMMA Ended ==
    ASSUME Core, current # <<>>
    PROVE  LET r == Append(current, BR)
           IN  /\ IsRecord(r, Nodes) /\ Len(r) <= MaxFileSize
               /\ Parse(r, 0) = CycleOf(r)
  <1> DEFINE r == Append(current, BR)
  <1>1. /\ current \in Seq(Nodes) /\ Len(current) \in Nat
        /\ Len(current) < BufferSize /\ BR \in Nodes /\ BR.id = "BR"
        /\ \A i \in 1 .. Len(current) : current[i].id # "BR"
    BY LenProperties DEF Core, Plain, Nodes, BR, Node, Values
  <1>2. /\ r \in Seq(Nodes) /\ Len(r) = Len(current) + 1
        /\ \A i \in 1 .. Len(current) : r[i] = current[i]
        /\ r[Len(current) + 1] = BR
    BY <1>1, AppendProperties
  <1> HIDE DEF r
  <1>3. IsRecord(r, Nodes)
    BY <1>1, <1>2 DEF IsRecord
  <1>4. Len(r) <= MaxFileSize
    BY <1>1, <1>2, SizeAssumption
  <1> QED BY <1>3, <1>4, RecordParsed DEF r

\* The steps of the process that writes the trace.
LoggerStep ==
    \/ \E s \in Snapshots : BeginCycle(s)
    \/ \E events \in EventLists : RecordEvent(events)
    \/ EndCycle
    \/ Close
    \/ Exit
    \/ Kill

\* The steps of the readers and of the tools: the files stay, and the reader
\* arrives, moves forward over records or goes away.
ReaderStep ==
    /\ UNCHANGED <<config, current, writer, state, logged>>
    /\ \/ reader' = reader /\ (tool' # NoTool => Reading)
       \/ Reading /\ reader' = NoReader /\ tool' = NoTool
       \/ ~Reading /\ state = "closed" /\ ReaderOK(reader')
       \/ /\ Reading /\ ~IsEnd(reader)
          /\ ReaderOK(reader') /\ reader.cycle <= reader'.cycle

First == [entry |-> 1, offset |-> 0, cycle |-> 0]

LEMMA FirstOK ==
    ASSUME Core
    PROVE  ReaderOK(First)
  <1>1. Len(Entries) \in Nat /\ Len(Filed(writer, 0)) = 0
    BY Index DEF Core
  <1>2. 1 \in 1 .. Len(Entries) + 1 /\ 1 - 1 = 0
    BY <1>1
  <1>3. First = [entry |-> 1, offset |-> 0, cycle |-> Len(Filed(writer, 1 - 1))]
    BY <1>1, <1>2 DEF First
  <1>4. WriterOK(writer, Nodes)
    BY DEF Core
  <1> QED BY <1>2, <1>3, <1>4, AtFirst

\* A step over one record, which every tool's loop takes.
LEMMA StepsOn ==
    ASSUME Core, Reading, ~IsEnd(reader), reader' = Next1(reader),
           UNCHANGED <<config, current, writer, state, logged>>
    PROVE  ReaderStep /\ reader'.cycle = reader.cycle + 1
  <1>1. WriterOK(writer, Nodes) /\ ReaderOK(reader)
    BY DEF Core
  <1>2. ReaderOK(reader') /\ reader'.cycle = reader.cycle + 1
    BY <1>1, NextMoves
  <1>3. reader.cycle \in Nat
    BY <1>1 DEF ReaderOK, Readers
  <1> QED BY <1>2, <1>3 DEF ReaderStep

LEMMA StepKinds ==
    ASSUME Core, [Next]_vars
    PROVE  (LoggerStep /\ tool = NoTool /\ UNCHANGED tool) \/ ReaderStep
  <1> USE DEF NoTool
  <1>1. /\ WriterOK(writer, Nodes)
        /\ Reading => ReaderOK(reader)
        /\ tool # NoTool => Reading
        /\ state \in {"run", "closed"}
        /\ state = "run" => ~Reading
    BY DEF Core
  <1>2. ReaderOK(First)
    BY FirstOK
  <1>3. \A r, n : ReaderOK(r) /\ n \in Nat /\ CanSkip(r, n)
                  => /\ ReaderOK(SkipTo(r, n)) /\ SkipTo(r, n).cycle = r.cycle + n
                     /\ r.cycle + n < Len(Filed(writer, Len(Entries)))
    BY <1>1, Skips
  <1>4. CASE UNCHANGED vars
    BY <1>1, <1>4 DEF vars, ReaderStep
  <1>5. CASE tool = NoTool /\ TraceNext /\ UNCHANGED tool
    <2>1. CASE LoggerStep
      BY <1>5, <2>1
    <2>2. CASE OpenReader
      BY <1>2, <2>2 DEF OpenReader, ReaderStep, First
    <2>3. CASE ReaderNext
      BY <2>3, StepsOn DEF ReaderNext
    <2>4. ASSUME NEW n \in 0 .. MaxCycles, ReaderSkip(n) PROVE ReaderStep
      <3>1. Reading /\ ReaderOK(reader) /\ n \in Nat
            /\ UNCHANGED <<config, current, writer, state, logged>>
        BY <1>1, <2>4, SizeAssumption DEF ReaderSkip
      <3>2. CASE CanSkip(reader, n)
        <4>1. reader' = SkipTo(reader, n)
          BY <2>4, <3>2 DEF ReaderSkip
        <4>2. /\ ReaderOK(reader') /\ reader'.cycle = reader.cycle + n
              /\ reader.cycle + n < Len(Filed(writer, Len(Entries)))
          BY <1>3, <3>1, <3>2, <4>1
        <4>3. reader.cycle \in Nat
          BY <3>1 DEF ReaderOK, Readers
        <4>4. Len(Filed(writer, Len(Entries))) \in Nat
          <5>1. Len(Entries) \in Nat
            BY <1>1, Index
          <5>2. Len(Entries) \in 0 .. Len(Entries)
            BY <5>1
          <5> QED BY <1>1, <5>2, Index
        <4>5. ~IsEnd(reader)
          BY <3>1, <4>2, <4>3, <4>4 DEF ReaderOK
        <4>6. reader.cycle <= reader'.cycle
          BY <3>1, <4>2, <4>3
        <4> QED BY <3>1, <4>2, <4>5, <4>6 DEF ReaderStep
      <3>3. CASE ~CanSkip(reader, n)
        BY <1>5, <2>4, <3>1, <3>3 DEF ReaderSkip, ReaderStep
      <3> QED BY <3>2, <3>3
    <2>5. CASE CloseReader
      BY <1>5, <2>5 DEF CloseReader, ReaderStep
    <2> QED BY <1>5, <2>1, <2>2, <2>3, <2>4, <2>5 DEF TraceNext, LoggerStep
  <1>6. ASSUME NEW o \in DumpOptions, NEW f \in Filters, DumpStart(o, f)
        PROVE  ReaderStep
    <2> DEFINE ok == o.begin = 0 \/ CanSkip(First, o.begin)
    <2>1. /\ ~Reading /\ state = "closed"
          /\ UNCHANGED <<config, current, writer, state, logged>>
          /\ reader' = IF o.begin > 0 /\ ok THEN SkipTo(First, o.begin) ELSE First
      BY <1>6 DEF DumpStart, First
    <2>2. CASE o.begin > 0 /\ CanSkip(First, o.begin)
      <3>1. o.begin \in Nat
        BY SizesAssumption
      <3>2. ReaderOK(SkipTo(First, o.begin))
        BY <1>2, <1>3, <2>2, <3>1
      <3>3. reader' = SkipTo(First, o.begin)
        BY <2>1, <2>2
      <3> QED BY <2>1, <3>2, <3>3 DEF ReaderStep
    <2>3. CASE ~(o.begin > 0 /\ CanSkip(First, o.begin))
      <3>1. o.begin \in Nat
        BY SizesAssumption
      <3>2. reader' = First
        BY <2>1, <2>3, <3>1
      <3> QED BY <1>2, <2>1, <3>2 DEF ReaderStep
    <2> QED BY <2>2, <2>3
  <1>7. ASSUME NEW e \in Expects, NEW count \in 0 .. MaxCycles, DiffStart(e, count)
        PROVE  ReaderStep
    BY <1>2, <1>7 DEF DiffStart, ReaderStep, First
  <1>8. CASE ConvStart
    BY <1>2, <1>8 DEF ConvStart, ReaderStep, First
  <1>9. CASE CheckStart
    BY <1>2, <1>9 DEF CheckStart, ReaderStep, First
  <1>10. CASE DumpStep
    <2>1. Reading /\ UNCHANGED <<config, current, writer, state, logged>>
      BY <1>1, <1>10 DEF DumpStep
    <2>2. CASE tool.i < DumpEnd(tool.options) /\ ~IsEnd(reader)
      <3>1. ~IsEnd(reader) /\ reader' = Next1(reader)
        BY <1>10, <2>2 DEF DumpStep
      <3> QED BY <2>1, <3>1, StepsOn
    <2>3. CASE ~(tool.i < DumpEnd(tool.options) /\ ~IsEnd(reader))
      BY <1>10, <2>1, <2>3 DEF DumpStep, ReaderStep
    <2> QED BY <2>2, <2>3
  <1>11. CASE DiffFinish \/ DiffThrow
    BY <1>1, <1>11 DEF DiffFinish, DiffThrow, ReaderStep
  <1>12. CASE DiffMatch
    <2>1. /\ Reading /\ UNCHANGED <<config, current, writer, state, logged>>
          /\ ~IsEnd(reader) /\ reader' = Next1(reader)
      BY <1>1, <1>12 DEF DiffMatch, DiffOver
    <2> QED BY <2>1, StepsOn
  <1>13. CASE DiffMismatch
    <2>1. /\ Reading /\ UNCHANGED <<config, current, writer, state, logged>>
          /\ ~IsEnd(reader) /\ (reader' = Next1(reader) \/ reader' = reader)
      BY <1>1, <1>13 DEF DiffMismatch, DiffOver
    <2>2. CASE reader' = reader
      BY <2>1, <2>2 DEF ReaderStep
    <2> QED BY <2>1, <2>2, StepsOn
  <1>14. CASE ConvStep
    <2>1. Reading /\ UNCHANGED <<config, current, writer, state, logged>>
      BY <1>1, <1>14 DEF ConvStep
    <2>2. CASE IsEnd(reader)
      BY <1>14, <2>1, <2>2 DEF ConvStep, ReaderStep
    <2>3. CASE ~IsEnd(reader)
      <3>1. reader' = Next1(reader)
        BY <1>14, <2>3 DEF ConvStep
      <3> QED BY <2>1, <2>3, <3>1, StepsOn
    <2> QED BY <2>2, <2>3
  <1>15. CASE CheckStep
    <2>1. Reading /\ UNCHANGED <<config, current, writer, state, logged>>
      BY <1>1, <1>15 DEF CheckStep
    <2>2. CASE reader' = reader
      BY <2>1, <2>2 DEF ReaderStep
    <2>3. CASE reader' # reader
      <3>1. ~IsEnd(reader) /\ reader' = Next1(reader)
        BY <1>15, <2>3 DEF CheckStep
      <3> QED BY <2>1, <3>1, StepsOn
    <2> QED BY <2>2, <2>3
  <1>16. CASE ToolExit
    BY <1>1, <1>16 DEF ToolExit, ReaderStep
  <1> QED BY <1>4, <1>5, <1>6, <1>7, <1>8, <1>9, <1>10, <1>11, <1>12, <1>13,
             <1>14, <1>15, <1>16 DEF Next, ToolStep

LEMMA NewWriterOK ==
    ASSUME NEW T
    PROVE  WriterOK(NewWriter, T) /\ IndexLog(NewWriter) = <<>>
  <1> DEFINE w == NewWriter
             Line == [path : Nat, cycle : Nat]
  <1>1. /\ w.data = <<>> /\ w.count = 0 /\ w.fileCount = 0
        /\ w.files = <<>> /\ w.lines = <<>>
        /\ w = [data |-> w.data, count |-> w.count, fileCount |-> w.fileCount,
                files |-> w.files, lines |-> w.lines]
    BY DEF NewWriter
  <1> HIDE DEF w
  <1>2. Len(<<>>) = 0 /\ <<>> \in Seq(T) /\ <<>> \in Seq(Line)
    BY EmptySeq
  <1>3. w.files \in [0 .. w.fileCount - 1 -> Seq(T)]
    <2>1. 0 .. 0 - 1 = {}
      OBVIOUS
    <2>2. DOMAIN <<>> = {} /\ <<>> = [i \in {} |-> <<>>[i]]
      OBVIOUS
    <2> QED BY <1>1, <2>1, <2>2
  <1>4. Whole(w.data, w.count, T)
    BY <1>1, <1>2, EmptyCut DEF Whole
  <1>5. w \in [data : Seq(T), count : Nat, fileCount : Nat,
               files : [0 .. w.fileCount - 1 -> Seq(T)],
               lines : Seq([path : Nat, cycle : Nat])]
    <2>1. w.data \in Seq(T) /\ w.count \in Nat /\ w.fileCount \in Nat
          /\ w.lines \in Seq([path : Nat, cycle : Nat])
      BY <1>1, <1>2
    <2> DEFINE F == [0 .. w.fileCount - 1 -> Seq(T)]
               Lines == Seq([path : Nat, cycle : Nat])
    <2>2. w.files \in F /\ w.lines \in Lines
      BY <1>3, <2>1
    <2> HIDE DEF F, Lines
    <2>3. w \in [data : Seq(T), count : Nat, fileCount : Nat,
                 files : F, lines : Lines]
      BY <1>1, <2>1, <2>2
    <2> QED BY <2>3 DEF F, Lines
  <1>6. Len(w.data) <= MaxFileSize /\ 1 .. Len(w.lines) = {}
    BY <1>1, <1>2, SizeAssumption
  <1>7. WriterOK(w, T)
    BY <1>4, <1>5, <1>6 DEF WriterOK
  <1>8. Filed(w, 0) = <<>>
    BY <1>7, FiledOK
  <1>9. IndexLog(w) = <<>> \o <<>>
    BY <1>1, <1>2, <1>8, EmptyCut DEF IndexLog
  <1>10. <<>> \o <<>> = <<>>
    BY <1>2, ConcatEmptySeq
  <1> QED BY <1>7, <1>9, <1>10 DEF w

LEMMA InitCore == Init => Core
  <1> SUFFICES ASSUME Init PROVE Core
    OBVIOUS
  <1>1. WriterOK(writer, Nodes) /\ IndexLog(writer) = <<>>
    BY NewWriterOK DEF Init, TraceInit
  <1> QED BY <1>1, PlainParts DEF Init, TraceInit, Core, Reading

\* What an end without the destructor leaves: the log, or a prefix of it.
LEMMA Cuts ==
    ASSUME Core, Exit \/ Kill
    PROVE  /\ WriterOK(writer', Nodes) /\ writer'.data = <<>> /\ writer'.count = 0
           /\ IsPrefix(IndexLog(writer'), IndexLog(writer))
  <1>1. WriterOK(writer, Nodes) /\ MaxFileSize \in Nat
    BY SizeAssumption DEF Core
  <1>2. PICK n \in 0 .. Len(writer.lines) :
           writer' = [writer EXCEPT !.data = <<>>, !.count = 0,
                                    !.lines = SubSeq(writer.lines, 1, n)]
    <2>1. CASE Kill
      BY <2>1 DEF Kill
    <2>2. CASE Exit
      <3>1. /\ writer.lines \in Seq([path : Nat, cycle : Nat])
            /\ Len(writer.lines) \in 0 .. Len(writer.lines)
        BY <1>1, LenProperties DEF WriterOK
      <3>2. SubSeq(writer.lines, 1, Len(writer.lines)) = writer.lines
        BY <3>1, SubSeqFull
      <3>3. writer' = [writer EXCEPT !.data = <<>>, !.count = 0]
        BY <2>2 DEF Exit
      <3>4. writer' = [writer EXCEPT !.data = <<>>, !.count = 0,
                                     !.lines = writer.lines]
        BY <1>1, <3>3 DEF WriterOK
      <3> QED BY <3>1, <3>2, <3>4
    <2> QED BY <2>1, <2>2
  <1> QED BY <1>1, <1>2, Dropped

LEMMA LoggerKeepsCore ==
    ASSUME Core, LoggerStep, tool = NoTool, UNCHANGED tool
    PROVE  Core'
  <1>1. /\ Plain(current) /\ state \in {"run", "closed"}
        /\ WriterOK(writer, Nodes) /\ MaxFileSize \in Nat
        /\ state = "run" => logged = IndexLog(writer) /\ ~Reading
    BY SizeAssumption DEF Core
  <1>2. ASSUME NEW s \in Snapshots, BeginCycle(s) PROVE Core'
    <2> DEFINE basic == <<Node("BA", s.pc)>>
               regs == IF config.int THEN <<Node("IN", s.reg)>> ELSE <<>>
               fps == IF config.fp THEN <<Node("FP", <<0>>)>> ELSE <<>>
               ios == IF config.io THEN <<Node("IO", s.io)>> ELSE <<>>
    <2>1. /\ s.pc \in Values /\ s.reg \in Values /\ s.io \in Values
          /\ <<0>> \in Values
      BY DEF Values
    <2>2. /\ Plain(<<Node("BA", s.pc)>>) /\ Plain(<<Node("IN", s.reg)>>)
          /\ Plain(<<Node("FP", <<0>>)>>) /\ Plain(<<Node("IO", s.io)>>)
      <3>1. ASSUME NEW v \in Values, NEW id \in {"BA", "IN", "FP", "IO"}
            PROVE  Plain(<<Node(id, v)>>)
        <4>1. Node(id, v) \in Nodes /\ Node(id, v).id # "BR"
          BY DEF Nodes, Node
        <4> QED BY <4>1, PlainParts
      <3> QED BY <2>1, <3>1
    <2>3. Plain(basic) /\ Plain(regs) /\ Plain(fps) /\ Plain(ios)
      BY <2>2, PlainParts
    <2>4. /\ current' = current \o (((basic \o regs) \o fps) \o ios)
          /\ Len(current) + Len(((basic \o regs) \o fps) \o ios) < BufferSize
          /\ UNCHANGED <<config, writer, state, reader, logged>>
      BY <1>2 DEF BeginCycle, AddData
    <2> HIDE DEF basic, regs, fps, ios
    <2> DEFINE nodes == ((basic \o regs) \o fps) \o ios
    <2>5. Plain(nodes)
      BY <2>3, PlainParts
    <2> HIDE DEF nodes
    <2>6. current' = current \o nodes /\ Len(current) + Len(nodes) < BufferSize
      BY <2>4 DEF nodes
    <2>7. Plain(current') /\ Len(current') < BufferSize
      <3>1. Plain(current')
        BY <1>1, <2>5, <2>6, PlainParts
      <3>2. Len(current \o nodes) = Len(current) + Len(nodes)
        BY <1>1, <2>5, ConcatProperties DEF Plain
      <3> QED BY <2>6, <3>1, <3>2
    <2> QED BY <2>4, <2>7 DEF Core, Reading, ReaderOK, IsEnd, Standing, Entries,
                             FileOf, Plain
  <1>3. ASSUME NEW events \in EventLists, RecordEvent(events) PROVE Core'
    <2>1. Plain(events)
      <3>1. /\ events \in Seq({events[i] : i \in DOMAIN events})
            /\ \A i \in DOMAIN events : /\ events[i] = Node(events[i].id, events[i].v)
                                        /\ events[i].id \in EventIds
        BY EventsAssumption
      <3>2. \A i \in DOMAIN events : events[i].v \in Values
        <4> DEFINE vs == {events[i].v : i \in DOMAIN events}
        <4>1. vs \in {{es[i].v : i \in DOMAIN es} : es \in EventLists}
          OBVIOUS
        <4>2. \A i \in DOMAIN events : events[i].v \in vs
          OBVIOUS
        <4> HIDE DEF vs
        <4> QED BY <4>1, <4>2, Zenon DEF Values
      <3>3. \A i \in DOMAIN events : events[i] \in Nodes /\ events[i].id # "BR"
        BY <3>1, <3>2 DEF Nodes, Node, EventIds
      <3>4. DOMAIN events = 1 .. Len(events) /\ Len(events) \in Nat
        BY <3>1, LenProperties
      <3>5. events \in Seq(Nodes)
        BY <3>1, <3>3, <3>4
      <3> QED BY <3>3, <3>4, <3>5 DEF Plain
    <2>2. /\ current' = current \o events
          /\ Len(current) + Len(events) < BufferSize
          /\ UNCHANGED <<config, writer, state, reader, logged>>
      BY <1>3 DEF RecordEvent, AddData
    <2>3. Plain(current') /\ Len(current') < BufferSize
      <3>1. Plain(current')
        BY <1>1, <2>1, <2>2, PlainParts
      <3>2. Len(current \o events) = Len(current) + Len(events)
        BY <1>1, <2>1, ConcatProperties DEF Plain
      <3> QED BY <2>2, <3>1, <3>2
    <2> QED BY <2>2, <2>3 DEF Core, Reading, ReaderOK, IsEnd, Standing, Entries,
                             FileOf, Plain
  <1>4. CASE EndCycle
    <2> DEFINE r == Append(current, BR)
    <2>1. /\ current # <<>> /\ state = "run" /\ writer' = Write(writer, r)
          /\ current' = <<>> /\ logged' = Append(logged, Parse(r, 0))
          /\ UNCHANGED <<config, state, reader>>
      BY <1>4 DEF EndCycle
    <2>2. IsRecord(r, Nodes) /\ Len(r) <= MaxFileSize /\ Parse(r, 0) = CycleOf(r)
      BY <2>1, Ended
    <2> HIDE DEF r
    <2>3. /\ WriterOK(writer', Nodes)
          /\ IndexLog(writer') = Append(IndexLog(writer), CycleOf(r))
      BY <1>1, <2>1, <2>2, Written
    <2> QED BY <1>1, <2>1, <2>2, <2>3, PlainParts DEF Core, Reading
  <1>5. CASE Close
    <2>1. /\ state = "run" /\ current = <<>> /\ writer' = FlushData(writer)
          /\ state' = "closed" /\ UNCHANGED <<config, current, reader>>
      BY <1>5 DEF Close
    <2>2. WriterOK(writer', Nodes) /\ writer'.data = <<>> /\ writer'.count = 0
      BY <1>1, <2>1, Flushed
    <2> QED BY <1>1, <2>1, <2>2 DEF Core, Reading, Plain
  <1>6. ASSUME Exit \/ Kill PROVE Core'
    <2>1. /\ state = "run" /\ state' = "closed" /\ current' = <<>>
          /\ UNCHANGED <<config, reader>>
      BY <1>6 DEF Exit, Kill
    <2>2. WriterOK(writer', Nodes) /\ writer'.data = <<>> /\ writer'.count = 0
      BY <1>6, Cuts
    <2> QED BY <1>1, <2>1, <2>2, PlainParts DEF Core, Reading
  <1> QED BY <1>2, <1>3, <1>4, <1>5, <1>6 DEF LoggerStep

LEMMA ReaderKeepsCore ==
    ASSUME Core, ReaderStep
    PROVE  Core'
  <1>1. UNCHANGED <<config, current, writer, state, logged>>
    BY DEF ReaderStep
  <1>2. ASSUME ReaderOK(reader') PROVE ReaderOK(reader)'
    BY <1>1, <1>2 DEF ReaderOK, IsEnd, Standing, Entries, FileOf
  <1>3. Reading' => ReaderOK(reader') /\ state = "closed"
    BY <1>1 DEF Core, ReaderStep, Reading
  <1>4. tool' # NoTool => Reading'
    <2>1. ASSUME ReaderOK(reader') PROVE Reading'
      <3>1. reader'.entry # 0
        BY <2>1 DEF ReaderOK
      <3> QED BY <3>1 DEF Reading, NoReader
    <2> QED BY <2>1 DEF ReaderStep, Reading
  <1> QED BY <1>1, <1>2, <1>3, <1>4 DEF Core, Plain, Reading

\* The trace files always hold whole records that their index counts.
LEMMA CoreInvariant == Spec => []Core
  <1>1. Core /\ [Next]_vars => Core'
    BY StepKinds, LoggerKeepsCore, ReaderKeepsCore
  <1> QED BY <1>1, InitCore, PTL DEF Spec

-----------------------------------------------------------------------------
(* The files, the index and the reader implement the log.                  *)

\* What the users of a trace see of the reader.
Seen ==
    /\ ~Reading => Position = -1 /\ Shown = <<>>
    /\ Reading =>
          /\ state = "closed" /\ Recorded = Log /\ Len(Log) \in Nat
          /\ Position = reader.cycle /\ reader.cycle \in 0 .. Len(Log)
          /\ IsEnd(reader) <=> reader.cycle = Len(Log)
          /\ Shown = IF reader.cycle \in 0 .. Len(Log) - 1
                     THEN <<Log[reader.cycle + 1]>> ELSE <<>>

\* With nothing left in the buffer the log is what the files hold.
LEMMA ClosedLog ==
    ASSUME NEW T, NEW w, WriterOK(w, T), w.data = <<>>
    PROVE  IndexLog(w) = Filed(w, Len(w.lines)) /\ Len(IndexLog(w)) \in Nat
  <1> DEFINE U == Cycles(T)
  <1>1. Len(w.lines) \in 0 .. Len(w.lines)
    <2>1. Len(w.lines) \in Nat
      BY FiledOK
    <2> QED BY <2>1
  <1>2. Filed(w, Len(w.lines)) \in Seq(U)
    BY <1>1, FiledOK
  <1>3. IndexLog(w) = Filed(w, Len(w.lines)) \o <<>>
    BY EmptyCut DEF IndexLog
  <1> HIDE DEF U
  <1>4. IndexLog(w) = Filed(w, Len(w.lines))
    BY <1>2, <1>3, ConcatEmptySeq
  <1> QED BY <1>2, <1>4, LenProperties

LEMMA ReaderIsSeen == Core => Seen
  <1> SUFFICES ASSUME Core PROVE Seen
    OBVIOUS
  <1>1. CASE ~Reading
    BY <1>1 DEF Seen, Position, Shown
  <1>2. CASE Reading
    <2>1. /\ state = "closed" /\ writer.data = <<>>
          /\ WriterOK(writer, Nodes) /\ ReaderOK(reader)
      BY <1>2 DEF Core
    <2>2. Log = Filed(writer, Len(Entries)) /\ Len(Log) \in Nat
      BY <2>1, ClosedLog DEF Log, Entries
    <2>3. Recorded = Log
      BY <2>1 DEF Recorded, Log
    <2>4. Position = reader.cycle
      BY <1>2, <2>1, PositionIsCycle
    <2>5. CASE IsEnd(reader)
      <3>1. reader.cycle = Len(Log) /\ Shown = <<>>
        BY <2>1, <2>2, <2>5 DEF ReaderOK, Shown
      <3>2. reader.cycle \in 0 .. Len(Log) /\ reader.cycle \notin 0 .. Len(Log) - 1
        BY <2>2, <3>1
      <3> QED BY <1>2, <2>1, <2>2, <2>3, <2>4, <2>5, <3>1, <3>2 DEF Seen
    <2>6. CASE ~IsEnd(reader)
      <3>1. /\ reader.cycle \in 0 .. Len(Log) - 1
            /\ GetCycle(reader) = Log[reader.cycle + 1]
        BY <2>1, <2>2, <2>6, ShowsLog
      <3>2. reader.cycle \in 0 .. Len(Log) /\ reader.cycle # Len(Log)
        BY <2>2, <3>1
      <3>3. Shown = <<Log[reader.cycle + 1]>>
        BY <1>2, <2>6, <3>1 DEF Shown
      <3> QED BY <1>2, <2>1, <2>2, <2>3, <2>4, <2>6, <3>1, <3>2, <3>3 DEF Seen
    <2> QED BY <2>5, <2>6
  <1> QED BY <1>1, <1>2

LEMMA InitRefines == Init => Abstract!Init
  <1> SUFFICES ASSUME Init PROVE Abstract!Init
    OBVIOUS
  <1>1. state = "run" /\ logged = <<>> /\ ~Reading
    BY DEF Init, TraceInit, Reading
  <1> QED BY <1>1 DEF Abstract!Init, Abstract!Away, Position, Shown, Recorded

LEMMA LoggerRefines ==
    ASSUME Core, Core', Seen, Seen', LoggerStep
    PROVE  [Abstract!Next]_(Abstract!vars)
  <1>1. /\ state = "run" /\ ~Reading /\ reader' = reader /\ ~Reading'
        /\ Recorded = logged /\ logged = IndexLog(writer)
        /\ WriterOK(writer, Nodes) /\ MaxFileSize \in Nat
    BY SizeAssumption DEF Core, LoggerStep, BeginCycle, RecordEvent, EndCycle,
       Close, Exit, Kill, Reading, Recorded
  <1>2. Position' = Position /\ Shown' = Shown
    BY <1>1 DEF Seen
  <1>3. ASSUME state' = state, logged' = logged
        PROVE  UNCHANGED Abstract!vars
    <2>1. Recorded' = Recorded
      BY <1>1, <1>3 DEF Recorded
    <2> QED BY <1>2, <1>3, <2>1 DEF Abstract!vars
  <1>4. ASSUME NEW s \in Snapshots, BeginCycle(s) PROVE UNCHANGED Abstract!vars
    BY <1>3, <1>4 DEF BeginCycle
  <1>5. ASSUME NEW es \in EventLists, RecordEvent(es) PROVE UNCHANGED Abstract!vars
    BY <1>3, <1>5 DEF RecordEvent
  <1>6. CASE EndCycle
    <2> DEFINE c == Parse(Append(current, BR), 0)
               U == Cycles(Nodes) \cup {c}
    <2>1. state' = state /\ logged' = Append(logged, c)
      BY <1>6 DEF EndCycle
    <2>2. Recorded' = Append(Recorded, c)
      BY <1>1, <2>1 DEF Recorded
    <2>3. Recorded \in Seq(U)
      <3>1. IndexLog(writer) \in Seq(Cycles(Nodes))
        BY <1>1, FiledOK
      <3> DEFINE C == Cycles(Nodes)
      <3> HIDE DEF C, c
      <3>2. IndexLog(writer) \in Seq(C \cup {c})
        BY <3>1 DEF C
      <3> QED BY <1>1, <3>2 DEF C
    <2>4. c \in U
      OBVIOUS
    <2> DEFINE s == Recorded
    <2> HIDE DEF U, c, s
    <2>5. /\ Len(Append(s, c)) = Len(s) + 1 /\ Append(s, c) = s \o <<c>>
          /\ <<c>> \in Seq(U)
      BY <2>3, <2>4, AppendProperties, AppendIsConcat DEF s
    <2>6. IsPrefix(s, Append(s, c))
      BY <2>3, <2>5, PrefixOfConcat DEF s
    <2>7. Abstract!Record
      BY <1>1, <1>2, <2>1, <2>2, <2>5, <2>6 DEF Abstract!Record, s,
         IsPrefix, Abstract!IsPrefix
    <2> QED BY <2>7 DEF Abstract!Next
  <1>7. CASE Close
    <2>1. state' = "closed" /\ writer' = FlushData(writer)
      BY <1>7 DEF Close
    <2>2. IndexLog(writer') = IndexLog(writer)
      BY <1>1, <2>1, Flushed
    <2>3. Recorded' = Recorded
      BY <1>1, <2>1, <2>2 DEF Recorded
    <2>4. Abstract!Close
      BY <1>1, <1>2, <2>1, <2>3 DEF Abstract!Close
    <2> QED BY <2>4 DEF Abstract!Next
  <1>8. ASSUME Exit \/ Kill PROVE Abstract!Next
    <2>1. state' = "closed"
      BY <1>8 DEF Exit, Kill
    <2>2. IsPrefix(IndexLog(writer'), IndexLog(writer))
      BY <1>8, Cuts
    <2>3. Recorded' = IndexLog(writer')
      BY <2>1 DEF Recorded
    <2>4. Abstract!Crash
      BY <1>1, <1>2, <2>1, <2>2, <2>3 DEF Abstract!Crash, IsPrefix,
         Abstract!IsPrefix
    <2> QED BY <2>4 DEF Abstract!Next
  <1> QED BY <1>4, <1>5, <1>6, <1>7, <1>8 DEF LoggerStep

LEMMA ReaderRefines ==
    ASSUME Core, Core', Seen, Seen', ReaderStep
    PROVE  [Abstract!Next]_(Abstract!vars)
  <1>1. UNCHANGED <<config, current, writer, state, logged>>
    BY DEF ReaderStep
  <1>2. Recorded' = Recorded /\ Log' = Log /\ state' = state
    BY <1>1 DEF Recorded, Log
  <1>3. CASE reader' = reader
    <2>1. Reading' = Reading
      BY <1>3 DEF Reading
    <2>2. Position' = Position /\ Shown' = Shown
      BY <1>2, <1>3, <2>1 DEF Seen
    <2> QED BY <1>2, <2>2 DEF Abstract!vars
  <1>4. CASE Reading /\ reader' = NoReader
    <2>1. ~Reading' /\ Position # -1
      BY <1>4 DEF Reading, Seen
    <2>2. Abstract!Leave
      BY <1>2, <2>1 DEF Abstract!Leave, Abstract!Away, Seen
    <2> QED BY <2>2 DEF Abstract!Next
  <1>5. ASSUME ReaderOK(reader')
        PROVE  /\ Reading' /\ Len(Log) \in Nat
               /\ Position' = reader'.cycle /\ reader'.cycle \in 0 .. Len(Log)
               /\ Recorded = Log
               /\ Shown' = Abstract!ShownAt(Position')
    <2>1. Reading'
      BY <1>5 DEF Reading, NoReader, ReaderOK
    <2>2. /\ Recorded = Log /\ Len(Log) \in Nat
          /\ Position' = reader'.cycle /\ reader'.cycle \in 0 .. Len(Log)
          /\ Shown' = IF reader'.cycle \in 0 .. Len(Log) - 1
                      THEN <<Log[reader'.cycle + 1]>> ELSE <<>>
      BY <1>2, <2>1 DEF Seen
    <2>3. Shown' = Abstract!ShownAt(Position')
      BY <2>2 DEF Abstract!ShownAt
    <2> QED BY <2>1, <2>2, <2>3
  <1>6. CASE ~Reading /\ state = "closed" /\ ReaderOK(reader')
    <2>1. Position = -1
      BY <1>6 DEF Seen
    <2>2. Abstract!Open
      BY <1>2, <1>5, <1>6, <2>1 DEF Abstract!Open, Abstract!Away
    <2> QED BY <2>2 DEF Abstract!Next
  <1>7. CASE /\ Reading /\ ~IsEnd(reader)
             /\ ReaderOK(reader') /\ reader.cycle <= reader'.cycle
    <2>1. /\ Position = reader.cycle /\ reader.cycle \in 0 .. Len(Log)
          /\ reader.cycle # Len(Log)
      BY <1>7 DEF Seen
    <2>2. Position # -1 /\ Position < Len(Recorded)
          /\ Position' \in Position .. Len(Recorded)
      BY <1>5, <1>7, <2>1
    <2>3. Abstract!Move
      BY <1>2, <1>5, <1>7, <2>2 DEF Abstract!Move, Abstract!Away
    <2> QED BY <2>3 DEF Abstract!Next
  <1> QED BY <1>3, <1>4, <1>6, <1>7 DEF ReaderStep

\* The whole of IsALog: from the writer's first record, across any number of
\* files and any end of the process, to the reader's steps and skips.
THEOREM RefinesLog == Spec => IsALog
  <1>1. Core /\ Core' /\ Seen /\ Seen' /\ [Next]_vars
          => [Abstract!Next]_(Abstract!vars)
    BY StepKinds, LoggerRefines, ReaderRefines
  <1> QED BY <1>1, CoreInvariant, ReaderIsSeen, InitRefines, PTL
          DEF Spec, IsALog, Abstract!Spec

-----------------------------------------------------------------------------
(* rafi-conv.                                                              *)

LEMMA GreatestElement ==
    ASSUME NEW n \in Nat, NEW S, S \subseteq 0 .. n, S # {}
    PROVE  \E x \in S : \A y \in S : y <= x
  <1> DEFINE R == {n - x : x \in S}
  <1>2. \A y \in S : n - y \in R /\ n - y \in Nat
    OBVIOUS
  <1>1. R \subseteq Nat /\ R # {}
    <2>1. ASSUME NEW z \in R PROVE z \in Nat
      <3>1. PICK x \in S : z = n - x
        OBVIOUS
      <3> QED BY <1>2, <3>1
    <2>2. PICK x \in S : TRUE
      OBVIOUS
    <2> HIDE DEF R
    <2> QED BY <1>2, <2>1, <2>2
  <1> HIDE DEF R
  <1>3. PICK z \in R : \A y \in R : z <= y
    BY <1>1, LeastElement
  <1>4. PICK x \in S : z = n - x
    BY DEF R
  <1>5. ASSUME NEW y \in S PROVE y <= x
    BY <1>2, <1>3, <1>4
  <1> QED BY <1>5

LEMMA NewestIsValue ==
    ASSUME NEW s \in Seq(Nodes), NEW id
    PROVE  NewestOf(s, id) \in Values
  <1> DEFINE own == {i \in DOMAIN s : s[i].id = id}
  <1>1. DOMAIN s = 1 .. Len(s) /\ Len(s) \in Nat
    BY LenProperties
  <1>2. CASE own = {}
    BY <1>2 DEF NewestOf, Values
  <1>3. CASE own # {}
    <2>1. own \subseteq 0 .. Len(s)
      BY <1>1
    <2>2. \E x \in own : \A y \in own : y <= x
      <3> HIDE DEF own
      <3> QED BY <1>1, <1>3, <2>1, GreatestElement
    <2>3. PICK i \in own : NewestOf(s, id) = s[i].v
      BY <1>3, <2>2 DEF NewestOf
    <2>4. s[i] \in Nodes
      BY <1>1, ElementOfSeq
    <2> QED BY <2>3, <2>4 DEF Nodes
  <1> QED BY <1>2, <1>3

\* t is s with x behind it.
Extends(t, s, x, U) ==
    /\ t \in Seq(U) /\ Len(t) = Len(s) + 1 /\ t[Len(s) + 1] = x
    /\ \A i \in 1 .. Len(s) : t[i] = s[i]

LEMMA Appended ==
    ASSUME NEW U, NEW s \in Seq(U), NEW x \in U
    PROVE  Extends(s \o <<x>>, s, x, U)
  BY AppendProperties, AppendIsConcat DEF Extends

LEMMA ConvertedOK ==
    ASSUME NEW c \in Cycles(Nodes)
    PROVE  LET r == Converted(c)
           IN  /\ IsRecord(r, Nodes) /\ Len(r) <= MaxFileSize
               /\ CycleOf(r) \in Cycles(Nodes)
               /\ CycleOf(r).pc = c.pc /\ CycleOf(r).reg = c.reg
  <1> DEFINE r == Converted(c)
             a == Node("BA", c.pc)
             b == Node("IN", c.reg)
  <1>1. c.pc \in Values /\ c.reg \in Values
    <2>1. PICK s \in Seq(Nodes) : c = CycleOf(s)
      BY DEF Cycles
    <2>2. c.pc = NewestOf(s, "BA") /\ c.reg = NewestOf(s, "IN")
      BY <2>1 DEF CycleOf
    <2> QED BY <2>2, NewestIsValue
  <1>2. a \in Nodes /\ b \in Nodes /\ BR \in Nodes
    BY <1>1 DEF Nodes, Node, BR, Values
  <1>3. /\ a.id = "BA" /\ a.v = c.pc /\ b.id = "IN" /\ b.v = c.reg
        /\ BR.id = "BR" /\ MaxFileSize \in Nat /\ MaxFileSize >= 3
    BY SizeAssumption, SizesAssumption DEF Node, BR
  <1>4. r = IF c.reg # <<>> THEN <<a>> \o <<b>> \o <<BR>> ELSE <<a>> \o <<>> \o <<BR>>
    BY DEF Converted
  <1> HIDE DEF r, a, b
  <1>5. CASE c.reg # <<>>
    <2> DEFINE s == <<a>>
               t == s \o <<b>>
    <2>1. s \in Seq(Nodes) /\ Len(s) = 1 /\ s[1] = a
      BY <1>2
    <2> HIDE DEF s
    <2>7. t \in Seq(Nodes) /\ Len(t) = 2 /\ t[1] = a /\ t[2] = b
      <3>1. Extends(t, s, b, Nodes)
        BY <1>2, <2>1, Appended, Zenon
      <3> HIDE DEF t
      <3>2. 1 \in 1 .. Len(s)
        BY <2>1
      <3> QED BY <2>1, <3>1, <3>2 DEF Extends
    <2> HIDE DEF t
    <2>8. r = t \o <<BR>>
      BY <1>4, <1>5 DEF s, t
    <2>2. Len(r) = 3 /\ r[1] = a /\ r[2] = b /\ r[3] = BR /\ r \in Seq(Nodes)
          /\ DOMAIN r = 1 .. 3
      <3>1. Extends(r, t, BR, Nodes)
        BY <1>2, <2>7, <2>8, Appended, Zenon
      <3>2. 1 \in 1 .. Len(t) /\ 2 \in 1 .. Len(t)
        BY <2>7
      <3> QED BY <2>7, <3>1, <3>2, LenProperties DEF Extends
    <2>3. {i \in DOMAIN r : r[i].id = "BA"} = {1}
      BY <1>3, <2>2
    <2>4. {i \in DOMAIN r : r[i].id = "IN"} = {2}
      BY <1>3, <2>2
    <2>5. NewestOf(r, "BA") = c.pc /\ NewestOf(r, "IN") = c.reg
      BY <1>3, <2>2, <2>3, <2>4 DEF NewestOf
    <2>6. IsRecord(r, Nodes)
      BY <1>3, <2>2 DEF IsRecord
    <2> QED BY <1>3, <2>2, <2>5, <2>6 DEF r, CycleOf, Cycles
  <1>6. CASE c.reg = <<>>
    <2> DEFINE s == <<a>>
    <2>1. s \in Seq(Nodes) /\ Len(s) = 1 /\ s[1] = a
      BY <1>2
    <2> HIDE DEF s
    <2>7. s \o <<>> = s
      BY <2>1, ConcatEmptySeq
    <2>8. r = s \o <<BR>>
      BY <1>4, <1>6, <2>7 DEF s
    <2>2. Len(r) = 2 /\ r[1] = a /\ r[2] = BR /\ r \in Seq(Nodes)
          /\ DOMAIN r = 1 .. 2
      <3>1. Extends(r, s, BR, Nodes)
        BY <1>2, <2>1, <2>8, Appended, Zenon
      <3>2. 1 \in 1 .. Len(s)
        BY <2>1
      <3> QED BY <2>1, <3>1, <3>2, LenProperties DEF Extends
    <2>3. {i \in DOMAIN r : r[i].id = "BA"} = {1}
      BY <1>3, <2>2
    <2>4. {i \in DOMAIN r : r[i].id = "IN"} = {}
      BY <1>3, <2>2
    <2>5. NewestOf(r, "BA") = c.pc /\ NewestOf(r, "IN") = c.reg
      BY <1>3, <1>6, <2>2, <2>3, <2>4 DEF NewestOf
    <2>6. IsRecord(r, Nodes)
      BY <1>3, <2>2 DEF IsRecord
    <2> QED BY <1>3, <2>2, <2>5, <2>6 DEF r, CycleOf, Cycles
  <1> QED BY <1>5, <1>6

\* What the tools know of the record under their reader.
LEMMA UnderReader ==
    ASSUME Core, Seen, Reading, ~IsEnd(reader)
    PROVE  /\ reader.cycle \in Nat /\ reader.cycle + 1 \in 1 .. Len(Log)
           /\ Len(Log) \in Nat
           /\ GetCycle(reader) = Log[reader.cycle + 1]
           /\ GetCycle(reader) \in Cycles(Nodes)
           /\ Next1(reader).cycle = reader.cycle + 1
  <1>1. WriterOK(writer, Nodes) /\ ReaderOK(reader)
    BY DEF Core
  <1>2. reader.cycle \in Nat /\ Len(Log) \in Nat
    BY DEF Seen
  <1> QED BY <1>1, <1>2, ShowsLog, NextMoves

\* The records of the new trace are those in front of the reader.
ConvOK ==
    /\ tool = [name |-> "conv", out |-> tool.out, running |-> tool.running]
    /\ WriterOK(tool.out, Nodes)
    /\ Len(IndexLog(tool.out)) = reader.cycle
    /\ \A i \in 1 .. reader.cycle : /\ IndexLog(tool.out)[i].pc = Log[i].pc
                                    /\ IndexLog(tool.out)[i].reg = Log[i].reg
    /\ tool.running \in BOOLEAN /\ (~tool.running => IsEnd(reader))

LEMMA ConvStarts ==
    ASSUME ConvStart
    PROVE  ConvOK'
  <1>1. tool' = [name |-> "conv", out |-> NewWriter, running |-> TRUE]
        /\ reader'.cycle = 0
    BY DEF ConvStart
  <1>2. WriterOK(NewWriter, Nodes) /\ IndexLog(NewWriter) = <<>> /\ Len(<<>>) = 0
    BY NewWriterOK, EmptySeq
  <1> QED BY <1>1, <1>2 DEF ConvOK

LEMMA ConvSteps ==
    ASSUME Core, Seen, Reading, ConvOK, ConvStep
    PROVE  ConvOK'
  <1> DEFINE out == IndexLog(tool.out)
  <1>1. /\ WriterOK(tool.out, Nodes) /\ MaxFileSize \in Nat
        /\ writer' = writer /\ Log' = Log
        /\ tool = [name |-> "conv", out |-> tool.out, running |-> tool.running]
    BY SizeAssumption DEF ConvOK, ConvStep, Log
  <1>2. CASE IsEnd(reader)
    <2>1. /\ tool' = [tool EXCEPT !.out = FlushData(@), !.running = FALSE]
          /\ reader' = reader
      BY <1>2 DEF ConvStep
    <2>2. tool' = [name |-> "conv", out |-> FlushData(tool.out), running |-> FALSE]
      <3>1. PICK o, b : tool = [name |-> "conv", out |-> o, running |-> b]
        BY <1>1
      <3>2. tool' = [[name |-> "conv", out |-> o, running |-> b]
                        EXCEPT !.out = FlushData(@), !.running = FALSE]
        BY <2>1, <3>1, Zenon
      <3>3. tool.out = o
        BY <3>1
      <3> QED BY <3>2, <3>3
    <2>3. /\ WriterOK(FlushData(tool.out), Nodes)
          /\ IndexLog(FlushData(tool.out)) = out
      BY <1>1, Flushed
    <2>4. IsEnd(reader)'
      BY <1>1, <1>2, <2>1 DEF IsEnd, Entries
    <2>5. /\ tool'.name = "conv" /\ tool'.out = FlushData(tool.out)
          /\ tool'.running = FALSE
          /\ tool' = [name |-> "conv", out |-> tool'.out, running |-> tool'.running]
      BY <2>2
    <2>6. reader' = reader /\ Log' = Log
      BY <1>1, <2>1
    <2>7. WriterOK(tool.out, Nodes)'
      BY <2>3, <2>5
    <2> QED BY <1>1, <2>3, <2>4, <2>5, <2>6, <2>7 DEF ConvOK
  <1>3. CASE ~IsEnd(reader)
    <2> DEFINE c == GetCycle(reader)
               r == Converted(c)
               n == reader.cycle
    <2>1. /\ tool' = [tool EXCEPT !.out = Write(@, r)]
          /\ reader' = Next1(reader)
      BY <1>3 DEF ConvStep
    <2>2. /\ n \in Nat /\ n + 1 \in 1 .. Len(Log) /\ c = Log[n + 1]
          /\ c \in Cycles(Nodes) /\ reader'.cycle = n + 1
      BY <1>3, <2>1, UnderReader
    <2>3. /\ IsRecord(r, Nodes) /\ Len(r) <= MaxFileSize
          /\ CycleOf(r) \in Cycles(Nodes)
          /\ CycleOf(r).pc = c.pc /\ CycleOf(r).reg = c.reg
      BY <2>2, ConvertedOK
    <2> HIDE DEF c, r, n
    <2>4. tool' = [name |-> "conv", out |-> Write(tool.out, r), running |-> tool.running]
      BY <1>1, <2>1
    <2>5. /\ WriterOK(Write(tool.out, r), Nodes)
          /\ IndexLog(Write(tool.out, r)) = Append(out, CycleOf(r))
      BY <1>1, <2>3, Written
    <2>6. out \in Seq(Cycles(Nodes)) /\ Len(out) = n
      BY <1>1, FiledOK DEF ConvOK, n
    <2> DEFINE new == Append(out, CycleOf(r))
               U == Cycles(Nodes)
    <2> HIDE DEF out, U
    <2>7. /\ Len(new) = n + 1 /\ \A i \in 1 .. n : new[i] = out[i]
          /\ new[n + 1] = CycleOf(r)
      BY <2>3, <2>6, AppendProperties DEF U
    <2> HIDE DEF new
    <2>8. ASSUME NEW i \in 1 .. n + 1
          PROVE  new[i].pc = Log[i].pc /\ new[i].reg = Log[i].reg
      <3>1. CASE i = n + 1
        BY <2>2, <2>3, <2>7, <3>1
      <3>2. CASE i # n + 1
        <4>1. i \in 1 .. n
          BY <2>2, <3>2
        <4> QED BY <2>7, <4>1 DEF ConvOK, out, n
      <3> QED BY <3>1, <3>2
    <2>9. tool.running
      BY DEF ConvStep
    <2>10. IndexLog(tool'.out) = new /\ tool'.running = tool.running
           /\ tool'.out = Write(tool.out, r)
      BY <2>4, <2>5 DEF new
    <2>11. tool' = [name |-> "conv", out |-> tool'.out, running |-> tool'.running]
      BY <2>4
    <2> QED BY <1>1, <2>2, <2>5, <2>7, <2>8, <2>9, <2>10, <2>11 DEF ConvOK
  <1> QED BY <1>2, <1>3

-----------------------------------------------------------------------------
(* rafi-check-io.                                                          *)

CheckOK ==
    /\ tool = [name |-> "check", hostIo |-> tool.hostIo,
               verdict |-> tool.verdict, running |-> tool.running]
    /\ tool.hostIo = IF reader.cycle = 0 THEN <<0>> ELSE Log[reader.cycle].io
    /\ tool.running => tool.verdict = "none"
    /\ tool.verdict = "pass" => /\ IsEnd(reader)
                                /\ tool.hostIo = ExpectedHostIoValue

LEMMA CheckStarts ==
    ASSUME CheckStart
    PROVE  CheckOK'
  BY DEF CheckStart, CheckOK

LEMMA CheckSteps ==
    ASSUME Core, Seen, Reading, CheckOK, CheckStep
    PROVE  CheckOK'
  <1>1. PICK h, v, b : tool = [name |-> "check", hostIo |-> h, verdict |-> v,
                               running |-> b]
    BY DEF CheckOK
  <1>2. /\ h = tool.hostIo /\ v = tool.verdict /\ b = tool.running
        /\ writer' = writer /\ Log' = Log /\ tool.running
    BY <1>1 DEF CheckStep, Log
  <1>3. v = "none"
    BY <1>2 DEF CheckOK
  <1> DEFINE t == [name |-> "check", hostIo |-> h, verdict |-> v, running |-> b]
  <1>4. CASE IsEnd(reader)
    <2>1. /\ reader' = reader
          /\ tool' = [t EXCEPT !.running = FALSE, !.verdict =
                         IF h = ExpectedHostIoValue THEN "pass" ELSE "failed"]
      BY <1>1, <1>2, <1>4 DEF CheckStep
    <2>2. tool' = [name |-> "check", hostIo |-> h, running |-> FALSE,
                   verdict |-> IF h = ExpectedHostIoValue THEN "pass" ELSE "failed"]
      BY <2>1
    <2>3. IsEnd(reader)'
      BY <1>2, <1>4, <2>1 DEF IsEnd, Entries
    <2> QED BY <1>2, <2>1, <2>2, <2>3 DEF CheckOK
  <1>5. CASE ~IsEnd(reader) /\ GetCycle(reader).io = <<>>
    <2>1. reader' = reader
          /\ tool' = [t EXCEPT !.running = FALSE, !.verdict = "crash"]
      BY <1>1, <1>5 DEF CheckStep
    <2>2. tool' = [name |-> "check", hostIo |-> h, running |-> FALSE,
                   verdict |-> "crash"]
      BY <2>1
    <2> QED BY <1>2, <2>1, <2>2 DEF CheckOK
  <1>6. CASE ~IsEnd(reader) /\ GetCycle(reader).io # <<>>
    <2>1. reader' = Next1(reader)
          /\ tool' = [t EXCEPT !.hostIo = GetCycle(reader).io]
      BY <1>1, <1>6 DEF CheckStep
    <2>2. tool' = [name |-> "check", hostIo |-> GetCycle(reader).io,
                   running |-> b, verdict |-> v]
      BY <2>1
    <2>3. /\ reader.cycle \in Nat /\ reader'.cycle = reader.cycle + 1
          /\ GetCycle(reader) = Log[reader.cycle + 1]
      BY <1>6, <2>1, UnderReader
    <2>4. reader'.cycle # 0 /\ GetCycle(reader) = Log[reader'.cycle]
      BY <2>3
    <2> QED BY <1>2, <1>3, <2>2, <2>4 DEF CheckOK
  <1> QED BY <1>4, <1>5, <1>6

-----------------------------------------------------------------------------
(* rafi-dump.                                                              *)

LEMMA MinOfTwo ==
    ASSUME NEW a \in Int, NEW b \in Int
    PROVE  Min({a, b}) = IF a <= b THEN a ELSE b
  BY DEF Min

\* p lists the records whose places are in S.
Lists(p, S, log) ==
    /\ Len(p) = Cardinality(S)
    /\ \A j \in S : p[Cardinality({x \in S : x <= j})] = log[j]

LEMMA ListsMore ==
    ASSUME NEW U, NEW p \in Seq(U), NEW c \in Nat, NEW S, S \subseteq 1 .. c,
           NEW log, Lists(p, S, log), log[c + 1] \in U
    PROVE  Lists(Append(p, log[c + 1]), S \cup {c + 1}, log)
  <1> DEFINE q == Append(p, log[c + 1])
             R == S \cup {c + 1}
             Upto(Q, j) == {x \in Q : x <= j}
  <1>1. IsFiniteSet(S) /\ c + 1 \notin S
    <2>1. IsFiniteSet(1 .. c)
      BY FS_Interval
    <2>2. IsFiniteSet(S)
      BY <2>1, FS_Subset
    <2> QED BY <2>2
  <1>2. Cardinality(R) = Cardinality(S) + 1 /\ Cardinality(S) \in Nat
    BY <1>1, FS_AddElement, FS_CardinalityType
  <1>3. Len(p) \in Nat /\ Len(p) = Cardinality(S)
    BY LenProperties DEF Lists
  <1>4. /\ Len(q) = Len(p) + 1 /\ q[Len(p) + 1] = log[c + 1]
        /\ \A i \in 1 .. Len(p) : q[i] = p[i]
    BY AppendProperties
  <1> HIDE DEF q
  <1>5. ASSUME NEW j \in R
        PROVE  q[Cardinality(Upto(R, j))] = log[j]
    <2>1. CASE j = c + 1
      <3>1. Upto(R, j) = R
        <4>1. \A x \in R : x <= j
          BY <2>1
        <4> HIDE DEF R
        <4> QED BY <4>1
      <3> HIDE DEF Upto, R
      <3> QED BY <1>2, <1>3, <1>4, <2>1, <3>1
    <2>2. CASE j # c + 1
      <3>1. j \in S /\ Upto(R, j) = Upto(S, j) /\ j \in Upto(S, j)
            /\ Upto(S, j) \subseteq S
        BY <2>2
      <3> DEFINE V == Upto(S, j)
      <3>2. p[Cardinality(V)] = log[j]
        BY <3>1 DEF Lists
      <3> HIDE DEF Upto, R, V
      <3>3. IsFiniteSet(V) /\ Cardinality(V) \in Nat /\ Cardinality(V) <= Cardinality(S)
        BY <1>1, <3>1, FS_Subset, FS_CardinalityType DEF V
      <3>4. Cardinality(V) # 0
        BY <3>1, <3>3, FS_EmptySet DEF V
      <3>5. Cardinality(V) \in 1 .. Len(p)
        BY <1>2, <1>3, <3>3, <3>4
      <3> QED BY <1>4, <3>1, <3>2, <3>5 DEF V
    <2> QED BY <2>1, <2>2
  <1> QED BY <1>2, <1>3, <1>4, <1>5 DEF Lists, q

DumpOK ==
    /\ tool = [name |-> "dump", options |-> tool.options, filter |-> tool.filter,
               i |-> tool.i, printed |-> tool.printed,
               running |-> tool.running, failed |-> tool.failed]
    /\ tool.options \in DumpOptions
    /\ tool.failed <=> tool.options.begin > 0 /\ tool.options.begin >= Len(Log)
    /\ tool.printed \in Seq(Cycles(Nodes))
    /\ Lists(tool.printed, Passing(reader.cycle), Log)
    /\ tool.running => ~tool.failed
    /\ ~tool.failed => /\ tool.i = reader.cycle /\ tool.options.begin <= tool.i
                       /\ \/ tool.i = tool.options.begin
                          \/ tool.i <= DumpEnd(tool.options)
    /\ ~tool.failed /\ ~tool.running => \/ tool.i >= DumpEnd(tool.options)
                                        \/ IsEnd(reader)

LEMMA DumpStarts ==
    ASSUME Core, NEW o \in DumpOptions, NEW f \in Filters, DumpStart(o, f)
    PROVE  DumpOK'
  <1> DEFINE ok == o.begin = 0 \/ CanSkip(First, o.begin)
             none == <<>>
             S == Passing(reader.cycle)'
  <1>1. /\ state = "closed" /\ writer' = writer /\ Log' = Log
        /\ reader' = IF o.begin > 0 /\ ok THEN SkipTo(First, o.begin) ELSE First
        /\ tool' = [name |-> "dump", options |-> o, filter |-> f, i |-> o.begin,
                    printed |-> none, running |-> ok, failed |-> ~ok]
    BY DEF DumpStart, First, Log
  <1>2. o.begin \in Nat /\ o.count \in Int /\ o.end \in Int
    BY SizesAssumption
  <1>3. /\ WriterOK(writer, Nodes) /\ ReaderOK(First) /\ First.cycle = 0
        /\ Log = Filed(writer, Len(Entries)) /\ Len(Log) \in Nat
    BY <1>1, FirstOK, ClosedLog DEF Core, Log, Entries, First
  <1>4. /\ CanSkip(First, o.begin) <=> o.begin < Len(Log)
        /\ CanSkip(First, o.begin) => SkipTo(First, o.begin).cycle = o.begin
    BY <1>2, <1>3, Skips
  <1>5. none \in Seq(Cycles(Nodes)) /\ Len(none) = 0
    BY EmptySeq
  <1> HIDE DEF none
  <1>6. reader'.cycle \in 0 .. o.begin /\ (ok => reader'.cycle = o.begin)
    BY <1>1, <1>2, <1>3, <1>4
  <1>7. S = {}
    <2>1. o.begin + 1 .. reader'.cycle = {}
      BY <1>2, <1>6
    <2>2. tool'.options.begin = o.begin
      BY <1>1
    <2> QED BY <2>1, <2>2 DEF Passing
  <1>8. Lists(tool'.printed, S, Log)
    <2>1. Cardinality({}) = 0
      BY FS_EmptySet
    <2>2. tool'.printed = none
      BY <1>1
    <2> HIDE DEF S
    <2> QED BY <1>5, <1>7, <2>1, <2>2 DEF Lists
  <1>9. CASE ok
    <2>1. tool' = [name |-> "dump", options |-> o, filter |-> f, i |-> o.begin,
                   printed |-> none, running |-> TRUE, failed |-> FALSE]
      BY <1>1, <1>9
    <2>2. ~(o.begin > 0 /\ o.begin >= Len(Log))
      BY <1>2, <1>3, <1>4, <1>9
    <2> HIDE DEF ok
    <2> QED BY <1>1, <1>2, <1>5, <1>6, <1>8, <1>9, <2>1, <2>2 DEF DumpOK, S
  <1>10. CASE ~ok
    <2>1. tool' = [name |-> "dump", options |-> o, filter |-> f, i |-> o.begin,
                   printed |-> none, running |-> FALSE, failed |-> TRUE]
      BY <1>1, <1>10
    <2>2. o.begin > 0 /\ o.begin >= Len(Log)
      BY <1>2, <1>3, <1>4, <1>10
    <2> HIDE DEF ok
    <2> QED BY <1>1, <1>5, <1>8, <2>1, <2>2 DEF DumpOK, S
  <1> QED BY <1>9, <1>10

LEMMA DumpSteps ==
    ASSUME Core, Seen, Reading, DumpOK, DumpStep
    PROVE  DumpOK'
  <1>1. PICK o, f, i, p, b, x :
           tool = [name |-> "dump", options |-> o, filter |-> f, i |-> i,
                   printed |-> p, running |-> b, failed |-> x]
    BY DEF DumpOK
  <1>2. /\ o = tool.options /\ f = tool.filter /\ i = tool.i /\ p = tool.printed
        /\ b = tool.running /\ x = tool.failed
        /\ writer' = writer /\ Log' = Log /\ tool.running /\ ~tool.failed
    BY <1>1 DEF DumpStep, DumpOK, Log
  <1>3. /\ o \in DumpOptions /\ p \in Seq(Cycles(Nodes))
        /\ i = reader.cycle /\ o.begin <= i
        /\ i = o.begin \/ i <= DumpEnd(o)
        /\ ~(o.begin > 0 /\ o.begin >= Len(Log))
        /\ Lists(p, Passing(i), Log)
    BY <1>2 DEF DumpOK
  <1>4. o.begin \in Nat /\ DumpEnd(o) \in Int
    <2>1. o.begin \in Nat /\ o.count \in Int /\ o.end \in Int
      BY <1>3, SizesAssumption
    <2>2. o.begin + o.count \in Int
      BY <2>1
    <2> QED BY <2>1, <2>2, MinOfTwo DEF DumpEnd
  <1> DEFINE t == [name |-> "dump", options |-> o, filter |-> f, i |-> i,
                   printed |-> p, running |-> b, failed |-> x]
  <1>5. CASE i < DumpEnd(o) /\ ~IsEnd(reader)
    <2> DEFINE c == GetCycle(reader)
               q == IF Apply(f, c) THEN Append(p, c) ELSE p
    <2>1. /\ reader' = Next1(reader)
          /\ tool' = [t EXCEPT !.i = @ + 1,
                               !.printed = IF Apply(f, c) THEN Append(@, c) ELSE @]
      BY <1>1, <1>2, <1>5 DEF DumpStep
    <2>2. tool' = [name |-> "dump", options |-> o, filter |-> f, i |-> i + 1,
                   printed |-> q, running |-> b, failed |-> x]
      BY <2>1
    <2>3. /\ i \in Nat /\ i + 1 \in 1 .. Len(Log) /\ c = Log[i + 1]
          /\ c \in Cycles(Nodes) /\ reader'.cycle = i + 1
      BY <1>3, <1>5, <2>1, UnderReader
    <2> HIDE DEF c
    <2> DEFINE S == Passing(i)
    <2>4. Passing(reader.cycle)'
             = IF Apply(f, c) THEN S \cup {i + 1} ELSE S
      <3>1. Passing(reader.cycle)' = {j \in o.begin + 1 .. i + 1 : Apply(f, Log[j])}
        BY <1>2, <2>2, <2>3 DEF Passing
      <3>2. S = {j \in o.begin + 1 .. i : Apply(f, Log[j])}
        BY <1>2 DEF Passing
      <3>3. o.begin + 1 .. i + 1 = (o.begin + 1 .. i) \cup {i + 1}
        BY <1>3, <1>4, <2>3
      <3> HIDE DEF S
      <3> QED BY <2>3, <3>1, <3>2, <3>3
    <2>5. S \subseteq 1 .. i
      BY <1>2, <1>4, <2>3 DEF Passing
    <2>6. q \in Seq(Cycles(Nodes)) /\ Lists(q, Passing(reader.cycle)', Log)
      <3> DEFINE U == Cycles(Nodes)
                 R == Passing(reader.cycle)'
      <3>1. R = IF Apply(f, c) THEN S \cup {i + 1} ELSE S
        BY <2>4
      <3>2. Lists(p, S, Log) /\ p \in Seq(U) /\ c \in U
        BY <1>3, <2>3
      <3> HIDE DEF S, U, R
      <3>3. CASE Apply(f, c)
        <4>1. Lists(Append(p, Log[i + 1]), S \cup {i + 1}, Log)
          BY <2>3, <2>5, <3>2, ListsMore
        <4>2. Append(p, c) \in Seq(U)
          BY <3>2, AppendProperties
        <4> QED BY <2>3, <3>1, <3>3, <4>1, <4>2 DEF R, U
      <3>4. CASE ~Apply(f, c)
        BY <3>1, <3>2, <3>4 DEF R, U
      <3> QED BY <3>3, <3>4
    <2> HIDE DEF q
    <2>7. /\ tool'.options = o /\ tool'.i = i + 1 /\ tool'.printed = q
          /\ tool'.running = b /\ tool'.failed = x
      BY <2>2
    <2>8. ~x /\ b
      BY <1>2
    <2>9. tool' = [name |-> "dump", options |-> tool'.options,
                   filter |-> tool'.filter, i |-> tool'.i,
                   printed |-> tool'.printed, running |-> tool'.running,
                   failed |-> tool'.failed]
      BY <2>2
    <2>10. /\ tool'.i = reader'.cycle /\ tool'.options.begin <= tool'.i
           /\ tool'.i <= DumpEnd(tool'.options)
      BY <1>3, <1>4, <1>5, <2>3, <2>7
    <2> QED BY <1>2, <1>3, <2>6, <2>7, <2>8, <2>9, <2>10 DEF DumpOK
  <1>6. CASE ~(i < DumpEnd(o) /\ ~IsEnd(reader))
    <2>1. reader' = reader /\ tool' = [t EXCEPT !.running = FALSE]
      BY <1>1, <1>2, <1>6 DEF DumpStep
    <2>2. tool' = [name |-> "dump", options |-> o, filter |-> f, i |-> i,
                   printed |-> p, running |-> FALSE, failed |-> x]
      BY <2>1
    <2>3. /\ tool'.options = o /\ tool'.filter = f /\ tool'.i = i /\ tool'.printed = p
          /\ tool'.running = FALSE /\ tool'.failed = x
      BY <2>2
    <2>4. Passing(reader.cycle)' = Passing(i)
      BY <1>2, <1>3, <2>1, <2>3 DEF Passing
    <2>5. i >= DumpEnd(o) \/ IsEnd(reader)'
      <3>1. i \in Int
        BY <1>3 DEF Seen
      <3>2. i >= DumpEnd(o) \/ IsEnd(reader)
        BY <1>4, <1>6, <3>1
      <3> QED BY <1>2, <2>1, <3>2 DEF IsEnd, Entries
    <2>6. ~x /\ i = reader'.cycle
      BY <1>2, <1>3, <2>1
    <2>7. tool' = [name |-> "dump", options |-> tool'.options,
                   filter |-> tool'.filter, i |-> tool'.i,
                   printed |-> tool'.printed, running |-> tool'.running,
                   failed |-> tool'.failed]
      BY <2>2
    <2> QED BY <1>2, <1>3, <2>3, <2>4, <2>5, <2>6, <2>7 DEF DumpOK
  <1> QED BY <1>5, <1>6

LEMMA DumpReports ==
    ASSUME Core, Seen, Reading, DumpOK
    PROVE  DumpIsSlice
  <1> DEFINE o == tool.options
             m == Min({DumpEnd(o), Len(Log)})
             n == reader.cycle
  <1>1. SUFFICES ASSUME ~tool.running PROVE Passing(m) = Passing(n)
    BY DEF DumpOK, DumpIsSlice, Lists
  <1>2. /\ o.begin \in Nat /\ DumpEnd(o) \in Int /\ Len(Log) \in Nat
        /\ n \in 0 .. Len(Log)
    <2>1. o.begin \in Nat /\ o.count \in Int /\ o.end \in Int
      BY SizesAssumption DEF DumpOK
    <2>2. o.begin + o.count \in Int
      BY <2>1
    <2> QED BY <2>1, <2>2, MinOfTwo DEF DumpEnd, Seen
  <1>3. m = IF DumpEnd(o) <= Len(Log) THEN DumpEnd(o) ELSE Len(Log)
    BY <1>2, MinOfTwo
  <1>4. o.begin + 1 .. m = o.begin + 1 .. n
    <2>1. CASE tool.failed
      <3>1. o.begin >= Len(Log)
        BY <2>1 DEF DumpOK
      <3> HIDE DEF o, m, n
      <3> QED BY <1>2, <1>3, <3>1
    <2>2. CASE ~tool.failed
      <3>1. /\ tool.i = n /\ o.begin <= tool.i
            /\ tool.i = o.begin \/ tool.i <= DumpEnd(o)
            /\ tool.i >= DumpEnd(o) \/ n = Len(Log)
        BY <1>1, <2>2 DEF DumpOK, Seen
      <3> HIDE DEF o, m, n
      <3> QED BY <1>2, <1>3, <3>1
    <2> QED BY <2>1, <2>2
  <1> HIDE DEF m, n
  <1> QED BY <1>4 DEF Passing

-----------------------------------------------------------------------------
(* rafi-diff.                                                              *)

\* Where the search for the k-th expected record begins, and whether record
\* j of the log is one that it may be matched with.
From(m, k) == IF k = 1 THEN 0 ELSE m[k - 1] + 1
Fits(e, k, j) ==
    LET x == ExpectCycle(e, k)
        y == Log[j + 1]
    IN  x.pc = y.pc /\ x.reg = y.reg /\ y.reg # <<>>

\* The k-th match is the earliest record that fits, the others are reported.
Earliest(e, m, reported, k) ==
    /\ m[k] >= From(m, k) /\ Fits(e, k, m[k])
    /\ \A j \in From(m, k) .. m[k] - 1 : ~Fits(e, k, j) /\ j \in reported

Aligned(e, i, m, reported) ==
    /\ m \in Seq(Nat) /\ i \in Nat /\ reported \subseteq 0 .. i - 1
    /\ \A k \in 1 .. Len(m) : m[k] < i /\ m[k] \notin reported
    /\ \A k \in 1 .. Len(m) : Earliest(e, m, reported, k)
    /\ From(m, Len(m) + 1) <= i
    /\ \A j \in From(m, Len(m) + 1) .. i - 1 :
          ~Fits(e, Len(m) + 1, j) /\ j \in reported
    /\ Len(m) + Cardinality(reported) = i

LEMMA FromType ==
    ASSUME NEW m \in Seq(Nat), NEW k \in 1 .. Len(m) + 1
    PROVE  From(m, k) \in Nat
  <1>1. Len(m) \in Nat
    BY LenProperties
  <1>2. k # 1 => k - 1 \in 1 .. Len(m)
    BY <1>1
  <1>3. \A i \in 1 .. Len(m) : m[i] \in Nat
    BY ElementOfSeq
  <1> QED BY <1>2, <1>3 DEF From

LEMMA Matched ==
    ASSUME NEW e, NEW i, NEW m, NEW reported, Aligned(e, i, m, reported),
           Fits(e, Len(m) + 1, i)
    PROVE  Aligned(e, i + 1, Append(m, i), reported)
  <1> DEFINE n == Append(m, i)
             L == Len(m)
  <1>1. /\ m \in Seq(Nat) /\ i \in Nat /\ L \in Nat /\ reported \subseteq 0 .. i - 1
        /\ From(m, L + 1) <= i
    BY LenProperties DEF Aligned
  <1>2. /\ n \in Seq(Nat) /\ Len(n) = L + 1 /\ n[L + 1] = i
        /\ \A k \in 1 .. L : n[k] = m[k]
    BY <1>1, AppendProperties
  <1> HIDE DEF n
  <1>3. ASSUME NEW k \in 1 .. L + 1 PROVE From(n, k) = From(m, k)
    <2>1. k # 1 => k - 1 \in 1 .. L
      BY <1>1
    <2> QED BY <1>2, <2>1 DEF From
  <1>4. ASSUME NEW k \in 1 .. L + 1
        PROVE  /\ n[k] < i + 1 /\ n[k] \notin reported
               /\ Earliest(e, n, reported, k)
    <2>1. CASE k = L + 1
      <3>1. /\ \A j \in From(m, L + 1) .. i - 1 :
                  ~Fits(e, L + 1, j) /\ j \in reported
            /\ From(n, L + 1) = From(m, L + 1)
        BY <1>3, <2>1 DEF Aligned
      <3>2. Fits(e, L + 1, n[L + 1]) /\ n[L + 1] >= From(n, L + 1)
        BY <1>1, <1>2, <3>1, FromType
      <3>3. \A j \in From(n, L + 1) .. n[L + 1] - 1 :
               ~Fits(e, L + 1, j) /\ j \in reported
        BY <1>2, <3>1
      <3>4. i \notin reported /\ i < i + 1
        BY <1>1
      <3> QED BY <1>2, <2>1, <3>2, <3>3, <3>4 DEF Earliest
    <2>2. CASE k # L + 1
      <3>1. k \in 1 .. L
        BY <1>1, <2>2
      <3>2. /\ m[k] < i /\ m[k] \notin reported /\ Earliest(e, m, reported, k)
            /\ n[k] = m[k] /\ From(n, k) = From(m, k) /\ m[k] \in Nat
        BY <1>1, <1>2, <1>3, <3>1, ElementOfSeq DEF Aligned
      <3> QED BY <1>1, <3>2 DEF Earliest
    <2> QED BY <2>1, <2>2
  <1>5. From(n, Len(n) + 1) = i + 1
    <2>1. PICK k : k = Len(n) + 1
      OBVIOUS
    <2>2. k # 1 /\ k - 1 = L + 1
      BY <1>1, <1>2, <2>1
    <2>3. From(n, k) = i + 1
      BY <1>2, <2>2 DEF From
    <2> QED BY <2>1, <2>3
  <1>6. Len(n) + Cardinality(reported) = i + 1
    <2>1. Cardinality(reported) \in Nat
      <3>1. IsFiniteSet(0 .. i - 1)
        BY <1>1, FS_Interval
      <3> QED BY <1>1, <3>1, FS_Subset, FS_CardinalityType
    <2>2. L + Cardinality(reported) = i
      BY DEF Aligned
    <2> QED BY <1>1, <1>2, <2>1, <2>2
  <1>7. i + 1 \in Nat /\ reported \subseteq 0 .. i + 1 - 1
        /\ i + 1 .. i + 1 - 1 = {} /\ i + 1 <= i + 1
    BY <1>1
  <1> QED BY <1>2, <1>4, <1>5, <1>6, <1>7 DEF Aligned, n

LEMMA Mismatched ==
    ASSUME NEW e, NEW i, NEW m, NEW reported, Aligned(e, i, m, reported),
           ~Fits(e, Len(m) + 1, i)
    PROVE  Aligned(e, i + 1, m, reported \cup {i})
  <1> DEFINE L == Len(m)
             more == reported \cup {i}
  <1>1. /\ m \in Seq(Nat) /\ i \in Nat /\ L \in Nat /\ reported \subseteq 0 .. i - 1
        /\ From(m, L + 1) <= i
    BY LenProperties DEF Aligned
  <1>2. From(m, L + 1) \in Nat
    <2>1. L + 1 \in 1 .. L + 1
      BY <1>1
    <2> QED BY <1>1, <2>1, FromType
  <1>3. ASSUME NEW k \in 1 .. L
        PROVE  m[k] < i + 1 /\ m[k] \notin more /\ Earliest(e, m, more, k)
    <2>1. /\ m[k] < i /\ m[k] \notin reported /\ Earliest(e, m, reported, k)
          /\ m[k] \in Nat
      BY <1>1, ElementOfSeq DEF Aligned
    <2> QED BY <1>1, <2>1 DEF Earliest
  <1>4. ASSUME NEW j \in From(m, L + 1) .. i + 1 - 1
        PROVE  ~Fits(e, L + 1, j) /\ j \in more
    <2>1. CASE j = i
      BY <2>1
    <2>2. CASE j # i
      <3>1. j \in From(m, L + 1) .. i - 1
        BY <1>1, <1>2, <2>2
      <3> QED BY <3>1 DEF Aligned
    <2> QED BY <2>1, <2>2
  <1>5. L + Cardinality(more) = i + 1
    <2>1. IsFiniteSet(reported)
      <3>1. IsFiniteSet(0 .. i - 1)
        BY <1>1, FS_Interval
      <3> QED BY <1>1, <3>1, FS_Subset
    <2>2. i \notin reported
      BY <1>1
    <2>3. Cardinality(more) = Cardinality(reported) + 1 /\ Cardinality(reported) \in Nat
      BY <2>1, <2>2, FS_AddElement, FS_CardinalityType
    <2>4. L + Cardinality(reported) = i
      BY DEF Aligned
    <2> QED BY <1>1, <2>3, <2>4
  <1>6. i + 1 \in Nat /\ more \subseteq 0 .. i + 1 - 1 /\ From(m, L + 1) <= i + 1
    BY <1>1, <1>2
  <1> HIDE DEF more
  <1>7. Aligned(e, i + 1, m, more)
    BY <1>1, <1>3, <1>4, <1>5, <1>6 DEF Aligned
  <1> QED BY <1>7 DEF more

DiffOK ==
    /\ tool = [name |-> "diff", expect |-> tool.expect, count |-> tool.count,
               i |-> tool.i, ep |-> tool.ep, unmatched |-> tool.unmatched,
               reported |-> tool.reported, matched |-> tool.matched,
               running |-> tool.running]
    /\ tool.ep = Len(tool.matched) + 1
    /\ Aligned(tool.expect, tool.i, tool.matched, tool.reported)
    /\ tool.count \in Nat /\ tool.i <= tool.count
    /\ tool.running => tool.i = reader.cycle
    /\ ~tool.running => \/ ~Parses(tool.expect, Len(tool.matched) + 1)
                        \/ ~HasPc(tool.expect, Len(tool.matched) + 1)
                        \/ tool.i \in {tool.count, Len(Log)}
                        \/ tool.unmatched = Threshold

LEMMA DiffStarts ==
    ASSUME NEW e \in Expects, NEW count \in 0 .. MaxCycles, DiffStart(e, count)
    PROVE  DiffOK'
  <1> DEFINE none == <<>>
  <1>1. /\ tool' = [name |-> "diff", expect |-> e, count |-> count, i |-> 0,
                    ep |-> 1, unmatched |-> 0, reported |-> {}, matched |-> none,
                    running |-> TRUE]
        /\ reader'.cycle = 0 /\ Log' = Log
    BY DEF DiffStart, Log
  <1>2. none \in Seq(Nat) /\ Len(none) = 0
    BY EmptySeq
  <1> HIDE DEF none
  <1>3. Aligned(e, 0, none, {})'
    <2>1. From(none, Len(none) + 1) = 0
      BY <1>2 DEF From
    <2>2. Cardinality({}) = 0 /\ 0 .. 0 - 1 = {} /\ 1 .. 0 = {}
      BY FS_EmptySet
    <2> QED BY <1>2, <2>1, <2>2 DEF Aligned
  <1>4. count \in Nat /\ 0 <= count
    BY SizeAssumption
  <1> QED BY <1>1, <1>2, <1>3, <1>4 DEF DiffOK

LEMMA DiffSteps ==
    ASSUME Core, Seen, Reading, DiffOK, DiffFinish \/ DiffThrow \/ DiffMatch \/ DiffMismatch
    PROVE  DiffOK'
  <1>1. PICK e, n, i, p, u, r, m, b :
           tool = [name |-> "diff", expect |-> e, count |-> n, i |-> i, ep |-> p,
                   unmatched |-> u, reported |-> r, matched |-> m, running |-> b]
    BY DEF DiffOK
  <1>2. /\ e = tool.expect /\ n = tool.count /\ i = tool.i /\ p = tool.ep
        /\ u = tool.unmatched /\ r = tool.reported /\ m = tool.matched
        /\ b = tool.running
        /\ writer' = writer /\ Log' = Log /\ tool.running
    BY <1>1 DEF DiffFinish, DiffThrow, DiffMatch, DiffMismatch, Log
  <1>3. /\ p = Len(m) + 1 /\ Aligned(e, i, m, r) /\ n \in Nat /\ i <= n
        /\ i = reader.cycle /\ i \in Nat
    BY <1>2 DEF DiffOK, Aligned
  <1>4. ASSUME NEW j, NEW q, NEW s, Aligned(e, j, q, s), tool'.expect = e,
               tool'.i = j, tool'.matched = q, tool'.reported = s
        PROVE  Aligned(tool.expect, tool.i, tool.matched, tool.reported)'
    BY <1>2, <1>4 DEF Aligned, Earliest, Fits
  <1> DEFINE t == [name |-> "diff", expect |-> e, count |-> n, i |-> i, ep |-> p,
                   unmatched |-> u, reported |-> r, matched |-> m, running |-> b]
  <1>0. CASE DiffThrow
    <2>1. reader' = reader /\ tool' = [t EXCEPT !.running = FALSE] /\ ~HasPc(e, p)
      BY <1>1, <1>2, <1>0 DEF DiffThrow
    <2>2. tool' = [name |-> "diff", expect |-> e, count |-> n, i |-> i, ep |-> p,
                   unmatched |-> u, reported |-> r, matched |-> m,
                   running |-> FALSE]
      BY <2>1
    <2>3. ~HasPc(e, Len(m) + 1)
      BY <1>3, <2>1
    <2>4. Aligned(tool.expect, tool.i, tool.matched, tool.reported)'
      BY <1>3, <1>4, <2>2
    <2> QED BY <1>2, <1>3, <2>2, <2>3, <2>4 DEF DiffOK, HasPc, ExpectCycle
  <1>5. CASE DiffFinish
    <2>1. reader' = reader /\ tool' = [t EXCEPT !.running = FALSE] /\ DiffOver
      BY <1>1, <1>5 DEF DiffFinish
    <2>2. tool' = [name |-> "diff", expect |-> e, count |-> n, i |-> i, ep |-> p,
                   unmatched |-> u, reported |-> r, matched |-> m,
                   running |-> FALSE]
      BY <2>1
    <2>3. ~Parses(e, Len(m) + 1) \/ i \in {n, Len(Log)}
      <3>1. CASE tool.i >= tool.count
        BY <1>2, <1>3, <3>1
      <3>2. CASE ExpectIsEnd(tool.expect, tool.ep)
        BY <1>2, <1>3, <3>2 DEF ExpectIsEnd
      <3>3. CASE IsEnd(reader)
        BY <1>3, <3>3 DEF Seen
      <3> QED BY <2>1, <3>1, <3>2, <3>3 DEF DiffOver
    <2>4. Aligned(tool.expect, tool.i, tool.matched, tool.reported)'
      BY <1>3, <1>4, <2>2
    <2> QED BY <1>2, <1>3, <2>2, <2>3, <2>4 DEF DiffOK
  <1>6. ASSUME DiffMatch \/ DiffMismatch
        PROVE  /\ ~IsEnd(reader) /\ i < n
               /\ Next1(reader).cycle = i + 1
               /\ Compared <=> Fits(e, Len(m) + 1, i)
    <2>1. ~DiffOver
      BY <1>6 DEF DiffMatch, DiffMismatch
    <2>2. ~IsEnd(reader) /\ i < n
      BY <1>2, <1>3, <2>1 DEF DiffOver
    <2>3. GetCycle(reader) = Log[i + 1] /\ Next1(reader).cycle = i + 1
      BY <1>3, <2>2, UnderReader
    <2>4. Compared <=> Fits(e, Len(m) + 1, i)
      BY <1>2, <1>3, <2>3 DEF Compared, IsMatched, Fits
    <2> QED BY <2>2, <2>3, <2>4
  <1>7. CASE DiffMatch
    <2>1. /\ Compared /\ reader' = Next1(reader)
          /\ tool' = [t EXCEPT !.i = @ + 1, !.ep = @ + 1, !.unmatched = 0,
                               !.matched = Append(@, reader.cycle)]
      BY <1>1, <1>7 DEF DiffMatch
    <2>2. tool' = [name |-> "diff", expect |-> e, count |-> n, i |-> i + 1,
                   ep |-> p + 1, unmatched |-> 0, reported |-> r,
                   matched |-> Append(m, i), running |-> b]
      BY <1>3, <2>1
    <2>3. Aligned(e, i + 1, Append(m, i), r)
      BY <1>3, <1>6, <1>7, <2>1, Matched
    <2>4. Aligned(tool.expect, tool.i, tool.matched, tool.reported)'
      BY <1>4, <2>2, <2>3
    <2>5. Len(Append(m, i)) = Len(m) + 1
      BY <1>3, AppendProperties DEF Aligned
    <2>6. reader'.cycle = i + 1 /\ i + 1 <= n
      BY <1>3, <1>6, <1>7, <2>1
    <2> QED BY <1>2, <1>3, <2>2, <2>4, <2>5, <2>6 DEF DiffOK
  <1>8. CASE DiffMismatch
    <2> DEFINE stop == u + 1 = Threshold
               more == r \cup {i}
    <2>1. /\ ~Compared /\ reader' = IF stop THEN reader ELSE Next1(reader)
          /\ tool' = [t EXCEPT !.i = @ + 1, !.unmatched = @ + 1,
                               !.reported = @ \cup {reader.cycle},
                               !.running = ~stop]
      BY <1>1, <1>2, <1>8 DEF DiffMismatch
    <2>2. Aligned(e, i + 1, m, more)
      BY <1>3, <1>6, <1>8, <2>1, Mismatched
    <2> HIDE DEF more
    <2>3. i + 1 <= n
      BY <1>3, <1>6, <1>8
    <2>4. CASE stop
      <3>1. tool' = [name |-> "diff", expect |-> e, count |-> n, i |-> i + 1,
                     ep |-> p, unmatched |-> u + 1, reported |-> more,
                     matched |-> m, running |-> FALSE]
        BY <1>3, <2>1, <2>4 DEF more
      <3>2. Aligned(tool.expect, tool.i, tool.matched, tool.reported)'
        BY <1>4, <2>2, <3>1
      <3> QED BY <1>3, <2>3, <2>4, <3>1, <3>2 DEF DiffOK
    <2>5. CASE ~stop
      <3>1. tool' = [name |-> "diff", expect |-> e, count |-> n, i |-> i + 1,
                     ep |-> p, unmatched |-> u + 1, reported |-> more,
                     matched |-> m, running |-> TRUE]
        BY <1>3, <2>1, <2>5 DEF more
      <3>2. Aligned(tool.expect, tool.i, tool.matched, tool.reported)'
        BY <1>4, <2>2, <3>1
      <3>3. reader'.cycle = i + 1
        BY <1>6, <1>8, <2>1, <2>5
      <3> QED BY <1>3, <2>3, <3>1, <3>2, <3>3 DEF DiffOK
    <2> QED BY <2>4, <2>5
  <1> QED BY <1>0, <1>5, <1>7, <1>8

-----------------------------------------------------------------------------
(* All the tools together.                                                 *)

Tools == tool = NoTool \/ DumpOK \/ DiffOK \/ ConvOK \/ CheckOK

LEMMA ToolsKept ==
    ASSUME Core, Seen, Tools, [Next]_vars
    PROVE  Tools'
  <1>1. /\ tool = NoTool => tool.name = "none"
        /\ DumpOK => tool.name = "dump"
        /\ DiffOK => tool.name = "diff"
        /\ ConvOK => tool.name = "conv"
        /\ CheckOK => tool.name = "check"
        /\ tool # NoTool => Reading
    BY DEF NoTool, DumpOK, DiffOK, ConvOK, CheckOK, Core
  <1>2. CASE UNCHANGED vars
    <2>1. UNCHANGED <<reader, writer, tool>>
      BY <1>2 DEF vars
    <2>2. DumpOK => DumpOK'
      BY <2>1 DEF DumpOK, Log, Passing, IsEnd, Entries
    <2>3. DiffOK => DiffOK'
      BY <2>1 DEF DiffOK, Log, Aligned, Earliest, Fits
    <2>4. ConvOK => ConvOK'
      BY <2>1 DEF ConvOK, Log, IsEnd, Entries
    <2>5. CheckOK => CheckOK'
      BY <2>1 DEF CheckOK, Log, IsEnd, Entries
    <2> QED BY <2>1, <2>2, <2>3, <2>4, <2>5 DEF Tools
  <1>3. CASE tool = NoTool /\ TraceNext /\ UNCHANGED tool
    BY <1>3 DEF Tools
  <1>4. ASSUME NEW o \in DumpOptions, NEW f \in Filters, DumpStart(o, f)
        PROVE  Tools'
    BY <1>4, DumpStarts DEF Tools
  <1>5. ASSUME NEW e \in Expects, NEW count \in 0 .. MaxCycles, DiffStart(e, count)
        PROVE  Tools'
    BY <1>5, DiffStarts DEF Tools
  <1>6. CASE ConvStart
    BY <1>6, ConvStarts DEF Tools
  <1>7. CASE CheckStart
    BY <1>7, CheckStarts DEF Tools
  <1>8. CASE DumpStep
    <2>1. DumpOK /\ Reading
      BY <1>1, <1>8 DEF Tools, DumpStep
    <2> QED BY <1>8, <2>1, DumpSteps DEF Tools
  <1>9. ASSUME DiffFinish \/ DiffThrow \/ DiffMatch \/ DiffMismatch PROVE Tools'
    <2>1. DiffOK /\ Reading
      BY <1>1, <1>9 DEF Tools, DiffFinish, DiffThrow, DiffMatch, DiffMismatch
    <2> QED BY <1>9, <2>1, DiffSteps DEF Tools
  <1>10. CASE ConvStep
    <2>1. ConvOK /\ Reading
      BY <1>1, <1>10 DEF Tools, ConvStep
    <2> QED BY <1>10, <2>1, ConvSteps DEF Tools
  <1>11. CASE CheckStep
    <2>1. CheckOK /\ Reading
      BY <1>1, <1>11 DEF Tools, CheckStep
    <2> QED BY <1>11, <2>1, CheckSteps DEF Tools
  <1>12. CASE ToolExit
    BY <1>12 DEF ToolExit, Tools
  <1> QED BY <1>2, <1>3, <1>4, <1>5, <1>6, <1>7, <1>8, <1>9, <1>10, <1>11, <1>12
          DEF Next, ToolStep

LEMMA ToolsInvariant == Spec => []Tools
  <1>1. Init => Tools
    BY DEF Init, Tools
  <1> QED BY <1>1, ToolsKept, CoreInvariant, ReaderIsSeen, PTL DEF Spec

-----------------------------------------------------------------------------
(* What the tools report and write.                                        *)

LEMMA Named ==
    /\ tool = NoTool => tool.name = "none"
    /\ DumpOK => tool.name = "dump"
    /\ DiffOK => tool.name = "diff"
    /\ ConvOK => tool.name = "conv"
    /\ CheckOK => tool.name = "check"
    /\ Core /\ tool # NoTool => Reading
  BY DEF NoTool, DumpOK, DiffOK, ConvOK, CheckOK, Core

\* A line of the index counts the records of a file that is there.
LEMMA RightLines ==
    ASSUME NEW w, WriterOK(w, Nodes)
    PROVE  /\ w.count = Len(Records(w.data)) /\ Len(w.data) <= MaxFileSize
           /\ DOMAIN w.files = 0 .. w.fileCount - 1
           /\ \A i \in DOMAIN w.lines :
                 /\ w.lines[i].path \in DOMAIN w.files
                 /\ w.lines[i].cycle = Len(Records(w.files[w.lines[i].path]))
  <1>1. /\ w.count = Len(Records(w.data))
        /\ \A i \in 1 .. Len(w.lines) :
              Len(Records(FileAt(w, i))) = w.lines[i].cycle
    BY FiledOK
  <1>2. /\ Len(w.data) <= MaxFileSize /\ DOMAIN w.files = 0 .. w.fileCount - 1
        /\ \A i \in 1 .. Len(w.lines) : w.lines[i].path \in 0 .. w.fileCount - 1
    BY DEF WriterOK
  <1>3. DOMAIN w.lines = 1 .. Len(w.lines)
    BY LenProperties DEF WriterOK
  <1> QED BY <1>1, <1>2, <1>3 DEF FileAt

LEMMA CountsHold ==
    ASSUME Core, Seen, Tools
    PROVE  CountsAddUp
  <1>1. WriterOK(writer, Nodes)
    BY DEF Core
  <1>2. ASSUME tool.name = "conv"
        PROVE  WriterOK(tool.out, Nodes) /\ ConvKeepsOrder
    <2>1. ConvOK /\ Reading
      BY <1>2, Named DEF Tools, NoTool
    <2>2. ASSUME ~tool.running PROVE reader.cycle = Len(Log)
      BY <2>1, <2>2 DEF ConvOK, Seen
    <2> QED BY <2>1, <2>2 DEF ConvOK, ConvKeepsOrder
  <1>3. ConvKeepsOrder
    BY <1>2 DEF ConvKeepsOrder
  <1> QED BY <1>1, <1>2, <1>3, RightLines DEF CountsAddUp

LEMMA ReportsHold ==
    ASSUME Core, Seen, Tools
    PROVE  ReportsAreTrue
  <1>1. DumpIsSlice
    <2>1. CASE tool.name # "dump"
      BY <2>1 DEF DumpIsSlice
    <2>2. CASE tool.name = "dump"
      <3>1. DumpOK /\ Reading
        BY <2>2, Named DEF Tools, NoTool
      <3> QED BY <3>1, DumpReports
    <2> QED BY <2>1, <2>2
  <1>2. ASSUME tool.name = "check", tool.verdict = "pass"
        PROVE  Log # <<>> /\ Last(Log).io = ExpectedHostIoValue
    <2>1. CheckOK /\ Reading
      BY <1>2, Named DEF Tools, NoTool
    <2>2. /\ reader.cycle = Len(Log) /\ Len(Log) \in Nat
          /\ tool.hostIo = ExpectedHostIoValue
      BY <1>2, <2>1 DEF CheckOK, Seen
    <2>3. ExpectedHostIoValue # <<0>>
      BY DEF ExpectedHostIoValue
    <2>4. Len(Log) # 0 /\ Log[Len(Log)].io = ExpectedHostIoValue
      BY <2>1, <2>2, <2>3 DEF CheckOK
    <2>5. Len(<<>>) = 0
      BY EmptySeq
    <2> QED BY <2>4, <2>5 DEF Last
  <1> QED BY <1>1, <1>2 DEF ReportsAreTrue, PassIsLastValue

LEMMA DiffHolds ==
    ASSUME Core, Tools
    PROVE  DiffIsGreedy
  <1> SUFFICES ASSUME tool.name = "diff", ~tool.running
               PROVE  DiffIsGreedy
    BY DEF DiffIsGreedy
  <1> DEFINE m == tool.matched
             e == tool.expect
             reported == tool.reported
  <1>1. DiffOK
    BY Named DEF Tools
  <1>2. /\ m \in Seq(Nat) /\ Len(m) + Cardinality(reported) = tool.i
        /\ \A k \in 1 .. Len(m) : m[k] \notin reported
        /\ \A k \in 1 .. Len(m) : Earliest(e, m, reported, k)
    BY <1>1 DEF DiffOK, Aligned
  <1>3. DOMAIN m = 1 .. Len(m)
    BY <1>2, LenProperties
  <1>4. /\ \A k \in DOMAIN m : Earliest(e, m, reported, k)
        /\ reported \cap {m[k] : k \in DOMAIN m} = {}
    BY <1>2, <1>3
  <1>5. \/ ~Parses(e, Len(m) + 1)
        \/ ~HasPc(e, Len(m) + 1)
        \/ Len(m) + Cardinality(reported) \in {tool.count, Len(Log)}
        \/ tool.unmatched = Threshold
    BY <1>1, <1>2 DEF DiffOK
  <1> QED BY <1>4, <1>5 DEF DiffIsGreedy, Earliest, From, Fits

\* Every line of an index counts the records of its file, in the trace of
\* TraceIndexWriterImpl::FlushData and in the one rafi-conv writes, where no
\* record is missing when its loop has ended.
THEOREM CountsRight == Spec => []CountsAddUp
  BY CountsHold, CoreInvariant, ReaderIsSeen, ToolsInvariant, PTL

\* What PrintTrace of rafi-dump prints is the slice its options ask for, and
\* CheckHostIo of rafi-check-io passes only the value of the last record.
THEOREM ReportsRight == Spec => []ReportsAreTrue
  BY ReportsHold, CoreInvariant, ReaderIsSeen, ToolsInvariant, PTL

\* The loop of rafi-diff aligns each expected record with the earliest one
\* that fits, reports each record it steps over and stops for a reason.
THEOREM DiffGreedy == Spec => []DiffIsGreedy
  BY DiffHolds, CoreInvariant, ToolsInvariant, PTL
=============================================================================
