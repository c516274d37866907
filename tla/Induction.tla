----------------------------- MODULE Induction -----------------------------
(***************************************************************************)
(* Induction over the natural numbers, in a form that the provers can use: *)
(* the statement to be proved is a set of numbers, not an operator.  And   *)
(* what it shows of FlattenSeq of the community modules, with which a      *)
(* stream of frames and a text of lines are defined.                       *)
(***************************************************************************)
EXTENDS SequencesExt, WellFoundedInduction, SequenceTheorems, TLAPS

(* A set of natural numbers that is not empty has a smallest element. *)
LEMMA SmallestNumber ==
  ASSUME NEW T \in SUBSET Nat, T # {}
  PROVE  \E x \in T : \A y \in T : x <= y
<1> DEFINE R == OpToRel(<, Nat)
<1>1. \A x, y \in Nat : <<y, x>> \notin R => x <= y
  BY DEF OpToRel
<1>2. IsWellFoundedOn(R, Nat)
  BY NatLessThanWellFounded
<1> HIDE DEF R
<1>3. \E x \in T : \A y \in T : <<y, x>> \notin R
  BY <1>2, WFMin
<1> QED BY <1>1, <1>3

(* A set that has zero, and with each number its successor, has them all. *)
LEMMA AllNumbers ==
  ASSUME NEW S \in SUBSET Nat, 0 \in S, \A n \in S : n + 1 \in S
  PROVE  S = Nat
<1> SUFFICES ASSUME S # Nat PROVE FALSE
  OBVIOUS
<1> DEFINE T == Nat \ S
<1>1. PICK x \in T : \A y \in T : x <= y
  BY SmallestNumber
<1>2. x - 1 \in Nat /\ x - 1 \notin T /\ (x - 1) + 1 = x
  BY <1>1
<1> QED BY <1>2
-----------------------------------------------------------------------------
(* The recursive function in the definition of FlattenSeq. *)
IsFlat(f, ss, m) ==
  f = [i \in 1 .. m |-> IF i = 1 THEN ss[i] ELSE f[i - 1] \o ss[i]]

(* There is such a function for each number of parts. *)
LEMMA FlatExists ==
  ASSUME NEW ss
  PROVE  \A m \in Nat : \E f : IsFlat(f, ss, m)
<1> DEFINE S == {m \in Nat : \E f : IsFlat(f, ss, m)}
<1>1. 0 \in S
  <2> DEFINE f == [i \in 1 .. 0 |-> <<>>]
  <2>1. f = [i \in 1 .. 0 |-> IF i = 1 THEN ss[i] ELSE f[i - 1] \o ss[i]]
    OBVIOUS
  <2>2. IsFlat(f, ss, 0)
    BY <2>1 DEF IsFlat
  <2> QED BY <2>2
<1>2. ASSUME NEW m \in S PROVE m + 1 \in S
  <2>1. PICK f : IsFlat(f, ss, m)
    OBVIOUS
  <2> DEFINE next(i) == IF i = 1 THEN ss[i] ELSE f[i - 1] \o ss[i]
             g == [i \in 1 .. m + 1 |-> next(i)]
  <2>2. \A i \in 1 .. m : f[i] = next(i)
    BY <2>1 DEF IsFlat
  <2>3. \A i \in 1 .. m + 1 : g[i] = next(i)
    OBVIOUS
  <2>4. \A i \in 2 .. m + 1 : g[i - 1] = f[i - 1]
    <3> TAKE i \in 2 .. m + 1
    <3>1. i - 1 \in 1 .. m /\ i - 1 \in 1 .. m + 1
      OBVIOUS
    <3> HIDE DEF g, next
    <3> QED BY <3>1, <2>2, <2>3
  <2>5. IsFlat(g, ss, m + 1)
    <3>1. \A i \in 1 .. m + 1 : next(i) = IF i = 1 THEN ss[i] ELSE g[i - 1] \o ss[i]
      <4> HIDE DEF g
      <4> QED BY <2>4
    <3> QED BY <3>1 DEF IsFlat
  <2> QED BY <2>5
<1>3. S = Nat
  <2> HIDE DEF S
  <2>1. S \subseteq Nat
    BY DEF S
  <2> QED BY <1>1, <1>2, <2>1, AllNumbers
<1> QED BY <1>3

FlatOf(ss, m) == CHOOSE f : IsFlat(f, ss, m)

(* Its first value, and each value by the one before. *)
LEMMA FlatStep ==
  ASSUME NEW ss, NEW m \in Nat
  PROVE  /\ m # 0 => FlatOf(ss, m)[1] = ss[1]
         /\ \A n \in 2 .. m : FlatOf(ss, m)[n] = FlatOf(ss, m)[n - 1] \o ss[n]
<1> DEFINE f == FlatOf(ss, m)
<1>1. IsFlat(f, ss, m)
  BY FlatExists DEF FlatOf
<1> HIDE DEF f
<1>2. m # 0 => f[1] = ss[1]
  <2>1. m # 0 => 1 \in 1 .. m
    OBVIOUS
  <2> QED BY <1>1, <2>1 DEF IsFlat
<1>3. \A n \in 2 .. m : f[n] = f[n - 1] \o ss[n]
  <2>1. \A n \in 2 .. m : n \in 1 .. m /\ n # 1
    OBVIOUS
  <2> QED BY <1>1, <2>1 DEF IsFlat
<1> QED BY <1>2, <1>3 DEF f

(* It depends on no more than the parts that it counts. *)
LEMMA FlatPrefix ==
  ASSUME NEW ss, NEW ts, NEW n \in Nat \ {0}, NEW k \in Nat, n <= k,
         \A i \in 1 .. n : ts[i] = ss[i]
  PROVE  FlatOf(ts, k)[n] = FlatOf(ss, n)[n]
<1> DEFINE f == FlatOf(ss, n)  g == FlatOf(ts, k)
           S == {j \in Nat : j + 1 <= n => f[j + 1] = g[j + 1]}
<1>1. /\ f[1] = ss[1] /\ \A j \in 2 .. n : f[j] = f[j - 1] \o ss[j]
      /\ g[1] = ts[1] /\ \A j \in 2 .. k : g[j] = g[j - 1] \o ts[j]
  <2>1. n \in Nat /\ n # 0 /\ k # 0
    OBVIOUS
  <2> QED BY <2>1, FlatStep
<1> HIDE DEF f, g
<1>2. 0 \in S
  BY <1>1
<1>3. ASSUME NEW j \in S PROVE j + 1 \in S
  <2> SUFFICES ASSUME j + 2 <= n PROVE f[j + 2] = g[j + 2]
    OBVIOUS
  <2>1. f[j + 1] = g[j + 1] /\ ss[j + 2] = ts[j + 2]
    OBVIOUS
  <2>2. j + 2 \in 2 .. n /\ j + 2 \in 2 .. k /\ (j + 2) - 1 = j + 1
    OBVIOUS
  <2>3. /\ f[j + 2] = f[(j + 2) - 1] \o ss[j + 2]
        /\ g[j + 2] = g[(j + 2) - 1] \o ts[j + 2]
    BY <1>1, <2>2
  <2> QED BY <2>1, <2>2, <2>3
<1>4. S = Nat
  <2> HIDE DEF S
  <2>1. S \subseteq Nat
    BY DEF S
  <2> QED BY <1>2, <1>3, <2>1, AllNumbers
<1>5. n - 1 \in Nat /\ (n - 1) + 1 = n
  OBVIOUS
<1>6. \A j \in Nat : j + 1 <= n => f[j + 1] = g[j + 1]
  BY <1>4
<1>7. f[(n - 1) + 1] = g[(n - 1) + 1]
  BY <1>5, <1>6
<1> QED BY <1>5, <1>7 DEF f, g

LEMMA FlattenIs ==
  ASSUME NEW ss, Len(ss) # 0
  PROVE  FlattenSeq(ss) = FlatOf(ss, Len(ss))[Len(ss)]
  BY DEF FlattenSeq, FlatOf, IsFlat

LEMMA FlattenEmpty == FlattenSeq(<<>>) = <<>>
  BY DEF FlattenSeq

(* The parts of a sequence are sequences, and so is all of it. *)
LEMMA FlattenType ==
  ASSUME NEW S, NEW ss \in Seq(Seq(S))
  PROVE  FlattenSeq(ss) \in Seq(S)
<1> DEFINE m == Len(ss)  f == FlatOf(ss, m)
           T == {n \in Nat : n + 1 <= m => f[n + 1] \in Seq(S)}
<1>0. CASE ss = <<>>
  BY <1>0, FlattenEmpty, EmptySeq
<1>1. CASE ss # <<>>
  <2>1. m \in Nat \ {0} /\ \A n \in 1 .. m : ss[n] \in Seq(S)
    BY <1>1
  <2>2. f[1] = ss[1] /\ \A n \in 2 .. m : f[n] = f[n - 1] \o ss[n]
    BY <2>1, FlatStep
  <2>3. FlattenSeq(ss) = f[m]
    BY <2>1, FlattenIs
  <2> HIDE DEF m, f
  <2>4. 0 \in T
    <3>1. 1 \in 1 .. m
      BY <2>1
    <3> QED BY <2>1, <2>2, <3>1
  <2>5. ASSUME NEW n \in T PROVE n + 1 \in T
    <3> SUFFICES ASSUME n + 2 <= m PROVE f[n + 2] \in Seq(S)
      OBVIOUS
    <3>1. n + 2 \in 2 .. m /\ n + 2 \in 1 .. m /\ (n + 2) - 1 = n + 1
      BY <2>1
    <3>2. f[n + 1] \in Seq(S) /\ ss[n + 2] \in Seq(S)
      BY <2>1, <3>1
    <3>3. f[n + 2] = f[(n + 2) - 1] \o ss[n + 2]
      BY <2>2, <3>1
    <3>4. f[n + 1] \o ss[n + 2] \in Seq(S)
      BY <3>2, ConcatProperties
    <3> QED BY <3>1, <3>3, <3>4
  <2>6. T = Nat
    <3> HIDE DEF T
    <3>1. T \subseteq Nat
      BY DEF T
    <3> QED BY <2>4, <2>5, <3>1, AllNumbers
  <2>7. m - 1 \in Nat /\ (m - 1) + 1 = m
    BY <2>1
  <2>8. f[(m - 1) + 1] \in Seq(S)
    BY <2>6, <2>7
  <2> QED BY <2>3, <2>7, <2>8
<1> QED BY <1>0, <1>1

(* One more part comes after all others. *)
LEMMA FlattenAppend ==
  ASSUME NEW S, NEW ss \in Seq(Seq(S)), NEW x \in Seq(S)
  PROVE  FlattenSeq(Append(ss, x)) = FlattenSeq(ss) \o x
<1> DEFINE ts == Append(ss, x)  n == Len(ss)  k == n + 1
<1>1. /\ n \in Nat /\ k \in Nat /\ n <= k /\ k - 1 = n /\ k # 0
      /\ Len(ts) = k /\ ts[k] = x
  BY AppendProperties
<1>2. \A i \in 1 .. n : ts[i] = ss[i]
  BY AppendProperties
<1>3. FlattenSeq(ts) = FlatOf(ts, k)[k]
  BY <1>1, FlattenIs, Zenon
<1>4. CASE n = 0
  <2>1. k = 1 /\ ss = <<>> /\ FlattenSeq(ss) = <<>>
    BY <1>4, FlattenEmpty
  <2> HIDE DEF ts, k
  <2>2. FlatOf(ts, k)[1] = ts[1]
    BY <1>1, FlatStep
  <2>3. FlattenSeq(ts) = x
    BY <1>1, <1>3, <2>1, <2>2
  <2>4. <<>> \o x = x
    OBVIOUS
  <2> QED BY <2>1, <2>3, <2>4 DEF ts
<1>5. CASE n # 0
  <2>1. FlattenSeq(ss) = FlatOf(ss, n)[n]
    BY <1>5, FlattenIs
  <2>2. n \in Nat \ {0} /\ k \in 2 .. k
    BY <1>1, <1>5
  <2> HIDE DEF ts, n, k
  <2>3. FlatOf(ts, k)[n] = FlatOf(ss, n)[n]
    BY <1>1, <1>2, <2>2, FlatPrefix
  <2>4. FlatOf(ts, k)[k] = FlatOf(ts, k)[k - 1] \o ts[k]
    BY <1>1, <2>2, FlatStep
  <2>5. FlattenSeq(ts) = FlattenSeq(ss) \o x
    BY <1>1, <1>3, <2>1, <2>3, <2>4
  <2> QED BY <2>5 DEF ts
<1> QED BY <1>4, <1>5

(* Two sequences of parts, one after the other. *)
LEMMA FlattenConcat ==
  ASSUME NEW S, NEW ss \in Seq(Seq(S)), NEW ts \in Seq(Seq(S))
  PROVE  FlattenSeq(ss \o ts) = FlattenSeq(ss) \o FlattenSeq(ts)
<1> DEFINE m == Len(ts)
           T == {n \in Nat : n <= m =>
                   FlattenSeq(ss \o SubSeq(ts, 1, n)) = FlattenSeq(ss) \o FlattenSeq(SubSeq(ts, 1, n))}
<1>0. m \in Nat /\ FlattenSeq(ss) \in Seq(S)
  BY FlattenType
<1>1. 0 \in T
  <2>1. SubSeq(ts, 1, 0) = <<>> /\ ss \o <<>> = ss /\ FlattenSeq(ss) \o <<>> = FlattenSeq(ss)
    BY <1>0
  <2> QED BY <2>1, FlattenEmpty
<1>2. ASSUME NEW n \in T PROVE n + 1 \in T
  <2> SUFFICES ASSUME n + 1 <= m
               PROVE  FlattenSeq(ss \o SubSeq(ts, 1, n + 1))
                        = FlattenSeq(ss) \o FlattenSeq(SubSeq(ts, 1, n + 1))
    OBVIOUS
  <2> DEFINE us == SubSeq(ts, 1, n)  x == ts[n + 1]
  <2>1. /\ us \in Seq(Seq(S)) /\ x \in Seq(S) /\ SubSeq(ts, 1, n + 1) = Append(us, x)
    BY <1>0
  <2>2. FlattenSeq(ss \o us) = FlattenSeq(ss) \o FlattenSeq(us)
    BY <1>0
  <2> HIDE DEF us, x
  <2>3. ss \o us \in Seq(Seq(S)) /\ ss \o Append(us, x) = Append(ss \o us, x)
    <3> DEFINE A == Seq(S)
    <3>1. ss \in Seq(A) /\ us \in Seq(A) /\ x \in A
      BY <2>1
    <3> HIDE DEF A
    <3>2. ss \o us \in Seq(A) /\ ss \o Append(us, x) = Append(ss \o us, x)
      BY <3>1
    <3> QED BY <3>2 DEF A
  <2>4. /\ FlattenSeq(Append(ss \o us, x)) = FlattenSeq(ss \o us) \o x
        /\ FlattenSeq(Append(us, x)) = FlattenSeq(us) \o x
    BY <2>1, <2>3, FlattenAppend
  <2>5. FlattenSeq(us) \in Seq(S)
    BY <2>1, FlattenType
  <2>6. (FlattenSeq(ss) \o FlattenSeq(us)) \o x = FlattenSeq(ss) \o (FlattenSeq(us) \o x)
    <3> DEFINE p == FlattenSeq(ss)  q == FlattenSeq(us)
    <3>1. p \in Seq(S) /\ q \in Seq(S) /\ x \in Seq(S)
      BY <1>0, <2>1, <2>5
    <3> HIDE DEF p, q, T
    <3>2. (p \o q) \o x = p \o (q \o x)
      BY <3>1
    <3> QED BY <3>2 DEF p, q
  <2> QED BY <2>1, <2>2, <2>3, <2>4, <2>6
<1>3. T = Nat
  <2> HIDE DEF T
  <2>1. T \subseteq Nat
    BY DEF T
  <2> QED BY <1>1, <1>2, <2>1, AllNumbers
<1>4. SubSeq(ts, 1, m) = ts
  OBVIOUS
<1>5. FlattenSeq(ss \o SubSeq(ts, 1, m)) = FlattenSeq(ss) \o FlattenSeq(SubSeq(ts, 1, m))
  <2>1. m \in T
    BY <1>0, <1>3
  <2> HIDE DEF m
  <2> QED BY <1>0, <2>1
<1> QED BY <1>4, <1>5

(* The first part comes before all others. *)
LEMMA FlattenFirst ==
  ASSUME NEW S, NEW ss \in Seq(Seq(S)), ss # <<>>
  PROVE  FlattenSeq(ss) = Head(ss) \o FlattenSeq(Tail(ss))
<1> DEFINE A == Seq(S)  x == Head(ss)  ts == Tail(ss)
<1>1. /\ x \in A /\ ts \in Seq(A) /\ <<>> \in Seq(A) /\ <<x>> \in Seq(A)
      /\ ss = <<x>> \o ts /\ <<x>> = Append(<<>>, x)
  <2>1. ss \in Seq(A)
    OBVIOUS
  <2> HIDE DEF A
  <2> QED BY <2>1
<1> HIDE DEF x, ts
<1>2. FlattenSeq(<<x>>) = <<>> \o x
  BY <1>1, FlattenAppend, FlattenEmpty
<1>3. <<>> \o x = x
  BY <1>1
<1>4. FlattenSeq(<<x>> \o ts) = FlattenSeq(<<x>>) \o FlattenSeq(ts)
  BY <1>1, FlattenConcat
<1> QED BY <1>1, <1>2, <1>3, <1>4 DEF x, ts
=============================================================================
