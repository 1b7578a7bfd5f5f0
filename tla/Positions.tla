------------------------------- MODULE Positions -------------------------------
(***************************************************************************)
(* Facts that several proofs need: about positions in sequences, what is   *)
(* left when an entry is removed and what joined sequences have where;     *)
(* induction over the naturals; and, by that induction, that FlattenSeq    *)
(* and the folds over a sequence do what their definitions say.            *)
(***************************************************************************)
EXTENDS Integers, Sequences, SequencesExt, SequenceTheorems, WellFoundedInduction,
        FiniteSetsExt, Folds, TLAPS

\* A set of positions that is not empty has a first one.
LEMMA FirstPosition ==
  ASSUME NEW S \in SUBSET Nat, S # {}
  PROVE  \E i \in S : \A j \in S : i <= j
<1>1. IsWellFoundedOn(OpToRel(<, Nat), Nat)
  BY NatLessThanWellFounded
<1>2. PICK i \in S : \A j \in S : <<j, i>> \notin OpToRel(<, Nat)
  BY <1>1, WFMin
<1>3. \A j \in S : ~(j < i)
  BY <1>2 DEF OpToRel
<1> QED BY <1>3

\* What is left of a sequence when one entry is removed.
LEMMA Removed ==
  ASSUME NEW S, NEW t \in Seq(S), NEW i \in DOMAIN t
  PROVE  /\ RemoveAt(t, i) \in Seq(S)
         /\ DOMAIN RemoveAt(t, i) = 1..(Len(t) - 1)
         /\ \A j \in DOMAIN RemoveAt(t, i) :
              RemoveAt(t, i)[j] = IF j < i THEN t[j] ELSE t[j + 1]
<1>0. i \in 1..Len(t) /\ Len(t) \in Nat
  OBVIOUS
<1> DEFINE a == SubSeq(t, 1, i - 1)
           b == SubSeq(t, i + 1, Len(t))
<1>1. a \in Seq(S) /\ Len(a) = i - 1 /\ \A j \in 1..(i - 1) : a[j] = t[j]
  BY <1>0, SubSeqProperties
<1>2. b \in Seq(S) /\ Len(b) = Len(t) - i /\ \A j \in 1..(Len(t) - i) : b[j] = t[i + j]
  BY <1>0, SubSeqProperties
<1>3. RemoveAt(t, i) = a \o b
  BY DEF RemoveAt
<1> HIDE DEF a, b
<1>4. /\ a \o b \in Seq(S)
      /\ Len(a \o b) = Len(a) + Len(b)
      /\ \A j \in 1..(Len(a) + Len(b)) :
           (a \o b)[j] = IF j <= Len(a) THEN a[j] ELSE b[j - Len(a)]
  BY <1>1, <1>2, ConcatProperties
<1>5. Len(a) + Len(b) = Len(t) - 1
  BY <1>0, <1>1, <1>2
<1>6. ASSUME NEW j \in 1..(Len(t) - 1)
      PROVE  (a \o b)[j] = IF j < i THEN t[j] ELSE t[j + 1]
  <2>1. CASE j < i
    BY <1>0, <1>1, <1>4, <1>5, <2>1
  <2>2. CASE ~(j < i)
    <3>1. j - (i - 1) \in 1..(Len(t) - i) /\ i + (j - (i - 1)) = j + 1
      <4> DEFINE l == Len(t)
      <4>1. l \in Nat /\ i \in 1..l /\ j \in 1..(l - 1)
        BY <1>0
      <4> HIDE DEF l
      <4>2. j - (i - 1) \in 1..(l - i) /\ i + (j - (i - 1)) = j + 1
        BY <2>2, <4>1
      <4> QED BY <4>2 DEF l
    <3>2. (a \o b)[j] = b[j - (i - 1)]
      <4>1. j \in 1..(Len(a) + Len(b)) /\ ~(j <= Len(a))
        BY <1>0, <1>1, <1>5, <2>2
      <4>2. (a \o b)[j] = b[j - Len(a)]
        BY <1>4, <4>1
      <4> QED BY <1>1, <4>2
    <3> QED BY <1>2, <3>1, <3>2, <2>2
  <2> QED BY <2>1, <2>2
<1>7. DOMAIN (a \o b) = 1..(Len(t) - 1)
  BY <1>4, <1>5
<1> QED BY <1>3, <1>4, <1>6, <1>7

\* Induction over the naturals, for a set.
LEMMA Induction ==
  ASSUME NEW P, 0 \in P, \A n \in Nat : n \in P => n + 1 \in P
  PROVE  \A n \in Nat : n \in P
<1> DEFINE S == {n \in Nat : n \notin P}
<1> SUFFICES ASSUME S # {} PROVE FALSE
  OBVIOUS
<1>1. PICK i \in S : \A j \in S : i <= j
  BY FirstPosition
<1>2. i \in Nat /\ i # 0 /\ i - 1 \in Nat
  BY <1>1
<1>3. i - 1 \notin S
  BY <1>1, <1>2
<1>4. (i - 1) + 1 \in P
  BY <1>2, <1>3
<1> QED BY <1>1, <1>2, <1>4

\* g starts with base and takes the n steps of step.
TakesSteps(g, base, n, step) == g[0] = base /\ \A k \in 1..n : g[k] = step[<<k, g[k - 1]>>]

\* A function that starts with base and takes the steps of step exists.
LEMMA Iterates ==
  ASSUME NEW X, NEW base \in X, NEW n \in Nat, NEW step \in [(1..n) \X X -> X]
  PROVE  \E g \in [0..n -> X] : TakesSteps(g, base, n, step)
<1> DEFINE Fills(m, g) == g[0] = base /\ \A k \in 1..m : g[k] = step[<<k, g[k - 1]>>]
           P == {m \in Nat : m <= n => \E g \in [0..m -> X] : Fills(m, g)}
<1>1. 0 \in P
  <2> DEFINE g == [k \in 0..0 |-> base]
  <2>1. g \in [0..0 -> X] /\ Fills(0, g)
    OBVIOUS
  <2> QED BY <2>1
<1>2. ASSUME NEW m \in Nat, m \in P PROVE m + 1 \in P
  <2> SUFFICES ASSUME m + 1 <= n PROVE \E g \in [0..(m + 1) -> X] : Fills(m + 1, g)
    OBVIOUS
  <2>1. PICK g \in [0..m -> X] : Fills(m, g)
    BY <1>2
  <2> DEFINE h == [k \in 0..(m + 1) |-> IF k = m + 1 THEN step[<<k, g[m]>>] ELSE g[k]]
  <2>2. g[m] \in X /\ m + 1 \in 1..n
    OBVIOUS
  <2>3. h \in [0..(m + 1) -> X]
    BY <2>2
  <2>4. h[0] = base
    BY <2>1
  <2>5. ASSUME NEW k \in 1..(m + 1) PROVE h[k] = step[<<k, h[k - 1]>>]
    <3>1. CASE k = m + 1
      <4>1. h[k - 1] = g[m]
        BY <3>1
      <4> QED BY <3>1, <4>1
    <3>2. CASE k # m + 1
      <4>1. k \in 1..m /\ k - 1 \in 0..m
        BY <3>2
      <4>2. h[k] = g[k] /\ h[k - 1] = g[k - 1]
        BY <4>1
      <4> QED BY <2>1, <4>1, <4>2
    <3> QED BY <3>1, <3>2
  <2> HIDE DEF h
  <2> QED BY <2>3, <2>4, <2>5
<1> HIDE DEF P
<1>3. n \in P
  BY <1>1, <1>2, Induction
<1> QED BY <1>3 DEF P, TakesSteps

\* The largest of a set of positions that a position ends.
LEMMA LargestOf ==
  ASSUME NEW m \in Nat, NEW S \in SUBSET (1..m), m \in S
  PROVE  Max(S) = m
<1>1. \A y \in S : m >= y
  OBVIOUS
<1> DEFINE Q(x) == \A y \in S : x >= y
<1>2. \A x \in S : Q(x) => x = m
  OBVIOUS
<1> HIDE DEF Q
<1>3. Q(m)
  BY <1>1 DEF Q
<1>4. (CHOOSE x \in S : Q(x)) = m
  BY <1>2, <1>3
<1> QED BY <1>4 DEF Max, Q

\* The positions up to one of 1..n.
LEMMA Segment ==
  ASSUME NEW n \in Nat, NEW k \in 1..n
  PROVE  /\ k \in Nat /\ 1..k \in SUBSET (1..n) /\ k \in 1..k /\ 1..k # {}
         /\ (1..k) \ {k} = 1..(k - 1) /\ k - 1 \in 0..n /\ k \in 0..n
<1>1. k \in Nat /\ k <= n /\ 1 <= k
  OBVIOUS
<1>2. k \in 1..k
  BY <1>1
<1>3. \A x \in 1..k : x \in 1..n
  BY <1>1
<1>4. (1..k) \ {k} = 1..(k - 1)
  BY <1>1
<1> QED BY <1>1, <1>2, <1>3, <1>4

\* f folds step over the sets of positions up to n, the largest position last.
FoldsOver(f, base, n, step) ==
  f = [S \in SUBSET (1..n) |->
         IF S = {} THEN base ELSE step[<<Max(S), f[S \ {Max(S)}]>>]]

\* The function by which a fold over the positions 1..n is defined exists.
LEMMA FoldExists ==
  ASSUME NEW X, NEW base \in X, NEW n \in Nat, NEW step \in [(1..n) \X X -> X]
  PROVE  \E f \in [SUBSET (1..n) -> X] : FoldsOver(f, base, n, step)
<1> DEFINE F(f, S) == IF S = {} THEN base ELSE step[<<Max(S), f[S \ {Max(S)}]>>]
           Good(m) == {f \in [SUBSET (1..m) -> X] : \A S \in SUBSET (1..m) : f[S] = F(f, S)}
           P == {m \in Nat : m <= n => Good(m) # {}}
<1>1. 0 \in P
  <2> DEFINE f == [S \in SUBSET (1..0) |-> base]
  <2>1. f \in Good(0)
    OBVIOUS
  <2> QED BY <2>1
<1>2. ASSUME NEW m \in Nat, m \in P, m + 1 <= n PROVE Good(m + 1) # {}
  <2>1. PICK f : f \in Good(m)
    <3> HIDE DEF Good
    <3> QED BY <1>2
  <2> HIDE DEF F
  <2>0. f \in [SUBSET (1..m) -> X] /\ \A S \in SUBSET (1..m) : f[S] = F(f, S)
    BY <2>1
  <2> DEFINE e == [S \in SUBSET (1..(m + 1)) |->
                     IF m + 1 \in S THEN step[<<m + 1, f[S \ {m + 1}]>>] ELSE f[S]]
  <2>2. \A S \in SUBSET (1..(m + 1)) : S \ {m + 1} \in SUBSET (1..m)
    OBVIOUS
  <2>3. e \in [SUBSET (1..(m + 1)) -> X]
    <3> SUFFICES ASSUME NEW S \in SUBSET (1..(m + 1)) PROVE e[S] \in X
      OBVIOUS
    <3>1. CASE m + 1 \in S
      <4>1. f[S \ {m + 1}] \in X
        BY <2>0, <2>2
      <4>2. m + 1 \in 1..n
        BY <1>2
      <4> QED BY <3>1, <4>1, <4>2
    <3>2. CASE m + 1 \notin S
      <4>1. S \in SUBSET (1..m)
        BY <3>2
      <4> QED BY <2>0, <3>2, <4>1
    <3> QED BY <3>1, <3>2
  <2>4. \A S \in SUBSET (1..m) : e[S] = f[S]
    <3> TAKE S \in SUBSET (1..m)
    <3>1. S \in SUBSET (1..(m + 1)) /\ m + 1 \notin S
      OBVIOUS
    <3> QED BY <3>1
  <2>5. ASSUME NEW S \in SUBSET (1..(m + 1)) PROVE e[S] = F(e, S)
    <3>1. CASE m + 1 \in S
      <4>1. Max(S) = m + 1
        BY <3>1, LargestOf
      <4>2. e[S \ {m + 1}] = f[S \ {m + 1}]
        BY <2>2, <2>4
      <4>3. e[S] = step[<<m + 1, f[S \ {m + 1}]>>]
        BY <3>1
      <4> HIDE DEF e
      <4> QED BY <3>1, <4>1, <4>2, <4>3 DEF F
    <3>2. CASE m + 1 \notin S
      <4>0. S \in SUBSET (1..m)
        BY <3>2
      <4>1. S \ {Max(S)} \in SUBSET (1..m)
        BY <4>0
      <4>2. e[S] = f[S] /\ e[S \ {Max(S)}] = f[S \ {Max(S)}]
        BY <2>4, <4>0, <4>1
      <4>3. f[S] = F(f, S)
        BY <2>0, <4>0
      <4> HIDE DEF e
      <4> QED BY <4>2, <4>3 DEF F
    <3> QED BY <3>1, <3>2
  <2>6. e \in Good(m + 1)
    <3> HIDE DEF e
    <3> QED BY <2>3, <2>5
  <2> QED BY <2>6
<1>3. n \in P
  <2> HIDE DEF Good
  <2>1. \A m \in Nat : m \in P => m + 1 \in P
    BY <1>2
  <2> HIDE DEF P
  <2> QED BY <1>1, <2>1, Induction
<1>4. Good(n) # {}
  <2> HIDE DEF Good
  <2> QED BY <1>3
<1>5. PICK f : f \in Good(n)
  <2> HIDE DEF Good
  <2> QED BY <1>4
<1>6. f \in [SUBSET (1..n) -> X] /\ \A S \in SUBSET (1..n) : f[S] = F(f, S)
  <2> HIDE DEF F
  <2> QED BY <1>5
<1>7. f = [S \in SUBSET (1..n) |-> F(f, S)]
  <2> HIDE DEF F
  <2> QED BY <1>6
<1> QED BY <1>6, <1>7 DEF FoldsOver

\* off gives, for a sequence t made of the parts ss one after the other, where
\* each part ends.
PartsOf(ss, t, off) ==
  /\ Len(ss) \in Nat /\ Len(t) \in Nat /\ \A i \in 1..Len(ss) : Len(ss[i]) \in Nat
  /\ off \in [0..Len(ss) -> Nat] /\ off[0] = 0 /\ off[Len(ss)] = Len(t)
  /\ \A i \in 1..Len(ss) : off[i] = off[i - 1] + Len(ss[i])
  /\ \A i \in 1..Len(ss) : \A j \in 1..Len(ss[i]) : t[off[i - 1] + j] = ss[i][j]
  /\ \A p \in 1..Len(t) : \E i \in 1..Len(ss) : \E j \in 1..Len(ss[i]) : p = off[i - 1] + j

\* A place in the part that begins after a is a place up to the end b of that part.
LEMMA PlaceInNext ==
  ASSUME NEW a \in Nat, NEW n \in Nat, NEW b, b = a + n, NEW j \in 1..n
  PROVE  a + j \in 1..b /\ ~(a + j <= a) /\ (a + j) - a = j
OBVIOUS

\* A place up to a is a place up to the end b of the next part.
LEMMA PlaceInFirst ==
  ASSUME NEW a \in Nat, NEW n \in Nat, NEW b, b = a + n, NEW p \in 1..a
  PROVE  p \in 1..b /\ p <= a
OBVIOUS

\* FlattenSeq puts the parts one after the other.
LEMMA FlattenParts ==
  ASSUME NEW X, NEW ss \in Seq(Seq(X))
  PROVE  FlattenSeq(ss) \in Seq(X) /\ \E off : PartsOf(ss, FlattenSeq(ss), off)
<1> DEFINE n == Len(ss)
           step == [y \in (1..n) \X Seq(X) |-> y[2] \o ss[y[1]]]
<1>0. n \in Nat /\ \A i \in 1..n : ss[i] \in Seq(X) /\ Len(ss[i]) \in Nat
  OBVIOUS
<1>z. n \in Nat
  BY <1>0
<1> HIDE DEF n
<1>1. step \in [(1..n) \X Seq(X) -> Seq(X)]
  BY <1>0
<1>2. \A i \in 1..n : \A x \in Seq(X) : step[<<i, x>>] = x \o ss[i]
  OBVIOUS
<1> DEFINE e == <<>>
<1>3. e \in Seq(X) /\ Len(e) = 0 /\ \A x \in Seq(X) : e \o x = x
  OBVIOUS
<1> HIDE DEF step, e
<1>4. PICK g \in [0..n -> Seq(X)] :
         g[0] = e /\ \A k \in 1..n : g[k] = step[<<k, g[k - 1]>>]
  <2> DEFINE Y == Seq(X)
  <2>1. e \in Y /\ step \in [(1..n) \X Y -> Y]
    BY <1>1, <1>3
  <2> HIDE DEF Y
  <2>2. \E g \in [0..n -> Y] : TakesSteps(g, e, n, step)
    BY <1>z, <2>1, Iterates
  <2> QED BY <2>2 DEF Y, TakesSteps
<1>a. g[1 - 1] = e
  BY <1>4
<1>5. \A k \in 1..n : k - 1 \in 0..n /\ g[k - 1] \in Seq(X) /\ g[k] = g[k - 1] \o ss[k]
  <2> TAKE k \in 1..n
  <2>1. k - 1 \in 0..n
    BY <1>z
  <2>2. g[k - 1] \in Seq(X)
    BY <2>1
  <2>3. g[k] = step[<<k, g[k - 1]>>]
    BY <1>4
  <2>4. step[<<k, g[k - 1]>>] = g[k - 1] \o ss[k]
    BY <1>2, <2>2
  <2> QED BY <2>1, <2>2, <2>3, <2>4
<1>6. FlattenSeq(ss) = g[n]
  <2>1. CASE n = 0
    <3>1. ss = <<>>
      BY <2>1 DEF n
    <3> QED BY <2>1, <3>1, <1>4 DEF FlattenSeq, e
  <2>2. CASE n # 0
    <3> DEFINE E(f) == f = [i \in 1..n |-> IF i = 1 THEN ss[i] ELSE f[i - 1] \o ss[i]]
               fl == CHOOSE f : E(f)
    <3>1. FlattenSeq(ss) = fl[n]
      BY <2>2 DEF FlattenSeq, n
    <3>2. E([i \in 1..n |-> g[i]])
      <4> DEFINE f == [i \in 1..n |-> g[i]]
      <4>1. \A i \in 1..n : f[i] = IF i = 1 THEN ss[i] ELSE f[i - 1] \o ss[i]
        <5> TAKE i \in 1..n
        <5>1. CASE i = 1
          <6>1. g[1] = e \o ss[1]
            <7>1. g[1] = g[1 - 1] \o ss[1]
              BY <1>5, <5>1
            <7> QED BY <1>a, <7>1, Zenon
          <6>2. e \o ss[1] = ss[1]
            BY <1>0, <1>3, <5>1
          <6> QED BY <5>1, <6>1, <6>2
        <5>2. CASE i # 1
          <6>1. i - 1 \in 1..n
            BY <1>0, <5>2
          <6> QED BY <1>5, <5>2, <6>1
        <5> QED BY <5>1, <5>2
      <4>2. f = [i \in 1..n |-> f[i]]
        OBVIOUS
      <4> HIDE DEF f
      <4>3. f = [i \in 1..n |-> IF i = 1 THEN ss[i] ELSE f[i - 1] \o ss[i]]
        BY <4>1, <4>2
      <4> QED BY <4>3 DEF f
    <3>3. E(fl)
      <4> HIDE DEF E
      <4> QED BY <3>2
    <3>4. \A i \in 1..n : fl[i] = IF i = 1 THEN ss[i] ELSE fl[i - 1] \o ss[i]
      <4> HIDE DEF fl
      <4> QED BY <3>3
    <3> HIDE DEF fl
    <3> DEFINE P == {m \in Nat : m + 1 <= n => fl[m + 1] = g[m + 1]}
    <3>5. 0 \in P
      <4>1. 1 \in 1..n
        BY <1>0, <2>2
      <4>2. fl[1] = ss[1]
        BY <3>4, <4>1
      <4>3. g[1] = e \o ss[1]
        <5>1. g[1] = g[1 - 1] \o ss[1]
          BY <1>5, <4>1
        <5> QED BY <1>a, <5>1, Zenon
      <4>4. e \o ss[1] = ss[1]
        BY <1>0, <1>3, <4>1
      <4> QED BY <4>2, <4>3, <4>4
    <3>6. \A m \in Nat : m \in P => m + 1 \in P
      <4> SUFFICES ASSUME NEW m \in Nat, m \in P, (m + 1) + 1 <= n
                   PROVE  fl[(m + 1) + 1] = g[(m + 1) + 1]
        OBVIOUS
      <4>1. (m + 1) + 1 \in 1..n /\ (m + 1) + 1 # 1 /\ ((m + 1) + 1) - 1 = m + 1
        BY <1>0
      <4>2. fl[m + 1] = g[m + 1]
        BY <1>0
      <4>3. fl[(m + 1) + 1] = fl[((m + 1) + 1) - 1] \o ss[(m + 1) + 1]
        BY <3>4, <4>1
      <4>4. g[(m + 1) + 1] = g[((m + 1) + 1) - 1] \o ss[(m + 1) + 1]
        BY <1>5, <4>1
      <4> QED BY <4>1, <4>2, <4>3, <4>4
    <3>7. n - 1 \in P
      <4> HIDE DEF P
      <4>1. n - 1 \in Nat
        BY <1>z, <2>2
      <4>2. \A m \in Nat : m \in P
        BY <3>5, <3>6, Induction
      <4> QED BY <4>1, <4>2
    <3> QED BY <1>0, <2>2, <3>1, <3>7
  <2> QED BY <2>1, <2>2
<1> DEFINE off == [k \in 0..n |-> Len(g[k])]
<1>7. off \in [0..n -> Nat] /\ off[0] = 0 /\ off[n] = Len(g[n])
  BY <1>z, <1>3, <1>4
<1>8. \A i \in 1..n : /\ off[i] = off[i - 1] + Len(ss[i])
                      /\ off[i - 1] \in Nat /\ off[i] \in Nat
                      /\ off[i - 1] = Len(g[i - 1]) /\ off[i] = Len(g[i])
  <2> TAKE i \in 1..n
  <2>1. i - 1 \in 0..n /\ i \in 0..n
    BY <1>z
  <2>2. off[i - 1] = Len(g[i - 1]) /\ off[i] = Len(g[i])
    BY <2>1
  <2>3. g[i - 1] \in Seq(X) /\ ss[i] \in Seq(X) /\ g[i] = g[i - 1] \o ss[i]
    BY <1>0, <1>5
  <2> HIDE DEF off
  <2>4. Len(g[i]) = Len(g[i - 1]) + Len(ss[i]) /\ Len(g[i - 1]) \in Nat /\ Len(ss[i]) \in Nat
    BY <2>3
  <2>5. off[i] = off[i - 1] + Len(ss[i]) /\ off[i - 1] \in Nat
    BY <2>2, <2>4, Zenon
  <2>6. off[i] \in Nat
    BY <2>4, <2>5
  <2> QED BY <2>2, <2>5, <2>6
<1> HIDE DEF off
<1> DEFINE Q(m) == /\ \A i \in 1..m : \A j \in 1..Len(ss[i]) :
                        off[i - 1] + j \in 1..off[m] /\ g[m][off[i - 1] + j] = ss[i][j]
                   /\ \A p \in 1..off[m] : \E i \in 1..m : \E j \in 1..Len(ss[i]) :
                        p = off[i - 1] + j
           R == {m \in Nat : m <= n => Q(m)}
<1>9. 0 \in R
  BY <1>7
<1>10. ASSUME NEW m \in Nat, m \in R, m + 1 <= n PROVE Q(m + 1)
  <2>0. Q(m)
    <3> HIDE DEF Q
    <3> QED BY <1>0, <1>10
  <2>1. m + 1 \in 1..n /\ (m + 1) - 1 = m
    BY <1>0, <1>10
  <2>2. g[m] \in Seq(X) /\ ss[m + 1] \in Seq(X) /\ g[m + 1] = g[m] \o ss[m + 1]
    BY <1>0, <1>5, <2>1
  <2>3. /\ off[m] \in Nat /\ Len(ss[m + 1]) \in Nat /\ Len(g[m]) = off[m]
        /\ off[m + 1] = off[m] + Len(ss[m + 1])
    BY <1>0, <1>8, <2>1
  <2>4. \A p \in 1..off[m + 1] :
           g[m + 1][p] = IF p <= off[m] THEN g[m][p] ELSE ss[m + 1][p - off[m]]
    <3> DEFINE a == g[m]
               b == ss[m + 1]
    <3>1. a \in Seq(X) /\ b \in Seq(X) /\ Len(a) = off[m] /\ g[m + 1] = a \o b
          /\ off[m + 1] = Len(a) + Len(b)
      BY <2>2, <2>3
    <3> HIDE DEF a, b
    <3>2. \A p \in 1..(Len(a) + Len(b)) :
             (a \o b)[p] = IF p <= Len(a) THEN a[p] ELSE b[p - Len(a)]
      BY <3>1, ConcatProperties
    <3>3. \A p \in 1..off[m + 1] :
             g[m + 1][p] = IF p <= off[m] THEN a[p] ELSE b[p - off[m]]
      BY <3>1, <3>2
    <3> QED BY <3>3 DEF a, b
  <2>5. ASSUME NEW i \in 1..(m + 1), NEW j \in 1..Len(ss[i])
        PROVE  off[i - 1] + j \in 1..off[m + 1] /\ g[m + 1][off[i - 1] + j] = ss[i][j]
    <3>1. CASE i = m + 1
      <4>1. j \in 1..Len(ss[m + 1]) /\ off[i - 1] = off[m]
        BY <2>1, <3>1
      <4>2. off[m] + j \in 1..off[m + 1] /\ ~(off[m] + j <= off[m]) /\ (off[m] + j) - off[m] = j
        <5> DEFINE a == off[m]
                   l == Len(ss[m + 1])
        <5>1. a \in Nat /\ l \in Nat /\ off[m + 1] = a + l /\ j \in 1..l
          BY <2>3, <4>1
        <5> HIDE DEF a, l
        <5>2. a + j \in 1..off[m + 1] /\ ~(a + j <= a) /\ (a + j) - a = j
          BY <5>1, PlaceInNext
        <5> QED BY <5>2 DEF a
      <4> QED BY <2>4, <3>1, <4>1, <4>2
    <3>2. CASE i # m + 1
      <4>1. i \in 1..m
        BY <3>2
      <4>2. off[i - 1] + j \in 1..off[m] /\ g[m][off[i - 1] + j] = ss[i][j]
        BY <2>0, <4>1
      <4>3. off[i - 1] + j \in 1..off[m + 1] /\ off[i - 1] + j <= off[m]
        <5> DEFINE a == off[m]
                   l == Len(ss[m + 1])
                   p == off[i - 1] + j
        <5>1. a \in Nat /\ l \in Nat /\ off[m + 1] = a + l
          BY <2>3
        <5>2. p \in 1..a
          BY <4>2
        <5> HIDE DEF a, l, p
        <5>3. p \in 1..off[m + 1] /\ p <= a
          BY <5>1, <5>2, PlaceInFirst
        <5> QED BY <5>3 DEF a, p
      <4> QED BY <2>4, <4>2, <4>3
    <3> QED BY <3>1, <3>2
  <2>6. ASSUME NEW p \in 1..off[m + 1]
        PROVE  \E i \in 1..(m + 1) : \E j \in 1..Len(ss[i]) : p = off[i - 1] + j
    <3>1. CASE p <= off[m]
      <4>0. p \in 1..off[m]
        BY <2>3, <3>1
      <4>1. PICK i \in 1..m : \E j \in 1..Len(ss[i]) : p = off[i - 1] + j
        BY <2>0, <4>0
      <4>2. i \in 1..(m + 1)
        OBVIOUS
      <4> QED BY <4>1, <4>2
    <3>2. CASE ~(p <= off[m])
      <4>1. p - off[m] \in 1..Len(ss[m + 1]) /\ p = off[(m + 1) - 1] + (p - off[m])
        BY <2>1, <2>3, <3>2
      <4>2. m + 1 \in 1..(m + 1)
        OBVIOUS
      <4> QED BY <4>1, <4>2
    <3> QED BY <3>1, <3>2
  <2> QED BY <2>5, <2>6
<1>11. Q(n)
  <2> HIDE DEF Q
  <2>1. \A m \in Nat : m \in R => m + 1 \in R
    BY <1>10
  <2>2. n \in R
    <3> HIDE DEF R
    <3> QED BY <1>0, <1>9, <2>1, Induction
  <2> QED BY <1>0, <2>2
<1>12. g[n] \in Seq(X)
  BY <1>0, <1>4
<1>13. Len(g[n]) \in Nat
  BY <1>12
<1>14. PartsOf(ss, g[n], off)
  BY <1>0, <1>7, <1>8, <1>11, <1>13 DEF PartsOf, n
<1> QED BY <1>6, <1>12, <1>14

\* c has the entries of a and then those of b.
Joined(a, b, c) ==
  /\ Len(a) \in Nat /\ Len(b) \in Nat /\ Len(c) = Len(a) + Len(b)
  /\ \A i \in 1..Len(a) : c[i] = a[i]
  /\ \A j \in 1..Len(b) : c[Len(a) + j] = b[j]

\* Two sequences, one after the other.
LEMMA ConcatAt ==
  ASSUME NEW S, NEW a \in Seq(S), NEW b \in Seq(S), NEW c, c = a \o b
  PROVE  c \in Seq(S) /\ Joined(a, b, c)
<1>1. /\ a \o b \in Seq(S) /\ Len(a \o b) = Len(a) + Len(b)
      /\ \A i \in 1..(Len(a) + Len(b)) :
           (a \o b)[i] = IF i <= Len(a) THEN a[i] ELSE b[i - Len(a)]
  BY ConcatProperties
<1>2. Len(a) \in Nat /\ Len(b) \in Nat
  OBVIOUS
<1> DEFINE m == Len(a)
           n == Len(b)
<1>3. m \in Nat /\ n \in Nat /\ \A i \in 1..(m + n) : c[i] = IF i <= m THEN a[i] ELSE b[i - m]
  BY <1>1, <1>2
<1> HIDE DEF m, n
<1>4. ASSUME NEW i \in 1..m PROVE c[i] = a[i]
  <2>1. i \in 1..(m + n) /\ i <= m
    BY <1>3
  <2> QED BY <1>3, <2>1
<1>5. ASSUME NEW j \in 1..n PROVE c[m + j] = b[j]
  <2>1. m + j \in 1..(m + n) /\ ~(m + j <= m) /\ (m + j) - m = j
    BY <1>3
  <2> QED BY <1>3, <2>1
<1> QED BY <1>1, <1>2, <1>4, <1>5 DEF m, n, Joined

\* Two sequences joined, position by position.
LEMMA JoinedAt ==
  ASSUME NEW a, NEW b, NEW c, Joined(a, b, c)
  PROVE  /\ Len(a) \in Nat /\ Len(b) \in Nat /\ Len(c) \in Nat /\ Len(a) <= Len(c)
         /\ \A i \in 1..Len(a) : i \in 1..Len(c) /\ c[i] = a[i]
         /\ \A j \in 1..Len(b) : Len(a) + j \in 1..Len(c) /\ c[Len(a) + j] = b[j]
         /\ \A i \in 1..Len(c) : i \in 1..Len(a) \/ \E j \in 1..Len(b) : i = Len(a) + j
<1> DEFINE m == Len(a)
           n == Len(b)
           l == Len(c)
<1>1. m \in Nat /\ n \in Nat /\ l = m + n
      /\ (\A i \in 1..m : c[i] = a[i]) /\ \A j \in 1..n : c[m + j] = b[j]
  BY DEF Joined
<1> HIDE DEF m, n, l
<1>2. ASSUME NEW i \in 1..l PROVE i \in 1..m \/ \E j \in 1..n : i = m + j
  <2>1. CASE i <= m
    BY <1>1, <2>1
  <2>2. CASE ~(i <= m)
    <3>1. i - m \in 1..n /\ i = m + (i - m)
      BY <1>1, <2>2
    <3> QED BY <3>1
  <2> QED BY <2>1, <2>2
<1>3. l \in Nat /\ m <= l
  BY <1>1
<1>4. (\A i \in 1..m : i \in 1..l) /\ \A j \in 1..n : m + j \in 1..l
  BY <1>1
<1> QED BY <1>1, <1>2, <1>3, <1>4 DEF m, n, l

\* One entry more.
LEMMA AppendAt ==
  ASSUME NEW S, NEW a \in Seq(S), NEW y \in S
  PROVE  Append(a, y) \in Seq(S) /\ Joined(a, <<y>>, Append(a, y))
<1>1. <<y>> \in Seq(S) /\ Append(a, y) = a \o <<y>>
  OBVIOUS
<1> QED BY <1>1, ConcatAt

\* A part ends where a later one begins, or before.
LEMMA PartsInOrder ==
  ASSUME NEW ss, NEW t, NEW off, PartsOf(ss, t, off),
         NEW i \in 0..Len(ss), NEW k \in 0..Len(ss), i <= k
  PROVE  off[i] <= off[k]
<1> DEFINE n == Len(ss)
           P == {m \in Nat : i + m <= n => off[i] <= off[i + m]}
<1>1. n \in Nat /\ i \in 0..n /\ k \in 0..n /\ \A j \in 1..n : Len(ss[j]) \in Nat
  BY DEF PartsOf
<1>2. /\ \A j \in 0..n : off[j] \in Nat
      /\ \A j \in 1..n : off[j] = off[j - 1] + Len(ss[j])
  BY DEF PartsOf
<1> HIDE DEF n
<1>3. 0 \in P
  BY <1>1, <1>2
<1>4. ASSUME NEW m \in Nat, m \in P PROVE m + 1 \in P
  <2> SUFFICES ASSUME i + (m + 1) <= n PROVE off[i] <= off[i + (m + 1)]
    OBVIOUS
  <2> DEFINE j == i + (m + 1)
  <2>1. j \in 1..n /\ j - 1 = i + m /\ i + m \in 0..n
    BY <1>1
  <2>2. off[i] <= off[i + m]
    BY <1>1, <1>4
  <2>3. off[j] = off[j - 1] + Len(ss[j])
    BY <1>2, <2>1
  <2> HIDE DEF j
  <2>4. off[j - 1] \in Nat /\ off[j] \in Nat /\ off[i] \in Nat /\ Len(ss[j]) \in Nat
        /\ off[i] <= off[j - 1]
    BY <1>1, <1>2, <2>1, <2>2
  <2>5. off[i] <= off[j]
    BY <2>3, <2>4
  <2> QED BY <2>5 DEF j
<1>5. k - i \in P
  <2>1. \A m \in Nat : m \in P => m + 1 \in P
    BY <1>4
  <2> HIDE DEF P
  <2>2. k - i \in Nat
    BY <1>1
  <2> QED BY <1>3, <2>1, <2>2, Induction
<1>6. i + (k - i) = k /\ k <= n
  BY <1>1
<1> QED BY <1>5, <1>6

\* Places and ends in numbers.
LEMMA PlaceNumbers ==
  ASSUME NEW ss, NEW t, NEW off, PartsOf(ss, t, off),
         NEW i \in 1..Len(ss), NEW j \in 1..Len(ss[i])
  PROVE  /\ i \in Nat \ {0} /\ i \in 0..Len(ss) /\ i - 1 \in 0..Len(ss)
         /\ j \in Nat \ {0} /\ Len(ss[i]) \in Nat \ {0} /\ j <= Len(ss[i])
         /\ off[i - 1] \in Nat /\ off[i] \in Nat /\ off[i] = off[i - 1] + Len(ss[i])
         /\ off[i - 1] + j \in 1..Len(t) /\ t[off[i - 1] + j] = ss[i][j]
<1> DEFINE n == Len(ss)
<1>1. /\ n \in Nat /\ Len(ss[i]) \in Nat /\ i \in 1..n /\ Len(t) \in Nat
      /\ off \in [0..n -> Nat] /\ off[n] = Len(t)
      /\ off[i] = off[i - 1] + Len(ss[i]) /\ t[off[i - 1] + j] = ss[i][j]
  BY DEF PartsOf
<1>2. off[i] <= off[n]
  <2>1. i \in 0..n /\ n \in 0..n /\ i <= n
    BY <1>1
  <2> QED BY <2>1, PartsInOrder
<1> DEFINE l == Len(ss[i])
<1>3. l \in Nat /\ j \in 1..l /\ off[i] = off[i - 1] + l
  BY <1>1
<1> HIDE DEF n, l
<1>4. /\ i \in Nat \ {0} /\ i \in 0..n /\ i - 1 \in 0..n
      /\ j \in Nat \ {0} /\ l \in Nat \ {0} /\ j <= l
      /\ off[i - 1] \in Nat /\ off[i] \in Nat
  BY <1>1, <1>3
<1>5. off[i - 1] + j \in 1..Len(t)
  <2>1. off[i - 1] + j \in 1..off[i]
    BY <1>3, <1>4, PlaceInNext
  <2>2. off[i] <= Len(t)
    BY <1>1, <1>2
  <2> QED BY <1>1, <1>4, <2>1, <2>2
<1> QED BY <1>1, <1>3, <1>4, <1>5 DEF n, l

\* A place in a part that ends before another begins is not a place of that one.
LEMMA ApartNumbers ==
  ASSUME NEW a \in Nat, NEW m \in Nat, NEW j \in 1..m, NEW b \in Nat, NEW n \in Nat,
         NEW l \in 1..n, a + m <= b
  PROVE  a + j # b + l
OBVIOUS

\* A position is in one part only, and at one place of it.
LEMMA PartsApart ==
  ASSUME NEW ss, NEW t, NEW off, PartsOf(ss, t, off),
         NEW i \in 1..Len(ss), NEW j \in 1..Len(ss[i]),
         NEW k \in 1..Len(ss), NEW l \in 1..Len(ss[k]), off[i - 1] + j = off[k - 1] + l
  PROVE  i = k /\ j = l
<1> DEFINE n == Len(ss)
<1>1. n \in Nat /\ i \in 1..n /\ k \in 1..n /\ i - 1 \in 0..n /\ k - 1 \in 0..n
      /\ Len(ss[i]) \in Nat /\ Len(ss[k]) \in Nat
  BY DEF PartsOf
<1>2. /\ off[i - 1] \in Nat /\ off[k - 1] \in Nat
      /\ off[i] = off[i - 1] + Len(ss[i]) /\ off[k] = off[k - 1] + Len(ss[k])
  <2> HIDE DEF n
  <2>1. off \in [0..n -> Nat] /\ \A m \in 1..n : off[m] = off[m - 1] + Len(ss[m])
    BY DEF PartsOf, n
  <2> QED BY <1>1, <2>1
<1>3. CASE i < k
  <2>1. off[i] <= off[k - 1]
    <3>1. i \in 0..Len(ss) /\ k - 1 \in 0..Len(ss) /\ i <= k - 1
      BY <1>1, <1>3
    <3> QED BY <3>1, PartsInOrder
  <2>2. off[i - 1] + Len(ss[i]) <= off[k - 1]
    BY <1>2, <2>1, Zenon
  <2> DEFINE a == off[i - 1]
             b == off[k - 1]
             m == Len(ss[i])
             o == Len(ss[k])
  <2>3. a \in Nat /\ b \in Nat /\ m \in Nat /\ o \in Nat /\ j \in 1..m /\ l \in 1..o /\ a + m <= b
    BY <1>1, <1>2, <2>2
  <2>4. a + j = b + l
    OBVIOUS
  <2> HIDE DEF a, b, m, o
  <2> QED BY <2>3, <2>4, ApartNumbers
<1>4. CASE k < i
  <2>1. off[k] <= off[i - 1]
    <3>1. k \in 0..Len(ss) /\ i - 1 \in 0..Len(ss) /\ k <= i - 1
      BY <1>1, <1>4
    <3> QED BY <3>1, PartsInOrder
  <2>2. off[k - 1] + Len(ss[k]) <= off[i - 1]
    BY <1>2, <2>1, Zenon
  <2> DEFINE a == off[i - 1]
             b == off[k - 1]
             m == Len(ss[i])
             o == Len(ss[k])
  <2>3. a \in Nat /\ b \in Nat /\ m \in Nat /\ o \in Nat /\ j \in 1..m /\ l \in 1..o /\ b + o <= a
    BY <1>1, <1>2, <2>2
  <2>4. b + l = a + j
    OBVIOUS
  <2> HIDE DEF a, b, m, o
  <2> QED BY <2>3, <2>4, ApartNumbers
<1>5. CASE i = k
  <2>1. off[i - 1] = off[k - 1]
    BY <1>5
  <2> QED BY <1>1, <1>2, <1>5, <2>1
<1> QED BY <1>1, <1>3, <1>4, <1>5

\* src gives, for each entry of t, the part of ss that it is.
PickedFrom(ss, t, src) ==
  /\ src \in [1..Len(t) -> 1..Len(ss)]
  /\ \A p \in 1..Len(t) : Len(ss[src[p]]) = 1 /\ t[p] = ss[src[p]][1]
  /\ \A p, q \in 1..Len(t) : src[p] = src[q] => p = q
  /\ \A i \in 1..Len(ss) : Len(ss[i]) = 1 => \E p \in 1..Len(t) : src[p] = i

\* FlattenSeq of parts of at most one entry leaves the empty ones out.
LEMMA FlattenPicks ==
  ASSUME NEW X, NEW ss \in Seq(Seq(X)), \A i \in 1..Len(ss) : Len(ss[i]) <= 1
  PROVE  FlattenSeq(ss) \in Seq(X) /\ \E src : PickedFrom(ss, FlattenSeq(ss), src)
<1> DEFINE t == FlattenSeq(ss)
<1>1. PICK off : t \in Seq(X) /\ PartsOf(ss, t, off)
  BY FlattenParts
<1> HIDE DEF t
<1> DEFINE At(p, i) == p = off[i - 1] + 1 /\ Len(ss[i]) = 1
           src == [p \in 1..Len(t) |-> CHOOSE i \in 1..Len(ss) : At(p, i)]
<1>2. ASSUME NEW p \in 1..Len(t) PROVE \E i \in 1..Len(ss) : At(p, i)
  <2>0. PICK i \in 1..Len(ss) : \E j \in 1..Len(ss[i]) : p = off[i - 1] + j
    BY <1>1 DEF PartsOf
  <2>1. PICK j \in 1..Len(ss[i]) : p = off[i - 1] + j
    BY <2>0
  <2>2. Len(ss[i]) \in Nat /\ Len(ss[i]) <= 1 /\ j \in 1..Len(ss[i])
    OBVIOUS
  <2> DEFINE m == Len(ss[i])
  <2>3. j = 1 /\ m = 1
    <3>1. m \in Nat /\ m <= 1 /\ j \in 1..m
      BY <2>2
    <3> HIDE DEF m
    <3> QED BY <3>1
  <2> QED BY <2>1, <2>3
<1>3. \A p \in 1..Len(t) : src[p] \in 1..Len(ss) /\ At(p, src[p])
  <2> HIDE DEF At
  <2> QED BY <1>2
<1>4. src = [p \in 1..Len(t) |-> src[p]]
  OBVIOUS
<1> HIDE DEF src
<1>5. src \in [1..Len(t) -> 1..Len(ss)]
  BY <1>3, <1>4
<1>6. \A i \in 1..Len(ss) : Len(ss[i]) = 1 =>
         off[i - 1] + 1 \in 1..Len(t) /\ t[off[i - 1] + 1] = ss[i][1]
  <2> TAKE i \in 1..Len(ss)
  <2> HAVE Len(ss[i]) = 1
  <2>1. 1 \in 1..Len(ss[i])
    OBVIOUS
  <2>2. t[off[i - 1] + 1] = ss[i][1]
    BY <1>1, <2>1 DEF PartsOf
  <2>3. off[i] <= off[Len(ss)]
    <3>1. i \in 0..Len(ss) /\ Len(ss) \in 0..Len(ss) /\ i <= Len(ss)
      OBVIOUS
    <3> QED BY <1>1, <3>1, PartsInOrder
  <2>4. i - 1 \in 0..Len(ss) /\ i \in 0..Len(ss) /\ Len(ss) \in 0..Len(ss)
    OBVIOUS
  <2>5. off[i - 1] \in Nat /\ off[i] = off[i - 1] + 1 /\ off[Len(ss)] = Len(t)
    BY <1>1, <2>4 DEF PartsOf
  <2> QED BY <2>2, <2>3, <2>5
<1>7. ASSUME NEW p \in 1..Len(t)
      PROVE  Len(ss[src[p]]) = 1 /\ t[p] = ss[src[p]][1]
  BY <1>3, <1>6
<1>8. ASSUME NEW p \in 1..Len(t), NEW q \in 1..Len(t), src[p] = src[q] PROVE p = q
  BY <1>3, <1>8
<1>9. ASSUME NEW i \in 1..Len(ss), Len(ss[i]) = 1
      PROVE  \E p \in 1..Len(t) : src[p] = i
  <2> DEFINE p == off[i - 1] + 1
  <2>1. p \in 1..Len(t)
    BY <1>6, <1>9
  <2>2. src[p] \in 1..Len(ss) /\ At(p, src[p])
    BY <1>3, <2>1
  <2>3. 1 \in 1..Len(ss[i]) /\ 1 \in 1..Len(ss[src[p]]) /\ off[i - 1] + 1 = off[src[p] - 1] + 1
    BY <1>9, <2>2
  <2>4. i = src[p]
    <3>1. PICK k \in 1..Len(ss) : k = src[p]
      BY <2>2
    <3>2. 1 \in 1..Len(ss[i]) /\ 1 \in 1..Len(ss[k]) /\ off[i - 1] + 1 = off[k - 1] + 1
      BY <2>3, <3>1
    <3>3. i = k
      BY <1>1, <3>2, PartsApart
    <3> QED BY <3>1, <3>3
  <2> QED BY <2>1, <2>4
<1>10. PickedFrom(ss, t, src)
  BY <1>5, <1>7, <1>8, <1>9 DEF PickedFrom
<1> QED BY <1>1, <1>10 DEF t

\* A set of positions that is not empty has a last one.
LEMMA LastPosition ==
  ASSUME NEW n \in Nat, NEW S \in SUBSET (1..n), S # {}
  PROVE  Max(S) \in S /\ \A x \in S : Max(S) >= x
<1> DEFINE T == {k \in Nat : \E x \in S : k = n - x}
           Q(x) == \A y \in S : x >= y
<1>1. T \in SUBSET Nat /\ T # {}
  <2>1. PICK x \in S : TRUE
    OBVIOUS
  <2>2. n - x \in T
    OBVIOUS
  <2> QED BY <2>2
<1>2. PICK k \in T : \A j \in T : k <= j
  <2> HIDE DEF T
  <2> QED BY <1>1, FirstPosition
<1>3. PICK x \in S : k = n - x
  OBVIOUS
<1>4. Q(x)
  <2> SUFFICES ASSUME NEW y \in S PROVE x >= y
    OBVIOUS
  <2>1. n - y \in T
    OBVIOUS
  <2>2. k <= n - y
    BY <1>2, <2>1
  <2> QED BY <1>3, <2>2
<1>5. Max(S) = CHOOSE z \in S : Q(z)
  BY DEF Max
<1>6. Max(S) \in S /\ Q(Max(S))
  <2> HIDE DEF Q
  <2> QED BY <1>4, <1>5
<1> QED BY <1>6

\* Between a part and the next one that is not empty, all parts are empty.
LEMMA PartsBetween ==
  ASSUME NEW ss, NEW t, NEW off, PartsOf(ss, t, off),
         NEW i \in 0..Len(ss), NEW k \in 0..Len(ss), off[i] = off[k],
         NEW m \in 1..Len(ss), i < m, m <= k
  PROVE  Len(ss[m]) = 0
<1>1. Len(ss) \in Nat /\ m - 1 \in 0..Len(ss) /\ m \in 0..Len(ss) /\ i <= m - 1
  BY DEF PartsOf
<1>2. off[i] <= off[m - 1]
  BY <1>1, PartsInOrder
<1>3. off[m] <= off[k]
  BY <1>1, PartsInOrder
<1>4. off[m] = off[m - 1] + Len(ss[m])
  BY DEF PartsOf
<1>5. off[m - 1] \in Nat /\ off[k] \in Nat /\ off[m] \in Nat /\ Len(ss[m]) \in Nat
  BY <1>1 DEF PartsOf
<1> DEFINE l == Len(ss[m])
<1> HIDE DEF l
<1>6. off[m - 1] + l <= off[m - 1] /\ l \in Nat
  BY <1>2, <1>3, <1>4, <1>5 DEF l
<1>7. l = 0
  BY <1>5, <1>6
<1> QED BY <1>7 DEF l

=============================================================================
