---------------------------- MODULE MonitorProofs ----------------------------
(***************************************************************************)
(* The proof that the monitor shows the database (MonitorShowsDb).  It     *)
(* goes from what serialize writes, over what the text is, to what the     *)
(* parser has shown after each line of it.                                 *)
(***************************************************************************)
EXTENDS Monitor, DmucsDbProofs, Positions

-----------------------------------------------------------------------------
(* The orders in which serialize visits the hosts, the dprops and the tiers *)

\* The sequence q lists the elements of S, each once.
Lists(q, S) ==
  /\ q \in Seq(S)
  /\ \A x \in S : \E i \in 1..Len(q) : q[i] = x
  /\ \A i, j \in 1..Len(q) : q[i] = q[j] => i = j

\* As many different entries as a finite set has elements are the whole set.
LEMMA ListsAll ==
  ASSUME NEW S, IsFiniteSet(S), NEW q \in [1..Cardinality(S) -> S],
         \A i, j \in 1..Cardinality(S) : q[i] = q[j] => i = j
  PROVE  Lists(q, S) /\ Len(q) = Cardinality(S)
<1>1. Cardinality(S) \in Nat
  BY FS_CardinalityType
<1> DEFINE n == Cardinality(S)
<1> HIDE DEF n
<1>2. q \in Injection(1..n, S)
  BY DEF Injection, IsInjective, n
<1>3. IsFiniteSet(1..n) /\ Cardinality(1..n) = n
  <2>1. IsFiniteSet(1..n) /\ Cardinality(1..n) = IF 1 > n THEN 0 ELSE n - 1 + 1
    BY <1>1, FS_Interval DEF n
  <2> QED BY <1>1, <2>1 DEF n
<1>4. q \in Surjection(1..n, S)
  BY <1>2, <1>3, FS_Injection DEF n
<1>5. \A x \in S : \E i \in 1..n : q[i] = x
  BY <1>4 DEF Surjection
<1>6. q \in Seq(S) /\ Len(q) = n
  BY <1>1 DEF n
<1> QED BY <1>5, <1>6 DEF Lists, n

\* SetToSeq lists a finite set.
LEMMA SetToSeqLists ==
  ASSUME NEW S, IsFiniteSet(S)
  PROVE  Lists(SetToSeq(S), S)
<1> DEFINE G(f) == IsInjective(f)
           q == CHOOSE f \in [1..Cardinality(S) -> S] : G(f)
<1>1. PICK f : f \in Bijection(1..Cardinality(S), S)
  BY FS_CardinalityType DEF ExistsBijection
<1>2. f \in [1..Cardinality(S) -> S] /\ G(f)
  BY <1>1 DEF Bijection, Injection, IsInjective
<1>3. q \in [1..Cardinality(S) -> S] /\ G(q)
  <2> HIDE DEF G
  <2> QED BY <1>2
<1>4. \A i, j \in 1..Cardinality(S) : q[i] = q[j] => i = j
  <2> HIDE DEF q
  <2> QED BY <1>3 DEF IsInjective
<1>5. q = SetToSeq(S)
  BY DEF SetToSeq
<1> HIDE DEF q
<1> QED BY <1>3, <1>4, <1>5, ListsAll

\* The hosts, in the order in which serialize visits them.
LEMMA HostSeqLists == Lists(HostSeq, Host)
BY MonitorAssumption, SetToSeqLists DEF HostSeq

\* The dprops; the empty one, if there is one, is first.
LEMMA DpropSeqLists ==
  Lists(DpropSeq, Dprop) /\ \A i \in 1..Len(DpropSeq) : DpropSeq[i] = Unset => i = 1
<1> DEFINE R == Dprop \ {Unset}
           q == SetToSeq(R)
<1>1. IsFiniteSet(R)
  BY MonitorAssumption, FS_Subset
<1>2. Lists(q, R)
  BY <1>1, SetToSeqLists
<1> HIDE DEF q
<1>3. q \in Seq(R) /\ Len(q) \in Nat /\ \A i \in 1..Len(q) : q[i] \in Dprop /\ q[i] # Unset
  BY <1>2 DEF Lists
<1>4. CASE Unset \notin Dprop
  <2>1. DpropSeq = q
    <3>1. DpropSeq = <<>> \o q
      BY <1>4 DEF DpropSeq, q
    <3> QED BY <1>3, <3>1
  <2>2. R = Dprop
    BY <1>4
  <2> QED BY <1>2, <1>3, <2>1, <2>2
<1>5. CASE Unset \in Dprop
  <2> DEFINE u == <<Unset>>
  <2>1. DpropSeq = u \o q
    BY <1>5 DEF DpropSeq, q
  <2>2. u \in Seq(Dprop) /\ Len(u) = 1 /\ u[1] = Unset /\ q \in Seq(Dprop)
    BY <1>3, <1>5
  <2> HIDE DEF u
  <2>a. DpropSeq \in Seq(Dprop) /\ Joined(u, q, DpropSeq)
    BY <2>1, <2>2, ConcatAt
  <2>3. DpropSeq \in Seq(Dprop) /\ Len(DpropSeq) = 1 + Len(q)
    BY <2>2, <2>a DEF Joined
  <2>4. DpropSeq[1] = Unset /\ \A i \in 1..Len(DpropSeq) : i # 1 =>
           i - 1 \in 1..Len(q) /\ DpropSeq[i] = q[i - 1]
    <3>1. DpropSeq[1] = Unset
      BY <2>2, <2>a DEF Joined
    <3>2. ASSUME NEW i \in 1..Len(DpropSeq), i # 1
          PROVE  i - 1 \in 1..Len(q) /\ DpropSeq[i] = q[i - 1]
      <4>1. i - 1 \in 1..Len(q) /\ 1 + (i - 1) = i
        BY <1>3, <2>3, <3>2
      <4>2. DpropSeq[1 + (i - 1)] = q[i - 1]
        BY <2>2, <2>a, <4>1 DEF Joined
      <4> QED BY <4>1, <4>2
    <3> QED BY <3>1, <3>2
  <2>5. \A i \in 1..Len(DpropSeq) : DpropSeq[i] = Unset => i = 1
    BY <1>3, <2>4
  <2>6. ASSUME NEW x \in Dprop PROVE \E i \in 1..Len(DpropSeq) : DpropSeq[i] = x
    <3>1. CASE x = Unset
      <4>1. 1 \in 1..Len(DpropSeq)
        BY <1>3, <2>3
      <4> QED BY <2>4, <3>1, <4>1
    <3>2. CASE x # Unset
      <4>1. PICK i \in 1..Len(q) : q[i] = x
        BY <1>2, <3>2 DEF Lists
      <4>2. i + 1 \in 1..Len(DpropSeq) /\ i + 1 # 1 /\ (i + 1) - 1 = i
        BY <1>3, <2>3
      <4> QED BY <2>4, <4>1, <4>2
    <3> QED BY <3>1, <3>2
  <2>7. ASSUME NEW i \in 1..Len(DpropSeq), NEW j \in 1..Len(DpropSeq), DpropSeq[i] = DpropSeq[j]
        PROVE  i = j
    <3>1. CASE i = 1 \/ j = 1
      BY <2>4, <2>5, <2>7, <3>1
    <3>2. CASE i # 1 /\ j # 1
      <4>1. q[i - 1] = q[j - 1] /\ i - 1 \in 1..Len(q) /\ j - 1 \in 1..Len(q)
        BY <2>4, <2>7, <3>2
      <4>2. i - 1 = j - 1
        BY <1>2, <4>1 DEF Lists
      <4> QED BY <4>2
    <3> QED BY <3>1, <3>2
  <2> QED BY <2>3, <2>5, <2>6, <2>7 DEF Lists
<1> QED BY <1>4, <1>5

\* A finite set of integers that is not empty has a least element.
LEMMA LeastOf ==
  ASSUME NEW S \in SUBSET Int, IsFiniteSet(S), S # {}
  PROVE  \E x \in S : \A y \in S : x <= y
<1> DEFINE Least(T) == \E x \in T : \A y \in T : x <= y
           P == {n \in Nat : \A T \in SUBSET Int :
                               IsFiniteSet(T) /\ Cardinality(T) = n /\ T # {} => Least(T)}
<1>1. 0 \in P
  BY FS_EmptySet
<1>2. ASSUME NEW n \in Nat, n \in P,
             NEW T \in SUBSET Int, IsFiniteSet(T), Cardinality(T) = n + 1, T # {}
      PROVE  Least(T)
  <2>1. PICK x \in T : TRUE
    BY <1>2
  <2> DEFINE U == T \ {x}
  <2>2. IsFiniteSet(U) /\ Cardinality(U) = n /\ U \in SUBSET Int
    <3>1. IsFiniteSet(T) /\ Cardinality(T) = n + 1 /\ x \in T
      BY <1>2
    <3>2. IsFiniteSet(U) /\ Cardinality(U) = Cardinality(T) - 1
      BY <3>1, FS_RemoveElement
    <3> QED BY <3>1, <3>2
  <2>3. CASE U = {}
    BY <2>1, <2>3
  <2>4. CASE U # {}
    <3>1. Least(U)
      <4> HIDE DEF U, Least
      <4> QED BY <1>2, <2>2, <2>4
    <3>2. PICK y \in U : \A z \in U : y <= z
      BY <3>1
    <3>3. CASE x <= y
      BY <2>1, <3>2, <3>3
    <3>4. CASE ~(x <= y)
      <4>1. \A z \in T : y <= z
        BY <2>1, <3>2, <3>4
      <4> QED BY <3>2, <4>1
    <3> QED BY <3>3, <3>4
  <2> QED BY <2>3, <2>4
<1>3. Cardinality(S) \in Nat
  BY FS_CardinalityType
<1>4. Cardinality(S) \in P
  <2> HIDE DEF Least
  <2>1. \A n \in Nat : n \in P => n + 1 \in P
    BY <1>2
  <2> HIDE DEF P
  <2>2. \A n \in Nat : n \in P
    BY <1>1, <2>1, Induction
  <2> QED BY <1>3, <2>2
<1>5. Least(S)
  <2> HIDE DEF Least
  <2> QED BY <1>4
<1> QED BY <1>5

\* A finite set of integers can be listed in descending order.
LEMMA Descending ==
  ASSUME NEW S \in SUBSET Int, IsFiniteSet(S)
  PROVE  \E q \in [1..Cardinality(S) -> S] :
           \A i, j \in 1..Cardinality(S) : i < j => q[i] > q[j]
<1> DEFINE Falls(n, T) == {q \in [1..n -> T] : \A i, j \in 1..n : i < j => q[i] > q[j]}
           P == {n \in Nat : \A T \in SUBSET Int :
                               IsFiniteSet(T) /\ Cardinality(T) = n => Falls(n, T) # {}}
<1>1. 0 \in P
  <2> SUFFICES ASSUME NEW T \in SUBSET Int PROVE Falls(0, T) # {}
    OBVIOUS
  <2>1. [i \in 1..0 |-> 0] \in Falls(0, T)
    OBVIOUS
  <2> QED BY <2>1
<1>2. ASSUME NEW n \in Nat, n \in P,
             NEW T \in SUBSET Int, IsFiniteSet(T), Cardinality(T) = n + 1
      PROVE  Falls(n + 1, T) # {}
  <2>1. T # {}
    BY <1>2, FS_EmptySet
  <2>2. PICK x \in T : \A y \in T : x <= y
    BY <1>2, <2>1, LeastOf
  <2> DEFINE U == T \ {x}
  <2>3. IsFiniteSet(U) /\ Cardinality(U) = n /\ U \in SUBSET Int
    BY <1>2, <2>2, FS_RemoveElement
  <2>4. Falls(n, U) # {}
    <3> HIDE DEF U, Falls
    <3> QED BY <1>2, <2>3
  <2>5. PICK q \in [1..n -> U] : \A i, j \in 1..n : i < j => q[i] > q[j]
    BY <2>4
  <2> DEFINE r == [i \in 1..(n + 1) |-> IF i = n + 1 THEN x ELSE q[i]]
  <2>6. r \in [1..(n + 1) -> T]
    OBVIOUS
  <2>7. ASSUME NEW i \in 1..(n + 1), NEW j \in 1..(n + 1), i < j PROVE r[i] > r[j]
    <3>1. i \in 1..n /\ r[i] = q[i]
      BY <2>7
    <3>2. CASE j = n + 1
      <4>1. r[j] = x
        BY <3>2
      <4>2. q[i] \in U
        BY <3>1
      <4>3. q[i] \in Int /\ x \in Int /\ q[i] # x /\ x <= q[i]
        BY <2>2, <2>3, <4>2
      <4> HIDE DEF r
      <4> QED BY <3>1, <4>1, <4>3
    <3>3. CASE j # n + 1
      <4>1. j \in 1..n /\ r[j] = q[j]
        BY <3>3
      <4> QED BY <2>5, <2>7, <3>1, <4>1
    <3> QED BY <3>2, <3>3
  <2>8. r \in Falls(n + 1, T)
    <3> HIDE DEF r
    <3> QED BY <2>6, <2>7
  <2> QED BY <2>8
<1>3. Cardinality(S) \in Nat
  BY FS_CardinalityType
<1>4. Cardinality(S) \in P
  <2> HIDE DEF Falls
  <2>1. \A n \in Nat : n \in P => n + 1 \in P
    BY <1>2
  <2> HIDE DEF P
  <2>2. \A n \in Nat : n \in P
    BY <1>1, <2>1, Induction
  <2> QED BY <1>3, <2>2
<1>5. Falls(Cardinality(S), S) # {}
  <2> HIDE DEF Falls
  <2> QED BY <1>4
<1> QED BY <1>5

\* The tiers: what serialize visits from the best tier down are all of them.
LEMMA TierSeqLists == Lists(TierSeq, Tier)
<1> DEFINE f == [p \in Load \X Host |-> calcTier(p[1], PIndex[p[2]])]
           n == Cardinality(Tier)
           G(q) == \A i, j \in DOMAIN q : i < j => q[i] > q[j]
<1>1. Tier \in SUBSET Int
  BY HostAssumption DEF Tier, calcTier, Load
<1>2. f \in Surjection(Load \X Host, Tier)
  <2>1. \A ld \in Load, h \in Host : f[<<ld, h>>] = calcTier(ld, PIndex[h])
    OBVIOUS
  <2>2. f \in [Load \X Host -> Tier]
    BY DEF Tier
  <2> HIDE DEF f
  <2>3. ASSUME NEW t \in Tier PROVE \E p \in Load \X Host : f[p] = t
    <3>1. PICK ld \in Load, h \in Host : t = calcTier(ld, PIndex[h])
      BY DEF Tier
    <3>2. <<ld, h>> \in Load \X Host /\ f[<<ld, h>>] = t
      BY <2>1, <3>1
    <3> QED BY <3>2
  <2> QED BY <2>2, <2>3 DEF Surjection
<1>3. IsFiniteSet(Load)
  <2>1. IsFiniteSet({}) /\ IsFiniteSet({} \cup {"light"})
        /\ IsFiniteSet(({} \cup {"light"}) \cup {"medium"})
        /\ IsFiniteSet((({} \cup {"light"}) \cup {"medium"}) \cup {"heavy"})
    BY FS_EmptySet, FS_AddElement
  <2>2. (({} \cup {"light"}) \cup {"medium"}) \cup {"heavy"} = Load
    BY DEF Load
  <2> QED BY <2>1, <2>2
<1>4. IsFiniteSet(Load \X Host)
  BY <1>3, MonitorAssumption, FS_Product
<1>5. IsFiniteSet(Tier)
  BY <1>2, <1>4, FS_Surjection
<1>6. n \in Nat
  BY <1>5, FS_CardinalityType
<1>7. \E q \in [1..n -> Tier] : G(q)
  BY <1>1, <1>5, Descending
<1>8. TierSeq = CHOOSE q \in [1..n -> Tier] : G(q)
  BY DEF TierSeq
<1>9. TierSeq \in [1..n -> Tier] /\ G(TierSeq)
  <2> HIDE DEF G
  <2> QED BY <1>7, <1>8
<1>10. ASSUME NEW i \in 1..n, NEW j \in 1..n, TierSeq[i] = TierSeq[j] PROVE i = j
  <2>1. TierSeq[i] \in Int /\ TierSeq[j] \in Int
    BY <1>1, <1>9
  <2>2. ~(i < j) /\ ~(j < i)
    BY <1>9, <1>10, <2>1
  <2> QED BY <1>6, <2>2
<1> QED BY <1>5, <1>9, <1>10, ListsAll

-----------------------------------------------------------------------------
(* The cpus of a tier, by address *)

\* The state of the loop over the list of a tier, and where it starts.
Counting == [curr : Host \cup {None}, ct : Nat, ips : Seq(Host \X Nat)]

CountStart == [curr |-> None, ct |-> 0, ips |-> <<>>]

\* One address keeps the type.
LEMMA CountIpType ==
  ASSUME NEW a \in Counting, NEW ip \in Host
  PROVE  countIp(a, ip) \in Counting
<1>1. a.curr \in Host \cup {None} /\ a.ct \in Nat /\ a.ips \in Seq(Host \X Nat)
  BY DEF Counting
<1>2. CASE a.curr = ip
  <2>1. countIp(a, ip) = [a EXCEPT !.ct = @ + 1]
    BY <1>2 DEF countIp
  <2> QED BY <1>1, <2>1 DEF Counting
<1>3. CASE a.curr # ip
  <2> DEFINE ips == IF a.curr = None THEN a.ips ELSE Append(a.ips, <<a.curr, a.ct>>)
  <2>1. countIp(a, ip) = [curr |-> ip, ct |-> 1, ips |-> ips]
    BY <1>3 DEF countIp
  <2>2. ips \in Seq(Host \X Nat)
    <3>1. CASE a.curr = None
      BY <1>1, <3>1
    <3>2. CASE a.curr # None
      <4>1. <<a.curr, a.ct>> \in Host \X Nat
        BY <1>1, <3>2
      <4>2. Append(a.ips, <<a.curr, a.ct>>) \in Seq(Host \X Nat)
        BY <1>1, <4>1, AppendProperties
      <4> QED BY <3>2, <4>2
    <3> QED BY <3>1, <3>2
  <2> HIDE DEF ips
  <2> QED BY <2>1, <2>2 DEF Counting
<1> QED BY <1>2, <1>3

\* g is the state of the loop over the list after each of its addresses.
CountRun(list, g) ==
  /\ g \in [0..Len(list) -> Counting]
  /\ g[0] = CountStart
  /\ \A k \in 1..Len(list) : g[k] = countIp(g[k - 1], list[k])
  /\ counted(list) = g[Len(list)]

\* The fold over a list is that loop.
LEMMA CountedRun ==
  ASSUME NEW list \in Seq(Host)
  PROVE  \E g : CountRun(list, g)
<1> DEFINE n == Len(list)
           step == [y \in (1..n) \X Counting |-> countIp(y[2], list[y[1]])]
           E(f) == f = [S \in SUBSET (1..n) |->
                     IF S = {} THEN CountStart
                     ELSE countIp(f[S \ {Max(S)}], list[Max(S)])]
           it == CHOOSE f : E(f)
<1>1. n \in Nat /\ DOMAIN list = 1..n /\ \A i \in 1..n : list[i] \in Host
  OBVIOUS
<1>2. CountStart \in Counting
  BY DEF CountStart, Counting
<1> HIDE DEF n
<1>3. step \in [(1..n) \X Counting -> Counting]
  BY <1>1, CountIpType
<1>4. \A i \in 1..n : \A a \in Counting : step[<<i, a>>] = countIp(a, list[i])
  OBVIOUS
<1> HIDE DEF step
<1>5. PICK f \in [SUBSET (1..n) -> Counting] : FoldsOver(f, CountStart, n, step)
  BY <1>1, <1>2, <1>3, FoldExists
<1>6. E(f)
  <2>1. ASSUME NEW S \in SUBSET (1..n), S # {}
        PROVE  f[S] = countIp(f[S \ {Max(S)}], list[Max(S)])
    <3>1. Max(S) \in 1..n
      BY <1>1, <2>1, LastPosition
    <3>2. f[S] = step[<<Max(S), f[S \ {Max(S)}]>>]
      BY <1>5, <2>1 DEF FoldsOver
    <3>3. f[S \ {Max(S)}] \in Counting
      OBVIOUS
    <3> QED BY <1>4, <3>1, <3>2, <3>3
  <2>2. f[{}] = CountStart
    BY <1>5 DEF FoldsOver
  <2> DEFINE h == [S \in SUBSET (1..n) |->
                     IF S = {} THEN CountStart ELSE countIp(f[S \ {Max(S)}], list[Max(S)])]
  <2>3. \A S \in SUBSET (1..n) : f[S] = h[S]
    BY <2>1, <2>2
  <2>4. h = [S \in SUBSET (1..n) |-> h[S]] /\ f = [S \in SUBSET (1..n) |-> f[S]]
    OBVIOUS
  <2>5. f = h
    <3> HIDE DEF h
    <3> QED BY <2>3, <2>4
  <2> QED BY <2>5
<1>7. E(it)
  <2> HIDE DEF E
  <2> QED BY <1>6
<1>8. counted(list) = it[1..n]
  BY <1>1 DEF counted, FoldLeft, MapThenFoldSet, CountStart
<1>9. /\ it[{}] = CountStart
      /\ \A S \in SUBSET (1..n) : S # {} => it[S] = countIp(it[S \ {Max(S)}], list[Max(S)])
  <2> HIDE DEF it
  <2> QED BY <1>7
<1> HIDE DEF it, E
<1> DEFINE g == [k \in 0..n |-> it[1..k]]
<1>10. g[0] = CountStart /\ counted(list) = g[n]
  <2>1. 1..0 = {} /\ 0 \in 0..n /\ n \in 0..n
    BY <1>1
  <2> QED BY <1>8, <1>9, <2>1
<1>11. ASSUME NEW k \in 1..n PROVE g[k] = countIp(g[k - 1], list[k])
  <2>1. k \in Nat /\ 1..k \in SUBSET (1..n) /\ k \in 1..k /\ 1..k # {}
        /\ (1..k) \ {k} = 1..(k - 1) /\ k - 1 \in 0..n /\ k \in 0..n
    BY <1>1, Segment
  <2>2. Max(1..k) = k
    BY <2>1, LargestOf
  <2>3. it[1..k] = countIp(it[1..(k - 1)], list[k])
    BY <1>9, <2>1, <2>2
  <2> QED BY <2>1, <2>3
<1>12. g = [k \in 0..n |-> g[k]]
  OBVIOUS
<1> HIDE DEF g
<1> DEFINE P == {k \in Nat : k <= n => g[k] \in Counting}
<1>13. 0 \in P
  BY <1>2, <1>10
<1>14. \A k \in Nat : k \in P => k + 1 \in P
  <2> SUFFICES ASSUME NEW k \in Nat, k \in P, k + 1 <= n PROVE g[k + 1] \in Counting
    OBVIOUS
  <2>1. k + 1 \in 1..n /\ (k + 1) - 1 = k /\ k <= n
    BY <1>1
  <2>2. g[k] \in Counting
    BY <2>1
  <2>3. g[k + 1] = countIp(g[k], list[k + 1])
    BY <1>11, <2>1
  <2> QED BY <1>1, <2>1, <2>2, <2>3, CountIpType
<1>15. \A k \in Nat : k \in P
  <2> HIDE DEF P
  <2> QED BY <1>13, <1>14, Induction
<1>16. g \in [0..n -> Counting]
  <2>1. \A k \in 0..n : g[k] \in Counting
    BY <1>1, <1>15
  <2> QED BY <1>12, <2>1
<1> QED BY <1>10, <1>11, <1>16 DEF CountRun, n

\* ips has an entry with its length for each part up to m that is not empty.
Counts(ips, q, ss, m) ==
  /\ \A x \in 1..Len(ips) : \E i \in 1..m :
       Len(ss[i]) # 0 /\ ips[x] = <<q[i], Len(ss[i])>>
  /\ \A i \in 1..m : Len(ss[i]) # 0 =>
       \E x \in 1..Len(ips) : ips[x] = <<q[i], Len(ss[i])>>

\* Empty parts need no entry.
LEMMA CountsSkip ==
  ASSUME NEW ips, NEW q, NEW ss, NEW l \in Nat, NEW m \in Nat, l <= m,
         Counts(ips, q, ss, l), \A i \in 1..m : l < i => Len(ss[i]) = 0
  PROVE  Counts(ips, q, ss, m)
<1>1. \A i \in 1..l : i \in 1..m
  OBVIOUS
<1>2. \A i \in 1..m : Len(ss[i]) # 0 => i \in 1..l
  OBVIOUS
<1> QED BY <1>1, <1>2 DEF Counts

\* The entry of the next part is added.
LEMMA CountsAdd ==
  ASSUME NEW ips \in Seq(Host \X Nat), NEW q, NEW ss, NEW m \in Nat \ {0},
         q[m] \in Host, Len(ss[m]) \in Nat, Len(ss[m]) # 0, Counts(ips, q, ss, m - 1)
  PROVE  /\ Append(ips, <<q[m], Len(ss[m])>>) \in Seq(Host \X Nat)
         /\ Counts(Append(ips, <<q[m], Len(ss[m])>>), q, ss, m)
<1> DEFINE e == <<q[m], Len(ss[m])>>
           c == Append(ips, e)
<1>1. e \in Host \X Nat
  OBVIOUS
<1> HIDE DEF e
<1>2. /\ c \in Seq(Host \X Nat) /\ Len(ips) \in Nat /\ Len(c) = Len(ips) + 1
      /\ \A x \in 1..Len(ips) : c[x] = ips[x]
      /\ c[Len(ips) + 1] = e
  BY <1>1, AppendProperties
<1> HIDE DEF c
<1>3. ASSUME NEW x \in 1..Len(c)
      PROVE  \E i \in 1..m : Len(ss[i]) # 0 /\ c[x] = <<q[i], Len(ss[i])>>
  <2>1. CASE x = Len(ips) + 1
    BY <1>2, <2>1 DEF e
  <2>2. CASE x # Len(ips) + 1
    <3>1. x \in 1..Len(ips)
      BY <1>2, <2>2
    <3>2. PICK i \in 1..(m - 1) : Len(ss[i]) # 0 /\ ips[x] = <<q[i], Len(ss[i])>>
      BY <3>1 DEF Counts
    <3>3. i \in 1..m
      OBVIOUS
    <3> QED BY <1>2, <3>1, <3>2, <3>3
  <2> QED BY <2>1, <2>2
<1>4. ASSUME NEW i \in 1..m, Len(ss[i]) # 0
      PROVE  \E x \in 1..Len(c) : c[x] = <<q[i], Len(ss[i])>>
  <2>1. CASE i = m
    <3>1. Len(ips) + 1 \in 1..Len(c)
      BY <1>2
    <3> QED BY <1>2, <2>1, <3>1 DEF e
  <2>2. CASE i # m
    <3>1. i \in 1..(m - 1)
      BY <2>2
    <3>2. PICK x \in 1..Len(ips) : ips[x] = <<q[i], Len(ss[i])>>
      BY <1>4, <3>1 DEF Counts
    <3>3. x \in 1..Len(c) /\ c[x] = ips[x]
      BY <1>2
    <3> QED BY <3>2, <3>3
  <2> QED BY <2>1, <2>2
<1> QED BY <1>2, <1>3, <1>4 DEF Counts, c, e

\* Parts that repeat one host each, every host in one part only.
Blocks(ss, q) ==
  /\ ss \in Seq(Seq(Host)) /\ q \in [1..Len(ss) -> Host]
  /\ \A i, j \in 1..Len(ss) : q[i] = q[j] => i = j
  /\ \A i \in 1..Len(ss) : \A j \in 1..Len(ss[i]) : ss[i][j] = q[i]

\* The loop in the middle of part i, at its entry j.
InBlock(a, q, ss, i, j) ==
  a.curr = q[i] /\ a.ct = j /\ Counts(a.ips, q, ss, i - 1)

\* The loop counts the entries of the parts one part after the other.
LEMMA CountedBlocks ==
  ASSUME NEW ss, NEW q, Blocks(ss, q), NEW list, NEW off, PartsOf(ss, list, off),
         NEW g, CountRun(list, g)
  PROVE  \A k \in 1..Len(list) : \A i \in 1..Len(ss) : \A j \in 1..Len(ss[i]) :
           k = off[i - 1] + j => InBlock(g[k], q, ss, i, j)
<1> DEFINE n == Len(ss)
           At(k, i, j) == k = off[i - 1] + j
           P == {k \in Nat : k + 1 <= Len(list) =>
                   \A i \in 1..Len(ss) : \A j \in 1..Len(ss[i]) :
                     At(k + 1, i, j) => InBlock(g[k + 1], q, ss, i, j)}
<1>1. /\ q \in [1..n -> Host]
      /\ \A i, j \in 1..n : q[i] = q[j] => i = j
      /\ \A i \in 1..n : \A j \in 1..Len(ss[i]) : ss[i][j] = q[i]
  BY DEF Blocks
<1>3. n \in Nat /\ Len(list) \in Nat /\ off[0] = 0 /\ 0 \in 0..n
  BY DEF PartsOf
<1>4. /\ g \in [0..Len(list) -> Counting] /\ g[0] = CountStart
      /\ \A k \in 1..Len(list) : g[k] = countIp(g[k - 1], list[k])
  BY DEF CountRun
<1>5. \A p \in 1..Len(list) : \E i \in 1..n : \E j \in 1..Len(ss[i]) : p = off[i - 1] + j
  BY DEF PartsOf
<1>6. \A a : \A ip : a.curr # ip => countIp(a, ip) =
         [curr |-> ip, ct |-> 1,
          ips |-> IF a.curr = None THEN a.ips ELSE Append(a.ips, <<a.curr, a.ct>>)]
  BY DEF countIp
<1>7. \A ip \in Host : ip # None
  BY NoneAssumption
<1>8. 0 \in P
  <2> SUFFICES ASSUME 0 + 1 <= Len(list), NEW i \in 1..n, NEW j \in 1..Len(ss[i]),
                      At(0 + 1, i, j)
               PROVE  InBlock(g[0 + 1], q, ss, i, j)
    BY DEF n
  <2>1. i \in Nat \ {0} /\ i - 1 \in 0..n /\ off[i - 1] \in Nat /\ j \in Nat \ {0}
        /\ 1 = off[i - 1] + j /\ list[off[i - 1] + j] = ss[i][j]
    BY PlaceNumbers
  <2>2. j = 1 /\ off[i - 1] = off[0]
    BY <1>3, <2>1
  <2>3. list[1] = q[i] /\ q[i] \in Host
    BY <1>1, <2>1, Zenon
  <2>4. 1 \in 1..Len(list)
    BY <1>3
  <2>5. g[1] = countIp(g[0], list[1])
    <3>1. g[1] = countIp(g[1 - 1], list[1])
      BY <1>4, <2>4
    <3> QED BY <3>1
  <2>6. g[1] = [curr |-> q[i], ct |-> 1, ips |-> <<>>]
    <3>1. g[0].curr = None /\ g[0].ips = <<>>
      BY <1>4 DEF CountStart
    <3> QED BY <1>6, <1>7, <2>3, <2>5, <3>1
  <2>7. Counts(<<>>, q, ss, i - 1)
    <3>1. Counts(<<>>, q, ss, 0)
      BY DEF Counts
    <3>2. ASSUME NEW m \in 1..(i - 1) PROVE Len(ss[m]) = 0
      <4>1. m \in 1..Len(ss) /\ 0 \in 0..Len(ss) /\ i - 1 \in 0..Len(ss) /\ 0 < m /\ m <= i - 1
        BY <1>3, <2>1
      <4> QED BY <2>2, <4>1, PartsBetween
    <3> QED BY <2>1, <3>1, <3>2, CountsSkip
  <2> QED BY <2>2, <2>6, <2>7 DEF InBlock
<1>9. ASSUME NEW k \in Nat, k \in P, (k + 1) + 1 <= Len(list),
             NEW i \in 1..n, NEW j \in 1..Len(ss[i]), At((k + 1) + 1, i, j)
      PROVE  InBlock(g[(k + 1) + 1], q, ss, i, j)
  <2> DEFINE m == k + 1
  <2>1. m \in 1..Len(list) /\ m + 1 \in 1..Len(list) /\ (m + 1) - 1 = m
    BY <1>3, <1>9
  <2>2. PICK x \in 1..n : \E y \in 1..Len(ss[x]) : m = off[x - 1] + y
    BY <1>5, <2>1
  <2>3. PICK y \in 1..Len(ss[x]) : m = off[x - 1] + y
    BY <2>2
  <2>4. InBlock(g[m], q, ss, x, y)
    BY <1>9, <2>1, <2>3 DEF n
  <2>5. g[m + 1] = countIp(g[m], list[m + 1]) /\ g[m] \in Counting
    <3>1. g[m + 1] = countIp(g[(m + 1) - 1], list[m + 1]) /\ m \in 0..Len(list)
      BY <1>4, <2>1
    <3> QED BY <1>4, <2>1, <3>1
  <2>a. m + 1 = off[i - 1] + j
    BY <1>9
  <2>6. list[m + 1] = q[i] /\ q[i] \in Host /\ q[x] \in Host
    <3>1. list[off[i - 1] + j] = ss[i][j]
      BY PlaceNumbers
    <3> QED BY <1>1, <2>a, <3>1, Zenon
  <2>7. i - 1 \in 0..n /\ off[i - 1] \in Nat /\ off[x - 1] \in Nat /\ x \in 0..n /\ x - 1 \in 0..n
        /\ j \in Nat \ {0} /\ y \in Nat \ {0} /\ Len(ss[i]) \in Nat /\ Len(ss[x]) \in Nat
        /\ y <= Len(ss[x]) /\ j <= Len(ss[i]) /\ i \in Nat \ {0} /\ x \in Nat \ {0}
        /\ off[x] \in Nat /\ off[x] = off[x - 1] + Len(ss[x])
    BY PlaceNumbers
  <2> HIDE DEF m
  <2>8. CASE j # 1
    <3>1. j - 1 \in 1..Len(ss[i]) /\ off[i - 1] + (j - 1) = off[x - 1] + y
      <4> DEFINE l == Len(ss[i])
      <4>1. j \in Nat \ {0} /\ j # 1 /\ l \in Nat /\ j <= l
        BY <2>7, <2>8
      <4> HIDE DEF l
      <4>2. j - 1 \in 1..l
        BY <4>1
      <4> DEFINE oi == off[i - 1]
                 ox == off[x - 1]
      <4>4. oi \in Nat /\ ox \in Nat /\ y \in Nat
        BY <2>7
      <4>5. m = ox + y
        BY <2>3
      <4>6. m + 1 = oi + j
        BY <2>a
      <4> HIDE DEF oi, ox
      <4>7. oi + (j - 1) = ox + y
        BY <4>1, <4>4, <4>5, <4>6
      <4> QED BY <4>2, <4>7 DEF l, oi, ox
    <3>2. i = x /\ j - 1 = y
      <4>1. \A l \in 1..Len(ss[i]) : off[i - 1] + l = off[x - 1] + y => i = x /\ l = y
        BY PartsApart
      <4> QED BY <3>1, <4>1
    <3>3. g[m + 1] = [g[m] EXCEPT !.ct = @ + 1]
      BY <2>4, <2>5, <2>6, <3>2 DEF InBlock, countIp
    <3>4. g[m + 1].curr = g[m].curr /\ g[m + 1].ct = g[m].ct + 1 /\ g[m + 1].ips = g[m].ips
      BY <2>5, <3>3 DEF Counting
    <3>5. y + 1 = j
      BY <2>7, <3>2
    <3> QED BY <2>4, <3>2, <3>4, <3>5 DEF InBlock, m
  <2>9. CASE j = 1
    <3>1. off[i - 1] = off[x - 1] + y
      <4> DEFINE oi == off[i - 1]
                 ox == off[x - 1]
      <4>1. oi \in Nat /\ ox \in Nat /\ y \in Nat
        BY <2>7
      <4>2. m = ox + y
        BY <2>3
      <4>3. m + 1 = oi + 1
        BY <2>a, <2>9
      <4> HIDE DEF oi, ox
      <4>4. oi = ox + y
        BY <4>1, <4>2, <4>3
      <4> QED BY <4>4 DEF oi, ox
    <3>2. ~(i <= x)
      <4> SUFFICES ASSUME i <= x PROVE FALSE
        OBVIOUS
      <4>1. i - 1 <= x - 1
        OBVIOUS
      <4>2. off[i - 1] <= off[x - 1]
        BY <2>7, <4>1, PartsInOrder
      <4> QED BY <2>7, <3>1, <4>2
    <3>3. off[x] <= off[i - 1]
      <4>1. x <= i - 1
        BY <2>7, <3>2
      <4> QED BY <2>7, <4>1, PartsInOrder
    <3>4. off[x] = off[x - 1] + Len(ss[x])
      BY <2>7
    <3>5. y = Len(ss[x]) /\ off[x] = off[i - 1]
      <4> DEFINE l == Len(ss[x])
      <4>1. off[x] = off[x - 1] + l /\ l \in Nat /\ y <= l /\ off[x] <= off[i - 1]
        BY <2>7, <3>3, <3>4
      <4> HIDE DEF l
      <4>2. y = l
        BY <2>7, <3>1, <4>1
      <4> QED BY <3>1, <4>1, <4>2 DEF l
    <3>6. q[i] # q[x]
      BY <1>1, <2>7, <3>2
    <3>7. g[m + 1] = [curr |-> q[i], ct |-> 1, ips |-> Append(g[m].ips, <<q[x], y>>)]
      BY <1>6, <1>7, <2>4, <2>5, <2>6, <3>6 DEF InBlock
    <3> DEFINE ips == Append(g[m].ips, <<q[x], Len(ss[x])>>)
    <3>8. Counts(ips, q, ss, x)
      <4>1. g[m].ips \in Seq(Host \X Nat) /\ Counts(g[m].ips, q, ss, x - 1)
        BY <2>4, <2>5 DEF Counting, InBlock
      <4>2. x \in Nat \ {0} /\ Len(ss[x]) # 0
        BY <2>7
      <4> QED BY <2>6, <2>7, <4>1, <4>2, CountsAdd
    <3>9. Counts(ips, q, ss, i - 1)
      <4>1. \A z \in 1..(i - 1) : x < z => Len(ss[z]) = 0
        <5> SUFFICES ASSUME NEW z \in 1..(i - 1), x < z PROVE Len(ss[z]) = 0
          OBVIOUS
        <5>1. z \in 1..Len(ss) /\ z <= i - 1 /\ x < z
          BY <1>3, <2>7
        <5>2. x \in 0..Len(ss) /\ i - 1 \in 0..Len(ss) /\ off[x] = off[i - 1]
          BY <2>7, <3>5
        <5> QED BY <5>1, <5>2, PartsBetween
      <4>2. x \in Nat /\ i - 1 \in Nat /\ x <= i - 1
        BY <2>7, <3>2
      <4> HIDE DEF ips
      <4> QED BY <3>8, <4>1, <4>2, CountsSkip
    <3> QED BY <2>9, <3>5, <3>7, <3>9 DEF InBlock, m
  <2> QED BY <2>8, <2>9
<1>10. \A k \in Nat : k \in P
  <2>1. \A k \in Nat : k \in P => k + 1 \in P
    BY <1>9 DEF n
  <2> HIDE DEF P
  <2> QED BY <1>8, <2>1, Induction
<1>11. ASSUME NEW k \in 1..Len(list), NEW i \in 1..Len(ss), NEW j \in 1..Len(ss[i]),
              k = off[i - 1] + j
       PROVE  InBlock(g[k], q, ss, i, j)
  <2>1. k - 1 \in Nat /\ (k - 1) + 1 = k /\ k <= Len(list)
    BY <1>3
  <2>2. k - 1 \in P
    BY <1>10, <2>1
  <2> QED BY <1>11, <2>1, <2>2
<1> QED BY <1>11

\* uniqIps has an entry for each part that is not empty, and no other.
LEMMA UniqIps ==
  ASSUME NEW ss, NEW q, Blocks(ss, q)
  PROVE  /\ uniqIps(FlattenSeq(ss)) \in Seq(Host \X Nat)
         /\ Counts(uniqIps(FlattenSeq(ss)), q, ss, Len(ss))
<1> DEFINE list == FlattenSeq(ss)
           n == Len(ss)
<1>1. ss \in Seq(Seq(Host))
  BY DEF Blocks
<1>2. list \in Seq(Host)
  BY <1>1, FlattenParts
<1>3. PICK off : PartsOf(ss, list, off)
  BY <1>1, FlattenParts
<1>4. PICK g : CountRun(list, g)
  BY <1>2, CountedRun
<1> HIDE DEF list
<1>5. \A k \in 1..Len(list) : \A i \in 1..Len(ss) : \A j \in 1..Len(ss[i]) :
         k = off[i - 1] + j => InBlock(g[k], q, ss, i, j)
  BY <1>3, <1>4, CountedBlocks
<1>6. /\ n \in Nat /\ Len(list) \in Nat /\ off[0] = 0 /\ off[n] = Len(list)
      /\ \A i \in 1..n : Len(ss[i]) \in Nat /\ off[i] = off[i - 1] + Len(ss[i])
      /\ \A p \in 1..Len(list) : \E i \in 1..n : \E j \in 1..Len(ss[i]) : p = off[i - 1] + j
  BY <1>3 DEF PartsOf
<1>7. counted(list) = g[Len(list)] /\ g[Len(list)] \in Counting /\ g[0] = CountStart
  BY <1>4, <1>6 DEF CountRun
<1> DEFINE a == g[Len(list)]
<1>8. CASE Len(list) = 0
  <2>1. a.ct = 0 /\ a.ips = <<>>
    BY <1>7, <1>8 DEF CountStart
  <2>2. uniqIps(list) = <<>>
    BY <1>7, <2>1 DEF uniqIps
  <2>3. Counts(<<>>, q, ss, 0)
    BY DEF Counts
  <2>4. ASSUME NEW m \in 1..n PROVE Len(ss[m]) = 0
    <3>1. 0 \in 0..n /\ n \in 0..n /\ 0 < m /\ m <= n
      BY <1>6
    <3> QED BY <1>3, <1>6, <1>8, <3>1, PartsBetween
  <2>5. Counts(<<>>, q, ss, n)
    BY <1>6, <2>3, <2>4, CountsSkip
  <2> QED BY <2>2, <2>5 DEF list
<1>9. CASE Len(list) # 0
  <2>1. Len(list) \in 1..Len(list)
    BY <1>6, <1>9
  <2>2. PICK i \in 1..n : \E j \in 1..Len(ss[i]) : Len(list) = off[i - 1] + j
    BY <1>6, <2>1
  <2>3. PICK j \in 1..Len(ss[i]) : Len(list) = off[i - 1] + j
    BY <2>2
  <2>4. InBlock(a, q, ss, i, j)
    BY <1>5, <2>1, <2>3
  <2>5. /\ i \in Nat \ {0} /\ i \in 0..n /\ n \in 0..n /\ i <= n
        /\ j \in Nat \ {0} /\ Len(ss[i]) \in Nat \ {0} /\ j <= Len(ss[i])
        /\ off[i - 1] \in Nat /\ off[i] \in Nat /\ off[i] = off[i - 1] + Len(ss[i])
    BY <1>3, <1>6, PlaceNumbers
  <2>6. off[i] <= off[n]
    BY <1>3, <2>5, PartsInOrder
  <2>7. j = Len(ss[i]) /\ off[i] = off[n]
    <3> DEFINE l == Len(ss[i])
    <3>1. /\ j <= l /\ l \in Nat /\ j \in Nat /\ off[i - 1] \in Nat
          /\ off[i] = off[i - 1] + l /\ off[i - 1] + l <= off[i - 1] + j
      BY <1>6, <2>3, <2>5, <2>6
    <3> HIDE DEF l
    <3>2. j = l
      BY <3>1
    <3> QED BY <1>6, <2>3, <3>1, <3>2 DEF l
  <2> DEFINE ips == Append(a.ips, <<q[i], Len(ss[i])>>)
  <2>8. uniqIps(list) = ips
    <3>1. a.curr = q[i] /\ a.ct = Len(ss[i]) /\ a.ct # 0
      BY <2>4, <2>5, <2>7 DEF InBlock
    <3> QED BY <1>7, <3>1 DEF uniqIps
  <2>9. ips \in Seq(Host \X Nat) /\ Counts(ips, q, ss, i)
    <3>1. a.ips \in Seq(Host \X Nat) /\ Counts(a.ips, q, ss, i - 1)
      BY <1>7, <2>4 DEF Counting, InBlock
    <3>2. q[i] \in Host
      BY DEF Blocks
    <3> QED BY <2>5, <3>1, <3>2, CountsAdd
  <2>10. Counts(ips, q, ss, n)
    <3> HIDE DEF ips
    <3>1. ASSUME NEW m \in 1..n, i < m PROVE Len(ss[m]) = 0
      <4>1. m <= n
        BY <1>6
      <4> QED BY <1>3, <2>5, <2>7, <3>1, <4>1, PartsBetween
    <3> QED BY <1>6, <2>5, <2>9, <3>1, CountsSkip
  <2> QED BY <2>8, <2>9, <2>10 DEF list
<1> QED BY <1>8, <1>9

\* ips has the free cpus of each host of the dprop that has some in the tier.
TierCpus(ips, d, t) ==
  /\ \A x \in 1..Len(ips) : \E h \in Host :
       DpropOf[h] = d /\ host[h].cpus[t] # 0 /\ ips[x] = <<h, host[h].cpus[t]>>
  /\ \A h \in Host : DpropOf[h] = d /\ host[h].cpus[t] # 0 =>
       \E x \in 1..Len(ips) : ips[x] = <<h, host[h].cpus[t]>>

\* What serialize writes of a tier: the free cpus of each host, if there are any.
LEMMA TierEntry ==
  ASSUME TypeOK, NEW d, NEW t \in Tier
  PROVE  /\ uniqIps(tmpList(d, t)) \in Seq(Host \X Nat)
         /\ TierCpus(uniqIps(tmpList(d, t)), d, t)
         /\ tmpList(d, t) = <<>> <=> \A h \in Host : DpropOf[h] = d => host[h].cpus[t] = 0
<1> DEFINE n == Len(HostSeq)
           q == HostSeq
           ss == [i \in DOMAIN HostSeq |->
                    IF DpropOf[HostSeq[i]] = d
                    THEN [x \in 1..host[HostSeq[i]].cpus[t] |-> HostSeq[i]] ELSE <<>>]
           N(i) == IF DpropOf[q[i]] = d THEN host[q[i]].cpus[t] ELSE 0
<1>1. /\ q \in Seq(Host) /\ n \in Nat /\ DOMAIN q = 1..n /\ q \in [1..n -> Host]
      /\ \A h \in Host : \E i \in 1..n : q[i] = h
      /\ \A i, j \in 1..n : q[i] = q[j] => i = j
  BY HostSeqLists DEF Lists
<1>2. \A h \in Host : host[h].cpus[t] \in Nat
  BY DEF TypeOK, HostRec
<1>3. tmpList(d, t) = FlattenSeq(ss)
  BY DEF tmpList
<1>4. ASSUME NEW i \in 1..n
      PROVE  ss[i] \in Seq(Host) /\ Len(ss[i]) = N(i) /\ \A j \in 1..Len(ss[i]) : ss[i][j] = q[i]
  <2>1. q[i] \in Host /\ host[q[i]].cpus[t] \in Nat
    BY <1>1, <1>2
  <2>2. CASE DpropOf[q[i]] = d
    <3> DEFINE c == host[q[i]].cpus[t]
               h == q[i]
    <3>1. ss[i] = [x \in 1..c |-> h] /\ N(i) = c
      BY <1>1, <2>2
    <3> HIDE DEF c, h
    <3>2. [x \in 1..c |-> h] \in Seq(Host) /\ Len([x \in 1..c |-> h]) = c
      BY <2>1 DEF c, h
    <3>3. \A j \in 1..c : [x \in 1..c |-> h][j] = h
      OBVIOUS
    <3> HIDE DEF ss, N
    <3> QED BY <3>1, <3>2, <3>3 DEF h
  <2>3. CASE DpropOf[q[i]] # d
    <3>1. ss[i] = <<>>
      BY <1>1, <2>3
    <3> QED BY <2>3, <3>1
  <2> QED BY <2>2, <2>3
<1>5. DOMAIN ss = 1..n /\ ss = [i \in 1..n |-> ss[i]]
  BY <1>1
<1> HIDE DEF ss
<1>6. ss \in Seq(Seq(Host)) /\ Len(ss) = n
  <2>1. ss \in [1..n -> Seq(Host)]
    BY <1>4, <1>5
  <2> QED BY <1>1, <1>5, <2>1
<1>7. Blocks(ss, q)
  BY <1>1, <1>4, <1>6 DEF Blocks
<1> DEFINE ips == uniqIps(FlattenSeq(ss))
<1>8. ips \in Seq(Host \X Nat) /\ Counts(ips, q, ss, n)
  BY <1>6, <1>7, UniqIps
<1> HIDE DEF ips
<1>9. ASSUME NEW x \in 1..Len(ips)
      PROVE  \E h \in Host : DpropOf[h] = d /\ host[h].cpus[t] # 0 /\ ips[x] = <<h, host[h].cpus[t]>>
  <2>1. PICK i \in 1..n : Len(ss[i]) # 0 /\ ips[x] = <<q[i], Len(ss[i])>>
    BY <1>8 DEF Counts
  <2>2. N(i) # 0 /\ ips[x] = <<q[i], N(i)>> /\ q[i] \in Host
    BY <1>1, <1>4, <2>1
  <2>3. DpropOf[q[i]] = d /\ host[q[i]].cpus[t] # 0 /\ ips[x] = <<q[i], host[q[i]].cpus[t]>>
    BY <2>2
  <2> QED BY <2>2, <2>3
<1>10. ASSUME NEW h \in Host, DpropOf[h] = d, host[h].cpus[t] # 0
       PROVE  \E x \in 1..Len(ips) : ips[x] = <<h, host[h].cpus[t]>>
  <2>1. PICK i \in 1..n : q[i] = h
    BY <1>1
  <2>2. Len(ss[i]) = host[h].cpus[t]
    BY <1>4, <1>10, <2>1
  <2> QED BY <1>8, <1>10, <2>1, <2>2 DEF Counts
<1> DEFINE list == FlattenSeq(ss)
<1>11. PICK off : list \in Seq(Host) /\ PartsOf(ss, list, off)
  BY <1>6, FlattenParts
<1> HIDE DEF list
<1>12. ASSUME list = <<>>, NEW h \in Host, DpropOf[h] = d
       PROVE  host[h].cpus[t] = 0
  <2>1. PICK i \in 1..n : q[i] = h
    BY <1>1
  <2>2. Len(ss[i]) = host[h].cpus[t]
    BY <1>4, <1>12, <2>1
  <2> SUFFICES ASSUME host[h].cpus[t] # 0 PROVE FALSE
    OBVIOUS
  <2>3. 1 \in 1..Len(ss[i]) /\ i \in 1..Len(ss)
    BY <1>2, <1>6, <2>2
  <2>4. off[i - 1] + 1 \in 1..Len(list)
    BY <1>11, <2>3, PlaceNumbers
  <2>5. Len(list) = 0
    BY <1>12
  <2> HIDE DEF n, q
  <2> QED BY <2>4, <2>5
<1>13. ASSUME list # <<>>
       PROVE  \E h \in Host : DpropOf[h] = d /\ host[h].cpus[t] # 0
  <2>1. 1 \in 1..Len(list)
    BY <1>11, <1>13
  <2>2. PICK i \in 1..Len(ss) : \E j \in 1..Len(ss[i]) : 1 = off[i - 1] + j
    BY <1>11, <2>1 DEF PartsOf
  <2>3. i \in 1..n /\ Len(ss[i]) # 0
    BY <1>6, <2>2
  <2>4. N(i) # 0 /\ q[i] \in Host
    BY <1>1, <1>4, <2>3
  <2> QED BY <2>4
<1>14. TierCpus(ips, d, t)
  BY <1>9, <1>10 DEF TierCpus
<1>15. tmpList(d, t) = list /\ uniqIps(list) = ips
  BY <1>3 DEF ips, list
<1> QED BY <1>8, <1>12, <1>13, <1>14, <1>15

-----------------------------------------------------------------------------
(* The text *)

\* The lines of the text.
Line == ({"D"} \X Dprop) \cup ({"H"} \X Host \X State) \cup ({"C"} \X Tier \X Seq(Host \X Nat))

\* The lines of a host and of a tier.
HostLine(h) == <<"H", h, host[h].state>>

TierLine(d, t) == <<"C", t, uniqIps(tmpList(d, t))>>

\* A host that is known has a state.
LEMMA HostLineType ==
  ASSUME TypeOK, NEW h \in allHosts
  PROVE  HostLine(h) \in Line
<1>1. h \in Host /\ host[h].state \in State
  BY DEF TypeOK, HostRec, allHosts
<1> QED BY <1>1 DEF HostLine, Line

\* The lines of the hosts of a dprop: one for each host that is known.
HostText(s, d) ==
  /\ s \in Seq(Line)
  /\ \A p \in 1..Len(s) : \E h \in allHosts : DpropOf[h] = d /\ s[p] = HostLine(h)
  /\ \A h \in allHosts : DpropOf[h] = d => \E p \in 1..Len(s) : s[p] = HostLine(h)
  /\ \A p, r \in 1..Len(s) : s[p] = s[r] => p = r

\* hostLines writes them.
LEMMA HostLines ==
  ASSUME TypeOK, NEW d
  PROVE  HostText(hostLines(d), d)
<1> DEFINE n == Len(HostSeq)
           q == HostSeq
           K(h) == h \in allHosts /\ DpropOf[h] = d
           ss == [i \in DOMAIN HostSeq |-> IF K(q[i]) THEN << HostLine(q[i]) >> ELSE <<>>]
           s == FlattenSeq(ss)
<1>1. /\ q \in Seq(Host) /\ n \in Nat /\ DOMAIN q = 1..n /\ \A i \in 1..n : q[i] \in Host
      /\ \A h \in Host : \E i \in 1..n : q[i] = h
      /\ \A i, j \in 1..n : q[i] = q[j] => i = j
  BY HostSeqLists DEF Lists
<1>2. hostLines(d) = s
  BY DEF hostLines, HostLine
<1>3. ASSUME NEW i \in 1..n
      PROVE  /\ ss[i] \in Seq(Line) /\ Len(ss[i]) <= 1
             /\ Len(ss[i]) = 1 <=> K(q[i])
             /\ K(q[i]) => ss[i][1] = HostLine(q[i])
  <2>1. CASE K(q[i])
    <3>1. ss[i] = << HostLine(q[i]) >> /\ HostLine(q[i]) \in Line
      BY <1>1, <2>1, HostLineType
    <3> HIDE DEF ss
    <3> QED BY <2>1, <3>1
  <2>2. CASE ~K(q[i])
    <3>1. ss[i] = <<>>
      BY <1>1, <2>2
    <3> HIDE DEF ss, K
    <3> QED BY <2>2, <3>1
  <2> QED BY <2>1, <2>2
<1>4. DOMAIN ss = 1..n /\ ss = [i \in 1..n |-> ss[i]]
  BY <1>1
<1> HIDE DEF ss
<1>5. ss \in Seq(Seq(Line)) /\ Len(ss) = n
  <2>1. ss \in [1..n -> Seq(Line)]
    BY <1>3, <1>4
  <2> QED BY <1>1, <1>4, <2>1
<1>6. PICK src : s \in Seq(Line) /\ PickedFrom(ss, s, src)
  BY <1>3, <1>5, FlattenPicks
<1>7. Len(s) \in Nat
  BY <1>6
<1> HIDE DEF s
<1>8. /\ \A p \in 1..Len(s) : src[p] \in 1..n /\ Len(ss[src[p]]) = 1 /\ s[p] = ss[src[p]][1]
      /\ \A p, r \in 1..Len(s) : src[p] = src[r] => p = r
      /\ \A i \in 1..n : Len(ss[i]) = 1 => \E p \in 1..Len(s) : src[p] = i
  BY <1>5, <1>6 DEF PickedFrom
<1>9. ASSUME NEW p \in 1..Len(s)
      PROVE  src[p] \in 1..n /\ K(q[src[p]]) /\ s[p] = HostLine(q[src[p]])
  <2> HIDE DEF K
  <2> QED BY <1>3, <1>8
<1>10. \A h, k : HostLine(h) = HostLine(k) => h = k
  BY DEF HostLine
<1>11. ASSUME NEW p \in 1..Len(s), NEW r \in 1..Len(s), s[p] = s[r] PROVE p = r
  BY <1>1, <1>8, <1>9, <1>10, <1>11
<1>12. ASSUME NEW h \in allHosts, DpropOf[h] = d
       PROVE  \E p \in 1..Len(s) : s[p] = HostLine(h)
  <2>1. PICK i \in 1..n : q[i] = h
    BY <1>1 DEF allHosts
  <2>2. Len(ss[i]) = 1 /\ ss[i][1] = HostLine(h)
    BY <1>3, <1>12, <2>1
  <2>3. PICK p \in 1..Len(s) : src[p] = i
    BY <1>8, <2>2
  <2> QED BY <1>8, <2>2, <2>3
<1> QED BY <1>2, <1>6, <1>9, <1>11, <1>12 DEF HostText

\* The lines of the tiers of a dprop: one for each tier with free cpus.
TierText(s, d) ==
  /\ s \in Seq(Line)
  /\ \A p \in 1..Len(s) : \E t \in Tier : s[p] = TierLine(d, t)
  /\ \A t \in Tier : tmpList(d, t) # <<>> => \E p \in 1..Len(s) : s[p] = TierLine(d, t)

\* tierLines writes them.
LEMMA TierLines ==
  ASSUME TypeOK, NEW d
  PROVE  TierText(tierLines(d), d)
<1> DEFINE n == Len(TierSeq)
           q == TierSeq
           K(t) == tmpList(d, t) # <<>>
           ss == [i \in DOMAIN TierSeq |-> IF K(q[i]) THEN << TierLine(d, q[i]) >> ELSE <<>>]
           s == FlattenSeq(ss)
<1>1. /\ q \in Seq(Tier) /\ n \in Nat /\ DOMAIN q = 1..n /\ \A i \in 1..n : q[i] \in Tier
      /\ \A t \in Tier : \E i \in 1..n : q[i] = t
  BY TierSeqLists DEF Lists
<1>2. tierLines(d) = s
  BY DEF tierLines, TierLine
<1> HIDE DEF K
<1>3. ASSUME NEW i \in 1..n
      PROVE  /\ ss[i] \in Seq(Line) /\ Len(ss[i]) <= 1
             /\ Len(ss[i]) = 1 <=> K(q[i])
             /\ K(q[i]) => ss[i][1] = TierLine(d, q[i])
  <2>1. CASE K(q[i])
    <3>0. TierLine(d, q[i]) \in Line
      <4>1. q[i] \in Tier /\ uniqIps(tmpList(d, q[i])) \in Seq(Host \X Nat)
        BY <1>1, TierEntry
      <4> QED BY <4>1 DEF TierLine, Line
    <3>1. ss[i] = << TierLine(d, q[i]) >>
      BY <1>1, <2>1
    <3> HIDE DEF ss
    <3> QED BY <2>1, <3>0, <3>1
  <2>2. CASE ~K(q[i])
    <3>1. ss[i] = <<>>
      BY <1>1, <2>2
    <3> HIDE DEF ss
    <3> QED BY <2>2, <3>1
  <2> QED BY <2>1, <2>2
<1>4. DOMAIN ss = 1..n /\ ss = [i \in 1..n |-> ss[i]]
  BY <1>1
<1> HIDE DEF ss
<1>5. ss \in Seq(Seq(Line)) /\ Len(ss) = n
  <2>1. ss \in [1..n -> Seq(Line)]
    BY <1>3, <1>4
  <2> QED BY <1>1, <1>4, <2>1
<1>6. PICK src : s \in Seq(Line) /\ PickedFrom(ss, s, src)
  BY <1>3, <1>5, FlattenPicks
<1> HIDE DEF s
<1>8. /\ \A p \in 1..Len(s) : src[p] \in 1..n /\ Len(ss[src[p]]) = 1 /\ s[p] = ss[src[p]][1]
      /\ \A i \in 1..n : Len(ss[i]) = 1 => \E p \in 1..Len(s) : src[p] = i
  BY <1>5, <1>6 DEF PickedFrom
<1>9. ASSUME NEW p \in 1..Len(s) PROVE \E t \in Tier : s[p] = TierLine(d, t)
  BY <1>1, <1>3, <1>8
<1>10. ASSUME NEW t \in Tier, K(t)
       PROVE  \E p \in 1..Len(s) : s[p] = TierLine(d, t)
  <2>1. PICK i \in 1..n : q[i] = t
    BY <1>1
  <2>2. Len(ss[i]) = 1 /\ ss[i][1] = TierLine(d, t)
    BY <1>3, <1>10, <2>1
  <2>3. PICK p \in 1..Len(s) : src[p] = i
    BY <1>8, <2>2
  <2> QED BY <1>8, <2>2, <2>3
<1> QED BY <1>2, <1>6, <1>9, <1>10 DEF TierText, K

\* The kind of a line is its first field.
LEMMA LineKinds ==
  /\ \A h : HostLine(h)[1] = "H" /\ HostLine(h)[2] = h /\ HostLine(h)[3] = host[h].state
  /\ \A d, t : /\ TierLine(d, t)[1] = "C" /\ TierLine(d, t)[2] = t
               /\ TierLine(d, t)[3] = uniqIps(tmpList(d, t))
BY DEF HostLine, TierLine

\* The text of a dprop: its line, and then those of its hosts and its tiers.
DpropText(s, d) ==
  /\ s \in Seq(Line) /\ Len(s) \in Nat \ {0} /\ s[1] = <<"D", d>>
  /\ \A p \in 2..Len(s) : \/ \E h \in allHosts : DpropOf[h] = d /\ s[p] = HostLine(h)
                          \/ \E t \in Tier : s[p] = TierLine(d, t)
  /\ \A h \in allHosts : DpropOf[h] = d => \E p \in 1..Len(s) : s[p] = HostLine(h)
  /\ \A t \in Tier : tmpList(d, t) # <<>> => \E p \in 1..Len(s) : s[p] = TierLine(d, t)
  /\ \A p, r \in 1..Len(s) : s[p][1] = "H" /\ s[p] = s[r] => p = r

\* serializeDprop writes the text of its dprop.
LEMMA DpropLines ==
  ASSUME TypeOK, NEW d \in Dprop
  PROVE  DpropText(serializeDprop(d), d)
<1> DEFINE u == << <<"D", d>> >>
           a == hostLines(d)
           b == tierLines(d)
           v == u \o a
           s == v \o b
<1>1. HostText(a, d) /\ TierText(b, d)
  BY HostLines, TierLines
<1>2. u \in Seq(Line) /\ Len(u) = 1 /\ u[1] = <<"D", d>>
  BY DEF Line
<1>3. serializeDprop(d) = s
  BY DEF serializeDprop
<1>4. a \in Seq(Line) /\ b \in Seq(Line)
  BY <1>1 DEF HostText, TierText
<1> HIDE DEF u, a, b
<1>5. v \in Seq(Line) /\ Joined(u, a, v)
  BY <1>2, <1>4, ConcatAt
<1> HIDE DEF v
<1>6. s \in Seq(Line) /\ Joined(v, b, s)
  BY <1>4, <1>5, ConcatAt
<1> HIDE DEF s
<1> DEFINE m == Len(a)
           n == Len(b)
           l == Len(s)
<1>7. m \in Nat /\ n \in Nat /\ l = 1 + m + n /\ Len(v) = 1 + m /\ l \in Nat \ {0}
  BY <1>2, <1>5, <1>6 DEF Joined
<1>8. \A p \in 1..(1 + m) : s[p] = v[p]
  BY <1>6, <1>7 DEF Joined
<1>9. \A j \in 1..n : s[(1 + m) + j] = b[j]
  BY <1>6, <1>7 DEF Joined
<1>10. v[1] = u[1] /\ \A i \in 1..m : v[1 + i] = a[i]
  BY <1>2, <1>5 DEF Joined
<1>11. /\ \A p \in 1..m : \E h \in allHosts : DpropOf[h] = d /\ a[p] = HostLine(h)
       /\ \A h \in allHosts : DpropOf[h] = d => \E p \in 1..m : a[p] = HostLine(h)
       /\ \A p, r \in 1..m : a[p] = a[r] => p = r
       /\ \A p \in 1..n : \E t \in Tier : b[p] = TierLine(d, t)
       /\ \A t \in Tier : tmpList(d, t) # <<>> => \E p \in 1..n : b[p] = TierLine(d, t)
  BY <1>1 DEF HostText, TierText
<1> HIDE DEF m, n, l
<1>12. s[1] = <<"D", d>>
  BY <1>2, <1>7, <1>8, <1>10
<1>13. ASSUME NEW i \in 1..m PROVE 1 + i \in 1..l /\ s[1 + i] = a[i]
  BY <1>7, <1>8, <1>10
<1>14. ASSUME NEW j \in 1..n PROVE (1 + m) + j \in 1..l /\ s[(1 + m) + j] = b[j]
  <2>1. (1 + m) + j \in 1..l
    BY <1>7
  <2> QED BY <1>9, <2>1
<1>15. ASSUME NEW p \in 2..l
       PROVE  \/ p - 1 \in 1..m /\ s[p] = a[p - 1]
              \/ p - (1 + m) \in 1..n /\ s[p] = b[p - (1 + m)]
  <2>1. CASE p <= 1 + m
    <3>1. p - 1 \in 1..m /\ 1 + (p - 1) = p
      BY <1>7, <2>1
    <3> QED BY <1>13, <3>1
  <2>2. CASE ~(p <= 1 + m)
    <3>1. p - (1 + m) \in 1..n /\ (1 + m) + (p - (1 + m)) = p
      BY <1>7, <2>2
    <3> QED BY <1>14, <3>1
  <2> QED BY <2>1, <2>2
<1>16. ASSUME NEW p \in 2..l
       PROVE  \/ \E h \in allHosts : DpropOf[h] = d /\ s[p] = HostLine(h)
              \/ \E t \in Tier : s[p] = TierLine(d, t)
  BY <1>11, <1>15
<1>17. ASSUME NEW h \in allHosts, DpropOf[h] = d PROVE \E p \in 1..l : s[p] = HostLine(h)
  <2>1. PICK i \in 1..m : a[i] = HostLine(h)
    BY <1>11, <1>17
  <2>2. 1 + i \in 1..l /\ s[1 + i] = HostLine(h)
    BY <1>13, <2>1
  <2> QED BY <2>2
<1>18. ASSUME NEW t \in Tier, tmpList(d, t) # <<>> PROVE \E p \in 1..l : s[p] = TierLine(d, t)
  <2>1. PICK j \in 1..n : b[j] = TierLine(d, t)
    BY <1>11, <1>18
  <2>2. (1 + m) + j \in 1..l /\ s[(1 + m) + j] = TierLine(d, t)
    BY <1>14, <2>1
  <2> QED BY <2>2
<1>19. ASSUME NEW p \in 1..l, s[p][1] = "H" PROVE p - 1 \in 1..m /\ s[p] = a[p - 1]
  <2>1. p # 1
    BY <1>12, <1>19
  <2>2. p \in 2..l
    BY <1>7, <2>1
  <2>3. ASSUME p - (1 + m) \in 1..n, s[p] = b[p - (1 + m)] PROVE FALSE
    <3>1. PICK t \in Tier : s[p] = TierLine(d, t)
      BY <1>11, <2>3
    <3> QED BY <1>19, <3>1, LineKinds
  <2> QED BY <1>15, <2>2, <2>3
<1>20. ASSUME NEW p \in 1..l, NEW r \in 1..l, s[p][1] = "H", s[p] = s[r] PROVE p = r
  <2>1. p - 1 \in 1..m /\ r - 1 \in 1..m /\ a[p - 1] = a[r - 1]
    BY <1>19, <1>20
  <2>2. p - 1 = r - 1
    BY <1>11, <2>1
  <2> QED BY <1>7, <2>2
<1> QED BY <1>3, <1>6, <1>7, <1>12, <1>16, <1>17, <1>18, <1>20 DEF DpropText, l

\* s is the text of a database; grp gives the dprop that each line is under.
Text(s, grp) ==
  /\ s \in Seq(Line) /\ Len(s) \in Nat /\ grp \in [1..Len(s) -> Dprop]
  /\ \A p \in 1..Len(s) : s[p][1] = "D" => s[p] = <<"D", grp[p]>> /\ (grp[p] = Unset => p = 1)
  /\ \A p \in 1..Len(s) : s[p][1] # "D" => p > 1 /\ grp[p] = grp[p - 1]
  /\ \A p \in 1..Len(s) : s[p][1] = "H" => \E h \in allHosts : DpropOf[h] = grp[p] /\ s[p] = HostLine(h)
  /\ \A p \in 1..Len(s) : s[p][1] = "C" => \E t \in Tier : s[p] = TierLine(grp[p], t)
  /\ \A h \in allHosts : \E p \in 1..Len(s) : s[p] = HostLine(h)
  /\ \A h \in allHosts, t \in Tier : tmpList(DpropOf[h], t) # <<>> =>
       \E p \in 1..Len(s) : grp[p] = DpropOf[h] /\ s[p] = TierLine(DpropOf[h], t)
  /\ \A p, r \in 1..Len(s) : s[p][1] = "H" /\ s[p] = s[r] => p = r

\* serialize writes the text of the database.
LEMMA TextShape ==
  ASSUME TypeOK
  PROVE  \E grp : Text(serialize, grp)
<1> DEFINE q == DpropSeq
           n == Len(DpropSeq)
           K(d) == \E h \in allHosts : DpropOf[h] = d
           ss == [i \in DOMAIN DpropSeq |-> IF K(q[i]) THEN serializeDprop(q[i]) ELSE <<>>]
           s == FlattenSeq(ss)
<1>1. /\ q \in Seq(Dprop) /\ n \in Nat /\ DOMAIN q = 1..n /\ \A i \in 1..n : q[i] \in Dprop
      /\ \A d \in Dprop : \E i \in 1..n : q[i] = d
      /\ \A i, j \in 1..n : q[i] = q[j] => i = j
      /\ \A i \in 1..n : q[i] = Unset => i = 1
  BY DpropSeqLists DEF Lists
<1>2. serialize = s
  BY DEF serialize
<1>3. ASSUME NEW i \in 1..n
      PROVE  /\ ss[i] \in Seq(Line) /\ Len(ss[i]) \in Nat
             /\ K(q[i]) => DpropText(ss[i], q[i])
             /\ ~K(q[i]) => Len(ss[i]) = 0
  <2>1. CASE K(q[i])
    <3>1. ss[i] = serializeDprop(q[i]) /\ q[i] \in Dprop
      BY <1>1, <2>1
    <3> HIDE DEF ss, K
    <3>2. DpropText(ss[i], q[i])
      BY <3>1, DpropLines
    <3>3. ss[i] \in Seq(Line)
      BY <3>2 DEF DpropText
    <3> QED BY <2>1, <3>2, <3>3
  <2>2. CASE ~K(q[i])
    <3>1. ss[i] = <<>>
      BY <1>1, <2>2
    <3> HIDE DEF ss, K
    <3> QED BY <2>2, <3>1
  <2> QED BY <2>1, <2>2
<1>4. DOMAIN ss = 1..n /\ ss = [i \in 1..n |-> ss[i]]
  BY <1>1
<1> HIDE DEF ss
<1>5. ss \in Seq(Seq(Line)) /\ Len(ss) = n
  <2>1. ss \in [1..n -> Seq(Line)]
    BY <1>3, <1>4
  <2> QED BY <1>1, <1>4, <2>1
<1>6. PICK off : s \in Seq(Line) /\ PartsOf(ss, s, off)
  BY <1>5, FlattenParts
<1> HIDE DEF s
<1> DEFINE At(i, j, p) == i \in 1..n /\ j \in 1..Len(ss[i]) /\ p = off[i - 1] + j
           In(p, i) == \E j \in 1..Len(ss[i]) : p = off[i - 1] + j
           grp == [p \in 1..Len(s) |-> q[CHOOSE i \in 1..n : In(p, i)]]
<1>7. /\ Len(s) \in Nat
      /\ \A p \in 1..Len(s) : \E i \in 1..n : In(p, i)
  BY <1>5, <1>6 DEF PartsOf
<1>8. ASSUME NEW p \in 1..Len(s) PROVE \E i, j : At(i, j, p)
  BY <1>7
<1>9. ASSUME NEW i, NEW j, NEW p, At(i, j, p)
      PROVE  /\ p \in 1..Len(s) /\ s[p] = ss[i][j] /\ DpropText(ss[i], q[i])
             /\ i \in 1..n /\ j \in 1..Len(ss[i]) /\ p = off[i - 1] + j
             /\ i \in Nat \ {0} /\ j \in Nat \ {0} /\ j <= Len(ss[i]) /\ off[i - 1] \in Nat
             /\ Len(ss[i]) \in Nat
  <2>1. i \in 1..Len(ss) /\ j \in 1..Len(ss[i])
    BY <1>5, <1>9
  <2>2. /\ i \in Nat \ {0} /\ j \in Nat \ {0} /\ Len(ss[i]) \in Nat \ {0} /\ j <= Len(ss[i])
        /\ off[i - 1] \in Nat
        /\ off[i - 1] + j \in 1..Len(s) /\ s[off[i - 1] + j] = ss[i][j]
    BY <1>6, <2>1, PlaceNumbers
  <2>3. K(q[i])
    <3> HIDE DEF K
    <3> QED BY <1>3, <1>9, <2>2
  <2>4. DpropText(ss[i], q[i])
    <3> HIDE DEF K
    <3> QED BY <1>3, <1>9, <2>3
  <2> QED BY <1>9, <2>2, <2>3, <2>4
<1>10. ASSUME NEW i, NEW j, NEW k, NEW l, NEW p, At(i, j, p), At(k, l, p)
       PROVE  i = k /\ j = l
  <2>1. i \in 1..Len(ss) /\ j \in 1..Len(ss[i]) /\ k \in 1..Len(ss) /\ l \in 1..Len(ss[k])
        /\ off[i - 1] + j = off[k - 1] + l
    BY <1>5, <1>10
  <2> QED BY <1>6, <2>1, PartsApart
<1>11. ASSUME NEW i, NEW j, NEW p, At(i, j, p) PROVE grp[p] = q[i]
  <2>1. In(p, i) /\ i \in 1..n /\ p \in 1..Len(s)
    BY <1>9, <1>11
  <2>2. \A k \in 1..n : In(p, k) => k = i
    BY <1>10, <1>11
  <2>3. (CHOOSE k \in 1..n : In(p, k)) = i
    <3> HIDE DEF In
    <3> QED BY <2>1, <2>2
  <2> QED BY <2>1, <2>3
<1>12. grp \in [1..Len(s) -> Dprop]
  <2>1. grp = [p \in 1..Len(s) |-> grp[p]]
    OBVIOUS
  <2> HIDE DEF grp, At
  <2>2. ASSUME NEW p \in 1..Len(s) PROVE grp[p] \in Dprop
    <3>1. PICK i, j : At(i, j, p)
      BY <1>8
    <3> QED BY <1>1, <1>9, <1>11, <3>1
  <2> QED BY <2>1, <2>2
<1>a. \A i \in 1..n : \A j \in 1..Len(ss[i]) : At(i, j, off[i - 1] + j)
  OBVIOUS
<1> HIDE DEF grp, At, In, K
\* What a line is follows from its place in the text of its dprop.
<1>13. ASSUME NEW i, NEW j, NEW p, At(i, j, p)
       PROVE  IF j = 1 THEN s[p] = <<"D", grp[p]>>
              ELSE \/ \E h \in allHosts : DpropOf[h] = grp[p] /\ s[p] = HostLine(h)
                   \/ \E t \in Tier : s[p] = TierLine(grp[p], t)
  <2>1. s[p] = ss[i][j] /\ DpropText(ss[i], q[i]) /\ grp[p] = q[i] /\ j \in Nat \ {0}
        /\ j <= Len(ss[i])
    BY <1>9, <1>11, <1>13
  <2>2. CASE j = 1
    BY <2>1, <2>2 DEF DpropText
  <2>3. CASE j # 1
    <3>1. j \in 2..Len(ss[i])
      BY <1>9, <1>13, <2>3
    <3> QED BY <2>1, <2>3, <3>1 DEF DpropText
  <2> QED BY <2>2, <2>3
<1>14. ASSUME NEW i, NEW j, NEW p, At(i, j, p)
       PROVE  (s[p][1] = "D") <=> (j = 1)
  <2>1. CASE j = 1
    <3>1. s[p] = <<"D", grp[p]>>
      BY <1>13, <1>14, <2>1
    <3> QED BY <2>1, <3>1
  <2>2. CASE j # 1
    <3>1. s[p][1] = "H" \/ s[p][1] = "C"
      BY <1>13, <1>14, <2>2, LineKinds
    <3> QED BY <2>2, <3>1
  <2> QED BY <2>1, <2>2
<1>15. ASSUME NEW p \in 1..Len(s), s[p][1] = "D"
       PROVE  s[p] = <<"D", grp[p]>> /\ (grp[p] = Unset => p = 1)
  <2>1. PICK i, j : At(i, j, p)
    BY <1>8
  <2>2. j = 1 /\ s[p] = <<"D", grp[p]>> /\ grp[p] = q[i] /\ p = off[i - 1] + 1
    BY <1>9, <1>11, <1>13, <1>14, <1>15, <2>1
  <2>3. grp[p] = Unset => i = 1
    BY <1>1, <1>9, <2>1, <2>2
  <2>4. off[1 - 1] = 0
    BY <1>6 DEF PartsOf
  <2> QED BY <2>2, <2>3, <2>4
<1>16. ASSUME NEW p \in 1..Len(s), s[p][1] # "D" PROVE p > 1 /\ grp[p] = grp[p - 1]
  <2>1. PICK i, j : At(i, j, p)
    BY <1>8
  <2>2. j # 1 /\ j \in Nat \ {0} /\ off[i - 1] \in Nat /\ p = off[i - 1] + j /\ j <= Len(ss[i])
        /\ Len(ss[i]) \in Nat
    BY <1>9, <1>14, <1>16, <2>1
  <2>3. j - 1 \in 1..Len(ss[i]) /\ p - 1 = off[i - 1] + (j - 1) /\ p > 1
    BY <2>2
  <2>4. At(i, j - 1, p - 1)
    BY <1>9, <1>a, <2>1, <2>3
  <2> QED BY <1>11, <2>1, <2>3, <2>4
<1>17. ASSUME NEW p \in 1..Len(s), s[p][1] = "H"
       PROVE  \E h \in allHosts : DpropOf[h] = grp[p] /\ s[p] = HostLine(h)
  <2>1. PICK i, j : At(i, j, p)
    BY <1>8
  <2> QED BY <1>13, <1>14, <1>17, <2>1, LineKinds
<1>18. ASSUME NEW p \in 1..Len(s), s[p][1] = "C"
       PROVE  \E t \in Tier : s[p] = TierLine(grp[p], t)
  <2>1. PICK i, j : At(i, j, p)
    BY <1>8
  <2> QED BY <1>13, <1>14, <1>18, <2>1, LineKinds
<1>19. ASSUME NEW h \in allHosts
       PROVE  \E i \in 1..n : q[i] = DpropOf[h] /\ DpropText(ss[i], q[i])
  <2>1. DpropOf[h] \in Dprop
    BY HostAssumption DEF allHosts
  <2>2. PICK i \in 1..n : q[i] = DpropOf[h]
    BY <1>1, <2>1
  <2>3. K(q[i])
    BY <2>2 DEF K
  <2> QED BY <1>3, <2>2, <2>3
<1>20. ASSUME NEW h \in allHosts PROVE \E p \in 1..Len(s) : s[p] = HostLine(h)
  <2>1. PICK i \in 1..n : q[i] = DpropOf[h] /\ DpropText(ss[i], q[i])
    BY <1>19
  <2>2. PICK j \in 1..Len(ss[i]) : ss[i][j] = HostLine(h)
    BY <2>1 DEF DpropText
  <2> DEFINE p == off[i - 1] + j
  <2>3. At(i, j, p)
    BY <1>a
  <2> HIDE DEF p
  <2> QED BY <1>9, <2>2, <2>3
<1>21. ASSUME NEW h \in allHosts, NEW t \in Tier, tmpList(DpropOf[h], t) # <<>>
       PROVE  \E p \in 1..Len(s) : grp[p] = DpropOf[h] /\ s[p] = TierLine(DpropOf[h], t)
  <2>1. PICK i \in 1..n : q[i] = DpropOf[h] /\ DpropText(ss[i], q[i])
    BY <1>19
  <2>2. PICK j \in 1..Len(ss[i]) : ss[i][j] = TierLine(DpropOf[h], t)
    BY <1>21, <2>1 DEF DpropText
  <2> DEFINE p == off[i - 1] + j
  <2>3. At(i, j, p)
    BY <1>a
  <2> HIDE DEF p
  <2>4. p \in 1..Len(s) /\ s[p] = ss[i][j]
    BY <1>9, <2>3
  <2>5. grp[p] = q[i]
    BY <1>11, <2>3
  <2>6. grp[p] = DpropOf[h] /\ s[p] = TierLine(DpropOf[h], t)
    BY <2>1, <2>2, <2>4, <2>5
  <2> QED BY <2>4, <2>6
<1>22. ASSUME NEW p \in 1..Len(s), NEW r \in 1..Len(s), s[p][1] = "H", s[p] = s[r] PROVE p = r
  <2>1. PICK i, j : At(i, j, p)
    BY <1>8
  <2>2. PICK k, l : At(k, l, r)
    BY <1>8
  <2>3. PICK h \in allHosts : DpropOf[h] = grp[p] /\ s[p] = HostLine(h)
    BY <1>17, <1>22
  <2>4. PICK g \in allHosts : DpropOf[g] = grp[r] /\ s[r] = HostLine(g)
    BY <1>17, <1>22
  <2>5. h = g
    <3>1. HostLine(h) = HostLine(g)
      BY <1>22, <2>3, <2>4
    <3> QED BY <3>1 DEF HostLine
  <2>6. i = k
    <3>1. q[i] = q[k] /\ i \in 1..n /\ k \in 1..n
      BY <1>9, <1>11, <2>1, <2>2, <2>3, <2>4, <2>5
    <3> QED BY <1>1, <3>1
  <2>7. s[p] = ss[i][j] /\ s[r] = ss[i][l] /\ j \in 1..Len(ss[i]) /\ l \in 1..Len(ss[i])
        /\ DpropText(ss[i], q[i])
    BY <1>9, <2>1, <2>2, <2>6
  <2>8. j = l
    BY <1>22, <2>7 DEF DpropText
  <2> QED BY <1>9, <2>1, <2>2, <2>6, <2>8
<1>23. Text(s, grp)
  BY <1>6, <1>7, <1>12, <1>15, <1>16, <1>17, <1>18, <1>20, <1>21, <1>22 DEF Text
<1> QED BY <1>2, <1>23

-----------------------------------------------------------------------------
(* The summary of a group *)

\* The lines of the output.
OutLine == (State \X Seq(Host)) \cup ({"***"} \X Dprop) \cup ({"Tier"} \X Tier \X Seq(Host \X Nat))

\* x is the summary of a group: a line for each state that has hosts.
Summary(x, lists) ==
  /\ x \in Seq(OutLine) /\ Len(x) \in Nat
  /\ \A p \in 1..Len(x) : \E s \in State : lists[s] # <<>> /\ x[p] = <<s, lists[s]>>
  /\ \A s \in State : lists[s] # <<>> => \E p \in 1..Len(x) : x[p] = <<s, lists[s]>>
  /\ \A p, r \in 1..Len(x) : x[p][1] = x[r][1] => p = r

\* dumpSummaryInfo writes it.
LEMMA DumpSummary ==
  ASSUME NEW lists \in [State -> Seq(Host)]
  PROVE  Summary(dumpSummaryInfo(lists), lists)
<1> DEFINE q == <<"available", "overloaded", "unavailable", "silent">>
           K(s) == lists[s] # <<>>
           ss == [i \in DOMAIN q |-> IF K(q[i]) THEN << <<q[i], lists[q[i]]>> >> ELSE <<>>]
           x == FlattenSeq(ss)
<1>1. /\ DOMAIN q = 1..4 /\ \A i \in 1..4 : q[i] \in State
      /\ \A s \in State : \E i \in 1..4 : q[i] = s
      /\ \A i, j \in 1..4 : q[i] = q[j] => i = j
  <2>1. DOMAIN q = 1..4 /\ q[1] = "available" /\ q[2] = "overloaded" /\ q[3] = "unavailable"
        /\ q[4] = "silent"
    OBVIOUS
  <2> HIDE DEF q
  <2>2. \A i \in 1..4 : i = 1 \/ i = 2 \/ i = 3 \/ i = 4
    OBVIOUS
  <2>3. 1 \in 1..4 /\ 2 \in 1..4 /\ 3 \in 1..4 /\ 4 \in 1..4
    OBVIOUS
  <2> QED BY <2>1, <2>2, <2>3 DEF State
<1>2. dumpSummaryInfo(lists) = x
  BY DEF dumpSummaryInfo
<1> HIDE DEF q
<1>3. ASSUME NEW i \in 1..4
      PROVE  /\ ss[i] \in Seq(OutLine)
             /\ Len(ss[i]) <= 1
             /\ Len(ss[i]) = 1 <=> K(q[i])
             /\ K(q[i]) => ss[i][1] = <<q[i], lists[q[i]]>>
  <2>1. CASE K(q[i])
    <3>1. ss[i] = << <<q[i], lists[q[i]]>> >>
      BY <1>1, <2>1
    <3>2. <<q[i], lists[q[i]]>> \in OutLine
      BY <1>1 DEF OutLine
    <3> HIDE DEF ss, K
    <3> DEFINE y == <<q[i], lists[q[i]]>>
    <3> HIDE DEF y
    <3>3. ss[i] = <<y>> /\ y \in OutLine
      BY <3>1, <3>2 DEF y
    <3>4. ss[i] \in Seq(OutLine) /\ Len(ss[i]) = 1 /\ ss[i][1] = y
      BY <3>3
    <3> QED BY <2>1, <3>4 DEF y
  <2>2. CASE ~K(q[i])
    <3>1. ss[i] = <<>>
      BY <1>1, <2>2
    <3> HIDE DEF ss, K
    <3> QED BY <2>2, <3>1
  <2> QED BY <2>1, <2>2
<1>4. DOMAIN ss = 1..4 /\ ss = [i \in 1..4 |-> ss[i]]
  BY <1>1
<1> HIDE DEF ss, K
<1>5. ss \in Seq(Seq(OutLine)) /\ Len(ss) = 4
  <2>1. ss \in [1..4 -> Seq(OutLine)]
    BY <1>3, <1>4
  <2> QED BY <1>4, <2>1
<1>6. PICK src : x \in Seq(OutLine) /\ PickedFrom(ss, x, src)
  BY <1>3, <1>5, FlattenPicks
<1> HIDE DEF x
<1>7. /\ \A p \in 1..Len(x) : src[p] \in 1..4 /\ Len(ss[src[p]]) = 1 /\ x[p] = ss[src[p]][1]
      /\ \A p, r \in 1..Len(x) : src[p] = src[r] => p = r
      /\ \A i \in 1..4 : Len(ss[i]) = 1 => \E p \in 1..Len(x) : src[p] = i
  BY <1>5, <1>6 DEF PickedFrom
<1>8. ASSUME NEW p \in 1..Len(x)
      PROVE  src[p] \in 1..4 /\ K(q[src[p]]) /\ x[p] = <<q[src[p]], lists[q[src[p]]]>>
  BY <1>3, <1>7
<1>9. ASSUME NEW p \in 1..Len(x), NEW r \in 1..Len(x), x[p][1] = x[r][1] PROVE p = r
  <2>1. x[p][1] = q[src[p]] /\ x[r][1] = q[src[r]]
    BY <1>8
  <2>2. src[p] = src[r]
    <3>1. q[src[p]] = q[src[r]] /\ src[p] \in 1..4 /\ src[r] \in 1..4
      BY <1>8, <1>9, <2>1
    <3> QED BY <1>1, <3>1, Zenon
  <2> QED BY <1>7, <2>2
<1>10. ASSUME NEW s \in State, lists[s] # <<>>
       PROVE  \E p \in 1..Len(x) : x[p] = <<s, lists[s]>>
  <2>1. PICK i \in 1..4 : q[i] = s
    BY <1>1
  <2>2. Len(ss[i]) = 1 /\ ss[i][1] = <<s, lists[s]>>
    BY <1>3, <1>10, <2>1 DEF K
  <2>3. PICK p \in 1..Len(x) : src[p] = i
    BY <1>7, <2>2
  <2> QED BY <1>7, <2>2, <2>3
<1>11. \A p \in 1..Len(x) : \E s \in State : lists[s] # <<>> /\ x[p] = <<s, lists[s]>>
  BY <1>1, <1>8 DEF K
<1>12. Len(x) \in Nat
  BY <1>6
<1> QED BY <1>2, <1>6, <1>9, <1>10, <1>11, <1>12 DEF Summary

-----------------------------------------------------------------------------
(* The monitor reads the text *)

\* The state of the parser, and where it starts.
Parse == [out : Seq(OutLine), lists : [State -> Seq(Host)]]

ParseStart == [out |-> <<>>, lists |-> NoHosts]

\* A line is of one of three kinds.
LEMMA LineCases ==
  ASSUME NEW line \in Line
  PROVE  \/ \E d \in Dprop : line = <<"D", d>>
         \/ \E h \in Host, s \in State : line = <<"H", h, s>>
         \/ \E t \in Tier, ips \in Seq(Host \X Nat) : line = <<"C", t, ips>>
BY DEF Line

\* The header of a group, if its dprop is not the empty string.
Header(d) == IF d = Unset THEN <<>> ELSE << <<"***", d>> >>

\* The line of a dprop ends the open group and begins another.
LEMMA ParseDprop ==
  ASSUME NEW a, NEW d
  PROVE  parseLine(a, <<"D", d>>) =
           [out |-> a.out \o dumpSummaryInfo(a.lists) \o Header(d), lists |-> NoHosts]
BY DEF parseLine, Header

\* One line keeps the type.
LEMMA ParseLineType ==
  ASSUME NEW a \in Parse, NEW line \in Line
  PROVE  parseLine(a, line) \in Parse
<1>1. a.out \in Seq(OutLine) /\ a.lists \in [State -> Seq(Host)] 
      /\ a = [out |-> a.out, lists |-> a.lists]
  BY DEF Parse
<1>2. ASSUME NEW d \in Dprop, line = <<"D", d>> PROVE parseLine(a, line) \in Parse
  <2> DEFINE x == dumpSummaryInfo(a.lists)
             y == Header(d)
  <2>1. x \in Seq(OutLine)
    BY <1>1, DumpSummary DEF Summary
  <2>2. y \in Seq(OutLine)
    BY DEF Header, OutLine
  <2>3. parseLine(a, line) = [out |-> a.out \o x \o y, lists |-> NoHosts]
    BY <1>2, ParseDprop
  <2> HIDE DEF x, y
  <2>4. a.out \o x \in Seq(OutLine)
    BY <1>1, <2>1, ConcatProperties
  <2>5. a.out \o x \o y \in Seq(OutLine)
    BY <2>2, <2>4, ConcatProperties
  <2>6. NoHosts \in [State -> Seq(Host)]
    BY DEF NoHosts
  <2> QED BY <2>3, <2>5, <2>6 DEF Parse
<1>3. ASSUME NEW h \in Host, NEW s \in State, line = <<"H", h, s>> PROVE parseLine(a, line) \in Parse
  <2>1. parseLine(a, line) = [a EXCEPT !.lists[s] = Append(@, h)]
    <3>1. parseLine(a, <<"H", h, s>>) = [a EXCEPT !.lists[s] = Append(@, h)]
      BY DEF parseLine
    <3> QED BY <1>3, <3>1, Zenon
  <2>2. a.lists[s] \in Seq(Host)
    BY <1>1
  <2>3. Append(a.lists[s], h) \in Seq(Host)
    BY <2>2, AppendProperties
  <2> QED BY <1>1, <2>1, <2>3 DEF Parse
<1>4. ASSUME NEW t \in Tier, NEW ips \in Seq(Host \X Nat), line = <<"C", t, ips>>
      PROVE  parseLine(a, line) \in Parse
  <2>1. parseLine(a, line) = [a EXCEPT !.out = Append(@, <<"Tier", t, ips>>)]
    <3>1. parseLine(a, <<"C", t, ips>>) = [a EXCEPT !.out = Append(@, <<"Tier", t, ips>>)]
      BY DEF parseLine
    <3> QED BY <1>4, <3>1, Zenon
  <2>2. <<"Tier", t, ips>> \in OutLine
    BY DEF OutLine
  <2>3. Append(a.out, <<"Tier", t, ips>>) \in Seq(OutLine)
    BY <1>1, <2>2, AppendProperties
  <2> QED BY <1>1, <2>1, <2>3 DEF Parse
<1> QED BY <1>2, <1>3, <1>4, LineCases

\* g is the state of the parser after each line of the text.
ParseRun(text, g) ==
  /\ g \in [0..Len(text) -> Parse]
  /\ g[0] = ParseStart
  /\ \A k \in 1..Len(text) : g[k] = parseLine(g[k - 1], text[k])
  /\ parseResults(text) = g[Len(text)].out \o dumpSummaryInfo(g[Len(text)].lists)

\* The fold over the text is that run.
LEMMA ParsedRun ==
  ASSUME NEW text \in Seq(Line)
  PROVE  \E g : ParseRun(text, g)
<1> DEFINE n == Len(text)
           step == [y \in (1..n) \X Parse |-> parseLine(y[2], text[y[1]])]
           E(f) == f = [S \in SUBSET (1..n) |->
                     IF S = {} THEN ParseStart
                     ELSE parseLine(f[S \ {Max(S)}], text[Max(S)])]
           it == CHOOSE f : E(f)
           end == FoldLeft(parseLine, ParseStart, text)
<1>1. n \in Nat /\ DOMAIN text = 1..n /\ \A i \in 1..n : text[i] \in Line
  OBVIOUS
<1>2. ParseStart \in Parse
  BY DEF ParseStart, Parse, NoHosts
<1> HIDE DEF n
<1>3. step \in [(1..n) \X Parse -> Parse]
  BY <1>1, ParseLineType
<1>4. \A i \in 1..n : \A a \in Parse : step[<<i, a>>] = parseLine(a, text[i])
  OBVIOUS
<1> HIDE DEF step
<1>5. PICK f \in [SUBSET (1..n) -> Parse] : FoldsOver(f, ParseStart, n, step)
  BY <1>1, <1>2, <1>3, FoldExists
<1>6. E(f)
  <2>1. ASSUME NEW S \in SUBSET (1..n), S # {}
        PROVE  f[S] = parseLine(f[S \ {Max(S)}], text[Max(S)])
    <3>1. Max(S) \in 1..n
      BY <1>1, <2>1, LastPosition
    <3>2. f[S] = step[<<Max(S), f[S \ {Max(S)}]>>]
      BY <1>5, <2>1 DEF FoldsOver
    <3>3. f[S \ {Max(S)}] \in Parse
      OBVIOUS
    <3> QED BY <1>4, <3>1, <3>2, <3>3
  <2>2. f[{}] = ParseStart
    BY <1>5 DEF FoldsOver
  <2> DEFINE h == [S \in SUBSET (1..n) |->
                     IF S = {} THEN ParseStart ELSE parseLine(f[S \ {Max(S)}], text[Max(S)])]
  <2>3. \A S \in SUBSET (1..n) : f[S] = h[S]
    BY <2>1, <2>2
  <2>4. h = [S \in SUBSET (1..n) |-> h[S]] /\ f = [S \in SUBSET (1..n) |-> f[S]]
    OBVIOUS
  <2>5. f = h
    <3> HIDE DEF h
    <3> QED BY <2>3, <2>4
  <2> QED BY <2>5
<1>7. E(it)
  <2> HIDE DEF E
  <2> QED BY <1>6
<1>8. end = it[1..n]
  BY <1>1 DEF FoldLeft, MapThenFoldSet
<1>9. /\ it[{}] = ParseStart
      /\ \A S \in SUBSET (1..n) : S # {} => it[S] = parseLine(it[S \ {Max(S)}], text[Max(S)])
  <2> HIDE DEF it
  <2> QED BY <1>7
<1>a. parseResults(text) = end.out \o dumpSummaryInfo(end.lists)
  BY DEF parseResults, ParseStart
<1> HIDE DEF it, E, end
<1> DEFINE g == [k \in 0..n |-> it[1..k]]
<1>10. g[0] = ParseStart /\ end = g[n]
  <2>1. 1..0 = {} /\ 0 \in 0..n /\ n \in 0..n
    BY <1>1
  <2> QED BY <1>8, <1>9, <2>1
<1>11. ASSUME NEW k \in 1..n PROVE g[k] = parseLine(g[k - 1], text[k])
  <2>1. k \in Nat /\ 1..k \in SUBSET (1..n) /\ k \in 1..k /\ 1..k # {}
        /\ (1..k) \ {k} = 1..(k - 1) /\ k - 1 \in 0..n /\ k \in 0..n
    BY <1>1, Segment
  <2>2. Max(1..k) = k
    BY <2>1, LargestOf
  <2>3. it[1..k] = parseLine(it[1..(k - 1)], text[k])
    BY <1>9, <2>1, <2>2
  <2> QED BY <2>1, <2>3
<1>12. g = [k \in 0..n |-> g[k]]
  OBVIOUS
<1> HIDE DEF g
<1> DEFINE P == {k \in Nat : k <= n => g[k] \in Parse}
<1>13. 0 \in P
  BY <1>2, <1>10
<1>14. \A k \in Nat : k \in P => k + 1 \in P
  <2> SUFFICES ASSUME NEW k \in Nat, k \in P, k + 1 <= n PROVE g[k + 1] \in Parse
    OBVIOUS
  <2>1. k + 1 \in 1..n /\ (k + 1) - 1 = k /\ k <= n
    BY <1>1
  <2>2. g[k] \in Parse
    BY <2>1
  <2>3. g[k + 1] = parseLine(g[k], text[k + 1])
    BY <1>11, <2>1
  <2> QED BY <1>1, <2>1, <2>2, <2>3, ParseLineType
<1>15. \A k \in Nat : k \in P
  <2> HIDE DEF P
  <2> QED BY <1>13, <1>14, Induction
<1>16. g \in [0..n -> Parse]
  <2>1. \A k \in 0..n : g[k] \in Parse
    BY <1>1, <1>15
  <2> QED BY <1>12, <2>1
<1> QED BY <1>a, <1>10, <1>11, <1>16 DEF ParseRun, n

-----------------------------------------------------------------------------
(* Groups of the output *)

\* Lines that are no headers are in the group of the line before them.
LEMMA GroupSame ==
  ASSUME NEW out, NEW c, NEW i \in Nat, NEW k \in Nat, i <= k,
         \A j \in 1..i : c[j] = out[j], \A j \in 1..k : i < j => c[j][1] # "***"
  PROVE  GroupAt(c, k) = GroupAt(out, i)
<1> DEFINE S == {j \in 1..i : out[j][1] = "***"}
           T == {j \in 1..k : c[j][1] = "***"}
           LastHead(j) == \A l \in S : l <= j
           m == CHOOSE j \in S : LastHead(j)
<1>1. S = T
  <2>1. ASSUME NEW j \in T PROVE j \in S
    <3>1. j \in 1..i
      BY <2>1
    <3> QED BY <2>1, <3>1
  <2>2. ASSUME NEW j \in S PROVE j \in T
    <3>1. j \in 1..k
      BY <2>2
    <3> QED BY <2>2, <3>1
  <2> HIDE DEF S, T
  <2> QED BY <2>1, <2>2
<1>2. GroupAt(out, i) = IF S = {} THEN Unset ELSE out[m][2]
  BY DEF GroupAt
<1>3. GroupAt(c, k) = IF S = {} THEN Unset ELSE c[m][2]
  <2>1. GroupAt(c, k) = IF T = {} THEN Unset ELSE c[CHOOSE j \in T : \A l \in T : l <= j][2]
    BY DEF GroupAt
  <2> HIDE DEF S, T
  <2> QED BY <1>1, <2>1
<1>4. CASE S # {}
  <2>1. Max(S) \in S /\ \A x \in S : Max(S) >= x
    BY <1>4, LastPosition
  <2>2. S \in SUBSET Nat
    OBVIOUS
  <2> HIDE DEF S
  <2>3. Max(S) \in S /\ LastHead(Max(S))
    BY <2>1, <2>2
  <2>4. m \in S
    <3> HIDE DEF LastHead
    <3> QED BY <2>3
  <2>5. m \in 1..i
    BY <2>4 DEF S
  <2> HIDE DEF m
  <2> QED BY <1>2, <1>3, <2>5
<1>5. CASE S = {}
  <2> HIDE DEF S
  <2> QED BY <1>2, <1>3, <1>5
<1> QED BY <1>4, <1>5

\* The lines that stay are in the group that they were in.
LEMMA GroupKept ==
  ASSUME NEW out, NEW c, NEW m \in Nat, \A i \in 1..m : c[i] = out[i]
  PROVE  \A i \in 1..m : GroupAt(c, i) = GroupAt(out, i)
<1> SUFFICES ASSUME NEW i \in 1..m PROVE GroupAt(c, i) = GroupAt(out, i)
  OBVIOUS
<1>1. i \in Nat /\ i <= i /\ (\A j \in 1..i : c[j] = out[j]) /\ \A j \in 1..i : i < j => c[j][1] # "***"
  OBVIOUS
<1> QED BY <1>1, GroupSame

\* A header begins its group.
LEMMA GroupHeader ==
  ASSUME NEW c, NEW k \in Nat \ {0}, c[k][1] = "***"
  PROVE  GroupAt(c, k) = c[k][2]
<1> DEFINE T == {j \in 1..k : c[j][1] = "***"}
           LastHead(j) == \A l \in T : l <= j
<1>1. k \in T /\ LastHead(k) /\ \A j \in T : LastHead(j) => j = k
  OBVIOUS
<1>2. GroupAt(c, k) = c[CHOOSE j \in T : LastHead(j)][2]
  BY <1>1 DEF GroupAt
<1>3. (CHOOSE j \in T : LastHead(j)) = k
  <2> HIDE DEF T, LastHead
  <2> QED BY <1>1
<1> HIDE DEF T, LastHead
<1> QED BY <1>2, <1>3

\* c is the output out with the lines x added, none of which is a header.
Grows(out, x, c) ==
  /\ Joined(out, x, c)
  /\ \A i \in 1..Len(out) : i \in 1..Len(c) /\ c[i] = out[i] /\ GroupAt(c, i) = GroupAt(out, i)
  /\ \A j \in 1..Len(x) : /\ Len(out) + j \in 1..Len(c) /\ c[Len(out) + j] = x[j]
                          /\ GroupAt(c, Len(out) + j) = GroupAt(out, Len(out))
  /\ GroupAt(c, Len(c)) = GroupAt(out, Len(out))
  /\ \A i \in 1..Len(c) : i \in 1..Len(out) \/ \E j \in 1..Len(x) : i = Len(out) + j

\* Adding lines that are no headers makes an output of that kind.
LEMMA OutGrows ==
  ASSUME NEW out, NEW x, NEW c, Joined(out, x, c), \A j \in 1..Len(x) : x[j][1] # "***"
  PROVE  Grows(out, x, c)
<1> DEFINE m == Len(out)
           n == Len(x)
           l == Len(c)
<1>1. /\ m \in Nat /\ n \in Nat /\ l \in Nat /\ m <= l
      /\ \A i \in 1..m : i \in 1..l /\ c[i] = out[i]
      /\ \A j \in 1..n : m + j \in 1..l /\ c[m + j] = x[j]
      /\ \A i \in 1..l : i \in 1..m \/ \E j \in 1..n : i = m + j
  BY JoinedAt
<1>2. \A j \in 1..n : x[j][1] # "***"
  OBVIOUS
<1> HIDE DEF m, n, l
<1>3. \A i \in 1..m : GroupAt(c, i) = GroupAt(out, i)
  BY <1>1, GroupKept
<1>4. ASSUME NEW k \in 0..l, m <= k PROVE GroupAt(c, k) = GroupAt(out, m)
  <2>1. k \in Nat /\ m \in Nat /\ \A j \in 1..m : c[j] = out[j]
    BY <1>1
  <2>2. ASSUME NEW j \in 1..k, m < j PROVE c[j][1] # "***"
    <3>1. j \in 1..l /\ j \notin 1..m
      BY <1>1, <2>2
    <3>2. PICK r \in 1..n : j = m + r
      BY <1>1, <3>1
    <3> QED BY <1>1, <1>2, <3>2
  <2> QED BY <1>4, <2>1, <2>2, GroupSame
<1>5. ASSUME NEW j \in 1..n PROVE GroupAt(c, m + j) = GroupAt(out, m)
  <2>1. m + j \in 0..l /\ m <= m + j
    BY <1>1
  <2> QED BY <1>4, <2>1
<1>6. GroupAt(c, l) = GroupAt(out, m)
  BY <1>1, <1>4
<1> QED BY <1>1, <1>3, <1>5, <1>6 DEF Grows, m, n, l

-----------------------------------------------------------------------------
(* What the output shows *)

\* The places of a host in the output and in the lists of the open group.
InOut(out, i, n, h) ==
  i \in 1..Len(out) /\ out[i][1] \in State /\ n \in DOMAIN out[i][2] /\ out[i][2][n] = h

InLists(lists, st, n, h) == st \in State /\ n \in DOMAIN lists[st] /\ lists[st][n] = h

\* The group that the first k lines of the text end in.
Current(grp, k) == IF k = 0 THEN Unset ELSE grp[k]

\* The first k lines have the line of h, whose dprop is d and whose state is st.
Read(h, st, d, s, k) ==
  h \in allHosts /\ host[h].state = st /\ DpropOf[h] = d /\ \E p \in 1..k : s[p] = HostLine(h)

\* After the first k lines of the text s, every host that was read is in one
\* place, in the output or in the lists, and so are the cpus that were read.
Shows(out, lists, s, grp, k) ==
  /\ GroupAt(out, Len(out)) = Current(grp, k)
  /\ \A i, n, h : InOut(out, i, n, h) => Read(h, out[i][1], GroupAt(out, i), s, k)
  /\ \A st, n, h : InLists(lists, st, n, h) => Read(h, st, Current(grp, k), s, k)
  /\ \A h \in allHosts : (\E p \in 1..k : s[p] = HostLine(h)) =>
       (\E i, n : InOut(out, i, n, h)) \/ (\E st, n : InLists(lists, st, n, h))
  /\ \A i, n, j, m, h : InOut(out, i, n, h) /\ InOut(out, j, m, h) => i = j /\ n = m
  /\ \A st, n, u, m, h : InLists(lists, st, n, h) /\ InLists(lists, u, m, h) => st = u /\ n = m
  /\ \A i, n, st, m, h : InOut(out, i, n, h) => ~InLists(lists, st, m, h)
  /\ \A i \in 1..Len(out) : out[i][1] = "Tier" =>
       out[i][2] \in Tier /\ out[i][3] = uniqIps(tmpList(GroupAt(out, i), out[i][2]))
  /\ \A p \in 1..k : s[p][1] = "C" =>
       \E i \in 1..Len(out) : GroupAt(out, i) = grp[p] /\ out[i] = <<"Tier", s[p][2], s[p][3]>>

\* The summary of the open group moves the lists to the output.
LEMMA ShowsDump ==
  ASSUME NEW out \in Seq(OutLine), NEW lists \in [State -> Seq(Host)], NEW s, NEW grp, NEW k,
         Shows(out, lists, s, grp, k), NEW c, c = out \o dumpSummaryInfo(lists)
  PROVE  c \in Seq(OutLine) /\ Shows(c, NoHosts, s, grp, k)
<1> DEFINE x == dumpSummaryInfo(lists)
<1>1. Summary(x, lists)
  BY DumpSummary
<1>2. c = out \o x /\ x \in Seq(OutLine)
  BY <1>1 DEF Summary
<1> HIDE DEF x
<1>3. c \in Seq(OutLine) /\ Joined(out, x, c)
  BY <1>2, ConcatAt
<1>4. /\ \A p \in 1..Len(x) : \E st \in State : lists[st] # <<>> /\ x[p] = <<st, lists[st]>>
      /\ \A st \in State : lists[st] # <<>> => \E p \in 1..Len(x) : x[p] = <<st, lists[st]>>
      /\ \A p, r \in 1..Len(x) : x[p][1] = x[r][1] => p = r
  BY <1>1 DEF Summary
<1>5. \A j \in 1..Len(x) : x[j][1] \in State
  BY <1>4
<1>6. "***" \notin State /\ "Tier" \notin State
  BY DEF State
<1>7. Grows(out, x, c)
  BY <1>3, <1>5, <1>6, OutGrows
<1> DEFINE g == Current(grp, k)
           m == Len(out)
<1>8. /\ GroupAt(out, m) = g
      /\ \A i \in 1..m : i \in 1..Len(c) /\ c[i] = out[i] /\ GroupAt(c, i) = GroupAt(out, i)
      /\ \A j \in 1..Len(x) : /\ m + j \in 1..Len(c) /\ c[m + j] = x[j]
                              /\ GroupAt(c, m + j) = g
      /\ GroupAt(c, Len(c)) = g
      /\ \A i \in 1..Len(c) : i \in 1..m \/ \E j \in 1..Len(x) : i = m + j
  BY <1>7 DEF Grows, Shows
<1> HIDE DEF m
<1> DEFINE New(i, st) == \E j \in 1..Len(x) : i = m + j /\ x[j] = <<st, lists[st]>>
<1>9. ASSUME NEW i, NEW n, NEW h, InOut(out, i, n, h) PROVE InOut(c, i, n, h)
  BY <1>8, <1>9 DEF InOut, m
<1>10. ASSUME NEW i, NEW n, NEW h, InOut(c, i, n, h)
       PROVE  \/ InOut(out, i, n, h) /\ c[i][1] = out[i][1] /\ GroupAt(c, i) = GroupAt(out, i)
              \/ New(i, c[i][1]) /\ InLists(lists, c[i][1], n, h) /\ GroupAt(c, i) = g
  <2>1. CASE i \in 1..m
    BY <1>8, <1>10, <2>1 DEF InOut, m
  <2>2. CASE i \notin 1..m
    <3>1. PICK j \in 1..Len(x) : i = m + j
      BY <1>8, <1>10, <2>2 DEF InOut
    <3>2. PICK st \in State : x[j] = <<st, lists[st]>>
      BY <1>4
    <3>3. c[i] = <<st, lists[st]>> /\ GroupAt(c, i) = g
      BY <1>8, <3>1, <3>2
    <3>4. c[i][1] = st /\ c[i][2] = lists[st]
      BY <3>3
    <3>5. InLists(lists, st, n, h)
      BY <1>10, <3>4 DEF InOut, InLists
    <3> QED BY <3>1, <3>2, <3>3, <3>4, <3>5
  <2> QED BY <2>1, <2>2
<1>11. ASSUME NEW st, NEW n, NEW h, InLists(lists, st, n, h) PROVE \E i : InOut(c, i, n, h)
  <2>1. lists[st] # <<>> /\ st \in State
    BY <1>11 DEF InLists
  <2>2. PICK j \in 1..Len(x) : x[j] = <<st, lists[st]>>
    BY <1>4, <2>1
  <2>3. m + j \in 1..Len(c) /\ c[m + j] = <<st, lists[st]>>
    BY <1>8, <2>2
  <2>4. c[m + j][1] = st /\ c[m + j][2] = lists[st]
    BY <2>3
  <2>5. InOut(c, m + j, n, h)
    BY <1>11, <2>1, <2>3, <2>4 DEF InOut, InLists
  <2> QED BY <2>5
<1>12. ASSUME NEW i, NEW j, NEW st, New(i, st), New(j, st) PROVE i = j
  <2>1. PICK p \in 1..Len(x) : i = m + p /\ x[p] = <<st, lists[st]>>
    BY <1>12
  <2>2. PICK r \in 1..Len(x) : j = m + r /\ x[r] = <<st, lists[st]>>
    BY <1>12
  <2>3. x[p][1] = x[r][1]
    BY <2>1, <2>2
  <2> QED BY <1>4, <2>1, <2>2, <2>3
<1>13. \A st, n, h : ~InLists(NoHosts, st, n, h)
  BY DEF InLists, NoHosts
<1> HIDE DEF New, g
<1>14. GroupAt(c, Len(c)) = Current(grp, k)
  BY <1>8 DEF g
<1>15. ASSUME NEW i, NEW n, NEW h, InOut(c, i, n, h)
       PROVE  Read(h, c[i][1], GroupAt(c, i), s, k)
  <2>1. CASE InOut(out, i, n, h) /\ c[i][1] = out[i][1] /\ GroupAt(c, i) = GroupAt(out, i)
    <3>1. Read(h, out[i][1], GroupAt(out, i), s, k)
      BY <2>1 DEF Shows
    <3> QED BY <2>1, <3>1, Zenon
  <2>2. CASE InLists(lists, c[i][1], n, h) /\ GroupAt(c, i) = g
    <3>1. \A st, a : InLists(lists, st, a, h) => Read(h, st, Current(grp, k), s, k)
      BY DEF Shows
    <3> QED BY <2>2, <3>1, Zenon DEF g
  <2> QED BY <1>10, <1>15, <2>1, <2>2
<1>16. ASSUME NEW h \in allHosts, \E p \in 1..k : s[p] = HostLine(h)
       PROVE  \E i, n : InOut(c, i, n, h)
  <2>1. (\E i, n : InOut(out, i, n, h)) \/ (\E st, n : InLists(lists, st, n, h))
    BY <1>16 DEF Shows
  <2> QED BY <1>9, <1>11, <2>1
<1>17. ASSUME NEW i, NEW n, NEW j, NEW l, NEW h, InOut(c, i, n, h), InOut(c, j, l, h)
       PROVE  i = j /\ n = l
  <2>1. CASE InOut(out, i, n, h) /\ InOut(out, j, l, h)
    BY <2>1 DEF Shows
  <2>2. CASE InOut(out, i, n, h) /\ ~InOut(out, j, l, h)
    BY <1>10, <1>17, <2>2 DEF Shows
  <2>3. CASE ~InOut(out, i, n, h) /\ InOut(out, j, l, h)
    BY <1>10, <1>17, <2>3 DEF Shows
  <2>4. CASE ~InOut(out, i, n, h) /\ ~InOut(out, j, l, h)
    <3>1. /\ New(i, c[i][1]) /\ InLists(lists, c[i][1], n, h)
          /\ New(j, c[j][1]) /\ InLists(lists, c[j][1], l, h)
      BY <1>10, <1>17, <2>4
    <3>2. c[i][1] = c[j][1] /\ n = l
      <4>1. \A st, a, u, b : InLists(lists, st, a, h) /\ InLists(lists, u, b, h) => st = u /\ a = b
        BY DEF Shows
      <4> QED BY <3>1, <4>1, Zenon
    <3> QED BY <1>12, <3>1, <3>2
  <2> QED BY <2>1, <2>2, <2>3, <2>4
<1>18. ASSUME NEW i \in 1..Len(c), c[i][1] = "Tier"
       PROVE  c[i][2] \in Tier /\ c[i][3] = uniqIps(tmpList(GroupAt(c, i), c[i][2]))
  <2>1. i \in 1..m
    <3>1. CASE \E j \in 1..Len(x) : i = m + j
      <4>1. PICK j \in 1..Len(x) : i = m + j
        BY <3>1
      <4>2. c[i] = x[j]
        BY <1>8, <4>1
      <4>3. c[i][1] \in State
        BY <1>5, <4>2
      <4> QED BY <1>6, <1>18, <4>3
    <3> QED BY <1>8, <3>1
  <2>2. c[i] = out[i] /\ GroupAt(c, i) = GroupAt(out, i)
    BY <1>8, <2>1
  <2> QED BY <1>18, <2>1, <2>2 DEF Shows, m
<1>19. ASSUME NEW p \in 1..k, s[p][1] = "C"
       PROVE  \E i \in 1..Len(c) : GroupAt(c, i) = grp[p] /\ c[i] = <<"Tier", s[p][2], s[p][3]>>
  <2>1. PICK i \in 1..m : GroupAt(out, i) = grp[p] /\ out[i] = <<"Tier", s[p][2], s[p][3]>>
    BY <1>19 DEF Shows, m
  <2> QED BY <1>8, <2>1
<1>20. Shows(c, NoHosts, s, grp, k)
  BY <1>13, <1>14, <1>15, <1>16, <1>17, <1>18, <1>19 DEF Shows
<1> QED BY <1>3, <1>20

\* c is the output out with lines that show no host, after line k of the text,
\* which is not that of a host.
Keeps(out, c, lists, s, grp, k) ==
  /\ s[k][1] # "H"
  /\ GroupAt(c, Len(c)) = grp[k]
  /\ grp[k] = Current(grp, k - 1) \/ lists = NoHosts
  /\ \A i \in 1..Len(out) : i \in 1..Len(c) /\ c[i] = out[i] /\ GroupAt(c, i) = GroupAt(out, i)
  /\ \A i \in 1..Len(c) : i \notin 1..Len(out) =>
       /\ c[i][1] \notin State
       /\ c[i][1] = "Tier" => c[i][2] \in Tier /\ c[i][3] = uniqIps(tmpList(GroupAt(c, i), c[i][2]))
  /\ s[k][1] = "C" =>
       \E i \in 1..Len(c) : GroupAt(c, i) = grp[k] /\ c[i] = <<"Tier", s[k][2], s[k][3]>>

\* A line that is not that of a host adds no host.
LEMMA ShowsKeeps ==
  ASSUME NEW out, NEW lists, NEW s, NEW grp, NEW k \in Nat \ {0}, NEW c,
         Shows(out, lists, s, grp, k - 1), Keeps(out, c, lists, s, grp, k)
  PROVE  Shows(c, lists, s, grp, k)
<1>1. /\ k - 1 \in Nat /\ \A p \in 1..k : p = k \/ p \in 1..(k - 1)
      /\ \A p \in 1..(k - 1) : p \in 1..k
  OBVIOUS
<1>2. Current(grp, k) = grp[k]
  BY DEF Current
<1>b. /\ s[k][1] # "H" /\ GroupAt(c, Len(c)) = grp[k]
      /\ grp[k] = Current(grp, k - 1) \/ lists = NoHosts
      /\ \A i \in 1..Len(out) : i \in 1..Len(c) /\ c[i] = out[i] /\ GroupAt(c, i) = GroupAt(out, i)
      /\ \A i \in 1..Len(c) : i \notin 1..Len(out) =>
           /\ c[i][1] \notin State
           /\ c[i][1] = "Tier" =>
                c[i][2] \in Tier /\ c[i][3] = uniqIps(tmpList(GroupAt(c, i), c[i][2]))
      /\ s[k][1] = "C" =>
           \E i \in 1..Len(c) : GroupAt(c, i) = grp[k] /\ c[i] = <<"Tier", s[k][2], s[k][3]>>
  BY DEF Keeps
<1>3. ASSUME NEW i, NEW n, NEW h
      PROVE  /\ InOut(c, i, n, h) <=> InOut(out, i, n, h)
             /\ InOut(c, i, n, h) => c[i][1] = out[i][1] /\ GroupAt(c, i) = GroupAt(out, i)
  BY <1>b DEF InOut
<1>4. ASSUME NEW h, NEW st, NEW d, Read(h, st, d, s, k - 1) PROVE Read(h, st, d, s, k)
  BY <1>1, <1>4 DEF Read
<1>5. ASSUME NEW i, NEW n, NEW h, InOut(c, i, n, h)
      PROVE  Read(h, c[i][1], GroupAt(c, i), s, k)
  <2>1. InOut(out, i, n, h) /\ c[i][1] = out[i][1] /\ GroupAt(c, i) = GroupAt(out, i)
    BY <1>3, <1>5
  <2>2. Read(h, out[i][1], GroupAt(out, i), s, k - 1)
    BY <2>1 DEF Shows
  <2>3. Read(h, out[i][1], GroupAt(out, i), s, k)
    BY <1>4, <2>2
  <2> QED BY <2>1, <2>3, Zenon
<1>6. ASSUME NEW st, NEW n, NEW h, InLists(lists, st, n, h)
      PROVE  Read(h, st, Current(grp, k), s, k)
  <2>1. Read(h, st, Current(grp, k - 1), s, k - 1)
    BY <1>6 DEF Shows
  <2>2. lists # NoHosts
    BY <1>6 DEF InLists, NoHosts
  <2>3. Current(grp, k - 1) = Current(grp, k)
    BY <1>2, <1>b, <2>2
  <2> QED BY <1>4, <2>1, <2>3
<1>7. ASSUME NEW h \in allHosts, NEW p \in 1..k, s[p] = HostLine(h)
      PROVE  (\E i, n : InOut(c, i, n, h)) \/ (\E st, n : InLists(lists, st, n, h))
  <2>1. s[p][1] = "H"
    BY <1>7, LineKinds
  <2>2. p \in 1..(k - 1)
    BY <1>1, <1>b, <2>1
  <2>3. (\E i, n : InOut(out, i, n, h)) \/ (\E st, n : InLists(lists, st, n, h))
    BY <1>7, <2>2 DEF Shows
  <2> QED BY <1>3, <2>3
<1>8. ASSUME NEW i \in 1..Len(c), c[i][1] = "Tier"
      PROVE  c[i][2] \in Tier /\ c[i][3] = uniqIps(tmpList(GroupAt(c, i), c[i][2]))
  <2>1. CASE i \in 1..Len(out)
    <3>1. c[i] = out[i] /\ GroupAt(c, i) = GroupAt(out, i)
      BY <1>b, <2>1
    <3> QED BY <1>8, <2>1, <3>1 DEF Shows
  <2>2. CASE i \notin 1..Len(out)
    BY <1>b, <1>8, <2>2
  <2> QED BY <2>1, <2>2
<1>9. ASSUME NEW p \in 1..k, s[p][1] = "C"
      PROVE  \E i \in 1..Len(c) : GroupAt(c, i) = grp[p] /\ c[i] = <<"Tier", s[p][2], s[p][3]>>
  <2>1. CASE p = k
    BY <1>b, <1>9, <2>1
  <2>2. CASE p \in 1..(k - 1)
    <3>1. PICK i \in 1..Len(out) : GroupAt(out, i) = grp[p] /\ out[i] = <<"Tier", s[p][2], s[p][3]>>
      BY <1>9, <2>2 DEF Shows
    <3> QED BY <1>b, <3>1
  <2> QED BY <1>1, <2>1, <2>2
<1>10. \A i, n, j, m, h : InOut(c, i, n, h) /\ InOut(c, j, m, h) => i = j /\ n = m
  BY <1>3 DEF Shows
<1>11. \A i, n, st, m, h : InOut(c, i, n, h) => ~InLists(lists, st, m, h)
  BY <1>3 DEF Shows
<1>12. \A st, n, u, m, h : InLists(lists, st, n, h) /\ InLists(lists, u, m, h) => st = u /\ n = m
  BY DEF Shows
<1> QED BY <1>b, <1>2, <1>5, <1>6, <1>7, <1>8, <1>9, <1>10, <1>11, <1>12 DEF Shows

\* The line of a dprop begins a group.
LEMMA ShowsHeader ==
  ASSUME NEW s, NEW grp, Text(s, grp), NEW k \in 1..Len(s), s[k][1] = "D",
         NEW out \in Seq(OutLine), Shows(out, NoHosts, s, grp, k - 1),
         NEW c, c = out \o Header(grp[k])
  PROVE  c \in Seq(OutLine) /\ Shows(c, NoHosts, s, grp, k)
<1>1. Len(s) \in Nat /\ grp[k] \in Dprop /\ (grp[k] = Unset => k = 1)
  BY DEF Text
<1>2. k \in Nat \ {0}
  BY <1>1
<1>3. CASE grp[k] = Unset
  <2>1. c = out
    BY <1>3 DEF Header
  <2>2. k = 1 /\ k - 1 = 0
    BY <1>1, <1>3
  <2>3. GroupAt(c, Len(c)) = grp[k]
    <3>1. GroupAt(out, Len(out)) = Current(grp, 0)
      BY <2>2 DEF Shows
    <3> QED BY <1>3, <2>1, <3>1 DEF Current
  <2>4. Shows(c, NoHosts, s, grp, k)
    <3>1. Keeps(out, c, NoHosts, s, grp, k)
      BY <2>1, <2>3 DEF Keeps
    <3>2. Shows(out, NoHosts, s, grp, k - 1)
      OBVIOUS
    <3> QED BY <1>2, <3>1, <3>2, ShowsKeeps
  <2> QED BY <2>1, <2>4
<1>4. CASE grp[k] # Unset
  <2> DEFINE y == <<"***", grp[k]>>
             m == Len(out)
             l == Len(c)
  <2>1. y \in OutLine /\ y[1] = "***" /\ y[2] = grp[k] /\ c = out \o <<y>>
    BY <1>1, <1>4 DEF OutLine, Header
  <2> HIDE DEF y
  <2>2. c \in Seq(OutLine) /\ Joined(out, <<y>>, c)
    <3>1. <<y>> \in Seq(OutLine)
      BY <2>1
    <3> QED BY <2>1, <3>1, ConcatAt
  <2>3. Len(<<y>>) = 1 /\ <<y>>[1] = y
    OBVIOUS
  <2>4. m \in Nat /\ l = m + 1 /\ (\A i \in 1..m : c[i] = out[i]) /\ c[m + 1] = y
    BY <2>2, <2>3 DEF Joined
  <2> HIDE DEF m, l
  <2>5. l \in Nat \ {0} /\ \A i \in 1..m : i \in 1..l /\ i \in Nat
    BY <2>4
  <2>6. ASSUME NEW i \in 1..m PROVE GroupAt(c, i) = GroupAt(out, i)
    BY <2>4, GroupKept
  <2>7. GroupAt(c, l) = grp[k]
    BY <2>1, <2>4, <2>5, GroupHeader
  <2>8. \A i \in 1..l : i \notin 1..m => c[i][1] = "***"
    <3>1. \A i \in 1..l : i \notin 1..m => i = m + 1
      BY <2>4
    <3> QED BY <2>1, <2>4, <3>1
  <2>9. "***" \notin State /\ "***" # "Tier"
    BY DEF State
  <2>10. Shows(c, NoHosts, s, grp, k)
    <3>1. \A i \in 1..Len(out) : i \in 1..Len(c) /\ c[i] = out[i] /\ GroupAt(c, i) = GroupAt(out, i)
      BY <2>4, <2>5, <2>6 DEF m, l
    <3>2. \A i \in 1..Len(c) : i \notin 1..Len(out) => c[i][1] \notin State /\ c[i][1] # "Tier"
      BY <2>8, <2>9 DEF m, l
    <3>3. GroupAt(c, Len(c)) = grp[k]
      BY <2>7 DEF l
    <3>4. Keeps(out, c, NoHosts, s, grp, k)
      BY <3>1, <3>2, <3>3 DEF Keeps
    <3>5. Shows(out, NoHosts, s, grp, k - 1)
      OBVIOUS
    <3> QED BY <1>2, <3>4, <3>5, ShowsKeeps
  <2> QED BY <2>2, <2>10
<1> QED BY <1>3, <1>4

\* The line of a tier is shown in the open group.
LEMMA ShowsTier ==
  ASSUME NEW s, NEW grp, Text(s, grp), NEW k \in 1..Len(s), s[k][1] = "C",
         NEW out \in Seq(OutLine), NEW lists, Shows(out, lists, s, grp, k - 1),
         NEW t \in Tier, NEW ips \in Seq(Host \X Nat), s[k] = <<"C", t, ips>>,
         NEW c, c = Append(out, <<"Tier", t, ips>>)
  PROVE  c \in Seq(OutLine) /\ Shows(c, lists, s, grp, k)
<1>1. Len(s) \in Nat /\ k > 1 /\ grp[k] = grp[k - 1]
  BY DEF Text
<1>2. k \in Nat \ {0} /\ k - 1 # 0
  BY <1>1
<1>3. Current(grp, k - 1) = grp[k]
  BY <1>1, <1>2 DEF Current
<1>4. ips = uniqIps(tmpList(grp[k], t))
  <2>1. PICK u \in Tier : s[k] = TierLine(grp[k], u)
    BY DEF Text
  <2>2. s[k][2] = t /\ s[k][3] = ips
    OBVIOUS
  <2>3. TierLine(grp[k], u)[2] = u /\ TierLine(grp[k], u)[3] = uniqIps(tmpList(grp[k], u))
    BY LineKinds
  <2> QED BY <2>1, <2>2, <2>3, Zenon
<1> DEFINE y == <<"Tier", t, ips>>
<1>5. y \in OutLine /\ y[1] = "Tier" /\ y[2] = t /\ y[3] = ips /\ c = Append(out, y)
      /\ y = <<"Tier", s[k][2], s[k][3]>>
  BY DEF OutLine
<1> HIDE DEF y
<1>6. c \in Seq(OutLine) /\ Joined(out, <<y>>, c)
  BY <1>5, AppendAt
<1> DEFINE x == <<y>>
<1>7. Len(x) = 1 /\ x[1] = y /\ Joined(out, x, c)
  BY <1>6
<1> HIDE DEF x
<1>8. Grows(out, x, c)
  <2>1. \A j \in 1..Len(x) : x[j][1] # "***"
    BY <1>5, <1>7
  <2> QED BY <1>7, <2>1, OutGrows
<1> DEFINE m == Len(out)
           l == Len(c)
<1>9. /\ \A i \in 1..m : i \in 1..l /\ c[i] = out[i] /\ GroupAt(c, i) = GroupAt(out, i)
      /\ m + 1 \in 1..l /\ c[m + 1] = y /\ GroupAt(c, m + 1) = grp[k]
      /\ GroupAt(c, l) = grp[k]
      /\ \A i \in 1..l : i \in 1..m \/ i = m + 1
  <2>1. GroupAt(out, m) = grp[k]
    BY <1>3 DEF Shows
  <2>2. 1 \in 1..Len(x)
    BY <1>7
  <2>3. \A j \in 1..Len(x) : j = 1
    BY <1>7
  <2> QED BY <1>7, <1>8, <2>1, <2>2, <2>3 DEF Grows
<1> HIDE DEF m, l
<1>10. "Tier" \notin State
  BY DEF State
<1>11. ASSUME NEW i \in 1..l, i \notin 1..m
       PROVE  /\ c[i][1] \notin State /\ c[i][2] \in Tier
              /\ c[i][3] = uniqIps(tmpList(GroupAt(c, i), c[i][2]))
  <2>1. c[i] = y /\ GroupAt(c, i) = grp[k]
    BY <1>9, <1>11
  <2> QED BY <1>4, <1>5, <1>10, <2>1
<1>12. \E i \in 1..l : GroupAt(c, i) = grp[k] /\ c[i] = <<"Tier", s[k][2], s[k][3]>>
  BY <1>5, <1>9
<1>13. Shows(c, lists, s, grp, k)
  <2>1. \A i \in 1..Len(out) : i \in 1..Len(c) /\ c[i] = out[i] /\ GroupAt(c, i) = GroupAt(out, i)
    BY <1>9 DEF m, l
  <2>2. \A i \in 1..Len(c) : i \notin 1..Len(out) =>
          /\ c[i][1] \notin State
          /\ c[i][1] = "Tier" => c[i][2] \in Tier /\ c[i][3] = uniqIps(tmpList(GroupAt(c, i), c[i][2]))
    BY <1>11 DEF m, l
  <2>3. \E i \in 1..Len(c) : GroupAt(c, i) = grp[k] /\ c[i] = <<"Tier", s[k][2], s[k][3]>>
    BY <1>12 DEF l
  <2>4. GroupAt(c, Len(c)) = grp[k]
    BY <1>9 DEF l
  <2>5. s[k][1] # "H"
    OBVIOUS
  <2>6. Keeps(out, c, lists, s, grp, k)
    BY <1>3, <2>1, <2>2, <2>3, <2>4, <2>5 DEF Keeps
  <2> QED BY <1>2, <2>6, ShowsKeeps
<1> QED BY <1>6, <1>13

\* The line of a host puts it in the list of its state.
LEMMA ShowsHost ==
  ASSUME NEW s, NEW grp, Text(s, grp), NEW k \in 1..Len(s), s[k][1] = "H",
         NEW out, NEW lists \in [State -> Seq(Host)], Shows(out, lists, s, grp, k - 1),
         NEW h \in Host, NEW st \in State, s[k] = <<"H", h, st>>,
         NEW l2, l2 = [lists EXCEPT ![st] = Append(@, h)]
  PROVE  Shows(out, l2, s, grp, k)
<1>1. Len(s) \in Nat /\ k > 1 /\ grp[k] = grp[k - 1]
  BY DEF Text
<1>2. k \in Nat \ {0} /\ k - 1 # 0 /\ k - 1 \in Nat /\ k \in 1..k
      /\ (\A p \in 1..k : p = k \/ p \in 1..(k - 1))
      /\ \A p \in 1..(k - 1) : p \in 1..k /\ p \in 1..Len(s) /\ p # k
  BY <1>1
<1>3. Current(grp, k - 1) = grp[k] /\ Current(grp, k) = grp[k]
  BY <1>1, <1>2 DEF Current
<1>4. h \in allHosts /\ DpropOf[h] = grp[k] /\ host[h].state = st /\ s[k] = HostLine(h)
  <2>1. PICK g \in allHosts : DpropOf[g] = grp[k] /\ s[k] = HostLine(g)
    BY DEF Text
  <2>2. s[k][2] = h /\ s[k][3] = st
    OBVIOUS
  <2>3. g = h /\ host[g].state = st
    BY <2>1, <2>2, LineKinds, Zenon
  <2> QED BY <2>1, <2>3
<1>5. ASSUME NEW u, NEW d PROVE ~Read(h, u, d, s, k - 1)
  <2> SUFFICES ASSUME NEW p \in 1..(k - 1), s[p] = HostLine(h) PROVE FALSE
    BY DEF Read
  <2>1. p \in 1..Len(s) /\ s[p][1] = "H" /\ s[p] = s[k] /\ p # k
    BY <1>2, <1>4
  <2> QED BY <2>1 DEF Text
<1>6. ASSUME NEW g, NEW u, NEW d, Read(g, u, d, s, k - 1) PROVE Read(g, u, d, s, k)
  BY <1>2, <1>6 DEF Read
<1>7. Read(h, st, grp[k], s, k)
  BY <1>2, <1>4 DEF Read
<1> DEFINE m == Len(lists[st])
<1>8. /\ m \in Nat /\ DOMAIN lists[st] = 1..m /\ l2[st] = Append(lists[st], h)
      /\ DOMAIN l2[st] = 1..(m + 1) /\ l2[st][m + 1] = h
      /\ \A n \in 1..m : l2[st][n] = lists[st][n]
      /\ \A u \in State : u # st => l2[u] = lists[u]
  <2>1. lists[st] \in Seq(Host)
    OBVIOUS
  <2>2. l2[st] = Append(lists[st], h) /\ \A u \in State : u # st => l2[u] = lists[u]
    OBVIOUS
  <2> DEFINE a == lists[st]
  <2> HIDE DEF a
  <2>3. a \in Seq(Host) /\ l2[st] = Append(a, h) /\ m = Len(a)
    BY <2>1, <2>2 DEF a
  <2>4. /\ m \in Nat /\ DOMAIN a = 1..m /\ DOMAIN Append(a, h) = 1..(m + 1)
        /\ Append(a, h)[m + 1] = h /\ \A n \in 1..m : Append(a, h)[n] = a[n]
    BY <2>3
  <2> QED BY <2>2, <2>3, <2>4 DEF a
<1> HIDE DEF m
<1>9. ASSUME NEW u, NEW n, NEW g
      PROVE  InLists(l2, u, n, g) <=> InLists(lists, u, n, g) \/ (u = st /\ n = m + 1 /\ g = h)
  <2>1. CASE u = st
    <3>1. n \in 1..(m + 1) <=> n \in 1..m \/ n = m + 1
      BY <1>8
    <3>2. m + 1 \notin 1..m
      BY <1>8
    <3> QED BY <1>8, <2>1, <3>1, <3>2 DEF InLists
  <2>2. CASE u # st
    BY <1>8, <2>2 DEF InLists
  <2> QED BY <2>1, <2>2
<1>10. \A i, n : ~InOut(out, i, n, h)
  BY <1>5 DEF Shows
<1>11. \A u, n : ~InLists(lists, u, n, h)
  BY <1>5 DEF Shows
<1>12. GroupAt(out, Len(out)) = Current(grp, k)
  BY <1>3 DEF Shows
<1>13. ASSUME NEW i, NEW n, NEW g, InOut(out, i, n, g)
       PROVE  Read(g, out[i][1], GroupAt(out, i), s, k)
  BY <1>6, <1>13 DEF Shows
<1>14. ASSUME NEW u, NEW n, NEW g, InLists(l2, u, n, g)
       PROVE  Read(g, u, Current(grp, k), s, k)
  <2>1. CASE InLists(lists, u, n, g)
    <3>1. Read(g, u, Current(grp, k - 1), s, k - 1)
      BY <2>1 DEF Shows
    <3> QED BY <1>3, <1>6, <3>1
  <2>2. CASE u = st /\ g = h
    BY <1>3, <1>7, <2>2
  <2> QED BY <1>9, <1>14, <2>1, <2>2
<1>15. ASSUME NEW g \in allHosts, NEW p \in 1..k, s[p] = HostLine(g)
       PROVE  (\E i, n : InOut(out, i, n, g)) \/ (\E u, n : InLists(l2, u, n, g))
  <2>1. CASE p = k
    <3>1. g = h
      <4>1. HostLine(g) = HostLine(h)
        BY <1>4, <1>15, <2>1
      <4> QED BY <4>1 DEF HostLine
    <3>2. InLists(l2, st, m + 1, h)
      BY <1>9
    <3> QED BY <3>1, <3>2
  <2>2. CASE p \in 1..(k - 1)
    <3>1. (\E i, n : InOut(out, i, n, g)) \/ (\E u, n : InLists(lists, u, n, g))
      BY <1>15, <2>2 DEF Shows
    <3> QED BY <1>9, <3>1
  <2> QED BY <1>2, <2>1, <2>2
<1>16. \A u, n, v, a, g : InLists(l2, u, n, g) /\ InLists(l2, v, a, g) => u = v /\ n = a
  <2>1. \A u, n, v, a, g : InLists(lists, u, n, g) /\ InLists(lists, v, a, g) => u = v /\ n = a
    BY DEF Shows
  <2> SUFFICES ASSUME NEW u, NEW n, NEW v, NEW a, NEW g,
                      InLists(l2, u, n, g), InLists(l2, v, a, g)
               PROVE  u = v /\ n = a
    OBVIOUS
  <2>4. InLists(lists, u, n, g) \/ (u = st /\ n = m + 1 /\ g = h)
    BY <1>9, Zenon
  <2>5. InLists(lists, v, a, g) \/ (v = st /\ a = m + 1 /\ g = h)
    BY <1>9, Zenon
  <2>2. CASE g = h
    <3>1. u = st /\ n = m + 1
      BY <1>11, <2>2, <2>4, Zenon
    <3>2. v = st /\ a = m + 1
      BY <1>11, <2>2, <2>5, Zenon
    <3> QED BY <3>1, <3>2
  <2>3. CASE g # h
    <3>1. InLists(lists, u, n, g) /\ InLists(lists, v, a, g)
      BY <2>3, <2>4, <2>5, Zenon
    <3> QED BY <2>1, <3>1, Zenon
  <2> QED BY <2>2, <2>3
<1>17. \A i, n, u, a, g : InOut(out, i, n, g) => ~InLists(l2, u, a, g)
  <2>1. \A i, n, u, a, g : InOut(out, i, n, g) => ~InLists(lists, u, a, g)
    BY DEF Shows
  <2> SUFFICES ASSUME NEW i, NEW n, NEW u, NEW a, NEW g, InOut(out, i, n, g), InLists(l2, u, a, g)
               PROVE  FALSE
    OBVIOUS
  <2>2. InLists(lists, u, a, g) \/ (u = st /\ a = m + 1 /\ g = h)
    BY <1>9, Zenon
  <2>3. CASE InLists(lists, u, a, g)
    BY <2>1, <2>3, Zenon
  <2>4. CASE g = h
    BY <1>10, <2>4, Zenon
  <2> QED BY <2>2, <2>3, <2>4
<1>18. \A p \in 1..k : s[p][1] = "C" =>
         \E i \in 1..Len(out) : GroupAt(out, i) = grp[p] /\ out[i] = <<"Tier", s[p][2], s[p][3]>>
  <2>1. \A p \in 1..(k - 1) : s[p][1] = "C" =>
          \E i \in 1..Len(out) : GroupAt(out, i) = grp[p] /\ out[i] = <<"Tier", s[p][2], s[p][3]>>
    BY DEF Shows
  <2>2. s[k][1] # "C"
    OBVIOUS
  <2> QED BY <1>2, <2>1, <2>2
<1>19. /\ \A i, n, j, a, g : InOut(out, i, n, g) /\ InOut(out, j, a, g) => i = j /\ n = a
       /\ \A i \in 1..Len(out) : out[i][1] = "Tier" =>
            out[i][2] \in Tier /\ out[i][3] = uniqIps(tmpList(GroupAt(out, i), out[i][2]))
  BY DEF Shows
<1> QED BY <1>12, <1>13, <1>14, <1>15, <1>16, <1>17, <1>18, <1>19 DEF Shows

\* A line of the text adds what it says to what is shown (parseLine).
LEMMA ShowsLine ==
  ASSUME NEW s, NEW grp, Text(s, grp), NEW k \in 1..Len(s), NEW a \in Parse,
         Shows(a.out, a.lists, s, grp, k - 1), NEW b, b = parseLine(a, s[k])
  PROVE  Shows(b.out, b.lists, s, grp, k)
<1>1. s[k] \in Line
  BY DEF Text
<1>2. a.out \in Seq(OutLine) /\ a.lists \in [State -> Seq(Host)]
  BY DEF Parse
<1>3. ASSUME NEW d \in Dprop, s[k] = <<"D", d>> PROVE Shows(b.out, b.lists, s, grp, k)
  <2> DEFINE c == a.out \o dumpSummaryInfo(a.lists)
             e == c \o Header(d)
  <2>1. b = [out |-> e, lists |-> NoHosts]
    BY <1>3, ParseDprop
  <2>2. c \in Seq(OutLine) /\ Shows(c, NoHosts, s, grp, k - 1)
    BY <1>2, ShowsDump
  <2>3. s[k][1] = "D" /\ s[k] = <<"D", grp[k]>> /\ d = grp[k]
    <3>1. s[k][1] = "D" /\ s[k][2] = d
      BY <1>3
    <3>2. s[k] = <<"D", grp[k]>>
      BY <3>1 DEF Text
    <3>3. s[k][2] = grp[k]
      BY <3>2
    <3> QED BY <3>1, <3>2, <3>3
  <2> HIDE DEF c
  <2>4. e = c \o Header(grp[k])
    BY <2>3
  <2> HIDE DEF e
  <2>5. Shows(e, NoHosts, s, grp, k)
    BY <2>2, <2>3, <2>4, ShowsHeader
  <2> QED BY <2>1, <2>5
<1>4. ASSUME NEW h \in Host, NEW st \in State, s[k] = <<"H", h, st>>
      PROVE  Shows(b.out, b.lists, s, grp, k)
  <2> DEFINE l2 == [a.lists EXCEPT ![st] = Append(@, h)]
  <2>1. b.out = a.out /\ b.lists = l2
    <3>1. parseLine(a, <<"H", h, st>>) = [a EXCEPT !.lists[st] = Append(@, h)]
      BY DEF parseLine
    <3>2. b = [a EXCEPT !.lists[st] = Append(@, h)]
      BY <1>4, <3>1, Zenon
    <3>3. a = [out |-> a.out, lists |-> a.lists]
      BY DEF Parse
    <3> QED BY <3>2, <3>3
  <2>2. s[k][1] = "H"
    BY <1>4
  <2> HIDE DEF l2
  <2>3. Shows(a.out, l2, s, grp, k)
    BY <1>2, <1>4, <2>2, ShowsHost DEF l2
  <2> QED BY <2>1, <2>3
<1>5. ASSUME NEW t \in Tier, NEW ips \in Seq(Host \X Nat), s[k] = <<"C", t, ips>>
      PROVE  Shows(b.out, b.lists, s, grp, k)
  <2> DEFINE c == Append(a.out, <<"Tier", t, ips>>)
  <2>1. b.out = c /\ b.lists = a.lists
    <3>1. parseLine(a, <<"C", t, ips>>) = [a EXCEPT !.out = Append(@, <<"Tier", t, ips>>)]
      BY DEF parseLine
    <3>2. b = [a EXCEPT !.out = Append(@, <<"Tier", t, ips>>)]
      BY <1>5, <3>1, Zenon
    <3>3. a = [out |-> a.out, lists |-> a.lists]
      BY DEF Parse
    <3> HIDE DEF c
    <3>4. b = [a EXCEPT !.out = c]
      BY <3>2 DEF c
    <3> QED BY <3>3, <3>4
  <2>2. s[k][1] = "C"
    BY <1>5
  <2> HIDE DEF c
  <2>3. Shows(c, a.lists, s, grp, k)
    BY <1>2, <1>5, <2>2, ShowsTier DEF c
  <2> QED BY <2>1, <2>3
<1> QED BY <1>1, <1>3, <1>4, <1>5, LineCases

\* Before the first line nothing is shown.
LEMMA ShowsStart ==
  ASSUME NEW s, NEW grp
  PROVE  Shows(ParseStart.out, ParseStart.lists, s, grp, 0)
<1> DEFINE e == <<>>
<1>1. ParseStart.out = e /\ ParseStart.lists = NoHosts /\ Len(e) = 0
  BY DEF ParseStart
<1> HIDE DEF e
<1>2. \A st, n, h : ~InLists(NoHosts, st, n, h)
  BY DEF InLists, NoHosts
<1>3. \A i, n, h : ~InOut(e, i, n, h)
  BY <1>1 DEF InOut
<1>4. GroupAt(e, Len(e)) = Current(grp, 0)
  BY <1>1 DEF GroupAt, Current
<1>5. Shows(e, NoHosts, s, grp, 0)
  BY <1>1, <1>2, <1>3, <1>4 DEF Shows
<1> QED BY <1>1, <1>5

\* After the last line everything is.
LEMMA ShowsEnd ==
  ASSUME NEW s, NEW grp, Text(s, grp)
  PROVE  parseResults(s) \in Seq(OutLine) /\ Shows(parseResults(s), NoHosts, s, grp, Len(s))
<1>1. s \in Seq(Line) /\ Len(s) \in Nat
  BY DEF Text
<1>2. PICK g : ParseRun(s, g)
  BY <1>1, ParsedRun
<1> DEFINE n == Len(s)
           S(k) == Shows(g[k].out, g[k].lists, s, grp, k)
           P == {k \in Nat : k <= n => S(k)}
<1>3. /\ n \in Nat /\ g \in [0..n -> Parse] /\ g[0] = ParseStart
      /\ \A k \in 1..n : g[k] = parseLine(g[k - 1], s[k])
      /\ parseResults(s) = g[n].out \o dumpSummaryInfo(g[n].lists)
  BY <1>1, <1>2 DEF ParseRun
<1>4. S(0)
  BY <1>3, ShowsStart
<1>5. ASSUME NEW k \in Nat, k \in P, k + 1 <= n PROVE S(k + 1)
  <2>1. k + 1 \in 1..n /\ (k + 1) - 1 = k /\ k <= n /\ k \in 0..n
    BY <1>3, <1>5
  <2>2. S(k)
    BY <1>5, <2>1
  <2>3. g[k] \in Parse /\ g[k + 1] = parseLine(g[k], s[k + 1])
    BY <1>3, <2>1
  <2>4. k + 1 \in 1..Len(s) /\ Shows(g[k].out, g[k].lists, s, grp, (k + 1) - 1)
    BY <2>1, <2>2
  <2> QED BY <2>3, <2>4, ShowsLine
<1>6. S(n)
  <2> HIDE DEF S
  <2>1. 0 \in P /\ \A k \in Nat : k \in P => k + 1 \in P
    BY <1>4, <1>5
  <2>2. n \in P
    <3> HIDE DEF P, n
    <3> QED BY <1>3, <2>1, Induction
  <2> QED BY <1>3, <2>2
<1>7. g[n].out \in Seq(OutLine) /\ g[n].lists \in [State -> Seq(Host)]
  BY <1>3 DEF Parse
<1> QED BY <1>3, <1>6, <1>7, ShowsDump

\* So the output shows the database.
LEMMA OutShowsDb ==
  ASSUME HostInv
  PROVE  MonitorShowsDb
<1>1. TypeOK
  BY DEF HostInv
<1>2. PICK grp : Text(serialize, grp)
  BY <1>1, TextShape
<1> DEFINE s == serialize
           out == parseResults(s)
           L == Len(s)
<1>3. out \in Seq(OutLine) /\ Shows(out, NoHosts, s, grp, L)
  BY <1>2, ShowsEnd
<1>4. MonitorShowsDb <=>
        \A h \in Host :
          /\ \A x \in ShownStates(out, h) : out[x[1]][1] = host[h].state
          /\ Cardinality(ShownStates(out, h)) = IF h \in allHosts THEN 1 ELSE 0
          /\ \A t \in Tier : ShownCpus(out, h, t) =
               IF host[h].cpus[t] = 0 THEN {} ELSE {<<h, host[h].cpus[t]>>}
  BY DEF MonitorShowsDb
<1> HIDE DEF s, out
<1>5. Text(s, grp)
  BY <1>2 DEF s
<1> HIDE DEF L
<1>6. DOMAIN out = 1..Len(out)
  BY <1>3
<1>7. \A st, n, h : ~InLists(NoHosts, st, n, h)
  BY DEF InLists, NoHosts
<1>8. ASSUME NEW i, NEW n, NEW h, InOut(out, i, n, h)
      PROVE  h \in allHosts /\ host[h].state = out[i][1] /\ DpropOf[h] = GroupAt(out, i)
  <2>1. Read(h, out[i][1], GroupAt(out, i), s, L)
    BY <1>3, <1>8 DEF Shows
  <2> QED BY <2>1 DEF Read
<1>9. ASSUME NEW h \in Host, NEW x
      PROVE  x \in ShownStates(out, h) <=> \E i, n : x = <<i, n>> /\ InOut(out, i, n, h)
  <2>1. ASSUME x \in ShownStates(out, h) PROVE \E i, n : x = <<i, n>> /\ InOut(out, i, n, h)
    BY <1>6, <2>1 DEF ShownStates, LinesFor, InOut
  <2>2. ASSUME NEW i, NEW n, x = <<i, n>>, InOut(out, i, n, h) PROVE x \in ShownStates(out, h)
    <3>1. i \in LinesFor(out, h)
      BY <1>6, <1>8, <2>2 DEF LinesFor, InOut
    <3> QED BY <2>2, <3>1 DEF ShownStates, InOut
  <2> QED BY <2>1, <2>2
<1>10. ASSUME NEW h \in Host, NEW x \in ShownStates(out, h)
       PROVE  out[x[1]][1] = host[h].state
  <2>1. PICK i, n : x = <<i, n>> /\ InOut(out, i, n, h)
    BY <1>9, <1>10
  <2> QED BY <1>8, <2>1
<1>11. ASSUME NEW h \in Host
       PROVE  Cardinality(ShownStates(out, h)) = IF h \in allHosts THEN 1 ELSE 0
  <2>1. CASE h \in allHosts
    <3>1. PICK p \in 1..L : s[p] = HostLine(h)
      BY <1>5, <2>1 DEF Text, L
    <3>2. \E i, n : InOut(out, i, n, h)
      BY <1>3, <1>7, <2>1, <3>1 DEF Shows
    <3>3. PICK i, n : InOut(out, i, n, h)
      BY <3>2
    <3>4. \A j, m : InOut(out, j, m, h) => j = i /\ m = n
      BY <1>3, <3>3 DEF Shows
    <3>5. ShownStates(out, h) = {<<i, n>>}
      BY <1>9, <3>3, <3>4
    <3> QED BY <2>1, <3>5, FS_Singleton
  <2>2. CASE h \notin allHosts
    <3>1. ShownStates(out, h) = {}
      BY <1>8, <1>9, <2>2
    <3> QED BY <2>2, <3>1, FS_EmptySet
  <2> QED BY <2>1, <2>2
<1>12. ASSUME NEW h \in Host, NEW t \in Tier
       PROVE  ShownCpus(out, h, t) = IF host[h].cpus[t] = 0 THEN {} ELSE {<<h, host[h].cpus[t]>>}
  <2> DEFINE d == DpropOf[h]
             ips == uniqIps(tmpList(d, t))
             n == host[h].cpus[t]
  <2>1. ips \in Seq(Host \X Nat) /\ TierCpus(ips, d, t)
    BY <1>1, TierEntry
  <2>2. tmpList(d, t) = <<>> => n = 0
    BY <1>1, TierEntry
  <2> HIDE DEF ips, d
  <2>3. DOMAIN ips = 1..Len(ips)
    BY <2>1
  <2>4. ASSUME NEW c \in ShownCpus(out, h, t) PROVE n # 0 /\ c = <<h, n>>
    <3>1. PICK i \in LinesFor(out, h) :
             out[i][1] = "Tier" /\ out[i][2] = t /\ c \in Range(out[i][3]) /\ c[1] = h
      BY <2>4 DEF ShownCpus
    <3>2. i \in 1..Len(out) /\ GroupAt(out, i) = d
      BY <1>6, <3>1 DEF LinesFor, d
    <3>3. out[i][3] = ips
      BY <1>3, <3>1, <3>2 DEF Shows, ips
    <3>4. PICK x \in 1..Len(ips) : c = ips[x]
      BY <2>3, <3>1, <3>3 DEF Range
    <3>5. PICK g \in Host : host[g].cpus[t] # 0 /\ ips[x] = <<g, host[g].cpus[t]>>
      BY <2>1 DEF TierCpus
    <3>6. g = h
      BY <3>1, <3>4, <3>5
    <3> QED BY <3>4, <3>5, <3>6
  <2>5. ASSUME n # 0 PROVE <<h, n>> \in ShownCpus(out, h, t)
    <3>1. h \in allHosts
      <4>1. n \in Nat /\ Good(h, View(h)) /\ View(h).r = host[h]
        BY DEF HostInv, TypeOK, HostRec, View
      <4>2. host[h].state = "available"
        BY <2>5, <4>1 DEF Good
      <4> QED BY <4>2 DEF allHosts
    <3>2. PICK p \in 1..L : grp[p] = d /\ s[p] = TierLine(d, t)
      BY <1>5, <2>2, <2>5, <3>1 DEF Text, L, d
    <3>3. s[p][1] = "C" /\ s[p][2] = t /\ s[p][3] = ips
      BY <3>2, LineKinds DEF ips
    <3>4. PICK i \in 1..Len(out) : GroupAt(out, i) = d /\ out[i] = <<"Tier", t, ips>>
      BY <1>3, <3>2, <3>3 DEF Shows
    <3>5. i \in LinesFor(out, h) /\ out[i][1] = "Tier" /\ out[i][2] = t /\ out[i][3] = ips
      BY <1>6, <3>4 DEF LinesFor, d
    <3>6. PICK x \in 1..Len(ips) : ips[x] = <<h, n>>
      BY <2>1, <2>5 DEF TierCpus, d
    <3>7. <<h, n>> \in Range(ips)
      BY <2>3, <3>6 DEF Range
    <3>8. <<h, n>>[1] = h
      OBVIOUS
    <3> QED BY <3>5, <3>7, <3>8 DEF ShownCpus
  <2> HIDE DEF n
  <2>6. ShownCpus(out, h, t) = IF n = 0 THEN {} ELSE {<<h, n>>}
    BY <2>4, <2>5
  <2> QED BY <2>6 DEF n
<1> QED BY <1>4, <1>10, <1>11, <1>12

\* What the monitor prints is the database (serialize in dmucs_db.cc and the
\* parser of monitor.cc): every known host once, under its dprop and with its
\* state, and the free cpus of every host in every tier.
THEOREM MonitorCorrect == Spec => []MonitorShowsDb
<1>1. HostInv => MonitorShowsDb
  BY OutShowsDb
<1> QED BY <1>1, HostInvariant, PTL

=============================================================================
