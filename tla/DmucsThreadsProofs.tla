--------------------------- MODULE DmucsThreadsProofs ---------------------------
(***************************************************************************)
(* Proofs about the threads of the server: the types of what they have     *)
(* left to do; that a host ends in the sub-set of its state however a      *)
(* handler and a search are interleaved in its methods; and that, without  *)
(* the search, the small steps of a handler amount to its one step in      *)
(* DmucsDb.                                                                *)
(***************************************************************************)
EXTENDS DmucsThreads, DmucsDbProofs, SequenceTheorems

-----------------------------------------------------------------------------
(* Sequences of steps *)

\* What becomes of the entries when the first one is replaced by others (Do).
LEMMA ReplaceHead ==
  ASSUME NEW S, NEW q \in Seq(S), q # <<>>, NEW p \in Seq(S), NEW r, r = p \o Tail(q)
  PROVE  /\ r \in Seq(S) /\ Len(p) \in Nat /\ Len(q) \in Nat \ {0}
         /\ Len(r) = Len(p) + Len(q) - 1
         /\ Head(q) = q[1]
         /\ \A i \in 1..Len(p) : r[i] = p[i]
         /\ \A i \in 2..Len(q) : r[Len(p) + i - 1] = q[i]
         /\ \A i \in (Len(p) + 1)..Len(r) : r[i] = q[i - Len(p) + 1]
<1>1. /\ Tail(q) \in Seq(S) /\ Len(Tail(q)) = Len(q) - 1
      /\ \A i \in 1..Len(Tail(q)) : Tail(q)[i] = q[i + 1]
      /\ Head(q) = q[1]
  BY HeadTailProperties
<1>2. Len(p) \in Nat /\ Len(q) \in Nat \ {0}
  BY EmptySeq, LenProperties
<1>3. /\ r \in Seq(S) /\ Len(r) = Len(p) + Len(Tail(q))
      /\ \A i \in 1..Len(p) + Len(Tail(q)) :
           r[i] = IF i <= Len(p) THEN p[i] ELSE Tail(q)[i - Len(p)]
  BY <1>1, ConcatProperties
<1>4. \A i \in 1..Len(p) : r[i] = p[i]
  BY <1>1, <1>2, <1>3
<1>5. ASSUME NEW i \in (Len(p) + 1)..Len(r)
      PROVE  r[i] = q[i - Len(p) + 1]
  <2>1. i - Len(p) \in 1..Len(Tail(q)) /\ ~(i <= Len(p)) /\ i \in 1..Len(p) + Len(Tail(q))
    BY <1>1, <1>2, <1>3
  <2> QED BY <1>1, <1>3, <2>1
<1>6. ASSUME NEW i \in 2..Len(q)
      PROVE  r[Len(p) + i - 1] = q[i]
  <2>1. /\ Len(p) + i - 1 \in (Len(p) + 1)..Len(r)
        /\ (Len(p) + i - 1) - Len(p) + 1 = i
    BY <1>1, <1>2, <1>3
  <2> QED BY <1>5, <2>1
<1> QED BY <1>1, <1>2, <1>3, <1>4, <1>5, <1>6

\* Four steps, put together from one and three.
LEMMA OneAndThree ==
  ASSUME NEW S, NEW a \in S, NEW b \in S, NEW c \in S, NEW d \in S
  PROVE  <<a>> \o <<b, c, d>> = <<a, b, c, d>>
<1>1. PICK s : s = <<b, c, d>>
  OBVIOUS
<1>2. PICK o : o = <<a>>
  OBVIOUS
<1>3. s \in Seq(S) /\ Len(s) = 3 /\ s[1] = b /\ s[2] = c /\ s[3] = d
  BY <1>1
<1>4. o \in Seq(S) /\ Len(o) = 1 /\ o[1] = a
  BY <1>2
<1>5. PICK r : r = o \o s
  OBVIOUS
<1>6. r \in Seq(S) /\ Len(r) = 4 /\ \A i \in 1..4 : r[i] = IF i <= 1 THEN o[i] ELSE s[i - 1]
  <2>1. /\ r \in Seq(S) /\ Len(r) = Len(o) + Len(s)
        /\ \A i \in 1..(Len(o) + Len(s)) : r[i] = IF i <= Len(o) THEN o[i] ELSE s[i - Len(o)]
    <3>1. o \in Seq(S) /\ s \in Seq(S)
      BY <1>3, <1>4
    <3> QED BY <1>5, <3>1, ConcatProperties
  <2> QED BY <1>3, <1>4, <2>1
<1>7. r[1] = o[1] /\ r[2] = s[1] /\ r[3] = s[2] /\ r[4] = s[3]
  BY <1>6
<1>8. PICK u : u = <<a, b, c, d>>
  OBVIOUS
<1>9. u \in Seq(S) /\ Len(u) = 4 /\ u[1] = a /\ u[2] = b /\ u[3] = c /\ u[4] = d
  BY <1>8
<1>10. \A i \in 1..4 : r[i] = u[i]
  BY <1>3, <1>4, <1>7, <1>9
<1>11. r = u
  BY <1>6, <1>9, <1>10, SeqEqual
<1> QED BY <1>1, <1>2, <1>5, <1>8, <1>11

-----------------------------------------------------------------------------
(* The invariant *)

StepsOf(q) == {q[i] : i \in 1..Len(q)}

\* What a step takes.
StepShape(s) ==
  /\ s \in StepRec
  /\ s.op # "unlock" => s.host \in Host
  /\ s.op = "event" => s.arg \in Events
  /\ s.op \in {"removeFromDb", "setState", "addTo"} => s.arg \in State
  /\ s.op \in {"moveCpus", "storeLd", "setLd"} => s.arg \in Load
  /\ s.op = "assign" => s.arg \in Sock

\* The host of a method or of a message is known, so that what is read of its state
\* is a state.
OfKnown(s) == s.op \notin {"assign", "giveBack", "addCpu", "unlock"}

StepOK(s) == StepShape(s) /\ (OfKnown(s) => host[s.host].state # "none")

\* A method that takes a host out of its sub-set, or changes its state, adds it to a
\* sub-set later.
Leaving == {"delCpus", "removeFromDb", "setState"}

AddsLater(q) ==
  \A i \in 1..Len(q) : q[i].op \in Leaving =>
    \E j \in (i + 1)..Len(q) : q[j].op = "addToDb" /\ q[j].host = q[i].host

\* A search ends with the release of the mutex.
UnlockLast(q) == \A i \in 1..Len(q) : q[i].op = "unlock" <=> i = Len(q)

\* A thread is about to add the host to the sub-set of the state it has now.
Adds(s, h) ==
  /\ s.host = h
  /\ \/ s.op = "addToDb"
     \/ s.op = "addTo" /\ s.arg = host[h].state

Pending(h) == \E t \in Thread : \E s \in StepsOf(todo[t]) : Adds(s, h)

StepsOK == \A t \in Thread : \A s \in StepsOf(todo[t]) : StepOK(s)

\* FoundInItsSet speaks of a server that does nothing; until then a host may be in
\* no sub-set, but then it is about to be added to the right one.
ThreadsInv ==
  /\ ThreadsTypeOK
  /\ StepsOK
  /\ \A t \in Thread : AddsLater(todo[t])
  /\ UnlockLast(todo["silent"])
  /\ \A h \in allHosts : host[h].state \in host[h].sets \/ Pending(h)
  /\ IsFiniteSet(allHosts)

-----------------------------------------------------------------------------
(* What the replacement of the first step keeps of a sequence *)

\* The steps of a sequence whose first step was replaced.
LEMMA ReplaceSteps ==
  ASSUME NEW S, NEW q \in Seq(S), q # <<>>, NEW p \in Seq(S), NEW r, r = p \o Tail(q)
  PROVE  /\ StepsOf(r) \subseteq StepsOf(p) \cup StepsOf(q)
         /\ StepsOf(p) \subseteq StepsOf(r)
         /\ \A s \in StepsOf(q) : s = Head(q) \/ s \in StepsOf(r)
         /\ Head(q) \in StepsOf(q)
<1>1. /\ Len(p) \in Nat /\ Len(q) \in Nat \ {0} /\ Len(r) = Len(p) + Len(q) - 1
      /\ Head(q) = q[1]
      /\ \A i \in 1..Len(p) : r[i] = p[i]
      /\ \A i \in 2..Len(q) : r[Len(p) + i - 1] = q[i]
      /\ \A i \in (Len(p) + 1)..Len(r) : r[i] = q[i - Len(p) + 1]
  BY ReplaceHead
<1>2. ASSUME NEW i \in 1..Len(r)
      PROVE  r[i] \in StepsOf(p) \cup StepsOf(q)
  <2>1. CASE i <= Len(p)
    BY <1>1, <2>1 DEF StepsOf
  <2>2. CASE ~(i <= Len(p))
    <3>1. i \in (Len(p) + 1)..Len(r) /\ i - Len(p) + 1 \in 1..Len(q)
      BY <1>1, <2>2
    <3> QED BY <1>1, <3>1 DEF StepsOf
  <2> QED BY <2>1, <2>2
<1>3. ASSUME NEW i \in 1..Len(p)
      PROVE  p[i] \in StepsOf(r)
  <2>1. i \in 1..Len(r)
    BY <1>1
  <2> QED BY <1>1, <2>1 DEF StepsOf
<1>4. ASSUME NEW i \in 1..Len(q)
      PROVE  q[i] = Head(q) \/ q[i] \in StepsOf(r)
  <2>1. CASE i = 1
    BY <1>1, <2>1
  <2>2. CASE i # 1
    <3>1. i \in 2..Len(q) /\ Len(p) + i - 1 \in 1..Len(r)
      BY <1>1, <2>2
    <3> QED BY <1>1, <3>1 DEF StepsOf
  <2> QED BY <2>1, <2>2
<1>5. Head(q) \in StepsOf(q)
  BY <1>1 DEF StepsOf
<1> QED BY <1>2, <1>3, <1>4, <1>5 DEF StepsOf

\* A replacement that adds later what it takes out keeps AddsLater.
LEMMA ReplaceAddsLater ==
  ASSUME NEW S, NEW q \in Seq(S), q # <<>>, NEW p \in Seq(S), NEW r, r = p \o Tail(q),
         AddsLater(p), AddsLater(q)
  PROVE  /\ AddsLater(r)
         /\ Head(q).op \in Leaving =>
              \E s \in StepsOf(r) : s.op = "addToDb" /\ s.host = Head(q).host
<1>1. /\ Len(p) \in Nat /\ Len(q) \in Nat \ {0} /\ Len(r) = Len(p) + Len(q) - 1
      /\ Head(q) = q[1]
      /\ \A i \in 1..Len(p) : r[i] = p[i]
      /\ \A i \in 2..Len(q) : r[Len(p) + i - 1] = q[i]
      /\ \A i \in (Len(p) + 1)..Len(r) : r[i] = q[i - Len(p) + 1]
  BY ReplaceHead
<1>2. ASSUME NEW i \in 1..Len(r), r[i].op \in Leaving
      PROVE  \E j \in (i + 1)..Len(r) : r[j].op = "addToDb" /\ r[j].host = r[i].host
  <2>1. CASE i <= Len(p)
    <3>1. i \in 1..Len(p) /\ r[i] = p[i]
      BY <1>1, <2>1
    <3>2. PICK j \in (i + 1)..Len(p) : p[j].op = "addToDb" /\ p[j].host = p[i].host
      BY <1>2, <3>1 DEF AddsLater
    <3>3. j \in 1..Len(p) /\ j \in (i + 1)..Len(r)
      BY <1>1, <3>1
    <3>4. r[j] = p[j]
      BY <1>1, <3>3
    <3> QED BY <3>1, <3>2, <3>3, <3>4
  <2>2. CASE ~(i <= Len(p))
    <3>1. i \in (Len(p) + 1)..Len(r)
      BY <1>1, <2>2
    <3>2. PICK k \in 2..Len(q) : k = i - Len(p) + 1
      BY <1>1, <3>1
    <3>3. r[i] = q[k] /\ k \in 1..Len(q)
      BY <1>1, <3>1, <3>2
    <3>4. PICK j \in (k + 1)..Len(q) : q[j].op = "addToDb" /\ q[j].host = q[k].host
      BY <1>2, <3>3 DEF AddsLater
    <3>5. j \in 2..Len(q) /\ Len(p) + j - 1 \in (i + 1)..Len(r)
      BY <1>1, <3>1, <3>2
    <3>6. r[Len(p) + j - 1] = q[j]
      BY <1>1, <3>5
    <3> QED BY <3>3, <3>4, <3>5, <3>6
  <2> QED BY <2>1, <2>2
<1>3. ASSUME Head(q).op \in Leaving
      PROVE  \E s \in StepsOf(r) : s.op = "addToDb" /\ s.host = Head(q).host
  <2>1. 1 \in 1..Len(q)
    BY <1>1
  <2>2. PICK j \in (1 + 1)..Len(q) : q[j].op = "addToDb" /\ q[j].host = q[1].host
    BY <1>1, <1>3, <2>1 DEF AddsLater
  <2>3. j \in 2..Len(q) /\ Len(p) + j - 1 \in 1..Len(r)
    BY <1>1
  <2>4. r[Len(p) + j - 1] = q[j]
    BY <1>1, <2>3
  <2> QED BY <1>1, <2>2, <2>3, <2>4 DEF StepsOf
<1> QED BY <1>2, <1>3 DEF AddsLater

NoUnlock(p) == \A i \in 1..Len(p) : p[i].op # "unlock"

\* Arithmetic for the next lemma.
LEMMA LongerByRest ==
  ASSUME NEW a \in Nat, NEW b \in Nat \ {0}, b # 1
  PROVE  a + b - 1 > a
OBVIOUS

\* A replacement without an unlock leaves the unlock at the end.
LEMMA ReplaceUnlockLast ==
  ASSUME NEW S, NEW q \in Seq(S), q # <<>>, NEW p \in Seq(S), NEW r, r = p \o Tail(q),
         UnlockLast(q), Head(q).op # "unlock", NoUnlock(p)
  PROVE  UnlockLast(r) /\ r # <<>>
<1>1. /\ Len(p) \in Nat /\ Len(q) \in Nat \ {0} /\ Len(r) = Len(p) + Len(q) - 1
      /\ Head(q) = q[1] /\ r \in Seq(S)
      /\ \A i \in 1..Len(p) : r[i] = p[i]
      /\ \A i \in (Len(p) + 1)..Len(r) : r[i] = q[i - Len(p) + 1]
  BY ReplaceHead
<1>2. Len(q) # 1
  <2>1. 1 \in 1..Len(q) /\ q[1].op # "unlock"
    BY <1>1
  <2> QED BY <2>1 DEF UnlockLast
<1>3. Len(r) > Len(p)
  <2>1. Len(p) \in Nat /\ Len(q) \in Nat \ {0} /\ Len(r) = Len(p) + Len(q) - 1
    BY <1>1
  <2> QED BY <1>2, <2>1, LongerByRest
<1>4. ASSUME NEW i \in 1..Len(r)
      PROVE  r[i].op = "unlock" <=> i = Len(r)
  <2>1. CASE i <= Len(p)
    <3>1. i \in 1..Len(p) /\ i # Len(r)
      <4>1. Len(p) \in Nat /\ Len(r) > Len(p) /\ Len(r) = Len(p) + Len(q) - 1 /\ Len(q) \in Nat
        BY <1>1, <1>3
      <4> QED BY <2>1, <4>1
    <3> QED BY <1>1, <3>1 DEF NoUnlock
  <2>2. CASE ~(i <= Len(p))
    <3>1. /\ i \in (Len(p) + 1)..Len(r) /\ i - Len(p) + 1 \in 1..Len(q)
          /\ i - Len(p) + 1 = Len(q) <=> i = Len(r)
      BY <1>1, <2>2
    <3> QED BY <1>1, <3>1 DEF UnlockLast
  <2> QED BY <2>1, <2>2
<1>5. r # <<>>
  BY <1>1, <1>3, EmptySeq
<1> QED BY <1>4, <1>5 DEF UnlockLast

-----------------------------------------------------------------------------
(* What a step of a thread keeps of the invariant *)

\* The hosts that are known stay known, and no other becomes it.
KnownKept == \A h \in Host : host'[h].state = "none" <=> host[h].state = "none"

\* Entries that can be put in the place of the first one.
NewSteps(p) ==
  /\ p \in Seq(StepRec)
  /\ \A i \in 1..Len(p) : /\ StepShape(p[i]) /\ p[i].op # "unlock"
                          /\ OfKnown(p[i]) => host[p[i].host].state # "none"
  /\ AddsLater(p)

\* A step stays one on a known host.
LEMMA StepOKKept ==
  ASSUME NEW s, StepOK(s), KnownKept
  PROVE  StepShape(s) /\ (OfKnown(s) => host'[s.host].state # "none")
<1>1. OfKnown(s) => s.host \in Host
  BY DEF StepOK, StepShape, OfKnown
<1> QED BY <1>1 DEF StepOK, KnownKept

\* What the first entry x of a thread, with p in its place, does to a host as
\* FoundInItsSet sees it.
HostEffect(x, p, h) ==
  \/ /\ host'[h].state = host[h].state /\ host'[h].sets = host[h].sets
     /\ ~(x.host = h /\ x.op \in {"addToDb", "addTo"})
  \/ x.host = h /\ x.op \in Leaving
  \/ /\ x.host = h /\ x.op = "addToDb"
     /\ host' = host /\ p = <<Step("addTo", h, host[h].state)>>
  \/ /\ x.host = h /\ x.op = "addTo"
     /\ host'[h].state = host[h].state /\ host'[h].sets = host[h].sets \cup {x.arg}

\* Whatever the first entry of a thread is, unless it ends a search.
LEMMA DoKeepsInv ==
  ASSUME ThreadsInv, NEW t \in Thread, NEW q, q = todo[t], q # <<>>,
         NEW x, x = Head(q), x.op # "unlock",
         NEW p, NewSteps(p), Do(t, p), TypeOK', KnownKept, UNCHANGED owner,
         \A h \in Host : HostEffect(x, p, h)
  PROVE  ThreadsInv'
<1> DEFINE r == p \o Tail(q)
<1>1. /\ todo \in [Thread -> Seq(StepRec)]
      /\ \A u \in Thread : AddsLater(todo[u])
      /\ UnlockLast(todo["silent"])
      /\ owner = IF Idle("silent") THEN None ELSE "silent"
  BY DEF ThreadsInv, ThreadsTypeOK
<1>2. q \in Seq(StepRec) /\ q # <<>> /\ p \in Seq(StepRec) /\ r = p \o Tail(q)
  BY <1>1 DEF NewSteps
<1>3. /\ todo' = [todo EXCEPT ![t] = r]
      /\ todo'[t] = r /\ \A u \in Thread : u # t => todo'[u] = todo[u]
  BY <1>1 DEF Do
<1> HIDE DEF r
<1>4. r \in Seq(StepRec)
  BY <1>2, ReplaceHead
<1>5. /\ StepsOf(r) \subseteq StepsOf(p) \cup StepsOf(q)
      /\ StepsOf(p) \subseteq StepsOf(r)
      /\ \A s \in StepsOf(q) : s = x \/ s \in StepsOf(r)
  BY <1>2, ReplaceSteps
<1>6. /\ AddsLater(r)
      /\ x.op \in Leaving => \E s \in StepsOf(r) : s.op = "addToDb" /\ s.host = x.host
  <2>1. AddsLater(p) /\ AddsLater(q)
    BY <1>1 DEF NewSteps
  <2>2. /\ AddsLater(r)
        /\ Head(q).op \in Leaving => \E s \in StepsOf(r) : s.op = "addToDb" /\ s.host = Head(q).host
    <3>1. q \in Seq(StepRec) /\ q # <<>> /\ p \in Seq(StepRec) /\ r = p \o Tail(q)
          /\ AddsLater(p) /\ AddsLater(q)
      BY <1>2, <2>1
    <3> QED BY <3>1, ReplaceAddsLater
  <2> QED BY <2>2
<1>7. t = "silent" => UnlockLast(r) /\ r # <<>>
  <2>1. NoUnlock(p)
    BY DEF NewSteps, NoUnlock
  <2>2. CASE t = "silent"
    <3>1. UnlockLast(q) /\ Head(q).op # "unlock"
      BY <1>1, <2>2
    <3> QED BY <1>2, <2>1, <3>1, ReplaceUnlockLast
  <2> QED BY <2>2
<1>8. todo' \in [Thread -> Seq(StepRec)]
  BY <1>1, <1>3, <1>4
<1>9. "silent" \in Thread
  BY DEF Thread
<1>10. ThreadsTypeOK'
  <2>1. Idle("silent")' <=> Idle("silent")
    <3>1. CASE t = "silent"
      BY <1>2, <1>3, <1>7, <3>1 DEF Idle
    <3>2. CASE t # "silent"
      BY <1>3, <1>9, <3>2 DEF Idle
    <3> QED BY <3>1, <3>2
  <2> QED BY <1>1, <1>8, <2>1 DEF ThreadsTypeOK
<1>11. ASSUME NEW u \in Thread, NEW s \in StepsOf(todo'[u])
       PROVE  StepShape(s) /\ (OfKnown(s) => host'[s.host].state # "none")
  <2>1. (u = t /\ s \in StepsOf(p)) \/ s \in StepsOf(todo[u])
    BY <1>3, <1>5, <1>11
  <2>2. s \in StepsOf(p) => StepOK(s)
    BY DEF NewSteps, StepsOf, StepOK
  <2>3. StepOK(s)
    BY <2>1, <2>2 DEF ThreadsInv, StepsOK
  <2> QED BY <2>3, StepOKKept
<1>12. StepsOK'
  BY <1>11 DEF StepsOK, StepOK, StepShape, OfKnown
<1>13. \A u \in Thread : AddsLater(todo'[u])
  BY <1>1, <1>3, <1>6
<1>14. UnlockLast(todo'["silent"])
  BY <1>1, <1>3, <1>7, <1>9
<1>15. ASSUME NEW h \in Host, host[h].state # "none"
       PROVE  host'[h].state \in host'[h].sets \/ Pending(h)'
  <2>1. host[h].state \in host[h].sets \/ Pending(h)
    BY <1>15 DEF ThreadsInv, allHosts
  <2>2. ASSUME Pending(h), ~Adds(x, h), host'[h].state = host[h].state
        PROVE  Pending(h)'
    <3>1. PICK u \in Thread : \E s \in StepsOf(todo[u]) : Adds(s, h)
      BY <2>2 DEF Pending
    <3>2. PICK s \in StepsOf(todo[u]) : Adds(s, h)
      BY <3>1
    <3>3. s \in StepsOf(todo'[u])
      BY <1>3, <1>5, <2>2, <3>2
    <3>4. Adds(s, h)'
      BY <2>2, <3>2 DEF Adds
    <3> QED BY <3>3, <3>4 DEF Pending
  <2>3. CASE /\ host'[h].state = host[h].state /\ host'[h].sets = host[h].sets
             /\ ~(x.host = h /\ x.op \in {"addToDb", "addTo"})
    <3>1. ~Adds(x, h)
      BY <2>3 DEF Adds
    <3> QED BY <2>1, <2>2, <2>3, <3>1
  <2>4. CASE x.host = h /\ x.op \in Leaving
    BY <1>3, <1>6, <2>4 DEF Pending, Adds
  <2>5. CASE /\ x.host = h /\ x.op = "addToDb"
             /\ host' = host /\ p = <<Step("addTo", h, host[h].state)>>
    <3>1. PICK y : y = Step("addTo", h, host[h].state)
      OBVIOUS
    <3>2. y \in StepsOf(p)
      <4>1. Len(p) = 1 /\ p[1] = y /\ 1 \in 1..1
        BY <2>5, <3>1
      <4> QED BY <4>1 DEF StepsOf
    <3>3. Adds(y, h)'
      BY <2>5, <3>1 DEF Adds, Step
    <3>4. y \in StepsOf(todo'[t])
      BY <1>3, <1>5, <3>2
    <3> QED BY <3>3, <3>4 DEF Pending
  <2>6. CASE /\ x.host = h /\ x.op = "addTo"
             /\ host'[h].state = host[h].state /\ host'[h].sets = host[h].sets \cup {x.arg}
    <3>1. CASE x.arg = host[h].state
      BY <2>6, <3>1
    <3>2. CASE x.arg # host[h].state
      <4>1. ~Adds(x, h)
        BY <2>6, <3>2 DEF Adds
      <4> QED BY <2>1, <2>2, <2>6, <4>1
    <3> QED BY <3>1, <3>2
  <2> QED BY <2>3, <2>4, <2>5, <2>6 DEF HostEffect
<1>16. \A h \in allHosts' : host'[h].state \in host'[h].sets \/ Pending(h)'
  BY <1>15 DEF allHosts, KnownKept
<1>17. IsFiniteSet(allHosts')
  BY DEF ThreadsInv, allHosts, KnownKept
<1> QED BY <1>10, <1>12, <1>13, <1>14, <1>16, <1>17 DEF ThreadsInv

\* A thread that does nothing begins a handler or a search, which changes nothing that
\* FoundInItsSet sees.
LEMMA BeginKeepsInv ==
  ASSUME ThreadsInv, NEW t \in Thread, NEW p \in Seq(StepRec), Begin(t, p),
         AddsLater(p), \A s \in StepsOf(p) : StepOK(s), TypeOK',
         \A h \in Host : host'[h].state = host[h].state /\ host'[h].sets = host[h].sets,
         \/ t = "server" /\ owner' = owner
         \/ t = "silent" /\ owner' = "silent" /\ UnlockLast(p) /\ p # <<>>
  PROVE  ThreadsInv'
<1>1. /\ todo \in [Thread -> Seq(StepRec)]
      /\ \A u \in Thread : AddsLater(todo[u])
      /\ UnlockLast(todo["silent"])
      /\ owner = IF Idle("silent") THEN None ELSE "silent"
  BY DEF ThreadsInv, ThreadsTypeOK
<1>2. /\ todo[t] = <<>> /\ todo' \in [Thread -> Seq(StepRec)]
      /\ todo'[t] = p /\ \A u \in Thread : u # t => todo'[u] = todo[u]
  BY <1>1 DEF Begin, Idle
<1>3. "silent" \in Thread /\ "server" \in Thread /\ "silent" # "server"
  BY DEF Thread
<1>4. ThreadsTypeOK'
  BY <1>1, <1>2, <1>3 DEF ThreadsTypeOK, Idle
<1>5. KnownKept
  BY DEF KnownKept
<1>6. ASSUME NEW u \in Thread, NEW s \in StepsOf(todo'[u])
      PROVE  StepShape(s) /\ (OfKnown(s) => host'[s.host].state # "none")
  <2>1. StepOK(s)
    BY <1>2, <1>6 DEF ThreadsInv, StepsOK
  <2> QED BY <1>5, <2>1, StepOKKept
<1>7. StepsOK'
  BY <1>6 DEF StepsOK, StepOK, StepShape, OfKnown
<1>8. \A u \in Thread : AddsLater(todo'[u])
  BY <1>1, <1>2
<1>9. UnlockLast(todo'["silent"])
  BY <1>1, <1>2, <1>3
<1>10. ASSUME NEW h \in Host, host[h].state # "none"
       PROVE  host'[h].state \in host'[h].sets \/ Pending(h)'
  <2>1. host[h].state \in host[h].sets \/ Pending(h)
    BY <1>10 DEF ThreadsInv, allHosts
  <2>2. ASSUME Pending(h)
        PROVE  Pending(h)'
    <3>1. PICK u \in Thread : \E s \in StepsOf(todo[u]) : Adds(s, h)
      BY <2>2 DEF Pending
    <3>2. PICK s \in StepsOf(todo[u]) : Adds(s, h)
      BY <3>1
    <3>3. u # t
      <4>1. StepsOf(<<>>) = {}
        BY DEF StepsOf
      <4> QED BY <1>2, <3>2, <4>1
    <3>4. s \in StepsOf(todo'[u])
      BY <1>2, <3>2, <3>3
    <3>5. Adds(s, h)'
      BY <3>2 DEF Adds
    <3> QED BY <3>4, <3>5 DEF Pending
  <2> QED BY <2>1, <2>2
<1>11. \A h \in allHosts' : host'[h].state \in host'[h].sets \/ Pending(h)'
  BY <1>10 DEF allHosts
<1>12. IsFiniteSet(allHosts')
  BY DEF ThreadsInv, allHosts
<1> QED BY <1>4, <1>7, <1>8, <1>9, <1>11, <1>12 DEF ThreadsInv

\* A step of a thread that has nothing left of what it does: hosts stay known, and one
\* that changes or is new is in the sub-set of its state.
LEMMA AloneKeepsInv ==
  ASSUME ThreadsInv, UNCHANGED <<todo, owner>>, TypeOK', IsFiniteSet(allHosts'),
         \A h \in Host : \/ host'[h].state = host[h].state /\ host'[h].sets = host[h].sets
                         \/ host[h].state = "none" /\ host'[h].state \in host'[h].sets
  PROVE  ThreadsInv'
<1>1. ThreadsTypeOK'
  BY DEF ThreadsInv, ThreadsTypeOK, Idle
<1>2. ASSUME NEW u \in Thread, NEW s \in StepsOf(todo'[u])
      PROVE  StepShape(s) /\ (OfKnown(s) => host'[s.host].state # "none")
  <2>1. StepOK(s)
    BY <1>2 DEF ThreadsInv, StepsOK
  <2>2. OfKnown(s) => s.host \in Host
    BY <2>1 DEF StepOK, StepShape, OfKnown
  <2>3. TypeOK
    BY DEF ThreadsInv, ThreadsTypeOK
  <2>4. \A h \in Host : host[h].state # "none" => host'[h].state # "none"
    BY <2>3
  <2> QED BY <2>1, <2>2, <2>4 DEF StepOK
<1>3. StepsOK'
  BY <1>2 DEF StepsOK, StepOK, StepShape, OfKnown
<1>4. (\A u \in Thread : AddsLater(todo'[u])) /\ UnlockLast(todo'["silent"])
  BY DEF ThreadsInv
<1>5. ASSUME NEW h \in Host, host'[h].state # "none"
      PROVE  host'[h].state \in host'[h].sets \/ Pending(h)'
  <2>1. CASE host'[h].state = host[h].state /\ host'[h].sets = host[h].sets
    BY <1>5, <2>1 DEF ThreadsInv, allHosts, Pending, Adds
  <2> QED BY <2>1
<1>6. \A h \in allHosts' : host'[h].state \in host'[h].sets \/ Pending(h)'
  BY <1>5 DEF allHosts
<1> QED BY <1>1, <1>3, <1>4, <1>6 DEF ThreadsInv

-----------------------------------------------------------------------------
(* The steps of a host's methods *)

\* The step that a thread is at.
LEMMA HeadOK ==
  ASSUME ThreadsInv, NEW t \in Thread, NEW op, At(t, op)
  PROVE  /\ todo[t] # <<>> /\ todo[t] \in Seq(StepRec)
         /\ StepOK(Head(todo[t])) /\ Head(todo[t]).op = op
<1>1. todo[t] # <<>> /\ todo[t] \in Seq(StepRec) /\ Head(todo[t]).op = op
  BY DEF ThreadsInv, ThreadsTypeOK, At
<1>2. Len(todo[t]) \in Nat \ {0} /\ Head(todo[t]) = todo[t][1]
  BY <1>1, EmptySeq, HeadTailProperties
<1>3. Head(todo[t]) \in StepsOf(todo[t])
  BY <1>2 DEF StepsOf
<1> QED BY <1>1, <1>3 DEF ThreadsInv, StepsOK

\* A step that changes the host it is about at most.
LEMMA StepKeepsInv ==
  ASSUME ThreadsInv, NEW t \in Thread, NEW op, At(t, op), op # "unlock",
         NEW x, x = Head(todo[t]), NEW p, NewSteps(p), Do(t, p), TypeOK', UNCHANGED owner,
         \A h \in Host : h # x.host => host'[h] = host[h],
         host'[x.host].state = "none" <=> host[x.host].state = "none",
         HostEffect(x, p, x.host)
  PROVE  ThreadsInv'
<1>1. todo[t] # <<>> /\ x.op = op
  BY HeadOK
<1>2. KnownKept
  BY DEF KnownKept
<1>3. ASSUME NEW h \in Host, h # x.host
      PROVE  HostEffect(x, p, h)
  BY <1>3 DEF HostEffect
<1>4. \A h \in Host : HostEffect(x, p, h)
  BY <1>3
<1> QED BY <1>1, <1>2, <1>4, DoKeepsInv

\* Nothing may be put in the place of the first step.
LEMMA NoSteps == NewSteps(<<>>)
BY DEF NewSteps, AddsLater

\* The types of a new view.
LEMMA SetViewTypes ==
  ASSUME TypeOK, NEW h \in Host, NEW v \in ViewSet, SetView(h, v), UNCHANGED clientVars
  PROVE  TypeOK' /\ host'[h] = v.r /\ \A k \in Host : k # h => host'[k] = host[k]
<1>1. v.r \in HostRec /\ v.keys \in SUBSET Tier
  BY DEF ViewSet
<1>2. /\ host' \in [Host -> HostRec] /\ tierKeys' \in [Dprop -> SUBSET Tier]
      /\ host'[h] = v.r /\ \A k \in Host : k # h => host'[k] = host[k]
  BY <1>1, HostAssumption DEF TypeOK, SetView
<1> QED BY <1>2 DEF TypeOK, clientVars

\* The types after one host is stored to.
LEMMA SetHostTypes ==
  ASSUME TypeOK, NEW h \in Host, NEW r \in HostRec, host' = [host EXCEPT ![h] = r],
         UNCHANGED <<tierKeys, clientVars>>
  PROVE  TypeOK' /\ host'[h] = r /\ \A k \in Host : k # h => host'[k] = host[k]
<1>1. /\ host' \in [Host -> HostRec] /\ host'[h] = r
      /\ \A k \in Host : k # h => host'[k] = host[k]
  BY DEF TypeOK
<1> QED BY <1>1 DEF TypeOK, clientVars

\* The types of what the methods of the database return.
LEMMA DelFromSet ==
  ASSUME NEW u \in ViewSet, NEW s, NEW v, v = delFromHostSet(u, s)
  PROVE  v \in ViewSet /\ v.r.state = u.r.state
<1>1. v.r = [u.r EXCEPT !.sets = @ \ {s}] /\ v.keys = u.keys /\ v = [u EXCEPT !.r = v.r]
  BY DEF delFromHostSet, ViewSet, HostRec
<1>2. u.r \in HostRec
  BY DEF ViewSet
<1>3. v.r \in HostRec /\ v.r.state = u.r.state
  BY <1>1, <1>2 DEF HostRec
<1> QED BY <1>1, <1>3 DEF ViewSet

\* addToHostSet adds to the sub-sets.
LEMMA AddToSet ==
  ASSUME NEW u \in ViewSet, NEW s \in State, NEW v, v = addToHostSet(u, s)
  PROVE  v \in ViewSet /\ v.r.state = u.r.state /\ v.r.sets = u.r.sets \cup {s}
<1>1. v.r = [u.r EXCEPT !.sets = @ \cup {s}] /\ v.keys = u.keys /\ v = [u EXCEPT !.r = v.r]
  BY DEF addToHostSet, ViewSet, HostRec
<1>2. u.r \in HostRec
  BY DEF ViewSet
<1>3. v.r \in HostRec /\ v.r.state = u.r.state /\ v.r.sets = u.r.sets \cup {s}
  BY <1>1, <1>2 DEF HostRec
<1> QED BY <1>1, <1>3 DEF ViewSet

\* The view of a host and its tier.
LEMMA ViewFields ==
  ASSUME TypeOK, NEW h \in Host
  PROVE  /\ View(h) \in ViewSet /\ getTier(h, View(h)) \in Tier
         /\ View(h).r.state = host[h].state /\ View(h).r.sets = host[h].sets
         /\ NCpus[h] \in Nat
BY ViewType, ViewTier, HostAssumption DEF View

\* delFromAvailDb keeps the state.
LEMMA DelFromAvail ==
  ASSUME TypeOK, NEW h \in Host, NEW v, v = delFromAvailDb(h, View(h))
  PROVE  v \in ViewSet /\ v.r.state = host[h].state
<1>1. PICK u : u = delCpusFromTier(View(h), getTier(h, View(h)))
  OBVIOUS
<1>2. u \in ViewSet /\ u.r.state = host[h].state
  BY <1>1, ViewFields, DelCpusEffect
<1>3. v \in {View(h), delFromHostSet(u, "available")}
  BY <1>1 DEF delFromAvailDb
<1> QED BY <1>2, <1>3, ViewFields, DelFromSet

\* addToAvailDb adds the host to availHosts_.
LEMMA AddToAvail ==
  ASSUME TypeOK, NEW h \in Host, NEW v, v = addToAvailDb(h, View(h))
  PROVE  /\ v \in ViewSet /\ v.r.state = host[h].state
         /\ v.r.sets = host[h].sets \cup {"available"}
<1>1. PICK u : u = addToHostSet(View(h), "available")
  OBVIOUS
<1>2. /\ u \in ViewSet /\ u.r.state = host[h].state
      /\ u.r.sets = host[h].sets \cup {"available"}
  BY <1>1, ViewFields, AddToSet DEF State
<1>3. v = addCpusToTier(u, getTier(h, View(h)), NCpus[h])
  BY <1>1 DEF addToAvailDb
<1> QED BY <1>2, <1>3, ViewFields, AddCpus

\* reaction is the next state of a host.
LEMMA ReactionType ==
  ASSUME NEW h, NEW s \in State, NEW e \in Events
  PROVE  reaction(h, s, e) \in State
BY DEF reaction, State, Events

\* The steps of a change of state add the host at the end.
LEMMA StateStepsNew ==
  ASSUME NEW h \in Host, host[h].state # "none", NEW old \in State, NEW new \in State
  PROVE  NewSteps(stateSteps(h, old, new))
<1> DEFINE b == Step("removeFromDb", h, old)
           c == Step("setState", h, new)
           d == Step("addToDb", h, None)
           a == Step("delCpus", h, None)
           r == stateSteps(h, old, new)
<1>1. /\ a \in StepRec /\ b \in StepRec /\ c \in StepRec /\ d \in StepRec
      /\ a.op = "delCpus" /\ b.op = "removeFromDb" /\ c.op = "setState" /\ d.op = "addToDb"
      /\ a.host = h /\ b.host = h /\ c.host = h /\ d.host = h
      /\ StepShape(a) /\ StepShape(b) /\ StepShape(c) /\ StepShape(d)
  BY DEF Step, StepRec, StepShape, Ops
<1>2. r = (IF old = "available" THEN <<a>> ELSE <<>>) \o <<b, c, d>>
  BY DEF stateSteps
<1> HIDE DEF a, b, c, d, r
<1>3. CASE old = "available"
  <2>1. r = <<a, b, c, d>>
    BY <1>1, <1>2, <1>3, OneAndThree
  <2>2. r \in Seq(StepRec) /\ Len(r) = 4 /\ r[1] = a /\ r[2] = b /\ r[3] = c /\ r[4] = d
    BY <1>1, <2>1
  <2>3. AddsLater(r)
    BY <1>1, <2>2 DEF AddsLater, Leaving
  <2> QED BY <1>1, <2>2, <2>3 DEF NewSteps, r
<1>4. CASE old # "available"
  <2>1. r = <<b, c, d>>
    BY <1>1, <1>2, <1>4
  <2>2. r \in Seq(StepRec) /\ Len(r) = 3 /\ r[1] = b /\ r[2] = c /\ r[3] = d
    BY <1>1, <2>1
  <2>3. AddsLater(r)
    BY <1>1, <2>2 DEF AddsLater, Leaving
  <2> QED BY <1>1, <2>2, <2>3 DEF NewSteps, r
<1> QED BY <1>3, <1>4

\* state_ is read and the method of the state object begins.
LEMMA EventKeepsInv == ASSUME ThreadsInv, NEW t \in Thread, Event(t) PROVE ThreadsInv'
<1> DEFINE x == Head(todo[t])
           h == x.host
           s == host[h].state
           new == reaction(h, s, x.arg)
           p == IF new = s THEN <<>> ELSE stateSteps(h, s, new)
<1>1. At(t, "event") /\ Do(t, p) /\ UNCHANGED <<vars, owner>>
  BY DEF Event
<1>2. StepOK(x) /\ x.op = "event"
  BY <1>1, HeadOK
<1>3. TypeOK /\ TypeOK'
  BY <1>1 DEF ThreadsInv, ThreadsTypeOK, TypeOK, vars
<1>4. h \in Host /\ s \in State /\ x.arg \in Events /\ host[h].state # "none"
  BY <1>2, <1>3 DEF StepOK, StepShape, OfKnown, TypeOK, HostRec
<1>5. new \in State
  BY <1>4, ReactionType
<1>6. NewSteps(p)
  BY <1>4, <1>5, NoSteps, StateStepsNew
<1>7. host' = host
  BY <1>1 DEF vars
<1>8. HostEffect(x, p, h)
  BY <1>2, <1>7 DEF HostEffect
<1> HIDE DEF x, p
<1>9. x = Head(todo[t])
  BY DEF x
<1> QED BY <1>1, <1>3, <1>6, <1>7, <1>8, <1>9, StepKeepsInv

\* The cpus of the tier are taken out of the pool.
LEMMA DelCpusKeepsInv == ASSUME ThreadsInv, NEW t \in Thread, DelCpus(t) PROVE ThreadsInv'
<1> DEFINE x == Head(todo[t])
           h == x.host
           v == delCpusFromTier(View(h), getTier(h, View(h)))
<1>1. /\ At(t, "delCpus") /\ Do(t, <<>>) /\ SetView(h, v)
      /\ UNCHANGED clientVars /\ UNCHANGED owner
  BY DEF DelCpus
<1>2. StepOK(x) /\ x.op = "delCpus"
  BY <1>1, HeadOK
<1>3. TypeOK /\ h \in Host
  BY <1>2 DEF ThreadsInv, ThreadsTypeOK, StepOK, StepShape
<1>4. v \in ViewSet /\ v.r.state = host[h].state
  BY <1>3, ViewFields, DelCpusEffect
<1> HIDE DEF x, v
<1>5. TypeOK' /\ host'[h] = v.r /\ \A k \in Host : k # h => host'[k] = host[k]
  BY <1>1, <1>3, <1>4, SetViewTypes
<1>6. HostEffect(x, <<>>, h)
  BY <1>2 DEF HostEffect, Leaving
<1>7. x = Head(todo[t])
  BY DEF x
<1> QED BY <1>1, <1>4, <1>5, <1>6, <1>7, NoSteps, StepKeepsInv

\* The host is taken out of a sub-set.
LEMMA RemoveFromDbKeepsInv ==
  ASSUME ThreadsInv, NEW t \in Thread, RemoveFromDb(t) PROVE ThreadsInv'
<1> DEFINE x == Head(todo[t])
           h == x.host
           v == IF x.arg = "available" THEN delFromAvailDb(h, View(h))
                                       ELSE delFromHostSet(View(h), x.arg)
<1>1. /\ At(t, "removeFromDb") /\ Do(t, <<>>) /\ SetView(h, v)
      /\ UNCHANGED clientVars /\ UNCHANGED owner
  BY DEF RemoveFromDb
<1>2. StepOK(x) /\ x.op = "removeFromDb"
  BY <1>1, HeadOK
<1>3. TypeOK /\ h \in Host
  BY <1>2 DEF ThreadsInv, ThreadsTypeOK, StepOK, StepShape
<1>4. v \in ViewSet /\ v.r.state = host[h].state
  BY <1>3, ViewFields, DelFromSet, DelFromAvail
<1> HIDE DEF x, v
<1>5. TypeOK' /\ host'[h] = v.r /\ \A k \in Host : k # h => host'[k] = host[k]
  BY <1>1, <1>3, <1>4, SetViewTypes
<1>6. HostEffect(x, <<>>, h)
  BY <1>2 DEF HostEffect, Leaving
<1>7. x = Head(todo[t])
  BY DEF x
<1> QED BY <1>1, <1>4, <1>5, <1>6, <1>7, NoSteps, StepKeepsInv

\* state_ is stored: the host stays known.
LEMMA SetStateKeepsInv ==
  ASSUME ThreadsInv, NEW t \in Thread, SetState(t) PROVE ThreadsInv'
<1> DEFINE x == Head(todo[t])
           h == x.host
<1>1. /\ At(t, "setState") /\ Do(t, <<>>)
      /\ host' = [host EXCEPT ![h].state = x.arg]
      /\ UNCHANGED <<tierKeys, clientVars, owner>>
  BY DEF SetState
<1>2. StepOK(x) /\ x.op = "setState"
  BY <1>1, HeadOK
<1>3. TypeOK
  BY DEF ThreadsInv, ThreadsTypeOK
<1>4. h \in Host /\ x.arg \in State /\ host[h].state # "none"
  BY <1>2 DEF StepOK, StepShape, OfKnown
<1> HIDE DEF x
<1>5. PICK r : r = [host[h] EXCEPT !.state = x.arg]
  OBVIOUS
<1>6. r \in HostRec /\ r.state = x.arg
  <2>1. host[h] \in HostRec
    BY <1>3, <1>4 DEF TypeOK
  <2> QED BY <1>4, <1>5, <2>1 DEF HostRec
<1>7. host' = [host EXCEPT ![h] = r]
  BY <1>1, <1>5
<1>8. TypeOK' /\ host'[h] = r /\ \A k \in Host : k # h => host'[k] = host[k]
  BY <1>1, <1>3, <1>4, <1>6, <1>7, SetHostTypes
<1>9. x.arg # "none"
  BY <1>4 DEF State
<1>10. HostEffect(x, <<>>, h)
  BY <1>2 DEF HostEffect, Leaving
<1>11. x = Head(todo[t])
  BY DEF x
<1> QED BY <1>1, <1>4, <1>6, <1>8, <1>9, <1>10, <1>11, NoSteps, StepKeepsInv

\* state_ is read to choose the sub-set.
LEMMA ReadStateKeepsInv ==
  ASSUME ThreadsInv, NEW t \in Thread, ReadState(t) PROVE ThreadsInv'
<1> DEFINE x == Head(todo[t])
           h == x.host
           y == Step("addTo", h, host[h].state)
<1>1. At(t, "addToDb") /\ Do(t, <<y>>) /\ UNCHANGED <<vars, owner>>
  BY DEF ReadState
<1>2. StepOK(x) /\ x.op = "addToDb"
  BY <1>1, HeadOK
<1>3. TypeOK /\ TypeOK'
  BY <1>1 DEF ThreadsInv, ThreadsTypeOK, TypeOK, vars
<1>4. h \in Host /\ host[h].state \in State /\ host[h].state # "none"
  BY <1>2, <1>3 DEF StepOK, StepShape, OfKnown, TypeOK, HostRec
<1>5. y \in StepRec /\ StepShape(y) /\ y.op = "addTo" /\ y.host = h
  BY <1>4 DEF Step, StepRec, StepShape, Ops
<1>6. host' = host
  BY <1>1 DEF vars
<1>7. HostEffect(x, <<y>>, h)
  BY <1>2, <1>6 DEF HostEffect
<1> HIDE DEF x, y
<1>8. NewSteps(<<y>>)
  BY <1>4, <1>5 DEF NewSteps, AddsLater, Leaving
<1>9. x = Head(todo[t])
  BY DEF x
<1> QED BY <1>1, <1>3, <1>6, <1>7, <1>8, <1>9, StepKeepsInv

\* The host is added to a sub-set.
LEMMA AddToDbKeepsInv ==
  ASSUME ThreadsInv, NEW t \in Thread, AddToDb(t) PROVE ThreadsInv'
<1> DEFINE x == Head(todo[t])
           h == x.host
           v == IF x.arg = "available" THEN addToAvailDb(h, View(h))
                                       ELSE addToHostSet(View(h), x.arg)
<1>1. /\ At(t, "addTo") /\ Do(t, <<>>) /\ SetView(h, v)
      /\ UNCHANGED clientVars /\ UNCHANGED owner
  BY DEF AddToDb
<1>2. StepOK(x) /\ x.op = "addTo"
  BY <1>1, HeadOK
<1>3. TypeOK /\ h \in Host /\ x.arg \in State
  BY <1>2 DEF ThreadsInv, ThreadsTypeOK, StepOK, StepShape
<1>4. /\ v \in ViewSet /\ v.r.state = host[h].state
      /\ v.r.sets = host[h].sets \cup {x.arg}
  <2>1. CASE x.arg = "available"
    BY <1>3, <2>1, AddToAvail
  <2>2. CASE x.arg # "available"
    <3>1. v = addToHostSet(View(h), x.arg)
      BY <2>2
    <3> HIDE DEF v
    <3> QED BY <1>3, <3>1, ViewFields, AddToSet
  <2> QED BY <2>1, <2>2
<1> HIDE DEF x, v
<1>5. TypeOK' /\ host'[h] = v.r /\ \A k \in Host : k # h => host'[k] = host[k]
  BY <1>1, <1>3, <1>4, SetViewTypes
<1>6. HostEffect(x, <<>>, h)
  BY <1>2, <1>4, <1>5 DEF HostEffect
<1>7. x = Head(todo[t])
  BY DEF x
<1> QED BY <1>1, <1>4, <1>5, <1>6, <1>7, NoSteps, StepKeepsInv

\* A step of a host's method, on either thread.
LEMMA MethodStepKeepsInv ==
  ASSUME ThreadsInv, NEW t \in Thread, MethodStep(t) PROVE ThreadsInv'
BY EventKeepsInv, DelCpusKeepsInv, RemoveFromDbKeepsInv, SetStateKeepsInv, ReadStateKeepsInv,
   AddToDbKeepsInv DEF MethodStep

-----------------------------------------------------------------------------
(* The other steps of handlers *)

\* The steps that change neither the state of a host nor a sub-set.
PlainOps == Ops \ (Leaving \cup {"addToDb", "addTo", "unlock"})

\* A step that is no change of state or of sub-set.
LEMMA PlainKeepsInv ==
  ASSUME ThreadsInv, NEW t \in Thread, NEW op \in PlainOps, At(t, op),
         NEW x, x = Head(todo[t]), NEW p, NewSteps(p), Do(t, p), TypeOK', UNCHANGED owner,
         \A h \in Host : /\ h # x.host => host'[h] = host[h]
                         /\ host'[h].state = host[h].state /\ host'[h].sets = host[h].sets
  PROVE  ThreadsInv'
<1>1. StepOK(x) /\ x.op = op /\ op # "unlock"
  BY HeadOK DEF PlainOps
<1>2. x.host \in Host
  BY <1>1 DEF StepOK, StepShape
<1>3. HostEffect(x, p, x.host)
  BY <1>1, <1>2 DEF HostEffect, PlainOps
<1> QED BY <1>1, <1>2, <1>3, StepKeepsInv

\* A read decides what is left to do.
LEMMA ReadKeepsInv ==
  ASSUME ThreadsInv, NEW t \in Thread, NEW op \in PlainOps, At(t, op),
         NEW p, NewSteps(p), Do(t, p), UNCHANGED <<vars, owner>>
  PROVE  ThreadsInv'
<1>1. TypeOK' /\ host' = host
  BY DEF ThreadsInv, ThreadsTypeOK, TypeOK, vars
<1> QED BY <1>1, PlainKeepsInv

\* A store to a field of a host.
LEMMA FieldKeepsInv ==
  ASSUME ThreadsInv, NEW t \in Thread, NEW op \in PlainOps, At(t, op), Do(t, <<>>),
         NEW h, h = Head(todo[t]).host, NEW r \in HostRec, host' = [host EXCEPT ![h] = r],
         r.state = host[h].state, r.sets = host[h].sets,
         UNCHANGED <<tierKeys, clientVars, owner>>
  PROVE  ThreadsInv'
<1>1. h \in Host /\ TypeOK
  BY HeadOK DEF StepOK, StepShape, PlainOps, ThreadsInv, ThreadsTypeOK
<1>2. TypeOK' /\ host'[h] = r /\ \A k \in Host : k # h => host'[k] = host[k]
  BY <1>1, SetHostTypes
<1> QED BY <1>2, NoSteps, PlainKeepsInv

\* A change of the pool.
LEMMA ViewKeepsInv ==
  ASSUME ThreadsInv, NEW t \in Thread, NEW op \in PlainOps, At(t, op), Do(t, <<>>),
         NEW h, h = Head(todo[t]).host, NEW v \in ViewSet, SetView(h, v),
         v.r.state = host[h].state, v.r.sets = host[h].sets,
         UNCHANGED <<clientVars, owner>>
  PROVE  ThreadsInv'
<1>1. h \in Host /\ TypeOK
  BY HeadOK DEF StepOK, StepShape, PlainOps, ThreadsInv, ThreadsTypeOK
<1>2. TypeOK' /\ host'[h] = v.r /\ \A k \in Host : k # h => host'[k] = host[k]
  BY <1>1, SetViewTypes
<1> QED BY <1>2, NoSteps, PlainKeepsInv

\* The cpus are moved to the tier of the load.
LEMMA MoveCpusKeepsInv == ASSUME ThreadsInv, MoveCpus PROVE ThreadsInv'
<1> DEFINE x == Head(todo["server"])
           h == x.host
           old == getTier(h, View(h))
           new == calcTier(x.arg, PIndex[h])
           v == moveCpus(View(h), old, new)
<1>1. /\ At("server", "moveCpus") /\ Do("server", <<>>) /\ SetView(h, v)
      /\ UNCHANGED <<clientVars, owner>>
  BY DEF MoveCpus
<1>2. "server" \in Thread /\ "moveCpus" \in PlainOps
  BY DEF Thread, PlainOps, Ops, Leaving
<1>3. TypeOK /\ h \in Host /\ x.arg \in Load
  BY <1>1, <1>2, HeadOK DEF StepOK, StepShape, ThreadsInv, ThreadsTypeOK
<1>4. old \in Tier /\ new \in Tier /\ View(h).r.cpus[old] \in Nat
  BY <1>3, ViewFields, TierType DEF ViewSet, HostRec
<1>5. PICK u : u = delCpusFromTier(View(h), old)
  OBVIOUS
<1>6. u \in ViewSet /\ u.r.state = host[h].state /\ u.r.sets = host[h].sets
  <2>1. /\ View(h) \in ViewSet
        /\ View(h).r.state = host[h].state /\ View(h).r.sets = host[h].sets
    BY <1>3, ViewFields
  <2>2. u = delCpusFromTier(View(h), old) /\ old \in Tier
    BY <1>4, <1>5
  <2> HIDE DEF old, x
  <2>3. u \in ViewSet /\ u.r.state = View(h).r.state /\ u.r.sets = View(h).r.sets
    BY <2>1, <2>2, DelCpusEffect
  <2> QED BY <2>1, <2>3
<1>7. v = addCpusToTier(u, new, View(h).r.cpus[old])
  BY <1>5 DEF moveCpus
<1> HIDE DEF old, new, v, x
<1>8. v \in ViewSet /\ v.r.state = host[h].state /\ v.r.sets = host[h].sets
  <2>1. PICK n : n = View(h).r.cpus[old]
    OBVIOUS
  <2>2. n \in Nat /\ u \in ViewSet /\ new \in Tier /\ v = addCpusToTier(u, new, n)
    BY <1>4, <1>6, <1>7, <2>1
  <2>3. v \in ViewSet /\ v.r.state = u.r.state /\ v.r.sets = u.r.sets
    BY <2>2, AddCpus
  <2> QED BY <1>6, <2>3
<1>9. x = Head(todo["server"])
  BY DEF x
<1> QED BY <1>1, <1>2, <1>8, <1>9, ViewKeepsInv

\* A load average is stored while others still have their old values.
LEMMA StoreLdKeepsInv == ASSUME ThreadsInv, StoreLd PROVE ThreadsInv'
<1> DEFINE x == Head(todo["server"])
           h == x.host
<1>1. /\ At("server", "storeLd") /\ Do("server", <<>>)
      /\ UNCHANGED <<tierKeys, clientVars, owner>>
  BY DEF StoreLd
<1>2. "server" \in Thread /\ "storeLd" \in PlainOps
  BY DEF Thread, PlainOps, Ops, Leaving
<1>3. TypeOK /\ h \in Host
  BY <1>1, <1>2, HeadOK DEF StepOK, StepShape, ThreadsInv, ThreadsTypeOK
<1>4. host[h] \in HostRec
  BY <1>3 DEF TypeOK
<1>5. PICK ld \in IF host[h].ld = "light" THEN Load ELSE {host[h].ld} :
        host' = [host EXCEPT ![h].ld = ld]
  BY DEF StoreLd
<1>6. ld \in Load
  BY <1>4 DEF HostRec
<1>7. PICK r : r = [host[h] EXCEPT !.ld = ld]
  OBVIOUS
<1>8. r \in HostRec /\ r.state = host[h].state /\ r.sets = host[h].sets
  BY <1>4, <1>6, <1>7 DEF HostRec
<1>9. host' = [host EXCEPT ![h] = r]
  BY <1>5, <1>7
<1> QED BY <1>1, <1>2, <1>8, <1>9, FieldKeepsInv

\* The load averages have their new values.
LEMMA SetLdKeepsInv == ASSUME ThreadsInv, SetLd PROVE ThreadsInv'
<1> DEFINE x == Head(todo["server"])
           h == x.host
<1>1. /\ At("server", "setLd") /\ Do("server", <<>>)
      /\ host' = [host EXCEPT ![h].ld = x.arg]
      /\ UNCHANGED <<tierKeys, clientVars, owner>>
  BY DEF SetLd
<1>2. "server" \in Thread /\ "setLd" \in PlainOps
  BY DEF Thread, PlainOps, Ops, Leaving
<1>3. TypeOK /\ h \in Host /\ x.arg \in Load
  BY <1>1, <1>2, HeadOK DEF StepOK, StepShape, ThreadsInv, ThreadsTypeOK
<1>4. host[h] \in HostRec
  BY <1>3 DEF TypeOK
<1>5. PICK r : r = [host[h] EXCEPT !.ld = x.arg]
  OBVIOUS
<1>6. r \in HostRec /\ r.state = host[h].state /\ r.sets = host[h].sets
  BY <1>3, <1>4, <1>5 DEF HostRec
<1>7. host' = [host EXCEPT ![h] = r]
  BY <1>1, <1>5
<1> QED BY <1>1, <1>2, <1>6, <1>7, FieldKeepsInv

\* lastUpdate_ is stored.
LEMMA StampKeepsInv == ASSUME ThreadsInv, Stamp PROVE ThreadsInv'
<1> DEFINE x == Head(todo["server"])
           h == x.host
<1>1. /\ At("server", "stamp") /\ Do("server", <<>>)
      /\ host' = [host EXCEPT ![h].heard = TRUE, ![h].quiet = FALSE]
      /\ UNCHANGED <<tierKeys, clientVars, owner>>
  BY DEF Stamp
<1>2. "server" \in Thread /\ "stamp" \in PlainOps
  BY DEF Thread, PlainOps, Ops, Leaving
<1>3. TypeOK /\ h \in Host
  BY <1>1, <1>2, HeadOK DEF StepOK, StepShape, ThreadsInv, ThreadsTypeOK
<1>4. host[h] \in HostRec /\ host \in [Host -> HostRec]
  BY <1>3 DEF TypeOK
<1>5. PICK r : r = [host[h] EXCEPT !.heard = TRUE, !.quiet = FALSE]
  OBVIOUS
<1>6. r \in HostRec /\ r.state = host[h].state /\ r.sets = host[h].sets
  BY <1>4, <1>5 DEF HostRec
<1>7. host' = [host EXCEPT ![h] = r]
  BY <1>1, <1>3, <1>4, <1>5
<1> QED BY <1>1, <1>2, <1>6, <1>7, FieldKeepsInv

\* One step that is not part of a change of state.
LEMMA OneStep ==
  ASSUME NEW y, StepShape(y), y.op \in PlainOps, OfKnown(y) => host[y.host].state # "none"
  PROVE  NewSteps(<<y>>)
<1>1. y \in StepRec /\ y.op # "unlock" /\ y.op \notin Leaving
  BY DEF StepShape, PlainOps
<1>2. /\ <<y>> \in Seq(StepRec) /\ Len(<<y>>) = 1 /\ <<y>>[1] = y
  BY <1>1
<1> QED BY <1>1, <1>2 DEF NewSteps, AddsLater

\* The second read of state_ follows the first.
LEMMA IfSilentKeepsInv == ASSUME ThreadsInv, IfSilent PROVE ThreadsInv'
<1> DEFINE x == Head(todo["server"])
           h == x.host
           p == IF host[h].state = "silent" THEN <<Step("event", h, "avail")>>
                                            ELSE <<Step("ifOverloaded", h, None)>>
<1>1. At("server", "ifSilent") /\ Do("server", p) /\ UNCHANGED <<vars, owner>>
  BY DEF IfSilent
<1>2. "server" \in Thread /\ "ifSilent" \in PlainOps
  BY DEF Thread, PlainOps, Ops, Leaving
<1>3. h \in Host /\ host[h].state # "none"
  <2>1. StepOK(x) /\ x.op = "ifSilent"
    BY <1>1, <1>2, HeadOK
  <2> QED BY <2>1 DEF StepOK, StepShape, OfKnown
<1>4. NewSteps(p)
  <2>1. ASSUME NEW y \in {Step("event", h, "avail"), Step("ifOverloaded", h, None)}
        PROVE  StepShape(y) /\ y.op \in PlainOps /\ y.host = h
    BY <1>3 DEF Step, StepShape, StepRec, Ops, PlainOps, Events, Leaving
  <2> QED BY <1>3, <2>1, OneStep
<1> HIDE DEF p
<1> QED BY <1>1, <1>2, <1>4, ReadKeepsInv

\* avail() follows the second read, or nothing.
LEMMA IfOverloadedKeepsInv == ASSUME ThreadsInv, IfOverloaded PROVE ThreadsInv'
<1> DEFINE x == Head(todo["server"])
           h == x.host
           p == IF host[h].state = "overloaded" /\ getTier(h, View(h)) # 0
                THEN <<Step("event", h, "avail")>> ELSE <<>>
<1>1. At("server", "ifOverloaded") /\ Do("server", p) /\ UNCHANGED <<vars, owner>>
  BY DEF IfOverloaded
<1>2. "server" \in Thread /\ "ifOverloaded" \in PlainOps
  BY DEF Thread, PlainOps, Ops, Leaving
<1>3. h \in Host /\ host[h].state # "none"
  <2>1. StepOK(x) /\ x.op = "ifOverloaded"
    BY <1>1, <1>2, HeadOK
  <2> QED BY <2>1 DEF StepOK, StepShape, OfKnown
<1>4. NewSteps(p)
  <2>1. ASSUME NEW y, y = Step("event", h, "avail")
        PROVE  StepShape(y) /\ y.op \in PlainOps /\ y.host = h
    BY <1>3, <2>1 DEF Step, StepShape, StepRec, Ops, PlainOps, Events, Leaving
  <2> QED BY <1>3, <2>1, OneStep, NoSteps
<1> HIDE DEF p
<1> QED BY <1>1, <1>2, <1>4, ReadKeepsInv

\* Whether the cpu goes back depends on the host's state.
LEMMA GiveBackKeepsInv == ASSUME ThreadsInv, GiveBack PROVE ThreadsInv'
<1> DEFINE x == Head(todo["server"])
           h == x.host
           p == IF host[h].state = "available" THEN <<Step("addCpu", h, None)>> ELSE <<>>
<1>1. At("server", "giveBack") /\ Do("server", p) /\ UNCHANGED <<vars, owner>>
  BY DEF GiveBack
<1>2. "server" \in Thread /\ "giveBack" \in PlainOps
  BY DEF Thread, PlainOps, Ops, Leaving
<1>3. h \in Host
  <2>1. StepOK(x) /\ x.op = "giveBack"
    BY <1>1, <1>2, HeadOK
  <2> QED BY <2>1 DEF StepOK, StepShape
<1>4. NewSteps(p)
  <2>1. ASSUME NEW y, y = Step("addCpu", h, None)
        PROVE  StepShape(y) /\ y.op \in PlainOps /\ ~OfKnown(y)
    BY <1>3, <2>1 DEF Step, StepShape, StepRec, Ops, PlainOps, Leaving, OfKnown
  <2> QED BY <2>1, OneStep, NoSteps
<1> HIDE DEF p
<1> QED BY <1>1, <1>2, <1>4, ReadKeepsInv

\* The search looks at a host.
LEMMA SeemsDownKeepsInv == ASSUME ThreadsInv, SeemsDown PROVE ThreadsInv'
<1> DEFINE x == Head(todo["silent"])
           h == x.host
           p == IF seemsDown(h) THEN <<Step("event", h, "silent")>> ELSE <<>>
<1>1. At("silent", "seemsDown") /\ Do("silent", p) /\ UNCHANGED <<vars, owner>>
  BY DEF SeemsDown
<1>2. "silent" \in Thread /\ "seemsDown" \in PlainOps
  BY DEF Thread, PlainOps, Ops, Leaving
<1>3. h \in Host /\ host[h].state # "none"
  <2>1. StepOK(x) /\ x.op = "seemsDown"
    BY <1>1, <1>2, HeadOK
  <2> QED BY <2>1 DEF StepOK, StepShape, OfKnown
<1>4. NewSteps(p)
  <2>1. ASSUME NEW y, y = Step("event", h, "silent")
        PROVE  StepShape(y) /\ y.op \in PlainOps /\ y.host = h
    BY <1>3, <2>1 DEF Step, StepShape, StepRec, Ops, PlainOps, Events, Leaving
  <2> QED BY <1>3, <2>1, OneStep, NoSteps
<1> HIDE DEF p
<1> QED BY <1>1, <1>2, <1>4, ReadKeepsInv

\* The cpu is put in the list of its tier, or the insertion is lost.
LEMMA AddCpuKeepsInv == ASSUME ThreadsInv, AddCpu PROVE ThreadsInv'
<1> DEFINE x == Head(todo["server"])
           h == x.host
           v == addCpusToTier(View(h), getTier(h, View(h)), 1)
<1>1. /\ At("server", "addCpu") /\ Do("server", <<>>) /\ UNCHANGED <<clientVars, owner>>
      /\ SetView(h, v) \/ UNCHANGED <<host, tierKeys>>
  BY Zenon DEF AddCpu
<1>2. "server" \in Thread /\ "addCpu" \in PlainOps
  BY DEF Thread, PlainOps, Ops, Leaving
<1>3. TypeOK /\ h \in Host
  BY <1>1, <1>2, HeadOK DEF StepOK, StepShape, ThreadsInv, ThreadsTypeOK
<1>4. v \in ViewSet /\ v.r.state = host[h].state /\ v.r.sets = host[h].sets
  BY <1>3, ViewFields, AddCpus
<1> HIDE DEF v
<1>5. CASE SetView(h, v)
  BY <1>1, <1>2, <1>4, <1>5, ViewKeepsInv
<1>6. CASE UNCHANGED <<host, tierKeys>>
  <2>1. UNCHANGED <<vars, owner>>
    BY <1>1, <1>6 DEF clientVars, vars
  <2> QED BY <1>1, <1>2, <2>1, NoSteps, ReadKeepsInv
<1> QED BY <1>1, <1>5, <1>6

\* The maps of a map from sockets keep their type when an entry is inserted.
LEMMA InsertType ==
  ASSUME NEW S, NEW m \in [Sock -> S], NEW s \in Sock, NEW e \in S
  PROVE  insert(m, s, e) \in [Sock -> S]
BY DEF insert

\* The cpu is assigned to the client.
LEMMA AssignKeepsInv == ASSUME ThreadsInv, AssignCpuToClient PROVE ThreadsInv'
<1> DEFINE x == Head(todo["server"])
           h == x.host
           s == x.arg
           d == DpropOf[h]
           n == Cardinality({y \in Sock : assignedCpus'[d][y] # None})
<1>1. /\ At("server", "assign") /\ Do("server", <<>>) /\ UNCHANGED <<host, tierKeys, owner>>
      /\ assignedCpus' = [assignedCpus EXCEPT ![d] = insert(@, s, h)]
      /\ sock2Dprop' = insert(sock2Dprop, s, d)
      /\ served' = [served EXCEPT ![d] = @ + 1]
      /\ maxAssigned' = [maxAssigned EXCEPT ![d] = IF n > @ THEN n ELSE @]
      /\ conn' = [conn EXCEPT ![s] = "serving"]
  BY DEF AssignCpuToClient
<1>2. "server" \in Thread /\ "assign" \in PlainOps
  BY DEF Thread, PlainOps, Ops, Leaving
<1>3. TypeOK /\ h \in Host /\ s \in Sock /\ d \in Dprop
  <2>1. StepOK(x) /\ x.op = "assign"
    BY <1>1, <1>2, HeadOK
  <2> QED BY <2>1, HostAssumption DEF StepOK, StepShape, ThreadsInv, ThreadsTypeOK
<1>4. n \in Nat
  <2>1. {y \in Sock : assignedCpus'[d][y] # None} \subseteq Sock
    OBVIOUS
  <2> QED BY <2>1, SockAssumption, FS_Subset, FS_CardinalityType
<1> HIDE DEF n, x
<1>5. insert(assignedCpus[d], s, h) \in [Sock -> Host \cup {None}]
  BY <1>3, InsertType DEF TypeOK
<1>6. sock2Dprop' \in [Sock -> Dprop \cup {None}]
  BY <1>1, <1>3, InsertType DEF TypeOK
<1>7. assignedCpus' \in [Dprop -> [Sock -> Host \cup {None}]]
  BY <1>1, <1>3, <1>5 DEF TypeOK
<1>8. /\ served' \in [Dprop -> Nat] /\ maxAssigned' \in [Dprop -> Nat]
      /\ conn' \in [Sock -> {"closed", "refused", "serving"}]
  BY <1>1, <1>3, <1>4 DEF TypeOK
<1>9. TypeOK'
  BY <1>1, <1>3, <1>6, <1>7, <1>8 DEF TypeOK
<1> QED BY <1>1, <1>2, <1>9, NoSteps, PlainKeepsInv

\* A step of the server thread within a handler.
LEMMA ServerStepKeepsInv == ASSUME ThreadsInv, ServerStep PROVE ThreadsInv'
<1>1. "server" \in Thread
  BY DEF Thread
<1> QED BY <1>1, MethodStepKeepsInv, MoveCpusKeepsInv, StoreLdKeepsInv, SetLdKeepsInv,
           StampKeepsInv, IfSilentKeepsInv, IfOverloadedKeepsInv, AssignKeepsInv,
           GiveBackKeepsInv, AddCpuKeepsInv DEF ServerStep

-----------------------------------------------------------------------------
(* The beginnings of handlers and of the search *)

\* Steps without a change of state.
Plain(p) ==
  /\ p \in Seq(StepRec)
  /\ \A s \in StepsOf(p) : StepOK(s) /\ s.op \in PlainOps

\* One step that is no part of a change of state.
LEMMA PlainOne ==
  ASSUME NEW y, StepOK(y), y.op \in PlainOps
  PROVE  Plain(<<y>>)
<1>1. /\ <<y>> \in Seq(StepRec) /\ Len(<<y>>) = 1 /\ <<y>>[1] = y
  BY DEF StepOK, StepShape
<1>2. StepsOf(<<y>>) = {y}
  BY <1>1 DEF StepsOf
<1> QED BY <1>1, <1>2 DEF Plain

\* Such steps, put together.
LEMMA PlainConcat ==
  ASSUME NEW p, NEW q, Plain(p), Plain(q)
  PROVE  Plain(p \o q)
<1>1. p \in Seq(StepRec) /\ q \in Seq(StepRec)
  BY DEF Plain
<1>2. PICK r : r = p \o q
  OBVIOUS
<1>3. /\ Len(p) \in Nat /\ Len(q) \in Nat /\ r \in Seq(StepRec) /\ Len(r) = Len(p) + Len(q)
      /\ \A i \in 1..Len(p) + Len(q) : r[i] = IF i <= Len(p) THEN p[i] ELSE q[i - Len(p)]
  BY <1>1, <1>2, ConcatProperties, LenProperties
<1>4. ASSUME NEW i \in 1..Len(r)
      PROVE  r[i] \in StepsOf(p) \cup StepsOf(q)
  <2>1. CASE i <= Len(p)
    BY <1>3, <2>1 DEF StepsOf
  <2>2. CASE ~(i <= Len(p))
    <3>1. i - Len(p) \in 1..Len(q)
      BY <1>3, <2>2
    <3> QED BY <1>3, <2>2, <3>1 DEF StepsOf
  <2> QED BY <2>1, <2>2
<1>5. Plain(r)
  BY <1>3, <1>4 DEF Plain, StepsOf
<1> QED BY <1>2, <1>5

\* A handler may begin with such steps.
LEMMA PlainBegins ==
  ASSUME NEW p, Plain(p)
  PROVE  p \in Seq(StepRec) /\ AddsLater(p) /\ \A s \in StepsOf(p) : StepOK(s)
<1>1. \A i \in 1..Len(p) : p[i].op \notin Leaving
  BY DEF Plain, StepsOf, PlainOps
<1> QED BY <1>1 DEF Plain, AddsLater

\* A handler that changes nothing at once.
LEMMA HandlerKeepsInv ==
  ASSUME ThreadsInv, NEW p, Plain(p), Begin("server", p), UNCHANGED <<vars, owner>>
  PROVE  ThreadsInv'
<1>1. TypeOK' /\ host' = host
  BY DEF ThreadsInv, ThreadsTypeOK, TypeOK, vars
<1>2. "server" \in Thread
  BY DEF Thread
<1> QED BY <1>1, <1>2, PlainBegins, BeginKeepsInv

\* A load average of a known host.
LEMMA LdAvgMsgKeepsInv ==
  ASSUME ThreadsInv, NEW h \in Host, NEW ld \in Load, LdAvgMsg(h, ld) PROVE ThreadsInv'
<1> DEFINE u == updateTierSteps(h, ld)
           i == Step("ifSilent", h, None)
<1>1. h \in allHosts /\ Begin("server", u \o <<i>>) /\ UNCHANGED <<vars, owner>>
  BY DEF LdAvgMsg
<1>2. host[h].state # "none"
  BY <1>1 DEF allHosts
<1>3. ASSUME NEW y \in {Step("event", h, "overloaded"), Step("moveCpus", h, ld),
                        Step("storeLd", h, ld), Step("setLd", h, ld),
                        Step("stamp", h, None), Step("ifSilent", h, None)}
      PROVE  StepOK(y) /\ y.op \in PlainOps
  BY <1>2 DEF Step, StepOK, StepShape, StepRec, Ops, PlainOps, Leaving, Events
<1>4. /\ Plain(<<Step("event", h, "overloaded")>>) /\ Plain(<<Step("moveCpus", h, ld)>>)
      /\ Plain(<<Step("storeLd", h, ld)>>) /\ Plain(<<Step("setLd", h, ld)>>)
      /\ Plain(<<Step("stamp", h, None)>>) /\ Plain(<<i>>)
  BY <1>3, PlainOne
<1>5. Plain(<<Step("storeLd", h, ld), Step("setLd", h, ld), Step("stamp", h, None)>>)
  <2>1. PICK a, b, c : /\ a = Step("storeLd", h, ld) /\ b = Step("setLd", h, ld)
                       /\ c = Step("stamp", h, None)
    OBVIOUS
  <2>2. StepOK(a) /\ a.op \in PlainOps /\ StepOK(b) /\ b.op \in PlainOps
        /\ StepOK(c) /\ c.op \in PlainOps
    BY <1>3, <2>1
  <2>3. PICK r : r = <<a, b, c>>
    OBVIOUS
  <2>4. r \in Seq(StepRec) /\ Len(r) = 3 /\ r[1] = a /\ r[2] = b /\ r[3] = c
    BY <2>2, <2>3 DEF StepOK, StepShape
  <2>5. Plain(r)
    BY <2>2, <2>4 DEF Plain, StepsOf
  <2> QED BY <2>1, <2>3, <2>5
<1>6. Plain(<<>>)
  BY DEF Plain, StepsOf
<1>7. Plain(u)
  <2>1. PICK p, r : /\ u = p \o r
                    /\ p \in {<<>>, <<Step("event", h, "overloaded")>>,
                              <<Step("moveCpus", h, ld)>>}
                    /\ r = <<Step("storeLd", h, ld), Step("setLd", h, ld),
                             Step("stamp", h, None)>>
    BY Zenon DEF updateTierSteps
  <2> QED BY <1>4, <1>5, <1>6, <2>1, PlainConcat
<1> HIDE DEF u, i
<1>8. Plain(u \o <<i>>)
  BY <1>4, <1>7, PlainConcat
<1> QED BY <1>1, <1>8, HandlerKeepsInv

\* A status message of a known host.
LEMMA StatusMsgKeepsInv ==
  ASSUME ThreadsInv, NEW h \in Host, NEW up \in BOOLEAN, StatusMsg(h, up) PROVE ThreadsInv'
<1> DEFINE y == Step("event", h, IF up THEN "avail" ELSE "unavail")
<1>1. h \in allHosts /\ Begin("server", <<y>>) /\ UNCHANGED <<vars, owner>>
  BY DEF StatusMsg
<1>2. StepOK(y) /\ y.op \in PlainOps
  BY <1>1 DEF allHosts, Step, StepOK, StepShape, StepRec, Ops, PlainOps, Leaving, Events
<1> HIDE DEF y
<1>3. Plain(<<y>>)
  BY <1>2, PlainOne
<1> QED BY <1>1, <1>3, HandlerKeepsInv

\* A cpu is taken out of its tier.
LEMMA GetBestAvailCpuKeepsInv ==
  ASSUME ThreadsInv, NEW s \in Sock, NEW d \in Dprop, GetBestAvailCpu(s, d)
  PROVE  ThreadsInv'
<1>1. PICK c \in BestCpus(d) :
        /\ host' = [host EXCEPT ![c[1]].cpus[c[2]] = @ - 1]
        /\ Begin("server", <<Step("assign", c[1], s)>>)
  BY DEF GetBestAvailCpu
<1>2. UNCHANGED <<tierKeys, clientVars, owner>>
  BY DEF GetBestAvailCpu
<1>3. PICK h \in Host, t \in Tier : h = c[1] /\ t = c[2] /\ host[h].cpus[t] > 0
  BY <1>1 DEF BestCpus
<1>4. TypeOK /\ host[h] \in HostRec
  BY DEF ThreadsInv, ThreadsTypeOK, TypeOK
<1>5. PICK r : r = [host[h] EXCEPT !.cpus[t] = @ - 1]
  OBVIOUS
<1>6. r \in HostRec /\ r.state = host[h].state /\ r.sets = host[h].sets
  <2>1. host[h].cpus \in [Tier -> Nat] /\ host[h].cpus[t] - 1 \in Nat
    BY <1>3, <1>4 DEF HostRec
  <2>2. [host[h].cpus EXCEPT ![t] = host[h].cpus[t] - 1] \in [Tier -> Nat]
    BY <2>1
  <2>3. r = [host[h] EXCEPT !.cpus = [host[h].cpus EXCEPT ![t] = host[h].cpus[t] - 1]]
    BY <1>5
  <2> QED BY <1>4, <2>2, <2>3 DEF HostRec
<1>7. host' = [host EXCEPT ![h] = r]
  BY <1>1, <1>3, <1>5
<1>8. TypeOK' /\ host'[h] = r /\ \A k \in Host : k # h => host'[k] = host[k]
  BY <1>2, <1>4, <1>6, <1>7, SetHostTypes
<1>9. \A k \in Host : host'[k].state = host[k].state /\ host'[k].sets = host[k].sets
  BY <1>6, <1>8
<1>10. PICK y : y = Step("assign", h, s)
  OBVIOUS
<1>11. StepOK(y) /\ y.op \in PlainOps
  BY <1>10 DEF Step, StepOK, StepShape, OfKnown, StepRec, Ops, PlainOps, Leaving
<1>12. Plain(<<y>>) /\ Begin("server", <<y>>)
  BY <1>1, <1>3, <1>10, <1>11, PlainOne
<1>13. "server" \in Thread
  BY DEF Thread
<1> QED BY <1>2, <1>8, <1>9, <1>12, <1>13, PlainBegins, BeginKeepsInv

\* A client is gone: the map entries go, the cpu goes back later.
LEMMA ReleaseCpuKeepsInv ==
  ASSUME ThreadsInv, NEW s \in Sock, ReleaseCpu(s) PROVE ThreadsInv'
<1> DEFINE d == sock2Dprop[s]
           lent == d # None /\ assignedCpus[d][s] # None
           y == Step("giveBack", assignedCpus[d][s], None)
           p == IF lent THEN <<y>> ELSE <<>>
<1>1. /\ sock2Dprop' = [sock2Dprop EXCEPT ![s] = None]
      /\ assignedCpus' = IF lent THEN [assignedCpus EXCEPT ![d][s] = None] ELSE assignedCpus
      /\ Begin("server", p)
      /\ conn' = [conn EXCEPT ![s] = "closed"]
      /\ UNCHANGED <<host, tierKeys, served, maxAssigned, owner>>
  BY DEF ReleaseCpu
<1>2. TypeOK
  BY DEF ThreadsInv, ThreadsTypeOK
<1>3. lent => d \in Dprop /\ assignedCpus[d][s] \in Host
  BY <1>2 DEF TypeOK
<1>4. Plain(<<>>)
  BY DEF Plain, StepsOf
<1>5. ASSUME lent
      PROVE  StepOK(y) /\ y.op \in PlainOps
  BY <1>3, <1>5 DEF Step, StepOK, StepShape, OfKnown, StepRec, Ops, PlainOps, Leaving
<1>6. assignedCpus' \in [Dprop -> [Sock -> Host \cup {None}]]
  <2>1. CASE lent
    <3>1. [assignedCpus[d] EXCEPT ![s] = None] \in [Sock -> Host \cup {None}]
      BY <1>2, <1>3, <2>1 DEF TypeOK
    <3>2. assignedCpus' = [assignedCpus EXCEPT ![d] = [assignedCpus[d] EXCEPT ![s] = None]]
      BY <1>1, <2>1
    <3> QED BY <1>2, <1>3, <2>1, <3>1, <3>2 DEF TypeOK
  <2> QED BY <1>1, <1>2, <2>1 DEF TypeOK
<1> HIDE DEF y, lent
<1>7. Plain(p)
  BY <1>4, <1>5, PlainOne
<1>8. TypeOK' /\ host' = host
  BY <1>1, <1>2, <1>6 DEF TypeOK
<1>9. "server" \in Thread
  BY DEF Thread
<1> HIDE DEF p
<1> QED BY <1>1, <1>7, <1>8, <1>9, PlainBegins, BeginKeepsInv

\* The hosts are put in some order.
LEMMA HostsInOrder ==
  ASSUME NEW S, IsFiniteSet(S), NEW hs, hs = SetToSeq(S)
  PROVE  Cardinality(S) \in Nat /\ hs \in [1..Cardinality(S) -> S]
<1>1. /\ Cardinality(S) \in Nat /\ ExistsBijection(1..Cardinality(S), S)
  BY FS_CardinalityType
<1>2. \E f \in [1..Cardinality(S) -> S] : IsInjective(f)
  BY <1>1 DEF ExistsBijection, Bijection, Injection
<1>3. hs = CHOOSE f \in [1..Cardinality(S) -> S] : IsInjective(f)
  BY DEF SetToSeq
<1>4. hs \in [1..Cardinality(S) -> S]
  BY <1>2, <1>3, Zenon
<1> QED BY <1>1, <1>4

\* A search begins with the mutex and ends with its release.
LEMMA HandleSilentHostsKeepsInv ==
  ASSUME ThreadsInv, HandleSilentHosts PROVE ThreadsInv'
<1> DEFINE hs == SetToSeq(allHosts)
           n == Cardinality(allHosts)
           q == [i \in DOMAIN hs |-> Step("seemsDown", hs[i], None)]
           u == Step("unlock", None, None)
<1>1. Begin("silent", q \o <<u>>) /\ owner' = "silent" /\ UNCHANGED vars
  BY DEF HandleSilentHosts
<1>2. n \in Nat /\ hs \in [1..n -> allHosts]
  BY HostsInOrder DEF ThreadsInv
<1>3. ASSUME NEW h \in allHosts
      PROVE  StepOK(Step("seemsDown", h, None)) /\ Step("seemsDown", h, None).op = "seemsDown"
  BY <1>3 DEF allHosts, Step, StepOK, StepShape, StepRec, Ops
<1>4. StepOK(u) /\ u.op = "unlock"
  BY DEF Step, StepOK, StepShape, OfKnown, StepRec, Ops
<1> HIDE DEF u, hs, n
<1>5. \A i \in 1..n : q[i] = Step("seemsDown", hs[i], None) /\ hs[i] \in allHosts
  BY <1>2
<1>6. \A i \in 1..n : StepOK(q[i]) /\ q[i].op = "seemsDown" /\ q[i] \in StepRec
  BY <1>3, <1>5 DEF StepOK, StepShape
<1>7. q = [i \in 1..n |-> q[i]]
  BY <1>2
<1> HIDE DEF q
<1>8. q \in Seq(StepRec) /\ Len(q) = n
  BY <1>2, <1>6, <1>7
<1>9. PICK r : r = q \o <<u>>
  OBVIOUS
<1>10. PICK o : o = <<u>>
  OBVIOUS
<1>11. o \in Seq(StepRec) /\ Len(o) = 1 /\ o[1] = u
  BY <1>4, <1>10 DEF StepOK, StepShape
<1>12. /\ r \in Seq(StepRec) /\ Len(r) = n + 1
       /\ \A i \in 1..n + 1 : r[i] = IF i <= n THEN q[i] ELSE o[i - n]
  BY <1>8, <1>9, <1>10, <1>11, ConcatProperties
<1>13. r[n + 1] = u /\ \A i \in 1..n : r[i] = q[i]
  <2>1. n + 1 \in 1..n + 1 /\ ~(n + 1 <= n) /\ (n + 1) - n = 1
    BY <1>2
  <2>2. \A i \in 1..n : i \in 1..n + 1 /\ i <= n
    BY <1>2
  <2> QED BY <1>11, <1>12, <2>1, <2>2
<1>14. ASSUME NEW i \in 1..Len(r)
       PROVE  /\ StepOK(r[i]) /\ r[i].op \notin Leaving
              /\ r[i].op = "unlock" <=> i = Len(r)
  <2>1. i = Len(r) \/ i \in 1..n
    BY <1>2, <1>12
  <2>2. i \in 1..n => i # Len(r)
    BY <1>2, <1>12
  <2> QED BY <1>4, <1>6, <1>12, <1>13, <2>1, <2>2 DEF Leaving
<1>15. /\ AddsLater(r) /\ UnlockLast(r) /\ \A s \in StepsOf(r) : StepOK(s)
  BY <1>14 DEF AddsLater, UnlockLast, StepsOf
<1>16. r # <<>>
  <2>1. Len(r) # 0
    BY <1>2, <1>12
  <2> QED BY <2>1, EmptySeq
<1>17. TypeOK' /\ host' = host /\ "silent" \in Thread
  BY <1>1 DEF ThreadsInv, ThreadsTypeOK, TypeOK, vars, Thread
<1> QED BY <1>1, <1>9, <1>12, <1>15, <1>16, <1>17, BeginKeepsInv

\* The end of a search.
LEMMA UnlockKeepsInv == ASSUME ThreadsInv, Unlock PROVE ThreadsInv'
<1> DEFINE q == todo["silent"]
<1>1. At("silent", "unlock") /\ Do("silent", <<>>) /\ owner' = None /\ UNCHANGED vars
  BY DEF Unlock
<1>2. "silent" \in Thread
  BY DEF Thread
<1>3. q # <<>> /\ q \in Seq(StepRec) /\ Head(q).op = "unlock"
  BY <1>1, <1>2, HeadOK
<1>4. Len(q) \in Nat \ {0} /\ Head(q) = q[1] /\ Tail(q) \in Seq(StepRec)
      /\ Len(Tail(q)) = Len(q) - 1
  BY <1>3, EmptySeq, HeadTailProperties
<1>5. Len(q) = 1
  <2>1. 1 \in 1..Len(q)
    BY <1>4
  <2> QED BY <1>3, <1>4, <2>1 DEF ThreadsInv, UnlockLast
<1>6. Tail(q) = <<>>
  <2>1. Len(Tail(q)) = 0
    BY <1>4, <1>5
  <2> QED BY <1>4, <2>1, EmptySeq
<1>7. /\ todo \in [Thread -> Seq(StepRec)] /\ todo' = [todo EXCEPT !["silent"] = <<>>]
  <2>1. <<>> \o Tail(q) = <<>>
    BY <1>4, <1>6, ConcatEmptySeq
  <2> QED BY <1>1, <2>1, Zenon DEF Do, ThreadsInv, ThreadsTypeOK
<1>8. StepsOf(<<>>) = {} /\ AddsLater(<<>>) /\ UnlockLast(<<>>)
  BY DEF StepsOf, AddsLater, UnlockLast
<1>9. /\ todo' \in [Thread -> Seq(StepRec)] /\ todo'["silent"] = <<>>
      /\ \A t \in Thread : t # "silent" => todo'[t] = todo[t]
  BY <1>2, <1>7
<1>10. StepsOf(q) = {Head(q)}
  BY <1>4, <1>5 DEF StepsOf
<1>11. ThreadsTypeOK'
  BY <1>1, <1>9 DEF ThreadsInv, ThreadsTypeOK, TypeOK, vars, Idle
<1>12. StepsOK'
  BY <1>1, <1>8, <1>9 DEF ThreadsInv, StepsOK, StepOK, StepShape, OfKnown, vars
<1>13. (\A t \in Thread : AddsLater(todo'[t])) /\ UnlockLast(todo'["silent"])
  BY <1>8, <1>9 DEF ThreadsInv
<1>14. ASSUME NEW h \in Host, Pending(h)
       PROVE  Pending(h)'
  <2>1. PICK t \in Thread : \E s \in StepsOf(todo[t]) : Adds(s, h)
    BY <1>14 DEF Pending
  <2>2. PICK s \in StepsOf(todo[t]) : Adds(s, h)
    BY <2>1
  <2>3. t # "silent"
    BY <1>3, <1>10, <2>2 DEF Adds
  <2> QED BY <1>1, <1>9, <2>2, <2>3 DEF Pending, Adds, vars
<1>15. \A h \in allHosts' : host'[h].state \in host'[h].sets \/ Pending(h)'
  BY <1>1, <1>14 DEF ThreadsInv, allHosts, vars
<1>16. IsFiniteSet(allHosts')
  BY <1>1 DEF ThreadsInv, allHosts, vars
<1> QED BY <1>11, <1>12, <1>13, <1>15, <1>16 DEF ThreadsInv

\* The host is created in one step: it is available and in that sub-set.
LEMMA NewHostMsgKeepsInv ==
  ASSUME ThreadsInv, NEW h \in Host, NewHostMsg(h) PROVE ThreadsInv'
<1>1. /\ h \in Listed \ allHosts /\ SetView(h, createHost(h, View(h)))
      /\ UNCHANGED <<assignedCpus, sock2Dprop, served, maxAssigned, conn>>
      /\ UNCHANGED <<todo, owner>>
  BY DEF NewHostMsg, LdAvgNew
<1>2. PICK w : w = [View(h) EXCEPT !.r.state = "available"]
  OBVIOUS
<1>3. PICK u : u = addToHostSet(w, "available")
  OBVIOUS
<1>4. PICK v : v = addCpusToTier(u, getTier(h, w), NCpus[h])
  OBVIOUS
<1>5. createHost(h, View(h)) = v
  BY <1>1, <1>2, <1>3, <1>4 DEF createHost, addToAvailDb
<1>6. TypeOK
  BY DEF ThreadsInv, ThreadsTypeOK
<1>7. w \in ViewSet /\ w.r.state = "available"
  <2>1. View(h) \in ViewSet /\ View(h).r \in HostRec
    BY <1>6, ViewFields DEF ViewSet
  <2>2. w.r = [View(h).r EXCEPT !.state = "available"] /\ w.keys = View(h).keys
        /\ w = [View(h) EXCEPT !.r = w.r]
    BY <1>2, <2>1 DEF ViewSet
  <2>3. w.r \in HostRec /\ w.r.state = "available"
    BY <2>1, <2>2 DEF HostRec, State
  <2> QED BY <2>1, <2>2, <2>3 DEF ViewSet
<1>8. u \in ViewSet /\ u.r.state = "available" /\ "available" \in u.r.sets
  BY <1>3, <1>7, AddToSet DEF State
<1>9. v \in ViewSet /\ v.r.state = "available" /\ "available" \in v.r.sets
  <2>1. getTier(h, w) \in Tier /\ NCpus[h] \in Nat
    BY <1>7, ViewTier, HostAssumption
  <2> QED BY <1>4, <1>8, <2>1, AddCpus
<1>10. TypeOK' /\ host'[h] = v.r /\ \A k \in Host : k # h => host'[k] = host[k]
  BY <1>1, <1>5, <1>6, <1>9, SetViewTypes DEF clientVars
<1>11. \A k \in Host : \/ host'[k].state = host[k].state /\ host'[k].sets = host[k].sets
                       \/ host[k].state = "none" /\ host'[k].state \in host'[k].sets
  BY <1>1, <1>9, <1>10 DEF allHosts
<1>12. IsFiniteSet(allHosts')
  <2>1. allHosts' = allHosts \cup {h}
    BY <1>9, <1>10 DEF allHosts
  <2> QED BY <2>1, FS_AddElement DEF ThreadsInv
<1> QED BY <1>1, <1>10, <1>11, <1>12, AloneKeepsInv

\* A step that changes neither a state nor a sub-set, and is no part of a handler.
LEMMA OtherKeepsInv ==
  ASSUME ThreadsInv, TypeOK', UNCHANGED <<todo, owner>>,
         \A h \in Host : host'[h].state = host[h].state /\ host'[h].sets = host[h].sets
  PROVE  ThreadsInv'
<1>1. IsFiniteSet(allHosts')
  BY DEF ThreadsInv, allHosts
<1> QED BY <1>1, AloneKeepsInv

\* The refusal of a request.
LEMMA NoCpuKeepsInv ==
  ASSUME ThreadsInv, NEW s \in Sock, NEW d \in Dprop, NoCpu(s, d) PROVE ThreadsInv'
<1>1. /\ conn' = [conn EXCEPT ![s] = "refused"] /\ UNCHANGED <<todo, owner>>
      /\ UNCHANGED <<host, tierKeys, assignedCpus, sock2Dprop, served, maxAssigned>>
  BY DEF NoCpu, HostReqRefused
<1>2. TypeOK'
  BY <1>1 DEF ThreadsInv, ThreadsTypeOK, TypeOK
<1> QED BY <1>1, <1>2, OtherKeepsInv

\* The statistics are collected.
LEMMA GetStatsKeepsInv == ASSUME ThreadsInv, GetStatsFromDb PROVE ThreadsInv'
<1>1. /\ served' = [d \in Dprop |-> 0] /\ maxAssigned' = [d \in Dprop |-> 0]
      /\ UNCHANGED <<host, tierKeys, assignedCpus, sock2Dprop, conn>>
      /\ UNCHANGED <<todo, owner>>
  BY DEF GetStatsFromDb, getStatsFromDb
<1>2. TypeOK'
  BY <1>1 DEF ThreadsInv, ThreadsTypeOK, TypeOK
<1> QED BY <1>1, <1>2, OtherKeepsInv

\* Time passes for a host.
LEMMA TimePassesKeepsInv ==
  ASSUME ThreadsInv, NEW h \in Host, TimePasses(h) PROVE ThreadsInv'
<1>1. /\ host' = [host EXCEPT ![h].quiet = TRUE] /\ UNCHANGED <<todo, owner>>
      /\ UNCHANGED <<tierKeys, clientVars>>
  BY DEF TimePasses, Elapse, clientVars
<1>2. TypeOK /\ host[h] \in HostRec
  BY DEF ThreadsInv, ThreadsTypeOK, TypeOK
<1>3. PICK r : r = [host[h] EXCEPT !.quiet = TRUE]
  OBVIOUS
<1>4. r \in HostRec /\ r.state = host[h].state /\ r.sets = host[h].sets
  BY <1>2, <1>3 DEF HostRec
<1>5. host' = [host EXCEPT ![h] = r]
  BY <1>1, <1>3
<1>6. TypeOK' /\ host'[h] = r /\ \A k \in Host : k # h => host'[k] = host[k]
  BY <1>1, <1>2, <1>4, <1>5, SetHostTypes
<1>7. \A k \in Host : host'[k].state = host[k].state /\ host'[k].sets = host[k].sets
  BY <1>4, <1>6
<1> QED BY <1>1, <1>6, <1>7, OtherKeepsInv

-----------------------------------------------------------------------------
(* The theorems *)

\* The invariant holds before the first message.
LEMMA ThreadsInvInit == TInit => ThreadsInv
<1> SUFFICES ASSUME TInit
             PROVE  ThreadsInv
  OBVIOUS
<1>1. TypeOK /\ \A h \in Host : host[h].state = "none"
  BY HostInvInit DEF TInit, HostInv, Init, NoHost
<1>2. /\ todo \in [Thread -> Seq(StepRec)] /\ \A t \in Thread : todo[t] = <<>>
      /\ "silent" \in Thread
  BY DEF TInit, Thread
<1>3. ThreadsTypeOK
  BY <1>1, <1>2 DEF ThreadsTypeOK, Idle, TInit
<1>4. StepsOf(<<>>) = {} /\ AddsLater(<<>>) /\ UnlockLast(<<>>)
  BY DEF StepsOf, AddsLater, UnlockLast
<1>5. allHosts = {}
  BY <1>1 DEF allHosts
<1> QED BY <1>2, <1>3, <1>4, <1>5, FS_EmptySet DEF ThreadsInv, StepsOK

\* Every step of every thread keeps the invariant.
LEMMA ThreadsInvNext == ThreadsInv /\ [TNext]_tvars => ThreadsInv'
<1> SUFFICES ASSUME ThreadsInv, [TNext]_tvars
             PROVE  ThreadsInv'
  OBVIOUS
<1>1. CASE Receive
  BY <1>1, LdAvgMsgKeepsInv, NewHostMsgKeepsInv, StatusMsgKeepsInv, GetBestAvailCpuKeepsInv,
     NoCpuKeepsInv, ReleaseCpuKeepsInv DEF Receive
<1>2. CASE ServerStep
  BY <1>2, ServerStepKeepsInv
<1>3. CASE HandleSilentHosts
  BY <1>3, HandleSilentHostsKeepsInv
<1>4. CASE SilentStep
  <2>1. "silent" \in Thread
    BY DEF Thread
  <2> QED BY <1>4, <2>1, MethodStepKeepsInv, SeemsDownKeepsInv, UnlockKeepsInv DEF SilentStep
<1>5. CASE GetStatsFromDb
  BY <1>5, GetStatsKeepsInv
<1>6. CASE \E h \in Host : TimePasses(h)
  BY <1>6, TimePassesKeepsInv
<1>7. CASE UNCHANGED tvars
  <2>1. TypeOK'
    BY <1>7 DEF ThreadsInv, ThreadsTypeOK, TypeOK, tvars, vars
  <2> QED BY <1>7, <2>1, OtherKeepsInv DEF tvars, vars
<1> QED BY <1>1, <1>2, <1>3, <1>4, <1>5, <1>6, <1>7 DEF TNext

\* Whatever the interleaving of a handler and a search, each host that is known is in
\* the sub-set of its state or about to be added to it, each change of a host's state
\* is followed by that addition, and a search gives the mutex back.
THEOREM ThreadsInvariant == TSpec => []ThreadsInv
BY ThreadsInvInit, ThreadsInvNext, PTL DEF TSpec

\* The variables of the threads keep their types, and the silent thread holds mutex_
\* exactly while it searches (DmucsDb::handleSilentHosts).
THEOREM ThreadsTypesCorrect == TSpec => []ThreadsTypeOK
<1>1. ThreadsInv => ThreadsTypeOK
  BY DEF ThreadsInv
<1> QED BY <1>1, ThreadsInvariant, PTL

\* When no thread is at work each known host can be found in the sub-set of its state
\* (the state objects' addToDb), for any hosts and any interleaving of the unlocked
\* accesses to state_.
THEOREM FoundInItsSetAlways == TSpec => []FoundInItsSet
<1>1. ThreadsInv => FoundInItsSet
  <2> SUFFICES ASSUME ThreadsInv, Quiescent, NEW h \in allHosts
               PROVE  host[h].state \in host[h].sets
    BY DEF FoundInItsSet
  <2>1. StepsOf(<<>>) = {}
    BY DEF StepsOf
  <2>2. \A t \in Thread : todo[t] = <<>>
    BY DEF Quiescent, Idle
  <2>3. ~Pending(h)
    BY <2>1, <2>2 DEF Pending
  <2> QED BY <2>3 DEF ThreadsInv
<1> QED BY <1>1, ThreadsInvariant, PTL

-----------------------------------------------------------------------------
(* Without the search.  The server's thread alone handles one host at a      *)
(* time; for each step that it is about to take, Stage says what the host    *)
(* looks like and what else is left to do.                                   *)

Then(a, q) == <<a>> \o q

TierOf(h) == calcTier(host[h].ld, PIndex[h])

NoCpus(h) == \A t \in Tier : host[h].cpus[t] = 0

\* The host is as it should be for a load of tier t, when d of its cpus are neither in
\* the pool nor with a client.
SettledIn(h, t, d) ==
  /\ host[h].sets = {host[h].state} \ {"none"}
  /\ \A x \in Tier : host[h].cpus[x] > 0 => host[h].state = "available" /\ x = t
  /\ host[h].state = "available" =>
       t \in tierKeys[DpropOf[h]] /\ host[h].cpus[t] + lentCpus(h) + d >= NCpus[h]

Settled(h, d) == SettledIn(h, TierOf(h), d)

Out(h) == host[h].sets = {} /\ NoCpus(h)

\* What is left of a handler after a change of state.
LdEnd(h) == Then(Step("stamp", h, None), Then(Step("ifSilent", h, None), <<>>))
LdRest(h, ld) == Then(Step("storeLd", h, ld), Then(Step("setLd", h, ld), LdEnd(h)))
Rests(h) == {<<>>} \cup {LdRest(h, ld) : ld \in Load}

Adding(h, q) == Then(Step("addToDb", h, None), q)
Setting(h, x, q) == Then(Step("setState", h, x), Adding(h, q))
Removing(h, s, x, q) == Then(Step("removeFromDb", h, s), Setting(h, x, q))

\* Only an overload is followed by the rest of a load average message.
MayBe(x, q) == q # <<>> => x # "available"

Stage(op, h, a, r) ==
  /\ op # "unlock"
  /\ op = "event" =>
       /\ Settled(h, 0)
       /\ r \in Rests(h) /\ (r # <<>> => a = "overloaded")
  /\ op = "delCpus" =>
       /\ host[h].state = "available" /\ Settled(h, 0)
       /\ \E x \in State \ {"available"}, q \in Rests(h) : r = Removing(h, "available", x, q)
  /\ op = "removeFromDb" =>
       /\ a = host[h].state /\ host[h].sets = {a} /\ NoCpus(h)
       /\ a = "available" => TierOf(h) \in tierKeys[DpropOf[h]]
       /\ \E x \in State, q \in Rests(h) : MayBe(x, q) /\ r = Setting(h, x, q)
  /\ op = "setState" => Out(h) /\ \E q \in Rests(h) : MayBe(a, q) /\ r = Adding(h, q)
  /\ op = "addToDb" => Out(h) /\ r \in Rests(h) /\ MayBe(host[h].state, r)
  /\ op = "addTo" =>
       Out(h) /\ r \in Rests(h) /\ MayBe(host[h].state, r) /\ a = host[h].state
  /\ op = "moveCpus" =>
       /\ Settled(h, 0) /\ calcTier(a, PIndex[h]) # TierOf(h)
       /\ r = LdRest(h, a)
  /\ op = "storeLd" =>
       SettledIn(h, calcTier(a, PIndex[h]), 0) /\ r = Then(Step("setLd", h, a), LdEnd(h))
  /\ op = "setLd" => SettledIn(h, calcTier(a, PIndex[h]), 0) /\ r = LdEnd(h)
  /\ op = "stamp" =>
       Settled(h, 0) /\ r = Then(Step("ifSilent", h, None), <<>>)
  /\ op \in {"ifSilent", "ifOverloaded"} => Settled(h, 0) /\ r = <<>>
  /\ op = "assign" => Settled(h, 1) /\ r = <<>> /\ conn[a] # "serving"
  /\ op \in {"giveBack", "addCpu"} => Settled(h, 1) /\ r = <<>>
  /\ op = "addCpu" => host[h].state = "available"

\* A client that is not served has no entry in sock2DpropDb_, and an entry of a client
\* in assignedCpus_ is in that of the dprop that sock2DpropDb_ gives for it.
EntryOfServed ==
  \A s \in Sock : /\ conn[s] # "serving" => sock2Dprop[s] = None
                  /\ \A d \in Dprop : assignedCpus[d][s] # None => sock2Dprop[s] = d

OthersSettled(h) == \A k \in Host \ {h} : Settled(k, 0)

AtStage(q) ==
  IF q = <<>> THEN \A h \in Host : Settled(h, 0)
  ELSE /\ Stage(Head(q).op, Head(q).host, Head(q).arg, Tail(q))
       /\ OthersSettled(Head(q).host)

AloneInv == todo["silent"] = <<>> /\ EntryOfServed /\ AtStage(todo["server"])

-----------------------------------------------------------------------------
(* What is left of a handler, as a sequence *)

\* The first of the steps and the rest of them.
LEMMA ThenParts ==
  ASSUME NEW a \in StepRec, NEW q \in Seq(StepRec)
  PROVE  /\ Then(a, q) \in Seq(StepRec) /\ Then(a, q) # <<>>
         /\ Head(Then(a, q)) = a /\ Tail(Then(a, q)) = q
<1>1. PICK r : r = Then(a, q)
  OBVIOUS
<1>2. PICK o : o = <<a>>
  OBVIOUS
<1>3. o \in Seq(StepRec) /\ Len(o) = 1 /\ o[1] = a /\ Len(q) \in Nat
  BY <1>2
<1>4. /\ r \in Seq(StepRec) /\ Len(r) = 1 + Len(q)
      /\ \A i \in 1..1 + Len(q) : r[i] = IF i <= 1 THEN o[i] ELSE q[i - 1]
  BY <1>1, <1>2, <1>3, ConcatProperties DEF Then
<1>5. r # <<>> /\ r[1] = a
  BY <1>3, <1>4
<1>6. /\ Tail(r) \in Seq(StepRec) /\ Len(Tail(r)) = Len(r) - 1 /\ Head(r) = r[1]
      /\ \A i \in 1..Len(Tail(r)) : Tail(r)[i] = r[i + 1]
  BY <1>4, <1>5, HeadTailProperties
<1>7. Len(Tail(r)) = Len(q)
  BY <1>3, <1>4, <1>6
<1>8. ASSUME NEW i \in 1..Len(q)
      PROVE  Tail(r)[i] = q[i]
  <2>1. i + 1 \in 1..1 + Len(q) /\ ~(i + 1 <= 1) /\ (i + 1) - 1 = i
    BY <1>3
  <2>2. r[i + 1] = q[i]
    BY <1>4, <2>1
  <2> QED BY <1>6, <1>7, <2>2
<1>9. Tail(r) = q
  BY <1>6, <1>7, <1>8, SeqEqual
<1> QED BY <1>1, <1>4, <1>5, <1>6, <1>9

\* The steps of the handlers, for a host.
LEMMA StepTyped ==
  ASSUME NEW op \in Ops, NEW h \in Host,
         NEW a \in State \cup Events \cup Load \cup Sock \cup {None}
  PROVE  /\ Step(op, h, a) \in StepRec
         /\ Step(op, h, a).op = op /\ Step(op, h, a).host = h /\ Step(op, h, a).arg = a
BY DEF Step, StepRec

\* Nothing is left.
LEMMA EmptyTyped == <<>> \in Seq(StepRec)
OBVIOUS

\* The types of what is left of a load average message.
LEMMA LdRestTyped ==
  ASSUME NEW h \in Host
  PROVE  /\ LdEnd(h) \in Seq(StepRec)
         /\ \A ld \in Load : /\ Then(Step("setLd", h, ld), LdEnd(h)) \in Seq(StepRec)
                             /\ LdRest(h, ld) \in Seq(StepRec) /\ LdRest(h, ld) # <<>>
<1>1. /\ "stamp" \in Ops /\ "ifSilent" \in Ops /\ "setLd" \in Ops /\ "storeLd" \in Ops
  BY DEF Ops
<1>2. Then(Step("ifSilent", h, None), <<>>) \in Seq(StepRec)
  BY <1>1, EmptyTyped, StepTyped, ThenParts
<1>3. LdEnd(h) \in Seq(StepRec)
  BY <1>1, <1>2, StepTyped, ThenParts DEF LdEnd
<1>4. ASSUME NEW ld \in Load
      PROVE  /\ Then(Step("setLd", h, ld), LdEnd(h)) \in Seq(StepRec)
             /\ LdRest(h, ld) \in Seq(StepRec) /\ LdRest(h, ld) # <<>>
  <2>1. Step("setLd", h, ld) \in StepRec /\ Step("storeLd", h, ld) \in StepRec
    BY <1>1, StepTyped
  <2>2. Then(Step("setLd", h, ld), LdEnd(h)) \in Seq(StepRec)
    BY <1>3, <2>1, ThenParts
  <2> QED BY <2>1, <2>2, ThenParts DEF LdRest
<1> QED BY <1>3, <1>4

\* The types of what is left after a method.
LEMMA RestsTyped ==
  ASSUME NEW h \in Host, NEW q \in Rests(h)
  PROVE  q \in Seq(StepRec)
BY EmptyTyped, LdRestTyped DEF Rests

\* The types of what is left of a change of state.
LEMMA MethodTyped ==
  ASSUME NEW h \in Host, NEW q \in Seq(StepRec), NEW s \in State, NEW x \in State
  PROVE  /\ Adding(h, q) \in Seq(StepRec) /\ Setting(h, x, q) \in Seq(StepRec)
         /\ Removing(h, s, x, q) \in Seq(StepRec)
         /\ Step("addToDb", h, None) \in StepRec /\ Step("setState", h, x) \in StepRec
         /\ Step("removeFromDb", h, s) \in StepRec
<1>1. "addToDb" \in Ops /\ "setState" \in Ops /\ "removeFromDb" \in Ops
  BY DEF Ops
<1>2. /\ Step("addToDb", h, None) \in StepRec /\ Step("setState", h, x) \in StepRec
      /\ Step("removeFromDb", h, s) \in StepRec
  BY <1>1, StepTyped
<1>3. Adding(h, q) \in Seq(StepRec)
  BY <1>2, ThenParts DEF Adding
<1>4. Setting(h, x, q) \in Seq(StepRec)
  BY <1>2, <1>3, ThenParts DEF Setting
<1> QED BY <1>2, <1>3, <1>4, ThenParts DEF Removing

\* Three steps before others, one by one.
LEMMA ThreeThen ==
  ASSUME NEW a \in StepRec, NEW b \in StepRec, NEW c \in StepRec, NEW q \in Seq(StepRec)
  PROVE  <<a, b, c>> \o q = Then(a, Then(b, Then(c, q)))
<1>1. PICK x, y, z : x = <<a>> /\ y = <<b>> /\ z = <<c>>
  OBVIOUS
<1>2. /\ x \in Seq(StepRec) /\ Len(x) = 1 /\ x[1] = a
      /\ y \in Seq(StepRec) /\ Len(y) = 1 /\ y[1] = b
      /\ z \in Seq(StepRec) /\ Len(z) = 1 /\ z[1] = c
  BY <1>1
<1>3. PICK v : v = y \o z
  OBVIOUS
<1>4. v \in Seq(StepRec) /\ Len(v) = 2 /\ \A i \in 1..2 : v[i] = IF i <= 1 THEN y[i] ELSE z[i - 1]
  <2>1. y \in Seq(StepRec) /\ z \in Seq(StepRec)
    BY <1>2
  <2>2. /\ v \in Seq(StepRec) /\ Len(v) = Len(y) + Len(z)
        /\ \A i \in 1..Len(y) + Len(z) : v[i] = IF i <= Len(y) THEN y[i] ELSE z[i - Len(y)]
    BY <1>3, <2>1, ConcatProperties
  <2>3. Len(y) = 1 /\ Len(z) = 1
    BY <1>2
  <2> QED BY <2>2, <2>3
<1>5. PICK w : w = x \o v
  OBVIOUS
<1>6. w \in Seq(StepRec) /\ Len(w) = 3 /\ \A i \in 1..3 : w[i] = IF i <= 1 THEN x[i] ELSE v[i - 1]
  <2>1. /\ w \in Seq(StepRec) /\ Len(w) = Len(x) + Len(v)
        /\ \A i \in 1..Len(x) + Len(v) : w[i] = IF i <= Len(x) THEN x[i] ELSE v[i - Len(x)]
    <3>1. x \in Seq(StepRec) /\ v \in Seq(StepRec)
      BY <1>2, <1>4
    <3> QED BY <1>5, <3>1, ConcatProperties
  <2>2. Len(x) = 1 /\ Len(v) = 2
    BY <1>2, <1>4
  <2> QED BY <2>1, <2>2
<1>7. w[1] = a /\ w[2] = b /\ w[3] = c
  BY <1>2, <1>4, <1>6
<1>8. PICK s : s = <<a, b, c>>
  OBVIOUS
<1>9. s \in Seq(StepRec) /\ Len(s) = 3 /\ s[1] = a /\ s[2] = b /\ s[3] = c
  BY <1>8
<1>10. \A i \in 1..3 : s[i] = w[i]
  BY <1>7, <1>9
<1>11. s = w
  BY <1>6, <1>9, <1>10, SeqEqual
<1>12. w \o q = x \o (v \o q)
  <2>1. x \in Seq(StepRec) /\ v \in Seq(StepRec)
    BY <1>2, <1>4
  <2> QED BY <1>5, <2>1, ConcatAssociative
<1>13. v \o q = y \o (z \o q)
  <2>1. y \in Seq(StepRec) /\ z \in Seq(StepRec)
    BY <1>2
  <2> QED BY <1>3, <2>1, ConcatAssociative
<1> QED BY <1>1, <1>8, <1>11, <1>12, <1>13 DEF Then

\* The steps of a change of state, before others.
LEMMA StateStepsThen ==
  ASSUME NEW h \in Host, NEW old \in State, NEW new \in State, NEW q \in Seq(StepRec)
  PROVE  stateSteps(h, old, new) \o q =
           IF old = "available" THEN Then(Step("delCpus", h, None), Removing(h, old, new, q))
                                ELSE Removing(h, old, new, q)
<1>1. PICK a, b, c, d : /\ a = Step("delCpus", h, None) /\ b = Step("removeFromDb", h, old)
                        /\ c = Step("setState", h, new) /\ d = Step("addToDb", h, None)
  OBVIOUS
<1>2. "delCpus" \in Ops
  BY DEF Ops
<1>3. a \in StepRec /\ b \in StepRec /\ c \in StepRec /\ d \in StepRec
  BY <1>1, <1>2, MethodTyped, StepTyped
<1>4. PICK s : s = <<b, c, d>>
  OBVIOUS
<1>5. s \o q = Removing(h, old, new, q)
  BY <1>1, <1>3, <1>4, ThreeThen DEF Removing, Setting, Adding
<1>6. stateSteps(h, old, new) = (IF old = "available" THEN <<a>> ELSE <<>>) \o s
  BY <1>1, <1>4 DEF stateSteps
<1>7. s \in Seq(StepRec) /\ <<a>> \in Seq(StepRec)
  BY <1>3, <1>4
<1>8. CASE old = "available"
  <2>1. stateSteps(h, old, new) \o q = <<a>> \o (s \o q)
    BY <1>6, <1>7, <1>8, ConcatAssociative
  <2> QED BY <1>1, <1>5, <1>8, <2>1 DEF Then
<1>9. CASE old # "available"
  <2>1. stateSteps(h, old, new) = s
    BY <1>6, <1>7, <1>9, ConcatEmptySeq
  <2> QED BY <1>5, <1>9, <2>1
<1> QED BY <1>8, <1>9

-----------------------------------------------------------------------------
(* The frame of a step *)

\* The number of cpus that are lent.
LEMMA LentNat ==
  ASSUME NEW h
  PROVE  lentCpus(h) \in Nat
<1>1. {s \in Sock : assignedCpus[DpropOf[h]][s] = h} \subseteq Sock
  OBVIOUS
<1> QED BY <1>1, SockAssumption, FS_Subset, FS_CardinalityType DEF lentCpus

\* A host that is left alone stays settled.
LEMMA SettledKept ==
  ASSUME NEW h, NEW t, NEW d, SettledIn(h, t, d),
         host'[h].sets = host[h].sets, host'[h].state = host[h].state,
         host'[h].cpus = host[h].cpus,
         tierKeys[DpropOf[h]] \subseteq tierKeys'[DpropOf[h]],
         lentCpus(h)' = lentCpus(h)
  PROVE  SettledIn(h, t, d)'
BY DEF SettledIn

\* Hosts that a step leaves alone stay settled.
LEMMA OthersKept ==
  ASSUME NEW h \in Host, OthersSettled(h),
         \A k \in Host : k # h => host'[k] = host[k] /\ lentCpus(k)' = lentCpus(k),
         \A e \in Dprop : tierKeys[e] \subseteq tierKeys'[e]
  PROVE  OthersSettled(h)'
<1> SUFFICES ASSUME NEW k \in Host \ {h}
             PROVE  Settled(k, 0)'
  BY DEF OthersSettled
<1>1. SettledIn(k, TierOf(k), 0) /\ host'[k] = host[k] /\ DpropOf[k] \in Dprop
      /\ lentCpus(k)' = lentCpus(k)
  BY HostAssumption DEF OthersSettled, Settled
<1>2. PICK t : t = TierOf(k) /\ t = TierOf(k)'
  BY <1>1 DEF TierOf
<1>3. SettledIn(k, t, 0)'
  BY <1>1, <1>2, SettledKept
<1> QED BY <1>2, <1>3 DEF Settled

\* A step that stores a new view of one host.
LEMMA ViewStored ==
  ASSUME TypeOK, EntryOfServed, NEW h \in Host, NEW v \in ViewSet, SetView(h, v),
         UNCHANGED clientVars, tierKeys[DpropOf[h]] \subseteq v.keys, OthersSettled(h)
  PROVE  /\ TypeOK' /\ host'[h] = v.r /\ tierKeys'[DpropOf[h]] = v.keys
         /\ EntryOfServed' /\ OthersSettled(h)' /\ lentCpus(h)' = lentCpus(h)
<1>1. TypeOK' /\ host'[h] = v.r /\ \A k \in Host : k # h => host'[k] = host[k]
  BY SetViewTypes
<1>2. UNCHANGED <<assignedCpus, sock2Dprop, conn>>
  BY DEF clientVars
<1>3. \A k \in Host : lentCpus(k)' = lentCpus(k)
  BY <1>2 DEF lentCpus
<1>4. /\ tierKeys'[DpropOf[h]] = v.keys
      /\ \A e \in Dprop : tierKeys[e] \subseteq tierKeys'[e]
  BY HostAssumption DEF TypeOK, SetView
<1>5. EntryOfServed'
  BY <1>2 DEF EntryOfServed
<1>6. OthersSettled(h)'
  BY <1>1, <1>3, <1>4, OthersKept
<1> QED BY <1>1, <1>3, <1>4, <1>5, <1>6

\* A step that stores to a host and does nothing to the tiers.
LEMMA HostStored ==
  ASSUME TypeOK, EntryOfServed, NEW h \in Host, NEW r \in HostRec,
         host' = [host EXCEPT ![h] = r], UNCHANGED <<tierKeys, clientVars>>, OthersSettled(h)
  PROVE  /\ TypeOK' /\ host'[h] = r /\ tierKeys' = tierKeys
         /\ EntryOfServed' /\ OthersSettled(h)' /\ lentCpus(h)' = lentCpus(h)
<1>1. TypeOK' /\ host'[h] = r /\ \A k \in Host : k # h => host'[k] = host[k]
  BY SetHostTypes
<1>2. UNCHANGED <<assignedCpus, sock2Dprop, conn>>
  BY DEF clientVars
<1>3. \A k \in Host : lentCpus(k)' = lentCpus(k)
  BY <1>2 DEF lentCpus
<1>4. EntryOfServed'
  BY <1>2 DEF EntryOfServed
<1>5. OthersSettled(h)'
  BY <1>1, <1>3, OthersKept
<1> QED BY <1>1, <1>3, <1>4, <1>5

\* A step that changes no variable of the database.
LEMMA NothingStored ==
  ASSUME EntryOfServed, UNCHANGED vars, NEW h \in Host, OthersSettled(h)
  PROVE  /\ EntryOfServed' /\ OthersSettled(h)'
         /\ \A t, d : SettledIn(h, t, d) => SettledIn(h, t, d)'
         /\ \A d : Settled(h, d) => Settled(h, d)'
<1>1. UNCHANGED <<host, tierKeys, assignedCpus, sock2Dprop, conn>>
  BY DEF vars
<1>2. \A k \in Host : lentCpus(k)' = lentCpus(k)
  BY <1>1 DEF lentCpus
<1>3. OthersSettled(h)'
  BY <1>1, <1>2, OthersKept
<1>4. ASSUME NEW t, NEW d, SettledIn(h, t, d)
      PROVE  SettledIn(h, t, d)'
  BY <1>1, <1>2, <1>4, SettledKept
<1>5. ASSUME NEW d, Settled(h, d)
      PROVE  Settled(h, d)'
  <2>1. PICK t : t = TierOf(h) /\ t = TierOf(h)'
    BY <1>1 DEF TierOf
  <2>2. SettledIn(h, t, d)
    BY <1>5, <2>1 DEF Settled
  <2> QED BY <1>4, <2>1, <2>2 DEF Settled
<1> QED BY <1>1, <1>3, <1>4, <1>5 DEF EntryOfServed

\* The stage of the step that the server is about to take.
LEMMA StageNow ==
  ASSUME ThreadsInv, AloneInv, NEW op, At("server", op)
  PROVE  \E x \in StepRec, r \in Seq(StepRec) :
           /\ x = Head(todo["server"]) /\ r = Tail(todo["server"])
           /\ x.op = op /\ StepOK(x) /\ Stage(op, x.host, x.arg, r) /\ OthersSettled(x.host)
<1>1. "server" \in Thread
  BY DEF Thread
<1>2. /\ todo["server"] # <<>> /\ todo["server"] \in Seq(StepRec)
      /\ StepOK(Head(todo["server"])) /\ Head(todo["server"]).op = op
  BY <1>1, HeadOK
<1>3. Tail(todo["server"]) \in Seq(StepRec) /\ Head(todo["server"]) \in StepRec
  BY <1>2, HeadTailProperties
<1>4. /\ Stage(op, Head(todo["server"]).host, Head(todo["server"]).arg, Tail(todo["server"]))
      /\ OthersSettled(Head(todo["server"]).host)
  BY <1>2 DEF AloneInv, AtStage
<1> QED BY <1>2, <1>3, <1>4

\* What the server has left is as its next step needs it.
LEMMA GoesOn ==
  ASSUME ThreadsInv, AloneInv, EntryOfServed', NEW h \in Host, OthersSettled(h)', NEW p,
         todo' = [todo EXCEPT !["server"] = p],
         \/ p = <<>> /\ Settled(h, 0)'
         \/ \E y \in StepRec, r \in Seq(StepRec) :
              p = Then(y, r) /\ y.host = h /\ Stage(y.op, h, y.arg, r)'
  PROVE  AloneInv'
<1>1. todo'["server"] = p /\ todo'["silent"] = <<>>
  BY DEF ThreadsInv, ThreadsTypeOK, AloneInv, Thread
<1>2. CASE p = <<>> /\ Settled(h, 0)'
  <2>1. \A k \in Host : Settled(k, 0)'
    BY <1>2 DEF OthersSettled
  <2> QED BY <1>1, <1>2, <2>1 DEF AloneInv, AtStage
<1>3. ASSUME NEW y \in StepRec, NEW r \in Seq(StepRec),
             p = Then(y, r), y.host = h, Stage(y.op, h, y.arg, r)'
      PROVE  AloneInv'
  <2>1. p # <<>> /\ Head(p) = y /\ Tail(p) = r
    BY <1>3, ThenParts
  <2> QED BY <1>1, <1>3, <2>1 DEF AloneInv, AtStage
<1> QED BY <1>2, <1>3

\* A method of the host is done: what is left is nothing or the rest of a load average
\* message.
LEMMA Resumes ==
  ASSUME ThreadsInv, AloneInv, EntryOfServed', NEW h \in Host, OthersSettled(h)',
         NEW r \in Rests(h), todo' = [todo EXCEPT !["server"] = r],
         r = <<>> => Settled(h, 0)',
         r # <<>> => \A t \in Tier : SettledIn(h, t, 0)'
  PROVE  AloneInv'
<1>1. CASE r = <<>>
  BY <1>1, GoesOn
<1>2. CASE r # <<>>
  <2>1. PICK ld \in Load : r = LdRest(h, ld)
    BY <1>2 DEF Rests
  <2>2. PICK y, q : y = Step("storeLd", h, ld) /\ q = Then(Step("setLd", h, ld), LdEnd(h))
    OBVIOUS
  <2>3. /\ y \in StepRec /\ y.op = "storeLd" /\ y.host = h /\ y.arg = ld
        /\ q \in Seq(StepRec) /\ r = Then(y, q)
    BY <2>1, <2>2, StepTyped, LdRestTyped DEF Ops, LdRest
  <2>4. SettledIn(h, calcTier(ld, PIndex[h]), 0)'
    BY <1>2, TierType
  <2>5. Stage("storeLd", h, ld, q)'
    BY <2>2, <2>4 DEF Stage
  <2> QED BY <2>3, <2>5, GoesOn
<1> QED BY <1>1, <1>2

-----------------------------------------------------------------------------
(* The methods of a host, without the search *)

\* What is left when a step has nothing to put in its place, or one step.
LEMMA DoNothing ==
  ASSUME Do("server", <<>>), NEW r \in Seq(StepRec), r = Tail(todo["server"])
  PROVE  todo' = [todo EXCEPT !["server"] = r]
<1>1. <<>> \o r = r
  BY ConcatEmptySeq
<1> QED BY <1>1 DEF Do

\* One step takes the place of the first.
LEMMA DoOne ==
  ASSUME NEW y, Do("server", <<y>>), NEW r, r = Tail(todo["server"])
  PROVE  todo' = [todo EXCEPT !["server"] = Then(y, r)]
BY DEF Do, Then

\* The tier of a host, read in its view.
LEMMA TierOfView ==
  ASSUME NEW h
  PROVE  getTier(h, View(h)) = TierOf(h)
BY DEF getTier, View, TierOf

\* A host that is not available is settled for every tier.
LEMMA SettledOut ==
  ASSUME NEW h, NEW t, NEW d, SettledIn(h, t, d), host[h].state # "available"
  PROVE  \A u, e : SettledIn(h, u, e)
BY DEF SettledIn

\* What a step of a known host knows of it.
LEMMA HostFacts ==
  ASSUME TypeOK, NEW h \in Host, host[h].state # "none"
  PROVE  /\ host[h] \in HostRec /\ host[h].state \in State /\ TierOf(h) \in Tier
         /\ \A t \in Tier : host[h].cpus[t] \in Nat
<1>1. host[h] \in HostRec
  BY DEF TypeOK
<1> QED BY <1>1, TierType DEF HostRec, TierOf

\* The state object is found: nothing is left of the method, or a change of state.
LEMMA EventAlone == ASSUME ThreadsInv, AloneInv, Event("server") PROVE AloneInv'
<1>1. At("server", "event") /\ UNCHANGED vars
  BY DEF Event
<1>2. PICK x \in StepRec, r \in Seq(StepRec) :
        /\ x = Head(todo["server"]) /\ r = Tail(todo["server"])
        /\ x.op = "event" /\ StepOK(x) /\ Stage("event", x.host, x.arg, r)
        /\ OthersSettled(x.host)
  BY <1>1, StageNow
<1>3. PICK h, a : h = x.host /\ a = x.arg
  OBVIOUS
<1>4. h \in Host /\ a \in Events /\ host[h].state # "none" /\ TypeOK
  BY <1>2, <1>3 DEF StepOK, StepShape, OfKnown, ThreadsInv, ThreadsTypeOK
<1>5. PICK s : s = host[h].state
  OBVIOUS
<1>6. s \in State
  BY <1>4, <1>5, HostFacts
<1>7. PICK new : new = reaction(h, s, a)
  OBVIOUS
<1>8. new \in State
  BY <1>4, <1>6, <1>7, ReactionType
<1>9. Do("server", IF new = s THEN <<>> ELSE stateSteps(h, s, new))
  BY <1>2, <1>3, <1>5, <1>7 DEF Event
<1>10. Settled(h, 0) /\ r \in Rests(h) /\ (r # <<>> => a = "overloaded")
  BY <1>2, <1>3 DEF Stage
<1>11. /\ EntryOfServed' /\ OthersSettled(h)' /\ Settled(h, 0)'
       /\ \A t \in Tier : SettledIn(h, t, 0) => SettledIn(h, t, 0)'
  BY <1>1, <1>2, <1>3, <1>4, <1>10, NothingStored DEF AloneInv
<1>12. host'[h].state = s
  BY <1>1, <1>5 DEF vars
<1>13. r # <<>> /\ new = s => s # "available"
  BY <1>7, <1>10 DEF reaction
<1>14. CASE new = s
  <2>1. todo' = [todo EXCEPT !["server"] = r]
    BY <1>2, <1>9, <1>14, DoNothing
  <2>2. ASSUME r # <<>>
        PROVE  \A t \in Tier : SettledIn(h, t, 0)'
    <3>1. \A t \in Tier : SettledIn(h, t, 0)
      BY <1>5, <1>10, <1>13, <1>14, <2>2, SettledOut DEF Settled
    <3> QED BY <1>11, <3>1
  <2> QED BY <1>4, <1>10, <1>11, <2>1, <2>2, Resumes
<1>15. CASE new # s
  <2>1. todo' = [todo EXCEPT !["server"] = stateSteps(h, s, new) \o r]
    BY <1>2, <1>9, <1>15 DEF Do
  <2>2. CASE s = "available"
    <3>1. PICK y, q : y = Step("delCpus", h, None) /\ q = Removing(h, "available", new, r)
      OBVIOUS
    <3>2. stateSteps(h, s, new) \o r = Then(y, q)
      BY <1>2, <1>4, <1>6, <1>8, <2>2, <3>1, StateStepsThen
    <3>3. /\ y \in StepRec /\ y.op = "delCpus" /\ y.host = h /\ y.arg = None
          /\ q \in Seq(StepRec)
      <4>1. "delCpus" \in Ops
        BY DEF Ops
      <4>2. y \in StepRec /\ y.op = "delCpus" /\ y.host = h /\ y.arg = None
        BY <1>4, <3>1, <4>1, StepTyped
      <4>3. q \in Seq(StepRec)
        BY <1>2, <1>4, <1>6, <1>8, <2>2, <3>1, MethodTyped
      <4> QED BY <4>2, <4>3
    <3>4. \E u \in State \ {"available"}, w \in Rests(h) : q = Removing(h, "available", u, w)
      BY <1>8, <1>10, <1>15, <2>2, <3>1
    <3>5. Stage("delCpus", h, None, q)'
      BY <1>11, <1>12, <2>2, <3>4 DEF Stage
    <3> QED BY <1>4, <1>11, <2>1, <3>2, <3>3, <3>5, GoesOn
  <2>3. CASE s # "available"
    <3>1. PICK y, q : y = Step("removeFromDb", h, s) /\ q = Setting(h, new, r)
      OBVIOUS
    <3>2. stateSteps(h, s, new) \o r = Then(y, q)
      BY <1>2, <1>4, <1>6, <1>8, <2>3, <3>1, StateStepsThen DEF Removing
    <3>3. /\ y \in StepRec /\ y.op = "removeFromDb" /\ y.host = h /\ y.arg = s
          /\ q \in Seq(StepRec)
      <4>1. "removeFromDb" \in Ops
        BY DEF Ops
      <4>2. y \in StepRec /\ y.op = "removeFromDb" /\ y.host = h /\ y.arg = s
        BY <1>4, <1>6, <3>1, <4>1, StepTyped
      <4>3. q \in Seq(StepRec)
        BY <1>2, <1>4, <1>6, <1>8, <3>1, MethodTyped
      <4> QED BY <4>2, <4>3
    <3>4. r = <<>>
      BY <1>7, <1>10, <1>15, <2>3 DEF reaction
    <3>5. host'[h].sets = {s} /\ NoCpus(h)'
      <4>1. host' = host
        BY <1>1 DEF vars
      <4>2. host[h].sets = {s} /\ \A t \in Tier : ~(host[h].cpus[t] > 0)
        BY <1>4, <1>5, <1>10, <2>3 DEF Settled, SettledIn
      <4>3. \A t \in Tier : host[h].cpus[t] = 0
        BY <1>4, <4>2, HostFacts
      <4> QED BY <4>1, <4>2, <4>3 DEF NoCpus
    <3>6. \E u \in State, w \in Rests(h) : MayBe(u, w) /\ q = Setting(h, u, w)
      BY <1>8, <1>10, <3>1, <3>4 DEF MayBe
    <3>7. Stage("removeFromDb", h, s, q)'
      BY <1>12, <2>3, <3>5, <3>6 DEF Stage
    <3> QED BY <1>4, <1>11, <2>1, <3>2, <3>3, <3>7, GoesOn
  <2> QED BY <2>2, <2>3
<1> QED BY <1>14, <1>15

\* The step that the server is about to take, of a host that it knows.
LEMMA StageOfKnown ==
  ASSUME ThreadsInv, AloneInv, NEW op, At("server", op),
         op \notin {"assign", "giveBack", "addCpu", "unlock"}
  PROVE  \E h \in Host, r \in Seq(StepRec) :
           /\ h = Head(todo["server"]).host /\ r = Tail(todo["server"])
           /\ Stage(op, h, Head(todo["server"]).arg, r) /\ OthersSettled(h)
           /\ StepShape(Head(todo["server"])) /\ Head(todo["server"]).op = op
           /\ host[h].state # "none" /\ TypeOK
<1>1. PICK x \in StepRec, r \in Seq(StepRec) :
        /\ x = Head(todo["server"]) /\ r = Tail(todo["server"])
        /\ x.op = op /\ StepOK(x) /\ Stage(op, x.host, x.arg, r) /\ OthersSettled(x.host)
  BY StageNow
<1>2. x.host \in Host /\ host[x.host].state # "none" /\ StepShape(x) /\ TypeOK
  BY <1>1 DEF StepOK, StepShape, OfKnown, ThreadsInv, ThreadsTypeOK
<1> QED BY <1>1, <1>2

\* After the step the server goes on with the rest.
LEMMA NextStage ==
  ASSUME ThreadsInv, AloneInv, EntryOfServed', NEW h \in Host, OthersSettled(h)',
         NEW op \in Ops, NEW a \in State \cup Events \cup Load \cup Sock \cup {None},
         NEW q \in Seq(StepRec), todo' = [todo EXCEPT !["server"] = Then(Step(op, h, a), q)],
         Stage(op, h, a, q)'
  PROVE  AloneInv'
<1>1. PICK y : y = Step(op, h, a)
  OBVIOUS
<1>2. y \in StepRec /\ y.op = op /\ y.host = h /\ y.arg = a
  BY <1>1, StepTyped
<1> QED BY <1>1, <1>2, GoesOn

\* The cpus of the tier leave the pool.
LEMMA DelCpusAlone == ASSUME ThreadsInv, AloneInv, DelCpus("server") PROVE AloneInv'
<1>1. /\ At("server", "delCpus") /\ Do("server", <<>>) /\ UNCHANGED clientVars
  BY DEF DelCpus
<1>2. PICK h \in Host, r \in Seq(StepRec) :
        /\ h = Head(todo["server"]).host /\ r = Tail(todo["server"])
        /\ Stage("delCpus", h, Head(todo["server"]).arg, r) /\ OthersSettled(h)
        /\ host[h].state # "none" /\ TypeOK
  BY <1>1, StageOfKnown
<1>3. host[h].state = "available" /\ Settled(h, 0)
  BY <1>2 DEF Stage
<1>4. PICK new \in State \ {"available"}, q \in Rests(h) : r = Removing(h, "available", new, q)
  BY <1>2 DEF Stage
<1>5. PICK t : t = TierOf(h)
  OBVIOUS
<1>6. PICK v : v = delCpusFromTier(View(h), t)
  OBVIOUS
<1>7. SetView(h, v)
  BY <1>2, <1>5, <1>6, TierOfView DEF DelCpus
<1>8. /\ v \in ViewSet /\ v.keys = tierKeys[DpropOf[h]]
      /\ v.r.state = host[h].state /\ v.r.ld = host[h].ld /\ v.r.sets = host[h].sets
      /\ \A x \in Tier : v.r.cpus[x] = IF x = t THEN 0 ELSE host[h].cpus[x]
  <2>1. View(h) \in ViewSet /\ View(h).r = host[h] /\ View(h).keys = tierKeys[DpropOf[h]]
    BY <1>2, ViewType DEF View
  <2>2. t \in Tier
    BY <1>2, <1>5, HostFacts
  <2>3. PICK w \in ViewSet : w = View(h)
    BY <2>1
  <2>4. w \in ViewSet /\ w.r = host[h] /\ w.keys = tierKeys[DpropOf[h]] /\ v = delCpusFromTier(w, t)
    BY <1>6, <2>1, <2>3
  <2>5. /\ v \in ViewSet /\ v.keys = w.keys
        /\ v.r.state = w.r.state /\ v.r.ld = w.r.ld /\ v.r.sets = w.r.sets
        /\ \A x \in Tier : v.r.cpus[x] = IF x = t THEN 0 ELSE w.r.cpus[x]
    BY <2>2, <2>4, DelCpusEffect
  <2> QED BY <2>4, <2>5
<1>9. /\ host'[h] = v.r /\ tierKeys'[DpropOf[h]] = v.keys
      /\ EntryOfServed' /\ OthersSettled(h)'
  BY <1>1, <1>2, <1>7, <1>8, ViewStored DEF AloneInv
<1>10. NoCpus(h)'
  <2>1. \A x \in Tier : host[h].cpus[x] \in Nat /\ (host[h].cpus[x] > 0 => x = t)
    BY <1>2, <1>3, <1>5, HostFacts DEF Settled, SettledIn
  <2>2. \A x \in Tier : v.r.cpus[x] = 0
    BY <1>8, <2>1
  <2> QED BY <1>9, <2>2 DEF NoCpus
<1>11. TierOf(h)' \in tierKeys'[DpropOf[h]]
  BY <1>3, <1>8, <1>9 DEF Settled, SettledIn, TierOf
<1>12. host'[h].sets = {"available"} /\ host'[h].state = "available"
  BY <1>3, <1>8, <1>9 DEF Settled, SettledIn
<1>13. \E u \in State, w \in Rests(h) : MayBe(u, w) /\ Setting(h, new, q) = Setting(h, u, w)
  BY DEF MayBe
<1>14. Stage("removeFromDb", h, "available", Setting(h, new, q))'
  BY <1>10, <1>11, <1>12, <1>13 DEF Stage
<1>15. Setting(h, new, q) \in Seq(StepRec)
  BY RestsTyped, MethodTyped
<1>16. todo' = [todo EXCEPT !["server"] = Then(Step("removeFromDb", h, "available"),
                                               Setting(h, new, q))]
  BY <1>1, <1>2, <1>4, DoNothing DEF Removing
<1>17. "removeFromDb" \in Ops /\ "available" \in State
  BY DEF Ops, State
<1> QED BY <1>9, <1>14, <1>15, <1>16, <1>17, NextStage

\* The host is taken out of a sub-set, and nothing else changes.
LEMMA SetOnly ==
  ASSUME NEW u \in ViewSet, NEW s, NEW v, v = delFromHostSet(u, s)
  PROVE  /\ v \in ViewSet /\ v.keys = u.keys /\ v.r.ld = u.r.ld
         /\ v.r.state = u.r.state /\ v.r.cpus = u.r.cpus /\ v.r.sets = u.r.sets \ {s}
<1>1. v.r = [u.r EXCEPT !.sets = @ \ {s}] /\ v.keys = u.keys
  BY DEF delFromHostSet, ViewSet, HostRec
<1>2. u.r \in HostRec
  BY DEF ViewSet
<1> QED BY <1>1, <1>2, DelFromSet DEF HostRec

\* The host leaves its sub-set: the tier of an available host is a key.
LEMMA RemoveFromDbAlone ==
  ASSUME ThreadsInv, AloneInv, RemoveFromDb("server") PROVE AloneInv'
<1>1. /\ At("server", "removeFromDb") /\ Do("server", <<>>) /\ UNCHANGED clientVars
  BY DEF RemoveFromDb
<1>2. PICK h \in Host, r \in Seq(StepRec) :
        /\ h = Head(todo["server"]).host /\ r = Tail(todo["server"])
        /\ Stage("removeFromDb", h, Head(todo["server"]).arg, r) /\ OthersSettled(h)
        /\ host[h].state # "none" /\ TypeOK
  BY <1>1, StageOfKnown
<1>3. PICK a : a = Head(todo["server"]).arg
  OBVIOUS
<1>4. /\ a = host[h].state /\ host[h].sets = {a} /\ NoCpus(h)
      /\ a = "available" => TierOf(h) \in tierKeys[DpropOf[h]]
  BY <1>2, <1>3 DEF Stage
<1>5. PICK new \in State, q \in Rests(h) : MayBe(new, q) /\ r = Setting(h, new, q)
  BY <1>2 DEF Stage
<1>6. PICK v : v = IF a = "available" THEN delFromAvailDb(h, View(h))
                                      ELSE delFromHostSet(View(h), a)
  OBVIOUS
<1>7. SetView(h, v)
  BY <1>2, <1>3, <1>6 DEF RemoveFromDb
<1>8. View(h) \in ViewSet /\ View(h).r = host[h] /\ View(h).keys = tierKeys[DpropOf[h]]
  BY <1>2, ViewType DEF View
<1>9. /\ v \in ViewSet /\ v.keys = tierKeys[DpropOf[h]]
      /\ v.r.sets = {} /\ \A x \in Tier : v.r.cpus[x] = 0
  <2>1. CASE a = "available"
    <3>1. PICK t : t = TierOf(h)
      OBVIOUS
    <3>2. PICK u : u = delCpusFromTier(View(h), t)
      OBVIOUS
    <3>3. v = delFromHostSet(u, "available")
      BY <1>4, <1>6, <1>8, <2>1, <3>1, <3>2, TierOfView DEF delFromAvailDb
    <3>4. t \in Tier
      BY <1>2, <3>1, HostFacts
    <3>5. /\ u \in ViewSet /\ u.keys = tierKeys[DpropOf[h]] /\ u.r.sets = host[h].sets
          /\ \A x \in Tier : u.r.cpus[x] = 0
      <4>1. /\ u \in ViewSet /\ u.keys = View(h).keys /\ u.r.sets = View(h).r.sets
            /\ \A x \in Tier : u.r.cpus[x] = IF x = t THEN 0 ELSE View(h).r.cpus[x]
        BY <1>8, <3>2, <3>4, DelCpusEffect
      <4>2. \A x \in Tier : View(h).r.cpus[x] = 0
        BY <1>4, <1>8 DEF NoCpus
      <4> QED BY <1>8, <4>1, <4>2
    <3>6. u.r.sets \ {"available"} = {}
      BY <1>4, <2>1, <3>5
    <3> QED BY <3>3, <3>5, <3>6, SetOnly
  <2>2. CASE a # "available"
    <3>1. v = delFromHostSet(View(h), a)
      BY <1>6, <2>2
    <3> QED BY <1>4, <1>8, <3>1, SetOnly DEF NoCpus
  <2> QED BY <2>1, <2>2
<1>10. /\ host'[h] = v.r /\ EntryOfServed' /\ OthersSettled(h)'
  BY <1>1, <1>2, <1>7, <1>9, ViewStored DEF AloneInv
<1>11. Out(h)'
  BY <1>9, <1>10 DEF Out, NoCpus
<1>12. Stage("setState", h, new, Adding(h, q))'
  BY <1>5, <1>11 DEF Stage
<1>13. Adding(h, q) \in Seq(StepRec)
  BY RestsTyped, MethodTyped
<1>14. todo' = [todo EXCEPT !["server"] = Then(Step("setState", h, new), Adding(h, q))]
  BY <1>1, <1>2, <1>5, DoNothing DEF Setting
<1>15. "setState" \in Ops
  BY DEF Ops
<1> QED BY <1>10, <1>12, <1>13, <1>14, <1>15, NextStage

\* state_ is stored.
LEMMA SetStateAlone == ASSUME ThreadsInv, AloneInv, SetState("server") PROVE AloneInv'
<1>1. /\ At("server", "setState") /\ Do("server", <<>>)
      /\ UNCHANGED <<tierKeys, clientVars>>
  BY DEF SetState
<1>2. PICK h \in Host, r \in Seq(StepRec) :
        /\ h = Head(todo["server"]).host /\ r = Tail(todo["server"])
        /\ Stage("setState", h, Head(todo["server"]).arg, r) /\ OthersSettled(h)
        /\ StepShape(Head(todo["server"])) /\ Head(todo["server"]).op = "setState"
        /\ host[h].state # "none" /\ TypeOK
  BY <1>1, StageOfKnown
<1>3. PICK a : a = Head(todo["server"]).arg
  OBVIOUS
<1>4. a \in State /\ Out(h)
  BY <1>2, <1>3 DEF StepShape, Stage
<1>5. PICK q \in Rests(h) : MayBe(a, q) /\ r = Adding(h, q)
  BY <1>2, <1>3 DEF Stage
<1>6. PICK u : u = [host[h] EXCEPT !.state = a]
  OBVIOUS
<1>7. /\ u \in HostRec /\ u.state = a /\ u.sets = host[h].sets /\ u.cpus = host[h].cpus
  BY <1>2, <1>4, <1>6, HostFacts DEF HostRec
<1>8. host' = [host EXCEPT ![h] = u]
  BY <1>2, <1>3, <1>6 DEF SetState
<1>9. host'[h] = u /\ EntryOfServed' /\ OthersSettled(h)'
  BY <1>1, <1>2, <1>7, <1>8, HostStored DEF AloneInv
<1>10. Out(h)' /\ host'[h].state = a
  BY <1>4, <1>7, <1>9 DEF Out, NoCpus
<1>11. Stage("addToDb", h, None, q)'
  BY <1>5, <1>10 DEF Stage
<1>12. todo' = [todo EXCEPT !["server"] = Then(Step("addToDb", h, None), q)]
  BY <1>1, <1>2, <1>5, DoNothing DEF Adding
<1>13. q \in Seq(StepRec) /\ "addToDb" \in Ops
  BY RestsTyped DEF Ops
<1> QED BY <1>9, <1>11, <1>12, <1>13, NextStage

\* state_ is read for the sub-set.
LEMMA ReadStateAlone == ASSUME ThreadsInv, AloneInv, ReadState("server") PROVE AloneInv'
<1>1. At("server", "addToDb") /\ UNCHANGED vars
  BY DEF ReadState
<1>2. PICK h \in Host, r \in Seq(StepRec) :
        /\ h = Head(todo["server"]).host /\ r = Tail(todo["server"])
        /\ Stage("addToDb", h, Head(todo["server"]).arg, r) /\ OthersSettled(h)
        /\ host[h].state # "none" /\ TypeOK
  BY <1>1, StageOfKnown
<1>3. PICK s : s = host[h].state
  OBVIOUS
<1>4. s \in State /\ Out(h) /\ r \in Rests(h) /\ MayBe(s, r)
  BY <1>2, <1>3, HostFacts DEF Stage
<1>5. Do("server", <<Step("addTo", h, s)>>)
  BY <1>2, <1>3 DEF ReadState
<1>6. EntryOfServed' /\ OthersSettled(h)'
  BY <1>1, <1>2, NothingStored DEF AloneInv
<1>7. Out(h)' /\ host'[h].state = s
  BY <1>1, <1>3, <1>4 DEF vars, Out, NoCpus
<1>8. Stage("addTo", h, s, r)'
  BY <1>4, <1>7 DEF Stage
<1>9. todo' = [todo EXCEPT !["server"] = Then(Step("addTo", h, s), r)]
  BY <1>2, <1>5, DoOne
<1>10. "addTo" \in Ops
  BY DEF Ops
<1> QED BY <1>4, <1>6, <1>8, <1>9, <1>10, NextStage

\* A host that is put in its tier is settled.
LEMMA AddedAvail ==
  ASSUME NEW h \in Host, NEW w \in ViewSet, w.r.state = "available", w.r.sets = {},
         \A t \in Tier : w.r.cpus[t] = 0, NEW v, v = addToAvailDb(h, w),
         host'[h] = v.r, tierKeys'[DpropOf[h]] = v.keys, lentCpus(h)' \in Nat
  PROVE  Settled(h, 0)'
<1>1. PICK t : t = getTier(h, w)
  OBVIOUS
<1>2. /\ Good(h, v) /\ v.r.state = "available" /\ v.r.ld = w.r.ld
      /\ v.keys = w.keys \cup {t} /\ v.r.cpus[t] = NCpus[h]
  BY <1>1, AddToAvailDb
<1>3. t = TierOf(h)' /\ t = getTier(h, v)
  BY <1>1, <1>2 DEF TierOf, getTier
<1>4. host'[h].cpus[t] + lentCpus(h)' + 0 >= NCpus[h]
  <2>1. NCpus[h] \in Nat
    BY HostAssumption
  <2> QED BY <1>2, <2>1
<1>5. /\ host'[h].sets = {host'[h].state} \ {"none"}
      /\ \A x \in Tier : host'[h].cpus[x] > 0 => host'[h].state = "available" /\ x = t
      /\ t \in tierKeys'[DpropOf[h]]
  BY <1>2, <1>3 DEF Good
<1> QED BY <1>3, <1>4, <1>5 DEF SettledIn, Settled

\* The host enters its sub-set, and if it is available its cpus the pool.
LEMMA AddToDbAlone == ASSUME ThreadsInv, AloneInv, AddToDb("server") PROVE AloneInv'
<1>1. /\ At("server", "addTo") /\ Do("server", <<>>) /\ UNCHANGED clientVars
  BY DEF AddToDb
<1>2. PICK h \in Host, r \in Seq(StepRec) :
        /\ h = Head(todo["server"]).host /\ r = Tail(todo["server"])
        /\ Stage("addTo", h, Head(todo["server"]).arg, r) /\ OthersSettled(h)
        /\ host[h].state # "none" /\ TypeOK
  BY <1>1, StageOfKnown
<1>3. PICK a : a = Head(todo["server"]).arg
  OBVIOUS
<1>4. a = host[h].state /\ Out(h) /\ r \in Rests(h) /\ MayBe(a, r) /\ a \in State
  BY <1>2, <1>3, HostFacts DEF Stage
<1>5. PICK v : v = IF a = "available" THEN addToAvailDb(h, View(h))
                                      ELSE addToHostSet(View(h), a)
  OBVIOUS
<1>6. SetView(h, v)
  BY <1>2, <1>3, <1>5 DEF AddToDb
<1>7. View(h) \in ViewSet /\ View(h).r = host[h] /\ View(h).keys = tierKeys[DpropOf[h]]
  BY <1>2, ViewType DEF View
<1>8. todo' = [todo EXCEPT !["server"] = r]
  BY <1>1, <1>2, DoNothing
<1>9. CASE a = "available"
  <2>1. PICK w \in ViewSet : w = View(h)
    BY <1>7
  <2>2. /\ w.r.state = "available" /\ w.r.sets = {} /\ \A x \in Tier : w.r.cpus[x] = 0
        /\ w.keys = tierKeys[DpropOf[h]] /\ v = addToAvailDb(h, w)
    BY <1>4, <1>5, <1>7, <1>9, <2>1 DEF Out, NoCpus
  <2>3. v \in ViewSet /\ w.keys \subseteq v.keys
    BY <2>2, AddToAvailDb DEF Good
  <2>4. /\ host'[h] = v.r /\ tierKeys'[DpropOf[h]] = v.keys
        /\ EntryOfServed' /\ OthersSettled(h)' /\ lentCpus(h)' = lentCpus(h)
    BY <1>1, <1>2, <1>6, <2>2, <2>3, ViewStored DEF AloneInv
  <2>5. Settled(h, 0)'
    BY <2>2, <2>4, LentNat, AddedAvail
  <2>6. r = <<>>
    BY <1>4, <1>9 DEF MayBe
  <2> QED BY <1>4, <1>8, <2>4, <2>5, <2>6, Resumes
<1>10. CASE a # "available"
  <2>1. v = addToHostSet(View(h), a)
    BY <1>5, <1>10
  <2>2. /\ v \in ViewSet /\ v.keys = tierKeys[DpropOf[h]] /\ v.r.state = a
        /\ v.r.sets = {a} /\ v.r.cpus = host[h].cpus
    <3>1. v \in ViewSet /\ v.r.state = a /\ v.r.sets = {a}
      BY <1>4, <1>7, <2>1, AddToSet DEF Out
    <3>2. v.keys = tierKeys[DpropOf[h]] /\ v.r = [host[h] EXCEPT !.sets = @ \cup {a}]
      BY <1>7, <2>1 DEF addToHostSet, ViewSet, HostRec
    <3> QED BY <1>2, <3>1, <3>2, HostFacts DEF HostRec
  <2>3. /\ host'[h] = v.r /\ EntryOfServed' /\ OthersSettled(h)'
    BY <1>1, <1>2, <1>6, <2>2, ViewStored DEF AloneInv
  <2>4. \A x \in Tier : v.r.cpus[x] = 0
    BY <1>4, <2>2 DEF Out, NoCpus
  <2>5. ASSUME NEW t
        PROVE  SettledIn(h, t, 0)'
    BY <1>4, <1>10, <2>2, <2>3, <2>4 DEF SettledIn, State
  <2> QED BY <1>4, <1>8, <2>3, <2>5, Resumes DEF Settled
<1> QED BY <1>9, <1>10

-----------------------------------------------------------------------------
(* The rest of a load average message, without the search *)

\* The cpus move to the tier of the load that is about to be stored.
LEMMA MoveCpusAlone == ASSUME ThreadsInv, AloneInv, MoveCpus PROVE AloneInv'
<1>1. /\ At("server", "moveCpus") /\ Do("server", <<>>) /\ UNCHANGED clientVars
  BY DEF MoveCpus
<1>2. PICK h \in Host, r \in Seq(StepRec) :
        /\ h = Head(todo["server"]).host /\ r = Tail(todo["server"])
        /\ Stage("moveCpus", h, Head(todo["server"]).arg, r) /\ OthersSettled(h)
        /\ StepShape(Head(todo["server"])) /\ Head(todo["server"]).op = "moveCpus"
        /\ host[h].state # "none" /\ TypeOK
  BY <1>1, StageOfKnown
<1>3. PICK a : a = Head(todo["server"]).arg
  OBVIOUS
<1>4. PICK old, new : old = TierOf(h) /\ new = calcTier(a, PIndex[h])
  OBVIOUS
<1>5. a \in Load /\ SettledIn(h, old, 0) /\ old # new /\ r = LdRest(h, a)
  BY <1>2, <1>3, <1>4 DEF StepShape, Stage, Settled
<1>6. old \in Tier /\ new \in Tier
  BY <1>2, <1>4, <1>5, HostFacts, TierType
<1>7. PICK v : v = moveCpus(View(h), old, new)
  OBVIOUS
<1>8. SetView(h, v)
  BY <1>2, <1>3, <1>4, <1>7, TierOfView DEF MoveCpus
<1>9. View(h) \in ViewSet /\ View(h).r = host[h] /\ View(h).keys = tierKeys[DpropOf[h]]
  BY <1>2, ViewType DEF View
<1>10. /\ v \in ViewSet /\ v.keys = tierKeys[DpropOf[h]] \cup {new}
       /\ v.r.state = host[h].state /\ v.r.sets = host[h].sets
       /\ \A x \in Tier : v.r.cpus[x] = IF x = old THEN 0
                                     ELSE IF x = new THEN host[h].cpus[new] + host[h].cpus[old]
                                     ELSE host[h].cpus[x]
  <2>1. PICK w \in ViewSet : w = View(h)
    BY <1>9
  <2>2. w.r = host[h] /\ w.keys = tierKeys[DpropOf[h]] /\ v = moveCpus(w, old, new)
    BY <1>7, <1>9, <2>1
  <2>3. w \in ViewSet /\ old \in Tier /\ new \in Tier /\ old # new /\ v = moveCpus(w, old, new)
    BY <1>5, <1>6, <2>1, <2>2
  <2>4. /\ v \in ViewSet /\ v.keys = w.keys \cup {new}
        /\ v.r.state = w.r.state /\ v.r.ld = w.r.ld
        /\ v.r.sets = w.r.sets
        /\ \A x \in Tier : v.r.cpus[x] = IF x = old THEN 0
                                       ELSE IF x = new THEN w.r.cpus[new] + w.r.cpus[old]
                                       ELSE w.r.cpus[x]
    BY <2>3, MoveCpusEffect
  <2> QED BY <2>2, <2>4
<1>11. /\ host'[h] = v.r /\ tierKeys'[DpropOf[h]] = v.keys
       /\ EntryOfServed' /\ OthersSettled(h)' /\ lentCpus(h)' = lentCpus(h)
  BY <1>1, <1>2, <1>8, <1>10, ViewStored DEF AloneInv
<1>12. /\ \A x \in Tier : host[h].cpus[x] \in Nat
       /\ \A x \in Tier : host[h].cpus[x] > 0 => host[h].state = "available" /\ x = old
  BY <1>2, <1>5, HostFacts DEF SettledIn
<1>13. host[h].cpus[new] = 0 /\ host[h].cpus[old] \in Nat
  BY <1>5, <1>6, <1>12
<1>14. v.r.cpus[new] = host[h].cpus[old]
  BY <1>5, <1>6, <1>10, <1>13
<1>15. ASSUME NEW x \in Tier, v.r.cpus[x] > 0
       PROVE  v.r.state = "available" /\ x = new
  <2>1. x # old
    BY <1>10, <1>15
  <2>2. CASE x = new
    BY <1>6, <1>10, <1>12, <1>14, <1>15, <2>2
  <2>3. CASE x # new
    BY <1>10, <1>12, <1>15, <2>1, <2>3
  <2> QED BY <2>2, <2>3
<1>16. SettledIn(h, new, 0)'
  <2>1. host[h].state = "available" => host[h].cpus[old] + lentCpus(h) + 0 >= NCpus[h]
    BY <1>5 DEF SettledIn
  <2>2. host[h].sets = {host[h].state} \ {"none"}
    BY <1>5 DEF SettledIn
  <2> QED BY <1>10, <1>11, <1>14, <1>15, <2>1, <2>2 DEF SettledIn
<1>17. PICK q \in Seq(StepRec) : q = Then(Step("setLd", h, a), LdEnd(h))
  BY <1>5, LdRestTyped
<1>18. Stage("storeLd", h, a, q)'
  BY <1>4, <1>16, <1>17 DEF Stage
<1>19. todo' = [todo EXCEPT !["server"] = Then(Step("storeLd", h, a), q)]
  BY <1>1, <1>2, <1>5, <1>17, DoNothing DEF LdRest
<1>20. "storeLd" \in Ops
  BY DEF Ops
<1> QED BY <1>5, <1>11, <1>18, <1>19, <1>20, NextStage

\* The first load averages are stored: the tier that the cpus are in is that of the new load.
LEMMA StoreLdAlone == ASSUME ThreadsInv, AloneInv, StoreLd PROVE AloneInv'
<1>1. /\ At("server", "storeLd") /\ Do("server", <<>>)
      /\ UNCHANGED <<tierKeys, clientVars>>
  BY DEF StoreLd
<1>2. PICK h \in Host, r \in Seq(StepRec) :
        /\ h = Head(todo["server"]).host /\ r = Tail(todo["server"])
        /\ Stage("storeLd", h, Head(todo["server"]).arg, r) /\ OthersSettled(h)
        /\ StepShape(Head(todo["server"])) /\ Head(todo["server"]).op = "storeLd"
        /\ host[h].state # "none" /\ TypeOK
  BY <1>1, StageOfKnown
<1>3. PICK a, t : a = Head(todo["server"]).arg /\ t = calcTier(a, PIndex[h])
  OBVIOUS
<1>4. a \in Load /\ SettledIn(h, t, 0) /\ r = Then(Step("setLd", h, a), LdEnd(h))
  BY <1>2, <1>3 DEF StepShape, Stage
<1>5. PICK ld \in IF host[h].ld = "light" THEN Load ELSE {host[h].ld} :
        host' = [host EXCEPT ![h].ld = ld]
  BY <1>2 DEF StoreLd
<1>6. host[h] \in HostRec
  BY <1>2, HostFacts
<1>7. ld \in Load
  BY <1>5, <1>6 DEF HostRec
<1>8. PICK u : u = [host[h] EXCEPT !.ld = ld]
  OBVIOUS
<1>9. u \in HostRec /\ u.state = host[h].state /\ u.sets = host[h].sets /\ u.cpus = host[h].cpus
  BY <1>6, <1>7, <1>8 DEF HostRec
<1>10. host' = [host EXCEPT ![h] = u]
  BY <1>5, <1>8
<1>11. /\ host'[h] = u /\ tierKeys' = tierKeys /\ EntryOfServed' /\ OthersSettled(h)'
       /\ lentCpus(h)' = lentCpus(h)
  BY <1>1, <1>2, <1>9, <1>10, HostStored DEF AloneInv
<1>12. SettledIn(h, t, 0)'
  BY <1>4, <1>9, <1>11, SettledKept
<1>13. Stage("setLd", h, a, LdEnd(h))'
  BY <1>3, <1>12 DEF Stage
<1>14. todo' = [todo EXCEPT !["server"] = Then(Step("setLd", h, a), LdEnd(h))]
  BY <1>1, <1>2, <1>4, DoNothing
<1>15. LdEnd(h) \in Seq(StepRec) /\ "setLd" \in Ops
  BY LdRestTyped DEF Ops
<1> QED BY <1>4, <1>11, <1>13, <1>14, <1>15, NextStage

\* The load averages have their new values, and the cpus are in the tier they give.
LEMMA SetLdAlone == ASSUME ThreadsInv, AloneInv, SetLd PROVE AloneInv'
<1>1. /\ At("server", "setLd") /\ Do("server", <<>>)
      /\ UNCHANGED <<tierKeys, clientVars>>
  BY DEF SetLd
<1>2. PICK h \in Host, r \in Seq(StepRec) :
        /\ h = Head(todo["server"]).host /\ r = Tail(todo["server"])
        /\ Stage("setLd", h, Head(todo["server"]).arg, r) /\ OthersSettled(h)
        /\ StepShape(Head(todo["server"])) /\ Head(todo["server"]).op = "setLd"
        /\ host[h].state # "none" /\ TypeOK
  BY <1>1, StageOfKnown
<1>3. PICK a, t : a = Head(todo["server"]).arg /\ t = calcTier(a, PIndex[h])
  OBVIOUS
<1>4. a \in Load /\ SettledIn(h, t, 0) /\ r = LdEnd(h)
  BY <1>2, <1>3 DEF StepShape, Stage
<1>5. host' = [host EXCEPT ![h].ld = a]
  BY <1>2, <1>3 DEF SetLd
<1>6. host[h] \in HostRec
  BY <1>2, HostFacts
<1>7. PICK u : u = [host[h] EXCEPT !.ld = a]
  OBVIOUS
<1>8. /\ u \in HostRec /\ u.state = host[h].state /\ u.sets = host[h].sets
      /\ u.cpus = host[h].cpus /\ u.ld = a
  BY <1>4, <1>6, <1>7 DEF HostRec
<1>9. host' = [host EXCEPT ![h] = u]
  BY <1>5, <1>7
<1>10. /\ host'[h] = u /\ tierKeys' = tierKeys /\ EntryOfServed' /\ OthersSettled(h)'
       /\ lentCpus(h)' = lentCpus(h)
  BY <1>1, <1>2, <1>8, <1>9, HostStored DEF AloneInv
<1>11. SettledIn(h, t, 0)' /\ TierOf(h)' = t
  BY <1>3, <1>4, <1>8, <1>10, SettledKept DEF TierOf
<1>12. PICK q \in Seq(StepRec) : q = Then(Step("ifSilent", h, None), <<>>)
  BY EmptyTyped, StepTyped, ThenParts DEF Ops
<1>13. Stage("stamp", h, None, q)'
  BY <1>11, <1>12 DEF Stage, Settled
<1>14. todo' = [todo EXCEPT !["server"] = Then(Step("stamp", h, None), q)]
  BY <1>1, <1>2, <1>4, <1>12, DoNothing DEF LdEnd
<1>15. "stamp" \in Ops
  BY DEF Ops
<1> QED BY <1>10, <1>13, <1>14, <1>15, NextStage

\* lastUpdate_ is stored.
LEMMA StampAlone == ASSUME ThreadsInv, AloneInv, Stamp PROVE AloneInv'
<1>1. /\ At("server", "stamp") /\ Do("server", <<>>)
      /\ UNCHANGED <<tierKeys, clientVars>>
  BY DEF Stamp
<1>2. PICK h \in Host, r \in Seq(StepRec) :
        /\ h = Head(todo["server"]).host /\ r = Tail(todo["server"])
        /\ Stage("stamp", h, Head(todo["server"]).arg, r) /\ OthersSettled(h)
        /\ host[h].state # "none" /\ TypeOK
  BY <1>1, StageOfKnown
<1>3. PICK t : t = TierOf(h)
  OBVIOUS
<1>4. SettledIn(h, t, 0) /\ r = Then(Step("ifSilent", h, None), <<>>)
  BY <1>2, <1>3 DEF Stage, Settled
<1>5. host' = [host EXCEPT ![h].heard = TRUE, ![h].quiet = FALSE]
  BY <1>2 DEF Stamp
<1>6. host[h] \in HostRec /\ host \in [Host -> HostRec]
  BY <1>2 DEF TypeOK
<1>7. PICK u : u = [host[h] EXCEPT !.heard = TRUE, !.quiet = FALSE]
  OBVIOUS
<1>8. /\ u \in HostRec /\ u.state = host[h].state /\ u.sets = host[h].sets
      /\ u.cpus = host[h].cpus /\ u.ld = host[h].ld
  BY <1>6, <1>7 DEF HostRec
<1>9. host' = [host EXCEPT ![h] = u]
  BY <1>5, <1>6, <1>7
<1>10. /\ host'[h] = u /\ tierKeys' = tierKeys /\ EntryOfServed' /\ OthersSettled(h)'
       /\ lentCpus(h)' = lentCpus(h)
  BY <1>1, <1>2, <1>8, <1>9, HostStored DEF AloneInv
<1>11. SettledIn(h, t, 0)' /\ TierOf(h)' = t
  BY <1>3, <1>4, <1>8, <1>10, SettledKept DEF TierOf
<1>12. Stage("ifSilent", h, None, <<>>)'
  BY <1>11 DEF Stage, Settled
<1>13. todo' = [todo EXCEPT !["server"] = Then(Step("ifSilent", h, None), <<>>)]
  BY <1>1, <1>2, <1>4, DoNothing
<1>14. "ifSilent" \in Ops /\ <<>> \in Seq(StepRec)
  BY EmptyTyped DEF Ops
<1> QED BY <1>10, <1>12, <1>13, <1>14, NextStage

\* The first read of state_ for avail().
LEMMA IfSilentAlone == ASSUME ThreadsInv, AloneInv, IfSilent PROVE AloneInv'
<1>1. At("server", "ifSilent") /\ UNCHANGED vars
  BY DEF IfSilent
<1>2. PICK h \in Host, r \in Seq(StepRec) :
        /\ h = Head(todo["server"]).host /\ r = Tail(todo["server"])
        /\ Stage("ifSilent", h, Head(todo["server"]).arg, r) /\ OthersSettled(h)
  BY <1>1, StageOfKnown
<1>3. Settled(h, 0) /\ r = <<>>
  BY <1>2 DEF Stage
<1>4. EntryOfServed' /\ OthersSettled(h)' /\ Settled(h, 0)'
  BY <1>1, <1>2, <1>3, NothingStored DEF AloneInv
<1>5. CASE host[h].state = "silent"
  <2>1. Do("server", <<Step("event", h, "avail")>>)
    BY <1>2, <1>5 DEF IfSilent
  <2>2. todo' = [todo EXCEPT !["server"] = Then(Step("event", h, "avail"), r)]
    BY <1>2, <2>1, DoOne
  <2>3. Stage("event", h, "avail", r)'
    BY <1>3, <1>4 DEF Stage, Rests
  <2>4. "event" \in Ops /\ "avail" \in Events
    BY DEF Ops, Events
  <2> QED BY <1>4, <2>2, <2>3, <2>4, NextStage
<1>6. CASE host[h].state # "silent"
  <2>1. Do("server", <<Step("ifOverloaded", h, None)>>)
    BY <1>2, <1>6 DEF IfSilent
  <2>2. todo' = [todo EXCEPT !["server"] = Then(Step("ifOverloaded", h, None), r)]
    BY <1>2, <2>1, DoOne
  <2>3. Stage("ifOverloaded", h, None, r)'
    BY <1>3, <1>4 DEF Stage
  <2>4. "ifOverloaded" \in Ops
    BY DEF Ops
  <2> QED BY <1>4, <2>2, <2>3, <2>4, NextStage
<1> QED BY <1>5, <1>6

\* The second read of state_ for avail().
LEMMA IfOverloadedAlone == ASSUME ThreadsInv, AloneInv, IfOverloaded PROVE AloneInv'
<1>1. At("server", "ifOverloaded") /\ UNCHANGED vars
  BY DEF IfOverloaded
<1>2. PICK h \in Host, r \in Seq(StepRec) :
        /\ h = Head(todo["server"]).host /\ r = Tail(todo["server"])
        /\ Stage("ifOverloaded", h, Head(todo["server"]).arg, r) /\ OthersSettled(h)
  BY <1>1, StageOfKnown
<1>3. Settled(h, 0) /\ r = <<>>
  BY <1>2 DEF Stage
<1>4. EntryOfServed' /\ OthersSettled(h)' /\ Settled(h, 0)'
  BY <1>1, <1>2, <1>3, NothingStored DEF AloneInv
<1>5. \/ Do("server", <<Step("event", h, "avail")>>)
      \/ Do("server", <<>>)
  BY <1>2 DEF IfOverloaded
<1>6. CASE Do("server", <<Step("event", h, "avail")>>)
  <2>1. todo' = [todo EXCEPT !["server"] = Then(Step("event", h, "avail"), r)]
    BY <1>2, <1>6, DoOne
  <2>2. Stage("event", h, "avail", r)'
    BY <1>3, <1>4 DEF Stage, Rests
  <2>3. "event" \in Ops /\ "avail" \in Events
    BY DEF Ops, Events
  <2> QED BY <1>4, <2>1, <2>2, <2>3, NextStage
<1>7. CASE Do("server", <<>>)
  <2>1. todo' = [todo EXCEPT !["server"] = <<>>]
    BY <1>2, <1>3, <1>7, DoNothing
  <2> QED BY <1>4, <2>1, GoesOn
<1> QED BY <1>5, <1>6, <1>7

-----------------------------------------------------------------------------
(* A cpu that is lent or given back, without the search *)

\* The sockets that hold a cpu of a host.
LEMMA LentFinite ==
  ASSUME NEW h
  PROVE  IsFiniteSet({s \in Sock : assignedCpus[DpropOf[h]][s] = h})
<1>1. {s \in Sock : assignedCpus[DpropOf[h]][s] = h} \subseteq Sock
  OBVIOUS
<1> QED BY <1>1, SockAssumption, FS_Subset

\* One more client has a cpu of the host.
LEMMA LentMore ==
  ASSUME TypeOK, NEW h \in Host, NEW s \in Sock, assignedCpus[DpropOf[h]][s] = None,
         assignedCpus' = [assignedCpus EXCEPT
                            ![DpropOf[h]] = [assignedCpus[DpropOf[h]] EXCEPT ![s] = h]]
  PROVE  \A k \in Host : lentCpus(k)' = IF k = h THEN lentCpus(h) + 1 ELSE lentCpus(k)
<1>1. h # None /\ DpropOf[h] \in Dprop
  BY NoneAssumption, HostAssumption
<1>2. ASSUME NEW k \in Host
      PROVE  {x \in Sock : assignedCpus'[DpropOf[k]][x] = k}
               = {x \in Sock : assignedCpus[DpropOf[k]][x] = k}
                   \cup (IF k = h THEN {s} ELSE {})
  <2>1. ASSUME NEW x \in Sock
        PROVE  assignedCpus'[DpropOf[k]][x] = IF DpropOf[k] = DpropOf[h] /\ x = s THEN h
                                              ELSE assignedCpus[DpropOf[k]][x]
    BY <1>1, HostAssumption DEF TypeOK
  <2>2. k # None
    BY NoneAssumption
  <2>3. ASSUME NEW x \in Sock
        PROVE  assignedCpus'[DpropOf[k]][x] = k
                 <=> assignedCpus[DpropOf[k]][x] = k \/ (k = h /\ x = s)
    BY <2>1, <2>2
  <2>4. CASE k = h
    BY <2>3, <2>4
  <2>5. CASE k # h
    BY <2>3, <2>5
  <2> QED BY <2>4, <2>5
<1>3. ASSUME NEW k \in Host, k # h
      PROVE  lentCpus(k)' = lentCpus(k)
  BY <1>2, <1>3 DEF lentCpus
<1>4. lentCpus(h)' = lentCpus(h) + 1
  <2>1. PICK S : S = {x \in Sock : assignedCpus[DpropOf[h]][x] = h}
    OBVIOUS
  <2>2. IsFiniteSet(S) /\ s \notin S
    BY <1>1, <2>1, LentFinite
  <2>3. lentCpus(h) = Cardinality(S) /\ lentCpus(h)' = Cardinality(S \cup {s})
    BY <1>2, <2>1 DEF lentCpus
  <2> QED BY <2>2, <2>3, FS_AddElement
<1> QED BY <1>3, <1>4

\* One client has given up its cpu, if it had one of the host.
LEMMA LentLess ==
  ASSUME TypeOK, NEW d \in Dprop, NEW s \in Sock, NEW h, h = assignedCpus[d][s],
         assignedCpus' = [assignedCpus EXCEPT ![d][s] = None]
  PROVE  \A k \in Host : /\ k # h => lentCpus(k)' = lentCpus(k)
                         /\ lentCpus(k)' + 1 >= lentCpus(k)
<1>1. ASSUME NEW k \in Host
      PROVE  \/ {x \in Sock : assignedCpus'[DpropOf[k]][x] = k}
                  = {x \in Sock : assignedCpus[DpropOf[k]][x] = k}
             \/ k = h /\ {x \in Sock : assignedCpus'[DpropOf[k]][x] = k}
                  = {x \in Sock : assignedCpus[DpropOf[k]][x] = k} \ {s}
  <2>1. k # None /\ DpropOf[k] \in Dprop
    BY NoneAssumption, HostAssumption
  <2>2. ASSUME NEW x \in Sock
        PROVE  assignedCpus'[DpropOf[k]][x] = IF DpropOf[k] = d /\ x = s THEN None
                                              ELSE assignedCpus[DpropOf[k]][x]
    BY <2>1 DEF TypeOK
  <2>3. CASE k = h /\ DpropOf[k] = d
    <3>1. ASSUME NEW x \in Sock
          PROVE  assignedCpus'[DpropOf[k]][x] = k
                   <=> assignedCpus[DpropOf[k]][x] = k /\ x # s
      BY <2>1, <2>2, <2>3
    <3> QED BY <2>3, <3>1
  <2>4. CASE ~(k = h /\ DpropOf[k] = d)
    <3>1. ASSUME NEW x \in Sock
          PROVE  assignedCpus'[DpropOf[k]][x] = k <=> assignedCpus[DpropOf[k]][x] = k
      BY <2>1, <2>2, <2>4
    <3> QED BY <3>1
  <2> QED BY <2>3, <2>4
<1>2. ASSUME NEW k \in Host
      PROVE  lentCpus(k)' + 1 >= lentCpus(k)
  <2>1. PICK S : S = {x \in Sock : assignedCpus[DpropOf[k]][x] = k}
    OBVIOUS
  <2>2. PICK T : T = {x \in Sock : assignedCpus'[DpropOf[k]][x] = k}
    OBVIOUS
  <2>3. T = S \/ T = S \ {s}
    BY <1>1, <2>1, <2>2
  <2>4. IsFiniteSet(S) /\ Cardinality(S) \in Nat
    BY <2>1, LentFinite, FS_CardinalityType
  <2>5. Cardinality(T) + 1 >= Cardinality(S)
    <3>1. CASE T = S
      BY <2>4, <3>1
    <3>2. CASE T = S \ {s}
      <4>1. Cardinality(S \ {s}) = IF s \in S THEN Cardinality(S) - 1 ELSE Cardinality(S)
        BY <2>4, FS_RemoveElement
      <4> QED BY <2>4, <3>2, <4>1
    <3> QED BY <2>3, <3>1, <3>2
  <2> QED BY <2>1, <2>2, <2>5 DEF lentCpus
<1>3. ASSUME NEW k \in Host, k # h
      PROVE  lentCpus(k)' = lentCpus(k)
  BY <1>1, <1>3 DEF lentCpus
<1> QED BY <1>2, <1>3

\* Only the count of the cpus that are lent changes.
LEMMA SettledLent ==
  ASSUME NEW h \in Host, NEW t, NEW d, NEW e, SettledIn(h, t, d),
         UNCHANGED <<host, tierKeys>>, t \in Tier, TypeOK,
         lentCpus(h)' + e >= lentCpus(h) + d, lentCpus(h)' \in Nat, d \in Nat, e \in Nat
  PROVE  SettledIn(h, t, e)'
<1>1. host[h].state = "available" => host[h].cpus[t] + lentCpus(h) + d >= NCpus[h]
  BY DEF SettledIn
<1>2. host[h].cpus[t] \in Nat /\ NCpus[h] \in Nat /\ lentCpus(h) \in Nat
  BY LentNat, HostAssumption DEF TypeOK, HostRec
<1>3. PICK c, l, m, n : c = host[h].cpus[t] /\ l = lentCpus(h) /\ m = lentCpus(h)' /\ n = NCpus[h]
  OBVIOUS
<1>4. c + l + d >= n => c + m + e >= n
  BY <1>2, <1>3
<1>5. host[h].state = "available" => host'[h].cpus[t] + lentCpus(h)' + e >= NCpus[h]
  BY <1>1, <1>3, <1>4
<1> QED BY <1>5 DEF SettledIn

\* The cpu that was taken is now lent.
LEMMA AssignAlone == ASSUME ThreadsInv, AloneInv, AssignCpuToClient PROVE AloneInv'
<1>1. /\ At("server", "assign") /\ Do("server", <<>>) /\ UNCHANGED <<host, tierKeys>>
  BY DEF AssignCpuToClient
<1>2. PICK x \in StepRec, r \in Seq(StepRec) :
        /\ x = Head(todo["server"]) /\ r = Tail(todo["server"])
        /\ x.op = "assign" /\ StepOK(x) /\ Stage("assign", x.host, x.arg, r)
        /\ OthersSettled(x.host)
  BY <1>1, StageNow
<1>3. PICK h, s, d : h = x.host /\ s = x.arg /\ d = DpropOf[h]
  OBVIOUS
<1>4. h \in Host /\ s \in Sock /\ d \in Dprop /\ TypeOK
  BY <1>2, <1>3, HostAssumption DEF StepOK, StepShape, ThreadsInv, ThreadsTypeOK
<1>5. Settled(h, 1) /\ r = <<>> /\ conn[s] # "serving"
  BY <1>2, <1>3 DEF Stage
<1>6. /\ sock2Dprop[s] = None /\ d # None
      /\ \A e \in Dprop : assignedCpus[e][s] = None
  <2>1. EntryOfServed
    BY DEF AloneInv
  <2>2. sock2Dprop[s] = None /\ \A e \in Dprop : e # None
    BY <1>4, <1>5, <2>1, NoneAssumption DEF EntryOfServed
  <2> QED BY <1>4, <2>1, <2>2 DEF EntryOfServed
<1>7. /\ assignedCpus' = [assignedCpus EXCEPT ![d] = [assignedCpus[d] EXCEPT ![s] = h]]
      /\ sock2Dprop' = [sock2Dprop EXCEPT ![s] = d]
      /\ conn' = [conn EXCEPT ![s] = "serving"]
  <2>1. /\ assignedCpus' = [assignedCpus EXCEPT ![d] = insert(assignedCpus[d], s, h)]
        /\ sock2Dprop' = insert(sock2Dprop, s, d)
        /\ conn' = [conn EXCEPT ![s] = "serving"]
    BY <1>2, <1>3 DEF AssignCpuToClient
  <2>2. /\ insert(assignedCpus[d], s, h) = [assignedCpus[d] EXCEPT ![s] = h]
        /\ insert(sock2Dprop, s, d) = [sock2Dprop EXCEPT ![s] = d]
    BY <1>4, <1>6 DEF insert
  <2> QED BY <2>1, <2>2
<1>8. EntryOfServed'
  <2>1. ASSUME NEW y \in Sock
        PROVE  /\ conn'[y] = IF y = s THEN "serving" ELSE conn[y]
               /\ sock2Dprop'[y] = IF y = s THEN d ELSE sock2Dprop[y]
               /\ \A e \in Dprop : assignedCpus'[e][y] = IF e = d /\ y = s THEN h
                                                         ELSE assignedCpus[e][y]
    BY <1>4, <1>7 DEF TypeOK
  <2>2. ASSUME NEW y \in Sock
        PROVE  /\ conn'[y] # "serving" => sock2Dprop'[y] = None
               /\ \A e \in Dprop : assignedCpus'[e][y] # None => sock2Dprop'[y] = e
    <3>1. CASE y = s
      BY <1>6, <2>1, <3>1
    <3>2. CASE y # s
      BY <2>1, <3>2 DEF AloneInv, EntryOfServed
    <3> QED BY <3>1, <3>2
  <2> QED BY <2>2 DEF EntryOfServed
<1>9. \A k \in Host : lentCpus(k)' = IF k = h THEN lentCpus(h) + 1 ELSE lentCpus(k)
  BY <1>3, <1>4, <1>6, <1>7, LentMore
<1>10. OthersSettled(h)'
  BY <1>1, <1>2, <1>3, <1>4, <1>9, OthersKept
<1>11. Settled(h, 0)'
  <2>1. PICK t : t = TierOf(h) /\ t = TierOf(h)'
    BY <1>1 DEF TierOf
  <2>2. t \in Tier
    <3>1. host[h].ld \in Load
      BY <1>4 DEF TypeOK, HostRec
    <3>2. t = calcTier(host[h].ld, PIndex[h])
      BY <2>1 DEF TierOf
    <3> QED BY <1>4, <3>1, <3>2, TierType
  <2>3. lentCpus(h)' + 0 = lentCpus(h) + 1 /\ lentCpus(h)' \in Nat
    BY <1>4, <1>9, LentNat
  <2>4. SettledIn(h, t, 1)
    BY <1>5, <2>1 DEF Settled
  <2>5. SettledIn(h, t, 0)'
    <3>1. lentCpus(h)' + 0 >= lentCpus(h) + 1
      BY <2>3
    <3> QED BY <1>1, <1>4, <2>2, <2>3, <2>4, <3>1, SettledLent
  <2> QED BY <2>1, <2>5 DEF Settled
<1>12. todo' = [todo EXCEPT !["server"] = <<>>]
  BY <1>1, <1>2, <1>5, DoNothing
<1> QED BY <1>4, <1>8, <1>10, <1>11, <1>12, GoesOn

\* The cpu that was lent goes back only to an available host.
LEMMA GiveBackAlone == ASSUME ThreadsInv, AloneInv, GiveBack PROVE AloneInv'
<1>1. At("server", "giveBack") /\ UNCHANGED vars
  BY DEF GiveBack
<1>2. PICK x \in StepRec, r \in Seq(StepRec) :
        /\ x = Head(todo["server"]) /\ r = Tail(todo["server"])
        /\ x.op = "giveBack" /\ StepOK(x) /\ Stage("giveBack", x.host, x.arg, r)
        /\ OthersSettled(x.host)
  BY <1>1, StageNow
<1>3. PICK h : h = x.host
  OBVIOUS
<1>4. h \in Host
  BY <1>2, <1>3 DEF StepOK, StepShape
<1>5. Settled(h, 1) /\ r = <<>>
  BY <1>2, <1>3 DEF Stage
<1>6. /\ EntryOfServed' /\ OthersSettled(h)' /\ Settled(h, 1)'
      /\ Settled(h, 0) => Settled(h, 0)'
  BY <1>1, <1>2, <1>3, <1>4, <1>5, NothingStored DEF AloneInv
<1>7. CASE host[h].state = "available"
  <2>1. Do("server", <<Step("addCpu", h, None)>>)
    BY <1>2, <1>3, <1>7 DEF GiveBack
  <2>2. todo' = [todo EXCEPT !["server"] = Then(Step("addCpu", h, None), r)]
    BY <1>2, <2>1, DoOne
  <2>3. host'[h].state = "available"
    BY <1>1, <1>7 DEF vars
  <2>4. Stage("addCpu", h, None, r)'
    BY <1>5, <1>6, <2>3 DEF Stage
  <2>5. "addCpu" \in Ops
    BY DEF Ops
  <2> QED BY <1>4, <1>6, <2>2, <2>4, <2>5, NextStage
<1>8. CASE host[h].state # "available"
  <2>1. Do("server", <<>>)
    BY <1>2, <1>3, <1>8 DEF GiveBack
  <2>2. todo' = [todo EXCEPT !["server"] = <<>>]
    BY <1>2, <1>5, <2>1, DoNothing
  <2>3. Settled(h, 0)
    BY <1>5, <1>8, SettledOut DEF Settled
  <2> QED BY <1>4, <1>6, <2>2, <2>3, GoesOn
<1> QED BY <1>7, <1>8

\* The cpu is in the pool again.
LEMMA AddCpuAlone == ASSUME ThreadsInv, AloneInv, AddCpu PROVE AloneInv'
<1>1. At("server", "addCpu") /\ Do("server", <<>>) /\ UNCHANGED clientVars
  BY Zenon DEF AddCpu
<1>2. PICK x \in StepRec, r \in Seq(StepRec) :
        /\ x = Head(todo["server"]) /\ r = Tail(todo["server"])
        /\ x.op = "addCpu" /\ StepOK(x) /\ Stage("addCpu", x.host, x.arg, r)
        /\ OthersSettled(x.host)
  BY <1>1, StageNow
<1>3. PICK h, t : h = x.host /\ t = TierOf(h)
  OBVIOUS
<1>4. h \in Host /\ TypeOK /\ host[h].state = "available"
  BY <1>2, <1>3 DEF StepOK, StepShape, ThreadsInv, ThreadsTypeOK, Stage
<1>5. SettledIn(h, t, 1) /\ r = <<>>
  BY <1>2, <1>3 DEF Stage, Settled
<1>6. t \in Tier /\ \A y \in Tier : host[h].cpus[y] \in Nat
  BY <1>3, <1>4, HostFacts
<1>7. PICK v : v = addCpusToTier(View(h), t, 1)
  OBVIOUS
<1>8. ~InPool("silent")
  BY DEF AloneInv, InPool, At
<1>9. SetView(h, v)
  BY <1>2, <1>3, <1>7, <1>8, TierOfView DEF AddCpu
<1>10. View(h) \in ViewSet /\ View(h).r = host[h] /\ View(h).keys = tierKeys[DpropOf[h]]
  BY <1>4, ViewType DEF View
<1>11. /\ v \in ViewSet /\ v.keys = tierKeys[DpropOf[h]] \cup {t}
       /\ v.r.state = host[h].state /\ v.r.sets = host[h].sets /\ v.r.ld = host[h].ld
       /\ \A y \in Tier : v.r.cpus[y] = IF y = t THEN host[h].cpus[y] + 1 ELSE host[h].cpus[y]
  <2>1. PICK w \in ViewSet : w = View(h)
    BY <1>10
  <2>2. v = addCpusToTier(w, t, 1) /\ t \in Tier /\ 1 \in Nat
    BY <1>6, <1>7, <2>1
  <2>3. /\ v \in ViewSet /\ v.keys = w.keys \cup {t}
        /\ v.r.state = w.r.state /\ v.r.sets = w.r.sets /\ v.r.ld = w.r.ld
        /\ \A y \in Tier : v.r.cpus[y] = IF y = t THEN w.r.cpus[y] + 1 ELSE w.r.cpus[y]
    BY <2>2, AddCpus
  <2> QED BY <1>10, <2>1, <2>3
<1>12. /\ host'[h] = v.r /\ tierKeys'[DpropOf[h]] = v.keys
       /\ EntryOfServed' /\ OthersSettled(h)' /\ lentCpus(h)' = lentCpus(h)
  BY <1>1, <1>2, <1>3, <1>4, <1>9, <1>11, ViewStored DEF AloneInv
<1>13. ASSUME NEW y \in Tier, v.r.cpus[y] > 0
       PROVE  y = t
  BY <1>5, <1>6, <1>11, <1>13 DEF SettledIn
<1>14. v.r.cpus[t] + lentCpus(h)' + 0 >= NCpus[h]
  <2>1. host[h].cpus[t] + lentCpus(h) + 1 >= NCpus[h]
    BY <1>4, <1>5 DEF SettledIn
  <2>2. v.r.cpus[t] = host[h].cpus[t] + 1 /\ host[h].cpus[t] \in Nat
    BY <1>6, <1>11
  <2>3. lentCpus(h) \in Nat /\ NCpus[h] \in Nat /\ lentCpus(h)' = lentCpus(h)
    BY <1>4, <1>12, LentNat, HostAssumption
  <2> QED BY <2>1, <2>2, <2>3
<1>15. host[h].sets = {"available"}
  BY <1>4, <1>5 DEF SettledIn
<1>16. SettledIn(h, t, 0)' /\ t = TierOf(h)'
  BY <1>3, <1>4, <1>11, <1>12, <1>13, <1>14, <1>15 DEF SettledIn, TierOf
<1>17. todo' = [todo EXCEPT !["server"] = <<>>]
  BY <1>1, <1>2, <1>5, DoNothing
<1> QED BY <1>4, <1>12, <1>16, <1>17, GoesOn DEF Settled

\* Each step of the server keeps the invariant.
LEMMA ServerStepAlone == ASSUME ThreadsInv, AloneInv, ServerStep PROVE AloneInv'
BY EventAlone, DelCpusAlone, RemoveFromDbAlone, SetStateAlone, ReadStateAlone, AddToDbAlone,
   MoveCpusAlone, StoreLdAlone, SetLdAlone, StampAlone, IfSilentAlone, IfOverloadedAlone,
   AssignAlone, GiveBackAlone, AddCpuAlone DEF ServerStep, MethodStep

-----------------------------------------------------------------------------
(* The beginnings of handlers, without the search *)

\* The server does nothing, and every host is as it should be.
LEMMA StartsSettled ==
  ASSUME ThreadsInv, AloneInv, Idle("server")
  PROVE  TypeOK /\ EntryOfServed /\ \A k \in Host : Settled(k, 0) /\ OthersSettled(k)
BY DEF ThreadsInv, ThreadsTypeOK, AloneInv, AtStage, Idle, OthersSettled

\* A load average message of a known host.
LEMMA LdAvgMsgAlone ==
  ASSUME ThreadsInv, AloneInv, NEW h \in Host, NEW ld \in Load, LdAvgMsg(h, ld)
  PROVE  AloneInv'
<1>1. PICK p : p = updateTierSteps(h, ld) \o <<Step("ifSilent", h, None)>>
  OBVIOUS
<1>2. /\ Idle("server") /\ todo' = [todo EXCEPT !["server"] = p] /\ UNCHANGED vars
  BY <1>1 DEF LdAvgMsg, Begin
<1>3. TypeOK /\ EntryOfServed /\ Settled(h, 0) /\ OthersSettled(h)
  BY <1>2, StartsSettled
<1>4. EntryOfServed' /\ OthersSettled(h)' /\ Settled(h, 0)'
  BY <1>2, <1>3, NothingStored
<1>5. PICK old, new : old = TierOf(h) /\ new = calcTier(ld, PIndex[h])
  OBVIOUS
<1>6. TierOf(h)' = old
  BY <1>2, <1>5 DEF vars, TierOf
<1>7. PICK c, m, o :
        /\ c = CASE calcTier(ld, PIndex[h]) = getTier(h, View(h)) -> <<>>
               [] calcTier(ld, PIndex[h]) # getTier(h, View(h)) /\ calcTier(ld, PIndex[h]) = 0
                    -> <<Step("event", h, "overloaded")>>
               [] calcTier(ld, PIndex[h]) # getTier(h, View(h)) /\ calcTier(ld, PIndex[h]) # 0
                    -> <<Step("moveCpus", h, ld)>>
        /\ m = <<Step("storeLd", h, ld), Step("setLd", h, ld), Step("stamp", h, None)>>
        /\ o = <<Step("ifSilent", h, None)>>
  OBVIOUS
<1>8. /\ new = old => c = <<>>
      /\ new # old /\ new = 0 => c = <<Step("event", h, "overloaded")>>
      /\ new # old /\ new # 0 => c = <<Step("moveCpus", h, ld)>>
  BY <1>5, <1>7, TierOfView
<1>9. /\ "storeLd" \in Ops /\ "setLd" \in Ops /\ "stamp" \in Ops /\ "ifSilent" \in Ops
      /\ "event" \in Ops /\ "moveCpus" \in Ops /\ "overloaded" \in Events
  BY DEF Ops, Events
<1>10. /\ Step("storeLd", h, ld) \in StepRec /\ Step("setLd", h, ld) \in StepRec
       /\ Step("stamp", h, None) \in StepRec /\ Step("ifSilent", h, None) \in StepRec
       /\ Step("event", h, "overloaded") \in StepRec /\ Step("moveCpus", h, ld) \in StepRec
  BY <1>9, StepTyped
<1>11. p = (c \o m) \o o
  BY <1>1, <1>7 DEF updateTierSteps
<1>12. c \in Seq(StepRec) /\ m \in Seq(StepRec) /\ o \in Seq(StepRec)
  BY <1>7, <1>8, <1>10
<1>13. m \o o = LdRest(h, ld)
  <2>1. o = Then(Step("ifSilent", h, None), <<>>)
    BY <1>7, <1>12, ConcatEmptySeq DEF Then
  <2>2. m \o o = Then(Step("storeLd", h, ld), Then(Step("setLd", h, ld),
                                                 Then(Step("stamp", h, None), o)))
    <3>1. PICK w \in StepRec, x \in StepRec, y \in StepRec :
            /\ w = Step("storeLd", h, ld) /\ x = Step("setLd", h, ld)
            /\ y = Step("stamp", h, None)
      BY <1>10
    <3>2. <<w, x, y>> \o o = Then(w, Then(x, Then(y, o)))
      BY <1>12, ThreeThen
    <3> QED BY <1>7, <3>1, <3>2
  <2> QED BY <2>1, <2>2 DEF LdRest, LdEnd
<1>14. p = c \o LdRest(h, ld)
  <2>1. (c \o m) \o o = c \o (m \o o)
    BY <1>12, ConcatAssociative
  <2> QED BY <1>11, <1>13, <2>1
<1>15. LdRest(h, ld) \in Seq(StepRec) /\ LdRest(h, ld) \in Rests(h)
  BY LdRestTyped DEF Rests
<1>16. CASE new = old
  <2>1. p = LdRest(h, ld)
    BY <1>8, <1>14, <1>15, <1>16, ConcatEmptySeq
  <2>2. PICK q \in Seq(StepRec) : q = Then(Step("setLd", h, ld), LdEnd(h))
    BY LdRestTyped
  <2>3. Stage("storeLd", h, ld, q)'
    BY <1>4, <1>5, <1>6, <1>16, <2>2 DEF Stage, Settled
  <2>4. todo' = [todo EXCEPT !["server"] = Then(Step("storeLd", h, ld), q)]
    BY <1>2, <2>1, <2>2 DEF LdRest
  <2> QED BY <1>4, <1>9, <2>3, <2>4, NextStage
<1>17. CASE new # old /\ new = 0
  <2>1. c = <<Step("event", h, "overloaded")>>
    BY <1>8, <1>17
  <2>2. todo' = [todo EXCEPT !["server"] = Then(Step("event", h, "overloaded"), LdRest(h, ld))]
    BY <1>2, <1>14, <2>1 DEF Then
  <2>3. Stage("event", h, "overloaded", LdRest(h, ld))'
    BY <1>4, <1>15 DEF Stage
  <2> QED BY <1>4, <1>9, <1>15, <2>2, <2>3, NextStage
<1>18. CASE new # old /\ new # 0
  <2>1. c = <<Step("moveCpus", h, ld)>>
    BY <1>8, <1>18
  <2>2. todo' = [todo EXCEPT !["server"] = Then(Step("moveCpus", h, ld), LdRest(h, ld))]
    BY <1>2, <1>14, <2>1 DEF Then
  <2>3. Stage("moveCpus", h, ld, LdRest(h, ld))'
    BY <1>4, <1>5, <1>6, <1>18 DEF Stage
  <2> QED BY <1>4, <1>9, <1>15, <2>2, <2>3, NextStage
<1> QED BY <1>16, <1>17, <1>18

\* A status message of a known host.
LEMMA StatusMsgAlone ==
  ASSUME ThreadsInv, AloneInv, NEW h \in Host, NEW up \in BOOLEAN, StatusMsg(h, up)
  PROVE  AloneInv'
<1>1. PICK e : e = IF up THEN "avail" ELSE "unavail"
  OBVIOUS
<1>2. /\ Idle("server") /\ todo' = [todo EXCEPT !["server"] = <<Step("event", h, e)>>]
      /\ UNCHANGED vars
  BY <1>1 DEF StatusMsg, Begin
<1>3. TypeOK /\ EntryOfServed /\ Settled(h, 0) /\ OthersSettled(h)
  BY <1>2, StartsSettled
<1>4. EntryOfServed' /\ OthersSettled(h)' /\ Settled(h, 0)'
  BY <1>2, <1>3, NothingStored
<1>5. e \in Events /\ "event" \in Ops
  BY <1>1 DEF Events, Ops
<1>6. Step("event", h, e) \in StepRec
  BY <1>5, StepTyped
<1>7. <<Step("event", h, e)>> = Then(Step("event", h, e), <<>>)
  BY <1>6, ConcatEmptySeq DEF Then
<1>8. Stage("event", h, e, <<>>)'
  BY <1>4 DEF Stage, Rests
<1> QED BY <1>2, <1>4, <1>5, <1>7, <1>8, EmptyTyped, NextStage

\* A message of a new host.
LEMMA NewHostMsgAlone ==
  ASSUME ThreadsInv, AloneInv, NEW h \in Host, NewHostMsg(h)
  PROVE  AloneInv'
<1>1. PICK v : v = createHost(h, View(h))
  OBVIOUS
<1>2. /\ Idle("server") /\ UNCHANGED todo
      /\ h \in Listed \ allHosts /\ SetView(h, v) /\ UNCHANGED clientVars
  BY <1>1 DEF NewHostMsg, LdAvgNew, clientVars
<1>3. TypeOK /\ EntryOfServed /\ Settled(h, 0) /\ OthersSettled(h)
  BY <1>2, StartsSettled
<1>4. host[h].state = "none" /\ host[h] \in HostRec
  BY <1>2, <1>3 DEF allHosts, TypeOK
<1>5. host[h].sets = {} /\ \A x \in Tier : host[h].cpus[x] = 0
  <2>1. \A x \in Tier : host[h].cpus[x] \in Nat /\ ~(host[h].cpus[x] > 0)
    BY <1>3, <1>4 DEF Settled, SettledIn, HostRec
  <2> QED BY <1>3, <1>4, <2>1 DEF Settled, SettledIn
<1>6. PICK w : w = [View(h) EXCEPT !.r.state = "available"]
  OBVIOUS
<1>7. View(h) \in ViewSet /\ View(h).r = host[h] /\ View(h).keys = tierKeys[DpropOf[h]]
  BY <1>3, ViewType DEF View
<1>8. /\ w \in ViewSet /\ w.r.state = "available" /\ w.r.sets = host[h].sets
      /\ w.r.cpus = host[h].cpus /\ w.keys = tierKeys[DpropOf[h]]
  <2>1. "available" \in State
    BY DEF State
  <2> QED BY <1>4, <1>6, <1>7, <2>1 DEF ViewSet, HostRec
<1>9. v = addToAvailDb(h, w)
  BY <1>1, <1>2, <1>6 DEF createHost
<1>10. v \in ViewSet /\ tierKeys[DpropOf[h]] \subseteq v.keys
  BY <1>5, <1>8, <1>9, AddToAvailDb DEF Good
<1>11. /\ host'[h] = v.r /\ tierKeys'[DpropOf[h]] = v.keys
       /\ EntryOfServed' /\ OthersSettled(h)' /\ lentCpus(h)' = lentCpus(h)
  BY <1>2, <1>3, <1>10, ViewStored
<1>12. Settled(h, 0)'
  BY <1>5, <1>8, <1>9, <1>11, LentNat, AddedAvail
<1>13. \A k \in Host : Settled(k, 0)'
  BY <1>11, <1>12 DEF OthersSettled
<1>14. todo'["silent"] = <<>> /\ todo'["server"] = <<>>
  BY <1>2 DEF AloneInv, Idle
<1> QED BY <1>11, <1>13, <1>14 DEF AloneInv, AtStage

\* A cpu is taken: until it is assigned it is neither in the pool nor lent.
LEMMA GetBestAvailCpuAlone ==
  ASSUME ThreadsInv, AloneInv, NEW s \in Sock, NEW d \in Dprop, GetBestAvailCpu(s, d)
  PROVE  AloneInv'
<1>1. PICK c \in BestCpus(d) :
        /\ host' = [host EXCEPT ![c[1]].cpus[c[2]] = @ - 1]
        /\ Begin("server", <<Step("assign", c[1], s)>>)
  BY DEF GetBestAvailCpu
<1>2. PICK h, t : h = c[1] /\ t = c[2]
  OBVIOUS
<1>3. h \in Host /\ t \in Tier /\ host[h].cpus[t] > 0
  BY <1>1, <1>2 DEF BestCpus
<1>4. /\ Idle("server") /\ todo' = [todo EXCEPT !["server"] = <<Step("assign", h, s)>>]
      /\ conn[s] # "serving" /\ UNCHANGED <<tierKeys, clientVars>>
  BY <1>1, <1>2 DEF GetBestAvailCpu, Begin, MayAsk
<1>5. TypeOK /\ EntryOfServed /\ SettledIn(h, TierOf(h), 0) /\ OthersSettled(h)
  BY <1>3, <1>4, StartsSettled DEF Settled
<1>6. host[h].state = "available" /\ t = TierOf(h)
  BY <1>3, <1>5 DEF SettledIn
<1>7. host[h] \in HostRec /\ host[h].cpus \in [Tier -> Nat]
  BY <1>3, <1>5 DEF TypeOK, HostRec
<1>8. PICK n : n = [host[h].cpus EXCEPT ![t] = @ - 1]
  OBVIOUS
<1>9. n \in [Tier -> Nat] /\ \A x \in Tier : n[x] = IF x = t THEN host[h].cpus[t] - 1
                                                             ELSE host[h].cpus[x]
  BY <1>3, <1>7, <1>8
<1>10. PICK r : r = [host[h] EXCEPT !.cpus = n]
  OBVIOUS
<1>11. /\ r \in HostRec /\ r.state = host[h].state /\ r.sets = host[h].sets
       /\ r.ld = host[h].ld /\ r.cpus = n
  BY <1>7, <1>9, <1>10 DEF HostRec
<1>12. host' = [host EXCEPT ![h] = r]
  BY <1>1, <1>2, <1>8, <1>10
<1>13. /\ host'[h] = r /\ tierKeys' = tierKeys /\ EntryOfServed' /\ OthersSettled(h)'
       /\ lentCpus(h)' = lentCpus(h)
  BY <1>3, <1>4, <1>5, <1>11, <1>12, HostStored
<1>14. ASSUME NEW x \in Tier, n[x] > 0
       PROVE  x = t
  BY <1>5, <1>6, <1>9, <1>14 DEF SettledIn
<1>15. n[t] + lentCpus(h)' + 1 >= NCpus[h]
  <2>1. host[h].cpus[t] + lentCpus(h) + 0 >= NCpus[h]
    BY <1>5, <1>6 DEF SettledIn
  <2>2. n[t] = host[h].cpus[t] - 1 /\ host[h].cpus[t] \in Nat
    BY <1>3, <1>7, <1>9
  <2>3. lentCpus(h) \in Nat /\ NCpus[h] \in Nat /\ lentCpus(h)' = lentCpus(h)
    BY <1>3, <1>13, LentNat, HostAssumption
  <2> QED BY <2>1, <2>2, <2>3
<1>16. host[h].sets = {"available"} /\ t \in tierKeys[DpropOf[h]]
  BY <1>5, <1>6 DEF SettledIn
<1>17. SettledIn(h, t, 1)' /\ t = TierOf(h)'
  BY <1>6, <1>11, <1>13, <1>14, <1>15, <1>16 DEF SettledIn, TierOf
<1>18. Stage("assign", h, s, <<>>)'
  <2>1. conn'[s] # "serving"
    BY <1>4 DEF clientVars
  <2> QED BY <1>17, <2>1 DEF Stage, Settled
<1>19. "assign" \in Ops
  BY DEF Ops
<1>20. Step("assign", h, s) \in StepRec
  BY <1>3, <1>19, StepTyped
<1>21. <<Step("assign", h, s)>> = Then(Step("assign", h, s), <<>>)
  BY <1>20, ConcatEmptySeq DEF Then
<1> QED BY <1>3, <1>4, <1>13, <1>18, <1>19, <1>21, EmptyTyped, NextStage

\* A request is refused.
LEMMA NoCpuAlone ==
  ASSUME ThreadsInv, AloneInv, NEW s \in Sock, NEW d \in Dprop, NoCpu(s, d)
  PROVE  AloneInv'
<1>1. /\ Idle("server") /\ UNCHANGED todo /\ conn[s] # "serving"
      /\ conn' = [conn EXCEPT ![s] = "refused"]
      /\ UNCHANGED <<host, tierKeys, assignedCpus, sock2Dprop>>
  BY DEF NoCpu, HostReqRefused, MayAsk
<1>2. TypeOK /\ EntryOfServed /\ \A k \in Host : Settled(k, 0)
  BY <1>1, StartsSettled
<1>3. \A x \in Sock : conn'[x] # "serving" => conn[x] # "serving"
  BY <1>1, <1>2 DEF TypeOK
<1>4. EntryOfServed'
  BY <1>1, <1>2, <1>3 DEF EntryOfServed
<1>5. ASSUME NEW k \in Host
      PROVE  Settled(k, 0)'
  <2>1. PICK t : t = TierOf(k) /\ t = TierOf(k)'
    BY <1>1 DEF TierOf
  <2>2. lentCpus(k)' = lentCpus(k)
    BY <1>1 DEF lentCpus
  <2>3. SettledIn(k, t, 0)'
    BY <1>1, <1>2, <2>1, <2>2, SettledKept DEF Settled
  <2> QED BY <2>1, <2>3 DEF Settled
<1>6. todo'["silent"] = <<>> /\ todo'["server"] = <<>>
  BY <1>1 DEF AloneInv, Idle
<1> QED BY <1>4, <1>5, <1>6 DEF AloneInv, AtStage

\* A client closes: until its cpu is put back it is neither lent nor in the pool.
LEMMA ReleaseCpuAlone ==
  ASSUME ThreadsInv, AloneInv, NEW s \in Sock, ReleaseCpu(s)
  PROVE  AloneInv'
<1>1. PICK d : d = sock2Dprop[s]
  OBVIOUS
<1>3. /\ Idle("server") /\ sock2Dprop' = [sock2Dprop EXCEPT ![s] = None]
      /\ conn' = [conn EXCEPT ![s] = "closed"] /\ UNCHANGED <<host, tierKeys>>
  BY DEF ReleaseCpu, Begin
<1>4. TypeOK /\ EntryOfServed /\ \A k \in Host : Settled(k, 0) /\ OthersSettled(k)
  BY <1>3, StartsSettled
<1>5. todo["silent"] = <<>> /\ todo["server"] = <<>> /\ todo \in [Thread -> Seq(StepRec)]
  BY <1>3 DEF AloneInv, Idle, ThreadsInv, ThreadsTypeOK
<1>6. \A x \in Sock : /\ sock2Dprop'[x] = IF x = s THEN None ELSE sock2Dprop[x]
                      /\ conn'[x] = IF x = s THEN "closed" ELSE conn[x]
  BY <1>3, <1>4 DEF TypeOK
<1>7. CASE d # None /\ assignedCpus[d][s] # None
  <2>1. PICK h : h = assignedCpus[d][s]
    OBVIOUS
  <2>2. /\ assignedCpus' = [assignedCpus EXCEPT ![d][s] = None]
        /\ todo' = [todo EXCEPT !["server"] = <<Step("giveBack", h, None)>>]
    BY <1>1, <1>7, <2>1 DEF ReleaseCpu, Begin
  <2>3. d \in Dprop /\ h \in Host
    BY <1>1, <1>4, <1>7, <2>1 DEF TypeOK
  <2>4. ASSUME NEW x \in Sock, NEW e \in Dprop
        PROVE  assignedCpus'[e][x] = IF e = d /\ x = s THEN None ELSE assignedCpus[e][x]
    BY <1>4, <2>2, <2>3 DEF TypeOK
  <2>5. EntryOfServed'
    <3>1. ASSUME NEW x \in Sock
          PROVE  /\ conn'[x] # "serving" => sock2Dprop'[x] = None
                 /\ \A e \in Dprop : assignedCpus'[e][x] # None => sock2Dprop'[x] = e
      <4>1. CASE x = s
        BY <1>1, <1>4, <1>6, <2>4, <4>1 DEF EntryOfServed
      <4>2. CASE x # s
        BY <1>4, <1>6, <2>4, <4>2 DEF EntryOfServed
      <4> QED BY <4>1, <4>2
    <3> QED BY <3>1 DEF EntryOfServed
  <2>6. \A k \in Host : /\ k # h => lentCpus(k)' = lentCpus(k)
                        /\ lentCpus(k)' + 1 >= lentCpus(k)
    BY <1>4, <2>1, <2>2, <2>3, LentLess
  <2>7. OthersSettled(h)'
    BY <1>3, <1>4, <2>3, <2>6, OthersKept
  <2>8. Settled(h, 1)'
    <3>1. PICK t : t = TierOf(h) /\ t = TierOf(h)'
      BY <1>3 DEF TierOf
    <3>2. t \in Tier
      <4>1. host[h].ld \in Load
        BY <1>4, <2>3 DEF TypeOK, HostRec
      <4>2. t = calcTier(host[h].ld, PIndex[h])
        BY <3>1 DEF TierOf
      <4> QED BY <2>3, <4>1, <4>2, TierType
    <3>3. lentCpus(h)' \in Nat
      <4>1. {x \in Sock : assignedCpus'[DpropOf[h]][x] = h} \subseteq Sock
        OBVIOUS
      <4> QED BY <4>1, SockAssumption, FS_Subset, FS_CardinalityType DEF lentCpus
    <3>4. lentCpus(h)' + 1 >= lentCpus(h) + 0
      BY <2>3, <2>6, LentNat
    <3>5. SettledIn(h, t, 0)
      BY <1>4, <2>3, <3>1 DEF Settled
    <3>6. SettledIn(h, t, 1)'
      BY <1>3, <1>4, <2>3, <3>2, <3>3, <3>4, <3>5, SettledLent
    <3> QED BY <3>1, <3>6 DEF Settled
  <2>9. Stage("giveBack", h, None, <<>>)'
    BY <2>8 DEF Stage
  <2>10. "giveBack" \in Ops
    BY DEF Ops
  <2>11. Step("giveBack", h, None) \in StepRec
    BY <2>3, <2>10, StepTyped
  <2>12. <<Step("giveBack", h, None)>> = Then(Step("giveBack", h, None), <<>>)
    BY <2>11, ConcatEmptySeq DEF Then
  <2> QED BY <2>2, <2>3, <2>5, <2>7, <2>9, <2>10, <2>12, EmptyTyped, NextStage
<1>8. CASE ~(d # None /\ assignedCpus[d][s] # None)
  <2>1. assignedCpus' = assignedCpus /\ todo' = [todo EXCEPT !["server"] = <<>>]
    BY <1>1, <1>8 DEF ReleaseCpu, Begin
  <2>2. EntryOfServed'
    <3>1. ASSUME NEW x \in Sock
          PROVE  /\ conn'[x] # "serving" => sock2Dprop'[x] = None
                 /\ \A e \in Dprop : assignedCpus'[e][x] # None => sock2Dprop'[x] = e
      <4>1. CASE x = s
        BY <1>1, <1>4, <1>6, <1>8, <2>1, <4>1, NoneAssumption DEF EntryOfServed
      <4>2. CASE x # s
        BY <1>4, <1>6, <2>1, <4>2 DEF EntryOfServed
      <4> QED BY <4>1, <4>2
    <3> QED BY <3>1 DEF EntryOfServed
  <2>3. ASSUME NEW k \in Host
        PROVE  Settled(k, 0)'
    <3>1. PICK t : t = TierOf(k) /\ t = TierOf(k)'
      BY <1>3 DEF TierOf
    <3>2. lentCpus(k)' = lentCpus(k)
      BY <2>1 DEF lentCpus
    <3>3. SettledIn(k, t, 0)'
      BY <1>3, <1>4, <3>1, <3>2, SettledKept DEF Settled
    <3> QED BY <3>1, <3>3 DEF Settled
  <2>4. todo'["silent"] = <<>> /\ todo'["server"] = <<>>
    BY <1>5, <2>1 DEF Thread
  <2> QED BY <2>2, <2>3, <2>4 DEF AloneInv, AtStage
<1> QED BY <1>7, <1>8

-----------------------------------------------------------------------------
(* The other threads, and the theorem *)

\* A stage does not depend on when a host was heard of or on the statistics.
LEMMA StageKept ==
  ASSUME NEW h, NEW op, NEW a, NEW r, Stage(op, h, a, r),
         host'[h].sets = host[h].sets, host'[h].state = host[h].state,
         host'[h].cpus = host[h].cpus, host'[h].ld = host[h].ld,
         UNCHANGED <<tierKeys, assignedCpus, conn>>
  PROVE  Stage(op, h, a, r)'
<1>1. lentCpus(h)' = lentCpus(h)
  BY DEF lentCpus
<1>2. TierOf(h)' = TierOf(h) /\ (Out(h) => Out(h)') /\ (NoCpus(h) => NoCpus(h)')
  BY DEF TierOf, Out, NoCpus
<1>3. \A t, d : SettledIn(h, t, d) => SettledIn(h, t, d)'
  BY <1>1, SettledKept
<1>4. \A d : Settled(h, d) => Settled(h, d)'
  <2> SUFFICES ASSUME NEW d, Settled(h, d)
               PROVE  Settled(h, d)'
    OBVIOUS
  <2>1. PICK t : t = TierOf(h) /\ t = TierOf(h)'
    BY <1>2
  <2> QED BY <1>3, <2>1 DEF Settled
<1>5. \A x \in {"event", "delCpus", "removeFromDb", "setState", "addToDb", "addTo"} :
        op = x => Stage(x, h, a, r)'
  BY <1>2, <1>4 DEF Stage
<1>6. \A x \in {"moveCpus", "storeLd", "setLd", "stamp", "ifSilent", "ifOverloaded"} :
        op = x => Stage(x, h, a, r)'
  BY <1>2, <1>3, <1>4 DEF Stage
<1>7. \A x \in {"assign", "giveBack", "addCpu"} : op = x => Stage(x, h, a, r)'
  BY <1>4 DEF Stage
<1>8. CASE op \notin {"event", "delCpus", "removeFromDb", "setState", "addToDb", "addTo",
                      "moveCpus", "storeLd", "setLd", "stamp", "ifSilent", "ifOverloaded",
                      "assign", "giveBack", "addCpu"}
  BY <1>8 DEF Stage
<1> QED BY <1>5, <1>6, <1>7, <1>8

\* A step of another thread that leaves what the invariant is about.
LEMMA OtherAlone ==
  ASSUME ThreadsInv, AloneInv, UNCHANGED <<todo, tierKeys, assignedCpus, sock2Dprop, conn>>,
         \A h \in Host : /\ host'[h].sets = host[h].sets /\ host'[h].state = host[h].state
                         /\ host'[h].cpus = host[h].cpus /\ host'[h].ld = host[h].ld
  PROVE  AloneInv'
<1>1. EntryOfServed'
  BY DEF AloneInv, EntryOfServed
<1>2. ASSUME NEW k \in Host, Settled(k, 0)
      PROVE  Settled(k, 0)'
  <2>1. lentCpus(k)' = lentCpus(k)
    BY DEF lentCpus
  <2>2. PICK t : t = TierOf(k) /\ t = TierOf(k)'
    BY DEF TierOf
  <2>3. SettledIn(k, t, 0)
    BY <1>2, <2>2 DEF Settled
  <2>4. SettledIn(k, t, 0)'
    BY <2>1, <2>3, SettledKept
  <2> QED BY <2>2, <2>4 DEF Settled
<1>3. CASE todo["server"] = <<>>
  BY <1>1, <1>2, <1>3 DEF AloneInv, AtStage
<1>4. CASE todo["server"] # <<>>
  <2>1. PICK q : q = todo["server"] /\ q = todo'["server"]
    OBVIOUS
  <2>2. PICK x : x = Head(q)
    OBVIOUS
  <2>3. Stage(x.op, x.host, x.arg, Tail(q)) /\ OthersSettled(x.host)
    BY <1>4, <2>1, <2>2 DEF AloneInv, AtStage
  <2>4. x.host \in Host
    <3>1. At("server", x.op)
      BY <1>4, <2>1, <2>2 DEF At
    <3>2. "server" \in Thread /\ x.op # "unlock"
      BY <2>3 DEF Thread, Stage
    <3> QED BY <2>1, <2>2, <3>1, <3>2, HeadOK DEF StepOK, StepShape
  <2>5. Stage(x.op, x.host, x.arg, Tail(q))'
    BY <2>3, <2>4, StageKept
  <2>6. OthersSettled(x.host)'
    BY <1>2, <2>3 DEF OthersSettled
  <2>7. AtStage(q)'
    BY <1>4, <2>1, <2>2, <2>5, <2>6 DEF AtStage
  <2> QED BY <1>1, <2>1, <2>7 DEF AloneInv
<1> QED BY <1>3, <1>4

\* The invariant holds before the first message.
LEMMA AloneInit == TInit => AloneInv
<1> SUFFICES ASSUME TInit
             PROVE  AloneInv
  OBVIOUS
<1>1. todo["silent"] = <<>> /\ todo["server"] = <<>>
  BY DEF TInit, Thread
<1>2. EntryOfServed
  BY DEF TInit, Init, EntryOfServed
<1>3. ASSUME NEW h \in Host
      PROVE  Settled(h, 0)
  <2>1. host[h].sets = {} /\ host[h].state = "none" /\ \A t \in Tier : host[h].cpus[t] = 0
    BY DEF TInit, Init, NoHost
  <2> QED BY <2>1 DEF Settled, SettledIn
<1> QED BY <1>1, <1>2, <1>3 DEF AloneInv, AtStage

\* Without the search every step keeps the invariant.
LEMMA AloneNext ==
  ASSUME ~Searching, ThreadsInv, AloneInv, [TNext]_tvars
  PROVE  AloneInv'
<1>1. CASE Receive
  BY <1>1, LdAvgMsgAlone, NewHostMsgAlone, StatusMsgAlone, GetBestAvailCpuAlone, NoCpuAlone,
     ReleaseCpuAlone DEF Receive
<1>2. CASE ServerStep
  BY <1>2, ServerStepAlone
<1>3. CASE HandleSilentHosts
  BY <1>3 DEF HandleSilentHosts
<1>4. ~SilentStep
  <2>1. \A op : ~At("silent", op)
    BY DEF AloneInv, At
  <2> QED BY <2>1 DEF SilentStep, MethodStep, Event, DelCpus, RemoveFromDb, SetState, ReadState,
             AddToDb, SeemsDown, Unlock
<1>5. CASE GetStatsFromDb
  BY <1>5, OtherAlone DEF GetStatsFromDb, getStatsFromDb
<1>6. ASSUME NEW h \in Host, TimePasses(h)
      PROVE  AloneInv'
  <2>1. host' = [host EXCEPT ![h].quiet = TRUE]
        /\ UNCHANGED <<todo, tierKeys, assignedCpus, sock2Dprop, conn>>
    BY <1>6 DEF TimePasses, Elapse
  <2>2. host \in [Host -> HostRec]
    BY DEF ThreadsInv, ThreadsTypeOK, TypeOK
  <2>3. \A k \in Host : /\ host'[k].sets = host[k].sets /\ host'[k].state = host[k].state
                        /\ host'[k].cpus = host[k].cpus /\ host'[k].ld = host[k].ld
    BY <2>1, <2>2 DEF HostRec
  <2> QED BY <2>1, <2>3, OtherAlone
<1>7. CASE UNCHANGED tvars
  BY <1>7, OtherAlone DEF tvars, vars
<1> QED BY <1>1, <1>2, <1>3, <1>4, <1>5, <1>6, <1>7 DEF TNext

\* Without the search a handler's smaller steps amount to its step in DmucsDb: when the
\* server has nothing left to do, each host is in the sub-set of its state alone, only cpus
\* of available hosts are in the pool, each in the tier of its host's load, and no cpu is
\* lost.
THEOREM HandlersKeepDbAlways == TSpec => []HandlersKeepDb
<1>1. TInit => ThreadsInv /\ (~Searching => AloneInv)
  BY ThreadsInvInit, AloneInit
<1>2. /\ ThreadsInv /\ (~Searching => AloneInv)
      /\ [TNext]_tvars
      => ThreadsInv' /\ (~Searching => AloneInv)'
  BY ThreadsInvNext, AloneNext
<1>3. ThreadsInv /\ (~Searching => AloneInv) => HandlersKeepDb
  <2> SUFFICES ASSUME ThreadsInv, AloneInv, Quiescent
               PROVE  SetsMatchState /\ PoolMatchesState /\ CpusNeverLost
    BY DEF HandlersKeepDb
  <2>1. todo["server"] = <<>>
    BY DEF Quiescent, Idle, Thread
  <2>2. ASSUME NEW h \in Host
        PROVE  SettledIn(h, getTier(h, View(h)), 0)
    BY <2>1, TierOfView DEF AloneInv, AtStage, Settled
  <2>3. SetsMatchState
    BY <2>2 DEF SetsMatchState, SettledIn
  <2>4. PoolMatchesState
    BY <2>2 DEF PoolMatchesState, SettledIn
  <2>5. ASSUME NEW h \in Host, host[h].state = "available"
        PROVE  freeCpus(h) + lentCpus(h) >= NCpus[h]
    <3>1. freeCpus(h) + lentCpus(h) + 0 >= NCpus[h]
      BY <2>2, <2>5 DEF SettledIn, freeCpus
    <3>2. getTier(h, View(h)) \in Tier /\ TypeOK /\ NCpus[h] \in Nat
      BY ViewFields DEF ThreadsInv, ThreadsTypeOK
    <3>3. freeCpus(h) \in Nat /\ lentCpus(h) \in Nat
      BY <3>2, LentNat DEF freeCpus, TypeOK, HostRec
    <3> QED BY <3>1, <3>2, <3>3
  <2> QED BY <2>3, <2>4, <2>5 DEF CpusNeverLost
<1> QED BY <1>1, <1>2, <1>3, PTL DEF TSpec

=============================================================================
