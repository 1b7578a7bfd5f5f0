---------------------------- MODULE HostsFileProofs ----------------------------
(***************************************************************************)
(* Proofs about HostsFile: the types, that a host is found unless the file *)
(* could have missed it, and when an old copy of the file can be used.     *)
(***************************************************************************)
EXTENDS HostsFile, Positions, TLAPS

-----------------------------------------------------------------------------
(* What a read yields *)

\* A read gives each address an info or nothing (readFileIntoDb).
LEMMA ReadingType ==
  ASSUME HostsFileAssumption, NEW f \in File \cup {None}, NEW up \in SUBSET Machine
  PROVE  reading(f, up) \in [Addr -> Info \cup {None}]
<1>1. CASE f = None
  BY <1>1 DEF reading
<1>2. CASE f # None
  <2>1. f \in Seq(Line)
    BY <1>2 DEF HostsFileAssumption
  <2> SUFFICES ASSUME NEW a \in Addr PROVE contents(f, up)[a] \in Info \cup {None}
    BY <1>2 DEF reading, contents
  <2> DEFINE hits == {i \in DOMAIN f : /\ \A j \in 1..i : f[j].machine # None
                                       /\ f[i].machine \in up /\ AddrOf[f[i].machine] = a}
  <2>2. CASE hits = {}
    BY <2>2 DEF contents
  <2>3. CASE hits # {}
    <3>1. hits \in SUBSET Nat
      BY <2>1
    <3>2. \E i \in hits : \A j \in hits : i <= j
      BY <3>1, <2>3, FirstPosition
    <3> DEFINE first == CHOOSE i \in hits : \A j \in hits : i <= j
    <3>3. first \in hits
      BY <3>2
    <3>4. first \in DOMAIN f
      BY <3>3
    <3> HIDE DEF first
    <3>5. f[first] \in Line
      BY <3>4, <2>1
    <3>6. f[first].info \in Info
      BY <3>5 DEF Line
    <3> QED BY <3>6, <2>3 DEF contents, first
  <2> QED BY <2>2, <2>3
<1> QED BY <1>1, <1>2

\* What is read now is one of the things the file says now.
LEMMA ReadingSaid ==
  ASSUME NEW f, NEW a, NEW up \in SUBSET Machine, reading(f, up)[a] # None
  PROVE  reading(f, up)[a] \in sayings(f, a)
BY DEF sayings

\* The file says infos only.
LEMMA SayingsType ==
  ASSUME HostsFileAssumption, NEW f \in File \cup {None}, NEW a \in Addr
  PROVE  sayings(f, a) \subseteq Info
BY ReadingType DEF sayings

-----------------------------------------------------------------------------
(* Types *)

LEMMA TypeInit ==
  ASSUME HostsFileAssumption, Init
  PROVE  HostsFileTypeOK
<1> USE DEF Init, HostsFileAssumption
<1>1. ctime \in Nat \cup {None} /\ (ctime = None <=> file = None)
  OBVIOUS
<1>2. db \in [Addr -> Info \cup {None}]
  OBVIOUS
<1> QED BY <1>1, <1>2 DEF HostsFileTypeOK

LEMMA TypeNext ==
  ASSUME HostsFileAssumption, HostsFileTypeOK, [Next]_vars
  PROVE  HostsFileTypeOK'
<1> USE DEF HostsFileTypeOK
<1>1. ASSUME NEW a \in Addr, getInstance(a) PROVE HostsFileTypeOK'
  <2>1. seen' \subseteq Info
    BY <1>1, SayingsType DEF getInstance
  <2> QED BY <1>1, <2>1 DEF getInstance, disk
<1>2. ASSUME NEW by \in {"constructor", "lookup"}, readFileIntoDb(by)
      PROVE  /\ db' \in [Addr -> Info \cup {None}]
             /\ readAt' \in Nat /\ readBy' \in {"constructor", "lookup"}
  BY <1>2, ReadingType DEF readFileIntoDb
<1>3. ASSUME NEW changed \in BOOLEAN, hasFileChanged(changed)
      PROVE  lastFileChangeTime' \in Nat
  BY <1>3 DEF hasFileChanged
<1>4. CASE DmucsHostsFile
  BY <1>2, <1>4 DEF DmucsHostsFile, Keeps, disk
<1>5. CASE StatConstructed
  BY <1>3, <1>5 DEF StatConstructed, Keeps, disk
<1>6. CASE Stat
  BY <1>3, <1>6 DEF Stat, Keeps, disk
<1>7. CASE ReadChanged
  BY <1>2, <1>7 DEF ReadChanged, Keeps, disk
<1>8. CASE Find
  BY <1>8 DEF Find, Keeps, disk
<1>9. CASE FindAgain
  BY <1>2, <1>9 DEF FindAgain, Keeps, disk
<1>10. ASSUME NEW f \in File \cup {None}, NEW up \in SUBSET Machine, Sees(f, up)
       PROVE  seen' \subseteq Info /\ missed' \in BOOLEAN
  BY <1>10, SayingsType DEF Sees
<1>11. ASSUME NEW f \in File \cup {None}, Edit(f) PROVE HostsFileTypeOK'
  BY <1>10, <1>11 DEF Edit
<1>12. ASSUME NEW up \in SUBSET Machine, Resolve(up) PROVE HostsFileTypeOK'
  BY <1>10, <1>12 DEF Resolve
<1>13. CASE Tick
  BY <1>13 DEF Tick, history
<1>14. CASE UNCHANGED vars
  BY <1>14 DEF vars, disk, history
<1> QED
  BY <1>1, <1>4, <1>5, <1>6, <1>7, <1>8, <1>9, <1>11, <1>12, <1>13, <1>14
  DEF Next, getDataForHost

-----------------------------------------------------------------------------
(* Old copies.  A copy is old for a when what it has of a is not what the   *)
(* file says.                                                               *)

Old(a) == db[a] # None /\ db[a] \notin sayings(file, a)

\* The file has changed since it was read, when the copy is old.
ChangedSinceRead ==
  /\ readAt <= clock /\ lastFileChangeTime <= clock
  /\ file # None => ctime <= clock
  /\ \A a \in Addr : Old(a) /\ file # None => readAt <= ctime

\* The time of change that is kept is not later than the last read, the constructor's
\* and one that is about to be made excepted.
ReadAfterStat ==
  pc # "read" => lastFileChangeTime <= readAt \/ readBy = "constructor"

\* Until the constructor has ended, the last read is its own.
ConstructedBy == pc = "constructed" => readBy = "constructor"

\* The history of a lookup has what is so now.
HistoryNow ==
  pc # "idle" =>
    /\ sayings(file, asked) \subseteq seen
    /\ reading(file, resolves)[asked] = None => missed

\* What is about to be found is not old but for the two reasons.
FoundNotOld ==
  pc = "find" =>
    db[asked] \in seen \cup {None} \/ lastFileChangeTime = readAt \/ readBy = "constructor"

IInv ==
  /\ HostsFileTypeOK /\ ChangedSinceRead /\ ReadAfterStat /\ ConstructedBy /\ HistoryNow
  /\ FoundNotOld /\ ListedIsFound /\ StaleOnlySameSecond

\* A copy that was just read is not old, and the read is not earlier than any stat.
LEMMA JustRead ==
  ASSUME HostsFileAssumption, HostsFileTypeOK, HostsFileTypeOK', ChangedSinceRead,
         NEW by, readFileIntoDb(by), UNCHANGED <<disk, lastFileChangeTime>>
  PROVE  /\ ChangedSinceRead'
         /\ lastFileChangeTime' <= readAt'
         /\ \A a \in Addr : db'[a] = None \/ db'[a] \in sayings(file, a)
<1>1. \A a \in Addr : db'[a] = None \/ db'[a] \in sayings(file, a)
  BY ReadingSaid DEF readFileIntoDb, HostsFileTypeOK
<1>2. \A a \in Addr : ~Old(a)'
  BY <1>1 DEF Old, disk, sayings
<1> QED
  BY <1>1, <1>2 DEF ChangedSinceRead, readFileIntoDb, disk, HostsFileTypeOK

\* A change of the file is not earlier than any read.
LEMMA JustEdited ==
  ASSUME HostsFileAssumption, HostsFileTypeOK, ChangedSinceRead,
         NEW f \in File \cup {None}, Edit(f)
  PROVE  ChangedSinceRead'
BY DEF ChangedSinceRead, Edit, HostsFileTypeOK

LEMMA InvInit ==
  ASSUME HostsFileAssumption, Init
  PROVE  IInv
<1>1. HostsFileTypeOK
  BY TypeInit
<1>2. \A a \in Addr : ~Old(a)
  BY DEF Init, Old
<1>3. ChangedSinceRead
  BY <1>2 DEF Init, ChangedSinceRead
<1>4. ReadAfterStat /\ ConstructedBy /\ HistoryNow /\ FoundNotOld
  BY DEF Init, ReadAfterStat, ConstructedBy, HistoryNow, FoundNotOld
<1> QED
  BY <1>1, <1>3, <1>4 DEF Init, IInv, ListedIsFound, StaleOnlySameSecond

\* Every step keeps the invariant.
LEMMA InvNext ==
  ASSUME HostsFileAssumption, IInv, [Next]_vars
  PROVE  IInv'
<1>0. HostsFileTypeOK /\ HostsFileTypeOK'
  BY TypeNext DEF IInv
<1> USE DEF ConstructedBy
<1> DEFINE OldSame == \A a \in Addr : Old(a)' <=> Old(a)
<1>1. ASSUME UNCHANGED <<file, db>> PROVE OldSame
  BY <1>1 DEF Old, sayings, reading, contents
<1>3. ASSUME UNCHANGED <<file, resolves, asked, seen, missed>>, pc = "idle" => pc' = "idle"
      PROVE  HistoryNow'
  <2>1. HistoryNow
    BY DEF IInv
  <2>2. sayings(file, asked)' = sayings(file, asked)
    BY <1>3 DEF sayings, reading, contents
  <2>3. (reading(file, resolves)[asked])' = reading(file, resolves)[asked]
    BY <1>3 DEF reading, contents
  <2> QED BY <1>3, <2>1, <2>2, <2>3 DEF HistoryNow
<1>2. ASSUME NEW a \in Addr, getInstance(a) PROVE IInv'
  <2>1. ChangedSinceRead'
    BY <1>1, <1>2 DEF IInv, ChangedSinceRead, getInstance, disk
  <2>2. HistoryNow'
    <3>0. asked' = a /\ file' = file /\ resolves' = resolves
      BY <1>2 DEF getInstance, disk
    <3>1. sayings(file, asked)' = sayings(file, a)
      BY <3>0 DEF sayings, reading, contents
    <3>2. (reading(file, resolves)[asked])' = reading(file, resolves)[a]
      BY <3>0 DEF reading, contents
    <3> QED BY <1>2, <3>1, <3>2 DEF HistoryNow, getInstance
  <2>3. /\ ConstructedBy' /\ ReadAfterStat' /\ FoundNotOld' /\ ListedIsFound'
        /\ StaleOnlySameSecond'
    BY <1>2 DEF IInv, ReadAfterStat, FoundNotOld, ListedIsFound, StaleOnlySameSecond,
       getInstance
  <2> QED BY <1>0, <2>1, <2>2, <2>3 DEF IInv
<1>4. CASE DmucsHostsFile
  <2>1. HistoryNow'
    BY <1>3, <1>4 DEF DmucsHostsFile, Keeps, disk
  <2>2. ChangedSinceRead'
    BY <1>0, <1>4, JustRead DEF IInv, DmucsHostsFile, Keeps
  <2>3. /\ ConstructedBy' /\ ReadAfterStat' /\ FoundNotOld' /\ ListedIsFound'
        /\ StaleOnlySameSecond'
    BY <1>4 DEF DmucsHostsFile, readFileIntoDb, ReadAfterStat, FoundNotOld, ListedIsFound,
       StaleOnlySameSecond
  <2> QED BY <1>0, <2>1, <2>2, <2>3 DEF IInv
<1>5. CASE StatConstructed
  <2>1. HistoryNow'
    BY <1>3, <1>5 DEF StatConstructed, Keeps, disk
  <2>2. ChangedSinceRead'
    BY <1>0, <1>1, <1>5 DEF IInv, ChangedSinceRead, StatConstructed, hasFileChanged, Keeps,
       disk, HostsFileTypeOK
  <2>3. readBy = "constructor"
    BY <1>5 DEF IInv, StatConstructed
  <2>4. /\ ConstructedBy' /\ ReadAfterStat' /\ FoundNotOld' /\ ListedIsFound'
        /\ StaleOnlySameSecond'
    BY <1>5, <2>3 DEF StatConstructed, ReadAfterStat, FoundNotOld, ListedIsFound,
       StaleOnlySameSecond
  <2> QED BY <1>0, <2>1, <2>2, <2>4 DEF IInv
<1>6. CASE Stat
  <2>1. HistoryNow'
    BY <1>3, <1>6 DEF Stat, Keeps, disk
  <2>2. ChangedSinceRead'
    BY <1>0, <1>1, <1>6 DEF IInv, ChangedSinceRead, Stat, hasFileChanged, Keeps, disk,
       HostsFileTypeOK
  <2>3. ConstructedBy' /\ ReadAfterStat' /\ FoundNotOld'
    <3>1. CASE pc' = "read"
      BY <3>1 DEF ReadAfterStat, FoundNotOld
    <3>2. CASE pc' = "find"
      <4>1. file # None /\ lastFileChangeTime = ctime /\ UNCHANGED lastFileChangeTime
        BY <1>6, <3>2 DEF Stat, hasFileChanged
      <4>2. lastFileChangeTime <= readAt \/ readBy = "constructor"
        BY <1>6 DEF IInv, ReadAfterStat, Stat
      <4>3. db[asked] \in seen \cup {None} \/ Old(asked)
        BY <1>6 DEF IInv, HistoryNow, Stat, Old
      <4>4. Old(asked) => readAt <= lastFileChangeTime
        BY <1>0, <4>1 DEF IInv, ChangedSinceRead, HostsFileTypeOK
      <4>5. db[asked] \in seen \cup {None} \/ lastFileChangeTime = readAt
              \/ readBy = "constructor"
        BY <1>0, <4>2, <4>3, <4>4 DEF HostsFileTypeOK
      <4> QED BY <1>6, <4>1, <4>2, <4>5 DEF FoundNotOld, ReadAfterStat, Stat, Keeps
    <3> QED BY <1>6, <3>1, <3>2 DEF Stat
  <2>4. ListedIsFound' /\ StaleOnlySameSecond'
    BY <1>6 DEF Stat, ListedIsFound, StaleOnlySameSecond
  <2> QED BY <1>0, <2>1, <2>2, <2>3, <2>4 DEF IInv
<1>7. CASE ReadChanged
  <2>1. HistoryNow'
    BY <1>3, <1>7 DEF ReadChanged, Keeps, disk
  <2>2. /\ ChangedSinceRead' /\ lastFileChangeTime' <= readAt'
        /\ \A a \in Addr : db'[a] = None \/ db'[a] \in sayings(file, a)
    BY <1>0, <1>7, JustRead DEF IInv, ReadChanged, Keeps
  <2>3. db'[asked] \in seen \cup {None}
    BY <1>0, <1>7, <2>2 DEF IInv, HistoryNow, ReadChanged, HostsFileTypeOK
  <2>4. /\ ConstructedBy' /\ ReadAfterStat' /\ FoundNotOld' /\ ListedIsFound'
        /\ StaleOnlySameSecond'
    BY <1>7, <2>2, <2>3 DEF ReadChanged, Keeps, ReadAfterStat, FoundNotOld, ListedIsFound,
       StaleOnlySameSecond
  <2> QED BY <1>0, <2>1, <2>2, <2>4 DEF IInv
<1>8. CASE Find
  <2>1. HistoryNow' /\ ConstructedBy' /\ ReadAfterStat' /\ FoundNotOld'
    BY <1>3, <1>8 DEF IInv, Find, Keeps, disk, ReadAfterStat, FoundNotOld
  <2>2. ChangedSinceRead'
    BY <1>1, <1>8 DEF IInv, ChangedSinceRead, Find, Keeps, disk
  <2>3. ListedIsFound' /\ StaleOnlySameSecond'
    BY <1>8 DEF IInv, Find, Keeps, FoundNotOld, ListedIsFound, StaleOnlySameSecond
  <2> QED BY <1>0, <2>1, <2>2, <2>3 DEF IInv
<1>9. CASE FindAgain
  <2>1. /\ ChangedSinceRead' /\ lastFileChangeTime' <= readAt'
        /\ \A a \in Addr : db'[a] = None \/ db'[a] \in sayings(file, a)
    BY <1>0, <1>9, JustRead DEF IInv, FindAgain, Keeps
  <2>2. answer' \in seen \cup {None}
    BY <1>0, <1>9, <2>1 DEF IInv, HistoryNow, FindAgain, HostsFileTypeOK
  <2>3. answer' = None => missed
    BY <1>9 DEF IInv, HistoryNow, FindAgain, readFileIntoDb
  <2>4. /\ HistoryNow' /\ ConstructedBy' /\ ReadAfterStat' /\ FoundNotOld' /\ ListedIsFound'
        /\ StaleOnlySameSecond'
    BY <1>3, <1>9, <2>1, <2>2, <2>3 DEF FindAgain, Keeps, HistoryNow, ReadAfterStat,
       FoundNotOld, ListedIsFound, StaleOnlySameSecond
  <2> QED BY <1>0, <2>1, <2>4 DEF IInv
<1>10. ASSUME NEW f \in File \cup {None}, NEW up \in SUBSET Machine, Sees(f, up),
              file' = f, resolves' = up, UNCHANGED <<db, lastFileChangeTime, pc, asked,
                answer, instance, readAt, readBy>>
       PROVE  HistoryNow' /\ ConstructedBy' /\ ReadAfterStat' /\ FoundNotOld' /\ ListedIsFound'
                /\ StaleOnlySameSecond'
  <2>1. HistoryNow'
    <3>1. sayings(file, asked)' = sayings(f, asked)
      BY <1>10 DEF sayings, reading, contents
    <3>2. (reading(file, resolves)[asked])' = reading(f, up)[asked]
      BY <1>10 DEF reading, contents
    <3> QED BY <1>10, <3>1, <3>2 DEF HistoryNow, Sees
  <2>2. ConstructedBy' /\ ReadAfterStat' /\ FoundNotOld'
    BY <1>10 DEF IInv, ReadAfterStat, FoundNotOld, Sees
  <2>3. ListedIsFound' /\ StaleOnlySameSecond'
    BY <1>10 DEF IInv, ListedIsFound, StaleOnlySameSecond, Sees
  <2> QED BY <2>1, <2>2, <2>3
<1>11. ASSUME NEW f \in File \cup {None}, Edit(f) PROVE IInv'
  <2>1. ChangedSinceRead'
    BY <1>0, <1>11, JustEdited DEF IInv
  <2>2. resolves \in SUBSET Machine
    BY <1>0 DEF HostsFileTypeOK
  <2> QED BY <1>0, <1>10, <1>11, <2>1, <2>2 DEF IInv, Edit
<1>12. ASSUME NEW up \in SUBSET Machine, Resolve(up) PROVE IInv'
  <2>1. ChangedSinceRead'
    BY <1>1, <1>12 DEF IInv, ChangedSinceRead, Resolve
  <2>2. file \in File \cup {None}
    BY <1>0 DEF HostsFileTypeOK
  <2> QED BY <1>0, <1>10, <1>12, <2>1, <2>2 DEF IInv, Resolve
<1>13. CASE Tick
  <2>1. ChangedSinceRead'
    BY <1>0, <1>1, <1>13 DEF IInv, ChangedSinceRead, Tick, history, HostsFileTypeOK
  <2>2. HistoryNow'
    BY <1>3, <1>13 DEF Tick, disk, history
  <2>3. /\ ConstructedBy' /\ ReadAfterStat' /\ FoundNotOld' /\ ListedIsFound'
        /\ StaleOnlySameSecond'
    BY <1>13 DEF IInv, Tick, history, ReadAfterStat, FoundNotOld, ListedIsFound,
       StaleOnlySameSecond
  <2> QED BY <1>0, <2>1, <2>2, <2>3 DEF IInv
<1>14. CASE UNCHANGED vars
  <2>1. ChangedSinceRead'
    BY <1>1, <1>14 DEF IInv, ChangedSinceRead, vars, disk, history
  <2>2. HistoryNow'
    BY <1>3, <1>14 DEF vars, disk, history
  <2>3. /\ ConstructedBy' /\ ReadAfterStat' /\ FoundNotOld' /\ ListedIsFound'
        /\ StaleOnlySameSecond'
    BY <1>14 DEF IInv, vars, disk, history, ReadAfterStat, FoundNotOld, ListedIsFound,
       StaleOnlySameSecond
  <2> QED BY <1>0, <2>1, <2>2, <2>3 DEF IInv
<1> QED
  BY <1>2, <1>4, <1>5, <1>6, <1>7, <1>8, <1>9, <1>11, <1>12, <1>13, <1>14
  DEF Next, getDataForHost

-----------------------------------------------------------------------------

\* The invariant holds in every state.
LEMMA Invariance ==
  ASSUME HostsFileAssumption
  PROVE  Spec => []IInv
<1>1. Init => IInv
  BY InvInit
<1>2. IInv /\ [Next]_vars => IInv'
  BY InvNext
<1> QED BY <1>1, <1>2, PTL DEF Spec

\* The variables hold values of their types, whatever the file and the clock do.
THEOREM HostsFileTypeCorrect == ASSUME HostsFileAssumption PROVE Spec => []HostsFileTypeOK
<1>1. IInv => HostsFileTypeOK
  BY DEF IInv
<1> QED BY <1>1, Invariance, PTL

\* However the file, the names and the clock change between the steps of a lookup, a
\* host that it does not find is one that a read of the file could have missed while
\* it went on (DmucsHostsFile::getDataForHost).
THEOREM HostFound == ASSUME HostsFileAssumption PROVE Spec => []ListedIsFound
<1>1. IInv => ListedIsFound
  BY DEF IInv
<1> QED BY <1>1, Invariance, PTL

\* An old copy of the file is used only when the file changed in the second in which
\* it was read, or between the read and the stat of the constructor.
THEOREM OldCopyOnlySameSecond ==
  ASSUME HostsFileAssumption PROVE Spec => []StaleOnlySameSecond
<1>1. IInv => StaleOnlySameSecond
  BY DEF IInv
<1> QED BY <1>1, Invariance, PTL

==============================================================================
