------------------------------- MODULE HostsFile -------------------------------
(***************************************************************************)
(* The cache of the hosts-info file: what DmucsHostsFile has read, when it *)
(* reads again, and what it answers while an editor changes the file and   *)
(* machine names may fail to resolve.  Only the thread that handles        *)
(* messages looks hosts up; the editor acts between any two system calls   *)
(* of it.                                                                  *)
(***************************************************************************)
EXTENDS Integers, Sequences

CONSTANTS
  Machine,    \* the names in the file
  Addr,       \* addresses
  AddrOf,     \* the address of each name, when it can be resolved
  Info,       \* pairs of a number of cpus and a power index
  File,       \* the contents that the file can have: sequences of lines
  MaxClock,   \* bound on the seconds
  None

\* A line names a machine and its info; or it cannot be parsed, and its machine is
\* None.  Comments and empty lines are skipped.
Line == [machine : Machine \cup {None}, info : Info]

ASSUME HostsFileAssumption ==
  /\ AddrOf \in [Machine -> Addr]
  /\ File \subseteq Seq(Line)
  /\ MaxClock \in Nat
  /\ None \notin Info /\ None \notin Machine /\ None \notin File /\ None \notin Nat

VARIABLES
  file,       \* the content of the file, None when there is none
  ctime,      \* the second of its last change
  clock,      \* the time in seconds
  resolves,   \* the names that can be resolved now
  db,         \* db_: address -> info
  lastFileChangeTime,
  pc,         \* where the lookup is
  asked,      \* the address looked up
  answer,     \* what the last lookup found
  instance,   \* whether the singleton was constructed
  seen,       \* history: what the file said of asked since the lookup began
  missed,     \* history: whether a read since then could have missed asked
  readAt,     \* history: the second of the last read
  readBy      \* history: whether the constructor did it, before its stat

disk    == <<file, ctime, clock, resolves>>
history == <<seen, missed, readAt, readBy>>
vars    == <<disk, db, lastFileChangeTime, pc, asked, answer, instance, history>>

-----------------------------------------------------------------------------

\* What a read of the file yields when the names of up can be resolved: reading
\* stops at a line that cannot be parsed, and the first entry of an address counts.
contents(f, up) ==
  [a \in Addr |->
     LET hits == {i \in DOMAIN f : /\ \A j \in 1..i : f[j].machine # None
                                   /\ f[i].machine \in up /\ AddrOf[f[i].machine] = a}
     IN  IF hits = {} THEN None
         ELSE f[CHOOSE i \in hits : \A j \in hits : i <= j].info]

\* What a read yields now, when the names of up resolve.
reading(f, up) == IF f = None THEN [a \in Addr |-> None] ELSE contents(f, up)

\* What the file says of a to those who can resolve some of its names.
sayings(f, a) == {reading(f, up)[a] : up \in SUBSET Machine} \ {None}

readFileIntoDb(by) ==
  /\ db' = reading(file, resolves)
  /\ readAt' = clock /\ readBy' = by

\* Mutant: without the file there is nothing new.
hasFileChanged_Missing(changed) ==
  /\ changed = (file # None /\ lastFileChangeTime # ctime)
  /\ lastFileChangeTime' = IF file = None THEN lastFileChangeTime ELSE ctime

\* Mutant: the result of stat is not looked at.
hasFileChanged_NoCheck(changed) ==
  /\ changed = (lastFileChangeTime # ctime)
  /\ lastFileChangeTime' = ctime

\* A file that is not there counts as changed, and its time is not stored.
hasFileChanged(changed) ==
  /\ changed = (file = None \/ lastFileChangeTime # ctime)
  /\ lastFileChangeTime' = IF file = None THEN lastFileChangeTime ELSE ctime

Keeps == UNCHANGED <<disk, asked, seen, missed>>

-----------------------------------------------------------------------------
(* A lookup *)

getInstance(a) ==
  /\ pc = "idle"
  /\ asked' = a /\ answer' = None
  /\ seen' = sayings(file, a) /\ missed' = (reading(file, resolves)[a] = None)
  /\ pc' = IF instance THEN "stat" ELSE "construct"
  /\ UNCHANGED <<disk, db, lastFileChangeTime, instance, readAt, readBy>>

DmucsHostsFile ==
  /\ pc = "construct" /\ pc' = "constructed"
  /\ readFileIntoDb("constructor")
  /\ Keeps /\ UNCHANGED <<lastFileChangeTime, answer, instance>>

StatConstructed ==
  /\ pc = "constructed" /\ pc' = "stat"
  /\ \E changed \in BOOLEAN : hasFileChanged(changed)
  /\ instance' = TRUE
  /\ Keeps /\ UNCHANGED <<db, answer, readAt, readBy>>

Stat ==
  /\ pc = "stat"
  /\ \E changed \in BOOLEAN :
       /\ hasFileChanged(changed)
       /\ pc' = IF changed THEN "read" ELSE "find"
  /\ Keeps /\ UNCHANGED <<db, answer, instance, readAt, readBy>>

ReadChanged ==
  /\ pc = "read" /\ pc' = "find"
  /\ readFileIntoDb("lookup")
  /\ Keeps /\ UNCHANGED <<lastFileChangeTime, answer, instance>>

\* Mutant: what is not there is not there.
Find_NoReread ==
  /\ pc = "find" /\ pc' = "idle"
  /\ answer' = db[asked]
  /\ Keeps /\ UNCHANGED <<db, lastFileChangeTime, instance, readAt, readBy>>

\* A host that is not there makes the file be read again.
Find ==
  /\ pc = "find"
  /\ pc' = IF db[asked] = None THEN "again" ELSE "idle"
  /\ answer' = db[asked]
  /\ Keeps /\ UNCHANGED <<db, lastFileChangeTime, instance, readAt, readBy>>

FindAgain ==
  /\ pc = "again" /\ pc' = "idle"
  /\ readFileIntoDb("lookup")
  /\ answer' = db'[asked]
  /\ Keeps /\ UNCHANGED <<lastFileChangeTime, instance>>

getDataForHost == Stat \/ ReadChanged \/ Find \/ FindAgain

-----------------------------------------------------------------------------
(* The editor, the names and the clock *)

\* The history goes on as long as the lookup does.
Sees(f, up) ==
  IF pc = "idle" THEN UNCHANGED <<seen, missed>>
  ELSE /\ seen' = seen \cup sayings(f, asked)
       /\ missed' = (missed \/ reading(f, up)[asked] = None)

Edit(f) ==
  /\ file' = f /\ ctime' = IF f = None THEN None ELSE clock
  /\ Sees(f, resolves)
  /\ UNCHANGED <<clock, resolves, db, lastFileChangeTime, pc, asked, answer, instance,
                 readAt, readBy>>

Resolve(up) ==
  /\ resolves' = up /\ Sees(file, up)
  /\ UNCHANGED <<file, ctime, clock, db, lastFileChangeTime, pc, asked, answer, instance,
                 readAt, readBy>>

Tick ==
  /\ clock < MaxClock /\ clock' = clock + 1
  /\ UNCHANGED <<file, ctime, resolves, db, lastFileChangeTime, pc, asked, answer,
                 instance, history>>

Init ==
  /\ file \in File \cup {None} /\ clock = 1 /\ resolves \in SUBSET Machine
  /\ ctime = IF file = None THEN None ELSE clock
  /\ db = [a \in Addr |-> None] /\ lastFileChangeTime = 0
  /\ pc = "idle" /\ asked \in Addr /\ answer = None /\ instance = FALSE
  /\ seen = {} /\ missed = FALSE /\ readAt = 0 /\ readBy = "lookup"

Next ==
  \/ \E a \in Addr : getInstance(a)
  \/ DmucsHostsFile \/ StatConstructed \/ getDataForHost
  \/ \E f \in File \cup {None} : Edit(f)
  \/ \E up \in SUBSET Machine : Resolve(up)
  \/ Tick

Spec == Init /\ [][Next]_vars

-----------------------------------------------------------------------------
(* Properties *)

\* The variables hold values of their types.
HostsFileTypeOK ==
  /\ file \in File \cup {None} /\ clock \in Nat
  /\ ctime \in Nat \cup {None} /\ (ctime = None <=> file = None)
  /\ resolves \subseteq Machine
  /\ db \in [Addr -> Info \cup {None}] /\ lastFileChangeTime \in Nat
  /\ pc \in {"idle", "construct", "constructed", "stat", "read", "find", "again"}
  /\ asked \in Addr /\ answer \in Info \cup {None} /\ instance \in BOOLEAN
  /\ seen \subseteq Info /\ missed \in BOOLEAN
  /\ readAt \in Nat /\ readBy \in {"constructor", "lookup"}

\* A host is denied a place in the database only if, at some moment of its lookup, a
\* read of the file could have missed it: an old copy of the file, read before the
\* host's line was written, never denies it (getDataForHost reads again).
ListedIsFound ==
  pc = "idle" /\ instance /\ answer = None => missed

\* What a lookup finds is what the file said at some moment of the lookup, except
\* after one of two things: the file changed again in the second in which it was read,
\* or it changed between the constructor's read and its stat.  Nothing else, neither
\* the removal of the file nor names that do not resolve, leaves an old copy in use.
StaleOnlySameSecond ==
  pc = "idle" /\ answer # None /\ answer \notin seen =>
    lastFileChangeTime = readAt \/ readBy = "constructor"

=============================================================================
