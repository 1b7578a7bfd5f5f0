----------------------------- MODULE GetHostProofs -----------------------------
(***************************************************************************)
(* Proofs about GetHost, for every set of timeouts and exit codes and      *)
(* every bound on the clock.                                               *)
(***************************************************************************)
EXTENDS GetHost, TLAPS

\* The places where gethost has a connection and no answer to use, and those before
\* the command is started.
Asking == {"hostname", "ask", "read", "sleep", "check"}
Before == {"open", "putenv", "fork"} \cup Asking

\* The clock can be at 0.
LEMMA ZeroInRange == 0 \in 0..MaxTime
BY GetHostAssumption

\* Every step keeps the types.
LEMMA TypeOKNext == TypeOK /\ [Next]_vars => TypeOK'
<1> SUFFICES ASSUME TypeOK, [Next]_vars PROVE TypeOK'
  OBVIOUS
<1> USE ZeroInRange DEF TypeOK, At, Goto, Exit, Sclose
<1>1. CASE Sopen
  BY <1>1 DEF Sopen
<1>2. CASE Hostname
  <2>1. CASE Goto("ask") /\ UNCHANGED <<sock, shut>>
    BY <1>2, <2>1 DEF Hostname
  <2>2. CASE Sclose /\ Exit(Failed)
    BY <1>2, <2>2 DEF Hostname
  <2> QED BY <1>2, <2>1, <2>2 DEF Hostname
<1>3. CASE Ask
  BY <1>3 DEF Ask
<1>4. CASE Reply
  <2>1. CASE /\ resolved' = "none" /\ Goto(IF timeout > 0 THEN "sleep" ELSE "check")
             /\ UNCHANGED <<sock, shut>>
    BY <1>4, <2>1 DEF Reply
  <2>2. CASE resolved' = "host" /\ Goto("check") /\ UNCHANGED <<sock, shut>>
    BY <1>4, <2>2 DEF Reply
  <2>3. CASE Sclose /\ Exit(Failed) /\ UNCHANGED resolved
    BY <1>4, <2>3 DEF Reply
  <2> QED BY <1>4, <2>1, <2>2, <2>3 DEF Reply
<1>5. CASE Sleep
  <2>1. now' \in 0..MaxTime
    BY <1>5, GetHostAssumption DEF Sleep
  <2> QED
    BY <1>5, <2>1 DEF Sleep
<1>6. CASE Check
  BY <1>6 DEF Check
<1>7. CASE PutEnv
  <2>1. CASE Goto("fork") /\ UNCHANGED <<sock, shut>>
    BY <1>7, <2>1 DEF PutEnv
  <2>2. CASE Sclose /\ Exit(Failed)
    BY <1>7, <2>2 DEF PutEnv
  <2> QED BY <1>7, <2>1, <2>2 DEF PutEnv
<1>8. CASE Fork
  <2>1. CASE child' = "running" /\ childSock' = (sock = "open") /\ Goto("wait") /\ UNCHANGED sock
    BY <1>8, <2>1 DEF Fork
  <2>2. CASE Exit(Failed) /\ UNCHANGED <<child, childSock>>
    BY <1>8, <2>2 DEF Fork
  <2> QED BY <1>8, <2>1, <2>2 DEF Fork
<1>9. CASE Waitpid
  BY <1>9 DEF Waitpid
<1>10. CASE Close
  BY <1>10 DEF Close
<1>11. CASE SigchldBegins
  BY <1>11 DEF SigchldBegins
<1>12. CASE SigchldEnds
  BY <1>12 DEF SigchldEnds
<1>13. CASE Ends
  BY <1>13 DEF Ends, ChildEnds, Raise
<1>14. CASE ChildStops
  BY <1>14 DEF ChildStops, Raise
<1>15. CASE ChildContinues
  BY <1>15 DEF ChildContinues, Raise
<1>16. CASE Tick
  <2>1. now' \in 0..MaxTime
    BY <1>16, GetHostAssumption DEF Tick
  <2> QED
    BY <1>16, <2>1 DEF Tick
<1>17. CASE Kill
  BY <1>17 DEF Kill
<1>18. CASE UNCHANGED vars
  BY <1>18 DEF vars
<1> QED
  BY <1>1, <1>2, <1>3, <1>4, <1>5, <1>6, <1>7, <1>8, <1>9, <1>10, <1>11, <1>12, <1>13,
     <1>14, <1>15, <1>16, <1>17, <1>18
  DEF Next, Program

\* The program has ended exactly when it has an exit code.
PlaceInv == exit # None <=> pc = "exited"

\* The socket is open while gethost asks and when it has a cpu, and only a program that
\* has ended has closed it.
SocketInv ==
  /\ pc = "open" => sock = "null"
  /\ pc \in Asking => sock = "open"
  /\ Alive => sock # "closed" /\ ~shut
  /\ Alive /\ resolved = "host" => sock = "open"

\* The command starts after the places before it, and has been waited for when the
\* connection is shut down.
CommandInv ==
  /\ pc \in Before => child = "none"
  /\ pc = "close" => child = "reaped"
  /\ shut /\ child # "none" => child = "reaped"
  /\ resolved = "host" /\ Running => childSock

\* The status is 0 until waitpid has filled it in.
StatusInv ==
  /\ child \in {"none", "running", "stopped"} => status = 0
  /\ status \in {0, code}

GetHostInv ==
  /\ PlaceInv /\ SocketInv /\ CommandInv /\ StatusInv
  /\ ReturnsAfterCommand

\* The inductive invariant holds at the start.
LEMMA GetHostInvInit == Init => TypeOK /\ GetHostInv
<1>1. Init => TypeOK
  BY ZeroInRange DEF Init, TypeOK
<1>2. Init => GetHostInv
  BY DEF Init, GetHostInv, PlaceInv, SocketInv, CommandInv, StatusInv, ReturnsAfterCommand,
    Asking, Before, Running, Alive, None, Killed
<1> QED
  BY <1>1, <1>2

\* Every step keeps the inductive invariant.
LEMMA GetHostInvNext == TypeOK /\ GetHostInv /\ [Next]_vars => GetHostInv'
<1> SUFFICES ASSUME TypeOK, GetHostInv, [Next]_vars PROVE GetHostInv'
  OBVIOUS
<1> USE GetHostAssumption
    DEF GetHostInv, TypeOK, PlaceInv, SocketInv, CommandInv, StatusInv, ReturnsAfterCommand,
        Asking, Before, Running, Alive, None, Killed, Failed, At, Goto, Exit, Sclose
<1>1. CASE Sopen
  BY <1>1 DEF Sopen
<1>2. CASE Hostname
  BY <1>2 DEF Hostname
<1>3. CASE Ask
  BY <1>3 DEF Ask
<1>4. CASE Reply
  BY <1>4 DEF Reply
<1>5. CASE Sleep
  BY <1>5 DEF Sleep
<1>6. CASE Check
  BY <1>6 DEF Check
<1>7. CASE PutEnv
  BY <1>7 DEF PutEnv
<1>8. CASE Fork
  <2>1. CASE child' = "running"
    BY <1>8, <2>1 DEF Fork
  <2>2. CASE child' # "running"
    BY <1>8, <2>2 DEF Fork
  <2> QED
    BY <2>1, <2>2
<1>9. CASE Waitpid
  BY <1>9 DEF Waitpid
<1>10. CASE Close
  BY <1>10 DEF Close
<1>11. CASE SigchldBegins
  BY <1>11 DEF SigchldBegins
<1>12. CASE SigchldEnds
  BY <1>12 DEF SigchldEnds
<1>13. CASE Ends
  BY <1>13 DEF Ends, ChildEnds, Raise
<1>14. CASE ChildStops
  BY <1>14 DEF ChildStops, Raise
<1>15. CASE ChildContinues
  BY <1>15 DEF ChildContinues, Raise
<1>16. CASE Tick
  BY <1>16 DEF Tick
<1>17. CASE Kill
  BY <1>17 DEF Kill
<1>18. CASE UNCHANGED vars
  BY <1>18 DEF vars
<1> QED
  BY <1>1, <1>2, <1>3, <1>4, <1>5, <1>6, <1>7, <1>8, <1>9, <1>10, <1>11, <1>12, <1>13,
     <1>14, <1>15, <1>16, <1>17, <1>18
  DEF Next, Program

\* The inductive invariant holds in every reachable state.
THEOREM GetHostInvariant == Spec => [](TypeOK /\ GetHostInv)
BY GetHostInvInit, TypeOKNext, GetHostInvNext, PTL DEF Spec

\* The variables hold values of their types.
THEOREM GetHostTypeCorrect == Spec => []TypeOK
BY GetHostInvariant, PTL

\* The server sees the connection of a gethost that has a cpu as open, as long as the
\* command runs: no other client can be given that cpu.
THEOREM CpuKept == Spec => []KeepsCpuWhileRunning
<1>1. TypeOK /\ GetHostInv => KeepsCpuWhileRunning
  BY DEF GetHostInv, TypeOK, CommandInv, KeepsCpuWhileRunning, Connected, Running
<1> QED
  BY <1>1, GetHostInvariant, PTL

\* A gethost that was not killed has waited for its command, and returns 0 or the
\* command's exit code.
THEOREM CommandWaitedFor == Spec => []ReturnsAfterCommand
<1>1. GetHostInv => ReturnsAfterCommand
  BY DEF GetHostInv
<1> QED
  BY <1>1, GetHostInvariant, PTL
=============================================================================
