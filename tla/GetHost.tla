-------------------------------- MODULE GetHost --------------------------------
(***************************************************************************)
(* The gethost program: it asks the server for a cpu, runs a command with  *)
(* it and closes its socket, which gives the cpu back.                     *)
(*                                                                         *)
(* The server, the command and the kernel (signals, waitpid and the file   *)
(* descriptors that a child inherits) are the environment.                 *)
(***************************************************************************)
EXTENDS Integers

CONSTANTS
  Timeouts,  \* the values of --wait
  Codes,     \* the exit codes of commands
  MaxTime    \* bound on the clock

ASSUME GetHostAssumption ==
  /\ Timeouts \subseteq Int
  /\ Codes \subseteq Nat
  /\ MaxTime \in Nat

VARIABLES
  timeout,    \* --wait
  pc,         \* where the program is
  now,        \* the clock in seconds; the first request is sent at 0
  resolved,   \* resolved_name: "none" when it is empty, or "host"
  sock,       \* client_sock: null, open or closed
  shut,       \* the connection was shut down
  child,      \* the command: none, running, stopped, zombie or reaped
  childSock,  \* the command holds the inherited socket
  code,       \* the exit code of the command
  sigchld,    \* SIGCHLD: none, pending, or handling (in sigchld_handler)
  status,     \* the variable that waitpid fills in
  exit        \* the exit code of gethost; None while it runs, Killed after a kill

vars == <<timeout, pc, now, resolved, sock, shut, child, childSock, code, sigchld,
          status, exit>>

None == -1
Killed == -2
Failed == 255

Alive == exit = None

\* The main program goes on; it does not while it is in the signal handler.
At(l) == Alive /\ pc = l /\ sigchld # "handling"

Goto(l) == pc' = l /\ exit' = exit

\* The end of the process: the kernel closes its socket.
Exit(c) ==
  /\ exit' = c /\ pc' = "exited"
  /\ sock' = IF sock = "open" THEN "closed" ELSE sock

\* Sclose shuts the connection down, whoever else holds it, and closes it.
Sclose ==
  /\ shut' = (shut \/ sock = "open")

-----------------------------------------------------------------------------
(* Asking *)

\* Without a connection the command runs on this machine.
Sopen ==
  /\ At("open")
  /\ \/ sock' = "open" /\ Goto("hostname")
     \/ sock' = "null" /\ Goto("putenv")
  /\ UNCHANGED <<timeout, now, resolved, shut, child, childSock, code, sigchld, status>>

Hostname ==
  /\ At("hostname")
  /\ \/ Goto("ask") /\ UNCHANGED <<sock, shut>>
     \/ Sclose /\ Exit(Failed)
  /\ now' = 0
  /\ UNCHANGED <<timeout, resolved, child, childSock, code, sigchld, status>>

Ask ==
  /\ At("ask")
  /\ Goto("read")
  /\ UNCHANGED <<timeout, now, resolved, sock, shut, child, childSock, code, sigchld, status>>

\* The server answers 0.0.0.0 or a host, or closes the connection.
Reply ==
  /\ At("read")
  /\ \/ /\ resolved' = "none"
        /\ Goto(IF timeout > 0 THEN "sleep" ELSE "check")
        /\ UNCHANGED <<sock, shut>>
     \/ resolved' = "host" /\ Goto("check") /\ UNCHANGED <<sock, shut>>
     \/ Sclose /\ Exit(Failed) /\ UNCHANGED resolved
  /\ UNCHANGED <<timeout, now, child, childSock, code, sigchld, status>>

\* sleep(1)
Sleep ==
  /\ At("sleep") /\ now < MaxTime
  /\ now' = now + 1
  /\ Goto("check")
  /\ UNCHANGED <<timeout, resolved, sock, shut, child, childSock, code, sigchld, status>>

\* The condition of the do loop.
Check ==
  /\ At("check")
  /\ Goto(IF resolved = "none" /\ (timeout = -1 \/ now > timeout) THEN "ask" ELSE "putenv")
  /\ UNCHANGED <<timeout, now, resolved, sock, shut, child, childSock, code, sigchld, status>>

-----------------------------------------------------------------------------
(* Running the command *)

PutEnv ==
  /\ At("putenv")
  /\ \/ Goto("fork") /\ UNCHANGED <<sock, shut>>
     \/ Sclose /\ Exit(Failed)
  /\ UNCHANGED <<timeout, now, resolved, child, childSock, code, sigchld, status>>

\* Mutant: gethost closes its socket before it waits for the command.
Fork_CloseFirst ==
  /\ At("fork")
  /\ child' = "running" /\ childSock' = FALSE /\ Goto("wait")
  /\ Sclose
  /\ sock' = IF sock = "open" THEN "closed" ELSE sock
  /\ UNCHANGED <<timeout, now, resolved, code, sigchld, status>>

\* The child has the socket too, also after execvp.
Fork ==
  /\ At("fork")
  /\ \/ /\ child' = "running" /\ childSock' = (sock = "open") /\ Goto("wait")
        /\ UNCHANGED sock
     \/ Exit(Failed) /\ UNCHANGED <<child, childSock>>
  /\ UNCHANGED <<timeout, now, resolved, shut, code, sigchld, status>>

\* Mutant: a waitpid that was interrupted is not repeated.
Waitpid_NoRetry ==
  /\ At("wait")
  /\ \/ child = "zombie" /\ status' = code /\ child' = "reaped"
     \/ child # "zombie" /\ UNCHANGED <<status, child>>
  /\ Goto("close")
  /\ UNCHANGED <<timeout, now, resolved, sock, shut, childSock, code, sigchld>>

\* Mutant: waitpid is repeated after any error.
Waitpid_AnyError ==
  /\ At("wait")
  /\ child = "zombie" /\ status' = code /\ child' = "reaped"
  /\ Goto("close")
  /\ UNCHANGED <<timeout, now, resolved, sock, shut, childSock, code, sigchld>>

\* It returns the command's status, or an error other than EINTR when the signal
\* handler has already waited for the command.
Waitpid ==
  /\ At("wait")
  /\ \/ child = "zombie" /\ status' = code /\ child' = "reaped"
     \/ child = "reaped" /\ UNCHANGED <<status, child>>
  /\ Goto("close")
  /\ UNCHANGED <<timeout, now, resolved, sock, shut, childSock, code, sigchld>>

Close ==
  /\ At("close")
  /\ Sclose /\ Exit(status)
  /\ UNCHANGED <<timeout, now, resolved, child, childSock, code, sigchld, status>>

\* Sigchld_handler waits for a child; it blocks until the command has ended, when the
\* signal told that it stopped or continued.
SigchldBegins ==
  /\ Alive /\ sigchld = "pending"
  /\ sigchld' = "handling"
  /\ UNCHANGED <<timeout, pc, now, resolved, sock, shut, child, childSock, code, status, exit>>

SigchldEnds ==
  /\ Alive /\ sigchld = "handling"
  /\ child \in {"zombie", "reaped"}
  /\ child' = "reaped"
  /\ sigchld' = "none"
  /\ UNCHANGED <<timeout, pc, now, resolved, sock, shut, childSock, code, status, exit>>

-----------------------------------------------------------------------------
(* The command, the clock, and the user *)

\* SIGCHLD is lost when the handler is running: the handler blocks it, and the one
\* that stays pending finds no child.
Raise == sigchld' = IF sigchld = "handling" THEN sigchld ELSE "pending"

ChildEnds(c) ==
  /\ child = "running"
  /\ child' = "zombie" /\ code' = c /\ childSock' = FALSE
  /\ Raise
  /\ UNCHANGED <<timeout, pc, now, resolved, sock, shut, status, exit>>

ChildStops ==
  /\ child = "running"
  /\ child' = "stopped"
  /\ Raise
  /\ UNCHANGED <<timeout, pc, now, resolved, sock, shut, childSock, code, status, exit>>

ChildContinues ==
  /\ child = "stopped"
  /\ child' = "running"
  /\ Raise
  /\ UNCHANGED <<timeout, pc, now, resolved, sock, shut, childSock, code, status, exit>>

Tick ==
  /\ Alive /\ now < MaxTime
  /\ now' = now + 1
  /\ UNCHANGED <<timeout, pc, resolved, sock, shut, child, childSock, code, sigchld, status, exit>>

\* gethost is killed; the command goes on.
Kill ==
  /\ Alive
  /\ Exit(Killed)
  /\ UNCHANGED <<timeout, now, resolved, shut, child, childSock, code, sigchld, status>>

-----------------------------------------------------------------------------

\* Mutant: status starts as -1, as pid does.
Init_NoStatus ==
  /\ timeout \in Timeouts
  /\ pc = "open" /\ now = 0 /\ resolved = "none" /\ sock = "null" /\ shut = FALSE
  /\ child = "none" /\ childSock = FALSE /\ code = 0
  /\ sigchld = "none" /\ status = -1 /\ exit = None

Init ==
  /\ timeout \in Timeouts
  /\ pc = "open" /\ now = 0 /\ resolved = "none" /\ sock = "null" /\ shut = FALSE
  /\ child = "none" /\ childSock = FALSE /\ code = 0
  /\ sigchld = "none" /\ status = 0 /\ exit = None

Program ==
  \/ Sopen \/ Hostname \/ Ask \/ Reply \/ Sleep \/ Check
  \/ PutEnv \/ Fork \/ Waitpid \/ Close
  \/ SigchldBegins \/ SigchldEnds

Ends == \E c \in Codes : ChildEnds(c)

Next ==
  \/ Program
  \/ Ends \/ ChildStops \/ ChildContinues
  \/ Tick \/ Kill

Spec == Init /\ [][Next]_vars

\* The program runs, and a command ends that is not left stopped for ever.
FairSpec == Spec /\ WF_vars(Program) /\ WF_vars(ChildContinues) /\ SF_vars(Ends)

-----------------------------------------------------------------------------
(* Properties *)

\* The server sees the connection as open.
Connected == ~shut /\ (sock = "open" \/ childSock)

Running == child \in {"running", "stopped"}

\* The variables hold values of their types.
TypeOK ==
  /\ timeout \in Timeouts
  /\ pc \in {"open", "hostname", "ask", "read", "sleep", "check", "putenv", "fork", "wait",
             "close", "exited"}
  /\ now \in 0..MaxTime
  /\ resolved \in {"none", "host"}
  /\ sock \in {"null", "open", "closed"}
  /\ shut \in BOOLEAN
  /\ child \in {"none", "running", "stopped", "zombie", "reaped"}
  /\ childSock \in BOOLEAN
  /\ code \in Codes \cup {0}
  /\ sigchld \in {"none", "pending", "handling"}
  /\ status \in Codes \cup {0}
  /\ exit \in Codes \cup {0, None, Killed, Failed}

\* The server does not give the cpu to another client while the command uses it,
\* also when gethost is killed: the connection stays open.
KeepsCpuWhileRunning == resolved = "host" /\ Running => Connected

\* Unless it is killed, gethost returns after its command has ended, however signals
\* and waitpid are interleaved, and returns 0 or the command's own code.
ReturnsAfterCommand ==
  exit \notin {None, Killed} /\ child # "none" => child = "reaped" /\ exit \in {0, code}

\* A cpu that gethost was given goes back to the server in the end.
GivesCpuBack == resolved = "host" /\ Connected ~> ~Connected

\* A claim of the repository's comments that the code does not keep.

\* gethost.cc:83: "Time to wait in seconds for a host before falling back to
\* localhost".
WaitsItsTime ==
  pc = "putenv" /\ sock = "open" /\ resolved = "none" /\ timeout >= 0 => now >= timeout

=============================================================================
