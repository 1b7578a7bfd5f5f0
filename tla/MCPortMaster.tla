----------------------------- MODULE MCPortMaster -----------------------------
(***************************************************************************)
(* Values of the constants of PortMaster for TLC.                          *)
(***************************************************************************)
EXTENDS PortMaster

CONSTANTS p1, p2, p3, n1, n2, here, there

Machines == [p \in Proc |-> IF p = p1 THEN here ELSE there]
Octets == [h \in Host |-> IF h = here THEN 10 ELSE 200]
Files == {{}, {7}}

\* The first process is a server or a client of the first name; the second
\* does everything else.
Roles ==
    [p \in Proc |->
       IF p = p1
       THEN {"Server", "wait", "client"} \X {n1}
            \cup {<<"close", None>>}
       ELSE {"server", "wait", "remove", "tornEvent", "tornName"} \X {n1} \cup {<<"server", n2>>}
            \cup {"close", "fwinit", "table", "strange", "check", "quit"} \X {None}]

\* Two clients that wait for different servers, and one of the servers.
WaitersRoles ==
    [p \in Proc |-> CASE p = p1 -> {<<"wait", n1>>}
                      [] p = p2 -> {<<"server", n2>>}
                      [] p = p3 -> {<<"wait", n2>>}]

================================================================================
