# dmucs: specification, model checking and proofs

DMUCS (`src/dmucs`) is a server that lends the cpus of compile hosts to
clients. This directory holds TLA+ modules that model it, TLC configurations
that check them on small instances, and proofs that TLAPS checks for every
instance. Paths below are relative to `src/dmucs`.

## 1. The system

| part | code | state it keeps | operations |
|------|------|----------------|------------|
| host database | `dmucs_db.cc/.h` | per dprop ("distinguishing property"): all hosts, four sub-sets by state, `availCpus_` (tier -> list of addresses), `assignedCpus_` (socket -> address), two counters; over all dprops: `sock2DpropDb_`; one recursive mutex | find and add hosts, move cpus between tiers, move hosts between sub-sets, pick the best cpu, assign, release, search for silent hosts, serialize, statistics |
| host | `dmucs_host.cc/.h` | state object, cpus, power index, three load averages, time of the last update | create, tier of a load, update the load, events `avail`, `unavail`, `silent`, `overloaded` |
| host states | `dmucs_host_state.cc/.h` | none (four singletons) | what each state does on each event |
| messages | `dmucs_msg.cc/.h` | none | parse a line; handle `host`, `load`, `status`, `monitor` |
| server loop | `main.cc` | list of sockets, wait mask | select, accept, serve, drop a socket; a *silent thread* and a *statistics thread* that run every 60 seconds |
| hosts-info file | `dmucs_hosts_file.cc/.h` | cached lines, change time | look a host up, read again when the file changed or the host is not there |
| gethost | `gethost.cc` | socket, reply | ask for a cpu, ask again, run the command, close |
| loadavg, remhost and addhost, monitor | `loadavg.cc`, `remhost.cc`, `monitor.cc` | none | send the load every 10 seconds; send up or down; ask for the database and show it |
| sockets | `COSMIC/Smaskwait.c`, `Saccept.c`, `Sopen.c`, `Sgets.c`, `Sputs.c`, `Sclose.c`, ... | wait mask, highest descriptor | what dmucs calls of the library |
| PortMaster | `COSMIC/EXE/Spm.c` | table of server names and ports, list of waiting clients, firewall | enter and remove a server, locate one now or when it opens, show the table, read the firewall file, end |
| named sockets | `COSMIC/Sopen.c`, `Sclose.c`, `Srmsrvr.c`, `EXE/spmtable.c`, `EXE/spmchk.c`, `EXE/sktdbg.c` | the dialogue with the PortMaster | open a server or a client by name, wait for a server, close, remove a name, look |

The parts interact so: `gethost` sends `host`, keeps its socket open while its
command runs, and the server takes the closing of that socket as the return of
the cpu. `loadavg` and `remhost` open a socket, send one line and close. The
server thread handles one line at a time. It shares the database with the two
periodic threads; each call of a `DmucsDb` method takes the mutex (except
`releaseCpu`), but the fields of a `DmucsHost` are read and written without it.
dmucs opens its sockets by port, and so never speaks to the PortMaster, which comes
with the library and is a system of its own: a server process enters its name and its
port, and a client asks for the port of a name.

What is hard here, and what makes each part right:

* **database and hosts**: a host is in exactly the sub-set of its state; the
  pool holds cpus of available hosts only, each in the tier of the host's
  current load; no cpu is lost when a host changes tier or state while some of
  its cpus are lent; a host taken out of service stays out until it is told to
  come up; a quiet host leaves the pool.
* **threads**: the same, when the search runs between two calls of a message
  handler; no thread waits for ever for the mutex.
* **server loop**: select looks at exactly the open sockets; every connected client is
  served in the end, though one socket is served at a time and a new one is read
  from before anything is known to be there; a socket that goes away gives back the
  cpu that its command used, and nothing else does; the server is restarted.
* **gethost**: how long it waits, that it closes its socket in the end, and
  that it returns the exit status of its command.
* **hosts-info file**: a host that is listed is found, and what is found is what the
  file says now.
* **monitor**: what it shows is what the database has.
* **PortMaster**: a name has one entry, which tells the truth as long as nobody was
  killed; a waiting client is told when its server listens, and is not forgotten;
  a client that falls silent between two messages does not keep the PortMaster from the
  others (one that stops in the middle of a message does).

`PROJECT.json` lists the hazards at their lines.

## 2. Modules

| module | models | state |
|--------|--------|-------|
| `DmucsDb` | database, hosts, states, message handlers, at one atomic step per message, search, statistics collection and closed socket | see below |
| `HostPool` | the abstract promise: status, free and lent cpus per host | `status`, `free`, `lent` |
| `DmucsThreads` | the three threads and the mutex, with the same handlers in smaller steps | that of `DmucsDb`, and `todo`, `owner` |
| `Monitor` | `serialize` and the parser of the monitor, as functions of the state of `DmucsDb` | none |
| `DmucsServer` | the main loop and its sockets, with the programs that connect to it; the database is `HostPool` | `at`, `fdList`, `mask`, `conn`, ... |
| `GetHost` | the gethost program, with its command and signals | see below |
| `HostsFile` | the cached hosts-info file, with an editor, a clock and a resolver | `db`, `lastFileChangeTime`, ... |
| `PortMaster` | the PortMaster and the library calls and tools that speak to it | `pm`, `table`, `waiting`, ... |
| `DmucsDbProofs`, `DmucsThreadsProofs`, `MonitorProofs`, `DmucsServerProofs`, `GetHostProofs`, `HostsFileProofs`, `PortMasterProofs` | the proofs about the modules of these names | |
| `Positions` | lemmas that these proofs share: positions in sequences, sequences joined of parts, induction over a set of numbers, and folds | |
| `MCDmucsDb`, `MCDmucsThreads`, `MCMonitor`, `MCDmucsServer`, `MCGetHost`, `MCHostsFile`, `MCPortMaster` | constants for TLC | |

`DmucsThreads` and `Monitor` extend `DmucsDb`; `DmucsDb` implements `HostPool`, and
`DmucsServer` is composed with `HostPool` in its place, so that what it shows of the
server loop does not depend on tiers and loads.

### DmucsDb

`Host` stands for the `DmucsHost` objects, which are identified by an address
and a dprop (`DpropOf`); `Sock` for the `Socket` objects of `gethost` clients,
which can be reused after a close. `NCpus`, `PIndex` and `Listed` are the
hosts-info file, read when a host is created.

| variable | code |
|----------|------|
| `host[h].state` | `state_` (`"none"`: no such object yet) |
| `host[h].sets` | in which of `availHosts_`, `unavailHosts_`, `silentHosts_`, `overloadedHosts_` the host is |
| `host[h].cpus[t]` | how many times its address is in the list of tier `t` of `availCpus_` |
| `host[h].ld` | the load averages, by what `calcTier` makes of them: light (power index), medium (one less), heavy (0) |
| `host[h].heard`, `host[h].quiet` | `lastUpdate_` is set; more than 60 seconds have passed since the last load message |
| `tierKeys[d]` | the keys of `availCpus_`, which are never removed |
| `assignedCpus[d]`, `sock2Dprop` | `assignedCpus_`, `sock2DpropDb_` |
| `served[d]`, `maxAssigned[d]` | `numAssignedCpus_`, `numConcurrentAssigned_` |
| `conn[s]` | the client's connection: closed, refused (got 0.0.0.0), serving |

Order inside a tier's list is not kept: the pick is random and nothing else
depends on it. The methods that work on one host are operators from a *view*
(the host's record and its dprop's tier keys) to the next view, composed as the
code calls them, so that `updateTier` followed by `avail` in the handler of a
load message is two operator applications. Actions:

| action | code |
|--------|------|
| `LdAvgKnown`, `LdAvgNew` | `DmucsLdAvgMsg::handle` |
| `StatusUp`, `StatusDown` | `DmucsStatusMsg::handle` |
| `Elapse` | the clock passes `DMUCS_HOST_SILENT_TIME` |
| `handleSilentHosts` | the silent thread's search over all hosts |
| `HostReqGranted`, `HostReqRefused` | `DmucsHostReqMsg::handle` |
| `releaseCpu` | a closed socket in `handleReq`, also of a client that did not ask |
| `BadMsg` | a line that does not parse, in `handleReq` |
| `getStatsFromDb` | the statistics thread |

Left out because no property tells it apart: names, the text of messages, the
arithmetic of load averages (dividing by the number of cpus and comparing with
0.9, 0.7 and 0.8 leaves the three classes), and messages about hosts that are
not listed, which change nothing. The number of cpus and the power index of a
host do not change after its creation, in the code as in the model. A power
index may be any integer, as the file allows; a number of cpus is at least 1.

### HostPool

Per host a status, the cpus that can be lent and the cpus that are lent. It says
which status may follow which (in particular that nothing but coming up leads
out of `unavailable`, and that only available and overloaded hosts go silent),
that leaving the available status takes all cpus out, that coming back puts all
of them in, and that a cpu that comes back is kept only by an available host.
`DmucsDb` implements it under the mapping `status <- state_`,
`free <- cpus in the tier of the host's load`, `lent <- entries of
assignedCpus_` (`ImplementsHostPool`).

### DmucsThreads

It extends `DmucsDb` and uses its variables and operators. `todo[t]` is what
thread `t` (the server thread or the silent thread) still has to do: a sequence
of steps, each with a host and an argument. A step is a call of a `DmucsDb`
method that takes the mutex, or one access to a field of a host that another
thread may access: reading `state_` to find a virtual method (`Event`), assigning
it (`SetState`), reading it again for `addToDb` (`ReadState`), storing the load
averages (`StoreLd`, `SetLd`) and the time (`Stamp`), the two reads after an
update (`IfSilent`, `IfOverloaded`), and the steps of `releaseCpu`, which takes no
mutex (`ReleaseCpu`, `GiveBack`, `AddCpu`). `Event` replaces itself by the steps
of the method of the state that it reads.

`owner` is the silent thread while it searches. The server thread never holds
the mutex between two of its steps, so it only waits for the silent thread, and
the statistics thread takes one step. Accesses by one thread only (the server
thread alone writes load averages, and alone uses the maps from sockets and the
set of all hosts) are joined with the step next to them.

Data races are choices over their outcomes. The three load averages are stored
one by one, so that what was a light load can be read as any other. When
`AddCpu` and a change of the pool by the silent thread are both next, the cpu
may be added or lost; such a race can also corrupt the list and crash
the server, which is not modelled.

### GetHost

One run of `gethost`. `pc` is its place in `main`; each action is the code up to the
next call that waits, fails or sees the clock: `Sopen`, `Hostname`, `Ask`, `Reply`,
`Sleep`, `Check` (the condition of the loop), `PutEnv`, `Fork`, `Waitpid`, `Close`.
`SigchldBegins` and `SigchldEnds` are the signal handler, during which `main` stands
still. `sock` and `shut` are the socket, `childSock` the copy that the command
inherits, `resolved` is `resolved_name`, and `status` and `exit` are what `main` gets
from `waitpid` and returns.

The environment answers or closes the connection (`Reply`), lets the clock run
(`Tick`), stops, continues and ends the command (`ChildStops`, `ChildContinues`,
`ChildEnds`), each of which raises SIGCHLD, and may kill `gethost` (`Kill`), after which
the command goes on and holds the socket. The exit codes stand for all that
`WEXITSTATUS` can give; a command that a signal ends, and one that `execvp` cannot
start, are among them. `DmucsDb` sees of all this a request, more requests while
they are refused, and a close.

Left out: the options other than `--wait`, the request's text, and the value of
`DISTCC_HOSTS`: `putenv` keeps a pointer into a string that is freed at once, so the
command may find anything there.

### Monitor

`serialize` is the text that the server sends, a sequence of lines: for each dprop that
has hosts its name, its hosts with their states, and its tiers from the highest, each
with its sorted list of addresses counted as `uniqIps` counts them. `parseResults` is
what the monitor prints for it, line by line as `parseLine` goes: the summary of a
group comes when the next group begins or the text ends. Addresses and dprops are the
values of `DmucsDb`, `Unset` is the empty dprop. The text is one that fits into the
monitor's buffer of 8196 bytes; a longer one is cut.

### DmucsServer

| variable | code |
|----------|------|
| `at`, `cur`, `next` | where the server is: in select, in `Sgets` for `cur`, or past the loop over `fdList`; where it goes on after `handleReq` |
| `rmask`, `mask`, `waitall` | the variables of `Smaskwait.c` |
| `fdList` | `fdList` |
| `backlog` | the connections the kernel holds for accept |
| `conn[k]` | both ends of a connection, its descriptor in the server, the line and the reply that were written and not read |
| `status`, `free`, `holder` | the database, as `HostPool` has it, and which connection has a cpu |
| `proc[p]` | the processes: connected, asked, running a command on a host |

| action | code |
|--------|------|
| `Smaskwait` | select, and the loop that serves the first ready socket of `fdList` and no other |
| `Saccept` | `Smaskisset(server)`, accept, `addFd`; the lowest free descriptor, or a failure |
| `HostReqMsg`, `LdAvgMsg`, `StatusUpMsg`, `StatusDownMsg`, `MonitorReqMsg`, `BadMsg`, `Closed` | `handleReq`, one action for each kind of line, and for the end of the connection |
| `doSilentSearch` | the silent thread |
| `Stop`, `Start` | the server is killed and started: the database, the list and the connections are gone |
| `Sopen`, `Ask`, `Run`, `Done`, `Dies` | a gethost; `Dies` before its command runs. When it is killed after that, the command holds the connection until `Done` |
| `Sopen`, `SendLoad`, `SendStatus`, `SendBad`, `SendMonitor` | one turn of loadavg, remhost or addhost, any other program, the monitor |

`handleReq` blocks when there is nothing to read: no action is then enabled for the
server. A line is written and read as a whole. What happens to the database is what
`HostPool` allows for the kind of line; in particular a load message may put a host into
service, overload it or change nothing. Left out: the arguments of the server, and a
number of sockets beyond `FD_SETSIZE`.

### HostsFile

A lookup is the sequence of its system calls: `getInstance`, the first time with
the constructor's read (`DmucsHostsFile`) and stat (`StatConstructed`); `Stat`,
`ReadChanged`, `Find`, `FindAgain`. Between any two of them the editor may write or
remove the file (`Edit`), names may begin or cease to resolve (`Resolve`) and a second
may pass (`Tick`). `db_` and `lastFileChangeTime_` are `db` and `lastFileChangeTime`;
`contents` is the parsing loop: it stops at a line that does not parse, skips a name
that does not resolve, and keeps the first of two lines for an address. Opening and
reading the file is one step. The variables `seen`, `missed`, `readAt` and `readBy`
are history: they record what the file said during the lookup, and change nothing.

### PortMaster

The PortMaster is one process that serves one connection after the other. `pm.at` is
where it waits in the dialogue; a step reads what came, writes its answers and goes to
the next wait. `table` and `waiting` are the lists `phd` and `cwhd`, `firewall` the
list `spmfwhd`. A connection has the messages that either side wrote and the other did
not read, and which ends are open. Actions are named after the functions of `Spm.c`
(`pm_table`, `pm_client`, `pm_close`, `pm_rmserver`, `pm_quit`, `pm_fwinit`); `pm_server`
is the steps `ReadHost`, `ReadName`, `ReadPort`, `ReadFinalOk`, `TellWaiting` and
`EndTelling`; `longjmp` is any wait of 20 seconds that ends without input. After it the
variable `client` of `main`, which is set between `setjmp` and `longjmp` and is not
volatile, is indeterminate, so the connection is closed or left open.

The time limit is in `Stimeoutwait`, which is content with one byte. What is read
after it is read by `Sreadbytes` or `Sgets`, which wait for the rest without a limit. A
message is therefore either there as a whole or as a `Part` (all but its last byte, say);
while a part is all there is the PortMaster is in `HalfRead`, and only the client ends that:
it sends the rest (`SendRest`), or goes. After a part of an event the loop of `Sreadbytes`
then never ends (`Spins`), since a `recv` that answers 0 neither ends nor advances it; after
a part of a name `Sgets` fails, and the dialogue is over (`CutName`). No call of the library
writes a part: the operations `tornEvent` and `tornName` are other programs that speak as a
client does. The host, the name and the port of a server, and the names of the other dialogues,
are read in the same two ways, and their parts, which would lead to the same places, are left
out. Accept needs one of `MaxFd` descriptors. `Accepted` are the connections that have
one: that of the dialogue, those of clients that wait, and those that `longjmp` left open.
Without one `Saccept` answers `NULL` and `main` tries again at once (`NoDescriptor`).

A process makes the calls that `Calls` gives it: to open a server (`"s"` as
`server`, and `"S"`, which removes the name and tries again, as `Server`), to open a
client, now or waiting, to close a server, to remove a name, and the tools. It goes
from wait to wait in the same way, and may time out (`LosesTouch`) or be killed (`Kill`)
at any of them. A client that waits for a server has no time limit, and neither has
`Srmsrvr`; its `Sreadbytes` does not stop at the end of the connection, so a process
can be left in `spin`. A connection may stay open on the process's side too: `Sclose` does not
close the one to the PortMaster when an answer does not come, and `sktdbg` not the one on
which it had the firewall file read again. The machines matter for the firewall and for sharing (`PM_SHARE`): a server on
another machine than the PortMaster's enters its machine too.

Kills, time-outs, servers removed by name, clients the firewall turns away and two
entries with one port are counted in `mishap`: most of what the table promises holds
only as long as there was none, because an entry of a server that was killed stays, and
`pm_close` removes the first entry with a port.

## 3. Runs

| run | instance | question |
|-----|----------|----------|
| `core` | hosts with 2 and 1 cpus and power 2 and 1 in one dprop, 2 clients, fair silent thread | the properties of the database, and that it implements `HostPool` |
| `dprops` | the same hosts in two dprops, 1 client that may be dropped for a bad line | what the entries that such a client leaves behind can do to later clients and to the pool; what the monitor shows |
| `new_host_silent` | 1 host with 2 cpus, 1 client | a comment that the code does not keep |
| `threads` | 1 host, 1 client, three threads, with fairness | handlers and searches finish, and leave the host in the sub-set of its state |
| `threads_alone` | the same with 2 cpus and without the silent thread | the smaller steps of the handlers keep what the atomic ones keep |
| `down_lost` | 1 host with 2 cpus, 1 client, three threads | a comment that does not hold when a search and a handler overlap |
| `gethost` | timeouts -1, 0 and 2, exit codes 0 and 1, clock up to 4 | the server sees the connection as long as the command uses the cpu; `gethost` returns, and the cpu goes back |
| `gethost_wait` | the same | a comment that the code does not keep |
| `server` | 2 gethosts, 1 process that sends every other line, 2 connections, 1 host with 1 cpu, one restart | mask and list agree; a cpu is held as long as its command runs; everyone is served |
| `hosts_file` | 2 names and addresses, 4 contents of the file, 3 seconds | a listed host is found; when an old copy is used |
| `portmaster` | 2 processes on 2 machines that make all calls between them, 2 connections, 2 names, 2 ports, 1 mishap | the table, the waiting clients; every connection is accepted, or the PortMaster is in one of its dead ends |
| `waiters` | 2 clients that wait for 2 servers, 1 server | a comment that the code does not keep |

Bounds. Two hosts are the fewest for which one can be picked before the other;
power indices 2 and 1 make the medium load of one host fall into the tier of
the other's light load, and that of the other into tier 0. Two cpus are the fewest for
which some are lent and some are not. Two clients hold both cpus of a host, or
one of each, and one can hold a cpu through a change of state while the other
asks. `MaxServed = 1` bounds the counter of served cpus, which the
statistics thread may clear at any time, so every state of the rest is reached.
In `DmucsThreads` one host is enough
where threads meet in the methods of a host. The races can put more and more cpus of a host in the pool, so
`MaxCpus` bounds the pool at which a search begins; larger pools are reached, by one
more race. `threads` has one cpu and power index 1, with
which a medium load is in tier 0, to keep the graph small.
In `GetHost` the timeouts are one of each kind, and `MaxTime = 4` lets the clock pass
the largest of them with seconds to spare.
In `DmucsServer` two gethosts at one cpu are the fewest of which one is refused and asks
again; with the sender there are more processes than connections, and a `Socket` object
and a descriptor are used by one after the other. `MaxAsk`, `MaxJoin` and `MaxStart` bound
the requests of one gethost, how often a host is put into service and the starts of the
server. `MaxAsk` is a real restriction: `gethost --wait -1` asks again without end and
without a pause, and as the first of the list it could then keep those behind it waiting
for ever. There are as many descriptors as connections, so accept does not
fail in the run; `MaskIsRight` (section 4) is for any number of descriptors.
In `HostsFile` the four contents list a host, list it twice, list the other one first,
and have a line between the two that does not parse; three seconds are enough for two
changes in one second, before or after one in another.
In `PortMaster` the two processes make every call between them, and one mishap of any
kind may happen at any wait; `MaxTry = 1` is enough for a resent event and for the one
too many. Three processes are needed in `waiters` only. Both runs have as many
descriptors as connections, so that accept does not fail; the theorems of section 4 are for
any number of descriptors.
The server, the PortMaster and their clients may all wait for input that nobody sends,
and the processes of their runs may have used up their bounds:
these runs do not ask about deadlock, and say what must happen by their liveness
properties. Nothing else deadlocks, except that `GetHost` ends when `gethost` and its
command have ended.

Properties: `SetsMatchState`, `PoolMatchesState`, `AvailTierIsKey`,
`AssignmentsTracked`, `EntryReleasable`, `CpusNeverLost`, `OvercommitBounded`,
`MaxCoversOnceServed` (invariants),
`DownSticks`, `BestTierGiven` (action properties), `QuietHostWithdrawn`
(liveness), `ImplementsHostPool` (refinement); for the threads `FoundInItsSet`,
`HandlersKeepDb` and `ThreadsFinish` (liveness); for `GetHost` `KeepsCpuWhileRunning`,
`ReturnsAfterCommand` and `GivesCpuBack` (liveness); `MonitorShowsDb` (an invariant over
`DmucsDb`); for `DmucsServer` `MaskIsFdList`, `BlockedOnlyByNew`, `CommandsBounded`,
`HoldsWhileRunning`, and `CpuComesBack` and `EveryoneServed` (liveness); for `HostsFile`
`ListedIsFound` and `StaleOnlySameSecond`; for `PortMaster` `NamesUnique`, `TableIsTrue`,
`HeadNotForgotten`, `ToldWhenListening` (action property) and `Served` (liveness); and
one type invariant for each module. Each is explained where it is
defined. For each of them `PROJECT.json` names a mutant: a form of an operator
with a plausible mistake, under which the run finds the property violated. The
mutants stand before the operators they change.

`BadMsgs` says whether a client may send a line that does not parse. None of the
repository's clients does, so `core` excludes it. `dprops` shows what still holds when one
does: every entry of `sock2DpropDb_` has its cpu, and the pool stays bounded.

Fairness. In `DmucsDb` only `handleSilentHosts` is weakly fair: the silent thread loops for
ever, sleeping 60 seconds between searches, and needs nothing but the mutex.
In `DmucsThreads` the steps of a search that began are weakly fair, and those of a
handler that began strongly fair: the silent thread sleeps for 60 seconds after
each search, long enough for a waiting server thread to get the mutex. That a
search begins, or that a message comes, is not assumed.
No fairness is assumed of clients or hosts.
In `GetHost` the program is weakly fair, and the command ends: a stopped command is
continued (weakly fair), and a command that runs again and again ends (strongly
fair). That it is killed, or stopped, is not assumed.
In `DmucsServer` the server's thread runs and the server is started again; a process that
has connected sends its line, one that has its answer uses it, a command ends and closes,
and a process whose server has gone gives up. That a process connects, asks a second time
or is killed is not assumed. Without the client's share nothing could be promised: a
process that connects and sends nothing blocks the server for ever (`main.cc:193`), which
is what `BlockedOnlyByNew` narrows down.
In `PortMaster` only the PortMaster itself is weakly fair: it runs, and its waits of 20
seconds end. Nothing is assumed of the processes: they may stop at any point, leave
connections open, or withhold the rest of a message. So `Served` cannot say that every
connection is accepted; it says that it is, unless the PortMaster ends in a loop without
end (`spin`), without a descriptor (`NoDescriptor`), or with the part of a message of which the
rest never comes (`[]HalfRead`). A `HalfRead` that a client does end is no exception. The
first and the last happen in the run, and without them `Served` is violated; that descriptors
do not run out is an assumption of the run, and no exception there.

What the violated statements show:

* `new_host_silent`: the first load average of a host creates it without
  a time of update, so the next search makes it silent.
* `down_lost`: the search reads `state_` as available, the server thread stores
  unavailable, the search stores silent. The next load average makes a host
  available that was taken out of service.
* `gethost_wait`: the loop goes on while more time than the timeout has passed, so
  `--wait 2` gives up after one refusal and one second.

* `waiters`: `pm_server`'s loop over the waiting clients steps with `cwnxt`, which only
  a client that was just told sets. A client that waits for another server at the head
  of the list ends the loop, and those behind it are not told. (After one
  that was told, such a client keeps the loop going for ever: the place `spin`.)

Other statements of comments that the code does not keep, of which no run is kept:

* `dmucs_host.cc:97`, "0 means don't use this host": a status up message for an
  overloaded host, or a heavy load from a silent one, makes it available in tier 0, and
  its cpus are given out.
* `gethost.cc:219-222`, the server "only gives out the host based on the actual number of
  cpus on the host": a cpu is lent, one load average is heavy and the next light, and the
  host has all its cpus in the pool again and one with a client. `OvercommitBounded` says
  how far this can go.
* `main.cc:72-75`, the closing of a client's socket places "the compilation cpu back into
  the db": not when the client is dropped for a bad line; its cpu stays assigned.
* `dmucs_host_state.cc:55-56`, on going silent, "Remove the CPUs from the cpus database": a
  release that reads the state before the search and adds the cpu after it, or a search
  between `moveCpus` and the store of the load, leaves cpus of a silent host in the pool.
* `dmucs_db.cc:499`, "the maximum number of cpus assigned to clients at one time": it
  starts each period at 0 though cpus are assigned. `MaxCoversOnceServed` says from when
  on it is right.
* `COSMIC/DOC/sockets.tex:134-137` and `1082-1085`, the PortMaster "is resistant to hanging" and
  waits "no more than TIMEOUT seconds for data": a client that writes one byte of its event
  and keeps the connection open keeps it in `Sreadbytes`. Hence the exceptions of `Served`.
* `dmucs_hosts_file.h:46-48`, the file is read again "when necessary": not when it changes
  twice within one second (`StaleOnlySameSecond`).

A release can also lose its cpu to a search that changes the same list at that moment
(`AddCpu`), when the list holds cpus of two hosts.

## 4. Proofs

`DmucsDbProofs` proves for every set of hosts, dprops and (finitely many)
clients, every number of cpus and every power index:

* `TypeCorrect`, `SetsCorrect`, `PoolCorrect`, `TierKeysCorrect`: the
  invariants of the same names in the runs;
* `DownStays`: `DownSticks`;
* `AssignmentsCorrect`: `AssignmentsTracked`, when every message parses.

The inductive invariant is `HostInv`: types, and for every host that its view is
`Good`. `Good` joins three statements that do not hold up alone. That the pool
is empty of a host's cpus when it stops being available needs all its cpus to
be in the tier that the host computes *at that moment*, so the tier is part of
`PoolMatchesState`; that the host is then removed from `availHosts_` needs that
tier to be a key of `availCpus_`, since `delFromAvailDb` returns early
otherwise; and that it is in one sub-set afterwards needs that it was only
in the one that is removed. There is a lemma for each method, from the
primitives on views up to `updateTier`, and `HostInvNext` has one step for each
action. `HostInvParts` shows that `HostInv` is the conjunction of the
invariants that the run `core` checks.

It also proves of the cpus, in the pool and with clients:

* `EntriesReleasable`: `EntryReleasable`;
* `MaximumCovers`: `MaxCoversOnceServed`;
* `BestTierAlways`: `BestTierGiven`;
* `OvercommitIsBounded`: `OvercommitBounded`;
* `PoolImplemented`: `ImplementsHostPool`, when every message parses;
* `NoCpuLost`: `CpusNeverLost`, when every message parses.

The first four hold with and without bad lines. They rest on `MapsInv`: `HostInv`, with
`EntryReleasable` and with `EntriesOfDprop`, that a cpu is entered under the dprop of its
host; without the latter a release could put a cpu into the pool of another dprop.
`GrantEffect` and `ReleaseEffect` say once what a request and a release do to the pool
and to the maps, whatever branch they take; everything after them uses only that.
The refinement goes step by step (`PoolImplemented` has a step for each action), with a
lemma for every method of a host that takes its view to the next one (`ViewStep`): it
withdraws, returns or leaves the host as `HostPool` says. That no cpu is lost then
follows from the effect of a step on the abstract pool (`PoolEffect`) and not from the
code again. With a bad line a cpu stays assigned in `assignedCpus_` that no client has,
and the mapping of `lent` no longer follows `HostPool`, so both theorems say `BadMsgs = FALSE`.

The assumptions are those named in `DmucsDb`: the constants are of the right
kind, `None` is not a host or dprop, and there are finitely many sockets.

`DmucsThreadsProofs` proves for every set of hosts, dprops and clients, every number of
cpus and power index and every bound of the pool:

* `ThreadsTypesCorrect`: `ThreadsTypeOK`;
* `FoundInItsSetAlways`: `FoundInItsSet`;
* `HandlersKeepDbAlways`: `HandlersKeepDb`.

The first two are about all three threads and the invariant `ThreadsInv`. A host may be in
no sub-set while handlers run; the invariant says that then a thread has still to add it to
the set of the state it has *now* (`Pending`), that whoever takes a host out of a sub-set, or
assigns its state, has an `addToDb` for it further on (`AddsLater`), and that a search gives the
mutex back at its end and not before (`UnlockLast`). A host in two sub-sets at once is
allowed by it: that is what the races do.

`HandlersKeepDb` is about the time without a search (`Searching`), where a handler must
end where the one step of `DmucsDb` ends. Its invariant `AloneInv` says for the step that
comes next what the host of the handler looks like and which steps are left (`Stage`):
when `delCpus` is next the host is `Settled`, before `setState` it is in no sub-set and has no
cpu in the pool, before `addTo` its state is new, and so on; all other hosts are
`Settled`, and all are when nothing is left. `Settled(h, d)` counts the cpus `d` that are for
the moment neither in the pool nor with a client, as between `giveBack` and `addCpu`.

The proofs about the threads use no other assumption than those of `DmucsDb`.

`MonitorProofs` proves for every finite set of hosts and dprops, and otherwise for all
constants that `DmucsDb` allows:

* `MonitorCorrect`: `MonitorShowsDb`.

It is a statement about functions of the state, and needs `HostInv` all the same: a host with
cpus in a tier is available, so it is known, and its dprop has text; without that the cpus
would be in no group. The argument follows the text. `CountedBlocks` says what the loop of
`uniqIps` has after any part of a sorted list, and `UniqIps` that its result has each address
of the list once, with the number of its cpus. `TextShape` says of the text (`Text`) what its
lines are: a line of a host or of a tier comes after the header of its dprop and before the
next header, each host has one line, and an empty dprop comes first, because its header
prints nothing and what follows would otherwise go to the group before. `Shows` is the invariant
of the parser after `k` lines: each host of these lines is in one place only, in the output
under its dprop or in the list of its state, and each tier is in the output. `ShowsHeader`,
`ShowsHost` and `ShowsTier` keep it for a line of each kind, with `ShowsDump` for the summary
that a header, or the end of the text, prints.
`serialize` joins sequences and the parser is a fold, which the library's induction theorems
could only be used for with an operator as argument. `Induction` in `Positions` is about
a set of numbers instead, so that each use of it defines the set of the `n` for which
the claim holds; `FoldExists` and `FlattenParts` give from it that a left fold is the end of
a sequence of results (`Iterates`), and what stands where in parts that are joined.
Besides the assumptions of `DmucsDb` it uses `MonitorAssumption`: there are finitely many
hosts and dprops.

`GetHostProofs` proves for all timeouts, exit codes and bounds of the clock:

* `CpuKept`: `KeepsCpuWhileRunning`;
* `CommandWaitedFor`: `ReturnsAfterCommand`.

Its inductive invariant `GetHostInv` (with the types) says where the program is when
the socket is open and when the command exists: the socket of a `gethost` that has
a cpu is open until it has ended, `Sclose` is reached only when the command has been
reaped (by `waitpid` or by the signal handler), and `status` is 0 until `waitpid`
has filled it in, which is why a lost exit status becomes 0.

`HostsFileProofs` proves for all names, addresses, contents of the file and clocks:

* `HostsFileTypeCorrect`: `HostsFileTypeOK`;
* `HostFound`: `ListedIsFound`;
* `OldCopyOnlySameSecond`: `StaleOnlySameSecond`.

Its inductive invariant `IInv` says when the cache can be old. The two properties alone are
not inductive, because what a lookup finds was read by an earlier one.
`ChangedSinceRead`: a copy that is not what the file says was read no later than the
second of the file's last change. `ReadAfterStat`: the change time is remembered before
the file is read, so it is not later than the second of the read, except after
the constructor (`ConstructedBy`), where the order is the other one. From both follows
`FoundNotOld`: when stat finds the remembered time on disk and the copy is old, that time
is the second of the read. `HistoryNow` ties the history to the present. The only
assumption is `HostsFileAssumption`.

`DmucsServerProofs` proves for every number of clients, connections, hosts, cpus and
descriptors:

* `ServerTypeCorrect`: `ServerTypeOK`;
* `MaskIsRight`: `MaskIsFdList`;
* `OnlyNewBlocks`: `BlockedOnlyByNew`;
* `CommandHoldsCpu`: `HoldsWhileRunning`;
* `CommandsAreBounded`: `CommandsBounded`.

There are four invariants. `TypeInv` adds to the types that `cur` is a socket of `fdList`
while it is read from, that the server's descriptor is found ready only when somebody waits,
and that a process that is not idle has a connection. `ListInv` adds to the two properties
that the sockets of `fdList` have *different* descriptors, and that those of the backlog have
none and stand there once: without it, removing one socket could take the bit of another
out of the mask. `HoldInv` has a part for connections and one for processes. A connection
has one process at most (`Owned`); one with an unread line has no cpu and no unread answer,
so a `gethost` cannot be given a second cpu for a question it asked before (`ConnHold`);
and a process that is still to ask, or runs its command at home, holds none (`ProcHold`).
The lemma `OneProcess` says what a step of one process has to keep of its connection.
`BoundInv` counts for each host the connections that lay claim to a cpu of it (`Claimed`): those
that hold one in the database, and those whose process has been told of the host, be it by a
server that has gone since. With the free cpus they are at most the host's cpus times the number
of times it was put into service; the stop of a server forgets the holders and leaves the
commands, and the next join brings all cpus back, which is why joins are counted.
The only assumption is `ServerAssumption`: the bounds are natural numbers, the
connections are finitely many numbers, and an address that is given out is neither
`0.0.0.0` nor the monitor's text.

`PortMasterProofs` proves for all names, processes, machines, ports, connections, descriptors,
contents of the firewall file and bounds:

* `NamesAreUnique`: `NamesUnique`;
* `PortMasterTypesCorrect`: `PortMasterTypeOK`;
* `TableIsTrueAlways`: `TableIsTrue`;
* `HeadNotForgottenAlways`: `HeadNotForgotten`;
* `ToldWhenListeningAlways`: `ToldWhenListening`.

The name of a server is looked up when the request comes, and entered when the new server
has told its port, in one dialogue that nobody else can come into. The invariant `NamesInv` says
that while the port is awaited the name is not in the table, and that the table is a
sequence, so that an entry removed by `delPortTable` leaves the others apart (`Removed` in
`Positions`).

The types need to know what the PortMaster reads: with `pm_server` a message that is a port
where a name is awaited would enter a port as a name. The invariant `Inv` says what either
side has written that the other has not read. `Unread` lists it for each place of the
PortMaster, whoever is at the other end or has left; `Talks` ties it, and the answers that
were not read, to the call of a process that is still there (`Asked` before the first
answer is dealt with, `Told` after the rest has been written). `ListInv` says that a
connection is at most in one place, the backlog, the waiting list or the dialogue, once,
and open, `ProcOK` and `ProcsApart` that a process has a connection as long as it is in
a call, and that no two have one connection, or one port on a machine. No condition
on what has gone wrong is needed for that: each side may give up at any wait, leave its
end open (`LeftOpen`), or have sent a part of a message and then the rest (`SendRestStep`).

The three others hold as long as `mishap = 0`, and `TruthInv` is what then holds in
addition. `OnTable(p)` says from which step to which the entry of a process is in the table:
from the step of the PortMaster that reads its port, before it listens, until its PM_CLOSE has
been answered. `Entered` and `Owned` say that the entries are exactly those, and
`PortsApart` that the entry `pm_close` finds by its port is that of the process that closes.
Three parts say why nothing else takes an entry out or leaves one there. `Attended`: a
server that comes or goes is still waiting for its turn, or in its dialogue, or was answered
for good, so none finds its connection closed without an answer, and a `Sclose` never gives
up an entry that stays. `NoStrays`: behind a request in the backlog, and at the places of
`Needs`, there is a process, so a port is entered, or an entry removed, only for one that
is there. `HeadInv` and `TellInv`: an entry for the name of the first client that waits can
only be that of the server whose dialogue the PortMaster is in. `OwnTruth` and
`ConnectTruth` say what a step of a process has to keep, `DialogueTruth` what a step of the
PortMaster that leaves the table alone has to keep; `pm_close` and `ReadPort` have proofs of
their own. The only assumption is `PortMasterAssumption`: the constants are of the
right kind, there is a descriptor, the calls that name a server have a name, ports are
positive numbers, and `None` is nothing else.

Only model-checked: the liveness properties (`QuietHostWithdrawn`, `ThreadsFinish`,
`GivesCpuBack`, `CpuComesBack`, `EveryoneServed`, `Served`), which are out of reach of the
prover.

## 5. Plan

Every invariant and every action property that a passing run checks is a theorem. What could
follow: which of the parts of `TruthInv` survive a time-out or a
kill (an entry without a process stays until somebody removes it by name, but names stay
unique), as theorems without the condition on `mishap`; and the composition of a dmucs
server that is found through the PortMaster.

## 6. Not modelled

* `dmucs_resolve.cc`: one mutex around `gethostbyaddr`; it keeps no state.
* `dmucs_pkt.cc` and `test.cc`, which are not compiled, the scripts and the build files.
* The parts of the socket library that nothing modelled here calls, among them
  `Smasktime`, `Smaskpush` and `Smaskpop`, formatting and scanning (`Sprintf.c`,
  `Svprintf.c`, `Sscanf.c`), colours (`rdcolor.c`) and the screen of `sktdbg.c`.
* The connection of a client to a named server, once it knows the port.
* What `uptime` prints, and so the load of zero that `loadavg` sends when it prints
  nothing; output on stderr and stdout other than the monitor's; command-line options
  other than `--wait`.
