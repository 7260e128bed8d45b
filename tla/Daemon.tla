------------------------------- MODULE Daemon -------------------------------
(***************************************************************************)
(* Which process is the daemon: every other module takes for granted that  *)
(* there is one.  A client that reaches nobody behind the socket spawns a  *)
(* process, whose start is a sequence of calls to the file system, with    *)
(* other processes in between: create the lock file, or look whether the   *)
(* process named in it lives, remove it and try again; remove the socket;  *)
(* listen.  A deployment asks the daemon of another build to drain and     *)
(* close.  A dead process leaves its files behind.                         *)
(***************************************************************************)
EXTENDS Naturals

CONSTANTS
  Process,        \* process ids; one is used again when no file names it
  NoProcess,
  Client,
  BuildOf,        \* the build a client expects
  Deployer,       \* clients with allowBuildHandover
  MaxWork,        \* bound: Tasks in the queue
  MaxFaults,      \* bound: processes that die
  Overlaps        \* two starts may recover a stale lock at the same time, and a daemon that was closed
                  \* twice may still wait for its connections when the next one starts

ASSUME DaemonAssumption ==
  /\ NoProcess \notin Process /\ Deployer \subseteq Client /\ Overlaps \in BOOLEAN
  /\ MaxWork \in Nat /\ MaxFaults \in Nat

VARIABLES
  proc,       \* the processes
  lock,       \* the lock file: who created it, whether it has written its pid
  socket,     \* the process that listens behind the socket file
  client,     \* ensureStarted
  queue,      \* Tasks the scheduler can claim
  faults

vars == <<proc, lock, socket, client, queue, faults>>

NoLock == [by |-> NoProcess, written |-> FALSE]
Dead == [pc |-> "dead", build |-> "none", draining |-> FALSE, jobs |-> 0, owner |-> FALSE,
         again |-> FALSE, asked |-> "no"]

Pc == {"dead", "opening", "writing", "reading", "removing", "cleaning", "listening", "up", "due", "control",
       "server", "unlocking"}
Row == [pc : Pc, build : {"none"} \cup {BuildOf[c] : c \in Client}, draining : BOOLEAN, jobs : Nat,
        owner : BOOLEAN, again : BOOLEAN, asked : {"no", "idle", "busy"}]

ClientPc == {"idle", "stopping", "draining", "spawning", "starting"}

TypeOK ==
  /\ proc \in [Process -> Row]
  /\ lock \in [by : Process \cup {NoProcess}, written : BOOLEAN]
  /\ socket \in Process \cup {NoProcess}
  /\ client \in [Client -> ClientPc]
  /\ queue \in 0..MaxWork /\ faults \in 0..MaxFaults

Init ==
  /\ proc = [p \in Process |-> Dead] /\ lock = NoLock /\ socket = NoProcess
  /\ client = [c \in Client |-> "idle"] /\ queue = MaxWork /\ faults = 0

At(p, pc) == proc[p].pc = pc
Alive(p) == ~At(p, "dead")
To(p, pc) == [proc EXCEPT ![p].pc = pc]
Exited(p) == [proc EXCEPT ![p] = Dead]

\* The server takes requests up to close(), the scheduler claims as long, and its Tasks run on
\* until control.close() is done.
Open(p) == proc[p].pc \in {"up", "due"}
Running(p) == Open(p) \/ At(p, "control")

\* Closed for the second time, it has given the lock back and goes on with its first close().
Lingers(p) == proc[p].pc \in {"server", "unlocking"} /\ ~proc[p].owner

-----------------------------------------------------------------------------
\* start()

CreateLock(p) ==
  /\ At(p, "opening") /\ (Overlaps \/ \A q \in Process : ~Lingers(q))
  /\ IF lock = NoLock THEN lock' = [by |-> p, written |-> FALSE] /\ proc' = To(p, "writing")
                      ELSE UNCHANGED lock /\ proc' = To(p, "reading")
  /\ UNCHANGED <<socket, client, queue, faults>>

\* The pid goes into the file that was created, which may have been removed since.
WriteLock(p) ==
  /\ At(p, "writing")
  /\ lock' = IF lock.by = p THEN [lock EXCEPT !.written = TRUE] ELSE lock
  /\ proc' = [proc EXCEPT ![p].pc = "cleaning", ![p].owner = TRUE]
  /\ UNCHANGED <<socket, client, queue, faults>>

PositiveOnly(l) == l.written /\ Alive(l.by)      \* mutant: an empty file does not count as a process

\* An empty lock file reads as pid 0, and a signal to process 0 succeeds.
LockHeld(l) == l.written => Alive(l.by)

\* Gone in between (ENOENT) or held: the start fails and the process exits.
ReadLock(p) ==
  /\ At(p, "reading")
  /\ IF lock = NoLock \/ LockHeld(lock) THEN proc' = Exited(p)
     ELSE (Overlaps \/ \A q \in Process : ~At(q, "removing")) /\ proc' = To(p, "removing")
  /\ UNCHANGED <<lock, socket, client, queue, faults>>

RemoveLock(p) ==
  /\ At(p, "removing")
  /\ lock' = NoLock
  /\ proc' = IF lock = NoLock THEN Exited(p) ELSE To(p, "opening")
  /\ UNCHANGED <<socket, client, queue, faults>>

SocketLeft(p) ==      \* mutant: the socket file of a dead daemon stays
  At(p, "cleaning") /\ proc' = To(p, "listening") /\ UNCHANGED <<lock, socket, client, queue, faults>>

RemoveSocket(p) ==
  /\ At(p, "cleaning")
  /\ socket' = NoProcess /\ proc' = To(p, "listening")
  /\ UNCHANGED <<lock, client, queue, faults>>

\* startBackground and listen; EADDRINUSE ends the process.
Listen(p) ==
  /\ At(p, "listening")
  /\ IF socket = NoProcess THEN socket' = p /\ proc' = To(p, "up")
                           ELSE UNCHANGED socket /\ proc' = Exited(p)
  /\ UNCHANGED <<lock, client, queue, faults>>

-----------------------------------------------------------------------------
\* Work and the end of it

\* The scheduler knows nothing of draining.
Claim(p) ==
  /\ Open(p) /\ queue > 0
  /\ queue' = queue - 1 /\ proc' = [proc EXCEPT ![p].jobs = @ + 1]
  /\ UNCHANGED <<lock, socket, client, faults>>

JobEnds(p) ==
  /\ Running(p) /\ proc[p].jobs > 0
  /\ proc' = [proc EXCEPT ![p].jobs = @ - 1]
  /\ UNCHANGED <<lock, socket, client, queue, faults>>

\* setImmediate(close), or a signal; a second one before or after the first has begun.
CloseDue(p) ==
  IF At(p, "up") THEN To(p, "due") ELSE [proc EXCEPT ![p].again = TRUE]

Drained(p) ==
  /\ At(p, "up") /\ proc[p].draining /\ proc[p].jobs = 0
  /\ proc' = CloseDue(p)
  /\ UNCHANGED <<lock, socket, client, queue, faults>>

\* /shutdown acts on what it read before the body of the request had come: it drains, or closes.
ShutdownHandled(p) ==
  /\ proc[p].asked # "no"
  /\ LET q == IF proc[p].asked = "busy" /\ Open(p) THEN [proc EXCEPT ![p].draining = TRUE] ELSE CloseDue(p)
     IN proc' = [q EXCEPT ![p].asked = "no"]
  /\ UNCHANGED <<lock, socket, client, queue, faults>>

Signalled(p) ==
  /\ Open(p) /\ faults < MaxFaults
  /\ faults' = faults + 1 /\ proc' = CloseDue(p)
  /\ UNCHANGED <<lock, socket, client, queue>>

\* server.close() removes the socket file, control.close() waits.
Close(p) ==
  /\ At(p, "due")
  /\ socket' = NoProcess /\ proc' = To(p, "control")
  /\ UNCHANGED <<lock, client, queue, faults>>

\* The Tasks have ended, or are interrupted after 30 seconds.
ControlCloses(p) ==
  /\ At(p, "control")
  /\ proc' = [proc EXCEPT ![p].pc = "server", ![p].jobs = 0]
  /\ UNCHANGED <<lock, socket, client, queue, faults>>

Unlocked(p) == IF proc[p].owner THEN NoLock ELSE lock

\* The connections have ended.
UnlinkSocket(p) ==
  /\ At(p, "server") /\ proc[p].asked = "no"
  /\ socket' = NoProcess /\ proc' = To(p, "unlocking")
  /\ UNCHANGED <<lock, client, queue, faults>>

Unlock(p) ==
  /\ At(p, "unlocking")
  /\ lock' = Unlocked(p) /\ proc' = Exited(p)
  /\ UNCHANGED <<socket, client, queue, faults>>

\* A second close() has no server to wait for.
CloseAgain(p) ==
  /\ At(p, "server") /\ proc[p].again
  /\ socket' = NoProcess /\ lock' = Unlocked(p)
  /\ proc' = [proc EXCEPT ![p].owner = FALSE, ![p].again = FALSE]
  /\ UNCHANGED <<client, queue, faults>>

Die(p) ==
  /\ Alive(p) /\ faults < MaxFaults
  /\ faults' = faults + 1 /\ proc' = Exited(p)
  /\ UNCHANGED <<lock, socket, client, queue>>

-----------------------------------------------------------------------------
\* Clients

Reached == {p \in Process : socket = p /\ Open(p)}
Matching(c) == {p \in Reached : proc[p].build = BuildOf[c]}
ClientTo(c, pc) == client' = [client EXCEPT ![c] = pc]

\* A request may also time out although the daemon lives.
Unreached(c) ==
  /\ client[c] \in {"idle", "stopping", "draining"} /\ ClientTo(c, "spawning")
  /\ UNCHANGED <<proc, lock, socket, queue, faults>>

\* Only a client with authority goes on when the builds differ.
Differs(c) ==
  /\ client[c] = "idle" /\ c \in Deployer /\ Reached # {} /\ Matching(c) = {}
  /\ ClientTo(c, "stopping")
  /\ UNCHANGED <<proc, lock, socket, queue, faults>>

\* /shutdown comes to whoever is there by then, and counts its work.
Shutdown(c) ==
  /\ client[c] = "stopping" /\ ClientTo(c, "draining")
  /\ \E p \in Reached :
       /\ proc[p].asked = "no"
       /\ proc' = [proc EXCEPT ![p].asked = IF proc[p].jobs > 0 THEN "busy" ELSE "idle"]
  /\ UNCHANGED <<lock, socket, queue, faults>>

Spawn(c) ==
  /\ client[c] = "spawning" /\ ClientTo(c, "starting")
  /\ \E p \in Process :
       /\ ~Alive(p) /\ lock.by # p /\ socket # p
       /\ proc' = [proc EXCEPT ![p] = [Dead EXCEPT !.pc = "opening", !.build = BuildOf[c]]]
  /\ UNCHANGED <<lock, socket, queue, faults>>

\* The expected build answers, or the deadline passes and the caller has an error.
Returns(c) ==
  /\ client[c] \in {"draining", "starting"} /\ ClientTo(c, "idle")
  /\ UNCHANGED <<proc, lock, socket, queue, faults>>

-----------------------------------------------------------------------------
Lives(p) ==
  \/ CreateLock(p) \/ WriteLock(p) \/ ReadLock(p) \/ RemoveLock(p) \/ RemoveSocket(p) \/ Listen(p)
  \/ JobEnds(p) \/ Drained(p) \/ ShutdownHandled(p) \/ Close(p) \/ ControlCloses(p) \/ UnlinkSocket(p) \/ Unlock(p)

Next ==
  \/ \E p \in Process : Lives(p) \/ Claim(p) \/ Signalled(p) \/ CloseAgain(p) \/ Die(p)
  \/ \E c \in Client : Unreached(c) \/ Differs(c) \/ Shutdown(c) \/ Spawn(c) \/ Returns(c)

Spec == Init /\ [][Next]_vars

\* Processes run on, and a client that reaches nobody does something about it: calls keep coming.
Fairness ==
  /\ \A p \in Process : WF_vars(Lives(p))
  /\ \A c \in Client :
       /\ WF_vars(Reached = {} /\ Unreached(c)) /\ WF_vars(Shutdown(c)) /\ WF_vars(Spawn(c))
       /\ WF_vars(Returns(c))

FairSpec == Spec /\ Fairness

-----------------------------------------------------------------------------
\* Properties

\* The lock guards the daemon (docs/operations/RUNTIME_LIFECYCLE.md:19): whoever schedules Tasks, or still
\* waits for them in close(), holds the lock with its pid in it, and whoever takes requests is the one
\* behind the socket.  So there is one daemon, and the other modules may assume it, as long as the lives
\* of processes do not overlap in the two ways of Overlaps.
LockGuards ==
  \A p \in Process :
    /\ Running(p) => lock = [by |-> p, written |-> TRUE]
    /\ Open(p) => socket = p

\* Crashes, hand-overs and starts that meet a closing daemon leave files and callers with errors, but
\* the next calls bring a daemon back.  The exception is a process that dies between creating the lock
\* file and writing its pid (daemon.js:80): every later start takes the empty file for a live process.
Orphaned == lock # NoLock /\ ~lock.written /\ ~Alive(lock.by)
ServiceReturns == []<>(Reached # {}) \/ <>[]Orphaned
=============================================================================
