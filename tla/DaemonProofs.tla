---------------------------- MODULE DaemonProofs ----------------------------
(***************************************************************************)
(* Theorems about Daemon for every value of its constants.                 *)
(***************************************************************************)
EXTENDS Daemon, TLAPS

Written(p) == [by |-> p, written |-> TRUE]
Serving(p) == Running(p) \/ proc[p].pc \in {"cleaning", "listening"}

\* What a process knows about the files at each of its steps.
Knows(p) ==
  /\ At(p, "writing") => lock = [by |-> p, written |-> FALSE]
  /\ proc[p].owner => lock = Written(p) /\ Alive(p)
  /\ Serving(p) => proc[p].owner
  /\ Lingers(p) => lock = NoLock
  /\ At(p, "removing") => lock.written /\ ~Alive(lock.by)
  /\ Open(p) => socket = p
  /\ ~Alive(p) => proc[p].asked = "no"

\* One process at a time removes a stale lock; no lock names nobody.
OneRemover ==
  /\ lock.by = NoProcess => lock = NoLock
  /\ \A p, q \in Process : At(p, "removing") /\ At(q, "removing") => p = q

IInv == TypeOK /\ (\A p \in Process : Knows(p)) /\ OneRemover

-----------------------------------------------------------------------------
\* Rows

LEMMA DeadType == Dead \in Row
BY DEF Dead, Row, Pc

LEMMA ExitedType ==
  ASSUME TypeOK, NEW p \in Process
  PROVE  /\ Exited(p) \in [Process -> Row]
         /\ Exited(p)[p] = Dead
         /\ \A q \in Process \ {p} : Exited(p)[q] = proc[q]
BY DeadType DEF TypeOK, Exited

LEMMA ToType ==
  ASSUME TypeOK, NEW p \in Process, NEW pc \in Pc
  PROVE  /\ To(p, pc) \in [Process -> Row]
         /\ To(p, pc)[p] = [proc[p] EXCEPT !.pc = pc]
         /\ \A q \in Process \ {p} : To(p, pc)[q] = proc[q]
BY DEF TypeOK, To, Row

LEMMA CloseDueType ==
  ASSUME TypeOK, NEW p \in Process
  PROVE  /\ CloseDue(p) \in [Process -> Row]
         /\ CloseDue(p)[p] = IF At(p, "up") THEN [proc[p] EXCEPT !.pc = "due"] ELSE [proc[p] EXCEPT !.again = TRUE]
         /\ \A q \in Process \ {p} : CloseDue(p)[q] = proc[q]
<1>1. CASE At(p, "up")
  <2>1. CloseDue(p) = To(p, "due") /\ "due" \in Pc
    BY <1>1 DEF CloseDue, Pc
  <2> QED BY <1>1, <2>1, ToType
<1>2. CASE ~At(p, "up")
  <2>1. CloseDue(p) = [proc EXCEPT ![p] = [proc[p] EXCEPT !.again = TRUE]]
    BY <1>2 DEF CloseDue
  <2>2. [proc[p] EXCEPT !.again = TRUE] \in Row
    <3>1. proc[p] \in Row
      BY DEF TypeOK
    <3> QED BY <3>1 DEF Row
  <2>3. CloseDue(p)[p] = [proc[p] EXCEPT !.again = TRUE]
    BY <2>1 DEF TypeOK
  <2>4. CloseDue(p) \in [Process -> Row] /\ \A q \in Process \ {p} : CloseDue(p)[q] = proc[q]
    BY <2>1, <2>2 DEF TypeOK
  <2> QED BY <1>2, <2>3, <2>4
<1> QED BY <1>1, <1>2

\* Who holds the lock is alone with it.
LEMMA OwnerAlone ==
  ASSUME IInv, NEW p \in Process, NEW q \in Process, p # q, proc[p].owner
  PROVE  ~proc[q].owner /\ ~Serving(q) /\ ~At(q, "writing") /\ ~Lingers(q) /\ ~At(q, "removing")
<1>1. lock = Written(p) /\ Alive(p)
  BY DEF IInv, Knows
<1>2. lock.by = p /\ lock.written /\ p # NoProcess
  BY <1>1, DaemonAssumption DEF Written
<1>3. Knows(q)
  BY DEF IInv
<1>4. ~proc[q].owner
  BY <1>2, <1>3 DEF Knows, Written
<1>5. ~Serving(q) /\ ~Lingers(q)
  BY <1>2, <1>3, <1>4 DEF Knows, NoLock
<1>6. ~At(q, "writing") /\ ~At(q, "removing")
  BY <1>1, <1>2, <1>3 DEF Knows
<1> QED BY <1>4, <1>5, <1>6

\* While there is no lock, nobody owns one, creates one or removes one.
LEMMA NoLockNobody ==
  ASSUME IInv, NEW q \in Process, lock = NoLock
  PROVE  ~proc[q].owner /\ ~Serving(q) /\ ~At(q, "writing") /\ ~At(q, "removing")
<1>1. ~lock.written /\ lock.by # q
  BY DaemonAssumption DEF NoLock
<1>2. Knows(q)
  BY DEF IInv
<1> QED BY <1>1, <1>2 DEF Knows, Written

\* Nor does anybody own a stale one.
LEMMA StaleNobody ==
  ASSUME IInv, NEW p \in Process, NEW q \in Process, At(p, "removing")
  PROVE  /\ ~proc[q].owner /\ ~Serving(q) /\ ~At(q, "writing") /\ ~Lingers(q)
         /\ p # q => ~At(q, "removing")
<1>1. lock.written /\ ~Alive(lock.by)
  BY DEF IInv, Knows
<1>2. Knows(q) /\ OneRemover
  BY DEF IInv
<1>3. ~proc[q].owner
  BY <1>1, <1>2 DEF Knows, Written
<1>4. ~At(q, "writing") /\ ~Lingers(q)
  BY <1>1, <1>2 DEF Knows, NoLock
<1> QED BY <1>2, <1>3, <1>4 DEF Knows, OneRemover

-----------------------------------------------------------------------------
\* Steps.  Most of them leave the files alone and move one process.

\* A process that moves without the files keeps what it knows, and the others theirs.
LEMMA Moves ==
  ASSUME IInv, UNCHANGED <<lock, socket>>, client' \in [Client -> ClientPc], queue' \in 0..MaxWork, faults' \in 0..MaxFaults,
         NEW p \in Process, proc' \in [Process -> Row], \A q \in Process \ {p} : proc'[q] = proc[q],
         Alive(p) \/ lock.by # p,
         Knows(p)', At(p, "removing")' => At(p, "removing")
  PROVE  IInv'
<1>1. TypeOK'
  BY DEF IInv, TypeOK
<1>2. \A q \in Process \ {p} : Knows(q)'
  <2> TAKE q \in Process \ {p}
  <2>1. Knows(q) /\ proc'[q] = proc[q]
    BY DEF IInv
  <2>2. At(q, "removing") => (~Alive(lock.by))'
    <3> SUFFICES ASSUME At(q, "removing") PROVE (~Alive(lock.by))'
      OBVIOUS
    <3>1. ~Alive(lock.by) /\ lock.by # p
      BY <2>1 DEF Knows
    <3>2. lock.by \in Process
      BY <2>1, StaleNobody DEF IInv, OneRemover, NoLock, TypeOK, Knows
    <3> QED BY <3>1, <3>2 DEF Alive, At
  <2> QED BY <2>1, <2>2 DEF Knows, At, Serving, Running, Open, Lingers, Written, Alive
<1>3. OneRemover'
  BY DEF IInv, OneRemover, At
<1> QED BY <1>1, <1>2, <1>3 DEF IInv

Bystander(q) ==
  /\ proc'[q] = proc[q] /\ ~proc[q].owner /\ ~Serving(q) /\ ~At(q, "writing") /\ ~At(q, "removing")
  /\ Lingers(q) => lock' = NoLock

\* A process that changes the files while nobody else relies on them.
LEMMA Changes ==
  ASSUME IInv, UNCHANGED <<client, queue, faults>>,
         NEW p \in Process, proc' \in [Process -> Row], \A q \in Process \ {p} : Bystander(q),
         lock' \in [by : Process \cup {NoProcess}, written : BOOLEAN],
         socket' \in Process \cup {NoProcess},
         lock'.by = NoProcess => lock' = NoLock,
         Knows(p)', ~At(p, "removing")'
  PROVE  IInv'
<1>1. TypeOK'
  BY DEF IInv, TypeOK
<1>2. \A q \in Process \ {p} : Knows(q)'
  <2> TAKE q \in Process \ {p}
  <2>1. Knows(q) /\ Bystander(q)
    BY DEF IInv
  <2> QED BY <2>1 DEF Bystander, Knows, At, Serving, Running, Open, Lingers, Alive
<1>3. OneRemover'
  BY DEF OneRemover, At, Bystander
<1> QED BY <1>1, <1>2, <1>3 DEF IInv

\* What the three ways to write a row come to.
LEMMA ToFacts ==
  ASSUME TypeOK, NEW p \in Process, NEW pc \in Pc, proc' = To(p, pc)
  PROVE  /\ proc' \in [Process -> Row] /\ \A q \in Process \ {p} : proc'[q] = proc[q]
         /\ proc'[p].pc = pc /\ (proc'[p].owner <=> proc[p].owner)
<1>1. proc'[p] = [proc[p] EXCEPT !.pc = pc]
  BY ToType
<1>2. proc[p] \in Row
  BY DEF TypeOK
<1>3. proc'[p].pc = pc /\ (proc'[p].owner <=> proc[p].owner)
  BY <1>1, <1>2 DEF Row
<1> QED BY <1>3, ToType

LEMMA RowFacts ==
  ASSUME TypeOK, NEW p \in Process, NEW r \in Row, proc' = [proc EXCEPT ![p] = r]
  PROVE  proc' \in [Process -> Row] /\ proc'[p] = r /\ \A q \in Process \ {p} : proc'[q] = proc[q]
BY DEF TypeOK

\* A process exits, and leaves the files as they are.
LEMMA Exits ==
  ASSUME IInv, UNCHANGED <<lock, socket, client, queue>>, faults' \in 0..MaxFaults,
         NEW p \in Process, Alive(p), proc' = Exited(p)
  PROVE  IInv'
<1>1. proc' \in [Process -> Row] /\ proc'[p] = Dead /\ \A q \in Process \ {p} : proc'[q] = proc[q]
  BY ExitedType DEF IInv
<1>2. Knows(p)' /\ ~At(p, "removing")'
  BY <1>1 DEF Knows, At, Serving, Running, Open, Lingers, Dead
<1> QED BY <1>1, <1>2, Moves DEF IInv, TypeOK

\* A process that stays where it is.
LEMMA Stays ==
  ASSUME IInv, UNCHANGED <<lock, socket>>, client' \in [Client -> ClientPc],
         queue' \in 0..MaxWork, faults' \in 0..MaxFaults,
         NEW p \in Process, Alive(p), proc' \in [Process -> Row], \A q \in Process \ {p} : proc'[q] = proc[q],
         proc'[p].pc = proc[p].pc, proc'[p].owner <=> proc[p].owner
  PROVE  IInv'
<1>1. Knows(p)
  BY DEF IInv
<1>2. At(p, "removing") => (~Alive(lock.by))'
  <2> SUFFICES ASSUME At(p, "removing") PROVE (~Alive(lock.by))'
    OBVIOUS
  <2>1. lock.written /\ ~Alive(lock.by) /\ lock.by \in Process /\ lock.by # p
    BY <1>1 DEF Knows, IInv, OneRemover, NoLock, TypeOK
  <2> QED BY <2>1 DEF Alive, At
<1>3. Knows(p)'
  BY <1>1, <1>2 DEF Knows, At, Serving, Running, Open, Lingers, Written, Alive
<1> QED BY <1>3, Moves DEF At

-----------------------------------------------------------------------------
\* start()

LEMMA CreateLockStep ==
  ASSUME IInv, ~Overlaps, NEW p \in Process, CreateLock(p) PROVE IInv'
<1>1. TypeOK /\ Knows(p) /\ "writing" \in Pc /\ "reading" \in Pc
  BY DEF IInv, Pc
<1>2. CASE lock = NoLock
  <2>1. lock' = [by |-> p, written |-> FALSE] /\ proc' = To(p, "writing")
    BY <1>2 DEF CreateLock
  <2>2. \A q \in Process \ {p} : Bystander(q)
    BY <1>1, <1>2, <2>1, ToFacts, NoLockNobody DEF CreateLock, Bystander
  <2>3. proc'[p].pc = "writing" /\ ~proc'[p].owner
    BY <1>1, <1>2, <2>1, ToFacts, NoLockNobody
  <2>4. Knows(p)' /\ ~At(p, "removing")'
    BY <2>1, <2>3 DEF Knows, At, Serving, Running, Open, Lingers, Alive
  <2>5. lock' \in [by : Process \cup {NoProcess}, written : BOOLEAN] /\ lock'.by # NoProcess
    BY <2>1, DaemonAssumption
  <2> QED BY <1>1, <2>1, <2>2, <2>4, <2>5, ToFacts, Changes DEF CreateLock, TypeOK
<1>3. CASE lock # NoLock
  <2>1. proc' = To(p, "reading") /\ Alive(p) /\ UNCHANGED lock
    BY <1>3 DEF CreateLock, At, Alive
  <2>2. proc'[p].pc = "reading" /\ (proc'[p].owner <=> proc[p].owner)
    BY <1>1, <2>1, ToFacts
  <2>3. Knows(p)' /\ ~At(p, "removing")'
    BY <1>1, <2>1, <2>2 DEF Knows, At, Serving, Running, Open, Lingers, Written, Alive
  <2> QED BY <1>1, <2>1, <2>3, ToFacts, Moves DEF CreateLock, TypeOK
<1> QED BY <1>2, <1>3

LEMMA WriteLockStep ==
  ASSUME IInv, NEW p \in Process, WriteLock(p) PROVE IInv'
<1>1. TypeOK /\ lock = [by |-> p, written |-> FALSE] /\ p # NoProcess
  <2>1. TypeOK /\ Knows(p) /\ At(p, "writing")
    BY DEF IInv, WriteLock
  <2>2. p # NoProcess
    BY DaemonAssumption
  <2> QED BY <2>1, <2>2 DEF Knows
<1>2. lock' = Written(p)
  BY <1>1 DEF WriteLock, Written
<1> DEFINE r == [proc[p] EXCEPT !.pc = "cleaning", !.owner = TRUE]
<1>3. r \in Row /\ r.pc = "cleaning" /\ r.owner
  <2>1. proc[p] \in Row /\ "cleaning" \in Pc
    BY <1>1 DEF TypeOK, Pc
  <2>2. [proc[p] EXCEPT !.pc = "cleaning"] \in Row
    BY <2>1 DEF Row
  <2>3. r \in Row
    BY <2>2 DEF Row
  <2>4. r.pc = "cleaning"
    BY <2>1 DEF Row
  <2>5. r.owner
    BY <2>2 DEF Row
  <2> QED BY <2>3, <2>4, <2>5
<1>4. proc' = [proc EXCEPT ![p] = r]
  BY DEF WriteLock
<1>5. proc' \in [Process -> Row] /\ proc'[p] = r /\ \A q \in Process \ {p} : proc'[q] = proc[q]
  BY <1>1, <1>3, <1>4, RowFacts
<1>6. \A q \in Process \ {p} : Bystander(q)
  <2> TAKE q \in Process \ {p}
  <2>1. Knows(q) /\ lock.by # q /\ lock.by = p /\ ~lock.written
    BY <1>1 DEF IInv
  <2>2. ~proc[q].owner /\ ~At(q, "writing") /\ ~At(q, "removing")
    BY <2>1 DEF Knows, Written
  <2>3. ~Serving(q) /\ ~Lingers(q)
    BY <1>1, <2>1, <2>2 DEF Knows, NoLock
  <2> QED BY <1>5, <2>2, <2>3 DEF Bystander
<1>7. Knows(p)' /\ ~At(p, "removing")'
  BY <1>2, <1>3, <1>5 DEF Knows, At, Serving, Running, Open, Lingers, Written, Alive
<1>8. lock' \in [by : Process \cup {NoProcess}, written : BOOLEAN] /\ lock'.by # NoProcess
  BY <1>1, <1>2 DEF Written
<1> QED BY <1>1, <1>5, <1>6, <1>7, <1>8, Changes DEF WriteLock, TypeOK

LEMMA ReadLockStep ==
  ASSUME IInv, ~Overlaps, NEW p \in Process, ReadLock(p) PROVE IInv'
<1>1. TypeOK /\ Knows(p) /\ Alive(p) /\ "removing" \in Pc /\ OneRemover
  BY DEF IInv, Pc, ReadLock, At, Alive
<1>2. CASE lock = NoLock \/ LockHeld(lock)
  BY <1>1, <1>2, Exits DEF ReadLock, TypeOK
<1>3. CASE ~(lock = NoLock \/ LockHeld(lock))
  <2>1. proc' = To(p, "removing") /\ UNCHANGED <<lock, socket, client, queue, faults>>
        /\ \A q \in Process : ~At(q, "removing")
    BY <1>3 DEF ReadLock
  <2>2. lock.written /\ ~Alive(lock.by) /\ lock.by \in Process /\ lock.by # p
    BY <1>1, <1>3 DEF LockHeld, OneRemover, TypeOK
  <2>3. proc' \in [Process -> Row] /\ (\A q \in Process \ {p} : proc'[q] = proc[q])
        /\ proc'[p].pc = "removing" /\ (proc'[p].owner <=> proc[p].owner)
    BY <1>1, <2>1, ToFacts
  <2>4. (~Alive(lock.by))'
    BY <2>1, <2>2, <2>3 DEF Alive, At
  <2>5. Knows(p)'
    BY <1>1, <2>1, <2>2, <2>3, <2>4 DEF Knows, At, Serving, Running, Open, Lingers, Written, Alive
  <2>6. \A q \in Process \ {p} : Knows(q)'
    <3> TAKE q \in Process \ {p}
    <3>1. Knows(q) /\ ~At(q, "removing") /\ proc'[q] = proc[q]
      BY <2>1, <2>3 DEF IInv
    <3> QED BY <2>1, <3>1 DEF Knows, At, Serving, Running, Open, Lingers, Written, Alive
  <2>7. OneRemover'
    BY <1>1, <2>1, <2>3 DEF OneRemover, At
  <2>8. TypeOK'
    BY <1>1, <2>1, <2>3 DEF TypeOK
  <2> QED BY <2>5, <2>6, <2>7, <2>8 DEF IInv
<1> QED BY <1>2, <1>3

LEMMA RemoveLockStep ==
  ASSUME IInv, NEW p \in Process, RemoveLock(p) PROVE IInv'
<1>1. TypeOK /\ At(p, "removing") /\ "opening" \in Pc /\ lock.written
  BY DEF IInv, Pc, RemoveLock, Knows
<1>2. proc' = To(p, "opening") /\ lock' = NoLock
  BY <1>1 DEF RemoveLock, NoLock
<1>3. \A q \in Process \ {p} : Bystander(q)
  BY <1>1, <1>2, ToFacts, StaleNobody DEF Bystander
<1>4. proc'[p].pc = "opening" /\ ~proc'[p].owner
  BY <1>1, <1>2, ToFacts, StaleNobody
<1>5. Knows(p)' /\ ~At(p, "removing")'
  BY <1>4 DEF Knows, At, Serving, Running, Open, Lingers, Alive
<1>6. NoLock \in [by : Process \cup {NoProcess}, written : BOOLEAN]
  BY DEF NoLock
<1> QED BY <1>1, <1>2, <1>3, <1>5, <1>6, ToFacts, Changes DEF RemoveLock, TypeOK

\* The owner removes the socket file that a dead daemon has left.
LEMMA RemoveSocketStep ==
  ASSUME IInv, NEW p \in Process, RemoveSocket(p) PROVE IInv'
<1>1. TypeOK /\ Knows(p) /\ proc[p].owner /\ OneRemover /\ "listening" \in Pc
  BY DEF IInv, Pc, RemoveSocket, Knows, Serving, At
<1>2. proc' = To(p, "listening") /\ UNCHANGED lock
  BY DEF RemoveSocket
<1>3. \A q \in Process \ {p} : Bystander(q)
  BY <1>1, <1>2, ToFacts, OwnerAlone DEF Bystander
<1>4. proc'[p].pc = "listening" /\ proc'[p].owner
  BY <1>1, <1>2, ToFacts
<1>5. Knows(p)' /\ ~At(p, "removing")'
  BY <1>1, <1>2, <1>4 DEF Knows, At, Serving, Running, Open, Lingers, Written, Alive
<1> QED BY <1>1, <1>2, <1>3, <1>5, ToFacts, Changes DEF RemoveSocket, TypeOK, OneRemover

LEMMA ListenStep ==
  ASSUME IInv, NEW p \in Process, Listen(p) PROVE IInv'
<1>1. TypeOK /\ Knows(p) /\ proc[p].owner /\ OneRemover /\ "up" \in Pc /\ Alive(p)
  BY DEF IInv, Pc, Listen, Knows, Serving, At, Alive
<1>2. CASE socket # NoProcess
  BY <1>1, <1>2, Exits DEF Listen, TypeOK
<1>3. CASE socket = NoProcess
  <2>1. proc' = To(p, "up") /\ UNCHANGED lock /\ socket' = p
    BY <1>3 DEF Listen
  <2>2. \A q \in Process \ {p} : Bystander(q)
    BY <1>1, <2>1, ToFacts, OwnerAlone DEF Bystander
  <2>3. proc'[p].pc = "up" /\ proc'[p].owner
    BY <1>1, <2>1, ToFacts
  <2>4. Knows(p)' /\ ~At(p, "removing")'
    BY <1>1, <2>1, <2>3 DEF Knows, At, Serving, Running, Open, Lingers, Written, Alive
  <2> QED BY <1>1, <2>1, <2>2, <2>4, ToFacts, Changes DEF Listen, TypeOK, OneRemover
<1> QED BY <1>2, <1>3

-----------------------------------------------------------------------------
\* Work and the end of it

LEMMA ClaimStep ==
  ASSUME IInv, NEW p \in Process, Claim(p) PROVE IInv'
<1>1. TypeOK /\ Alive(p)
  BY DEF IInv, Claim, Open, Alive, At
<1> DEFINE r == [proc[p] EXCEPT !.jobs = @ + 1]
<1>2. r \in Row /\ r.pc = proc[p].pc /\ (r.owner <=> proc[p].owner)
  BY <1>1 DEF TypeOK, Row
<1>3. proc' = [proc EXCEPT ![p] = r]
  BY DEF Claim
<1>4. queue' \in 0..MaxWork
  BY <1>1, DaemonAssumption DEF Claim, TypeOK
<1>5. proc' \in [Process -> Row] /\ proc'[p] = r /\ \A q \in Process \ {p} : proc'[q] = proc[q]
  BY <1>1, <1>2, <1>3, RowFacts
<1> QED BY <1>1, <1>2, <1>4, <1>5, Stays DEF Claim, TypeOK

LEMMA JobEndsStep ==
  ASSUME IInv, NEW p \in Process, JobEnds(p) PROVE IInv'
<1>1. TypeOK /\ Alive(p)
  BY DEF IInv, JobEnds, Running, Open, Alive, At
<1> DEFINE r == [proc[p] EXCEPT !.jobs = @ - 1]
<1>2. r \in Row /\ r.pc = proc[p].pc /\ (r.owner <=> proc[p].owner)
  BY <1>1 DEF TypeOK, Row, JobEnds
<1>3. proc' = [proc EXCEPT ![p] = r]
  BY DEF JobEnds
<1>4. proc' \in [Process -> Row] /\ proc'[p] = r /\ \A q \in Process \ {p} : proc'[q] = proc[q]
  BY <1>1, <1>2, <1>3, RowFacts
<1> QED BY <1>1, <1>2, <1>4, Stays DEF JobEnds, TypeOK

\* A process that is told to close, for the first time or again.
LEMMA ClosesDue ==
  ASSUME IInv, UNCHANGED <<lock, socket, client, queue>>, faults' \in 0..MaxFaults,
         NEW p \in Process, Alive(p), proc' = CloseDue(p)
  PROVE  IInv'
<1>1. TypeOK /\ Knows(p)
  BY DEF IInv
<1>2. CASE At(p, "up")
  <2>1. proc' = To(p, "due") /\ "due" \in Pc /\ Open(p) /\ Serving(p)
    BY <1>2 DEF CloseDue, Pc, Open, Running, Serving, At
  <2>2. proc'[p].pc = "due" /\ proc'[p].owner
    BY <1>1, <2>1, ToFacts DEF Knows
  <2>3. Knows(p)' /\ ~At(p, "removing")'
    BY <1>1, <2>1, <2>2 DEF Knows, At, Serving, Running, Open, Lingers, Written, Alive
  <2> QED BY <1>1, <2>1, <2>3, ToFacts, Moves DEF TypeOK
<1>3. CASE ~At(p, "up")
  <2> DEFINE r == [proc[p] EXCEPT !.again = TRUE]
  <2>1. r \in Row /\ r.pc = proc[p].pc /\ (r.owner <=> proc[p].owner)
    BY <1>1 DEF TypeOK, Row
  <2>2. proc' = [proc EXCEPT ![p] = r]
    BY <1>3 DEF CloseDue
  <2>3. proc' \in [Process -> Row] /\ proc'[p] = r /\ \A q \in Process \ {p} : proc'[q] = proc[q]
    BY <1>1, <2>1, <2>2, RowFacts
  <2> QED BY <1>1, <2>1, <2>3, Stays DEF TypeOK
<1> QED BY <1>2, <1>3

LEMMA DrainedStep ==
  ASSUME IInv, NEW p \in Process, Drained(p) PROVE IInv'
<1>1. Alive(p) /\ TypeOK
  BY DEF IInv, Drained, Alive, At
<1> QED BY <1>1, ClosesDue DEF Drained, TypeOK

LEMMA SignalledStep ==
  ASSUME IInv, NEW p \in Process, Signalled(p) PROVE IInv'
<1>1. Alive(p) /\ TypeOK
  BY DEF IInv, Signalled, Open, Alive, At
<1>2. faults' \in 0..MaxFaults
  BY <1>1, DaemonAssumption DEF Signalled, TypeOK
<1> QED BY <1>1, <1>2, ClosesDue DEF Signalled

LEMMA ShutdownHandledStep ==
  ASSUME IInv, NEW p \in Process, ShutdownHandled(p) PROVE IInv'
<1>1. TypeOK /\ Knows(p) /\ Alive(p)
  BY DEF IInv, Knows, ShutdownHandled
<1>2. CASE proc[p].asked = "busy" /\ Open(p)
  <2> DEFINE r == [proc[p] EXCEPT !.draining = TRUE, !.asked = "no"]
  <2>1. r \in Row /\ r.pc = proc[p].pc /\ (r.owner <=> proc[p].owner)
    BY <1>1 DEF TypeOK, Row
  <2>2. proc' = [proc EXCEPT ![p] = r]
    BY <1>1, <1>2 DEF ShutdownHandled, TypeOK, Row
  <2>3. proc' \in [Process -> Row] /\ proc'[p] = r /\ \A q \in Process \ {p} : proc'[q] = proc[q]
    BY <1>1, <2>1, <2>2, RowFacts
  <2> QED BY <1>1, <2>1, <2>3, Stays DEF TypeOK, ShutdownHandled
<1>3. CASE ~(proc[p].asked = "busy" /\ Open(p)) /\ At(p, "up")
  <2> DEFINE r == [proc[p] EXCEPT !.pc = "due", !.asked = "no"]
  <2>1. r \in Row /\ r.pc = "due" /\ (r.owner <=> proc[p].owner)
    BY <1>1 DEF TypeOK, Row, Pc
  <2>2. proc' = [proc EXCEPT ![p] = r]
    BY <1>1, <1>3 DEF ShutdownHandled, CloseDue, To, TypeOK, Row
  <2>3. proc' \in [Process -> Row] /\ proc'[p] = r /\ \A q \in Process \ {p} : proc'[q] = proc[q]
    BY <1>1, <2>1, <2>2, RowFacts
  <2>4. UNCHANGED <<lock, socket, client, queue, faults>> /\ proc[p].owner /\ socket = p
    BY <1>1, <1>3 DEF ShutdownHandled, Knows, Serving, Running, Open, At
  <2>5. Knows(p)' /\ ~At(p, "removing")'
    BY <1>1, <2>1, <2>3, <2>4 DEF Knows, At, Serving, Running, Open, Lingers, Written, Alive
  <2> QED BY <1>1, <2>3, <2>4, <2>5, Moves DEF TypeOK
<1>4. CASE ~(proc[p].asked = "busy" /\ Open(p)) /\ ~At(p, "up")
  <2> DEFINE r == [proc[p] EXCEPT !.again = TRUE, !.asked = "no"]
  <2>1. r \in Row /\ r.pc = proc[p].pc /\ (r.owner <=> proc[p].owner)
    BY <1>1 DEF TypeOK, Row
  <2>2. proc' = [proc EXCEPT ![p] = r]
    BY <1>1, <1>4 DEF ShutdownHandled, CloseDue, TypeOK, Row
  <2>3. proc' \in [Process -> Row] /\ proc'[p] = r /\ \A q \in Process \ {p} : proc'[q] = proc[q]
    BY <1>1, <2>1, <2>2, RowFacts
  <2> QED BY <1>1, <2>1, <2>3, Stays DEF TypeOK, ShutdownHandled
<1> QED BY <1>2, <1>3, <1>4

\* The owner stops taking requests.
LEMMA CloseStep ==
  ASSUME IInv, NEW p \in Process, Close(p) PROVE IInv'
<1>1. TypeOK /\ Knows(p) /\ proc[p].owner /\ OneRemover /\ "control" \in Pc
  BY DEF IInv, Pc, Close, Knows, Serving, Running, Open, At
<1>2. proc' = To(p, "control") /\ UNCHANGED lock
  BY DEF Close
<1>3. \A q \in Process \ {p} : Bystander(q)
  BY <1>1, <1>2, ToFacts, OwnerAlone DEF Bystander
<1>4. proc'[p].pc = "control" /\ proc'[p].owner
  BY <1>1, <1>2, ToFacts
<1>5. Knows(p)' /\ ~At(p, "removing")'
  BY <1>1, <1>2, <1>4 DEF Knows, At, Serving, Running, Open, Lingers, Written, Alive
<1> QED BY <1>1, <1>2, <1>3, <1>5, ToFacts, Changes DEF Close, TypeOK, OneRemover

LEMMA ControlClosesStep ==
  ASSUME IInv, NEW p \in Process, ControlCloses(p) PROVE IInv'
<1>1. TypeOK /\ Knows(p) /\ proc[p].owner /\ Alive(p) /\ proc[p] \in Row /\ "server" \in Pc
  BY DEF IInv, TypeOK, Pc, ControlCloses, Knows, Serving, Running, At, Alive
<1> DEFINE r == [proc[p] EXCEPT !.pc = "server", !.jobs = 0]
<1>2. [proc[p] EXCEPT !.pc = "server"] \in Row
  BY <1>1 DEF Row
<1>3. r \in Row
  BY <1>2 DEF Row
<1>4. r.pc = "server" /\ r.owner
  BY <1>1 DEF Row
<1>5. proc' = [proc EXCEPT ![p] = r]
  BY DEF ControlCloses
<1>6. proc' \in [Process -> Row] /\ proc'[p] = r /\ \A q \in Process \ {p} : proc'[q] = proc[q]
  BY <1>1, <1>3, <1>5, RowFacts
<1>7. UNCHANGED <<lock, socket, client, queue, faults>>
  BY DEF ControlCloses
<1>8. Knows(p)' /\ ~At(p, "removing")'
  BY <1>1, <1>4, <1>6, <1>7 DEF Knows, At, Serving, Running, Open, Lingers, Written, Alive
<1> QED BY <1>1, <1>6, <1>7, <1>8, Moves DEF TypeOK

\* Who has listened before holds the lock, or has given it back and no one has taken it since.
LEMMA ClosingAlone ==
  ASSUME IInv, NEW p \in Process, proc[p].pc \in {"server", "unlocking"}
  PROVE  /\ proc[p].owner \/ lock = NoLock
         /\ \A q \in Process \ {p} :
              ~proc[q].owner /\ ~Serving(q) /\ ~At(q, "writing") /\ ~At(q, "removing") /\ (Lingers(q) => lock = NoLock)
<1>1. Knows(p) /\ \A q \in Process : Knows(q)
  BY DEF IInv
<1>2. proc[p].owner \/ lock = NoLock
  BY <1>1 DEF Knows, Lingers
<1> QED BY <1>1, <1>2, OwnerAlone, NoLockNobody DEF Knows

LEMMA UnlinkSocketStep ==
  ASSUME IInv, NEW p \in Process, UnlinkSocket(p) PROVE IInv'
<1>1. TypeOK /\ Knows(p) /\ OneRemover /\ "unlocking" \in Pc
  BY DEF IInv, Pc
<1>2. proc' = To(p, "unlocking") /\ UNCHANGED lock /\ proc[p].pc = "server"
  BY DEF UnlinkSocket, At
<1>3. \A q \in Process \ {p} : Bystander(q)
  BY <1>1, <1>2, ToFacts, ClosingAlone DEF Bystander
<1>4. proc'[p].pc = "unlocking" /\ (proc'[p].owner <=> proc[p].owner)
  BY <1>1, <1>2, ToFacts
<1>5. Knows(p)' /\ ~At(p, "removing")'
  BY <1>1, <1>2, <1>4 DEF Knows, At, Serving, Running, Open, Lingers, Written, Alive
<1> QED BY <1>1, <1>2, <1>3, <1>5, ToFacts, Changes DEF UnlinkSocket, TypeOK, OneRemover

LEMMA UnlockStep ==
  ASSUME IInv, NEW p \in Process, Unlock(p) PROVE IInv'
<1>1. TypeOK /\ proc[p].pc = "unlocking" /\ proc' = Exited(p)
  BY DEF IInv, Unlock, At
<1>2. lock' = NoLock
  BY <1>1, ClosingAlone DEF Unlock, Unlocked
<1>3. proc' \in [Process -> Row] /\ proc'[p] = Dead /\ \A q \in Process \ {p} : proc'[q] = proc[q]
  BY <1>1, ExitedType
<1>4. \A q \in Process \ {p} : Bystander(q)
  BY <1>1, <1>2, <1>3, ClosingAlone DEF Bystander
<1>5. Knows(p)' /\ ~At(p, "removing")'
  BY <1>3 DEF Knows, At, Serving, Running, Open, Lingers, Dead, Alive
<1>6. NoLock \in [by : Process \cup {NoProcess}, written : BOOLEAN]
  BY DEF NoLock
<1> QED BY <1>1, <1>2, <1>3, <1>4, <1>5, <1>6, Changes DEF Unlock, TypeOK

LEMMA CloseAgainStep ==
  ASSUME IInv, NEW p \in Process, CloseAgain(p) PROVE IInv'
<1>1. TypeOK /\ proc[p].pc = "server" /\ proc[p] \in Row
  BY DEF IInv, TypeOK, CloseAgain, At
<1>2. lock' = NoLock /\ socket' = NoProcess
  BY <1>1, ClosingAlone DEF CloseAgain, Unlocked
<1> DEFINE r == [proc[p] EXCEPT !.owner = FALSE, !.again = FALSE]
<1>3. [proc[p] EXCEPT !.owner = FALSE] \in Row
  BY <1>1 DEF Row
<1>4. r \in Row
  BY <1>3 DEF Row
<1>5. r.pc = "server" /\ ~r.owner
  BY <1>1 DEF Row
<1>6. proc' = [proc EXCEPT ![p] = r]
  BY DEF CloseAgain
<1>7. proc' \in [Process -> Row] /\ proc'[p] = r /\ \A q \in Process \ {p} : proc'[q] = proc[q]
  BY <1>1, <1>4, <1>6, RowFacts
<1>8. \A q \in Process \ {p} : Bystander(q)
  BY <1>1, <1>2, <1>7, ClosingAlone DEF Bystander
<1>9. Knows(p)' /\ ~At(p, "removing")'
  BY <1>2, <1>5, <1>7 DEF Knows, At, Serving, Running, Open, Lingers, Alive
<1>10. NoLock \in [by : Process \cup {NoProcess}, written : BOOLEAN]
  BY DEF NoLock
<1> QED BY <1>2, <1>7, <1>8, <1>9, <1>10, Changes DEF CloseAgain

LEMMA DieStep ==
  ASSUME IInv, NEW p \in Process, Die(p) PROVE IInv'
<1>1. TypeOK
  BY DEF IInv
<1>2. faults' \in 0..MaxFaults
  BY <1>1, DaemonAssumption DEF Die, TypeOK
<1> QED BY <1>2, Exits DEF Die

-----------------------------------------------------------------------------
\* Clients

LEMMA WaitStep ==
  ASSUME IInv, NEW c \in Client, Unreached(c) \/ Differs(c) \/ Returns(c) PROVE IInv'
<1>1. TypeOK /\ UNCHANGED <<proc, lock, socket, queue, faults>>
  BY DEF IInv, Unreached, Differs, Returns
<1>2. client' \in [Client -> ClientPc]
  BY <1>1 DEF TypeOK, Unreached, Differs, Returns, ClientTo, ClientPc
<1>3. TypeOK'
  BY <1>1, <1>2 DEF TypeOK
<1>4. \A p \in Process : Knows(p)'
  BY <1>1 DEF IInv, Knows, At, Serving, Running, Open, Lingers, Alive
<1>5. OneRemover'
  BY <1>1 DEF IInv, OneRemover, At
<1> QED BY <1>3, <1>4, <1>5 DEF IInv

LEMMA ShutdownStep ==
  ASSUME IInv, NEW c \in Client, Shutdown(c) PROVE IInv'
<1>1. TypeOK /\ UNCHANGED <<lock, socket, queue, faults>> /\ client' \in [Client -> ClientPc]
  BY DEF IInv, Shutdown, TypeOK, ClientTo, ClientPc
<1>2. PICK p \in Reached :
        proc' = [proc EXCEPT ![p].asked = IF proc[p].jobs > 0 THEN "busy" ELSE "idle"]
  BY DEF Shutdown
<1>3. p \in Process /\ Alive(p) /\ proc[p] \in Row
  BY <1>1 DEF Reached, Open, Alive, At, TypeOK
<1> DEFINE r == [proc[p] EXCEPT !.asked = IF proc[p].jobs > 0 THEN "busy" ELSE "idle"]
<1>4. r \in Row /\ r.pc = proc[p].pc /\ (r.owner <=> proc[p].owner)
  BY <1>3 DEF Row
<1>5. proc' = [proc EXCEPT ![p] = r]
  BY <1>2
<1>6. proc' \in [Process -> Row] /\ proc'[p] = r /\ \A q \in Process \ {p} : proc'[q] = proc[q]
  BY <1>1, <1>3, <1>4, <1>5, RowFacts
<1> QED BY <1>1, <1>3, <1>4, <1>6, Stays DEF TypeOK

LEMMA SpawnStep ==
  ASSUME IInv, NEW c \in Client, Spawn(c) PROVE IInv'
<1>1. TypeOK /\ UNCHANGED <<lock, socket, queue, faults>> /\ client' \in [Client -> ClientPc]
  BY DEF IInv, Spawn, TypeOK, ClientTo, ClientPc
<1> DEFINE r == [Dead EXCEPT !.pc = "opening", !.build = BuildOf[c]]
<1>2. PICK p \in Process : ~Alive(p) /\ lock.by # p /\ proc' = [proc EXCEPT ![p] = r]
  BY DEF Spawn
<1>3. [Dead EXCEPT !.pc = "opening"] \in Row
  BY DeadType DEF Row, Pc
<1>4. r \in Row
  BY <1>3 DEF Row
<1>5. r.pc = "opening" /\ ~r.owner
  BY DEF Dead
<1>6. proc' \in [Process -> Row] /\ proc'[p] = r /\ \A q \in Process \ {p} : proc'[q] = proc[q]
  BY <1>1, <1>2, <1>4, RowFacts
<1>7. Knows(p)' /\ ~At(p, "removing")'
  BY <1>5, <1>6 DEF Knows, At, Serving, Running, Open, Lingers, Alive
<1> QED BY <1>1, <1>2, <1>6, <1>7, Moves DEF TypeOK

-----------------------------------------------------------------------------
\* The invariant and what it says

LEMMA InitIInv == Init => IInv
<1> SUFFICES ASSUME Init PROVE IInv
  OBVIOUS
<1>1. TypeOK
  BY DaemonAssumption, DeadType DEF Init, TypeOK, NoLock, ClientPc
<1>2. \A p \in Process : Knows(p)
  BY DEF Init, Knows, At, Serving, Running, Open, Lingers, Alive, Dead
<1>3. OneRemover
  BY DEF Init, OneRemover, At, Dead
<1> QED BY <1>1, <1>2, <1>3 DEF IInv

LEMMA NextIInv == ASSUME ~Overlaps, IInv, [Next]_vars PROVE IInv'
<1>1. ASSUME NEW p \in Process, Lives(p) PROVE IInv'
  BY <1>1, CreateLockStep, WriteLockStep, ReadLockStep, RemoveLockStep, RemoveSocketStep, ListenStep, JobEndsStep,
     DrainedStep, ShutdownHandledStep, CloseStep, ControlClosesStep, UnlinkSocketStep, UnlockStep DEF Lives
<1>2. ASSUME NEW p \in Process, Claim(p) \/ Signalled(p) \/ CloseAgain(p) \/ Die(p) PROVE IInv'
  BY <1>2, ClaimStep, SignalledStep, CloseAgainStep, DieStep
<1>3. ASSUME NEW c \in Client, Unreached(c) \/ Differs(c) \/ Shutdown(c) \/ Spawn(c) \/ Returns(c) PROVE IInv'
  BY <1>3, WaitStep, ShutdownStep, SpawnStep
<1>4. CASE UNCHANGED vars
  BY <1>4 DEF IInv, TypeOK, Knows, OneRemover, At, Serving, Running, Open, Lingers, Alive, Written, vars
<1> QED BY <1>1, <1>2, <1>3, <1>4 DEF Next

\* Whatever the number of processes and clients, and whenever they die or are signalled, there is one
\* daemon, the one behind the socket (daemon.js:77-91), if starts that find a stale lock do not overlap and
\* none comes while a daemon that was closed twice still waits for its connections.
THEOREM DaemonIsAlone == ASSUME ~Overlaps PROVE Spec => []LockGuards
<1>1. IInv => LockGuards
  BY DEF IInv, Knows, LockGuards, Serving, Written
<1>2. IInv /\ [Next]_vars => IInv'
  BY NextIInv
<1> QED BY <1>1, <1>2, InitIInv, PTL DEF Spec
=============================================================================
