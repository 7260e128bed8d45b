---------------------------- MODULE LeasesProofs ----------------------------
(***************************************************************************)
(* Theorems about Leases for every value of its constants.                 *)
(***************************************************************************)
EXTENDS Leases, TLAPS

TaskRow == [status : Claimables \cup RunningStatus \cup TerminalStatus,
            claimed : BOOLEAN, agent : Thread \cup {NoThread},
            since : {"none", "recent", "old"}]
ThreadRow == [known : BOOLEAN, busy : BOOLEAN, archived : BOOLEAN, ephemeral : BOOLEAN,
              life : {"candidate", "active", "idle", "compacted", "archived"}]
WorkRow == [pc : {"idle"} \cup Claims, agent : Thread \cup {NoThread}, lost : BOOLEAN, final : BOOLEAN]

\* A row that somebody holds names its Task; a thread that is archived is stored and says so in
\* its lifecycle, and an ephemeral one is stored.
GoodLease == {r \in Lease : Held(r) => r.owner \in Task}
GoodThread == {r \in ThreadRow : /\ r.archived => r.known /\ r.life = "archived"
                                 /\ r.ephemeral => r.known}

Shape ==
  /\ task \in [Task -> TaskRow]
  /\ lease \in [Key -> GoodLease] /\ tlease \in [Thread -> GoodLease]
  /\ thread \in [Thread -> GoodThread]
  /\ work \in [Task -> WorkRow]
  /\ moving \in [Thread -> {"no", "archive", "unarchive"}]
  /\ faults \in 0..MaxFaults

\* The row is held under the last claim of t, taken by this process.
Live(r, t) == Held(r) /\ r.owner = t /\ r.token = "live"
LiveThread(r, t) == r.status = "active" /\ r.owner = t /\ r.token = "live"

\* The steps of a worker at which it may hold the allocation, a workspace or a thread.
AllocationSteps == {"inspecting", "routing", "opening", "yielding", "tidying"}
WorkspaceSteps == {"routing", "opening", "running", "settling"}
ThreadSteps == {"opening", "running", "settling", "cleaning"}

\* A worker that owns its claim holds what its step needs; a worker, with or without the claim,
\* holds nothing that its step will not give back.
Knows(t) ==
  /\ Owns(t) /\ Allocating(t) => Live(lease["allocation"], t)
  /\ Owns(t) /\ Writing(t) => Live(lease[KeyOf[t]], t)
  /\ work[t].pc \in {"opening", "running", "settling"} => work[t].agent \in Thread
  /\ Live(lease["allocation"], t) => work[t].pc \in AllocationSteps
  /\ \A k \in Key \ {"allocation"} : Live(lease[k], t) => task[t].claimed /\ work[t].pc \in WorkspaceSteps
  /\ \A a \in Thread : LiveThread(tlease[a], t) => work[t].pc \in ThreadSteps

\* No Task names its thread itself.
Unpinned == \A t \in Task : Pinned[t] = NoThread

\* An archived thread has not even a lease that has run out and could be renewed.
ArchivedIsUnleased ==
  Unpinned => \A a \in Thread : thread[a].archived => tlease[a].status # "active"

\* Only a stored thread is being archived.
MovingIsKnown == \A a \in Thread : moving[a] = "archive" => thread[a].known

IInv == Shape /\ (\A t \in Task : Knows(t)) /\ ArchivedIsUnleased /\ MovingIsKnown


-----------------------------------------------------------------------------
\* Rows

LEMMA KeyFacts ==
  /\ "allocation" \in Key
  /\ \A t \in Task : KeyOf[t] # "allocation" /\ (KeyOf[t] # NoKey => KeyOf[t] \in Key)
BY LeasesAssumption DEF Key

LEMMA FreeFacts ==
  /\ Free \in GoodLease /\ Free.status = "released"
  /\ \A u : ~Live(Free, u) /\ ~LiveThread(Free, u)
BY DEF Free, GoodLease, Lease, Held, Live, LiveThread

LEMMA TakenFacts ==
  ASSUME NEW t \in Task
  PROVE  /\ TakenBy(t) \in GoodLease /\ Live(TakenBy(t), t) /\ TakenBy(t).owner = t
         /\ \A u \in Task \ {t} : ~Live(TakenBy(t), u) /\ ~LiveThread(TakenBy(t), u)
BY DEF TakenBy, GoodLease, Lease, Held, Live, LiveThread

\* What a row may become when the claims of the Tasks in S change: the others keep what they hold,
\* nobody comes to hold it and it does not become active.
KeptRow(r, new, S) ==
  /\ new \in GoodLease
  /\ \A u \in Task : /\ Live(new, u) => Live(r, u)
                     /\ LiveThread(new, u) => LiveThread(r, u)
                     /\ u \notin S /\ Live(r, u) => Live(new, u)
  /\ new.status = "active" => r.status = "active"

Kept(rows, new, S) ==
  /\ new \in [DOMAIN rows -> GoodLease]
  /\ \A x \in DOMAIN rows : KeptRow(rows[x], new[x], S)

LEMMA SameRow == ASSUME NEW r \in GoodLease, NEW S PROVE KeptRow(r, r, S)
BY DEF KeptRow

LEMMA FreedRow ==
  ASSUME NEW r \in GoodLease, NEW t, r.owner = t
  PROVE  KeptRow(r, Free, {t})
BY FreeFacts DEF KeptRow, Live

\* A row that changes only its expiry, or is given up for it, stays with its claim.
LEMMA TimedRow ==
  ASSUME NEW r \in GoodLease, r.status = "active", NEW S
  PROVE  /\ KeptRow(r, Expire(r), S) /\ Expire(r).status = "expired"
         /\ \A b \in BOOLEAN : KeptRow(r, [r EXCEPT !.past = b], S)
BY DEF KeptRow, Expire, GoodLease, Lease, Held, Live, LiveThread

\* A row that loses its token is of no claim of this process.
LEMMA TokenRow ==
  ASSUME NEW r \in GoodLease, NEW S, r.owner \in S, NEW x \in {"gone", "stale"}
  PROVE  /\ KeptRow(r, [r EXCEPT !.token = x], S)
         /\ \A u : ~Live([r EXCEPT !.token = x], u) /\ ~LiveThread([r EXCEPT !.token = x], u)
BY DEF KeptRow, GoodLease, Lease, Held, Live, LiveThread

LEMMA KeptSame ==
  ASSUME NEW D, NEW rows \in [D -> GoodLease], NEW S
  PROVE  Kept(rows, rows, S)
BY SameRow DEF Kept

\* Row by row
LEMMA KeptRows ==
  ASSUME NEW D, NEW rows \in [D -> GoodLease], NEW S, NEW new, DOMAIN new = D, new = [x \in D |-> new[x]],
         \A x \in D : KeptRow(rows[x], new[x], S)
  PROVE  Kept(rows, new, S)
<1>1. \A x \in D : new[x] \in GoodLease
  BY DEF KeptRow
<1>2. new \in [D -> GoodLease]
  BY <1>1
<1> QED BY <1>2 DEF Kept

LEMMA ReleasedByFacts ==
  ASSUME lease \in [Key -> GoodLease], NEW t \in Task
  PROVE  /\ Kept(lease, ReleasedBy(t), {t})
         /\ \A k \in Key : ~Live(ReleasedBy(t)[k], t)
<1>1. \A k \in Key : ReleasedBy(t)[k] = IF Of(lease[k], t) /\ Held(lease[k]) THEN Free ELSE lease[k]
  BY DEF ReleasedBy
<1>2. \A k \in Key : KeptRow(lease[k], ReleasedBy(t)[k], {t})
  BY <1>1, FreedRow, SameRow DEF Of
<1>3. \A k \in Key : ~Live(ReleasedBy(t)[k], t)
  BY <1>1, FreeFacts DEF Live, Of
<1>4. Kept(lease, ReleasedBy(t), {t})
  BY <1>2, KeptRows DEF ReleasedBy
<1> QED BY <1>3, <1>4

LEMMA ReleasedAllocationFacts ==
  ASSUME lease \in [Key -> GoodLease], NEW t \in Task
  PROVE  /\ Kept(lease, ReleasedAllocation(t), {t})
         /\ ~Live(ReleasedAllocation(t)["allocation"], t)
         /\ \A k \in Key \ {"allocation"} : ReleasedAllocation(t)[k] = lease[k]
<1>1. /\ DOMAIN ReleasedAllocation(t) = Key /\ ReleasedAllocation(t) = [k \in Key |-> ReleasedAllocation(t)[k]]
      /\ \A k \in Key \ {"allocation"} : ReleasedAllocation(t)[k] = lease[k]
  BY KeyFacts DEF ReleasedAllocation
<1>2. ReleasedAllocation(t)["allocation"] = ReleasedBy(t)["allocation"]
  BY KeyFacts DEF ReleasedAllocation, ReleasedBy
<1>3. \A k \in Key : KeptRow(lease[k], ReleasedAllocation(t)[k], {t})
  BY <1>1, <1>2, ReleasedByFacts, SameRow DEF Kept
<1> QED BY <1>1, <1>2, <1>3, ReleasedByFacts, KeyFacts, KeptRows

LEMMA ReleasedThreadsFacts ==
  ASSUME tlease \in [Thread -> GoodLease], NEW t \in Task
  PROVE  /\ Kept(tlease, ReleasedThreads(t), {t})
         /\ \A a \in Thread : ~LiveThread(ReleasedThreads(t)[a], t)
<1>1. \A a \in Thread : ReleasedThreads(t)[a] = IF Of(tlease[a], t) /\ tlease[a].status = "active" THEN Free ELSE tlease[a]
  BY DEF ReleasedThreads
<1>2. \A a \in Thread : KeptRow(tlease[a], ReleasedThreads(t)[a], {t})
  BY <1>1, FreedRow, SameRow DEF Of
<1>3. \A a \in Thread : ~LiveThread(ReleasedThreads(t)[a], t)
  BY <1>1, FreeFacts DEF LiveThread, Of
<1>4. Kept(tlease, ReleasedThreads(t), {t})
  BY <1>2, KeptRows DEF ReleasedThreads
<1> QED BY <1>3, <1>4

LEMMA OutdatedFacts ==
  ASSUME NEW D, NEW rows \in [D -> GoodLease], NEW t \in Task
  PROVE  /\ Kept(rows, Outdated(rows, t), {t})
         /\ \A x \in D : ~Live(Outdated(rows, t)[x], t) /\ ~LiveThread(Outdated(rows, t)[x], t)
<1>1. \A x \in D : Outdated(rows, t)[x] = IF rows[x].owner = t THEN [rows[x] EXCEPT !.token = "stale"] ELSE rows[x]
  BY DEF Outdated
<1>2. ASSUME NEW x \in D
      PROVE  /\ KeptRow(rows[x], Outdated(rows, t)[x], {t})
             /\ ~Live(Outdated(rows, t)[x], t) /\ ~LiveThread(Outdated(rows, t)[x], t)
  <2>1. rows[x] \in GoodLease
    OBVIOUS
  <2>2. CASE rows[x].owner = t
    <3>1. rows[x].owner \in {t} /\ Outdated(rows, t)[x] = [rows[x] EXCEPT !.token = "stale"]
      BY <1>1, <2>2
    <3> QED BY <2>1, <3>1, TokenRow
  <2>3. CASE rows[x].owner # t
    <3>1. Outdated(rows, t)[x] = rows[x]
      BY <1>1, <2>3
    <3> QED BY <2>1, <2>3, <3>1, SameRow DEF Live, LiveThread
  <2> QED BY <2>2, <2>3
<1>3. Kept(rows, Outdated(rows, t), {t})
  BY <1>2, KeptRows DEF Outdated
<1> QED BY <1>2, <1>3

LEMMA OrphanedFacts ==
  ASSUME NEW D, NEW rows \in [D -> GoodLease], NEW S
  PROVE  /\ Kept(rows, Orphaned(rows, S), S)
         /\ \A x \in D, u \in S : ~Live(Orphaned(rows, S)[x], u) /\ ~LiveThread(Orphaned(rows, S)[x], u)
<1>1. \A x \in D : Orphaned(rows, S)[x] = IF rows[x].token = "live" /\ rows[x].owner \in S
                                          THEN [rows[x] EXCEPT !.token = "gone"] ELSE rows[x]
  BY DEF Orphaned
<1>2. ASSUME NEW x \in D
      PROVE  /\ KeptRow(rows[x], Orphaned(rows, S)[x], S)
             /\ \A u \in S : ~Live(Orphaned(rows, S)[x], u) /\ ~LiveThread(Orphaned(rows, S)[x], u)
  <2>1. rows[x] \in GoodLease
    OBVIOUS
  <2>2. CASE rows[x].token = "live" /\ rows[x].owner \in S
    <3>1. Orphaned(rows, S)[x] = [rows[x] EXCEPT !.token = "gone"]
      BY <1>1, <2>2
    <3> QED BY <2>1, <2>2, <3>1, TokenRow
  <2>3. CASE ~(rows[x].token = "live" /\ rows[x].owner \in S)
    <3>1. Orphaned(rows, S)[x] = rows[x]
      BY <1>1, <2>3
    <3> QED BY <2>1, <2>3, <3>1, SameRow DEF Live, LiveThread
  <2> QED BY <2>2, <2>3
<1>3. Kept(rows, Orphaned(rows, S), S)
  BY <1>2, KeptRows DEF Orphaned
<1> QED BY <1>2, <1>3

LEMMA ListedFacts ==
  ASSUME NEW D, NEW rows \in [D -> GoodLease]
  PROVE  Kept(rows, Listed(rows), {})
<1>1. \A x \in D : Listed(rows)[x] = IF rows[x].status = "active" /\ rows[x].past THEN Expire(rows[x]) ELSE rows[x]
  BY DEF Listed
<1>2. \A x \in D : KeptRow(rows[x], Listed(rows)[x], {})
  BY <1>1, TimedRow, SameRow
<1> QED BY <1>2, KeptRows DEF Listed

LEMMA CancelledRowsFacts ==
  ASSUME NEW D, NEW rows \in [D -> GoodLease], NEW t \in Task
  PROVE  /\ Kept(rows, CancelledRows(rows, t), {t})
         /\ \A x \in D : ~Live(CancelledRows(rows, t)[x], t)
<1>1. \A x \in D : CancelledRows(rows, t)[x] = IF rows[x].owner = t /\ Held(rows[x]) THEN Free ELSE rows[x]
  BY DEF CancelledRows
<1>2. \A x \in D : KeptRow(rows[x], CancelledRows(rows, t)[x], {t})
  BY <1>1, FreedRow, SameRow
<1>3. \A x \in D : ~Live(CancelledRows(rows, t)[x], t)
  BY <1>1, FreeFacts DEF Live
<1>4. Kept(rows, CancelledRows(rows, t), {t})
  BY <1>2, KeptRows DEF CancelledRows
<1> QED BY <1>3, <1>4

LEMMA RenewedFacts ==
  ASSUME NEW D, NEW rows \in [D -> GoodLease], NEW x, NEW t
  PROVE  Kept(rows, Renewed(rows, x, t), {})
<1>1. CASE x \in D /\ Renewable(rows[x], t)
  <2>1. Renewed(rows, x, t) = [rows EXCEPT ![x] = [rows[x] EXCEPT !.past = FALSE]]
    BY <1>1 DEF Renewed
  <2>2. KeptRow(rows[x], [rows[x] EXCEPT !.past = FALSE], {})
    BY <1>1, TimedRow DEF Renewable
  <2>3. \A y \in D : KeptRow(rows[y], Renewed(rows, x, t)[y], {})
    BY <1>1, <2>1, <2>2, SameRow
  <2> QED BY <2>1, <2>3, KeptRows
<1>2. CASE ~(x \in D /\ Renewable(rows[x], t))
  BY <1>2, KeptSame DEF Renewed
<1> QED BY <1>1, <1>2

LEMMA StalledFacts ==
  ASSUME NEW D, NEW rows \in [D -> GoodLease]
  PROVE  Kept(rows, [x \in D |-> IF rows[x].status = "active" THEN [rows[x] EXCEPT !.past = TRUE] ELSE rows[x]], {})
<1> DEFINE new == [x \in D |-> IF rows[x].status = "active" THEN [rows[x] EXCEPT !.past = TRUE] ELSE rows[x]]
<1>1. \A x \in D : KeptRow(rows[x], new[x], {})
  BY TimedRow, SameRow
<1>2. DOMAIN new = D /\ new = [x \in D |-> new[x]]
  OBVIOUS
<1> HIDE DEF new
<1>3. Kept(rows, new, {})
  BY <1>1, <1>2, KeptRows
<1> QED BY <1>3 DEF new

LEMMA LapsedFacts ==
  ASSUME tlease \in [Thread -> GoodLease]
  PROVE  Kept(tlease, Lapsed, {})
<1>1. \A a \in Thread : Lapsed[a] = IF a \in Overdue THEN Expire(tlease[a]) ELSE tlease[a]
  BY DEF Lapsed
<1>2. \A a \in Thread : KeptRow(tlease[a], Lapsed[a], {})
  BY <1>1, TimedRow, SameRow DEF Overdue
<1> QED BY <1>2, KeptRows DEF Lapsed


\* A row that is free, or past its time, is taken.
LEMMA TakenKey ==
  ASSUME lease \in [Key -> GoodLease], NEW t \in Task, NEW k \in Key, GivenUp(lease[k])
  PROVE  LET new == [lease EXCEPT ![k] = TakenBy(t)]
         IN  /\ new \in [Key -> GoodLease] /\ Live(new[k], t)
             /\ \A x \in Key \ {k} : new[x] = lease[x]
             /\ \A u \in Task \ {t}, x \in Key : Live(new[x], u) <=> Live(lease[x], u)
<1> DEFINE new == [lease EXCEPT ![k] = TakenBy(t)]
<1>1. new \in [Key -> GoodLease] /\ new[k] = TakenBy(t) /\ \A x \in Key \ {k} : new[x] = lease[x]
  BY TakenFacts
<1>2. \A u : ~Live(lease[k], u)
  BY DEF GivenUp, Live, Held
<1> HIDE DEF new
<1>3. Live(new[k], t) /\ \A u \in Task \ {t}, x \in Key : Live(new[x], u) <=> Live(lease[x], u)
  BY <1>1, <1>2, TakenFacts
<1> QED BY <1>1, <1>3 DEF new

LEMMA TakenThread ==
  ASSUME tlease \in [Thread -> GoodLease], NEW t \in Task, NEW a \in Thread
  PROVE  LET new == [tlease EXCEPT ![a] = TakenBy(t)]
         IN  /\ new \in [Thread -> GoodLease]
             /\ \A b \in Thread \ {a} : new[b] = tlease[b]
             /\ \A u \in Task \ {t}, b \in Thread : LiveThread(new[b], u) => LiveThread(tlease[b], u)
<1> DEFINE new == [tlease EXCEPT ![a] = TakenBy(t)]
<1>1. new \in [Thread -> GoodLease] /\ new[a] = TakenBy(t) /\ \A b \in Thread \ {a} : new[b] = tlease[b]
  BY TakenFacts
<1> HIDE DEF new
<1>2. \A u \in Task \ {t}, b \in Thread : LiveThread(new[b], u) => LiveThread(tlease[b], u)
  BY <1>1, TakenFacts
<1> QED BY <1>1, <1>2 DEF new

TaskStatusSet == Claimables \cup RunningStatus \cup TerminalStatus

LEMMA TaskTo ==
  ASSUME task \in [Task -> TaskRow], NEW t \in Task, NEW s \in TaskStatusSet, NEW b \in BOOLEAN
  PROVE  LET new == [task EXCEPT ![t].status = s, ![t].claimed = b]
         IN  /\ new \in [Task -> TaskRow] /\ new[t].claimed = b
             /\ \A u \in Task \ {t} : new[u] = task[u]
<1> DEFINE r == [[task[t] EXCEPT !.status = s] EXCEPT !.claimed = b]
<1>1. [task[t] EXCEPT !.status = s] \in TaskRow
  BY DEF TaskRow, TaskStatusSet
<1>2. r \in TaskRow /\ r.claimed = b
  BY <1>1 DEF TaskRow
<1>3. [task EXCEPT ![t].status = s, ![t].claimed = b] = [task EXCEPT ![t] = r]
  OBVIOUS
<1> QED BY <1>2, <1>3

LEMMA WorkTo ==
  ASSUME work \in [Task -> WorkRow], NEW t \in Task, NEW r \in WorkRow
  PROVE  LET new == [work EXCEPT ![t] = r]
         IN  new \in [Task -> WorkRow] /\ new[t] = r /\ \A u \in Task \ {t} : new[u] = work[u]
OBVIOUS

LEMMA IdleFacts == IdleWork \in WorkRow /\ IdleWork.pc = "idle"
BY DEF IdleWork, WorkRow

\* The worker goes on to step x, with its thread or with another one.
LEMMA WorkPc ==
  ASSUME work \in [Task -> WorkRow], NEW t \in Task, NEW x \in Claims
  PROVE  LET new == [work EXCEPT ![t].pc = x]
         IN  /\ new \in [Task -> WorkRow] /\ new[t].pc = x /\ new[t].agent = work[t].agent
             /\ \A u \in Task \ {t} : new[u] = work[u]
<1>1. work[t] \in WorkRow
  OBVIOUS
<1>2. LET r == [work[t] EXCEPT !.pc = x] IN r \in WorkRow /\ r.pc = x /\ r.agent = work[t].agent
  BY <1>1 DEF WorkRow
<1>3. [work EXCEPT ![t].pc = x] = [work EXCEPT ![t] = [work[t] EXCEPT !.pc = x]]
  OBVIOUS
<1> QED BY <1>2, <1>3, WorkTo

LEMMA WorkPcAgent ==
  ASSUME work \in [Task -> WorkRow], NEW t \in Task, NEW a \in Thread,
         work' = [work EXCEPT ![t].pc = "opening", ![t].agent = a]
  PROVE  /\ work' \in [Task -> WorkRow] /\ work'[t].pc = "opening" /\ work'[t].agent = a
         /\ \A u \in Task \ {t} : work'[u] = work[u]
<1>1. [work[t] EXCEPT !.pc = "opening"] \in WorkRow /\ [work[t] EXCEPT !.pc = "opening"].pc = "opening"
  BY DEF WorkRow, Claims
<1>2. LET r == [[work[t] EXCEPT !.pc = "opening"] EXCEPT !.agent = a] IN r \in WorkRow /\ r.pc = "opening" /\ r.agent = a
  BY <1>1 DEF WorkRow
<1>3. work' = [work EXCEPT ![t] = [[work[t] EXCEPT !.pc = "opening"] EXCEPT !.agent = a]]
  OBVIOUS
<1> QED BY <1>2, <1>3

LEMMA WorkPcFinal ==
  ASSUME work \in [Task -> WorkRow], NEW t \in Task, NEW b \in BOOLEAN,
         work' = [work EXCEPT ![t].pc = "cleaning", ![t].final = b]
  PROVE  /\ work' \in [Task -> WorkRow] /\ work'[t].pc = "cleaning" /\ work'[t].agent = work[t].agent
         /\ \A u \in Task \ {t} : work'[u] = work[u]
<1>1. /\ [work[t] EXCEPT !.pc = "cleaning"] \in WorkRow /\ [work[t] EXCEPT !.pc = "cleaning"].pc = "cleaning"
      /\ [work[t] EXCEPT !.pc = "cleaning"].agent = work[t].agent
  BY DEF WorkRow, Claims
<1>2. LET r == [[work[t] EXCEPT !.pc = "cleaning"] EXCEPT !.final = b]
      IN  r \in WorkRow /\ r.pc = "cleaning" /\ r.agent = work[t].agent
  BY <1>1 DEF WorkRow
<1>3. work' = [work EXCEPT ![t] = [[work[t] EXCEPT !.pc = "cleaning"] EXCEPT !.final = b]]
  OBVIOUS
<1> QED BY <1>2, <1>3

\* A heartbeat only notices that something is lost.
LEMMA WorkLost ==
  ASSUME work \in [Task -> WorkRow], NEW t \in Task, NEW p \in BOOLEAN
  PROVE  LET new == [work EXCEPT ![t].lost = @ \/ p]
         IN  /\ new \in [Task -> WorkRow] /\ new[t].pc = work[t].pc /\ new[t].agent = work[t].agent
             /\ \A u \in Task \ {t} : new[u] = work[u]
<1>1. work[t] \in WorkRow
  OBVIOUS
<1>2. (work[t].lost \/ p) \in BOOLEAN
  OBVIOUS
<1>3. LET r == [work[t] EXCEPT !.lost = work[t].lost \/ p] IN r \in WorkRow /\ r.pc = work[t].pc /\ r.agent = work[t].agent
  BY <1>1, <1>2 DEF WorkRow
<1>4. [work EXCEPT ![t].lost = @ \/ p] = [work EXCEPT ![t] = [work[t] EXCEPT !.lost = work[t].lost \/ p]]
  OBVIOUS
<1> QED BY <1>3, <1>4, WorkTo

-----------------------------------------------------------------------------
\* Threads

\* The threads change their status and lifecycle only.
Alike(threads, new) ==
  /\ new \in [Thread -> GoodThread]
  /\ \A a \in Thread : (new[a].archived <=> threads[a].archived) /\ (new[a].known <=> threads[a].known)

\* A step begins to archive only threads that are stored.
MovesKnown == \A a \in Thread : moving'[a] = "archive" => moving[a] = "archive" \/ thread'[a].known

LEMMA WithStatusFacts ==
  ASSUME NEW r \in GoodThread, NEW b \in BOOLEAN
  PROVE  /\ WithStatus(r, b) \in GoodThread
         /\ (WithStatus(r, b).archived <=> r.archived) /\ (WithStatus(r, b).known <=> r.known)
         /\ (WithStatus(r, b).ephemeral <=> r.ephemeral)
<1> DEFINE l == IF r.life \in {"candidate", "active", "idle"} THEN IF b THEN "active" ELSE "idle" ELSE r.life
<1>1. r \in ThreadRow /\ (r.archived => r.known /\ r.life = "archived") /\ (r.ephemeral => r.known)
  BY DEF GoodThread
<1>2. [r EXCEPT !.busy = b] \in ThreadRow
  BY <1>1 DEF ThreadRow
<1>3. l \in {"candidate", "active", "idle", "compacted", "archived"} /\ (r.life = "archived" => l = "archived")
  BY <1>1 DEF ThreadRow
<1>4. WithStatus(r, b) = [[r EXCEPT !.busy = b] EXCEPT !.life = l]
  BY <1>1 DEF WithStatus, ThreadRow
<1> HIDE DEF l
<1>5. /\ WithStatus(r, b) \in ThreadRow /\ WithStatus(r, b).life = l
      /\ (WithStatus(r, b).archived <=> r.archived) /\ (WithStatus(r, b).known <=> r.known)
      /\ (WithStatus(r, b).ephemeral <=> r.ephemeral)
  BY <1>1, <1>2, <1>3, <1>4 DEF ThreadRow
<1> QED BY <1>1, <1>3, <1>5 DEF GoodThread

LEMMA SetIdleFacts ==
  ASSUME NEW threads \in [Thread -> GoodThread], NEW as
  PROVE  Alike(threads, SetIdle(threads, as))
<1>1. \A a \in Thread : SetIdle(threads, as)[a] = IF a \in as /\ threads[a].known THEN WithStatus(threads[a], FALSE) ELSE threads[a]
  BY DEF SetIdle
<1>2. \A a \in Thread : /\ SetIdle(threads, as)[a] \in GoodThread
                        /\ SetIdle(threads, as)[a].archived <=> threads[a].archived
                        /\ SetIdle(threads, as)[a].known <=> threads[a].known
  <2> TAKE a \in Thread
  <2>1. threads[a] \in GoodThread
    OBVIOUS
  <2>2. /\ WithStatus(threads[a], FALSE) \in GoodThread
        /\ WithStatus(threads[a], FALSE).archived <=> threads[a].archived
        /\ WithStatus(threads[a], FALSE).known <=> threads[a].known
    BY <2>1, WithStatusFacts
  <2> QED BY <1>1, <2>1, <2>2
<1>3. SetIdle(threads, as) \in [Thread -> GoodThread]
  BY <1>2 DEF SetIdle
<1> QED BY <1>2, <1>3 DEF Alike

LEMMA SettleThreadFacts ==
  ASSUME NEW threads \in [Thread -> GoodThread], NEW a, NEW final, a \in Thread \cup {NoThread},
         moving \in [Thread -> {"no", "archive", "unarchive"}], SettleThread(threads, a, final)
  PROVE  /\ Alike(threads, thread') /\ MovesKnown
         /\ moving' \in [Thread -> {"no", "archive", "unarchive"}]
<1> DEFINE idle == SetIdle(threads, {a})
           retire == a # NoThread /\ final /\ idle[a].ephemeral /\ idle[a].life \in {"idle", "compacted"} /\ a \in Settled'
<1>1. Alike(threads, idle)
  BY SetIdleFacts
<1>2. /\ thread' = IF retire THEN [idle EXCEPT ![a].life = "compacted"] ELSE idle
      /\ moving' = IF retire THEN [moving EXCEPT ![a] = "archive"] ELSE moving
  BY DEF SettleThread
<1>3. CASE ~retire
  BY <1>1, <1>2, <1>3 DEF MovesKnown
<1>4. CASE retire
  <2>1. a \in Thread /\ idle \in [Thread -> GoodThread] /\ idle[a].life # "archived"
    BY <1>1, <1>4 DEF Alike
  <2> DEFINE r == [idle[a] EXCEPT !.life = "compacted"]
  <2>2. idle[a] \in ThreadRow /\ ~idle[a].archived /\ idle[a].known
    BY <1>4, <2>1 DEF GoodThread
  <2>3. r \in GoodThread /\ (r.archived <=> idle[a].archived) /\ (r.known <=> idle[a].known)
    BY <2>2 DEF GoodThread, ThreadRow
  <2>4. thread' = [idle EXCEPT ![a] = r]
    BY <1>2, <1>4
  <2> HIDE DEF idle, r
  <2>5. /\ thread' \in [Thread -> GoodThread] /\ thread'[a] = r
        /\ \A b \in Thread \ {a} : thread'[b] = idle[b]
    BY <2>1, <2>3, <2>4
  <2>6. Alike(threads, thread')
    BY <1>1, <2>3, <2>5 DEF Alike
  <2>7. thread'[a].known
    BY <2>2, <2>3, <2>5
  <2> QED BY <1>2, <1>4, <2>1, <2>6, <2>7 DEF MovesKnown
<1> QED BY <1>3, <1>4


-----------------------------------------------------------------------------
\* Steps.  Most of them move one worker.

\* Nobody is archived with a lease, or leased while archived, by this step, and what it archives
\* is stored and stays so.
NotLeasedAway ==
  /\ Unpinned => \A a \in Thread : thread'[a].archived /\ tlease'[a].status = "active" =>
                                     thread[a].archived /\ tlease[a].status = "active"
  /\ \A a \in Thread : thread[a].known => thread'[a].known
  /\ MovesKnown

\* What u holds stays with it, and nothing is added.
Undisturbed(u) ==
  /\ \A k \in Key : Live(lease'[k], u) <=> Live(lease[k], u)
  /\ \A a \in Thread : LiveThread(tlease'[a], u) => LiveThread(tlease[a], u)

LEMMA KeptIsUndisturbed ==
  ASSUME Shape, NEW S, Kept(lease, lease', S), Kept(tlease, tlease', S), NEW u \in Task, u \notin S
  PROVE  Undisturbed(u)
BY DEF Kept, KeptRow, Undisturbed, Shape

LEMMA SameKept ==
  ASSUME Shape, NEW S
  PROVE  /\ UNCHANGED lease => Kept(lease, lease', S)
         /\ UNCHANGED tlease => Kept(tlease, tlease', S)
BY KeptSame DEF Shape

\* The step of a worker leaves the others what they know.
LEMMA Bystander ==
  ASSUME IInv, NEW u \in Task, work'[u].pc = work[u].pc, work'[u].agent = work[u].agent,
         task'[u].claimed = task[u].claimed, Undisturbed(u)
  PROVE  Knows(u)'
<1>1. Knows(u)
  BY DEF IInv
<1>2. /\ Owns(u)' <=> Owns(u)
      /\ Allocating(u)' <=> Allocating(u)
      /\ Writing(u)' <=> Writing(u)
  BY DEF Owns, Allocating, Writing
<1>3. KeyOf[u] # NoKey => KeyOf[u] \in Key
  BY KeyFacts
<1> QED BY <1>1, <1>2, <1>3, KeyFacts DEF Knows, Undisturbed, Writing

LEMMA KeepsArchived ==
  ASSUME IInv, NotLeasedAway
  PROVE  ArchivedIsUnleased' /\ MovingIsKnown'
BY DEF NotLeasedAway, ArchivedIsUnleased, IInv, Unpinned, MovesKnown, MovingIsKnown

LEMMA AlikeKeepsArchived ==
  ASSUME Shape, Alike(thread, thread') \/ UNCHANGED thread, NEW S, Kept(tlease, tlease', S),
         MovesKnown \/ UNCHANGED moving
  PROVE  NotLeasedAway
BY DEF NotLeasedAway, Alike, Kept, KeptRow, Shape, MovesKnown

LEMMA WorkerStep ==
  ASSUME IInv, Shape', NEW t \in Task, \A u \in Task \ {t} : work'[u] = work[u] /\ task'[u] = task[u] /\ Undisturbed(u),
         Knows(t)', NotLeasedAway
  PROVE  IInv'
<1>1. \A u \in Task \ {t} : Knows(u)'
  BY Bystander
<1>2. ArchivedIsUnleased' /\ MovingIsKnown'
  BY KeepsArchived
<1> QED BY <1>1, <1>2 DEF IInv

\* A worker that is gone, or has none of its leases left, holds nothing.
LEMMA IdleKnows ==
  ASSUME NEW t \in Task, work'[t].pc = "idle",
         \A k \in Key : ~Live(lease'[k], t), \A a \in Thread : ~LiveThread(tlease'[a], t)
  PROVE  Knows(t)'
BY KeyFacts DEF Knows, Owns

\* A worker before its thread holds none.
LEMMA NoThreadYet ==
  ASSUME IInv, NEW t \in Task, work[t].pc \notin ThreadSteps
  PROVE  \A a \in Thread : ~LiveThread(tlease[a], t)
BY DEF IInv, Knows

LEMMA WaitingRowFacts ==
  ASSUME NEW r \in TaskRow
  PROVE  WaitingRow(r) \in TaskRow
<1> DEFINE since == Since(r.since)
<1>1. since \in {"none", "recent", "old"}
  BY DEF Since, TaskRow
<1>2. /\ [r EXCEPT !.status = "recovery_attention"] \in TaskRow
      /\ [r EXCEPT !.status = "waiting_for_lease"] \in TaskRow
  BY DEF TaskRow, TerminalStatus, Claimables
<1>3. /\ [[r EXCEPT !.status = "recovery_attention"] EXCEPT !.claimed = FALSE] \in TaskRow
      /\ [[r EXCEPT !.status = "waiting_for_lease"] EXCEPT !.claimed = FALSE] \in TaskRow
  BY <1>2 DEF TaskRow
<1>4. [[[r EXCEPT !.status = "waiting_for_lease"] EXCEPT !.claimed = FALSE] EXCEPT !.since = since] \in TaskRow
  BY <1>1, <1>3 DEF TaskRow
<1>5. WaitingRow(r) \in {[[r EXCEPT !.status = "recovery_attention"] EXCEPT !.claimed = FALSE],
                         [[[r EXCEPT !.status = "waiting_for_lease"] EXCEPT !.claimed = FALSE] EXCEPT !.since = since]}
  BY DEF WaitingRow
<1> QED BY <1>3, <1>4, <1>5

\* A worker without a thread that gives its Task back to the queue.
LEMMA WaitKeeps ==
  ASSUME IInv, UNCHANGED faults, NEW t \in Task, Wait(t), work[t].pc \notin ThreadSteps
  PROVE  IInv'
<1> USE DEF Wait
<1>1. Shape
  BY DEF IInv
<1>2. task' \in [Task -> TaskRow] /\ \A u \in Task \ {t} : task'[u] = task[u]
  BY <1>1, WaitingRowFacts DEF Waited, Shape
<1>3. work' \in [Task -> WorkRow] /\ work'[t] = IdleWork /\ \A u \in Task \ {t} : work'[u] = work[u]
  BY <1>1, WorkTo, IdleFacts DEF Shape
<1>4. Kept(lease, lease', {t}) /\ Kept(tlease, tlease', {t}) /\ \A k \in Key : ~Live(lease'[k], t)
  BY <1>1, ReleasedByFacts, SameKept DEF Shape
<1>5. Knows(t)'
  BY <1>3, <1>4, IdleFacts, IdleKnows, NoThreadYet
<1>6. Shape'
  BY <1>1, <1>2, <1>3, <1>4 DEF Shape, Kept
<1>7. \A u \in Task \ {t} : Undisturbed(u)
  BY <1>1, <1>4, KeptIsUndisturbed
<1>8. NotLeasedAway
  BY <1>1, <1>4, AlikeKeepsArchived
<1> QED BY <1>2, <1>3, <1>5, <1>6, <1>7, <1>8, WorkerStep


\* What a table of threads has in common with the one before a worker stores its thread.
SameArchive(threads) ==
  /\ threads \in [Thread -> GoodThread]
  /\ \A a \in Thread : /\ threads[a].archived <=> thread[a].archived
                       /\ thread[a].known => threads[a].known

\* The catch of #runTask, with or without the claim.
LEMMA FailKeeps ==
  ASSUME IInv, UNCHANGED faults, NEW t \in Task, work[t].pc # "idle",
         NEW a \in Thread \cup {NoThread}, NEW threads, SameArchive(threads),
         NEW rows \in {lease, ReleasedAllocation(t)}, Fail(t, a, threads, rows)
  PROVE  IInv'
<1>1. Shape
  BY DEF IInv
<1>2. PICK s \in {"failed", "retry_waiting"} :
        LET tidy == t \in Worktree /\ (Owns(t) => s # "retry_waiting")
            kept == (IF tidy THEN {"allocation"} ELSE {}) \cup (IF Owns(t) THEN {} ELSE {KeyOf[t]})
            final == Owns(t) /\ s = "failed"
        IN  /\ task' = IF Owns(t) THEN [task EXCEPT ![t].status = s, ![t].claimed = FALSE] ELSE task
            /\ lease' = [x \in Key |-> IF x \in kept THEN rows[x] ELSE ReleasedBy(t)[x]]
            /\ IF tidy
                 THEN /\ work' = [work EXCEPT ![t] = [IdleWork EXCEPT !.pc = "tidying", !.agent = a,
                                                                      !.final = final]]
                      /\ thread' = threads /\ UNCHANGED moving
                 ELSE /\ work' = [work EXCEPT ![t] = IdleWork]
                      /\ SettleThread(threads, a, final)
  BY DEF Fail
<1> DEFINE tidy == t \in Worktree /\ (Owns(t) => s # "retry_waiting")
           kept == (IF tidy THEN {"allocation"} ELSE {}) \cup (IF Owns(t) THEN {} ELSE {KeyOf[t]})
           final == Owns(t) /\ s = "failed"
<1>3. task' \in [Task -> TaskRow] /\ \A u \in Task \ {t} : task'[u] = task[u]
  <2>1. s \in TaskStatusSet /\ FALSE \in BOOLEAN /\ task \in [Task -> TaskRow]
    BY <1>1 DEF TaskStatusSet, TerminalStatus, Claimables, Shape
  <2>2. CASE Owns(t)
    BY <1>2, <2>1, <2>2, TaskTo
  <2>3. CASE ~Owns(t)
    BY <1>2, <2>1, <2>3
  <2> QED BY <2>2, <2>3
<1>4. Kept(tlease, tlease', {t}) /\ \A b \in Thread : ~LiveThread(tlease'[b], t)
  BY <1>1, ReleasedThreadsFacts DEF Fail, Shape
<1>5. Kept(lease, lease', {t})
  <2>1. lease \in [Key -> GoodLease]
    BY <1>1 DEF Shape
  <2>2. Kept(lease, rows, {t}) /\ Kept(lease, ReleasedBy(t), {t})
    BY <2>1, KeptSame, ReleasedAllocationFacts, ReleasedByFacts
  <2>3. lease' = [x \in Key |-> IF x \in kept THEN rows[x] ELSE ReleasedBy(t)[x]]
    BY <1>2
  <2> HIDE DEF kept
  <2>4. \A x \in Key : KeptRow(lease[x], lease'[x], {t})
    BY <2>1, <2>2, <2>3 DEF Kept
  <2> QED BY <2>1, <2>3, <2>4, KeptRows
<1>6. \A k \in Key : Live(lease'[k], t) => k = "allocation" /\ tidy
  <2> SUFFICES ASSUME NEW k \in Key, Live(lease'[k], t) PROVE k = "allocation" /\ tidy
    OBVIOUS
  <2>1. lease'[k] = IF k \in kept THEN rows[k] ELSE ReleasedBy(t)[k]
    BY <1>2
  <2>2. k \in kept
    BY <1>1, <2>1, ReleasedByFacts DEF Shape
  <2>3. CASE k = "allocation"
    BY <2>2, <2>3, KeyFacts
  <2>4. CASE k # "allocation"
    <3>1. ~Owns(t) /\ Live(lease[k], t)
      BY <1>1, <2>1, <2>2, <2>4, ReleasedAllocationFacts DEF Shape
    <3>2. task[t].claimed
      BY <2>4, <3>1 DEF IInv, Knows
    <3> QED BY <3>1, <3>2 DEF Owns
  <2> QED BY <2>3, <2>4
<1>7. \A u \in Task \ {t} : Undisturbed(u)
  BY <1>1, <1>4, <1>5, KeptIsUndisturbed
<1>8. CASE tidy
  <2> DEFINE r == [[[IdleWork EXCEPT !.pc = "tidying"] EXCEPT !.agent = a] EXCEPT !.final = final]
  <2>1. [[IdleWork EXCEPT !.pc = "tidying"] EXCEPT !.agent = a] \in WorkRow /\ final \in BOOLEAN
    BY DEF IdleWork, WorkRow, Claims
  <2> HIDE DEF final
  <2>2. r \in WorkRow /\ r.pc = "tidying"
    BY <2>1 DEF WorkRow, IdleWork
  <2>3. work' = [work EXCEPT ![t] = r] /\ thread' = threads /\ UNCHANGED moving
    BY <1>2, <1>8 DEF final
  <2> HIDE DEF r
  <2>4. work' \in [Task -> WorkRow] /\ work'[t] = r /\ \A u \in Task \ {t} : work'[u] = work[u]
    BY <1>1, <2>2, <2>3, WorkTo DEF Shape
  <2>5. Knows(t)'
    BY <1>4, <1>6, <2>2, <2>4 DEF Knows, Allocating, Writing, AllocationSteps
  <2>6. Shape'
    BY <1>1, <1>3, <1>4, <1>5, <2>3, <2>4 DEF Shape, Kept, SameArchive
  <2>7. NotLeasedAway
    BY <1>1, <1>4, <2>3 DEF NotLeasedAway, SameArchive, Kept, KeptRow, Shape, MovesKnown
  <2> QED BY <1>3, <1>7, <2>4, <2>5, <2>6, <2>7, WorkerStep
<1>9. CASE ~tidy
  <2>1. work' = [work EXCEPT ![t] = IdleWork] /\ SettleThread(threads, a, final)
    BY <1>2, <1>9
  <2> HIDE DEF final, tidy
  <2>2. work' \in [Task -> WorkRow] /\ work'[t] = IdleWork /\ \A u \in Task \ {t} : work'[u] = work[u]
    BY <1>1, <2>1, WorkTo, IdleFacts DEF Shape
  <2>3. Knows(t)'
    BY <1>4, <1>6, <1>9, <2>2, IdleFacts, IdleKnows
  <2>4. Alike(threads, thread') /\ MovesKnown /\ moving' \in [Thread -> {"no", "archive", "unarchive"}]
    BY <1>1, <2>1, SettleThreadFacts DEF SameArchive, Shape
  <2>5. Shape'
    BY <1>1, <1>3, <1>4, <1>5, <2>2, <2>4 DEF Shape, Kept, Alike
  <2>6. NotLeasedAway
    BY <1>1, <1>4, <2>4 DEF NotLeasedAway, SameArchive, Alike, Kept, KeptRow, Shape
  <2> QED BY <1>3, <1>7, <2>2, <2>3, <2>5, <2>6, WorkerStep
<1> QED BY <1>8, <1>9

LEMMA ThrowKeeps ==
  ASSUME IInv, UNCHANGED faults, NEW t \in Task, work[t].pc # "idle", Throw(t) \/ ThrowWith(t)
  PROVE  IInv'
<1>1. SameArchive(thread) /\ work[t].agent \in Thread \cup {NoThread}
  BY DEF IInv, Shape, SameArchive, WorkRow
<1> QED BY <1>1, FailKeeps DEF Throw, ThrowWith

\* A worker goes on to step x and changes at most its leases.
LEMMA Advance ==
  ASSUME IInv, UNCHANGED <<task, moving, faults>>, NEW t \in Task, work[t].pc # "idle",
         work' \in [Task -> WorkRow], \A u \in Task \ {t} : work'[u] = work[u],
         thread' \in [Thread -> GoodThread], lease' \in [Key -> GoodLease], tlease' \in [Thread -> GoodLease],
         \A u \in Task \ {t} : Undisturbed(u), Knows(t)', NotLeasedAway
  PROVE  IInv'
<1>1. Shape'
  BY DEF IInv, Shape
<1> QED BY <1>1, WorkerStep

\* The step alone
LEMMA PcMoves ==
  ASSUME IInv, NEW t \in Task, work[t].pc # "idle",
         UNCHANGED <<task, lease, tlease, thread, moving, faults>>,
         work' \in [Task -> WorkRow], \A u \in Task \ {t} : work'[u] = work[u], Knows(t)'
  PROVE  IInv'
<1>1. Shape /\ Kept(lease, lease', {t}) /\ Kept(tlease, tlease', {t})
  BY SameKept DEF IInv
<1> QED BY <1>1, KeptIsUndisturbed, AlikeKeepsArchived, Advance DEF Shape, Kept


-----------------------------------------------------------------------------
\* The actions of a worker

LEMMA ClaimKeeps == ASSUME IInv, UNCHANGED faults, NEW t \in Task, Claim(t) PROVE IInv'
<1> USE DEF Claim
<1>1. Shape
  BY DEF IInv
<1>2. task' \in [Task -> TaskRow] /\ \A u \in Task \ {t} : task'[u] = task[u]
  <2>1. "running" \in TaskStatusSet /\ TRUE \in BOOLEAN
    BY DEF TaskStatusSet, RunningStatus
  <2> QED BY <1>1, <2>1, TaskTo DEF Shape
<1>3. work' \in [Task -> WorkRow] /\ work'[t].pc = "claimed" /\ \A u \in Task \ {t} : work'[u] = work[u]
  <2>1. "claimed" \in Claims
    BY DEF Claims
  <2> QED BY <1>1, <2>1, WorkPc DEF Shape
<1>4. /\ Kept(lease, lease', {t}) /\ Kept(tlease, tlease', {t})
      /\ \A k \in Key : ~Live(lease'[k], t)
      /\ \A a \in Thread : ~LiveThread(tlease'[a], t)
  BY <1>1, OutdatedFacts DEF Shape
<1>5. Knows(t)'
  BY <1>3, <1>4, KeyFacts DEF Knows, Allocating, Writing
<1>6. Shape'
  BY <1>1, <1>2, <1>3, <1>4 DEF Shape, Kept
<1> QED BY <1>1, <1>2, <1>3, <1>4, <1>5, <1>6, KeptIsUndisturbed, AlikeKeepsArchived, WorkerStep

LEMMA TakeAllocationKeeps == ASSUME IInv, UNCHANGED faults, NEW t \in Task, TakeAllocation(t) PROVE IInv'
<1> USE DEF TakeAllocation
<1>1. Shape /\ Knows(t) /\ work[t].pc = "claimed"
  BY DEF IInv
<1>2. CASE Wait(t)
  BY <1>1, <1>2, WaitKeeps DEF ThreadSteps
<1>3. CASE /\ GivenUp(lease["allocation"])
           /\ lease' = [lease EXCEPT !["allocation"] = TakenBy(t)]
           /\ work' = [work EXCEPT ![t].pc = "inspecting"]
           /\ UNCHANGED <<task, tlease, thread, moving>>
  <2>1. /\ lease' \in [Key -> GoodLease] /\ Live(lease'["allocation"], t)
        /\ \A x \in Key \ {"allocation"} : lease'[x] = lease[x]
        /\ \A u \in Task \ {t}, x \in Key : Live(lease'[x], u) <=> Live(lease[x], u)
    BY <1>1, <1>3, TakenKey, KeyFacts DEF Shape
  <2>2. work' \in [Task -> WorkRow] /\ work'[t].pc = "inspecting" /\ \A u \in Task \ {t} : work'[u] = work[u]
    <3>1. "inspecting" \in Claims
      BY DEF Claims
    <3> QED BY <1>1, <1>3, <3>1, WorkPc DEF Shape
  <2>3. Knows(t)'
    BY <1>1, <1>3, <2>1, <2>2 DEF Knows, Writing, AllocationSteps, WorkspaceSteps, ThreadSteps
  <2>4. \A u \in Task \ {t} : Undisturbed(u)
    BY <1>3, <2>1 DEF Undisturbed
  <2> QED BY <1>1, <1>3, <2>1, <2>2, <2>3, <2>4, Advance DEF Shape, NotLeasedAway, MovesKnown
<1> QED BY <1>2, <1>3

LEMMA TakeWorkspaceKeeps == ASSUME IInv, UNCHANGED faults, NEW t \in Task, TakeWorkspace(t) PROVE IInv'
<1> USE DEF TakeWorkspace
<1>1. Shape /\ Knows(t) /\ work[t].pc = "inspecting"
  BY DEF IInv
<1>2. CASE Wait(t)
  BY <1>1, <1>2, WaitKeeps DEF ThreadSteps
<1>3. CASE Throw(t)
  BY <1>1, <1>3, ThrowKeeps
<1>4. ASSUME work' = [work EXCEPT ![t].pc = "routing"]
      PROVE  work' \in [Task -> WorkRow] /\ work'[t].pc = "routing" /\ \A u \in Task \ {t} : work'[u] = work[u]
  <2>1. "routing" \in Claims
    BY DEF Claims
  <2> QED BY <1>1, <1>4, <2>1, WorkPc DEF Shape
<1>5. CASE /\ KeyOf[t] = NoKey
           /\ work' = [work EXCEPT ![t].pc = "routing"]
           /\ UNCHANGED <<task, lease, tlease, thread, moving>>
  <2>1. Knows(t)'
    BY <1>1, <1>4, <1>5 DEF Knows, Owns, Allocating, Writing, AllocationSteps, WorkspaceSteps, ThreadSteps
  <2> QED BY <1>1, <1>4, <1>5, <2>1, PcMoves
<1>6. CASE /\ KeyOf[t] # NoKey /\ Owns(t) /\ GivenUp(lease[KeyOf[t]])
           /\ lease' = [lease EXCEPT ![KeyOf[t]] = TakenBy(t)]
           /\ work' = [work EXCEPT ![t].pc = "routing"]
           /\ UNCHANGED <<task, tlease, thread, moving>>
  <2>1. KeyOf[t] \in Key /\ KeyOf[t] # "allocation" /\ "allocation" \in Key
    BY <1>6, KeyFacts
  <2>2. /\ lease' \in [Key -> GoodLease] /\ Live(lease'[KeyOf[t]], t)
        /\ \A x \in Key \ {KeyOf[t]} : lease'[x] = lease[x]
        /\ \A u \in Task \ {t}, x \in Key : Live(lease'[x], u) <=> Live(lease[x], u)
    BY <1>1, <1>6, <2>1, TakenKey DEF Shape
  <2>3. Knows(t)'
    BY <1>1, <1>4, <1>6, <2>1, <2>2 DEF Knows, Owns, Allocating, Writing, AllocationSteps, WorkspaceSteps, ThreadSteps
  <2>4. \A u \in Task \ {t} : Undisturbed(u)
    BY <1>6, <2>2 DEF Undisturbed
  <2> QED BY <1>1, <1>4, <1>6, <2>2, <2>3, <2>4, Advance DEF Shape, NotLeasedAway, MovesKnown
<1> QED BY <1>2, <1>3, <1>5, <1>6

\* The router's thread, or the thread a Task names.
LEMMA TakeKeeps ==
  ASSUME IInv, UNCHANGED faults, NEW t \in Task, work[t].pc = "routing", NEW a \in Thread, Take(t, a),
         ~thread[a].archived \/ Pinned[t] # NoThread
  PROVE  IInv'
<1> USE DEF Take
<1>1. Shape /\ Knows(t)
  BY DEF IInv
<1>2. /\ tlease' \in [Thread -> GoodLease]
      /\ \A b \in Thread \ {a} : tlease'[b] = tlease[b]
      /\ \A u \in Task \ {t}, b \in Thread : LiveThread(tlease'[b], u) => LiveThread(tlease[b], u)
  BY <1>1, TakenThread DEF Shape
<1>3. /\ work' \in [Task -> WorkRow] /\ work'[t].pc = "opening" /\ work'[t].agent = a
      /\ \A u \in Task \ {t} : work'[u] = work[u]
  BY <1>1, WorkPcAgent DEF Shape
<1>4. Knows(t)'
  BY <1>1, <1>3 DEF Knows, Owns, Allocating, Writing, AllocationSteps, WorkspaceSteps, ThreadSteps
<1>5. \A u \in Task \ {t} : Undisturbed(u)
  BY <1>2 DEF Undisturbed
<1>6. NotLeasedAway
  BY <1>1, <1>2 DEF NotLeasedAway, MovesKnown, Unpinned, Shape
<1> QED BY <1>1, <1>2, <1>3, <1>4, <1>5, <1>6, Advance DEF Shape

LEMMA CreateKeeps ==
  ASSUME IInv, UNCHANGED faults, NEW t \in Task, work[t].pc = "routing", Create(t)
  PROVE  IInv'
<1>1. Shape /\ Knows(t)
  BY DEF IInv
<1>2. PICK a \in Thread : /\ work' = [work EXCEPT ![t].pc = "opening", ![t].agent = a]
                          /\ UNCHANGED <<task, lease, tlease, thread, moving>>
  BY DEF Create
<1>3. /\ work' \in [Task -> WorkRow] /\ work'[t].pc = "opening" /\ work'[t].agent = a
      /\ \A u \in Task \ {t} : work'[u] = work[u]
  BY <1>1, <1>2, WorkPcAgent DEF Shape
<1>4. Knows(t)'
  BY <1>1, <1>2, <1>3 DEF Knows, Owns, Allocating, Writing, AllocationSteps, WorkspaceSteps, ThreadSteps
<1> QED BY <1>2, <1>3, <1>4, PcMoves

LEMMA YieldKeeps ==
  ASSUME IInv, UNCHANGED faults, NEW t \in Task, work[t].pc = "routing", Yield(t)
  PROVE  IInv'
<1>1. Shape /\ Knows(t)
  BY DEF IInv
<1>2. CASE t \notin Worktree
  BY <1>2, WaitKeeps DEF Yield, ThreadSteps
<1>3. CASE t \in Worktree
  <2>1. /\ lease' = [x \in Key |-> IF x = "allocation" THEN lease[x] ELSE ReleasedBy(t)[x]]
        /\ work' = [work EXCEPT ![t].pc = "yielding"]
        /\ UNCHANGED <<task, tlease, thread, moving>>
    BY <1>3 DEF Yield
  <2>2. \A x \in Key : KeptRow(lease[x], lease'[x], {t}) /\ (x # "allocation" => ~Live(lease'[x], t))
    BY <1>1, <2>1, ReleasedByFacts, SameRow DEF Shape, Kept
  <2>3. Kept(lease, lease', {t}) /\ Kept(tlease, tlease', {t})
    BY <1>1, <2>1, <2>2, KeptRows, SameKept DEF Shape
  <2>4. work' \in [Task -> WorkRow] /\ work'[t].pc = "yielding" /\ \A u \in Task \ {t} : work'[u] = work[u]
    <3>1. "yielding" \in Claims
      BY DEF Claims
    <3> QED BY <1>1, <2>1, <3>1, WorkPc DEF Shape
  <2>5. lease'["allocation"] = lease["allocation"]
    BY <2>1, KeyFacts
  <2>6. Knows(t)'
    BY <1>1, <2>1, <2>2, <2>4, <2>5 DEF Knows, Owns, Allocating, Writing, AllocationSteps, WorkspaceSteps, ThreadSteps
  <2> QED BY <1>1, <2>1, <2>3, <2>4, <2>6, KeptIsUndisturbed, AlikeKeepsArchived, Advance DEF Shape, Kept
<1> QED BY <1>2, <1>3

LEMMA RouteKeeps == ASSUME IInv, UNCHANGED faults, NEW t \in Task, Route(t) PROVE IInv'
<1>1. work[t].pc = "routing"
  BY DEF Route
<1>2. CASE Throw(t)
  BY <1>1, <1>2, ThrowKeeps
<1>3. CASE Yield(t)
  BY <1>1, <1>3, YieldKeeps
<1>4. CASE Create(t)
  BY <1>1, <1>4, CreateKeeps
<1>5. CASE Reuse(t)
  BY <1>1, <1>5, TakeKeeps DEF Reuse
<1>6. CASE Pinned[t] # NoThread /\ ReusePinned(t)
  <2>1. Pinned[t] \in Thread
    BY <1>6, LeasesAssumption
  <2> QED BY <1>1, <1>6, <2>1, TakeKeeps DEF ReusePinned
<1> QED BY <1>2, <1>3, <1>4, <1>5, <1>6 DEF Route

LEMMA YieldedKeeps == ASSUME IInv, UNCHANGED faults, NEW t \in Task, Yielded(t) PROVE IInv'
BY WaitKeeps DEF Yielded, ThreadSteps


\* The thread is stored, or was there.
LEMMA StoredFacts ==
  ASSUME Shape, NEW t \in Task, NEW a \in Thread,
         NEW stored, stored = IF thread[a].known THEN thread
                              ELSE [thread EXCEPT ![a].known = TRUE, ![a].ephemeral = t \in Ephemeral, ![a].life = "idle"]
  PROVE  SameArchive(stored)
<1>1. CASE thread[a].known
  BY <1>1 DEF SameArchive, Shape
<1>2. CASE ~thread[a].known
  <2>1. thread[a] \in ThreadRow /\ ~thread[a].archived
    BY <1>2 DEF Shape, GoodThread
  <2> DEFINE e == t \in Ephemeral
             r1 == [thread[a] EXCEPT !.known = TRUE]
             r2 == [r1 EXCEPT !.ephemeral = e]
             r3 == [r2 EXCEPT !.life = "idle"]
  <2>2. e \in BOOLEAN
    OBVIOUS
  <2>3. stored = [thread EXCEPT ![a] = r3]
    BY <1>2
  <2> HIDE DEF e
  <2>4. r1 \in ThreadRow /\ (r1.archived <=> thread[a].archived) /\ r1.known
    BY <2>1 DEF ThreadRow
  <2>5. r2 \in ThreadRow /\ (r2.archived <=> r1.archived) /\ r2.known
    BY <2>2, <2>4 DEF ThreadRow
  <2>6. r3 \in ThreadRow /\ (r3.archived <=> r2.archived) /\ r3.known
    BY <2>5 DEF ThreadRow
  <2>7. r3 \in GoodThread /\ ~r3.archived /\ r3.known
    BY <2>1, <2>4, <2>5, <2>6 DEF GoodThread
  <2> HIDE DEF r3
  <2> QED BY <2>1, <2>3, <2>7 DEF SameArchive, Shape
<1> QED BY <1>1, <1>2

LEMMA BusyFacts ==
  ASSUME NEW threads, SameArchive(threads), NEW a \in Thread, thread' = [threads EXCEPT ![a] = WithStatus(@, TRUE)]
  PROVE  SameArchive(thread')
<1>1. threads[a] \in GoodThread /\ TRUE \in BOOLEAN
  BY DEF SameArchive
<1>2. /\ WithStatus(threads[a], TRUE) \in GoodThread
      /\ WithStatus(threads[a], TRUE).archived <=> threads[a].archived
      /\ WithStatus(threads[a], TRUE).known <=> threads[a].known
  BY <1>1, WithStatusFacts
<1> QED BY <1>2 DEF SameArchive

LEMMA OpenedKeeps ==
  ASSUME IInv, UNCHANGED faults, NEW t \in Task, work[t].pc = "opening", Opened(t)
  PROVE  IInv'
<1> DEFINE a == work[t].agent
           stored == IF thread[a].known THEN thread
                     ELSE [thread EXCEPT ![a].known = TRUE, ![a].ephemeral = t \in Ephemeral, ![a].life = "idle"]
<1>1. Shape /\ Knows(t) /\ a \in Thread
  BY DEF IInv, Knows
<1>2. SameArchive(stored)
  <2>1. stored = IF thread[a].known THEN thread
                 ELSE [thread EXCEPT ![a].known = TRUE, ![a].ephemeral = t \in Ephemeral, ![a].life = "idle"]
    OBVIOUS
  <2> HIDE DEF stored
  <2> QED BY <1>1, <2>1, StoredFacts
<1>3. CASE ~(Owns(t) /\ (~thread[a].known => Available(tlease[a])))
  <2>1. Fail(t, a, stored, ReleasedAllocation(t))
    BY <1>3 DEF Opened
  <2> HIDE DEF stored
  <2> QED BY <1>1, <1>2, <2>1, FailKeeps
<1>4. CASE Owns(t) /\ (~thread[a].known => Available(tlease[a]))
  <2>1. /\ lease' = ReleasedAllocation(t)
        /\ tlease' = IF ~thread[a].known THEN [tlease EXCEPT ![a] = TakenBy(t)] ELSE tlease
        /\ thread' = [stored EXCEPT ![a] = WithStatus(@, TRUE)]
        /\ task' = [task EXCEPT ![t].agent = a]
        /\ work' = [work EXCEPT ![t].pc = "running"]
        /\ UNCHANGED moving
    BY <1>4 DEF Opened
  <2> HIDE DEF stored
  <2>2. SameArchive(thread')
    BY <1>1, <1>2, <2>1, BusyFacts
  <2>3. task' \in [Task -> TaskRow] /\ (task'[t].claimed <=> task[t].claimed) /\ \A u \in Task \ {t} : task'[u] = task[u]
    <3>1. LET r == [task[t] EXCEPT !.agent = a] IN r \in TaskRow /\ (r.claimed <=> task[t].claimed)
      BY <1>1 DEF Shape, TaskRow
    <3>2. task' = [task EXCEPT ![t] = [task[t] EXCEPT !.agent = a]]
      BY <2>1
    <3> QED BY <1>1, <3>1, <3>2 DEF Shape
  <2>4. /\ work' \in [Task -> WorkRow] /\ work'[t].pc = "running" /\ work'[t].agent = a
        /\ \A u \in Task \ {t} : work'[u] = work[u]
    <3>1. "running" \in Claims
      BY DEF Claims
    <3> QED BY <1>1, <2>1, <3>1, WorkPc DEF Shape
  <2>5. /\ Kept(lease, lease', {t}) /\ ~Live(lease'["allocation"], t)
        /\ \A k \in Key \ {"allocation"} : lease'[k] = lease[k]
    BY <1>1, <2>1, ReleasedAllocationFacts DEF Shape
  <2>6. /\ tlease' \in [Thread -> GoodLease]
        /\ \A u \in Task \ {t}, b \in Thread : LiveThread(tlease'[b], u) => LiveThread(tlease[b], u)
        /\ \A b \in Thread : tlease'[b] = tlease[b] \/ (b = a /\ ~thread[a].known)
    <3>1. CASE thread[a].known
      BY <1>1, <2>1, <3>1 DEF Shape
    <3>2. CASE ~thread[a].known
      BY <1>1, <2>1, <3>2, TakenThread DEF Shape
    <3> QED BY <3>1, <3>2
  <2>7. \A u \in Task \ {t} : Undisturbed(u)
    BY <2>5, <2>6, <1>1 DEF Undisturbed, Kept, KeptRow, Shape
  <2>8. KeyOf[t] # NoKey => KeyOf[t] \in Key \ {"allocation"}
    BY KeyFacts
  <2>9. Knows(t)'
    BY <1>1, <1>4, <2>3, <2>4, <2>5, <2>8
    DEF Knows, Owns, Allocating, Writing, AllocationSteps, WorkspaceSteps, ThreadSteps
  <2>10. NotLeasedAway
    <3>1. ~thread[a].known => ~thread[a].archived
      BY <1>1 DEF Shape, GoodThread
    <3> QED BY <2>1, <2>2, <2>6, <3>1 DEF NotLeasedAway, SameArchive, MovesKnown
  <2>11. Shape'
    BY <1>1, <2>1, <2>2, <2>3, <2>4, <2>5, <2>6 DEF Shape, SameArchive, Kept
  <2> QED BY <2>3, <2>4, <2>7, <2>9, <2>10, <2>11, WorkerStep
<1> QED BY <1>3, <1>4

LEMMA OpenKeeps == ASSUME IInv, UNCHANGED faults, NEW t \in Task, Open(t) PROVE IInv'
BY ThrowKeeps, OpenedKeeps DEF Open

LEMMA AllocationBeatKeeps == ASSUME IInv, UNCHANGED faults, NEW t \in Task, AllocationBeat(t) PROVE IInv'
<1> USE DEF AllocationBeat
<1>1. Shape /\ Knows(t) /\ work[t].pc # "idle"
  BY DEF IInv
<1> DEFINE p == ~Owns(t) \/ ~Renewable(lease["allocation"], t)
<1>2. work' = [work EXCEPT ![t].lost = @ \/ p] /\ p \in BOOLEAN
  OBVIOUS
<1> HIDE DEF p
<1>3. /\ work' \in [Task -> WorkRow] /\ work'[t].pc = work[t].pc /\ work'[t].agent = work[t].agent
      /\ \A u \in Task \ {t} : work'[u] = work[u]
  BY <1>1, <1>2, WorkLost DEF Shape
<1>4. Kept(lease, lease', {}) /\ Kept(tlease, tlease', {})
  BY <1>1, RenewedFacts, SameKept DEF Shape
<1>5. \A u \in Task : Undisturbed(u)
  BY <1>1, <1>4, KeptIsUndisturbed
<1>6. Knows(t)'
  BY <1>3, <1>5, Bystander
<1> QED BY <1>1, <1>3, <1>4, <1>5, <1>6, AlikeKeepsArchived, Advance DEF Shape, Kept

LEMMA BeatKeeps == ASSUME IInv, UNCHANGED faults, NEW t \in Task, Beat(t) PROVE IInv'
<1> USE DEF Beat
<1>1. Shape /\ Knows(t) /\ work[t].pc # "idle"
  BY DEF IInv
<1> DEFINE a == work[t].agent
           space == KeyOf[t] = NoKey \/ Renewable(lease[KeyOf[t]], t)
           p == ~Owns(t) \/ ~space \/ ~Renewable(tlease[a], t)
<1>2. work' = [work EXCEPT ![t].lost = @ \/ p] /\ p \in BOOLEAN
  OBVIOUS
<1>3. /\ lease' \in {lease, Renewed(lease, KeyOf[t], t)} /\ tlease' \in {tlease, Renewed(tlease, a, t)}
      /\ UNCHANGED <<task, thread, moving>>
  OBVIOUS
<1> HIDE DEF p, space
<1>4. /\ work' \in [Task -> WorkRow] /\ work'[t].pc = work[t].pc /\ work'[t].agent = work[t].agent
      /\ \A u \in Task \ {t} : work'[u] = work[u]
  BY <1>1, <1>2, WorkLost DEF Shape
<1>5. Kept(lease, lease', {}) /\ Kept(tlease, tlease', {})
  BY <1>1, <1>3, RenewedFacts, SameKept DEF Shape
<1>6. \A u \in Task : Undisturbed(u)
  BY <1>1, <1>5, KeptIsUndisturbed
<1>7. Knows(t)'
  BY <1>3, <1>4, <1>6, Bystander
<1> QED BY <1>1, <1>3, <1>4, <1>5, <1>6, <1>7, AlikeKeepsArchived, Advance DEF Shape, Kept


\* A worker that ends, has settled or given up its claim, and has no lease left.
LEMMA EndsKeeps ==
  ASSUME IInv, UNCHANGED faults, NEW t \in Task, work' = [work EXCEPT ![t] = IdleWork],
         task' \in [Task -> TaskRow], \A u \in Task \ {t} : task'[u] = task[u],
         Kept(lease, lease', {t}), \A k \in Key : ~Live(lease'[k], t),
         Kept(tlease, tlease', {t}), \A b \in Thread : ~LiveThread(tlease'[b], t),
         Alike(thread, thread') \/ UNCHANGED thread, moving' \in [Thread -> {"no", "archive", "unarchive"}],
         MovesKnown \/ UNCHANGED moving
  PROVE  IInv'
<1>1. Shape
  BY DEF IInv
<1>2. work' \in [Task -> WorkRow] /\ work'[t] = IdleWork /\ \A u \in Task \ {t} : work'[u] = work[u]
  BY <1>1, WorkTo, IdleFacts DEF Shape
<1>3. Knows(t)'
  BY <1>2, IdleFacts, IdleKnows
<1>4. Shape'
  BY <1>1, <1>2 DEF Shape, Kept, Alike
<1> QED BY <1>1, <1>2, <1>3, <1>4, KeptIsUndisturbed, AlikeKeepsArchived, WorkerStep

\* Once the work is over, a worker with its claim holds no more than its step says.
LEMMA SettledTask ==
  ASSUME Shape, NEW t \in Task, NEW s \in TaskStatusSet, task' = [task EXCEPT ![t].status = s, ![t].claimed = FALSE]
  PROVE  task' \in [Task -> TaskRow] /\ \A u \in Task \ {t} : task'[u] = task[u]
<1>1. FALSE \in BOOLEAN
  OBVIOUS
<1> QED BY <1>1, TaskTo DEF Shape

LEMMA SettleKeeps ==
  ASSUME IInv, UNCHANGED faults, NEW t \in Task, work[t].pc \in {"running", "settling"},
         NEW statuses \in SUBSET TaskStatusSet, NEW keep, Settle(t, statuses, keep)
  PROVE  IInv'
<1>1. Shape /\ Knows(t)
  BY DEF IInv
<1>2. CASE ~Owns(t)
  BY <1>2, ThrowKeeps DEF Settle
<1>3. CASE Owns(t)
  <2>1. PICK s \in statuses :
          LET final == s \in TerminalStatus
          IN  /\ task' = [task EXCEPT ![t].status = s, ![t].claimed = FALSE]
              /\ lease' = ReleasedBy(t)
              /\ IF t \in Worktree /\ s \notin keep
                   THEN /\ work' = [work EXCEPT ![t].pc = "cleaning", ![t].final = final]
                        /\ UNCHANGED <<tlease, thread, moving>>
                   ELSE /\ work' = [work EXCEPT ![t] = IdleWork]
                        /\ tlease' = ReleasedThreads(t)
                        /\ SettleThread(thread, work[t].agent, final)
    BY <1>3 DEF Settle
  <2> DEFINE final == s \in TerminalStatus
  <2>2. task' \in [Task -> TaskRow] /\ \A u \in Task \ {t} : task'[u] = task[u]
    BY <1>1, <2>1, SettledTask
  <2>3. Kept(lease, lease', {t}) /\ \A k \in Key : ~Live(lease'[k], t)
    BY <1>1, <2>1, ReleasedByFacts DEF Shape
  <2>4. final \in BOOLEAN /\ work[t].agent \in Thread \cup {NoThread}
    BY <1>1 DEF Shape, WorkRow
  <2>5. CASE t \in Worktree /\ s \notin keep
    <3>1. work' = [work EXCEPT ![t].pc = "cleaning", ![t].final = final] /\ UNCHANGED <<tlease, thread, moving>>
      BY <2>1, <2>5
    <3> HIDE DEF final
    <3>2. work' \in [Task -> WorkRow] /\ work'[t].pc = "cleaning" /\ \A u \in Task \ {t} : work'[u] = work[u]
      BY <1>1, <2>4, <3>1, WorkPcFinal DEF Shape
    <3>3. Kept(tlease, tlease', {t})
      BY <1>1, <3>1, SameKept
    <3>4. Knows(t)'
      BY <2>3, <3>2, KeyFacts DEF Knows, Allocating, Writing, ThreadSteps
    <3>5. Shape'
      BY <1>1, <2>2, <2>3, <3>1, <3>2 DEF Shape, Kept
    <3> QED BY <1>1, <2>2, <2>3, <3>1, <3>2, <3>3, <3>4, <3>5, KeptIsUndisturbed, AlikeKeepsArchived, WorkerStep
  <2>6. CASE ~(t \in Worktree /\ s \notin keep)
    <3>1. /\ work' = [work EXCEPT ![t] = IdleWork]
          /\ tlease' = ReleasedThreads(t)
          /\ SettleThread(thread, work[t].agent, final)
      BY <2>1, <2>6
    <3> HIDE DEF final
    <3>2. Kept(tlease, tlease', {t}) /\ \A b \in Thread : ~LiveThread(tlease'[b], t)
      BY <1>1, <3>1, ReleasedThreadsFacts DEF Shape
    <3>3. Alike(thread, thread') /\ MovesKnown /\ moving' \in [Thread -> {"no", "archive", "unarchive"}]
      BY <1>1, <2>4, <3>1, SettleThreadFacts DEF Shape
    <3> QED BY <2>2, <2>3, <3>1, <3>2, <3>3, EndsKeeps
  <2> QED BY <2>5, <2>6
<1> QED BY <1>2, <1>3

LEMMA DeferKeeps == ASSUME IInv, UNCHANGED faults, NEW t \in Task, Defer(t) PROVE IInv'
<1> USE DEF Defer
<1>1. Shape
  BY DEF IInv
<1>2. Kept(lease, lease', {t}) /\ \A k \in Key : ~Live(lease'[k], t)
  BY <1>1, OrphanedFacts DEF Shape
<1>3. Kept(tlease, tlease', {t}) /\ \A a \in Thread : ~LiveThread(tlease'[a], t)
  BY <1>1, OrphanedFacts DEF Shape
<1> QED BY <1>1, <1>2, <1>3, EndsKeeps DEF Shape

LEMMA TurnEndsKeeps == ASSUME IInv, UNCHANGED faults, NEW t \in Task, TurnEnds(t) PROVE IInv'
<1> USE DEF TurnEnds
<1>1. Shape /\ Knows(t) /\ work[t].pc = "running"
  BY DEF IInv
<1>2. CASE ThrowWith(t)
  BY <1>1, <1>2, ThrowKeeps
<1>3. CASE Defer(t)
  BY <1>3, DeferKeeps
<1>4. CASE Settle(t, {"failed", "retry_waiting", "recovery_attention"}, {"retry_waiting", "recovery_attention"})
  <2>1. {"failed", "retry_waiting", "recovery_attention"} \in SUBSET TaskStatusSet
    BY DEF TaskStatusSet, Claimables, TerminalStatus
  <2> QED BY <1>1, <1>4, <2>1, SettleKeeps
<1>5. CASE /\ work' = [work EXCEPT ![t].pc = "settling"]
           /\ UNCHANGED <<task, lease, tlease, thread, moving>>
  <2>1. /\ work' \in [Task -> WorkRow] /\ work'[t].pc = "settling" /\ work'[t].agent = work[t].agent
        /\ \A u \in Task \ {t} : work'[u] = work[u]
    <3>1. "settling" \in Claims
      BY DEF Claims
    <3> QED BY <1>1, <1>5, <3>1, WorkPc DEF Shape
  <2>2. Knows(t)'
    BY <1>1, <1>5, <2>1 DEF Knows, Owns, Allocating, Writing, AllocationSteps, WorkspaceSteps, ThreadSteps
  <2> QED BY <1>1, <1>5, <2>1, <2>2, PcMoves
<1> QED BY <1>2, <1>3, <1>4, <1>5

LEMMA CompleteKeeps == ASSUME IInv, UNCHANGED faults, NEW t \in Task, Complete(t) PROVE IInv'
<1>1. {"completed", "failed", "retry_waiting", "recovery_attention"} \in SUBSET TaskStatusSet
  BY DEF TaskStatusSet, Claimables, TerminalStatus
<1> QED BY <1>1, SettleKeeps, ThrowKeeps DEF Complete

LEMMA CleanKeeps == ASSUME IInv, UNCHANGED faults, NEW t \in Task, Clean(t) PROVE IInv'
<1> USE DEF Clean
<1>1. Shape /\ Knows(t) /\ work[t].agent \in Thread \cup {NoThread}
  BY DEF IInv, Shape, WorkRow
<1>2. Kept(tlease, tlease', {t}) /\ \A b \in Thread : ~LiveThread(tlease'[b], t)
  BY <1>1, ReleasedThreadsFacts DEF Shape
<1>3. Kept(lease, lease', {t}) /\ \A k \in Key : ~Live(lease'[k], t)
  BY <1>1, SameKept DEF Knows, AllocationSteps, WorkspaceSteps
<1>4. Alike(thread, thread') /\ MovesKnown /\ moving' \in [Thread -> {"no", "archive", "unarchive"}]
  BY <1>1, SettleThreadFacts DEF Shape
<1> QED BY <1>1, <1>2, <1>3, <1>4, EndsKeeps DEF Shape

LEMMA TidyKeeps == ASSUME IInv, UNCHANGED faults, NEW t \in Task, Tidy(t) PROVE IInv'
<1> USE DEF Tidy
<1>1. Shape /\ Knows(t) /\ work[t].agent \in Thread \cup {NoThread}
  BY DEF IInv, Shape, WorkRow
<1>2. Kept(tlease, tlease', {t}) /\ \A b \in Thread : ~LiveThread(tlease'[b], t)
  BY <1>1, SameKept DEF Knows, ThreadSteps
<1>3. Kept(lease, lease', {t}) /\ \A k \in Key : ~Live(lease'[k], t)
  BY <1>1, ReleasedAllocationFacts DEF Knows, WorkspaceSteps, Shape
<1>4. Alike(thread, thread') /\ MovesKnown /\ moving' \in [Thread -> {"no", "archive", "unarchive"}]
  BY <1>1, SettleThreadFacts DEF Shape
<1> QED BY <1>1, <1>2, <1>3, <1>4, EndsKeeps DEF Shape

LEMMA WorkerKeeps == ASSUME IInv, UNCHANGED faults, NEW t \in Task, Worker(t) PROVE IInv'
BY TakeAllocationKeeps, TakeWorkspaceKeeps, RouteKeeps, YieldedKeeps, OpenKeeps, TurnEndsKeeps,
   CompleteKeeps, CleanKeeps, TidyKeeps DEF Worker


-----------------------------------------------------------------------------
\* The user, the operator, the archival, time and recovery

\* Steps that leave the workers and what they hold alone.
LEMMA Aside ==
  ASSUME IInv, Shape', UNCHANGED <<task, work>>, \A u \in Task : Undisturbed(u), NotLeasedAway
  PROVE  IInv'
BY Bystander, KeepsArchived DEF IInv

LEMMA SameRows ==
  ASSUME Shape, UNCHANGED <<lease, tlease>>
  PROVE  Kept(lease, lease', {}) /\ Kept(tlease, tlease', {}) /\ \A u \in Task : Undisturbed(u)
<1>1. Kept(lease, lease', {}) /\ Kept(tlease, tlease', {})
  BY SameKept
<1> QED BY <1>1, KeptIsUndisturbed

\* Steps on the rows of the leases alone
LEMMA RowsKeep ==
  ASSUME IInv, UNCHANGED <<task, work, moving>>, faults' \in 0..MaxFaults,
         Kept(lease, lease', {}), Kept(tlease, tlease', {}), Alike(thread, thread') \/ UNCHANGED thread
  PROVE  IInv'
<1>1. Shape
  BY DEF IInv
<1>2. Shape'
  BY <1>1 DEF Shape, Kept, Alike
<1> QED BY <1>1, <1>2, KeptIsUndisturbed, AlikeKeepsArchived, Aside

LEMMA ListKeeps == ASSUME IInv, UNCHANGED faults, List PROVE IInv'
BY ListedFacts, SameKept, RowsKeep DEF List, IInv, Shape

LEMMA StallKeeps == ASSUME IInv, faults' \in 0..MaxFaults, Stall PROVE IInv'
BY StalledFacts, RowsKeep DEF Stall, IInv, Shape

LEMMA ExpireThreadsKeeps == ASSUME IInv, UNCHANGED faults, ExpireThreads PROVE IInv'
BY LapsedFacts, SetIdleFacts, SameKept, RowsKeep DEF ExpireThreads, Recovered, IInv, Shape

LEMMA OperatorReleaseKeeps ==
  ASSUME IInv, faults' \in 0..MaxFaults, NEW k \in Key, OperatorRelease(k)
  PROVE  IInv'
<1> USE DEF OperatorRelease
<1>1. Shape
  BY DEF IInv
<1>2. \A u \in Task : ~Live(lease[k], u)
  BY DEF Live
<1>3. \A x \in Key : KeptRow(lease[x], lease'[x], {})
  BY <1>1, <1>2, FreeFacts, SameRow DEF KeptRow, Shape
<1>4. Kept(lease, lease', {})
  BY <1>1, <1>3, KeptRows DEF Shape
<1> QED BY <1>1, <1>4, SameKept, RowsKeep

\* A Task nobody works on, or whose claim does not change
LEMMA TaskKeeps ==
  ASSUME IInv, UNCHANGED <<lease, tlease, thread, work, moving>>, faults' \in 0..MaxFaults, NEW t \in Task,
         NEW r \in TaskRow, r.claimed = task[t].claimed, task' = [task EXCEPT ![t] = r]
  PROVE  IInv'
<1>1. Shape
  BY DEF IInv
<1>2. task' \in [Task -> TaskRow] /\ \A u \in Task : task'[u].claimed = task[u].claimed
  BY <1>1 DEF Shape
<1>3. Shape'
  BY <1>1, <1>2 DEF Shape
<1>4. (\A u \in Task : Undisturbed(u)) /\ NotLeasedAway
  BY <1>1, SameRows, AlikeKeepsArchived
<1> QED BY <1>2, <1>3, <1>4, Bystander, KeepsArchived DEF IInv

LEMMA RepairKeeps == ASSUME IInv, faults' \in 0..MaxFaults, NEW t \in Task, Repair(t) PROVE IInv'
<1> USE DEF Repair
<1> DEFINE r == [task[t] EXCEPT !.status = "queued"]
<1>1. task[t] \in TaskRow
  BY DEF IInv, Shape
<1>2. r \in TaskRow /\ r.claimed = task[t].claimed
  BY <1>1 DEF TaskRow, Claimables
<1>3. task' = [task EXCEPT ![t] = r]
  OBVIOUS
<1> HIDE DEF r
<1> QED BY <1>2, <1>3, TaskKeeps

LEMMA AgeKeeps == ASSUME IInv, UNCHANGED faults, NEW t \in Task, Age(t) PROVE IInv'
<1> USE DEF Age
<1> DEFINE r == [task[t] EXCEPT !.since = "old"]
<1>1. task[t] \in TaskRow /\ faults' \in 0..MaxFaults
  BY DEF IInv, Shape
<1>2. r \in TaskRow /\ r.claimed = task[t].claimed
  BY <1>1 DEF TaskRow
<1>3. task' = [task EXCEPT ![t] = r]
  OBVIOUS
<1> HIDE DEF r
<1> QED BY <1>1, <1>2, <1>3, TaskKeeps

LEMMA KeptTwice ==
  ASSUME NEW D, NEW rows \in [D -> GoodLease], NEW mid, NEW new, NEW S, Kept(rows, mid, {}), Kept(mid, new, S)
  PROVE  Kept(rows, new, S)
BY DEF Kept, KeptRow

\* A cancelled worker is still there, without its claim and without a lease.
LEMMA CancelKeeps == ASSUME IInv, faults' \in 0..MaxFaults, NEW t \in Task, Cancel(t) PROVE IInv'
<1> DEFINE own == {a \in Thread : tlease[a].status = "active" /\ tlease[a].owner = t}
<1>1. Shape /\ Knows(t)
  BY DEF IInv
<1>2. /\ task' = [task EXCEPT ![t].status = "canceled", ![t].claimed = FALSE]
      /\ lease' = CancelledRows(Listed(lease), t)
      /\ tlease' = [a \in Thread |-> IF a \in own THEN Free ELSE tlease[a]]
      /\ thread' = SetIdle(thread, own \cup ({task[t].agent} \ {NoThread}))
      /\ UNCHANGED <<work, moving>>
  BY DEF Cancel
<1>3. task' \in [Task -> TaskRow] /\ task'[t].claimed = FALSE /\ \A u \in Task \ {t} : task'[u] = task[u]
  <2>1. "canceled" \in TaskStatusSet /\ FALSE \in BOOLEAN
    BY DEF TaskStatusSet, TerminalStatus
  <2> QED BY <1>1, <1>2, <2>1, TaskTo DEF Shape
<1>4. Kept(lease, lease', {t}) /\ \A k \in Key : ~Live(lease'[k], t)
  <2>1. Kept(lease, Listed(lease), {})
    BY <1>1, ListedFacts DEF Shape
  <2>2. Listed(lease) \in [Key -> GoodLease]
    BY <1>1, <2>1 DEF Kept, Shape
  <2>3. Kept(Listed(lease), lease', {t}) /\ \A k \in Key : ~Live(lease'[k], t)
    BY <1>2, <2>2, CancelledRowsFacts
  <2> QED BY <1>1, <2>1, <2>3, KeptTwice DEF Shape
<1>5. Kept(tlease, tlease', {t}) /\ \A a \in Thread : ~LiveThread(tlease'[a], t)
  <2>1. \A a \in Thread : KeptRow(tlease[a], tlease'[a], {t}) /\ ~LiveThread(tlease'[a], t)
    BY <1>1, <1>2, FreedRow, FreeFacts, SameRow DEF Shape, LiveThread
  <2> QED BY <1>1, <1>2, <2>1, KeptRows DEF Shape
<1>6. Alike(thread, thread')
  BY <1>1, <1>2, SetIdleFacts DEF Shape
<1>7. Shape'
  BY <1>1, <1>2, <1>3, <1>4, <1>5, <1>6 DEF Shape, Kept, Alike
<1>8. Knows(t)'
  BY <1>1, <1>2, <1>3, <1>4, <1>5, KeyFacts DEF Knows, Owns
<1> QED BY <1>1, <1>2, <1>3, <1>4, <1>5, <1>6, <1>7, <1>8, KeptIsUndisturbed, AlikeKeepsArchived, WorkerStep

\* What the checks of an archival establish.
LEMMA MayArchiveFacts ==
  ASSUME Shape, NEW a \in Thread, MayArchive(a)
  PROVE  Lapsed[a].status # "active"
BY DEF MayArchive, Current, Lapsed, Overdue, Expire, Shape

LEMMA BeginArchiveKeeps ==
  ASSUME IInv, faults' \in 0..MaxFaults, NEW a \in Thread, BeginArchive(a)
  PROVE  IInv'
<1> USE DEF BeginArchive
<1>1. Shape
  BY DEF IInv
<1>2. Kept(tlease, tlease', {}) /\ Kept(lease, lease', {}) /\ Alike(thread, thread')
  BY <1>1, LapsedFacts, SetIdleFacts, SameKept DEF Recovered, Shape
<1>3. MovesKnown /\ moving' \in [Thread -> {"no", "archive", "unarchive"}]
  BY <1>1, <1>2 DEF MovesKnown, Alike, Shape
<1>4. Shape'
  BY <1>1, <1>2, <1>3 DEF Shape, Kept, Alike
<1> QED BY <1>1, <1>2, <1>3, <1>4, KeptIsUndisturbed, AlikeKeepsArchived, Aside

LEMMA FinishArchiveKeeps == ASSUME IInv, UNCHANGED faults, NEW a \in Thread, FinishArchive(a) PROVE IInv'
<1> USE DEF FinishArchive
<1>1. Shape /\ thread[a].known
  BY DEF IInv, MovingIsKnown
<1>2. MovesKnown /\ moving' \in [Thread -> {"no", "archive", "unarchive"}]
  BY <1>1 DEF MovesKnown, Shape
<1>3. Alike(thread, Recovered) /\ Kept(tlease, Lapsed, {}) /\ Kept(lease, lease', {}) /\ Kept(tlease, tlease', {})
  BY <1>1, LapsedFacts, SetIdleFacts, SameKept DEF Recovered, Shape
<1>4. \A u \in Task : Undisturbed(u)
  BY <1>1, <1>3, KeptIsUndisturbed
<1>5. CASE UNCHANGED thread \/ thread' = Recovered
  <2>1. Shape'
    BY <1>1, <1>2, <1>3, <1>5 DEF Shape, Kept, Alike
  <2> QED BY <1>1, <1>2, <1>3, <1>4, <1>5, <2>1, AlikeKeepsArchived, Aside
<1>6. CASE /\ tlease' = Lapsed /\ StillArchivable(a)
           /\ thread' = [Recovered EXCEPT ![a].archived = TRUE, ![a].life = "archived"]
  <2> DEFINE r == [[Recovered[a] EXCEPT !.archived = TRUE] EXCEPT !.life = "archived"]
  <2>1. Recovered \in [Thread -> GoodThread] /\ Recovered[a] \in ThreadRow /\ Recovered[a].known
    BY <1>1, <1>3 DEF Alike, GoodThread
  <2>2. [Recovered[a] EXCEPT !.archived = TRUE] \in ThreadRow /\ [Recovered[a] EXCEPT !.archived = TRUE].known
    BY <2>1 DEF ThreadRow
  <2>3. r \in GoodThread /\ r.known
    BY <2>2 DEF ThreadRow, GoodThread
  <2>4. thread' = [Recovered EXCEPT ![a] = r]
    BY <1>6
  <2> HIDE DEF r
  <2>5. /\ thread' \in [Thread -> GoodThread]
        /\ thread'[a].known /\ \A b \in Thread \ {a} : thread'[b] = Recovered[b]
    BY <2>1, <2>3, <2>4
  <2>6. tlease'[a].status # "active"
    BY <1>1, <1>6, MayArchiveFacts DEF StillArchivable
  <2>7. NotLeasedAway
    BY <1>1, <1>2, <1>3, <2>5, <2>6 DEF NotLeasedAway, Alike, Kept, KeptRow, Shape
  <2>8. Shape'
    BY <1>1, <1>2, <1>3, <2>5 DEF Shape, Kept
  <2> QED BY <1>4, <2>7, <2>8, Aside
<1> QED BY <1>5, <1>6

LEMMA BeginUnarchiveKeeps ==
  ASSUME IInv, faults' \in 0..MaxFaults, NEW a \in Thread, BeginUnarchive(a)
  PROVE  IInv'
<1> USE DEF BeginUnarchive
<1>1. Shape
  BY DEF IInv
<1>2. MovesKnown /\ moving' \in [Thread -> {"no", "archive", "unarchive"}]
  BY <1>1 DEF MovesKnown, Shape
<1>3. Shape'
  BY <1>1, <1>2 DEF Shape
<1> QED BY <1>1, <1>2, <1>3, SameRows, AlikeKeepsArchived, Aside

LEMMA FinishUnarchiveKeeps == ASSUME IInv, UNCHANGED faults, NEW a \in Thread, FinishUnarchive(a) PROVE IInv'
<1> USE DEF FinishUnarchive
<1>1. Shape
  BY DEF IInv
<1>2. MovesKnown /\ moving' \in [Thread -> {"no", "archive", "unarchive"}]
  BY <1>1 DEF MovesKnown, Shape
<1>3. \A u \in Task : Undisturbed(u)
  BY <1>1, SameRows
<1>4. CASE UNCHANGED thread
  <2>1. Shape'
    BY <1>1, <1>2, <1>4 DEF Shape
  <2> QED BY <1>1, <1>2, <1>3, <1>4, <2>1, SameRows, AlikeKeepsArchived, Aside
<1>5. CASE thread' = [thread EXCEPT ![a].archived = FALSE, ![a].life = "idle"]
  <2> DEFINE r == [[thread[a] EXCEPT !.archived = FALSE] EXCEPT !.life = "idle"]
  <2>1. thread[a] \in GoodThread
    BY <1>1 DEF Shape
  <2>2. /\ [thread[a] EXCEPT !.archived = FALSE] \in ThreadRow /\ ~[thread[a] EXCEPT !.archived = FALSE].archived
        /\ [thread[a] EXCEPT !.archived = FALSE].known <=> thread[a].known
        /\ [thread[a] EXCEPT !.archived = FALSE].ephemeral <=> thread[a].ephemeral
    BY <2>1 DEF ThreadRow, GoodThread
  <2>3. r \in GoodThread /\ ~r.archived /\ (r.known <=> thread[a].known)
    BY <2>1, <2>2 DEF ThreadRow, GoodThread
  <2>4. thread' = [thread EXCEPT ![a] = r]
    BY <1>5
  <2> HIDE DEF r
  <2>5. /\ thread' \in [Thread -> GoodThread] /\ ~thread'[a].archived
        /\ thread'[a].known <=> thread[a].known
        /\ \A b \in Thread \ {a} : thread'[b] = thread[b]
    BY <1>1, <2>3, <2>4 DEF Shape
  <2>6. NotLeasedAway
    BY <1>2, <2>5 DEF NotLeasedAway
  <2>7. Shape'
    BY <1>1, <1>2, <2>5 DEF Shape
  <2> QED BY <1>3, <2>6, <2>7, Aside
<1> QED BY <1>4, <1>5

LEMMA CrashKeeps == ASSUME IInv, faults' \in 0..MaxFaults, Crash PROVE IInv'
<1> USE DEF Crash
<1>1. Shape
  BY DEF IInv
<1>2. /\ Kept(lease, lease', Task) /\ \A u \in Task, k \in Key : ~Live(lease'[k], u)
      /\ Kept(tlease, tlease', Task) /\ \A u \in Task, a \in Thread : ~LiveThread(tlease'[a], u)
  BY <1>1, OrphanedFacts DEF Shape
<1>3. \A u \in Task : Knows(u)'
  BY <1>2, IdleFacts, IdleKnows
<1>4. Shape'
  BY <1>1, <1>2, IdleFacts DEF Shape, Kept
<1>5. NotLeasedAway
  <2>1. MovesKnown
    BY DEF MovesKnown
  <2> QED BY <1>1, <1>2, <2>1, AlikeKeepsArchived
<1> QED BY <1>3, <1>4, <1>5, KeepsArchived DEF IInv

LEMMA RecoverKeeps == ASSUME IInv, UNCHANGED faults, NEW t \in Task, Recover(t) PROVE IInv'
<1> USE DEF Recover
<1>1. Shape /\ Knows(t) /\ work[t].pc = "idle" /\ task[t].agent \in Thread \cup {NoThread}
  BY DEF IInv, Shape, TaskRow
<1>2. task' \in [Task -> TaskRow] /\ \A u \in Task \ {t} : task'[u] = task[u]
  <2>1. {"queued", "completed", "failed", "retry_waiting", "recovery_attention"} \subseteq TaskStatusSet
    BY DEF TaskStatusSet, TerminalStatus, Claimables
  <2>2. PICK s \in TaskStatusSet : task' = [task EXCEPT ![t].status = s, ![t].claimed = FALSE]
    BY <2>1
  <2> QED BY <1>1, <2>2, SettledTask
<1>3. \A k \in Key : ~Live(lease[k], t)
  BY <1>1 DEF Knows, AllocationSteps, WorkspaceSteps
<1>4. \A b \in Thread : ~LiveThread(tlease[b], t)
  BY <1>1 DEF Knows, ThreadSteps
<1>5. Kept(tlease, tlease', {t}) /\ (Alike(thread, thread') \/ UNCHANGED thread)
  <2>1. CASE UNCHANGED <<tlease, thread>>
    BY <1>1, <2>1, SameKept
  <2>2. CASE /\ task[t].agent # NoThread
             /\ tlease' = [tlease EXCEPT ![task[t].agent] = IF @.status = "active" /\ Of(@, t) THEN Free ELSE @]
             /\ thread' = SetIdle(thread, {task[t].agent})
    <3>1. ASSUME NEW b \in Thread PROVE KeptRow(tlease[b], tlease'[b], {t})
      <4>1. tlease[b] \in GoodLease /\ (tlease'[b] = tlease[b] \/ (tlease[b].owner = t /\ tlease'[b] = Free))
        BY <1>1, <2>2 DEF Of, Shape
      <4> QED BY <4>1, FreedRow, SameRow
    <3>2. tlease' = [b \in Thread |-> tlease'[b]] /\ DOMAIN tlease' = Thread /\ tlease \in [Thread -> GoodLease]
      BY <1>1, <2>2 DEF Shape
    <3>3. Kept(tlease, tlease', {t})
      BY <3>1, <3>2, KeptRows
    <3> QED BY <1>1, <2>2, <3>3, SetIdleFacts DEF Shape
  <2> QED BY <2>1, <2>2
<1>6. Knows(t)'
  BY <1>1, <1>3, <1>4, <1>5, IdleKnows DEF Kept, KeptRow, Shape
<1>7. Shape'
  BY <1>1, <1>2, <1>5 DEF Shape, Kept, Alike
<1>8. Kept(lease, lease', {t})
  BY <1>1, SameKept
<1> QED BY <1>1, <1>2, <1>5, <1>6, <1>7, <1>8, KeptIsUndisturbed, AlikeKeepsArchived, WorkerStep

-----------------------------------------------------------------------------
\* Theorems

LEMMA InitKeeps == Init => IInv
<1> SUFFICES ASSUME Init PROVE IInv
  OBVIOUS
<1> USE DEF Init
<1>1. /\ task \in [Task -> TaskRow] /\ work \in [Task -> WorkRow]
      /\ lease \in [Key -> GoodLease] /\ tlease \in [Thread -> GoodLease]
      /\ moving \in [Thread -> {"no", "archive", "unarchive"}] /\ faults \in 0..MaxFaults
  BY FreeFacts, IdleFacts, LeasesAssumption DEF TaskRow, Claimables
<1>2. \A a \in Thread : thread[a] \in GoodThread /\ ~thread[a].archived
  BY DEF GoodThread, ThreadRow
<1>3. thread \in [Thread -> GoodThread]
  BY <1>2
<1>4. \A t \in Task : Knows(t)
  BY FreeFacts, IdleFacts, KeyFacts DEF Knows, Owns
<1> QED BY <1>1, <1>2, <1>3, <1>4 DEF IInv, Shape, ArchivedIsUnleased, MovingIsKnown

LEMMA NextKeeps == IInv /\ [Next]_vars => IInv'
<1> SUFFICES ASSUME IInv, [Next]_vars PROVE IInv'
  OBVIOUS
<1>1. CASE Fault
  <2>1. faults' \in 0..MaxFaults
    BY <1>1, LeasesAssumption DEF Fault, IInv, Shape
  <2> QED BY <1>1, <2>1, StallKeeps, CrashKeeps, CancelKeeps, RepairKeeps, OperatorReleaseKeeps,
             BeginArchiveKeeps, BeginUnarchiveKeeps DEF Fault
<1>2. CASE Calm
  BY <1>2, ClaimKeeps, WorkerKeeps, AllocationBeatKeeps, BeatKeeps, AgeKeeps, RecoverKeeps,
     FinishArchiveKeeps, FinishUnarchiveKeeps, ListKeeps, ExpireThreadsKeeps DEF Calm
<1>3. CASE UNCHANGED vars
  <2>1. Shape /\ Shape'
    BY <1>3 DEF IInv, Shape, vars
  <2>2. (\A u \in Task : Undisturbed(u)) /\ NotLeasedAway
    BY <1>3, <2>1, SameRows, AlikeKeepsArchived DEF vars
  <2> QED BY <1>3, <2>1, <2>2, Aside DEF vars
<1> QED BY <1>1, <1>2, <1>3 DEF Next

LEMMA IInvHolds == Spec => []IInv
BY InitKeeps, NextKeeps, PTL DEF Spec

\* The tables, the leases and the workers have the values the code can give them.
THEOREM TypeCorrect == Spec => []TypeOK
<1>1. IInv => TypeOK
  <2>1. GoodLease \subseteq Lease /\ GoodThread \subseteq ThreadRow
    BY DEF GoodLease, GoodThread
  <2> QED BY <2>1 DEF IInv, Shape, TypeOK, TaskRow, ThreadRow, WorkRow
<1> QED BY <1>1, IInvHolds, PTL

\* Of the workers that own their claims one at a time selects a thread in the directory and
\* one at a time has a workspace (acquireLease, cancelTask).
THEOREM HoldersAreAlone == Spec => []RightfulHoldersAreAlone
<1>1. IInv => RightfulHoldersAreAlone
  BY DEF IInv, Knows, Live, RightfulHoldersAreAlone
<1> QED BY <1>1, IInvHolds, PTL

\* As long as the daemon lives, a lease names a worker that is still there (the finally of
\* #runTask, and every way to it).
THEOREM EndedHoldNothing == Spec => []EndedWorkerHoldsNothing
<1>1. IInv => EndedWorkerHoldsNothing
  <2> SUFFICES ASSUME IInv PROVE EndedWorkerHoldsNothing
    OBVIOUS
  <2>1. ASSUME NEW k \in Key, Held(lease[k]), lease[k].token = "live"
        PROVE  work[lease[k].owner].pc # "idle"
    <3>1. lease[k].owner \in Task /\ Live(lease[k], lease[k].owner)
      BY <2>1 DEF IInv, Shape, GoodLease, Live
    <3> QED BY <3>1 DEF IInv, Knows, AllocationSteps, WorkspaceSteps
  <2>2. ASSUME NEW a \in Thread, tlease[a].status = "active", tlease[a].token = "live"
        PROVE  work[tlease[a].owner].pc # "idle"
    <3>1. tlease[a].owner \in Task /\ LiveThread(tlease[a], tlease[a].owner)
      BY <2>2 DEF IInv, Shape, GoodLease, LiveThread, Held
    <3> QED BY <3>1 DEF IInv, Knows, ThreadSteps
  <2> QED BY <2>1, <2>2 DEF EndedWorkerHoldsNothing
<1> QED BY <1>1, IInvHolds, PTL

\* Where no Task names its thread itself, an archived thread is leased to nobody and its
\* lifecycle says so, however far the checks of archiveAgent are from the App Server's answer.
THEOREM ArchivedAreFree == ASSUME Unpinned PROVE Spec => []ArchivedIsFree
<1>1. IInv => ArchivedIsFree
  BY DEF IInv, Shape, GoodThread, ArchivedIsUnleased, ArchivedIsFree, Current
<1> QED BY <1>1, IInvHolds, PTL

=============================================================================
