-------------------------- MODULE RunEngine_proof --------------------------
(***************************************************************************)
(* What RunEngine guarantees for every number of runs, cap, attempt limit, *)
(* set of operator commands and number of crashes, stalls and messages.    *)
(*                                                                         *)
(* The inductive invariant is a condition Good on the row and the engine's *)
(* entries of each run by itself.  The part named Quiet only holds while   *)
(* no turn is interrupted: the follow-up of an interrupt may begin with a  *)
(* run that is queued, and put it back into the queue when it is aborted.  *)
(*                                                                         *)
(* Every operator that writes is given one lemma, which shows at once that *)
(* it keeps Good and that what it starts, it starts in order (Orderly), so *)
(* that the safety invariants and the action properties come from one pass *)
(* over the next-state relation.                                           *)
(***************************************************************************)
EXTENDS RunEngine, FiniteSetTheorems, TLAPS

Calm   == "interrupt" \notin OperatorOps
Unsent == "send" \notin OperatorOps

(* The statuses a follow-up may put its run back to.  Only a message of    *)
(* the operator begins with a cancelled run.                               *)
RestPoints == Terminal \cup {"paused", "none"}

Rests(t) ==
    /\ Calm => t.orig \in RestPoints
    /\ Unsent /\ t.orig = "cancelled" => t.pc = "disposing"

Quiet(d, m) ==
    /\ ~m.pendingInterrupt /\ ~m.interruptTimer
    /\ d.status \in {"absent", "queued"} => d.attempts < MaxAttempts
    /\ d.status = "needs_input" => d.ask

Good(d, m) ==
    /\ d \in DbRow /\ m \in MemRow
    /\ m.waiter # NoTask => d.ask
    /\ m.answerWaiter # NoTask => m.task[m.answerWaiter].pc = "answerWait"
    /\ \A s \in Slots : Rests(m.task[s])
    /\ Calm => Quiet(d, m)

GoodRows(D, M) ==
    /\ D \in [Runs -> DbRow] /\ M \in [Runs -> MemRow]
    /\ \A r \in Runs : Good(D[r], M[r])

IInv ==
    /\ GoodRows(db, mem)
    /\ up \in BOOLEAN
    /\ lost \subseteq TrackRuns
    /\ used \in [ops : 0..MaxOps, crashes : 0..MaxCrashes, stalls : 0..MaxStalls]

(* What the step starts is within the cap, in context, and, in a calm      *)
(* instance, first in, first out.                                          *)
Orderly ==
    \A r \in Runs : Begins(r) =>
        /\ Cardinality(Active(db')) <= Cap
        /\ r \notin lost
        /\ Calm => \A q \in Runs : q < r => db'[q].status # "queued"

(* What every write leaves behind. *)
Kept == GoodRows(db', mem') /\ Orderly

-----------------------------------------------------------------------------
(* Slots. *)
LEMMA NewSlotType == \A m : NewSlot(m) \in Slots
<1>1. 1 \in Slots
  BY SlotsAssumption DEF Slots
<1> TAKE m
<1>2. \E s \in Slots : FreeSlots(m) # {} => s \in FreeSlots(m)
  <2>1. CASE FreeSlots(m) = {}
    BY <1>1, <2>1
  <2>2. CASE FreeSlots(m) # {}
    BY <2>2 DEF FreeSlots
  <2> QED BY <2>1, <2>2
<1> QED BY <1>2 DEF NewSlot

(* A task that may go on: it does not wait for an answer, nor does it      *)
(* dispose of its session.                                                 *)
Live(m, s) == m.answerWaiter # s /\ m.task[s].pc # "disposing"

LEMMA IsLive ==
    ASSUME NEW d, NEW m, Good(d, m), NEW s \in Slots,
           m.task[s].pc \notin {"answerWait", "disposing"}
    PROVE  Live(m, s)
BY SlotsAssumption DEF Live, Good, Slots, NoTask

LEMMA NewSlotFree ==
    ASSUME NEW d, NEW m, Good(d, m), FreeSlots(m) # {}
    PROVE  m.answerWaiter # NewSlot(m)
<1>1. NewSlot(m) \in FreeSlots(m)
  <2>1. \E s \in Slots : FreeSlots(m) # {} => s \in FreeSlots(m)
    BY DEF FreeSlots
  <2> QED BY <2>1 DEF NewSlot
<1>2. m.task[NewSlot(m)].pc = "idle" /\ NewSlot(m) \in Slots
  BY <1>1 DEF FreeSlots
<1> QED BY <1>2, IsLive DEF Live

LEMMA RoomIsFree == \A m : Room(m) => FreeSlots(m) # {}
BY FS_EmptySet DEF Room

LEMMA SlotTypes == /\ NoTask \in 0..NumSlots /\ NoTask \in 0..(NumSlots + 1)
                   /\ Slots \subseteq 0..NumSlots
                   /\ Slots \subseteq 0..(NumSlots + 1)
                   /\ McpWaiter \in 0..(NumSlots + 1)
BY SlotsAssumption DEF NoTask, Slots, McpWaiter

LEMMA GoodRelease ==
    ASSUME NEW d, NEW m, Good(d, m)
    PROVE  Good(d, Release(m))
BY SlotTypes DEF Good, Quiet, Release, MemRow

LEMMA GoodAbort ==
    ASSUME NEW d, NEW m, Good(d, m)
    PROVE  Good(d, AbortInFlight(m))
BY SlotTypes DEF Good, Quiet, AbortInFlight, MemRow, Slots, NoTask

LEMMA GoodTask ==
    ASSUME NEW d, NEW m, Good(d, m), NEW s \in Slots, NEW t \in Task,
           m.answerWaiter # s, Rests(t)
    PROVE  Good(d, [m EXCEPT !.task[s] = t])
<1>1. m.task \in [Slots -> Task]
  BY DEF Good, MemRow
<1>2. [m EXCEPT !.task[s] = t] \in MemRow
  BY DEF Good, MemRow
<1>3. \A x \in Slots : Rests([m EXCEPT !.task[s] = t].task[x])
  BY <1>1 DEF Good, MemRow
<1> QED BY <1>2, <1>3 DEF Good, Quiet, MemRow

LEMMA GoodTo ==
    ASSUME NEW d, NEW m, Good(d, m), NEW s \in Slots, NEW pc \in Pcs, Live(m, s)
    PROVE  Good(d, To(m, s, pc))
<1>1. m \in MemRow /\ m.task \in [Slots -> Task]
  BY DEF Good, MemRow
<1> DEFINE t == [m.task[s] EXCEPT !.pc = pc]
<1>2. t \in Task /\ t.orig = m.task[s].orig
  BY <1>1 DEF Task
<1>3. Rests(t)
  BY <1>2 DEF Good, Rests, Live
<1>4. Good(d, [m EXCEPT !.task[s] = t])
  <2> HIDE DEF t
  <2> QED BY <1>2, <1>3, GoodTask DEF Live
<1>5. To(m, s, pc) = [m EXCEPT !.task[s] = t]
  BY <1>1 DEF To, MemRow
<1> QED BY <1>4, <1>5

LEMMA GoodEnded ==
    ASSUME NEW d, NEW m, Good(d, m), NEW s \in Slots, m.answerWaiter # s
    PROVE  Good(d, Ended(m, s))
<1>1. Idle \in Task /\ Rests(Idle)
  BY SlotTypes DEF Idle, Task, Pcs, Kinds, RestPoints, Rests
<1>2. Good(d, [m EXCEPT !.task[s] = Idle])
  BY <1>1, GoodTask
<1>3. PICK A \in SUBSET Slots :
        Ended(m, s) = [[m EXCEPT !.task[s] = Idle] EXCEPT !.aborted = A]
  BY DEF Ended, Good, MemRow
<1> QED BY <1>2, <1>3 DEF Good, Quiet, MemRow

LEMMA GoodDisposing ==
    ASSUME NEW d, NEW m, Good(d, m), NEW s \in Slots, m.answerWaiter # s,
           NEW status \in Terminal \cup {"paused"}
    PROVE  Good(d, Disposing(m, s, status))
<1> DEFINE t == [m.task[s] EXCEPT !.pc = "disposing", !.orig = status, !.sig = NoTask]
<1>1. m.task[s] \in Task
  BY DEF Good, MemRow
<1>2. t \in Task /\ Rests(t)
  BY <1>1, SlotTypes DEF Task, Pcs, Statuses, Terminal, RestPoints, Rests
<1> QED BY <1>2, GoodTask DEF Disposing

LEMMA GoodNewTask ==
    ASSUME NEW d, NEW m, Good(d, m), NEW pc \in Pcs, NEW kind \in Kinds,
           NEW orig \in Statuses \cup {"none"}, Calm => orig \in RestPoints,
           Unsent => orig # "cancelled", FreeSlots(m) # {}
    PROVE  Good(d, NewTask(m, pc, kind, orig))
<1> DEFINE s == NewSlot(m)
           t == [pc |-> pc, kind |-> kind, orig |-> orig, sig |-> s]
           n == [m EXCEPT !.inFlight = s, !.aborted = @ \ {s}]
<1>1. s \in Slots
  BY NewSlotType
<1>2. Good(d, n)
  BY <1>1, SlotTypes DEF Good, Quiet, MemRow
<1>3. t \in Task /\ Rests(t)
  BY <1>1, SlotTypes DEF Task, Rests
<1>4. Good(d, [n EXCEPT !.task[s] = t])
  <2>1. n.answerWaiter # s
    BY NewSlotFree DEF Good, MemRow
  <2> HIDE DEF n, t
  <2> QED BY <1>1, <1>2, <1>3, <2>1, GoodTask
<1>5. NewTask(m, pc, kind, orig) = [n EXCEPT !.task[s] = t]
  BY DEF NewTask, Good, MemRow
<1> QED BY <1>4, <1>5

-----------------------------------------------------------------------------
(* Rows. *)
LEMMA AllowedStatuses == \A x \in Holding : Allowed[x] \subseteq Statuses
BY DEF Holding, Allowed, Statuses

LEMMA GoodFail ==
    ASSUME NEW d, NEW m, Good(d, m)
    PROVE  Good(Fail(d), m) /\ Fail(d).attempts = d.attempts
BY DEF Good, Quiet, Fail, DbRow, Statuses, Holding

LEMMA GoodRecover ==
    ASSUME NEW d, NEW m, Good(d, m)
    PROVE  Good(RecoverRow(d), m) /\ RecoverRow(d).attempts = d.attempts
BY AttemptsAssumption DEF Good, Quiet, RecoverRow, DbRow, Statuses

LEMMA GoodRestore ==
    ASSUME NEW d, NEW m, Good(d, m), NEW s \in Slots
    PROVE  /\ Good(Restore(d, m.task[s].orig), m)
           /\ Restore(d, m.task[s].orig).attempts = d.attempts
<1> DEFINE orig == m.task[s].orig
<1>1. CASE d.status \in Holding /\ CanTransition(d.status, orig)
  <2>1. orig \in Statuses
    BY <1>1, AllowedStatuses DEF CanTransition
  <2>2. Calm => orig \in Terminal \cup {"paused"}
    BY <2>1 DEF Good, Rests, RestPoints, Statuses
  <2>3. Restore(d, orig) = [d EXCEPT !.status = orig]
    BY <1>1 DEF Restore
  <2> HIDE DEF orig
  <2> QED BY <2>1, <2>2, <2>3 DEF Good, Quiet, DbRow, Terminal, orig
<1>2. CASE ~(d.status \in Holding /\ CanTransition(d.status, orig))
  BY <1>2 DEF Restore
<1> QED BY <1>1, <1>2

LEMMA GoodBegin ==
    ASSUME NEW d, NEW m, Good(d, m), d.status = "queued", FreeSlots(m) # {}
    PROVE  Good(BeginRow(d), BeginMem(m)) /\ BeginRow(d).status = "running"
<1>1. d \in DbRow /\ d.attempts + 1 \in Nat
  BY DEF Good, DbRow
<1>2. BeginRow(d) \in DbRow
  BY <1>1 DEF BeginRow, DbRow, Statuses
<1>3. BeginRow(d).status = "running" /\ BeginRow(d).ask = d.ask
  BY <1>1 DEF BeginRow, DbRow
<1>4. Good(BeginRow(d), m)
  BY <1>2, <1>3 DEF Good, Quiet
<1>5. "spawning" \in Pcs /\ "fresh" \in Kinds /\ "none" \in RestPoints
  BY DEF Pcs, Kinds, ExecKinds, RestPoints
<1> QED BY <1>3, <1>4, <1>5, GoodNewTask DEF BeginMem

-----------------------------------------------------------------------------
(* The pump: what it starts is within the cap and in order. *)
AfterPump(S, D) == [r \in Runs |-> IF r \in S THEN BeginRow(D[r]) ELSE D[r]]

LEMMA RunsFinite == \A S \in SUBSET Runs : IsFiniteSet(S) /\ Cardinality(S) \in Nat
<1>1. IsFiniteSet(Runs)
  BY FS_Interval, RunsAssumption DEF Runs
<1> QED BY <1>1, FS_Subset, FS_CardinalityType

LEMMA DisjointUnion ==
    ASSUME NEW S, NEW T, IsFiniteSet(S), IsFiniteSet(T), S \cap T = {}
    PROVE  Cardinality(S \cup T) = Cardinality(S) + Cardinality(T)
<1>1. Cardinality(S) \in Nat /\ Cardinality(T) \in Nat
  BY FS_CardinalityType
<1>2. Cardinality(S \cup T) = Cardinality(S) + Cardinality(T) - Cardinality(S \cap T)
  BY FS_Union
<1>3. Cardinality(S \cap T) = 0
  BY FS_EmptySet
<1> QED BY <1>1, <1>2, <1>3

LEMMA StartOrderly ==
    ASSUME NEW D \in [Runs -> DbRow], NEW S, NEW ctx, PumpStarts(S, D, ctx),
           ctx \cap lost = {},
           \A r \in Runs : D[r].attempts <= db[r].attempts /\ db[r].attempts \in Nat,
           db' = AfterPump(S, D)
    PROVE  Orderly
<1> SUFFICES ASSUME NEW r \in Runs, Begins(r)
             PROVE  /\ Cardinality(Active(db')) <= Cap
                    /\ r \notin lost
                    /\ \A q \in Runs : q < r => db'[q].status # "queued"
  BY DEF Orderly
<1>1. r \in S
  BY DEF Begins, AfterPump, DbRow
<1>2. S \subseteq Runs /\ S \subseteq Queued(D) /\ S \subseteq ctx
  BY DEF PumpStarts, Queued
<1>3. Active(db') = S \cup Active(D)
  BY <1>2 DEF Active, AfterPump, BeginRow, Holding, DbRow
<1>4. S \cap Active(D) = {}
  BY <1>2 DEF Active, Queued, Holding
<1>5. Cardinality(Active(db')) = Cardinality(S) + Cardinality(Active(D))
  <2>1. Active(D) \subseteq Runs
    BY DEF Active
  <2>2. IsFiniteSet(S) /\ IsFiniteSet(Active(D))
    BY <1>2, <2>1, RunsFinite
  <2>3. Cardinality(S \cup Active(D)) = Cardinality(S) + Cardinality(Active(D))
    BY <1>4, <2>2, DisjointUnion
  <2> QED BY <1>3, <2>3
<1>6. Cardinality(Active(db')) <= Cap
  BY <1>1, <1>5 DEF PumpStarts
<1>7. ASSUME NEW q \in Runs, q < r PROVE db'[q].status # "queued"
  <2>1. CASE q \in S
    BY <2>1, <1>2 DEF AfterPump, BeginRow, DbRow
  <2>2. CASE q \notin S
    <3>1. db'[q] = D[q]
      BY <2>2 DEF AfterPump
    <3>2. q \in Queued(D) => r < q
      BY <1>1, <2>2 DEF PumpStarts
    <3> QED BY <1>7, <3>1, <3>2, RunsAssumption DEF Queued, Runs
  <2> QED BY <2>1, <2>2
<1> QED BY <1>1, <1>2, <1>6, <1>7

LEMMA PumpKept ==
    ASSUME NEW D, NEW M, GoodRows(D, M), Pump(D, M), lost \subseteq TrackRuns, GoodRows(db, mem),
           \A r \in Runs : D[r].attempts <= db[r].attempts
    PROVE  Kept
<1>1. PICK S \in SUBSET Runs :
        /\ PumpStarts(S, D, Context) /\ HaveSlots(S, M)
        /\ db' = [r \in Runs |-> IF r \in S THEN BeginRow(D[r]) ELSE D[r]]
        /\ mem' = [r \in Runs |-> IF r \in S THEN BeginMem(M[r]) ELSE M[r]]
  BY DEF Pump
<1>2. \A r \in Runs : Good(db'[r], mem'[r])
  BY <1>1, GoodBegin DEF GoodRows, PumpStarts, Queued, HaveSlots
<1>3. Orderly
  <2>1. \A r \in Runs : db[r].attempts \in Nat
    BY DEF GoodRows, DbRow
  <2> QED BY <1>1, <2>1, StartOrderly DEF GoodRows, Context, AfterPump
<1>4. db' \in [Runs -> DbRow] /\ mem' \in [Runs -> MemRow]
  BY <1>1, <1>2 DEF Good
<1> QED BY <1>2, <1>3, <1>4 DEF Kept, GoodRows

LEMMA WriteKept ==
    ASSUME NEW r \in Runs, NEW d, NEW m, GoodRows(db, mem), Good(d, m),
           d.attempts <= db[r].attempts, Write(r, d, m)
    PROVE  Kept
<1>1. GoodRows(db', mem')
  BY DEF Write, GoodRows, Good
<1>2. Orderly
  BY DEF Orderly, Begins, Write, GoodRows, Good, DbRow
<1> QED BY <1>1, <1>2 DEF Kept

LEMMA WriteAndPumpKept ==
    ASSUME NEW r \in Runs, NEW d, NEW m, GoodRows(db, mem), Good(d, m),
           d.attempts <= db[r].attempts, WriteAndPump(r, d, m), lost \subseteq TrackRuns
    PROVE  Kept
<1> DEFINE D == [db EXCEPT ![r] = d]
           M == [mem EXCEPT ![r] = m]
<1>1. GoodRows(D, M)
  BY DEF GoodRows, Good
<1>2. \A q \in Runs : D[q].attempts <= db[q].attempts
  BY DEF GoodRows, DbRow
<1>3. Pump(D, M)
  BY DEF WriteAndPump
<1> HIDE DEF D, M
<1> QED BY <1>1, <1>2, <1>3, PumpKept

-----------------------------------------------------------------------------
(* The ends of tasks.  Ready: the row d and the entries m may be written   *)
(* for the run r.                                                          *)
Ready(r, d, m) ==
    /\ r \in Runs /\ GoodRows(db, mem) /\ lost \subseteq TrackRuns
    /\ Good(d, m)
    /\ d.attempts <= db[r].attempts

LEMMA ReadyWrite ==
    ASSUME NEW r, NEW d, NEW m, Ready(r, d, m), Write(r, d, m)
    PROVE  Kept
BY WriteKept DEF Ready

LEMMA ReadyWriteAndPump ==
    ASSUME NEW r, NEW d, NEW m, Ready(r, d, m), WriteAndPump(r, d, m)
    PROVE  Kept
BY WriteAndPumpKept DEF Ready

LEMMA SettleKept ==
    ASSUME NEW r, NEW d, NEW m, NEW terminal, Ready(r, d, m), Settle(r, d, m, terminal)
    PROVE  Kept
<1>1. CASE /\ m.pendingInterrupt
           /\ WriteAndPump(r, d, [m EXCEPT !.pendingInterrupt = FALSE,
                                           !.interruptTimer = TRUE])
  <2>1. Good(d, [m EXCEPT !.pendingInterrupt = FALSE, !.interruptTimer = TRUE])
    BY <1>1 DEF Ready, Good, Quiet, MemRow
  <2> QED BY <1>1, <2>1, ReadyWriteAndPump DEF Ready
<1>2. CASE \E n \in {d.attempts} \cup (IF TailPrunes THEN {0} ELSE {}) :
             WriteAndPump(r, [d EXCEPT !.attempts = n],
                          [m EXCEPT !.deliverTimer = @ \/ d.status # "cancelled"])
  <2>1. PICK n \in {d.attempts} \cup (IF TailPrunes THEN {0} ELSE {}) :
             WriteAndPump(r, [d EXCEPT !.attempts = n],
                          [m EXCEPT !.deliverTimer = @ \/ d.status # "cancelled"])
    BY <1>2
  <2> DEFINE e == [d EXCEPT !.attempts = n]
             k == [m EXCEPT !.deliverTimer = @ \/ d.status # "cancelled"]
  <2>2. d.attempts \in Nat /\ db[r].attempts \in Nat /\ n \in {d.attempts, 0}
    BY DEF Ready, Good, GoodRows, DbRow
  <2>3. Good(e, m) /\ e.attempts = n
    BY <2>2, AttemptsAssumption DEF Ready, Good, Quiet, DbRow
  <2>4. Good(e, k)
    BY <2>3 DEF Good, Quiet, MemRow
  <2>5. Ready(r, e, k)
    BY <2>2, <2>3, <2>4 DEF Ready
  <2> QED BY <2>1, <2>5, ReadyWriteAndPump
<1>3. CASE Write(r, d, m)
  BY <1>3, ReadyWrite
<1> QED BY <1>1, <1>2, <1>3 DEF Settle

LEMMA GoodRetained ==
    ASSUME NEW d, NEW m, Good(d, m)
    PROVE  /\ Good(d, [m EXCEPT !.retained = TRUE])
           /\ [m EXCEPT !.retained = TRUE].answerWaiter = m.answerWaiter
<1> DEFINE k == [m EXCEPT !.retained = TRUE]
<1>1. k \in MemRow /\ k.task = m.task /\ k.waiter = m.waiter /\ k.answerWaiter = m.answerWaiter
      /\ k.pendingInterrupt = m.pendingInterrupt /\ k.interruptTimer = m.interruptTimer
  BY DEF Good, MemRow
<1> HIDE DEF k
<1>2. Good(d, k)
  BY <1>1 DEF Good, Quiet
<1> QED BY <1>1, <1>2 DEF k

(* The finally blocks forget the handle and the controller of the run.     *)
LEMMA Released ==
    ASSUME NEW d, NEW m, Good(d, m), NEW s, m.answerWaiter # s
    PROVE  Good(d, Release(m)) /\ Release(m).answerWaiter # s
<1>1. Release(m).answerWaiter = m.answerWaiter
  BY DEF Release, Good, MemRow
<1> QED BY <1>1, GoodRelease

LEMMA ExecFinallyKept ==
    ASSUME NEW r, NEW s \in Slots, NEW d, NEW m, NEW active, Ready(r, d, m), Live(m, s),
           ExecFinally(r, s, d, m, active)
    PROVE  Kept
<1> DEFINE m1 == Release(m)
           k == Ended([m1 EXCEPT !.retained = TRUE], s)
<1>0. Good(d, m1) /\ m1.answerWaiter # s
  BY Released DEF Ready, Live
<1>1. Good(d, m1) /\ Good(d, Ended(m1, s)) /\ Good(d, k)
  <2>1. Good(d, [m1 EXCEPT !.retained = TRUE]) /\ [m1 EXCEPT !.retained = TRUE].answerWaiter # s
    BY <1>0, GoodRetained
  <2> QED BY <1>0, <2>1, GoodEnded
<1>2. Ready(r, d, Ended(m1, s)) /\ Ready(r, d, k)
  BY <1>1 DEF Ready
<1>3. CASE Settle(r, d, k, d.status \in Terminal)
  BY <1>2, <1>3, SettleKept
<1>4. CASE /\ d.status \in Terminal \cup {"paused"}
           /\ Write(r, d, Disposing(m1, s, d.status))
  <2>1. Ready(r, d, Disposing(m1, s, d.status))
    BY <1>0, <1>4, GoodDisposing DEF Ready
  <2> QED BY <1>4, <2>1, ReadyWrite
<1>5. CASE Settle(r, d, Ended(m1, s), d.status \in Terminal)
  BY <1>2, <1>5, SettleKept
<1> QED BY <1>3, <1>4, <1>5 DEF ExecFinally

LEMMA CleanupKept ==
    ASSUME NEW r, NEW s \in Slots, NEW d, NEW m, NEW active, NEW always,
           Ready(r, d, m), Live(m, s), Cleanup(r, s, d, m, active, always)
    PROVE  Kept
<1> DEFINE m1 == IF always \/ d.status \in Terminal \cup {"paused"} THEN Release(m) ELSE m
           k == Ended([m1 EXCEPT !.retained = TRUE], s)
<1>1. Good(d, m1) /\ m1.answerWaiter # s
  BY Released DEF Ready, Live
<1>2. Good(d, Ended(m1, s)) /\ Good(d, k)
  <2>1. Good(d, [m1 EXCEPT !.retained = TRUE]) /\ [m1 EXCEPT !.retained = TRUE].answerWaiter # s
    BY <1>1, GoodRetained
  <2> QED BY <1>1, <2>1, GoodEnded
<1>3. Ready(r, d, Ended(m1, s)) /\ Ready(r, d, k)
  BY <1>2 DEF Ready
<1>4. CASE Settle(r, d, k, d.status \in Terminal)
  BY <1>3, <1>4, SettleKept
<1>5. CASE /\ d.status \in Terminal \cup {"paused"}
           /\ Write(r, d, Disposing(m, s, d.status))
  <2>1. Ready(r, d, Disposing(m, s, d.status))
    BY <1>5, GoodDisposing DEF Ready, Live
  <2> QED BY <1>5, <2>1, ReadyWrite
<1>6. CASE Settle(r, d, Ended(m1, s), d.status \in Terminal)
  BY <1>3, <1>6, SettleKept
<1> QED BY <1>4, <1>5, <1>6 DEF Cleanup

LEMMA ReturnKept ==
    ASSUME NEW r, NEW s \in Slots, NEW d, NEW m, Ready(r, d, m), Live(m, s),
           Return(r, s, d, m)
    PROVE  Kept
BY ExecFinallyKept, CleanupKept DEF Return

LEMMA ReadyRows ==
    ASSUME NEW r, NEW s \in Slots, NEW d, NEW m, Ready(r, d, m)
    PROVE  /\ Ready(r, Fail(d), m)
           /\ Ready(r, Restore(d, m.task[s].orig), m)
BY GoodFail, GoodRestore DEF Ready

LEMMA ExecThrowsKept ==
    ASSUME NEW r, NEW s \in Slots, NEW d, NEW m, NEW active, Ready(r, d, m), Live(m, s),
           ExecThrows(r, s, d, m, active)
    PROVE  Kept
<1> DEFINE e == IF s \in m.aborted THEN d ELSE Fail(d)
<1>1. Ready(r, e, m)
  BY ReadyRows
<1>2. ExecFinally(r, s, e, m, active)
  BY DEF ExecThrows
<1> HIDE DEF e
<1> QED BY <1>1, <1>2, ExecFinallyKept

LEMMA FollowThrowsKept ==
    ASSUME NEW r, NEW s \in Slots, NEW d, NEW m, NEW active, Ready(r, d, m), Live(m, s),
           FollowThrows(r, s, d, m, active)
    PROVE  Kept
<1>1. CASE Cleanup(r, s, Restore(d, m.task[s].orig), m, active, TRUE)
  <2> DEFINE e == Restore(d, m.task[s].orig)
  <2>1. Ready(r, e, m) /\ Cleanup(r, s, e, m, active, TRUE)
    BY <1>1, ReadyRows
  <2> HIDE DEF e
  <2> QED BY <2>1, CleanupKept
<1>2. CASE Cleanup(r, s, Fail(d), m, active, TRUE)
  BY <1>2, ReadyRows, CleanupKept
<1>3. CASE Write(r, d, [m EXCEPT !.task[s].pc = "reviving"])
  <2>1. Good(d, To(m, s, "reviving"))
    BY GoodTo DEF Ready, Pcs
  <2> QED BY <1>3, <2>1, ReadyWrite DEF Ready, To
<1> QED BY <1>1, <1>2, <1>3 DEF FollowThrows

LEMMA ReviveThrowsKept ==
    ASSUME NEW r, NEW s \in Slots, NEW d, NEW m, Ready(r, d, m), Live(m, s),
           ReviveThrows(r, s, d, m)
    PROVE  Kept
<1>1. Ready(r, IF s \in m.aborted THEN Restore(d, m.task[s].orig) ELSE Fail(d), m)
  BY ReadyRows
<1> QED BY <1>1, CleanupKept DEF ReviveThrows

LEMMA FallbackKept ==
    ASSUME NEW r, NEW s \in Slots, NEW d, NEW m, Ready(r, d, m), Live(m, s),
           Fallback(r, s, d, m)
    PROVE  Kept
<1>1. Good(d, To(m, s, "fallback"))
  BY GoodTo DEF Ready, Pcs
<1>2. Good(d, [m EXCEPT !.task[s].pc = "fallback", !.handle = FALSE])
  BY <1>1 DEF To, Good, Quiet, MemRow
<1> QED BY <1>2, ReadyWrite DEF Ready, Fallback

LEMMA ThrowKept ==
    ASSUME NEW r, NEW s \in Slots, NEW d, NEW m, Ready(r, d, m), Live(m, s),
           Throw(r, s, d, m)
    PROVE  Kept
<1>1. Ready(r, Fail(d), m)
  BY ReadyRows
<1> QED BY <1>1, ExecThrowsKept, FollowThrowsKept, ReviveThrowsKept, CleanupKept,
           FallbackKept DEF Throw

-----------------------------------------------------------------------------
(* The operator and the triggers. *)
LEMMA Now ==
    ASSUME IInv, NEW r \in Runs
    PROVE  Ready(r, db[r], mem[r])
BY DEF IInv, Ready, GoodRows, Good, DbRow

LEMMA GoodStatus ==
    ASSUME NEW d, NEW m, Good(d, m), NEW st \in Statuses \ {"queued", "needs_input"}
    PROVE  /\ Good([d EXCEPT !.status = st], m)
           /\ [d EXCEPT !.status = st].attempts = d.attempts
<1> DEFINE e == [d EXCEPT !.status = st]
<1>1. e \in DbRow /\ e.status = st /\ e.attempts = d.attempts /\ e.ask = d.ask
  BY DEF Good, DbRow
<1>2. st \notin {"absent", "queued", "needs_input"}
  BY DEF Statuses
<1> HIDE DEF e
<1>3. Good(e, m)
  BY <1>1, <1>2 DEF Good, Quiet
<1> QED BY <1>1, <1>3 DEF e

LEMMA GoodNoAsk ==
    ASSUME NEW d, NEW m, Good(d, m), Calm => d.status # "needs_input"
    PROVE  Good(NoAsk(d), NoWaiter(m)) /\ NoAsk(d).attempts = d.attempts
BY SlotTypes DEF Good, Quiet, DbRow, MemRow, NoAsk, NoWaiter

LEMMA TriggerKept ==
    ASSUME IInv, NEW r \in Runs, Trigger(r)
    PROVE  Kept
<1> DEFINE d == [db[r] EXCEPT !.status = "queued"]
<1>1. Ready(r, db[r], mem[r])
  BY Now
<1>2. Ready(r, d, mem[r])
  BY <1>1 DEF Trigger, Ready, Good, Quiet, DbRow, Statuses
<1> QED BY <1>2, ReadyWriteAndPump DEF Trigger

LEMMA CancelKept ==
    ASSUME IInv, NEW r \in Runs, Cancel(r)
    PROVE  Kept
<1> DEFINE d == [db[r] EXCEPT !.status = "cancelled", !.msgs = 0]
           m == [AbortInFlight(NoWaiter(mem[r])) EXCEPT !.pendingInterrupt = FALSE]
<1>1. Ready(r, db[r], mem[r])
  BY Now
<1>2. Good(d, mem[r]) /\ d.status = "cancelled" /\ d.attempts = db[r].attempts
  <2>1. db[r] \in DbRow
    BY <1>1 DEF Ready, Good
  <2>2. d \in DbRow
    <3>1. 0 \in 0..MaxMsgs /\ "cancelled" \in Statuses \cup {"absent"}
      BY BoundAssumption DEF Statuses
    <3> QED BY <2>1, <3>1 DEF DbRow
  <2>3. d.status = "cancelled" /\ d.attempts = db[r].attempts /\ d.ask = db[r].ask
    BY <2>1 DEF DbRow
  <2> QED BY <1>1, <2>2, <2>3 DEF Ready, Good, Quiet
<1>3. CASE Write(r, d, mem[r])
  BY <1>1, <1>2, <1>3, ReadyWrite DEF Ready
<1>4. CASE Write(r, NoAsk(d), m)
  <2>1. Good(NoAsk(d), AbortInFlight(NoWaiter(mem[r]))) /\ NoAsk(d).attempts = d.attempts
    BY <1>2, GoodNoAsk, GoodAbort
  <2>2. Good(NoAsk(d), m)
    BY <2>1 DEF Good, Quiet, MemRow
  <2> QED BY <1>1, <1>2, <1>4, <2>1, <2>2, ReadyWrite DEF Ready
<1> QED BY <1>3, <1>4 DEF Cancel

LEMMA PauseKept ==
    ASSUME IInv, NEW r \in Runs, Pause(r)
    PROVE  Kept
<1> DEFINE d == [db[r] EXCEPT !.status = "paused"]
           m == [AbortInFlight(NoWaiter(mem[r])) EXCEPT !.pendingInterrupt = FALSE]
<1>1. Ready(r, db[r], mem[r])
  BY Now
<1>2. Good(d, mem[r]) /\ d.status = "paused" /\ d.attempts = db[r].attempts
  BY <1>1 DEF Ready, Good, Quiet, DbRow, Statuses
<1>3. Good(NoAsk(d), AbortInFlight(NoWaiter(mem[r]))) /\ NoAsk(d).attempts = d.attempts
  BY <1>2, GoodNoAsk, GoodAbort
<1>4. Good(NoAsk(d), m)
  BY <1>3 DEF Good, Quiet, MemRow
<1>5. Write(r, NoAsk(d), m)
  BY DEF Pause
<1> QED BY <1>1, <1>2, <1>3, <1>4, <1>5, ReadyWrite DEF Ready

LEMMA FollowUpKept ==
    ASSUME NEW r, NEW m, NEW d, NEW keepPaused, Ready(r, d, m), d.status \in Statuses,
           Calm => d.status \in RestPoints, Unsent => d.status # "cancelled", Room(m),
           FollowUp(r, m, d, keepPaused)
    PROVE  Kept
<1> DEFINE pc == IF m.retained THEN "sending" ELSE "resuming"
           kind == IF m.retained THEN "retained" ELSE "follow"
           k == NewTask(m, pc, kind, d.status)
           f == FollowUpMem(m, d.status)
           e == FollowUpRow(d, keepPaused)
<1>1. pc \in Pcs /\ kind \in Kinds
  BY DEF Pcs, Kinds
<1>2. Good(d, k)
  BY <1>1, RoomIsFree, GoodNewTask DEF Ready
<1>3. f = [k EXCEPT !.retained = FALSE, !.handle = @ \/ m.retained]
  BY DEF FollowUpMem
<1>4. Good(d, f)
  <2> HIDE DEF k, f
  <2> QED BY <1>2, <1>3 DEF Good, Quiet, MemRow
<1>5. Good(e, f) /\ e.attempts = d.attempts
  <2> HIDE DEF f
  <2> QED BY <1>4, GoodStatus DEF FollowUpRow, Statuses
<1>6. Ready(r, e, f) /\ Write(r, e, f)
  BY <1>5 DEF Ready, FollowUp
<1> QED BY <1>6, ReadyWrite

LEMMA ResumeKept ==
    ASSUME IInv, NEW r \in Runs, Resume(r)
    PROVE  Kept
BY Now, FollowUpKept DEF Resume, CanFollowUp, Statuses, RestPoints

LEMMA SendKept ==
    ASSUME IInv, NEW r \in Runs, Send(r)
    PROVE  Kept
<1>1. db[r].status \in Statuses /\ db[r].status \in RestPoints
  BY DEF Send, Statuses, Terminal, RestPoints
<1> QED BY <1>1, Now, FollowUpKept DEF Send, CanFollowUp, Op, Unsent

LEMMA InterruptKept ==
    ASSUME IInv, NEW r \in Runs, Interrupt(r)
    PROVE  Kept
<1> DEFINE m == AbortInFlight(NoWaiter(mem[r]))
           n == [m EXCEPT !.pendingInterrupt = TRUE]
           k == [m EXCEPT !.pendingInterrupt = FALSE, !.interruptTimer = TRUE]
<1>1. Ready(r, db[r], mem[r])
  BY Now
<1>2. ~Calm
  BY DEF Interrupt, Op, Calm
<1>3. Good(NoAsk(db[r]), m) /\ NoAsk(db[r]).attempts = db[r].attempts
  BY <1>1, <1>2, GoodNoAsk, GoodAbort DEF Ready
<1>4. Good(NoAsk(db[r]), n) /\ Good(NoAsk(db[r]), k)
  <2> HIDE DEF m
  <2> QED BY <1>2, <1>3 DEF Good, MemRow
<1>5. Ready(r, NoAsk(db[r]), n) /\ Ready(r, NoAsk(db[r]), k)
  BY <1>1, <1>3, <1>4 DEF Ready
<1>6. Write(r, NoAsk(db[r]), n) \/ Write(r, NoAsk(db[r]), k)
  BY DEF Interrupt
<1> QED BY <1>5, <1>6, ReadyWrite

LEMMA QueueMessageKept ==
    ASSUME IInv, NEW r \in Runs, QueueMessage(r)
    PROVE  Kept
<1> DEFINE d == [db[r] EXCEPT !.msgs = @ + 1]
<1>1. Ready(r, db[r], mem[r])
  BY Now
<1>2. d \in DbRow
  BY <1>1, BoundAssumption DEF QueueMessage, Ready, Good, DbRow
<1>3. Good(d, mem[r]) /\ d.attempts = db[r].attempts
  BY <1>1, <1>2 DEF Ready, Good, Quiet, DbRow
<1>4. Ready(r, d, mem[r]) /\ Write(r, d, mem[r])
  BY <1>1, <1>3 DEF Ready, QueueMessage
<1> QED BY <1>4, ReadyWrite

LEMMA AnswerKept ==
    ASSUME IInv, NEW r \in Runs, Answer(r)
    PROVE  Kept
<1> DEFINE d == [NoAsk(db[r]) EXCEPT !.status = "running"]
           m == mem[r]
           a == m.answerWaiter
<1>1. Ready(r, db[r], m)
  BY Now
<1>2. db[r] \in DbRow /\ m \in MemRow
  BY <1>1 DEF Ready, Good
<1>3. d \in DbRow /\ d.status = "running" /\ d.attempts = db[r].attempts
  BY <1>2 DEF NoAsk, DbRow, Statuses
<1>4. ASSUME NEW n, Good(db[r], n), n.waiter = NoTask
      PROVE  Ready(r, d, n)
  BY <1>1, <1>3, <1>4 DEF Ready, Good, Quiet
<1>5. Good(db[r], NoWaiter(m)) /\ NoWaiter(m).waiter = NoTask
  BY <1>1, <1>2, SlotTypes DEF Ready, Good, Quiet, NoWaiter, MemRow
<1>6. CASE Write(r, d, NoWaiter(m))
  BY <1>4, <1>5, <1>6, ReadyWrite
<1>7. CASE m.waiter = NoTask /\ a # NoTask /\ Write(r, d, ToAnswerWaiter(m))
  <2>1. a \in Slots
    BY <1>2, <1>7, SlotsAssumption DEF MemRow, Slots, NoTask
  <2> DEFINE n == [m EXCEPT !.answerWaiter = NoTask]
  <2>2. Good(db[r], n) /\ n.waiter = NoTask
    BY <1>1, <1>2, <1>7, SlotTypes DEF Ready, Good, Quiet, MemRow
  <2>3. Live(n, a)
    BY <1>1, <1>2, <1>7 DEF Ready, Good, Live, MemRow
  <2>4. ToAnswerWaiter(m) = To(n, a, "sending") /\ To(n, a, "sending").waiter = n.waiter
    BY <1>2 DEF ToAnswerWaiter, To, MemRow
  <2> HIDE DEF n
  <2>5. Good(db[r], To(n, a, "sending"))
    BY <2>1, <2>2, <2>3, GoodTo DEF Pcs
  <2> QED BY <1>4, <1>7, <2>2, <2>4, <2>5, ReadyWrite
<1>8. CASE /\ m.waiter = NoTask /\ Room(m)
           /\ Write(r, d, [m EXCEPT !.task[NewSlot(m)] =
                [pc |-> "sending", kind |-> "answer", orig |-> "none", sig |-> NoTask]])
  <2> DEFINE t == [pc |-> "sending", kind |-> "answer", orig |-> "none", sig |-> NoTask]
             n == [m EXCEPT !.task[NewSlot(m)] = t]
  <2>1. t \in Task /\ Rests(t)
    BY SlotTypes DEF Task, Pcs, Kinds, ExecKinds, RestPoints, Rests
  <2>2. Good(db[r], n)
    <3>1. m.answerWaiter # NewSlot(m)
      BY <1>1, <1>8, RoomIsFree, NewSlotFree DEF Ready
    <3> HIDE DEF t
    <3> QED BY <1>1, <2>1, <3>1, NewSlotType, GoodTask DEF Ready
  <2>3. n.waiter = NoTask
    BY <1>2, <1>8 DEF MemRow
  <2> HIDE DEF n
  <2>4. Ready(r, d, n)
    BY <1>4, <2>2, <2>3
  <2> QED BY <1>8, <2>4, ReadyWrite DEF n
<1>9. CASE m.waiter = NoTask /\ Write(r, d, m)
  BY <1>1, <1>4, <1>9, ReadyWrite DEF Ready
<1>10. CASE m.waiter = NoTask /\ Write(r, d, [m EXCEPT !.pendingAnswer = TRUE])
  <2> DEFINE n == [m EXCEPT !.pendingAnswer = TRUE]
  <2>1. Good(db[r], n) /\ n.waiter = NoTask
    BY <1>1, <1>2, <1>10 DEF Ready, Good, Quiet, MemRow
  <2> HIDE DEF n
  <2>2. Ready(r, d, n)
    BY <1>4, <2>1
  <2> QED BY <1>10, <2>2, ReadyWrite DEF n
<1> QED BY <1>6, <1>7, <1>8, <1>9, <1>10 DEF Answer

-----------------------------------------------------------------------------
(* Timers and the watchdog. *)
LEMMA PumpTimerKept ==
    ASSUME IInv, NEW r \in Runs, PumpTimer(r)
    PROVE  Kept
<1> DEFINE m == [mem[r] EXCEPT !.pumpTimer = FALSE]
<1>1. Ready(r, db[r], mem[r])
  BY Now
<1>2. Ready(r, db[r], m)
  BY <1>1 DEF Ready, Good, Quiet, MemRow
<1> QED BY <1>2, ReadyWriteAndPump DEF PumpTimer

LEMMA DeliverTimerKept ==
    ASSUME IInv, NEW r \in Runs, DeliverTimer(r)
    PROVE  Kept
<1> DEFINE m == [mem[r] EXCEPT !.deliverTimer = FALSE]
           d == db[r]
           e == [d EXCEPT !.msgs = @ - 1]
<1>1. Ready(r, d, mem[r])
  BY Now
<1>2. Ready(r, d, m)
  BY <1>1 DEF Ready, Good, Quiet, MemRow
<1>3. CASE Delivers(d, m) /\ Room(m) /\ FollowUp(r, m, e, FALSE)
  <2>1. d \in DbRow /\ d.msgs > 0
    BY <1>1, <1>3 DEF Ready, Good, Delivers
  <2>2. e \in DbRow
    BY <2>1, BoundAssumption DEF DbRow
  <2>3. e.status = d.status /\ e.attempts = d.attempts /\ e.ask = d.ask
    BY <2>1 DEF DbRow
  <2>4. Ready(r, e, m)
    BY <1>2, <2>2, <2>3 DEF Ready, Good, Quiet
  <2>5. e.status \in Statuses /\ e.status \in RestPoints /\ e.status # "cancelled"
    BY <1>3, <2>3 DEF Delivers, Statuses, Terminal, RestPoints
  <2> HIDE DEF e, m
  <2> QED BY <1>3, <2>4, <2>5, FollowUpKept
<1>4. CASE Write(r, d, m)
  BY <1>2, <1>4, ReadyWrite
<1> QED BY <1>3, <1>4 DEF DeliverTimer

LEMMA InterruptTimerKept ==
    ASSUME IInv, NEW r \in Runs, InterruptTimer(r)
    PROVE  Kept
<1> DEFINE m == [mem[r] EXCEPT !.interruptTimer = FALSE]
           d == db[r]
<1>1. Ready(r, d, mem[r])
  BY Now
<1>2. Ready(r, d, m) /\ ~Calm
  BY <1>1 DEF Ready, Good, Quiet, MemRow, InterruptTimer
<1>3. CASE InterruptStarts(d) /\ Room(m) /\ FollowUp(r, m, d, FALSE)
  <2>1. d.status \in Statuses /\ d.status # "cancelled"
    BY <1>1, <1>3 DEF Ready, Good, DbRow, InterruptStarts
  <2> QED BY <1>2, <1>3, <2>1, FollowUpKept
<1>4. CASE Write(r, d, m)
  BY <1>2, <1>4, ReadyWrite
<1> QED BY <1>3, <1>4 DEF InterruptTimer

LEMMA StallSweepKept ==
    ASSUME IInv, NEW r \in Runs, StallSweep(r)
    PROVE  Kept
<1> DEFINE k == Release(AbortInFlight(mem[r]))
           m == [k EXCEPT !.pumpTimer = TRUE]
           d == RecoverRow(db[r])
<1>1. Ready(r, db[r], mem[r])
  BY Now
<1>2. Good(d, k) /\ d.attempts = db[r].attempts
  BY <1>1, GoodRecover, GoodAbort, GoodRelease DEF Ready
<1>3. Good(d, m)
  <2> HIDE DEF k, d
  <2> QED BY <1>2 DEF Good, Quiet, MemRow
<1>4. Ready(r, d, m) /\ Write(r, d, m)
  BY <1>1, <1>2, <1>3 DEF Ready, StallSweep
<1> QED BY <1>4, ReadyWrite

LEMMA RetainedSweepKept ==
    ASSUME IInv, NEW r \in Runs, RetainedSweep(r)
    PROVE  Kept
<1> DEFINE m == [mem[r] EXCEPT !.retained = FALSE]
<1>1. Ready(r, db[r], mem[r])
  BY Now
<1>2. Ready(r, db[r], m)
  BY <1>1 DEF Ready, Good, Quiet, MemRow
<1> QED BY <1>2, ReadyWrite DEF RetainedSweep

-----------------------------------------------------------------------------
(* The tasks. *)
LEMMA LiveAt ==
    ASSUME IInv, NEW r \in Runs, NEW s \in Slots, NEW pc \in Pcs, At(r, s, pc),
           pc \notin {"answerWait", "disposing"}
    PROVE  Live(mem[r], s) /\ Live(WithHandle(mem[r]), s)
<1>1. Good(db[r], mem[r])
  BY DEF IInv, GoodRows
<1>2. Live(mem[r], s)
  BY <1>1, IsLive DEF At
<1> QED BY <1>1, <1>2 DEF Live, WithHandle, Good, MemRow

LEMMA ReadyAgent ==
    ASSUME NEW r, NEW d, NEW m, Ready(r, d, m)
    PROVE  Ready(r, WithAgent(d), m) /\ Ready(r, WithAgent(d), WithHandle(m))
BY DEF Ready, Good, Quiet, WithAgent, WithHandle, DbRow, MemRow

LEMMA ReadyTo ==
    ASSUME NEW r, NEW d, NEW m, Ready(r, d, m), NEW s \in Slots, NEW pc \in Pcs, Live(m, s)
    PROVE  Ready(r, d, To(m, s, pc))
BY GoodTo DEF Ready

LEMMA ReadyAnswered ==
    ASSUME NEW r, NEW d, NEW m, Ready(r, d, m)
    PROVE  Ready(r, d, [m EXCEPT !.pendingAnswer = FALSE])
BY DEF Ready, Good, Quiet, MemRow

LEMMA PcTypes == {"sending", "streaming", "waiting", "answerWait", "resuming"} \subseteq Pcs
BY DEF Pcs

LEMMA StartedKept ==
    ASSUME IInv, NEW r \in Runs, NEW s \in Slots, NEW m, Ready(r, db[r], m), Live(m, s),
           Started(r, s, m)
    PROVE  Kept
<1> DEFINE d == WithAgent(db[r])
           n == [To(m, s, "sending") EXCEPT !.pendingAnswer = FALSE]
           k == To(m, s, "streaming")
<1>1. Ready(r, d, m)
  BY ReadyAgent
<1>2. Ready(r, d, n) /\ Ready(r, d, k)
  BY <1>1, ReadyTo, ReadyAnswered, PcTypes
<1>3. Write(r, d, n) \/ Write(r, d, k)
  BY DEF Started
<1> QED BY <1>2, <1>3, ReadyWrite

LEMMA SpawnReturnsKept ==
    ASSUME IInv, NEW r \in Runs, NEW s \in Slots, SpawnReturns(r, s)
    PROVE  Kept
<1>1. Ready(r, db[r], WithHandle(mem[r]))
  BY Now DEF Ready, Good, Quiet, WithHandle, MemRow
<1>2. Live(WithHandle(mem[r]), s)
  BY LiveAt DEF SpawnReturns, Pcs
<1> QED BY <1>1, <1>2, StartedKept DEF SpawnReturns

LEMMA SpawnRejectsKept ==
    ASSUME IInv, NEW r \in Runs, NEW s \in Slots, SpawnRejects(r, s)
    PROVE  Kept
<1> DEFINE d == db[r]
           m == mem[r]
           m1 == Ended(Release(m), s)
           k == [m1 EXCEPT !.pumpTimer = TRUE,
                           !.interruptTimer = @ \/ m.pendingInterrupt,
                           !.pendingInterrupt = FALSE]
<1>1. Ready(r, d, m)
  BY Now
<1>0. Live(m, s)
  BY LiveAt DEF SpawnRejects, Pcs
<1>2. CASE ExecFinally(r, s, d, m, FALSE)
  BY <1>0, <1>1, <1>2, ExecFinallyKept
<1>3. ASSUME d.status \in {"running", "needs_input"},
             NEW S \in IF m.pendingInterrupt THEN SUBSET Runs ELSE {{}},
             m.pendingInterrupt => PumpStarts(S, db, Context), HaveSlots(S, mem),
             db' = [q \in Runs |-> IF q = r THEN RecoverRow(d)
                                   ELSE IF q \in S THEN BeginRow(db[q]) ELSE db[q]],
             mem' = [q \in Runs |-> IF q = r THEN k
                                    ELSE IF q \in S THEN BeginMem(mem[q]) ELSE mem[q]]
      PROVE  Kept
  <2>1. Good(RecoverRow(d), m1) /\ RecoverRow(d).attempts = d.attempts
    <3>1. Good(d, Release(m)) /\ Release(m).answerWaiter # s
      BY <1>0, <1>1, GoodRelease DEF Ready, Release, Live, Good, MemRow
    <3> QED BY <3>1, GoodEnded, GoodRecover
  <2>2. m1.pendingInterrupt = m.pendingInterrupt /\ m1.interruptTimer = m.interruptTimer
        /\ m1 \in MemRow /\ m.pendingInterrupt \in BOOLEAN /\ m.interruptTimer \in BOOLEAN
    <3>1. m \in MemRow /\ m1 \in MemRow
      BY <1>1, <2>1 DEF Ready, Good
    <3> QED BY <3>1 DEF Release, Ended, MemRow
  <2>3. Calm => ~m.pendingInterrupt /\ ~m.interruptTimer
    BY <1>1 DEF Ready, Good, Quiet
  <2>4. Good(RecoverRow(d), k)
    <3> HIDE DEF m1
    <3> QED BY <2>1, <2>2, <2>3 DEF Good, Quiet, MemRow
  <2>5. S \subseteq Runs /\ (S # {} => m.pendingInterrupt) /\ S \subseteq Queued(db)
    BY <1>3 DEF PumpStarts
  <2>6. GoodRows(db', mem')
    <3>1. ASSUME NEW q \in Runs PROVE Good(db'[q], mem'[q])
      <4>1. Good(db[q], mem[q])
        BY DEF IInv, GoodRows
      <4>2. CASE q = r
        BY <1>3, <2>4, <4>2
      <4>3. CASE q # r /\ q \in S
        BY <1>3, <2>5, <4>1, <4>3, GoodBegin DEF Queued, HaveSlots
      <4>4. CASE q # r /\ q \notin S
        BY <1>3, <4>1, <4>4
      <4> QED BY <4>2, <4>3, <4>4
    <3> QED BY <1>3, <3>1 DEF GoodRows, Good
  <2>7. CASE S = {}
    <3>1. \A q \in Runs : db'[q].attempts = db[q].attempts
      BY <1>3, <2>1, <2>7
    <3>2. \A q \in Runs : db[q].attempts \in Nat
      BY DEF IInv, GoodRows, DbRow
    <3>3. Orderly
      BY <3>1, <3>2 DEF Orderly, Begins
    <3> QED BY <2>6, <3>3 DEF Kept
  <2>8. CASE S # {}
    <3>1. ASSUME NEW x \in Runs, Begins(x)
          PROVE  Cardinality(Active(db')) <= Cap /\ x \notin lost
      <4>1. \A q \in Runs : db[q].attempts \in Nat
        BY DEF IInv, GoodRows, DbRow
      <4>2. x \in S
        BY <1>3, <2>1, <3>1, <4>1 DEF Begins
      <4>3. PumpStarts(S, db, Context)
        BY <1>3, <2>5, <2>8
      <4>4. Active(db') \subseteq S \cup Active(db)
        BY <1>3, <2>5 DEF Active, Holding
      <4>5. Cardinality(S \cup Active(db)) <= Cap
        <5>1. S \cap Active(db) = {} /\ Active(db) \subseteq Runs
          BY <2>5 DEF Queued, Active, Holding
        <5>2. IsFiniteSet(S) /\ IsFiniteSet(Active(db)) /\ Cardinality(S) \in Nat
              /\ Cardinality(Active(db)) \in Nat
          BY <2>5, <5>1, RunsFinite
        <5>3. Cardinality(S \cup Active(db)) = Cardinality(S) + Cardinality(Active(db))
          BY <5>1, <5>2, FS_Union, FS_EmptySet
        <5> QED BY <2>8, <4>3, <5>3 DEF PumpStarts
      <4>6. Cardinality(Active(db')) <= Cardinality(S \cup Active(db))
            /\ Cardinality(Active(db')) \in Nat /\ Cardinality(S \cup Active(db)) \in Nat
        <5>1. S \cup Active(db) \subseteq Runs /\ Active(db') \subseteq Runs
          BY <2>5 DEF Active
        <5> QED BY <4>4, <5>1, RunsFinite, FS_Subset
      <4> QED BY <4>2, <4>3, <4>5, <4>6, CapAssumption DEF PumpStarts, Context
    <3> QED BY <2>3, <2>5, <2>6, <2>8, <3>1 DEF Kept, Orderly
  <2> QED BY <2>7, <2>8
<1> QED BY <1>2, <1>3 DEF SpawnRejects

LEMMA ResumeReturnsKept ==
    ASSUME IInv, NEW r \in Runs, NEW s \in Slots, ResumeReturns(r, s)
    PROVE  Kept
<1> DEFINE m == WithHandle(mem[r])
           d == WithAgent(db[r])
           n1 == To(m, s, "sending")
           n2 == To(m, s, "streaming")
           n3 == [To(m, s, "sending") EXCEPT !.pendingAnswer = FALSE]
           n4 == [To(m, s, "answerWait") EXCEPT !.answerWaiter = s]
<1>0. Ready(r, db[r], mem[r])
  BY Now
<1>1. Ready(r, db[r], m) /\ Ready(r, d, m)
  <2>1. Ready(r, db[r], m)
    BY <1>0 DEF Ready, Good, Quiet, WithHandle, MemRow
  <2> QED BY <1>0, <2>1, ReadyAgent
<1>7. Live(m, s)
  BY LiveAt DEF ResumeReturns, Pcs
<1>2. Ready(r, d, n1) /\ Ready(r, d, n2) /\ Ready(r, d, n3)
  BY <1>1, <1>7, ReadyTo, ReadyAnswered, PcTypes
<1>3. Ready(r, d, n4)
  <2>1. Ready(r, d, To(m, s, "answerWait"))
    BY <1>1, <1>7, ReadyTo, PcTypes
  <2>2. To(m, s, "answerWait").task[s].pc = "answerWait"
    BY <1>1 DEF Ready, Good, MemRow, To, Task
  <2> QED BY <2>1, <2>2, SlotTypes DEF Ready, Good, Quiet, MemRow
<1>4. \/ Started(r, s, m)
      \/ Write(r, d, n1) \/ Write(r, d, n2) \/ Write(r, d, n3) \/ Write(r, d, n4)
  BY DEF ResumeReturns
<1> QED BY <1>1, <1>2, <1>3, <1>4, <1>7, StartedKept, ReadyWrite

LEMMA ResumeRejectsKept ==
    ASSUME IInv, NEW r \in Runs, NEW s \in Slots, ResumeRejects(r, s)
    PROVE  Kept
<1>1. Live(mem[r], s) /\ Ready(r, db[r], mem[r])
  BY Now, LiveAt DEF ResumeRejects, Pcs
<1> QED BY <1>1, ExecThrowsKept, FollowThrowsKept DEF ResumeRejects

LEMMA SendReturnsKept ==
    ASSUME IInv, NEW r \in Runs, NEW s \in Slots, SendReturns(r, s)
    PROVE  Kept
<1> DEFINE d == WithAgent(db[r])
           m == WithHandle(mem[r])
<1>0. Live(m, s)
  BY LiveAt DEF SendReturns, Pcs
<1>1. Ready(r, d, m)
  BY Now, ReadyAgent
<1>2. CASE Return(r, s, d, m)
  BY <1>0, <1>1, <1>2, ReturnKept
<1>3. ASSUME NEW sig \in 0..NumSlots,
             Write(r, d, [To(m, s, "streaming") EXCEPT !.task[s].sig = sig])
      PROVE  Kept
  <2> DEFINE k == To(m, s, "streaming")
  <2>1. Ready(r, d, k) /\ k.answerWaiter # s
    <3>1. k.answerWaiter = m.answerWaiter
      BY <1>1 DEF To, Ready, Good, MemRow
    <3> HIDE DEF m
    <3> QED BY <1>0, <1>1, <3>1, ReadyTo, PcTypes DEF Live
  <2> HIDE DEF k
  <2>2. k.task[s] \in Task /\ Rests(k.task[s])
    BY <2>1 DEF Ready, Good, MemRow
  <2> DEFINE t == [k.task[s] EXCEPT !.sig = sig]
  <2>3. t \in Task /\ Rests(t)
    BY <2>2 DEF Task, Rests
  <2> HIDE DEF t
  <2>4. Ready(r, d, [k EXCEPT !.task[s] = t])
    BY <2>1, <2>3, GoodTask DEF Ready
  <2>5. Write(r, d, [k EXCEPT !.task[s] = t])
    BY <1>3 DEF k, t
  <2> QED BY <2>4, <2>5, ReadyWrite
<1>4. m \in MemRow
  BY <1>1 DEF Ready, Good
<1>5. s \in 0..NumSlots /\ m.inFlight \in 0..NumSlots
  BY <1>4, SlotTypes DEF MemRow
<1> HIDE DEF d, m
<1>6. \/ Return(r, s, d, m)
      \/ \E sig \in 0..NumSlots :
            Write(r, d, [To(m, s, "streaming") EXCEPT !.task[s].sig = sig])
  BY <1>5 DEF SendReturns, d, m
<1> QED BY <1>2, <1>3, <1>6

LEMMA SendRejectsKept ==
    ASSUME IInv, NEW r \in Runs, NEW s \in Slots, SendRejects(r, s)
    PROVE  Kept
BY Now, LiveAt, ThrowKept DEF SendRejects, Pcs

LEMMA StreamEndsKept ==
    ASSUME IInv, NEW r \in Runs, NEW s \in Slots, StreamEnds(r, s)
    PROVE  Kept
<1>0. Live(mem[r], s)
  BY LiveAt DEF StreamEnds, Pcs
<1>1. Ready(r, db[r], mem[r]) /\ Ready(r, db[r], To(mem[r], s, "waiting"))
  BY <1>0, Now, ReadyTo, PcTypes
<1> QED BY <1>0, <1>1, ReturnKept, ReadyWrite DEF StreamEnds

LEMMA StreamRejectsKept ==
    ASSUME IInv, NEW r \in Runs, NEW s \in Slots, StreamRejects(r, s)
    PROVE  Kept
BY Now, LiveAt, ThrowKept DEF StreamRejects, Pcs

LEMMA WaitReturnsKept ==
    ASSUME IInv, NEW r \in Runs, NEW s \in Slots, WaitReturns(r, s)
    PROVE  Kept
<1> DEFINE d == db[r]
           m == mem[r]
<1>1. Ready(r, d, m) /\ Live(m, s)
  BY Now, LiveAt DEF WaitReturns, Pcs
<1>2. ASSUME NEW res \in SdkResults, Return(r, s, [d EXCEPT !.status = res], m)
      PROVE  Kept
  <2> DEFINE e == [d EXCEPT !.status = res]
  <2>1. res \in Statuses \ {"queued", "needs_input"}
    BY ResultAssumption DEF Terminal, Statuses
  <2>2. Ready(r, e, m)
    BY <1>1, <2>1, GoodStatus DEF Ready
  <2> QED BY <1>1, <1>2, <2>2, ReturnKept
<1> QED BY <1>1, <1>2, ReturnKept, FallbackKept DEF WaitReturns

LEMMA WaitRejectsKept ==
    ASSUME IInv, NEW r \in Runs, NEW s \in Slots, WaitRejects(r, s)
    PROVE  Kept
BY Now, LiveAt, ThrowKept DEF WaitRejects, Pcs

LEMMA FallbackDoneKept ==
    ASSUME IInv, NEW r \in Runs, NEW s \in Slots, FallbackDone(r, s)
    PROVE  Kept
<1> DEFINE d == db[r]
           m == mem[r]
           orig == m.task[s].orig
           n == [m EXCEPT !.inFlight = NoTask]
           t == [pc |-> "resuming", kind |-> "follow", orig |-> orig, sig |-> s]
<1>1. Ready(r, d, m) /\ Live(m, s)
  BY Now, LiveAt DEF FallbackDone, Pcs
<1>2. CASE Write(r, Restore(d, orig), Ended(n, s))
  <2>1. Ready(r, Restore(d, orig), m)
    BY <1>1, ReadyRows
  <2>2. Ready(r, Restore(d, orig), n)
    BY <2>1, SlotTypes DEF Ready, Good, Quiet, MemRow
  <2>3. n.answerWaiter # s
    BY <1>1 DEF Live, Ready, Good, MemRow
  <2>4. Ready(r, Restore(d, orig), Ended(n, s))
    BY <2>2, <2>3, GoodEnded DEF Ready
  <2> QED BY <1>2, <2>4, ReadyWrite
<1>3. CASE Write(r, d, Ended(m, s))
  <2>1. Ready(r, d, Ended(m, s))
    BY <1>1, GoodEnded DEF Ready, Live
  <2> QED BY <1>3, <2>1, ReadyWrite
<1>4. CASE Write(r, d, [m EXCEPT !.task[s] = t])
  <2>1. m.task[s] \in Task /\ Rests(m.task[s])
    BY <1>1 DEF Ready, Good, MemRow
  <2>2. t \in Task /\ Rests(t)
    BY <1>1, <2>1, SlotTypes DEF Task, Pcs, Kinds, Rests, Live
  <2>3. Ready(r, d, [m EXCEPT !.task[s] = t])
    <3> HIDE DEF t
    <3> QED BY <1>1, <2>2, GoodTask DEF Ready, Live
  <2> QED BY <1>4, <2>3, ReadyWrite
<1> QED BY <1>2, <1>3, <1>4 DEF FallbackDone

LEMMA ReviveReturnsKept ==
    ASSUME IInv, NEW r \in Runs, NEW s \in Slots, ReviveReturns(r, s)
    PROVE  Kept
<1> DEFINE d == WithAgent(db[r])
           m == mem[r]
           h == WithHandle(m)
           t == [h.task[s] EXCEPT !.pc = "streaming", !.kind = "revive", !.sig = s]
<1>0. Live(m, s) /\ Live(h, s)
  BY LiveAt DEF ReviveReturns, Pcs
<1>1. Ready(r, db[r], m) /\ Ready(r, d, h)
  BY Now, ReadyAgent
<1>2. CASE Cleanup(r, s, Restore(db[r], m.task[s].orig), m, m.handle, TRUE)
  <2> DEFINE e == Restore(db[r], m.task[s].orig)
  <2>1. Ready(r, e, m) /\ Cleanup(r, s, e, m, m.handle, TRUE)
    BY <1>1, <1>2, ReadyRows
  <2> HIDE DEF e
  <2> QED BY <1>0, <2>1, CleanupKept
<1>3. CASE Write(r, d, [h EXCEPT !.task[s] = t])
  <2>1. h.task[s] \in Task /\ Rests(h.task[s])
    BY <1>1 DEF Ready, Good, MemRow
  <2> HIDE DEF h
  <2>2. t \in Task /\ Rests(t)
    BY <1>0, <2>1, SlotTypes DEF Task, Pcs, Kinds, Rests, Live
  <2>3. Ready(r, d, [h EXCEPT !.task[s] = t])
    <3> HIDE DEF t
    <3> QED BY <1>0, <1>1, <2>2, GoodTask DEF Ready, Live
  <2> QED BY <1>3, <2>3, ReadyWrite
<1> QED BY <1>2, <1>3 DEF ReviveReturns

LEMMA ReviveRejectsKept ==
    ASSUME IInv, NEW r \in Runs, NEW s \in Slots, ReviveRejects(r, s)
    PROVE  Kept
<1> DEFINE e == Restore(db[r], mem[r].task[s].orig)
<1>1. Ready(r, e, mem[r]) /\ Cleanup(r, s, e, mem[r], mem[r].handle, TRUE)
  BY Now, ReadyRows DEF ReviveRejects
<1>2. Live(mem[r], s)
  BY LiveAt DEF ReviveRejects, Pcs
<1> HIDE DEF e
<1> QED BY <1>1, <1>2, CleanupKept

LEMMA DisposedKept ==
    ASSUME IInv, NEW r \in Runs, NEW s \in Slots, Disposed(r, s)
    PROVE  Kept
<1> DEFINE k == Ended(mem[r], s)
           n == Ended(Release(mem[r]), s)
<1>0. mem[r].answerWaiter # s /\ Release(mem[r]).answerWaiter # s
  <2>1. mem[r].task[s].pc = "disposing" /\ Good(db[r], mem[r])
    BY DEF Disposed, At, IInv, GoodRows
  <2>2. s # NoTask
    BY SlotsAssumption DEF Slots, NoTask
  <2>3. Release(mem[r]).answerWaiter = mem[r].answerWaiter
    BY DEF Release
  <2> QED BY <2>1, <2>2, <2>3 DEF Good
<1>1. Ready(r, db[r], k) /\ Ready(r, db[r], n)
  BY <1>0, Now, GoodEnded, GoodRelease DEF Ready
<1>2. \E terminal : Settle(r, db[r], k, terminal) \/ Settle(r, db[r], n, terminal)
  BY DEF Disposed
<1> HIDE DEF k, n
<1> QED BY <1>1, <1>2, SettleKept

LEMMA AskedKept ==
    ASSUME IInv, NEW r \in Runs, NEW waiter \in 0..(NumSlots + 1), Asked(r, waiter)
    PROVE  Kept
<1> DEFINE d == [db[r] EXCEPT !.ask = TRUE, !.status = "needs_input"]
           m == [mem[r] EXCEPT !.waiter = waiter]
<1>1. Ready(r, db[r], mem[r])
  BY Now
<1>2. d \in DbRow /\ d.ask /\ d.status = "needs_input" /\ d.attempts = db[r].attempts
  BY <1>1 DEF Ready, Good, DbRow, Statuses
<1>3. m \in MemRow
  BY <1>1 DEF Ready, Good, MemRow
<1>4. Ready(r, d, m)
  BY <1>1, <1>2, <1>3 DEF Ready, Good, Quiet, MemRow
<1> QED BY <1>4, ReadyWrite DEF Asked

LEMMA AskKept ==
    ASSUME IInv, NEW r \in Runs, Ask(r)
    PROVE  Kept
BY AskedKept, SlotTypes DEF Ask, McpAsk, SentinelAsk

-----------------------------------------------------------------------------
(* Crashes and the boot. *)
LEMMA GoodNoMem ==
    ASSUME NEW d, NEW m, Good(d, m)
    PROVE  Good(d, NoMem)
<1>1. Idle \in Task /\ Rests(Idle)
  BY SlotTypes DEF Idle, Task, Pcs, Kinds, RestPoints, Rests
<1>2. NoMem \in MemRow
  BY <1>1, SlotTypes DEF NoMem, MemRow
<1>3. /\ NoMem.waiter = NoTask /\ NoMem.answerWaiter = NoTask /\ ~NoMem.pendingInterrupt /\ ~NoMem.interruptTimer
      /\ \A s \in Slots : NoMem.task[s] = Idle
  BY DEF NoMem
<1> QED BY <1>1, <1>2, <1>3 DEF Good, Quiet

LEMMA NoMemFree == FreeSlots(NoMem) # {}
<1>1. NoTask \notin Slots /\ 1 \in Slots
  BY SlotsAssumption DEF Slots, NoTask
<1>2. 1 \in FreeSlots(NoMem)
  BY <1>1 DEF FreeSlots, NoMem, Idle
<1> QED BY <1>2

LEMMA CrashKept ==
    ASSUME IInv, Crash
    PROVE  Kept
<1>1. \A r \in Runs : Good(db[r], NoMem)
  BY GoodNoMem DEF IInv, GoodRows
<1>2. GoodRows(db', mem')
  BY <1>1 DEF Crash, IInv, GoodRows, Good
<1>3. Orderly
  BY DEF Crash, Orderly, Begins, IInv, GoodRows, DbRow
<1> QED BY <1>2, <1>3 DEF Kept

LEMMA BootKept ==
    ASSUME IInv, Boot
    PROVE  Kept
<1> DEFINE ctx == Runs \ TrackRuns
           d == [r \in Runs |-> IF Interrupted(r) /\ ~db[r].agent
                                THEN RecoverRow(db[r]) ELSE db[r]]
           pumped(r) == [NoMem EXCEPT !.pumpTimer = Interrupted(r) /\ ~db[r].agent]
           kind(r) == IF db[r].status = "needs_input" THEN "needsinput" ELSE "reattach"
           task(r) == NewTask(NoMem, "resuming", kind(r), "none")
           m == [r \in Runs |-> IF Interrupted(r) /\ db[r].agent /\ r \in ctx
                                THEN task(r) ELSE pumped(r)]
<1>1. PICK S \in SUBSET Runs :
        /\ PumpStarts(S, d, ctx)
        /\ db' = [r \in Runs |-> IF r \in S THEN BeginRow(d[r]) ELSE d[r]]
        /\ \/ mem' = [r \in Runs |-> IF r \in S THEN BeginMem(m[r]) ELSE m[r]]
           \/ mem' = [r \in Runs |-> NoMem]
  BY DEF Boot
<1>2. ASSUME NEW r \in Runs
      PROVE  Good(d[r], m[r]) /\ d[r].attempts = db[r].attempts /\ db[r].attempts \in Nat
  <2>1. Good(db[r], NoMem) /\ db[r].attempts \in Nat
    BY GoodNoMem DEF IInv, GoodRows, Good, DbRow
  <2>2. Good(d[r], NoMem) /\ d[r].attempts = db[r].attempts
    BY <2>1, GoodRecover
  <2>3. Good(d[r], task(r))
    <3>1. kind(r) \in Kinds /\ "none" \in RestPoints
      BY DEF Kinds, ExecKinds, RestPoints
    <3> HIDE DEF d, kind
    <3> QED BY <2>2, <3>1, NoMemFree, GoodNewTask, PcTypes
  <2>4. Good(d[r], pumped(r))
    <3> HIDE DEF d
    <3>1. (Interrupted(r) /\ ~db[r].agent) \in BOOLEAN
      BY DEF Interrupted
    <3> QED BY <2>2, <3>1 DEF Good, Quiet, MemRow
  <2> HIDE DEF d, task, pumped
  <2> QED BY <2>1, <2>2, <2>3, <2>4
<1>3. d \in [Runs -> DbRow] /\ m \in [Runs -> MemRow]
  <2>1. \A r \in Runs : d[r] \in DbRow /\ m[r] \in MemRow
    BY <1>2 DEF Good
  <2> QED BY <2>1
<1>4. \A r \in Runs : r \in S => d[r].status = "queued"
  BY <1>1 DEF PumpStarts, Queued
<1>7. \A r \in Runs : r \in S => FreeSlots(m[r]) # {}
  <2> SUFFICES ASSUME NEW r \in Runs, r \in S PROVE FreeSlots(m[r]) # {}
    OBVIOUS
  <2>1. ~(Interrupted(r) /\ db[r].agent)
    BY <1>4 DEF Interrupted
  <2>2. m[r] = pumped(r)
    BY <2>1
  <2>3. FreeSlots(pumped(r)) = FreeSlots(NoMem)
    BY DEF FreeSlots, NoMem
  <2> QED BY <2>2, <2>3, NoMemFree
<1> HIDE DEF d, m
<1>5. GoodRows(db', mem')
  <2>1. ASSUME NEW r \in Runs
        PROVE  /\ Good(IF r \in S THEN BeginRow(d[r]) ELSE d[r],
                       IF r \in S THEN BeginMem(m[r]) ELSE m[r])
               /\ Good(IF r \in S THEN BeginRow(d[r]) ELSE d[r], NoMem)
    BY <1>2, <1>4, <1>7, GoodBegin, GoodNoMem
  <2>2. \A r \in Runs : Good(db'[r], mem'[r])
    BY <1>1, <2>1
  <2>3. db' \in [Runs -> DbRow] /\ mem' \in [Runs -> MemRow]
    <3>1. \A r \in Runs : db'[r] \in DbRow /\ mem'[r] \in MemRow
      BY <2>2 DEF Good
    <3> QED BY <1>1, <3>1
  <2> QED BY <2>2, <2>3 DEF GoodRows
<1>6. Orderly
  <2>1. ctx \cap lost = {}
    BY DEF IInv
  <2>2. \A r \in Runs : d[r].attempts <= db[r].attempts /\ db[r].attempts \in Nat
    BY <1>2
  <2> HIDE DEF ctx
  <2> QED BY <1>1, <1>3, <2>1, <2>2, StartOrderly DEF AfterPump
<1> QED BY <1>5, <1>6 DEF Kept

LEMMA LoseWorktreeKept ==
    ASSUME IInv, NEW r \in Runs, LoseWorktree(r)
    PROVE  Kept
BY DEF LoseWorktree, Kept, IInv, Orderly, Begins, GoodRows, DbRow

LEMMA StutterKept ==
    ASSUME IInv, UNCHANGED vars
    PROVE  Kept
BY DEF vars, Kept, IInv, Orderly, Begins, GoodRows, DbRow

-----------------------------------------------------------------------------
(* The next-state relation. *)
LEMMA OperatorKept ==
    ASSUME IInv, NEW r \in Runs, Operator(r)
    PROVE  Kept
BY CancelKept, PauseKept, ResumeKept, SendKept, InterruptKept, QueueMessageKept,
   AnswerKept DEF Operator

LEMMA TimerKept ==
    ASSUME IInv, NEW r \in Runs, Timer(r) \/ Watchdog(r)
    PROVE  Kept
BY PumpTimerKept, DeliverTimerKept, InterruptTimerKept, StallSweepKept,
   RetainedSweepKept DEF Timer, Watchdog

LEMMA TaskStepKept ==
    ASSUME IInv, NEW r \in Runs, NEW s \in Slots, TaskStep(r, s)
    PROVE  Kept
BY SpawnReturnsKept, SpawnRejectsKept, ResumeReturnsKept, ResumeRejectsKept,
   SendReturnsKept, SendRejectsKept, StreamEndsKept, StreamRejectsKept,
   WaitReturnsKept, WaitRejectsKept, FallbackDoneKept, ReviveReturnsKept,
   ReviveRejectsKept, DisposedKept DEF TaskStep

LEMMA StepKept ==
    ASSUME IInv, [Next]_vars
    PROVE  Kept
BY TriggerKept, OperatorKept, TimerKept, AskKept, LoseWorktreeKept, TaskStepKept,
   CrashKept, BootKept, StutterKept DEF Next

(* The variables that are not kept by run. *)
Frame ==
    /\ up' \in BOOLEAN
    /\ lost' \subseteq TrackRuns
    /\ used' \in [ops : 0..MaxOps, crashes : 0..MaxCrashes, stalls : 0..MaxStalls]

LEMMA FrameSame ==
    ASSUME IInv, UNCHANGED <<up, lost, used>>
    PROVE  Frame
BY DEF IInv, Frame

LEMMA FrameOp ==
    ASSUME IInv, NEW name, Op(name)
    PROVE  Frame
BY BoundAssumption DEF IInv, Frame, Op, Spend

LEMMA FrameOperator ==
    ASSUME IInv, NEW r \in Runs, Operator(r)
    PROVE  Frame
BY FrameOp DEF Operator, Cancel, Pause, Resume, Send, Interrupt, QueueMessage, Answer

LEMMA FrameTask ==
    ASSUME IInv, NEW r \in Runs, NEW s \in Slots, TaskStep(r, s)
    PROVE  Frame
<1>1. UNCHANGED <<up, lost, used>>
  BY DEF TaskStep, At, SpawnReturns, SpawnRejects, ResumeReturns, ResumeRejects,
         SendReturns, SendRejects, StreamEnds, StreamRejects, WaitReturns, WaitRejects,
         FallbackDone, ReviveReturns, ReviveRejects, Disposed
<1> QED BY <1>1, FrameSame

LEMMA FrameKept ==
    ASSUME IInv, [Next]_vars
    PROVE  Frame
<1>1. ASSUME NEW r \in Runs, Trigger(r) \/ Timer(r) \/ RetainedSweep(r) \/ Ask(r)
      PROVE  Frame
  BY <1>1, FrameSame DEF Trigger, Timer, PumpTimer, DeliverTimer, InterruptTimer,
     RetainedSweep, Ask, McpAsk, SentinelAsk, At
<1>2. ASSUME NEW r \in Runs, StallSweep(r)
      PROVE  Frame
  BY <1>2, BoundAssumption DEF StallSweep, IInv, Frame
<1>3. ASSUME NEW r \in Runs, LoseWorktree(r)
      PROVE  Frame
  BY <1>3 DEF LoseWorktree, IInv, Frame
<1>4. CASE Crash
  <2>1. used.crashes < MaxCrashes /\ used' = [used EXCEPT !.crashes = @ + 1]
        /\ up' = FALSE /\ lost' = lost
    BY <1>4 DEF Crash
  <2>2. used \in [ops : 0..MaxOps, crashes : 0..MaxCrashes, stalls : 0..MaxStalls]
    BY DEF IInv
  <2>3. used' \in [ops : 0..MaxOps, crashes : 0..MaxCrashes, stalls : 0..MaxStalls]
    BY <2>1, <2>2, BoundAssumption
  <2> QED BY <2>1, <2>3 DEF IInv, Frame
<1>5. CASE Boot
  BY <1>5 DEF Boot, IInv, Frame
<1>6. CASE UNCHANGED vars
  BY <1>6, FrameSame DEF vars
<1> QED BY <1>1, <1>2, <1>3, <1>4, <1>5, <1>6, FrameOperator, FrameTask
           DEF Next, Watchdog

LEMMA InitGood == Init => IInv
<1> SUFFICES ASSUME Init PROVE IInv
  OBVIOUS
<1>1. NoRow \in DbRow /\ ~NoRow.ask /\ NoRow.attempts = 0 /\ NoRow.status = "absent"
  BY BoundAssumption DEF NoRow, DbRow, Statuses
<1>2. Idle \in Task /\ Rests(Idle)
  BY SlotTypes DEF Idle, Task, Pcs, Kinds, RestPoints, Rests
<1>3. NoMem \in MemRow /\ NoMem.waiter = NoTask /\ NoMem.answerWaiter = NoTask
  BY <1>2, SlotTypes DEF NoMem, MemRow
<1>4. Quiet(NoRow, NoMem)
  BY <1>1, <1>2, AttemptsAssumption DEF Quiet, NoMem
<1>5. Good(NoRow, NoMem)
  <2>1. \A s \in Slots : NoMem.task[s] = Idle
    BY DEF NoMem
  <2> QED BY <1>1, <1>2, <1>3, <1>4, <2>1 DEF Good
<1>6. GoodRows(db, mem)
  BY <1>1, <1>3, <1>5 DEF Init, GoodRows
<1> QED BY <1>6, BoundAssumption DEF Init, IInv

LEMMA Inductive == IInv /\ [Next]_vars => IInv' /\ Orderly
BY StepKept, FrameKept DEF Kept, Frame, IInv, GoodRows, Good, Quiet

LEMMA Invariance == Spec => []IInv
BY InitGood, Inductive, PTL DEF Spec

-----------------------------------------------------------------------------
(* The states and steps of every run have the types of RunEngine: no await *)
(* leaves a task, a controller or a waiter that the engine does not know.  *)
THEOREM TypeCorrect == Spec => []TypeOK
<1>1. IInv => TypeOK
  BY DEF IInv, GoodRows, TypeOK
<1> QED BY <1>1, Invariance, PTL

(* Whoever waits in the InputHub waits for a question that is still open,  *)
(* through every interleaving of answers, cancels, pauses, interrupts,     *)
(* stalls, crashes and late tasks.                                         *)
THEOREM WaitersHaveQuestions == Spec => []WaiterHasQuestion
<1>1. IInv => WaiterHasQuestion
  BY DEF IInv, GoodRows, Good, WaiterHasQuestion
<1> QED BY <1>1, Invariance, PTL

(* answerWaiters never names a task that has gone on: an answer wakes the  *)
(* task that re-attached for it, whatever else ended, restarted or was     *)
(* interrupted on the run meanwhile.                                       *)
THEOREM AnswersReachTheirTask == Spec => []AnswerReachesTask
<1>1. IInv => AnswerReachesTask
  BY DEF IInv, GoodRows, Good, AnswerReachesTask
<1> QED BY <1>1, Invariance, PTL

(* Whenever the pump starts a run, at most Cap runs hold a slot after it,  *)
(* for every number of runs and every cap.                                 *)
THEOREM PumpWithinCap == Spec => PumpRespectsCap
<1>1. Orderly => \A r \in Runs : Begins(r) =>
          Cardinality({q \in Runs : db'[q].status \in
                         {"running", "needs_input", "paused"}}) <= Cap
  BY DEF Orderly, Active, Holding
<1>2. IInv /\ [Next]_vars => [\A r \in Runs : Begins(r) =>
          Cardinality({q \in Runs : db'[q].status \in
                         {"running", "needs_input", "paused"}}) <= Cap]_vars
  BY <1>1, Inductive
<1> QED BY <1>2, Invariance, PTL DEF Spec, PumpRespectsCap

(* A run whose worktree has gone is never spawned, whatever order the      *)
(* losses, retries, crashes and boots come in.                             *)
THEOREM SpawnsInContext == Spec => StartsInContext
<1>1. IInv /\ [Next]_vars => [\A r \in Runs : Begins(r) => r \notin lost]_vars
  BY Inductive DEF Orderly
<1> QED BY <1>1, Invariance, PTL DEF Spec, StartsInContext

(* Without interrupted turns the retry budget is kept: no run waits for an *)
(* attempt that settings.maxSpawnAttempts does not leave it.               *)
THEOREM BudgetKept ==
    ASSUME "interrupt" \notin OperatorOps
    PROVE  Spec => []RetryBudget
<1>1. IInv => RetryBudget
  BY DEF IInv, GoodRows, Good, Quiet, Calm, RetryBudget, Status
<1> QED BY <1>1, Invariance, PTL

(* Without interrupted turns a run in needs_input can always be answered.  *)
THEOREM AlwaysAnswerable ==
    ASSUME "interrupt" \notin OperatorOps
    PROVE  Spec => []NeedsInputAnswerable
<1>1. IInv => NeedsInputAnswerable
  BY DEF IInv, GoodRows, Good, Quiet, Calm, NeedsInputAnswerable, Status
<1> QED BY <1>1, Invariance, PTL

(* Without interrupted turns the queue is first in, first out, after       *)
(* retries and reboots as well.                                            *)
THEOREM FirstInFirstOut ==
    ASSUME "interrupt" \notin OperatorOps
    PROVE  Spec => FifoStart
<1>1. IInv /\ [Next]_vars =>
        [\A r, q \in Runs : Begins(r) /\ q < r => db'[q].status # "queued"]_vars
  BY Inductive DEF Orderly, Calm
<1> QED BY <1>1, Invariance, PTL DEF Spec, FifoStart
=============================================================================
