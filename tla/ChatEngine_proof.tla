-------------------------- MODULE ChatEngine_proof --------------------------
(***************************************************************************)
(* Proofs about ChatEngine, for every number of requests and crashes, and  *)
(* so for any number of turns, of queued messages and of timers.           *)
(*                                                                         *)
(* What a turn does is summed up in three kinds of step (TurnStep): it     *)
(* works on, its handle is being disposed, or it is over.  Each action of  *)
(* a turn is shown to be one of them, and the invariant is shown once to   *)
(* be kept by all three.                                                   *)
(***************************************************************************)
EXTENDS ChatEngine, SequenceTheorems, WellFoundedInduction, TLAPS

Statuses == {"idle", "running", "needs_input", "error"}
Working  == {"opening", "streaming", "waiting", "reviving"}
Phases   == Working \cup {"disposing", "over"}

Turns  == [phase : Phases, fresh : BOOLEAN, aborted : BOOLEAN, revived : BOOLEAN,
           handle : BOOLEAN]
Chats  == [status : Statuses, archived : BOOLEAN, agent : BOOLEAN]
Queued == [status : {"pending", "delivered", "cancelled"}, boot : Nat]
Memory == [turns : Seq(Turns), timers : Seq({"deliver", "interrupt"}), flight : Nat,
           active : Nat, token : Nat, interrupt : BOOLEAN, question : BOOLEAN]

Types ==
    /\ chat \in Chats
    /\ queue \in Seq(Queued)
    /\ mem \in Memory
    /\ starts \in Seq(Nat)
    /\ spent \in [ops : Nat, crashes : Nat]

AtWork(i) == i \in DOMAIN mem.turns /\ mem.turns[i].phase \in Working

(* The handles kept by chat id are those of turns at work.                 *)
Handles ==
    /\ mem.flight # 0 => AtWork(mem.flight)
    /\ mem.active # 0 => AtWork(mem.active)

(* What is pending was queued after all that has started a turn.           *)
InOrder ==
    \A a \in DOMAIN starts :
        /\ starts[a] \in DOMAIN queue
        /\ queue[starts[a]].status = "delivered"
        /\ \A p \in Pending : starts[a] < p
        /\ \A b \in DOMAIN starts : a < b => starts[a] < starts[b]

Boots == \A q \in DOMAIN queue : queue[q].boot <= spent.crashes

(* While turns do not overlap, one is alive, and a chat in error has none  *)
(* at work.                                                                *)
OneTurn ==
    "overlap" \notin odd =>
        /\ \A i, j \in Alive : i = j
        /\ chat.status = "error" => \A i \in DOMAIN mem.turns : ~AtWork(i)

IInv ==
    /\ Types /\ Handles /\ InOrder /\ Boots /\ OneTurn
    /\ StatusIsTrue /\ QueuedIsDelivered

-----------------------------------------------------------------------------
(* Rows and sequences of them *)

Put(s, i, e) == [s EXCEPT ![i] = e]

LEMMA Replaced ==
    ASSUME NEW s \in Seq(Turns), NEW i \in DOMAIN s, NEW e \in Turns
    PROVE  /\ Put(s, i, e) \in Seq(Turns)
           /\ Len(Put(s, i, e)) = Len(s) /\ DOMAIN Put(s, i, e) = DOMAIN s
           /\ Put(s, i, e)[i] = e
           /\ \A j \in DOMAIN s : j # i => Put(s, i, e)[j] = s[j]
<1>1. DOMAIN s = 1..Len(s)
  BY LenProperties
<1>2. i \in 1..Len(s)
  BY <1>1
<1> DEFINE t == [s EXCEPT ![i] = e]
<1>3. t \in Seq(Turns) /\ Len(t) = Len(s) /\ \A j \in 1..Len(s) : t[j] = IF j = i THEN e ELSE s[j]
  BY <1>2, ExceptSeq
<1>4. DOMAIN t = DOMAIN s
  OBVIOUS
<1>5. Put(s, i, e) = t
  BY DEF Put
<1> HIDE DEF t
<1> QED BY <1>1, <1>3, <1>4, <1>5

LEMMA Domains ==
    ASSUME Types
    PROVE  /\ Len(mem.turns) \in Nat /\ DOMAIN mem.turns = 1..Len(mem.turns)
           /\ Len(queue) \in Nat /\ DOMAIN queue = 1..Len(queue)
           /\ Len(starts) \in Nat /\ DOMAIN starts = 1..Len(starts)
           /\ \A i \in DOMAIN mem.turns : mem.turns[i] \in Turns
           /\ \A q \in DOMAIN queue : queue[q] \in Queued
           /\ \A a \in DOMAIN starts : starts[a] \in Nat
<1>1. mem.turns \in Seq(Turns) /\ queue \in Seq(Queued) /\ starts \in Seq(Nat)
  BY DEF Types, Memory
<1>2. /\ Len(mem.turns) \in Nat /\ DOMAIN mem.turns = 1..Len(mem.turns)
      /\ \A i \in 1..Len(mem.turns) : mem.turns[i] \in Turns
  BY <1>1, LenProperties, ElementOfSeq
<1>3. /\ Len(queue) \in Nat /\ DOMAIN queue = 1..Len(queue)
      /\ \A i \in 1..Len(queue) : queue[i] \in Queued
  BY <1>1, LenProperties, ElementOfSeq
<1>4. /\ Len(starts) \in Nat /\ DOMAIN starts = 1..Len(starts)
      /\ \A i \in 1..Len(starts) : starts[i] \in Nat
  BY <1>1, LenProperties, ElementOfSeq
<1> QED BY <1>2, <1>3, <1>4

LEMMA OverIsTurn == NewTurn(FALSE, "over") \in Turns /\ NewTurn(FALSE, "over").phase = "over"
BY DEF NewTurn, Turns, Phases

-----------------------------------------------------------------------------
(* The steps of a turn *)

(* What every step of turn i leaves alone *)
Frame(i) ==
    /\ i \in DOMAIN mem.turns /\ mem.turns[i].phase # "over"
    /\ chat' \in Chats /\ chat'.archived = chat.archived
    /\ mem' \in Memory
    /\ Len(mem'.turns) = Len(mem.turns) /\ DOMAIN mem'.turns = DOMAIN mem.turns
    /\ \A j \in DOMAIN mem.turns : j # i => mem'.turns[j] = mem.turns[j]
    /\ UNCHANGED <<queue, starts, odd, spent>>

(* It works on.  A chat in error runs again only by a turn that was not    *)
(* stopped.                                                                *)
WorksOn(i) ==
    /\ mem.turns[i].phase \in Working /\ mem'.turns[i].phase \in Working
    /\ mem'.flight = mem.flight /\ mem'.active \in {mem.active, i}
    /\ mem'.timers = mem.timers
    /\ mem.question => mem'.question
    /\ \/ chat'.status = chat.status
       \/ /\ chat.status = "error" /\ chat'.status = "running" /\ ~mem.turns[i].aborted
          /\ mem'.turns[i].phase # mem.turns[i].phase
       \/ chat.status = "running" /\ chat'.status = "needs_input" /\ mem'.question

LeavesFlight(i) ==
    /\ mem'.flight = IF mem.flight = i THEN 0 ELSE mem.flight
    /\ mem'.question = mem.question

(* It has ended, and its handle is being disposed. *)
Disposes(i) ==
    /\ mem.turns[i].phase \in Working /\ mem'.turns[i].phase = "disposing"
    /\ LeavesFlight(i) /\ mem'.active = 0
    /\ mem'.timers = mem.timers
    /\ \/ chat'.status = chat.status
       \/ chat.status \in {"running", "needs_input"} /\ chat'.status = "error"

(* It is over, and the chat does not run any more. *)
IsOver(i) ==
    /\ mem'.turns[i].phase = "over"
    /\ LeavesFlight(i)
    /\ mem'.active = 0 \/ (mem.turns[i].phase = "disposing" /\ mem'.active = mem.active)
    /\ mem.timers # <<>> => mem'.timers # <<>>
    /\ chat'.status = "idle" => mem'.timers # <<>>
    /\ \/ chat'.status = chat.status /\ chat.status # "running"
       \/ chat.status = "running" /\ chat'.status = "idle"
       \/ chat.status \in {"running", "needs_input"} /\ chat'.status = "error"

TurnStep(i) == Frame(i) /\ (WorksOn(i) \/ Disposes(i) \/ IsOver(i))

(* What is appended to the timers, if anything *)
LEMMA MoreTimers ==
    ASSUME NEW s \in Seq({"deliver", "interrupt"}),
           NEW t \in {<<"deliver">>, <<"interrupt">>, <<>>}
    PROVE  /\ s \o t \in Seq({"deliver", "interrupt"})
           /\ s # <<>> => s \o t # <<>>
           /\ t # <<>> => s \o t # <<>>
<1>1. /\ <<"deliver">> \in Seq({"deliver", "interrupt"}) /\ <<>> \in Seq({"deliver", "interrupt"})
      /\ <<"interrupt">> \in Seq({"deliver", "interrupt"})
  OBVIOUS
<1>1a. t \in Seq({"deliver", "interrupt"})
  BY <1>1
<1>2. /\ s \o t \in Seq({"deliver", "interrupt"})
      /\ Len(s \o t) = Len(s) + Len(t)
  BY <1>1a, ConcatProperties
<1>3. Len(s) \in Nat /\ Len(t) \in Nat /\ (s # <<>> => Len(s) > 0) /\ (t # <<>> => Len(t) > 0)
  BY <1>1a, EmptySeq, LenProperties
<1>4. Len(<<>>) = 0
  OBVIOUS
<1> QED BY <1>2, <1>3, <1>4

LEMMA SettleEffect ==
    ASSUME NEW c \in Chats, NEW m \in Memory, NEW i \in DOMAIN m.turns, Settle(i, c, m)
    PROVE  /\ chat' \in Chats /\ chat'.archived = c.archived
           /\ chat'.status = IF c.status = "running" THEN "idle" ELSE c.status
           /\ mem' \in Memory
           /\ Len(mem'.turns) = Len(m.turns) /\ DOMAIN mem'.turns = DOMAIN m.turns
           /\ mem'.turns[i].phase = "over"
           /\ \A j \in DOMAIN m.turns : j # i => mem'.turns[j] = m.turns[j]
           /\ mem'.flight = m.flight /\ mem'.active = m.active /\ mem'.question = m.question
           /\ m.timers # <<>> => mem'.timers # <<>>
           /\ chat'.status = "idle" => mem'.timers # <<>>
<1> DEFINE to == IF c.status = "running" THEN "idle" ELSE c.status
           more == IF m.interrupt THEN <<"interrupt">>
                   ELSE IF to = "idle" THEN <<"deliver">> ELSE <<>>
           end == NewTurn(FALSE, "over")
           over == Put(m.turns, i, end)
<1>1. chat' = [c EXCEPT !.status = to]
  BY DEF Settle
<1>2. mem' = [m EXCEPT !.turns = over, !.token = 0, !.interrupt = FALSE,
                       !.timers = m.timers \o more]
  BY DEF Settle, Put
<1>3. m.turns \in Seq(Turns) /\ m.timers \in Seq({"deliver", "interrupt"})
  BY DEF Memory
<1>3a. end \in Turns /\ end.phase = "over"
  BY OverIsTurn
<1> HIDE DEF end
<1>3b. /\ over \in Seq(Turns) /\ Len(over) = Len(m.turns) /\ DOMAIN over = DOMAIN m.turns
       /\ over[i] = end
       /\ \A j \in DOMAIN m.turns : j # i => over[j] = m.turns[j]
  <2>1. \A s \in Seq(Turns) : i \in DOMAIN s =>
           /\ Put(s, i, end) \in Seq(Turns)
           /\ Len(Put(s, i, end)) = Len(s) /\ DOMAIN Put(s, i, end) = DOMAIN s
           /\ Put(s, i, end)[i] = end
           /\ \A j \in DOMAIN s : j # i => Put(s, i, end)[j] = s[j]
    BY <1>3a, Replaced
  <2> QED BY <1>3, <2>1
<1> HIDE DEF over
<1>4. /\ over \in Seq(Turns) /\ Len(over) = Len(m.turns) /\ DOMAIN over = DOMAIN m.turns
      /\ over[i].phase = "over"
      /\ \A j \in DOMAIN m.turns : j # i => over[j] = m.turns[j]
  BY <1>3a, <1>3b
<1>5. /\ m.timers \o more \in Seq({"deliver", "interrupt"})
      /\ m.timers # <<>> => m.timers \o more # <<>>
      /\ more # <<>> => m.timers \o more # <<>>
  BY <1>3, MoreTimers
<1>6. to = "idle" => more # <<>>
  OBVIOUS
<1> HIDE DEF more
<1>7. /\ mem' \in Memory /\ mem'.turns = over /\ mem'.timers = m.timers \o more
      /\ mem'.flight = m.flight /\ mem'.active = m.active /\ mem'.question = m.question
  BY <1>2, <1>4, <1>5 DEF Memory
<1>8. chat' \in Chats /\ chat'.archived = c.archived /\ chat'.status = to
  BY <1>1 DEF Chats, Statuses
<1> QED BY <1>4, <1>5, <1>6, <1>7, <1>8

(* The row of a turn of m is replaced by e. *)
LEMMA PutTurn ==
    ASSUME NEW m \in Memory, NEW i \in DOMAIN m.turns, NEW e \in Turns
    PROVE  LET t == Put(m.turns, i, e)
           IN /\ t \in Seq(Turns) /\ Len(t) = Len(m.turns) /\ DOMAIN t = DOMAIN m.turns
              /\ t[i] = e
              /\ \A j \in DOMAIN m.turns : j # i => t[j] = m.turns[j]
<1> DEFINE t == Put(m.turns, i, e)
<1>1. m.turns \in Seq(Turns)
  BY DEF Memory
<1>2. t \in Seq(Turns)
  BY <1>1, Replaced
<1>3. Len(t) = Len(m.turns)
  BY <1>1, Replaced
<1>4. DOMAIN t = DOMAIN m.turns
  BY DEF Put
<1>5. t[i] = e
  BY <1>1, Replaced
<1>6. \A j \in DOMAIN m.turns : j # i => t[j] = m.turns[j]
  BY <1>1, Replaced
<1> QED BY <1>2, <1>3, <1>4, <1>5, <1>6

(* The finally of a turn disposes its handle or settles. *)
LEMMA FinishEffect ==
    ASSUME Types, NEW i \in DOMAIN mem.turns, mem.turns[i].phase \in Working,
           NEW c \in Chats, c.archived = chat.archived,
           \/ c.status = chat.status
           \/ chat.status \in {"running", "needs_input"} /\ c.status = "error",
           Finish(i, c), UNCHANGED <<queue, starts, odd, spent>>
    PROVE  TurnStep(i)
<1> DEFINE m == [mem EXCEPT !.flight = IF @ = i THEN 0 ELSE @, !.active = 0]
           gone == [mem.turns[i] EXCEPT !.phase = "disposing"]
<1>1. mem \in Memory
  BY DEF Types
<1>2. /\ m \in Memory /\ m.turns = mem.turns /\ m.active = 0
      /\ m.flight = (IF mem.flight = i THEN 0 ELSE mem.flight)
      /\ m.timers = mem.timers /\ m.question = mem.question
  BY <1>1 DEF Memory
<1>3. mem.turns[i] \in Turns /\ mem.turns[i].phase # "over"
  BY Domains DEF Working
<1>4. Finish(i, c) = IF m.turns[i].handle
                     THEN chat' = c /\ mem' = [m EXCEPT !.turns[i].phase = "disposing"]
                     ELSE Settle(i, c, m)
  BY DEF Finish
<1> HIDE DEF m
<1>5. CASE m.turns[i].handle
  <2>1. chat' = c /\ mem' = [m EXCEPT !.turns[i].phase = "disposing"]
    BY <1>4, <1>5
  <2>2. gone \in Turns /\ gone.phase = "disposing"
    BY <1>3 DEF Turns, Phases
  <2> HIDE DEF gone
  <2>3. mem' = [m EXCEPT !.turns = Put(m.turns, i, gone)]
    BY <2>1, <1>2 DEF gone, Put
  <2>4. /\ Put(m.turns, i, gone) \in Seq(Turns)
        /\ Len(Put(m.turns, i, gone)) = Len(m.turns)
        /\ DOMAIN Put(m.turns, i, gone) = DOMAIN m.turns
        /\ Put(m.turns, i, gone)[i] = gone
        /\ \A j \in DOMAIN m.turns : j # i => Put(m.turns, i, gone)[j] = m.turns[j]
    BY <1>2, <2>2, PutTurn
  <2>5. /\ mem' \in Memory /\ mem'.turns = Put(m.turns, i, gone)
        /\ mem'.flight = m.flight /\ mem'.active = m.active
        /\ mem'.timers = m.timers /\ mem'.question = m.question
    BY <2>3, <2>4, <1>2 DEF Memory
  <2>6. Frame(i)
    BY <2>1, <2>4, <2>5, <1>2, <1>3 DEF Frame
  <2>7. Disposes(i)
    BY <2>1, <2>2, <2>4, <2>5, <1>2 DEF Disposes, LeavesFlight
  <2> QED BY <2>6, <2>7 DEF TurnStep
<1>6. CASE ~m.turns[i].handle
  <2>1. Settle(i, c, m)
    BY <1>4, <1>6
  <2>2. /\ chat' \in Chats /\ chat'.archived = c.archived
        /\ chat'.status = IF c.status = "running" THEN "idle" ELSE c.status
        /\ mem' \in Memory
        /\ Len(mem'.turns) = Len(m.turns) /\ DOMAIN mem'.turns = DOMAIN m.turns
        /\ mem'.turns[i].phase = "over"
        /\ \A j \in DOMAIN m.turns : j # i => mem'.turns[j] = m.turns[j]
        /\ mem'.flight = m.flight /\ mem'.active = m.active /\ mem'.question = m.question
        /\ m.timers # <<>> => mem'.timers # <<>>
        /\ chat'.status = "idle" => mem'.timers # <<>>
    BY <1>2, <2>1, SettleEffect
  <2>3. Frame(i)
    BY <2>2, <1>2, <1>3 DEF Frame
  <2>4. IsOver(i)
    BY <2>2, <1>2 DEF IsOver, LeavesFlight
  <2> QED BY <2>3, <2>4 DEF TurnStep
<1> QED BY <1>5, <1>6

(* A turn that works on in another phase, with another row e.              *)
LEMMA GoesOn ==
    ASSUME Types, NEW i \in DOMAIN mem.turns, mem.turns[i].phase \in Working,
           NEW e \in Turns, e.phase \in Working,
           NEW a \in {mem.active, i},
           mem' = [mem EXCEPT !.turns = Put(mem.turns, i, e), !.active = a],
           chat' \in Chats, chat'.archived = chat.archived,
           \/ chat'.status = chat.status
           \/ /\ chat.status = "error" /\ chat'.status = "running" /\ ~mem.turns[i].aborted
              /\ e.phase # mem.turns[i].phase,
           UNCHANGED <<queue, starts, odd, spent>>
    PROVE  TurnStep(i)
<1>1. mem \in Memory
  BY DEF Types
<1>2. /\ Put(mem.turns, i, e) \in Seq(Turns)
      /\ Len(Put(mem.turns, i, e)) = Len(mem.turns)
      /\ DOMAIN Put(mem.turns, i, e) = DOMAIN mem.turns
      /\ Put(mem.turns, i, e)[i] = e
      /\ \A j \in DOMAIN mem.turns : j # i => Put(mem.turns, i, e)[j] = mem.turns[j]
  BY <1>1, PutTurn
<1>3. i \in Nat
  BY Domains
<1>4. a \in Nat
  BY <1>1, <1>3 DEF Memory
<1>5. /\ mem' \in Memory /\ mem'.turns = Put(mem.turns, i, e)
      /\ mem'.flight = mem.flight /\ mem'.active = a
      /\ mem'.timers = mem.timers /\ mem'.question = mem.question
  BY <1>1, <1>2, <1>4 DEF Memory
<1>6. mem.turns[i].phase # "over"
  BY DEF Working
<1>7. Frame(i)
  BY <1>2, <1>5, <1>6 DEF Frame
<1>8. WorksOn(i)
  BY <1>2, <1>5 DEF WorksOn
<1> QED BY <1>7, <1>8 DEF TurnStep

LEMMA ReviveStep ==
    ASSUME Types, NEW i \in DOMAIN mem.turns, mem.turns[i].phase \in Working,
           Revive(i), UNCHANGED <<queue, starts, odd, spent>>
    PROVE  TurnStep(i)
<1> DEFINE e == [mem.turns[i] EXCEPT !.phase = "reviving"]
<1>1. mem.turns[i] \in Turns
  BY Domains
<1>2. e \in Turns /\ e.phase \in Working
  BY <1>1 DEF Turns, Phases, Working
<1>3. mem \in Memory /\ chat \in Chats
  BY DEF Types
<1>4. chat' = chat /\ mem' = [mem EXCEPT !.turns = Put(mem.turns, i, e), !.active = mem.active]
  BY <1>3 DEF Revive, Put, Memory
<1> HIDE DEF e
<1> QED BY <1>2, <1>3, <1>4, GoesOn

LEMMA OpenedStep ==
    ASSUME Types, NEW i \in DOMAIN mem.turns, Opened(i)
    PROVE  TurnStep(i)
<1> DEFINE e == [mem.turns[i] EXCEPT !.phase = "streaming", !.handle = TRUE]
<1>1. mem.turns[i] \in Turns
  BY Domains
<1>2. e \in Turns /\ e.phase \in Working
  BY <1>1 DEF Turns, Phases, Working
<1>3. mem \in Memory /\ chat \in Chats
  BY DEF Types
<1>4. mem' = [mem EXCEPT !.turns = Put(mem.turns, i, e), !.active = i]
  BY <1>3, <1>1 DEF Opened, Attach, Put, Memory, Turns
<1>5. chat' \in Chats /\ chat'.archived = chat.archived /\ chat'.status = chat.status
  BY <1>3 DEF Opened, Attach, Chats
<1>6. mem.turns[i].phase \in Working /\ UNCHANGED <<queue, starts, odd, spent>>
  BY DEF Opened, Working
<1> HIDE DEF e
<1> QED BY <1>2, <1>4, <1>5, <1>6, GoesOn

LEMMA FailedIs ==
    ASSUME Types, NEW i \in DOMAIN mem.turns
    PROVE  /\ Failed(i) \in Chats /\ Failed(i).archived = chat.archived
           /\ \/ Failed(i).status = chat.status
              \/ chat.status \in {"running", "needs_input"} /\ Failed(i).status = "error"
BY DEF Failed, Types, Chats, Statuses

LEMMA ErroredIs ==
    ASSUME Types
    PROVE  /\ Errored \in Chats /\ Errored.archived = chat.archived
           /\ \/ Errored.status = chat.status
              \/ chat.status \in {"running", "needs_input"} /\ Errored.status = "error"
BY DEF Errored, Types, Chats, Statuses

LEMMA ThrowsStep ==
    ASSUME Types, NEW i \in DOMAIN mem.turns, Throws(i)
    PROVE  TurnStep(i)
<1>1. mem.turns[i].phase \in Working /\ UNCHANGED <<queue, starts, odd, spent>>
  BY DEF Throws, Working
<1>2. CASE Finish(i, Failed(i))
  BY <1>1, <1>2, FailedIs, FinishEffect
<1>3. CASE Revive(i)
  BY <1>1, <1>3, ReviveStep
<1> QED BY <1>2, <1>3 DEF Throws

LEMMA RevivedStep ==
    ASSUME Types, NEW i \in DOMAIN mem.turns, Revived(i)
    PROVE  TurnStep(i)
<1>1. mem.turns[i].phase \in Working /\ UNCHANGED <<queue, starts, odd, spent>>
  BY DEF Revived, Working
<1>2. mem \in Memory /\ chat \in Chats /\ mem.turns[i] \in Turns
  BY Domains DEF Types
<1>3. CASE ~mem.turns[i].aborted
  <2> DEFINE e == [mem.turns[i] EXCEPT !.phase = "streaming", !.revived = TRUE, !.handle = TRUE]
  <2>1. e \in Turns /\ e.phase \in Working /\ e.phase = "streaming"
    BY <1>2 DEF Turns, Phases, Working
  <2>2. mem' = [mem EXCEPT !.turns = Put(mem.turns, i, e), !.active = i]
    BY <1>2, <1>3 DEF Revived, MayRevive, Put, Memory
  <2>3. /\ chat' \in Chats /\ chat'.archived = chat.archived
        /\ chat'.status = IF chat.status = "error" THEN "running" ELSE chat.status
    BY <1>2, <1>3 DEF Revived, MayRevive, Chats, Statuses
  <2>4. mem.turns[i].phase = "reviving"
    BY DEF Revived
  <2> HIDE DEF e
  <2> QED BY <1>1, <1>3, <2>1, <2>2, <2>3, <2>4, GoesOn
<1>4. CASE mem.turns[i].aborted
  <2>1. Finish(i, chat)
    BY <1>4 DEF Revived, MayRevive
  <2> QED BY <1>1, <1>2, <2>1, FinishEffect
<1> QED BY <1>3, <1>4

LEMMA ReviveFailsStep ==
    ASSUME Types, NEW i \in DOMAIN mem.turns, ReviveFails(i)
    PROVE  TurnStep(i)
<1>1. mem.turns[i].phase \in Working /\ UNCHANGED <<queue, starts, odd, spent>>
  BY DEF ReviveFails, Working
<1>2. Finish(i, Failed(i))
  BY DEF ReviveFails
<1> QED BY <1>1, <1>2, FailedIs, FinishEffect

LEMMA StreamEndsStep ==
    ASSUME Types, NEW i \in DOMAIN mem.turns, StreamEnds(i)
    PROVE  TurnStep(i)
<1>1. mem.turns[i].phase \in Working /\ UNCHANGED <<queue, starts, odd, spent>>
  BY DEF StreamEnds, Working
<1>2. mem \in Memory /\ chat \in Chats /\ mem.turns[i] \in Turns
  BY Domains DEF Types
<1>3. CASE mem.turns[i].aborted
  <2>1. Finish(i, chat)
    BY <1>3 DEF StreamEnds
  <2> QED BY <1>1, <1>2, <2>1, FinishEffect
<1>4. CASE ~mem.turns[i].aborted
  <2> DEFINE e == [mem.turns[i] EXCEPT !.phase = "waiting"]
  <2>1. e \in Turns /\ e.phase \in Working
    BY <1>2 DEF Turns, Phases, Working
  <2>2. chat' = chat /\ mem' = [mem EXCEPT !.turns = Put(mem.turns, i, e), !.active = mem.active]
    BY <1>2, <1>4 DEF StreamEnds, Put, Memory
  <2> HIDE DEF e
  <2> QED BY <1>1, <1>2, <2>1, <2>2, GoesOn
<1> QED BY <1>3, <1>4

LEMMA ResultStep ==
    ASSUME Types, NEW i \in DOMAIN mem.turns, Result(i)
    PROVE  TurnStep(i)
<1>1. mem.turns[i].phase \in Working /\ UNCHANGED <<queue, starts, odd, spent>>
  BY DEF Result, Working
<1>2. chat \in Chats
  BY DEF Types
<1>3. CASE Finish(i, chat)
  BY <1>1, <1>2, <1>3, FinishEffect
<1>4. CASE Finish(i, Errored)
  BY <1>1, <1>4, ErroredIs, FinishEffect
<1>5. CASE Revive(i)
  BY <1>1, <1>5, ReviveStep
<1> QED BY <1>3, <1>4, <1>5 DEF Result

(* A turn whose handle is disposed of is not the one in flight.            *)
LEMMA DisposedStep ==
    ASSUME Types, Handles, NEW i \in DOMAIN mem.turns, Disposed(i)
    PROVE  TurnStep(i)
<1>1. /\ mem.turns[i].phase = "disposing" /\ Settle(i, chat, mem)
      /\ UNCHANGED <<queue, starts, odd, spent>>
  BY DEF Disposed
<1>2. mem \in Memory /\ chat \in Chats
  BY DEF Types
<1>3. mem.flight # i
  <2>1. i # 0
    BY Domains
  <2> QED BY <1>1, <2>1 DEF Handles, AtWork, Working
<1>4. /\ chat' \in Chats /\ chat'.archived = chat.archived
      /\ chat'.status = IF chat.status = "running" THEN "idle" ELSE chat.status
      /\ mem' \in Memory
      /\ Len(mem'.turns) = Len(mem.turns) /\ DOMAIN mem'.turns = DOMAIN mem.turns
      /\ mem'.turns[i].phase = "over"
      /\ \A j \in DOMAIN mem.turns : j # i => mem'.turns[j] = mem.turns[j]
      /\ mem'.flight = mem.flight /\ mem'.active = mem.active /\ mem'.question = mem.question
      /\ mem.timers # <<>> => mem'.timers # <<>>
      /\ chat'.status = "idle" => mem'.timers # <<>>
  BY <1>1, <1>2, SettleEffect
<1>5. Frame(i)
  BY <1>1, <1>4 DEF Frame
<1>6. IsOver(i)
  BY <1>1, <1>3, <1>4 DEF IsOver, LeavesFlight
<1> QED BY <1>5, <1>6 DEF TurnStep

LEMMA AskStep ==
    ASSUME Types, NEW i \in DOMAIN mem.turns, Ask(i)
    PROVE  TurnStep(i)
<1>1. mem \in Memory /\ chat \in Chats
  BY DEF Types
<1>2. /\ mem.turns[i].phase = "streaming" /\ chat.status = "running"
      /\ UNCHANGED <<queue, starts, odd, spent>>
  BY DEF Ask
<1>3. /\ mem' \in Memory /\ mem'.turns = mem.turns /\ mem'.question = TRUE
      /\ mem'.flight = mem.flight /\ mem'.active = mem.active /\ mem'.timers = mem.timers
  BY <1>1 DEF Ask, Memory
<1>4. chat' \in Chats /\ chat'.archived = chat.archived /\ chat'.status = "needs_input"
  BY <1>1 DEF Ask, Chats, Statuses
<1>5. Frame(i)
  BY <1>2, <1>3, <1>4 DEF Frame
<1>6. WorksOn(i)
  BY <1>2, <1>3, <1>4 DEF WorksOn, Working
<1> QED BY <1>5, <1>6 DEF TurnStep

LEMMA TurnIsStep ==
    ASSUME Types, Handles, NEW i \in DOMAIN mem.turns, Turn(i)
    PROVE  TurnStep(i)
BY OpenedStep, ThrowsStep, RevivedStep, ReviveFailsStep, StreamEndsStep, ResultStep,
   DisposedStep, AskStep DEF Turn

-----------------------------------------------------------------------------
(* The invariant is kept by the steps of a turn *)

(* The chat goes on as it was, with what StopIsFinal asks for.             *)
Final ==
    (chat.status \in {"idle", "error"} /\ chat'.status = "running")
    => \/ Len(mem'.turns) > Len(mem.turns)
       \/ \E i \in DOMAIN mem.turns : mem'.turns[i] # mem.turns[i] /\ ~mem.turns[i].aborted

LEMMA SameQueue ==
    ASSUME IInv, UNCHANGED <<queue, starts>>, spent' \in [ops : Nat, crashes : Nat],
           spent'.crashes >= spent.crashes
    PROVE  InOrder' /\ Boots'
<1>1. queue' = queue /\ starts' = starts /\ Pending' = Pending
  BY DEF Pending
<1>2. InOrder'
  BY <1>1 DEF IInv, InOrder
<1>3. \A q \in DOMAIN queue : queue[q].boot \in Nat
  BY Domains DEF IInv, Queued
<1>4. Boots'
  BY <1>1, <1>3 DEF IInv, Boots, Types
<1> QED BY <1>2, <1>4

LEMMA TurnKeeps ==
    ASSUME IInv, NEW i \in DOMAIN mem.turns, TurnStep(i)
    PROVE  IInv' /\ Final
<1>1. Frame(i) /\ (WorksOn(i) \/ Disposes(i) \/ IsOver(i))
  BY DEF TurnStep
<1>2. /\ mem.turns[i].phase # "over" /\ i \in Alive
      /\ queue' = queue /\ starts' = starts /\ odd' = odd /\ spent' = spent
      /\ DOMAIN mem'.turns = DOMAIN mem.turns
      /\ \A j \in DOMAIN mem.turns : j # i => mem'.turns[j] = mem.turns[j]
      /\ Pending' = Pending
  BY <1>1 DEF Frame, Alive, Pending
<1>3. Types'
  BY <1>1, <1>2 DEF Frame, IInv, Types
<1>4. Handles'
  <2>1. CASE WorksOn(i)
    BY <1>2, <2>1 DEF IInv, Handles, AtWork, WorksOn
  <2>2. CASE Disposes(i)
    BY <1>2, <2>2 DEF IInv, Handles, AtWork, Disposes, LeavesFlight
  <2>3. CASE IsOver(i)
    <3>1. mem.turns[i].phase = "disposing" => mem.active = 0 \/ mem.active # i
      BY DEF IInv, Handles, AtWork, Working
    <3>2. mem'.active # 0 => mem'.active = mem.active /\ mem.active # i
      BY <2>3, <3>1 DEF IsOver
    <3> QED BY <1>2, <2>3, <3>2 DEF IInv, Handles, AtWork, IsOver, LeavesFlight
  <2> QED BY <1>1, <2>1, <2>2, <2>3
<1>5. InOrder' /\ Boots'
  <2>1. spent' \in [ops : Nat, crashes : Nat] /\ spent'.crashes >= spent.crashes
    BY <1>2 DEF IInv, Types
  <2> QED BY <1>2, <2>1, SameQueue
<1>6. Alive' \subseteq Alive
  BY <1>2 DEF Alive
<1>7. OneTurn'
  <2> SUFFICES ASSUME "overlap" \notin odd
               PROVE  /\ \A j, k \in Alive' : j = k
                      /\ chat'.status = "error" => \A j \in DOMAIN mem'.turns : ~AtWork(j)'
    BY <1>2 DEF OneTurn
  <2>1. /\ \A j, k \in Alive : j = k
        /\ chat.status = "error" => \A j \in DOMAIN mem.turns : ~AtWork(j)
    BY DEF IInv, OneTurn
  <2>2. \A j \in DOMAIN mem.turns : j # i => mem'.turns[j].phase = "over"
    BY <1>2, <2>1 DEF Alive
  <2>3. chat'.status = "error" => mem'.turns[i].phase \notin Working
    BY <1>1, <2>1 DEF WorksOn, Disposes, IsOver, AtWork, Working
  <2>4. chat'.status = "error" => \A j \in DOMAIN mem'.turns : ~AtWork(j)'
    BY <1>2, <2>2, <2>3 DEF AtWork, Working
  <2> QED BY <1>6, <2>1, <2>4
<1>8. StatusIsTrue'
  <2> SUFFICES ASSUME odd \cap {"overlap", "orphan"} = {}
               PROVE  /\ chat'.status = "running" => Alive' # {} /\ ~chat'.archived
                      /\ chat'.status = "needs_input" => mem'.question /\ ~chat'.archived
    BY <1>2 DEF StatusIsTrue
  <2>1. /\ chat.status = "running" => Alive # {} /\ ~chat.archived
        /\ chat.status = "needs_input" => mem.question /\ ~chat.archived
        /\ chat.status = "error" => \A j \in DOMAIN mem.turns : ~AtWork(j)
    BY DEF IInv, StatusIsTrue, OneTurn
  <2>2. chat'.archived = chat.archived
    BY <1>1 DEF Frame
  <2>3. CASE WorksOn(i)
    <3>1. i \in Alive'
      BY <1>2, <2>3 DEF WorksOn, Alive, Working
    <3>2. chat.status # "error"
      BY <1>2, <2>1, <2>3 DEF WorksOn, AtWork
    <3> QED BY <2>1, <2>2, <2>3, <3>1, <3>2 DEF WorksOn
  <2>4. CASE Disposes(i)
    <3>1. i \in Alive'
      BY <1>2, <2>4 DEF Disposes, Alive
    <3> QED BY <2>1, <2>2, <2>4, <3>1 DEF Disposes, LeavesFlight
  <2>5. CASE IsOver(i)
    BY <2>1, <2>2, <2>5 DEF IsOver, LeavesFlight
  <2> QED BY <1>1, <2>3, <2>4, <2>5
<1>9. QueuedIsDelivered'
  <2> SUFFICES ASSUME chat'.status = "idle", mem'.timers = <<>>, Alive' = {}
               PROVE  FALSE
    BY DEF QueuedIsDelivered
  <2>1. mem'.turns[i].phase = "over"
    BY <1>2 DEF Alive
  <2>2. IsOver(i)
    BY <1>1, <2>1 DEF WorksOn, Disposes, Working
  <2> QED BY <2>2 DEF IsOver
<1>10. Final
  BY <1>1, <1>2 DEF Final, WorksOn, Disposes, IsOver
<1> QED BY <1>3, <1>4, <1>5, <1>7, <1>8, <1>9, <1>10 DEF IInv

-----------------------------------------------------------------------------
(* A turn starts *)

LEMMA AppendTurn ==
    ASSUME NEW s \in Seq(Turns), NEW e \in Turns
    PROVE  /\ Append(s, e) \in Seq(Turns) /\ Len(Append(s, e)) = Len(s) + 1
           /\ DOMAIN Append(s, e) = 1..(Len(s) + 1)
           /\ Append(s, e)[Len(s) + 1] = e
           /\ \A i \in 1..Len(s) : Append(s, e)[i] = s[i]
<1>1. /\ Append(s, e) \in Seq(Turns) /\ Len(Append(s, e)) = Len(s) + 1
      /\ Append(s, e)[Len(s) + 1] = e
      /\ \A i \in 1..Len(s) : Append(s, e)[i] = s[i]
  BY AppendProperties
<1>2. DOMAIN Append(s, e) = 1..(Len(s) + 1)
  BY <1>1, LenProperties
<1> QED BY <1>1, <1>2

LEMMA StartEffect ==
    ASSUME IInv, NEW m \in Memory,
           m.turns = mem.turns, m.flight = mem.flight, m.active = mem.active,
           m.question = mem.question,
           Takes(chat), Start(chat, m)
    PROVE  /\ chat' \in Chats /\ mem' \in Memory /\ chat'.status = "running"
           /\ Len(mem'.turns) > Len(mem.turns)
           /\ Handles' /\ OneTurn' /\ StatusIsTrue'
<1> DEFINE n == Len(m.turns) + 1
           t == NewTurn(~chat.agent,
                        IF chat.agent /\ chat.status = "error" THEN "reviving" ELSE "opening")
           ts == Append(m.turns, t)
<1>1. chat \in Chats /\ ~chat.archived
  BY DEF IInv, Types, Takes
<1>2. /\ t \in Turns /\ t.phase \in Working
  BY <1>1 DEF NewTurn, Turns, Phases, Working, Chats
<1>3. chat' = [chat EXCEPT !.status = "running"]
  BY DEF Start
<1>4. mem' = [m EXCEPT !.turns = ts, !.flight = n, !.token = n]
  BY DEF Start
<1>5. odd' = IF Alive = {} THEN odd ELSE odd \cup {"overlap"}
  BY DEF Start
<1> HIDE DEF t
<1>6. m.turns \in Seq(Turns)
  BY DEF Memory
<1>7. /\ ts \in Seq(Turns) /\ Len(ts) = n /\ DOMAIN ts = 1..n /\ ts[n] = t
      /\ \A i \in 1..Len(m.turns) : ts[i] = m.turns[i]
  BY <1>2, <1>6, AppendTurn
<1>8. Len(m.turns) \in Nat /\ DOMAIN m.turns = 1..Len(m.turns)
  BY <1>6, LenProperties
<1>8a. n \in Nat /\ n = Len(m.turns) + 1
  BY <1>8
<1> HIDE DEF ts, n
<1>9. /\ mem' \in Memory /\ mem'.turns = ts /\ mem'.flight = n /\ mem'.active = m.active
      /\ mem'.question = m.question
  BY <1>4, <1>7, <1>8a DEF Memory
<1>10. chat' \in Chats /\ chat'.status = "running" /\ ~chat'.archived
  BY <1>1, <1>3 DEF Chats, Statuses
<1>11. AtWork(n)'
  BY <1>2, <1>7, <1>8, <1>8a, <1>9 DEF AtWork
<1>12. \A i \in DOMAIN mem.turns : i \in DOMAIN mem'.turns /\ mem'.turns[i] = mem.turns[i]
  BY <1>7, <1>8, <1>8a, <1>9
<1>13. Handles'
  <2>1. mem'.active # 0 => AtWork(mem.active)
    BY <1>9 DEF IInv, Handles
  <2> QED BY <1>9, <1>11, <1>12, <2>1 DEF Handles, AtWork
<1>14. n \in Alive'
  BY <1>11 DEF Alive, AtWork, Working
<1>15. Alive = {} => Alive' \subseteq {n}
  BY <1>7, <1>8, <1>8a, <1>9 DEF Alive
<1>16. OneTurn'
  <2> SUFFICES ASSUME "overlap" \notin odd'
               PROVE  \A i, j \in Alive' : i = j
    BY <1>10 DEF OneTurn
  <2> QED BY <1>5, <1>15
<1>17. StatusIsTrue'
  BY <1>10, <1>14 DEF StatusIsTrue
<1>18. Len(mem'.turns) > Len(mem.turns)
  BY <1>7, <1>8, <1>8a, <1>9
<1> QED BY <1>9, <1>10, <1>13, <1>16, <1>17, <1>18

-----------------------------------------------------------------------------
(* The timers *)

(* A set of numbers has a least one. *)
LEMMA Least ==
    ASSUME NEW T, T \subseteq Nat, T # {}
    PROVE  \E x \in T : \A y \in T : x <= y
<1> DEFINE R == OpToRel(<, Nat)
<1>1. \A x, y \in Nat : y < x => <<y, x>> \in R
  BY DEF OpToRel
<1>2. IsWellFoundedOn(R, Nat)
  BY NatLessThanWellFounded
<1> HIDE DEF R
<1>3. PICK x \in T : \A y \in T : ~ (<<y, x>> \in R)
  BY <1>2, WFMin
<1>4. \A y \in T : x <= y
  <2> SUFFICES ASSUME NEW y \in T PROVE x <= y
    OBVIOUS
  <2>1. ~(y < x)
    BY <1>1, <1>3
  <2> QED BY <2>1
<1> QED BY <1>4

LEMMA OldestIsFirst ==
    ASSUME Types, Pending # {}
    PROVE  Oldest \in Pending /\ \A p \in Pending : Oldest <= p
<1>1. Pending \subseteq Nat
  BY Domains DEF Pending
<1>2. \E q \in Pending : \A p \in Pending : q <= p
  BY <1>1, Least
<1> QED BY <1>2 DEF Oldest

LEMMA RowReplaced ==
    ASSUME NEW s \in Seq(Queued), NEW i \in DOMAIN s, NEW e \in Queued
    PROVE  Put(s, i, e) \in Seq(Queued)
<1>1. i \in 1..Len(s)
  BY LenProperties
<1>2. [s EXCEPT ![i] = e] \in Seq(Queued)
  BY <1>1, ExceptSeq
<1> QED BY <1>2 DEF Put

LEMMA AppendNumber ==
    ASSUME NEW s \in Seq(Nat), NEW e \in Nat
    PROVE  /\ Append(s, e) \in Seq(Nat) /\ Len(Append(s, e)) = Len(s) + 1
           /\ DOMAIN Append(s, e) = 1..(Len(s) + 1)
           /\ Append(s, e)[Len(s) + 1] = e
           /\ \A i \in 1..Len(s) : Append(s, e)[i] = s[i]
<1>1. /\ Append(s, e) \in Seq(Nat) /\ Len(Append(s, e)) = Len(s) + 1
      /\ Append(s, e)[Len(s) + 1] = e
      /\ \A i \in 1..Len(s) : Append(s, e)[i] = s[i]
  BY AppendProperties
<1>2. DOMAIN Append(s, e) = 1..(Len(s) + 1)
  BY <1>1, LenProperties
<1> QED BY <1>1, <1>2

(* What a timer leaves of the memory. *)
SameTurns(m) ==
    /\ m \in Memory /\ m.turns = mem.turns
    /\ m.flight = mem.flight /\ m.active = mem.active /\ m.question = mem.question

LEMMA TimerTaken ==
    ASSUME Types, mem.timers # <<>>
    PROVE  SameTurns([mem EXCEPT !.timers = Tail(@)])
<1>1. mem \in Memory
  BY DEF Types
<1>2. mem.timers \in Seq({"deliver", "interrupt"})
  BY <1>1 DEF Memory
<1>3. Tail(mem.timers) \in Seq({"deliver", "interrupt"})
  BY <1>2, HeadTailProperties
<1> QED BY <1>1, <1>3 DEF SameTurns, Memory

(* A timer that starts nothing disturbs nothing. *)
LEMMA TimerIdle ==
    ASSUME IInv, NEW m, SameTurns(m), mem' = m, chat' = chat,
           odd' \in {odd, odd \cup {"refused"}}
    PROVE  Handles' /\ OneTurn' /\ StatusIsTrue' /\ Alive' = Alive
<1>1. mem'.turns = mem.turns /\ mem'.flight = mem.flight /\ mem'.active = mem.active
      /\ mem'.question = mem.question
  BY DEF SameTurns
<1>2. Alive' = Alive
  BY <1>1 DEF Alive
<1>3. Handles'
  BY <1>1 DEF IInv, Handles, AtWork
<1>4. OneTurn'
  <2>1. "overlap" \notin odd' <=> "overlap" \notin odd
    OBVIOUS
  <2>2. (\A i \in DOMAIN mem'.turns : ~AtWork(i)') <=> (\A i \in DOMAIN mem.turns : ~AtWork(i))
    BY <1>1 DEF AtWork
  <2> QED BY <1>2, <2>1, <2>2 DEF IInv, OneTurn
<1>5. StatusIsTrue'
  <2>1. odd' \cap {"overlap", "orphan"} = odd \cap {"overlap", "orphan"}
    OBVIOUS
  <2> QED BY <1>1, <1>2, <2>1 DEF IInv, StatusIsTrue
<1> QED BY <1>2, <1>3, <1>4, <1>5

(* The oldest message is taken. *)
LEMMA TakesOldest ==
    ASSUME IInv, Pending # {},
           queue' = [queue EXCEPT ![Oldest].status = "delivered"],
           spent' = spent,
           starts' \in {starts, Append(starts, Oldest)}
    PROVE  queue' \in Seq(Queued) /\ starts' \in Seq(Nat) /\ InOrder' /\ Boots'
<1> DEFINE o == Oldest
           d == [queue[o] EXCEPT !.status = "delivered"]
<1>1. o \in Pending /\ \A p \in Pending : o <= p
  BY OldestIsFirst DEF IInv
<1>2. Types /\ InOrder /\ Boots
  BY DEF IInv
<1>3. o \in DOMAIN queue /\ o \in Nat /\ queue[o] \in Queued
  BY <1>1, <1>2, Domains DEF Pending
<1>4. d \in Queued /\ d.status = "delivered" /\ d.boot = queue[o].boot
  BY <1>3 DEF Queued
<1>5. queue' = [queue EXCEPT ![o] = d]
  OBVIOUS
<1>6. queue \in Seq(Queued) /\ DOMAIN queue = 1..Len(queue) /\ starts \in Seq(Nat)
      /\ Len(starts) \in Nat /\ DOMAIN starts = 1..Len(starts)
  BY <1>2, Domains DEF Types
<1> HIDE DEF o, d
<1>7. queue' \in Seq(Queued)
  <2>1. Put(queue, o, d) \in Seq(Queued)
    BY <1>3, <1>4, <1>6, RowReplaced
  <2> QED BY <1>5, <2>1 DEF Put
<1>8. /\ DOMAIN queue' = DOMAIN queue /\ queue'[o] = d
      /\ \A q \in DOMAIN queue : q # o => queue'[q] = queue[q]
  BY <1>3, <1>5, <1>6
<1>9. Boots'
  BY <1>2, <1>4, <1>8 DEF Boots
<1>10. Pending' = Pending \ {o}
  BY <1>1, <1>4, <1>8 DEF Pending
<1>11. \A a \in DOMAIN starts :
          /\ starts[a] \in Nat /\ starts[a] \in DOMAIN queue'
          /\ queue'[starts[a]].status = "delivered"
          /\ starts[a] < o
          /\ \A p \in Pending' : starts[a] < p
          /\ \A b \in DOMAIN starts : a < b => starts[a] < starts[b]
  <2> SUFFICES ASSUME NEW a \in DOMAIN starts
               PROVE  /\ starts[a] \in Nat /\ starts[a] \in DOMAIN queue'
                      /\ queue'[starts[a]].status = "delivered"
                      /\ starts[a] < o
                      /\ \A p \in Pending' : starts[a] < p
                      /\ \A b \in DOMAIN starts : a < b => starts[a] < starts[b]
    OBVIOUS
  <2>1. /\ starts[a] \in DOMAIN queue /\ queue[starts[a]].status = "delivered"
        /\ \A p \in Pending : starts[a] < p
        /\ \A b \in DOMAIN starts : a < b => starts[a] < starts[b]
    BY <1>2 DEF InOrder
  <2>2. starts[a] \in Nat
    BY <1>2, Domains
  <2>3. starts[a] < o
    BY <1>1, <2>1
  <2>4. starts[a] # o
    BY <1>3, <2>2, <2>3
  <2>5. queue'[starts[a]].status = "delivered"
    BY <1>8, <2>1, <2>4
  <2> QED BY <1>8, <1>10, <2>1, <2>2, <2>3, <2>5
<1>12. \A p \in Pending' : o < p
  <2> SUFFICES ASSUME NEW p \in Pending' PROVE o < p
    OBVIOUS
  <2>1. p \in Pending /\ p # o /\ p \in Nat
    BY <1>2, <1>10, Domains DEF Pending
  <2> QED BY <1>1, <1>3, <2>1
<1>13. CASE starts' = starts
  BY <1>6, <1>7, <1>9, <1>11, <1>13 DEF InOrder
<1>14. CASE starts' = Append(starts, o)
  <2>0. /\ Append(starts, o) \in Seq(Nat)
        /\ DOMAIN Append(starts, o) = 1..(Len(starts) + 1)
        /\ Append(starts, o)[Len(starts) + 1] = o
        /\ \A a \in 1..Len(starts) : Append(starts, o)[a] = starts[a]
    BY <1>3, <1>6, AppendNumber
  <2>1. /\ starts' \in Seq(Nat) /\ starts'[Len(starts) + 1] = o
        /\ \A a \in 1..Len(starts) : starts'[a] = starts[a]
    BY <1>14, <2>0
  <2>2. DOMAIN starts' = 1..(Len(starts) + 1)
    BY <1>14, <2>0
  <2>3. InOrder'
    <3> SUFFICES ASSUME NEW a \in DOMAIN starts'
                 PROVE  /\ starts'[a] \in DOMAIN queue'
                        /\ queue'[starts'[a]].status = "delivered"
                        /\ \A p \in Pending' : starts'[a] < p
                        /\ \A b \in DOMAIN starts' : a < b => starts'[a] < starts'[b]
      BY DEF InOrder
    <3>1. CASE a = Len(starts) + 1
      BY <1>3, <1>4, <1>6, <1>8, <1>12, <2>1, <2>2, <3>1
    <3>2. CASE a # Len(starts) + 1
      <4>1. a \in DOMAIN starts /\ starts'[a] = starts[a]
        BY <1>6, <2>1, <2>2, <3>2
      <4>2. \A b \in DOMAIN starts' : b \in DOMAIN starts \/ starts'[b] = o
        BY <1>6, <2>1, <2>2
      <4>3. \A b \in DOMAIN starts' : a < b => starts'[a] < starts'[b]
        BY <1>6, <1>11, <2>1, <4>1, <4>2
      <4> QED BY <1>11, <4>1, <4>3
    <3> QED BY <3>1, <3>2
  <2> QED BY <1>7, <1>9, <2>1, <2>3
<1> QED BY <1>13, <1>14 DEF o

LEMMA DeliverKeeps ==
    ASSUME IInv, NEW m, SameTurns(m), Deliver(m), UNCHANGED spent
    PROVE  IInv' /\ Final
<1>1. Types /\ m \in Memory
  BY DEF IInv, SameTurns
<1>2. CASE m.flight = 0 /\ m.active = 0 /\ chat.status = "idle" /\ Pending # {}
  <2>1. queue' = [queue EXCEPT ![Oldest].status = "delivered"]
    BY <1>2 DEF Deliver
  <2>2. CASE Takes(chat)
    <3>1. Start(chat, m) /\ starts' = Append(starts, Oldest)
      BY <1>2, <2>2 DEF Deliver
    <3>2. queue' \in Seq(Queued) /\ starts' \in Seq(Nat) /\ InOrder' /\ Boots'
      BY <1>2, <2>1, <3>1, TakesOldest
    <3>3. /\ chat' \in Chats /\ mem' \in Memory /\ chat'.status = "running"
          /\ Len(mem'.turns) > Len(mem.turns)
          /\ Handles' /\ OneTurn' /\ StatusIsTrue'
      BY <1>1, <2>2, <3>1, StartEffect DEF SameTurns
    <3>4. Types'
      BY <1>1, <3>2, <3>3 DEF Types
    <3>5. QueuedIsDelivered' /\ Final
      BY <3>3 DEF QueuedIsDelivered, Final
    <3> QED BY <3>2, <3>3, <3>4, <3>5 DEF IInv
  <2>3. CASE ~Takes(chat)
    <3>1. chat' = chat /\ mem' = m /\ odd' = odd \cup {"refused"} /\ starts' = starts
      BY <1>2, <2>3 DEF Deliver
    <3>2. queue' \in Seq(Queued) /\ starts' \in Seq(Nat) /\ InOrder' /\ Boots'
      BY <1>2, <2>1, <3>1, TakesOldest
    <3>3. Handles' /\ OneTurn' /\ StatusIsTrue'
      BY <3>1, TimerIdle
    <3>4. Types'
      BY <1>1, <3>1, <3>2 DEF Types
    <3>5. QueuedIsDelivered' /\ Final
      BY <3>1 DEF QueuedIsDelivered, Final
    <3> QED BY <3>2, <3>3, <3>4, <3>5 DEF IInv
  <2> QED BY <2>2, <2>3
<1>3. CASE ~(m.flight = 0 /\ m.active = 0 /\ chat.status = "idle" /\ Pending # {})
  <2>1. chat' = chat /\ mem' = m /\ UNCHANGED <<queue, starts, odd>>
    BY <1>3 DEF Deliver
  <2>2. Handles' /\ OneTurn' /\ StatusIsTrue' /\ Alive' = Alive
    BY <2>1, TimerIdle
  <2>3. Types'
    BY <1>1, <2>1 DEF Types
  <2>4. spent' \in [ops : Nat, crashes : Nat] /\ spent'.crashes >= spent.crashes
    BY <1>1 DEF Types
  <2>5. InOrder' /\ Boots'
    BY <2>1, <2>4, SameQueue
  <2>6. QueuedIsDelivered'
    <3> SUFFICES ASSUME chat.status = "idle", Alive = {}, NEW q \in Pending'
                 PROVE  FALSE
      BY <2>1, <2>2 DEF QueuedIsDelivered
    <3>1. mem.flight = 0 /\ mem.active = 0
      BY DEF IInv, Handles, AtWork, Alive, Working
    <3>2. Pending # {}
      BY <2>1 DEF Pending
    <3> QED BY <1>3, <3>1, <3>2 DEF SameTurns
  <2>7. Final
    BY <2>1 DEF Final
  <2> QED BY <2>2, <2>3, <2>5, <2>6, <2>7 DEF IInv
<1> QED BY <1>2, <1>3

LEMMA FollowUpKeeps ==
    ASSUME IInv, NEW m, SameTurns(m), FollowUp(m), UNCHANGED spent
    PROVE  IInv' /\ Final
<1>1. Types /\ m \in Memory
  BY DEF IInv, SameTurns
<1>2. queue' = queue /\ starts' = starts
  BY DEF FollowUp
<1>3. spent' \in [ops : Nat, crashes : Nat] /\ spent'.crashes >= spent.crashes
  BY <1>1 DEF Types
<1>4. InOrder' /\ Boots'
  BY <1>2, <1>3, SameQueue
<1>5. CASE Takes(chat)
  <2>1. Start(chat, m)
    BY <1>5 DEF FollowUp
  <2>2. /\ chat' \in Chats /\ mem' \in Memory /\ chat'.status = "running"
        /\ Len(mem'.turns) > Len(mem.turns)
        /\ Handles' /\ OneTurn' /\ StatusIsTrue'
    BY <1>1, <1>5, <2>1, StartEffect DEF SameTurns
  <2>3. Types'
    BY <1>1, <1>2, <2>2 DEF Types
  <2>4. QueuedIsDelivered' /\ Final
    BY <2>2 DEF QueuedIsDelivered, Final
  <2> QED BY <1>4, <2>2, <2>3, <2>4 DEF IInv
<1>6. CASE ~Takes(chat)
  <2>1. chat' = chat /\ mem' = m /\ odd' = (IF chat.archived THEN odd \cup {"refused"} ELSE odd)
    BY <1>6 DEF FollowUp
  <2>2. Handles' /\ OneTurn' /\ StatusIsTrue'
    BY <2>1, TimerIdle
  <2>3. Types'
    BY <1>1, <1>2, <2>1 DEF Types
  <2>4. chat.archived \/ chat.status # "idle"
    BY <1>6 DEF Takes
  <2>5. QueuedIsDelivered' /\ Final
    BY <2>1, <2>4 DEF QueuedIsDelivered, Final
  <2> QED BY <1>4, <2>2, <2>3, <2>5 DEF IInv
<1> QED BY <1>5, <1>6

LEMMA TimerKeeps ==
    ASSUME IInv, Timer
    PROVE  IInv' /\ Final
<1> DEFINE m == [mem EXCEPT !.timers = Tail(@)]
<1>1. SameTurns(m)
  BY TimerTaken DEF IInv, Timer
<1>2. UNCHANGED spent
  BY DEF Timer
<1>3. Deliver(m) \/ FollowUp(m)
  BY DEF Timer
<1> HIDE DEF m
<1> QED BY <1>1, <1>2, <1>3, DeliverKeeps, FollowUpKeeps

-----------------------------------------------------------------------------
(* The operator *)

LEMMA Requested ==
    ASSUME Types, Request
    PROVE  /\ spent' \in [ops : Nat, crashes : Nat] /\ spent'.crashes = spent.crashes
           /\ spent'.crashes >= spent.crashes
BY DEF Types, Request

LEMMA SendMessageKeeps ==
    ASSUME IInv, SendMessage
    PROVE  IInv' /\ Final
<1>1. Types /\ mem \in Memory /\ Takes(chat) /\ Start(chat, mem) /\ Request
      /\ queue' = queue /\ starts' = starts
  BY DEF IInv, Types, SendMessage
<1>2. InOrder' /\ Boots' /\ spent' \in [ops : Nat, crashes : Nat]
  BY <1>1, Requested, SameQueue
<1>3. /\ chat' \in Chats /\ mem' \in Memory /\ chat'.status = "running"
      /\ Len(mem'.turns) > Len(mem.turns)
      /\ Handles' /\ OneTurn' /\ StatusIsTrue'
  BY <1>1, StartEffect
<1>4. Types'
  BY <1>1, <1>2, <1>3 DEF Types
<1>5. QueuedIsDelivered' /\ Final
  BY <1>3 DEF QueuedIsDelivered, Final
<1> QED BY <1>2, <1>3, <1>4, <1>5 DEF IInv

(* A message that is queued comes after all that were. *)
LEMMA QueueMessageKeeps ==
    ASSUME IInv, QueueMessage
    PROVE  IInv' /\ Final
<1> DEFINE r == [status |-> "pending", boot |-> spent.crashes]
           n == Len(queue) + 1
<1>1. Types /\ InOrder /\ Boots /\ Request /\ chat.status = "running"
  BY DEF IInv, QueueMessage
<1>2. chat' = chat /\ mem' = mem /\ starts' = starts /\ odd' = odd
  BY DEF QueueMessage
<1>3. r \in Queued /\ queue' = Append(queue, r)
  BY <1>1 DEF QueueMessage, Types, Queued
<1>4. queue \in Seq(Queued) /\ Len(queue) \in Nat /\ DOMAIN queue = 1..Len(queue)
  BY <1>1, Domains DEF Types
<1> HIDE DEF r
<1>5. /\ queue' \in Seq(Queued) /\ Len(queue') = n /\ queue'[n] = r
      /\ \A q \in 1..Len(queue) : queue'[q] = queue[q]
  BY <1>3, <1>4, AppendProperties
<1>6. DOMAIN queue' = 1..n
  BY <1>5, LenProperties
<1>7. \A q \in DOMAIN queue' : q \in DOMAIN queue \/ q = n
  BY <1>4, <1>6
<1>8. Pending' \subseteq Pending \cup {n}
  BY <1>4, <1>5, <1>7 DEF Pending
<1>9. spent' \in [ops : Nat, crashes : Nat] /\ spent'.crashes = spent.crashes
  BY <1>1, Requested
<1>10. Boots'
  <2>1. r.boot = spent.crashes /\ spent.crashes \in Nat
    BY <1>1 DEF r, Types
  <2> QED BY <1>1, <1>4, <1>5, <1>7, <1>9, <2>1 DEF Boots
<1>11. InOrder'
  <2> SUFFICES ASSUME NEW a \in DOMAIN starts
               PROVE  /\ starts[a] \in DOMAIN queue'
                      /\ queue'[starts[a]].status = "delivered"
                      /\ \A p \in Pending' : starts[a] < p
                      /\ \A b \in DOMAIN starts : a < b => starts[a] < starts[b]
    BY <1>2 DEF InOrder
  <2>1. /\ starts[a] \in DOMAIN queue /\ queue[starts[a]].status = "delivered"
        /\ \A p \in Pending : starts[a] < p
        /\ \A b \in DOMAIN starts : a < b => starts[a] < starts[b]
    BY <1>1 DEF InOrder
  <2>2. starts[a] \in 1..Len(queue) /\ starts[a] < n
    BY <1>4, <2>1
  <2>3. starts[a] \in DOMAIN queue' /\ queue'[starts[a]] = queue[starts[a]]
    BY <1>4, <1>5, <1>6, <2>2
  <2> QED BY <1>8, <2>1, <2>2, <2>3
<1>12. Types'
  BY <1>1, <1>2, <1>5, <1>9 DEF Types
<1>13. Handles' /\ OneTurn' /\ StatusIsTrue'
  <2>1. Alive' = Alive /\ \A i : AtWork(i)' <=> AtWork(i)
    BY <1>2 DEF Alive, AtWork
  <2> QED BY <1>2, <2>1 DEF IInv, Handles, OneTurn, StatusIsTrue
<1>14. QueuedIsDelivered' /\ Final
  BY <1>1, <1>2 DEF QueuedIsDelivered, Final
<1> QED BY <1>10, <1>11, <1>12, <1>13, <1>14 DEF IInv

(* The phases of the turns and the handles are left alone. *)
SamePhases(m) ==
    /\ m \in Memory /\ Len(m.turns) = Len(mem.turns) /\ DOMAIN m.turns = DOMAIN mem.turns
    /\ \A j \in DOMAIN mem.turns : m.turns[j].phase = mem.turns[j].phase
    /\ m.flight = mem.flight /\ m.active = mem.active

LEMMA AbortedIs ==
    ASSUME Types, Handles, NEW m \in Memory,
           m.turns = mem.turns, m.flight = mem.flight, m.active = mem.active
    PROVE  SamePhases(Aborted(m)) /\ Aborted(m).question = m.question
           /\ Aborted(m).timers = m.timers
<1>1. CASE m.flight = 0
  BY <1>1 DEF Aborted, SamePhases
<1>2. CASE m.flight # 0
  <2> DEFINE f == m.flight
             e == [m.turns[f] EXCEPT !.aborted = TRUE]
             ts == Put(m.turns, f, e)
  <2>1. f \in DOMAIN m.turns
    BY <1>2 DEF Handles, AtWork
  <2>2. m.turns[f] \in Turns
    BY <2>1, Domains
  <2>3. e \in Turns /\ e.phase = m.turns[f].phase
    BY <2>2 DEF Turns
  <2> HIDE DEF e
  <2>4. /\ ts \in Seq(Turns) /\ Len(ts) = Len(m.turns) /\ DOMAIN ts = DOMAIN m.turns
        /\ ts[f] = e
        /\ \A j \in DOMAIN m.turns : j # f => ts[j] = m.turns[j]
    BY <2>1, <2>3, PutTurn
  <2>5. Aborted(m) = [m EXCEPT !.turns = ts]
    BY <1>2 DEF Aborted, Put, e
  <2> HIDE DEF ts
  <2>6. /\ Aborted(m) \in Memory /\ Aborted(m).turns = ts
        /\ Aborted(m).flight = m.flight /\ Aborted(m).active = m.active
        /\ Aborted(m).question = m.question /\ Aborted(m).timers = m.timers
    BY <2>4, <2>5 DEF Memory
  <2>7. \A j \in DOMAIN m.turns : ts[j].phase = m.turns[j].phase
    BY <2>3, <2>4
  <2> QED BY <2>4, <2>6, <2>7 DEF SamePhases
<1> QED BY <1>1, <1>2

LEMMA PhasesKept ==
    ASSUME Handles, SamePhases(mem')
    PROVE  Handles' /\ Alive' = Alive /\ \A i : AtWork(i)' <=> AtWork(i)
<1>1. Alive' = Alive
  BY DEF SamePhases, Alive
<1>2. \A i : AtWork(i)' <=> AtWork(i)
  BY DEF SamePhases, AtWork
<1>3. Handles'
  BY <1>2 DEF SamePhases, Handles
<1> QED BY <1>1, <1>2, <1>3

LEMMA InterruptChatKeeps ==
    ASSUME IInv, InterruptChat
    PROVE  IInv' /\ Final
<1>1. Types /\ Handles /\ mem \in Memory /\ Request /\ chat.status = "running"
  BY DEF IInv, Types, InterruptChat, Interruptible
<1>2. chat' = chat /\ queue' = queue /\ starts' = starts /\ odd' = odd
  BY DEF InterruptChat
<1> DEFINE u == Unasked(mem)
           m == Aborted(u)
<1>3. /\ u \in Memory /\ u.turns = mem.turns /\ u.flight = mem.flight /\ u.active = mem.active
  BY <1>1 DEF Unasked, Memory
<1>4. mem' = IF m.active # 0 THEN [m EXCEPT !.interrupt = TRUE]
             ELSE [m EXCEPT !.timers = Append(@, "interrupt"), !.interrupt = FALSE]
  BY DEF InterruptChat
<1> HIDE DEF u
<1>5. SamePhases(m)
  BY <1>1, <1>3, AbortedIs
<1> HIDE DEF m
<1>6. SamePhases(mem')
  <2>1. CASE m.active # 0
    BY <1>4, <1>5, <2>1 DEF SamePhases, Memory
  <2>2. CASE m.active = 0
    <3>1. m.timers \in Seq({"deliver", "interrupt"})
      BY <1>5 DEF SamePhases, Memory
    <3>2. Append(m.timers, "interrupt") \in Seq({"deliver", "interrupt"})
      BY <3>1, AppendProperties
    <3>3. mem' = [m EXCEPT !.timers = Append(m.timers, "interrupt"), !.interrupt = FALSE]
      BY <1>4, <2>2
    <3> QED BY <1>5, <3>2, <3>3 DEF SamePhases, Memory
  <2> QED BY <2>1, <2>2
<1>7. Handles' /\ Alive' = Alive /\ \A i : AtWork(i)' <=> AtWork(i)
  BY <1>1, <1>6, PhasesKept
<1>8. InOrder' /\ Boots' /\ spent' \in [ops : Nat, crashes : Nat]
  BY <1>1, <1>2, Requested, SameQueue
<1>9. Types'
  BY <1>1, <1>2, <1>6, <1>8 DEF Types, SamePhases
<1>10. OneTurn' /\ StatusIsTrue'
  BY <1>1, <1>2, <1>7 DEF IInv, OneTurn, StatusIsTrue
<1>11. QueuedIsDelivered' /\ Final
  BY <1>1, <1>2 DEF QueuedIsDelivered, Final
<1> QED BY <1>7, <1>8, <1>9, <1>10, <1>11 DEF IInv

LEMMA CancelledIs ==
    ASSUME NEW c \in Chats
    PROVE  /\ Cancelled(c) \in Chats /\ Cancelled(c).archived = c.archived
           /\ Cancelled(c).status \notin {"running", "needs_input"}
           /\ Cancelled(c).status = "error" => c.status = "error"
BY DEF Cancelled, Chats, Statuses

LEMMA ForgottenIs ==
    ASSUME Types, Handles
    PROVE  SamePhases(Forgotten(mem))
<1> DEFINE m == Unasked([mem EXCEPT !.interrupt = FALSE])
<1>1. m \in Memory /\ m.turns = mem.turns /\ m.flight = mem.flight /\ m.active = mem.active
  BY DEF Unasked, Types, Memory
<1> HIDE DEF m
<1>2. SamePhases(Aborted(m))
  BY <1>1, AbortedIs
<1> QED BY <1>2 DEF Forgotten, m

(* Nothing is pending when the queue has been emptied, and what had        *)
(* started a turn stays delivered.                                         *)
LEMMA QueueEmptied ==
    ASSUME IInv, queue' = Emptied(queue), starts' = starts,
           spent' \in [ops : Nat, crashes : Nat], spent'.crashes = spent.crashes
    PROVE  queue' \in Seq(Queued) /\ Pending' = {} /\ InOrder' /\ Boots'
<1>1. Types /\ InOrder /\ Boots
  BY DEF IInv
<1>2. queue \in Seq(Queued) /\ Len(queue) \in Nat /\ DOMAIN queue = 1..Len(queue)
      /\ \A q \in DOMAIN queue : queue[q] \in Queued
  BY <1>1, Domains DEF Types
<1>3. /\ DOMAIN queue' = DOMAIN queue
      /\ \A q \in DOMAIN queue :
            queue'[q] = IF queue[q].status = "pending" THEN [queue[q] EXCEPT !.status = "cancelled"]
                        ELSE queue[q]
  BY DEF Emptied
<1>4. \A q \in DOMAIN queue : /\ queue'[q] \in Queued /\ queue'[q].status # "pending"
                              /\ queue'[q].boot = queue[q].boot
                              /\ queue[q].status # "pending" => queue'[q] = queue[q]
  BY <1>2, <1>3 DEF Queued
<1>5. queue' \in Seq(Queued)
  <2> DEFINE e(q) == IF queue[q].status = "pending" THEN [queue[q] EXCEPT !.status = "cancelled"]
                     ELSE queue[q]
  <2>1. queue' = [q \in 1..Len(queue) |-> e(q)]
    BY <1>2 DEF Emptied
  <2>2. \A q \in 1..Len(queue) : e(q) \in Queued
    BY <1>2 DEF Queued
  <2> HIDE DEF e
  <2> QED BY <1>2, <2>1, <2>2, IsASeq
<1>6. Pending' = {}
  BY <1>3, <1>4 DEF Pending
<1>7. InOrder'
  BY <1>1, <1>3, <1>4, <1>6 DEF InOrder
<1>8. Boots'
  BY <1>1, <1>3, <1>4 DEF Boots
<1> QED BY <1>5, <1>6, <1>7, <1>8

(* The stop of the operator *)
LEMMA StopKeeps ==
    ASSUME IInv, chat' \in Chats, chat'.status = Cancelled(chat).status,
           queue' = Emptied(queue), mem' = Forgotten(mem), UNCHANGED <<starts, odd>>,
           Request
    PROVE  IInv' /\ Final
<1>1. Types /\ Handles /\ chat \in Chats
  BY DEF IInv, Types
<1>2. SamePhases(mem')
  BY <1>1, ForgottenIs
<1>3. Handles' /\ Alive' = Alive /\ \A i : AtWork(i)' <=> AtWork(i)
  BY <1>1, <1>2, PhasesKept
<1>4. spent' \in [ops : Nat, crashes : Nat] /\ spent'.crashes = spent.crashes
  BY <1>1, Requested
<1>5. queue' \in Seq(Queued) /\ Pending' = {} /\ InOrder' /\ Boots'
  BY <1>4, QueueEmptied
<1>6. /\ chat'.status \notin {"running", "needs_input"}
      /\ chat'.status = "error" => chat.status = "error"
  BY <1>1, CancelledIs
<1>7. Types'
  BY <1>1, <1>2, <1>4, <1>5 DEF Types, SamePhases
<1>8. OneTurn'
  <2>1. (chat.status = "error" => \A i \in DOMAIN mem.turns : ~AtWork(i)) =>
        (chat'.status = "error" => \A i \in DOMAIN mem'.turns : ~AtWork(i)')
    BY <1>2, <1>3, <1>6 DEF SamePhases
  <2> QED BY <1>3, <2>1 DEF IInv, OneTurn
<1>9. StatusIsTrue' /\ QueuedIsDelivered' /\ Final
  BY <1>5, <1>6 DEF StatusIsTrue, QueuedIsDelivered, Final
<1> QED BY <1>3, <1>5, <1>7, <1>8, <1>9 DEF IInv

LEMMA CancelChatKeeps ==
    ASSUME IInv, CancelChat
    PROVE  IInv' /\ Final
<1>1. chat \in Chats
  BY DEF IInv, Types
<1>2. chat' \in Chats /\ chat' = Cancelled(chat)
  BY <1>1, CancelledIs DEF CancelChat
<1> QED BY <1>2, StopKeeps DEF CancelChat

LEMMA ArchiveKeeps ==
    ASSUME IInv, Archive
    PROVE  IInv' /\ Final
<1>1. Types /\ chat \in Chats /\ Cancelled(chat) \in Chats /\ Request
  BY CancelledIs DEF IInv, Types, Archive
<1>2. chat' = [Cancelled(chat) EXCEPT !.archived = TRUE] /\ starts' = starts /\ odd' = odd
  BY DEF Archive
<1>3. chat' \in Chats /\ chat'.status = Cancelled(chat).status
  BY <1>1, <1>2 DEF Chats
<1>4. CASE chat.status \in {"running", "needs_input"}
  <2>1. queue' = Emptied(queue) /\ mem' = Forgotten(mem)
    BY <1>4 DEF Archive
  <2> QED BY <1>1, <1>2, <1>3, <2>1, StopKeeps
<1>5. CASE chat.status \notin {"running", "needs_input"}
  <2>1. queue' = queue /\ mem' = mem
    BY <1>5 DEF Archive
  <2>2. chat'.status = chat.status
    BY <1>3, <1>5 DEF Cancelled
  <2>3. spent' \in [ops : Nat, crashes : Nat] /\ spent'.crashes = spent.crashes
        /\ InOrder' /\ Boots'
    BY <1>1, <1>2, <2>1, Requested, SameQueue
  <2>4. Types'
    BY <1>1, <1>2, <1>3, <2>1, <2>3 DEF Types
  <2>5. Alive' = Alive /\ Pending' = Pending /\ \A i : AtWork(i)' <=> AtWork(i)
    BY <2>1 DEF Alive, AtWork, Pending
  <2>6. Handles' /\ OneTurn'
    BY <1>2, <2>1, <2>2, <2>5 DEF IInv, Handles, OneTurn
  <2>7. StatusIsTrue' /\ Final
    BY <1>5, <2>2 DEF StatusIsTrue, Final
  <2>8. QueuedIsDelivered'
    BY <1>2, <2>1, <2>2, <2>3, <2>5 DEF IInv, QueuedIsDelivered
  <2> QED BY <2>3, <2>4, <2>6, <2>7, <2>8 DEF IInv
<1> QED BY <1>4, <1>5

LEMMA UnarchiveKeeps ==
    ASSUME IInv, Unarchive
    PROVE  IInv' /\ Final
<1>1. Types /\ chat \in Chats /\ chat.archived
  BY DEF IInv, Types, Unarchive
<1>2. /\ queue' = queue /\ mem' = mem /\ starts' = starts /\ odd' = odd /\ spent' = spent
      /\ chat' = [chat EXCEPT !.archived = FALSE]
  BY DEF Unarchive
<1>3. chat' \in Chats /\ chat'.status = chat.status
  BY <1>1, <1>2 DEF Chats
<1>4. spent' \in [ops : Nat, crashes : Nat] /\ spent'.crashes >= spent.crashes
  BY <1>1, <1>2 DEF Types
<1>5. InOrder' /\ Boots'
  BY <1>2, <1>4, SameQueue
<1>6. Types'
  BY <1>1, <1>2, <1>3 DEF Types
<1>7. Alive' = Alive /\ Pending' = Pending /\ \A i : AtWork(i)' <=> AtWork(i)
  BY <1>2 DEF Alive, AtWork, Pending
<1>8. Handles' /\ OneTurn' /\ QueuedIsDelivered'
  BY <1>2, <1>3, <1>7 DEF IInv, Handles, OneTurn, QueuedIsDelivered
<1>9. StatusIsTrue' /\ Final
  BY <1>1, <1>2, <1>3 DEF IInv, StatusIsTrue, Final
<1> QED BY <1>5, <1>6, <1>8, <1>9 DEF IInv

LEMMA AnswerChatKeeps ==
    ASSUME IInv, AnswerChat
    PROVE  IInv' /\ Final
<1>1. Types /\ chat \in Chats /\ mem \in Memory /\ chat.status = "needs_input"
  BY DEF IInv, Types, AnswerChat
<1>2. /\ queue' = queue /\ starts' = starts /\ spent' = spent
      /\ chat' = [chat EXCEPT !.status = "running"]
      /\ mem' = [mem EXCEPT !.question = FALSE]
      /\ odd' = IF Alive = {} THEN odd \cup {"orphan"} ELSE odd
  BY DEF AnswerChat
<1>3. chat' \in Chats /\ chat'.status = "running" /\ chat'.archived = chat.archived
  BY <1>1, <1>2 DEF Chats, Statuses
<1>4. SamePhases(mem')
  BY <1>1, <1>2 DEF SamePhases, Memory
<1>5. Handles' /\ Alive' = Alive /\ \A i : AtWork(i)' <=> AtWork(i)
  BY <1>4, PhasesKept DEF IInv
<1>6. spent' \in [ops : Nat, crashes : Nat] /\ spent'.crashes >= spent.crashes
  BY <1>1, <1>2 DEF Types
<1>7. InOrder' /\ Boots'
  BY <1>2, <1>6, SameQueue
<1>8. Types'
  BY <1>1, <1>2, <1>3, <1>4 DEF Types, SamePhases
<1>9. OneTurn'
  BY <1>2, <1>3, <1>5 DEF IInv, OneTurn
<1>10. StatusIsTrue'
  <2> SUFFICES ASSUME odd' \cap {"overlap", "orphan"} = {}
               PROVE  Alive' # {} /\ ~chat'.archived
    BY <1>3 DEF StatusIsTrue
  <2>1. Alive # {} /\ odd' = odd
    BY <1>2
  <2> QED BY <1>1, <1>3, <1>5, <2>1 DEF IInv, StatusIsTrue
<1>11. QueuedIsDelivered' /\ Final
  BY <1>1, <1>3 DEF QueuedIsDelivered, Final
<1> QED BY <1>5, <1>7, <1>8, <1>9, <1>10, <1>11 DEF IInv

LEMMA RestartKeeps ==
    ASSUME IInv, Restart
    PROVE  IInv' /\ Final
<1>1. Types /\ chat \in Chats /\ Cancelled(chat) \in Chats
  BY CancelledIs DEF IInv, Types
<1>2. /\ queue' = queue /\ starts' = starts /\ odd' = odd /\ mem' = NoMemory
      /\ spent' = [spent EXCEPT !.crashes = @ + 1]
      /\ chat' = IF chat.archived THEN chat ELSE Cancelled(chat)
  BY DEF Restart
<1>3. spent' \in [ops : Nat, crashes : Nat] /\ spent'.crashes = spent.crashes + 1
      /\ spent.crashes \in Nat /\ spent'.crashes >= spent.crashes
  BY <1>1, <1>2 DEF Types
<1>4. InOrder' /\ Boots'
  BY <1>2, <1>3, SameQueue
<1>5. mem' \in Memory /\ mem'.turns = <<>> /\ mem'.flight = 0 /\ mem'.active = 0
  <2>1. <<>> \in Seq(Turns) /\ <<>> \in Seq({"deliver", "interrupt"})
    BY EmptySeq
  <2> QED BY <1>2, <2>1 DEF NoMemory, Memory
<1>6. DOMAIN mem'.turns = {}
  BY <1>5
<1>7. Types'
  BY <1>1, <1>2, <1>3, <1>5 DEF Types
<1>8. Handles' /\ OneTurn'
  BY <1>5, <1>6 DEF Handles, OneTurn, Alive
<1>9. chat'.status \in {"running", "needs_input"} => chat.archived /\ chat' = chat
  BY <1>1, <1>2, CancelledIs
<1>10. StatusIsTrue'
  BY <1>2, <1>9 DEF IInv, StatusIsTrue
<1>11. QueuedIsDelivered'
  <2> SUFFICES ASSUME NEW q \in Pending' PROVE queue'[q].boot < spent'.crashes
    BY DEF QueuedIsDelivered
  <2>1. q \in DOMAIN queue
    BY <1>2 DEF Pending
  <2>2. queue[q].boot \in Nat /\ queue[q].boot <= spent.crashes
    BY <1>1, <2>1, Domains DEF IInv, Boots, Queued
  <2> QED BY <1>2, <1>3, <2>2
<1>12. Final
  BY <1>9 DEF Final
<1> QED BY <1>4, <1>7, <1>8, <1>10, <1>11, <1>12 DEF IInv

LEMMA NothingKeeps ==
    ASSUME IInv, UNCHANGED vars
    PROVE  IInv' /\ Final
<1>1. /\ chat' = chat /\ queue' = queue /\ mem' = mem /\ starts' = starts
      /\ odd' = odd /\ spent' = spent
  BY DEF vars
<1>2. Alive' = Alive /\ Pending' = Pending /\ \A i : AtWork(i)' <=> AtWork(i)
  BY <1>1 DEF Alive, AtWork, Pending
<1>3. Types' /\ Handles' /\ OneTurn'
  BY <1>1, <1>2 DEF IInv, Types, Handles, OneTurn
<1>4. InOrder' /\ Boots'
  BY <1>1, <1>2 DEF IInv, InOrder, Boots
<1>5. StatusIsTrue' /\ QueuedIsDelivered' /\ Final
  BY <1>1, <1>2 DEF IInv, StatusIsTrue, QueuedIsDelivered, Final
<1> QED BY <1>3, <1>4, <1>5 DEF IInv

-----------------------------------------------------------------------------
(* The invariant is inductive *)

LEMMA Initial == Init => IInv
<1> SUFFICES ASSUME Init PROVE IInv
  OBVIOUS
<1>1. /\ chat = [status |-> "idle", archived |-> FALSE, agent |-> FALSE]
      /\ queue = <<>> /\ mem = NoMemory /\ starts = <<>> /\ odd = {}
      /\ spent = [ops |-> 0, crashes |-> 0]
  BY DEF Init
<1>2. /\ <<>> \in Seq(Turns) /\ <<>> \in Seq({"deliver", "interrupt"})
      /\ <<>> \in Seq(Queued) /\ <<>> \in Seq(Nat)
  BY EmptySeq
<1>3. mem \in Memory /\ mem.turns = <<>> /\ mem.flight = 0 /\ mem.active = 0
  BY <1>1, <1>2 DEF NoMemory, Memory
<1>4. chat \in Chats /\ chat.status = "idle"
  BY <1>1 DEF Chats, Statuses
<1>5. Types
  BY <1>1, <1>2, <1>3, <1>4 DEF Types
<1>6. DOMAIN mem.turns = {} /\ DOMAIN queue = {} /\ DOMAIN starts = {}
  BY <1>1, <1>3
<1>7. Handles /\ InOrder /\ Boots /\ OneTurn
  BY <1>3, <1>4, <1>6 DEF Handles, InOrder, Boots, OneTurn, Alive
<1>8. StatusIsTrue /\ QueuedIsDelivered
  BY <1>4, <1>6 DEF StatusIsTrue, QueuedIsDelivered, Pending
<1> QED BY <1>5, <1>7, <1>8 DEF IInv

LEMMA Inductive == IInv /\ [Next]_vars => IInv' /\ Final
<1> SUFFICES ASSUME IInv, [Next]_vars PROVE IInv' /\ Final
  OBVIOUS
<1>1. ASSUME NEW i \in DOMAIN mem.turns, Turn(i) PROVE IInv' /\ Final
  <2>1. TurnStep(i)
    BY <1>1, TurnIsStep DEF IInv
  <2> QED BY <2>1, TurnKeeps
<1>2. CASE Timer
  BY <1>2, TimerKeeps
<1>3. CASE SendMessage
  BY <1>3, SendMessageKeeps
<1>4. CASE QueueMessage
  BY <1>4, QueueMessageKeeps
<1>5. CASE InterruptChat
  BY <1>5, InterruptChatKeeps
<1>6. CASE CancelChat
  BY <1>6, CancelChatKeeps
<1>7. CASE Archive
  BY <1>7, ArchiveKeeps
<1>8. CASE Unarchive
  BY <1>8, UnarchiveKeeps
<1>9. CASE AnswerChat
  BY <1>9, AnswerChatKeeps
<1>10. CASE Restart
  BY <1>10, RestartKeeps
<1>11. CASE UNCHANGED vars
  BY <1>11, NothingKeeps
<1> QED BY <1>1, <1>2, <1>3, <1>4, <1>5, <1>6, <1>7, <1>8, <1>9, <1>10, <1>11 DEF Next

LEMMA Invariance == Spec => []IInv
<1>1. Init => IInv
  BY Initial
<1>2. IInv /\ [Next]_vars => IInv'
  BY Inductive
<1> QED BY <1>1, <1>2, PTL DEF Spec

(* A queued message starts at most one turn, in the order it was queued,   *)
(* whatever timers, stops and restarts come in between.                    *)
THEOREM QueueIsServedOnceInOrder == Spec => []QueueOnceInOrder
<1>1. IInv => QueueOnceInOrder
  BY DEF IInv, InOrder, QueueOnceInOrder
<1> QED BY <1>1, Invariance, PTL

(* An idle chat has no message of this start of the daemon left behind.    *)
THEOREM NothingIsLeftBehind == Spec => []QueuedIsDelivered
<1>1. IInv => QueuedIsDelivered
  BY DEF IInv
<1> QED BY <1>1, Invariance, PTL

(* The status of the row is true while turns do not overlap and no answer  *)
(* comes after its turn.                                                   *)
THEOREM TheRowTellsTheTruth == Spec => []StatusIsTrue
<1>1. IInv => StatusIsTrue
  BY DEF IInv
<1> QED BY <1>1, Invariance, PTL

(* Nobody restarts a chat that was stopped, however late the session of    *)
(* its turn comes back.                                                    *)
THEOREM AStopIsFinal == Spec => StopIsFinal
<1>1. IInv /\ [Next]_vars => Final
  BY Inductive
<1>2. IInv /\ [Next]_vars =>
        [(chat.status \in {"idle", "error"} /\ chat'.status = "running")
         => \/ Len(mem'.turns) > Len(mem.turns)
            \/ \E i \in DOMAIN mem.turns :
                  mem'.turns[i] # mem.turns[i] /\ ~mem.turns[i].aborted]_vars
  BY <1>1 DEF Final
<1> QED BY <1>2, Invariance, PTL DEF Spec, StopIsFinal
=============================================================================
