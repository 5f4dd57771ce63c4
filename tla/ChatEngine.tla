----------------------------- MODULE ChatEngine -----------------------------
(***************************************************************************)
(* One chat of the daemon: chats/engine.ts over chats/store.ts and         *)
(* chats/state-machine.ts.  A message of the operator, of the chat's own   *)
(* queue or of an interrupt starts a turn; a turn is a promise that spawns *)
(* or resumes an SDK session, reads its stream, waits for its result, may  *)
(* revive a dead session once, and settles.  Everything between two waits  *)
(* of a turn is one step; the operator's requests, the agent's questions   *)
(* and the timers come in between.                                         *)
(*                                                                         *)
(* Nothing keeps a turn that was stopped from being still alive when the   *)
(* next one starts: the turns of a chat are numbered, and each handle the  *)
(* engine keeps by chat id (inFlight, activeChats, sessionTokens) holds    *)
(* the number of the turn that set it last, 0 when there is none.          *)
(***************************************************************************)
EXTENDS Naturals, Sequences

CONSTANTS
    MaxOps,     \* bound: requests of the operator other than answers
    MaxCrashes  \* bound: crashes of the daemon

ASSUME ChatAssumption == MaxOps \in Nat /\ MaxCrashes \in Nat

VARIABLES
    chat,    \* the row of chat_sessions
    queue,   \* the rows of chat_queued_messages, oldest first
    mem,     \* what the engine keeps in memory
    starts,  \* the messages of the queue that started a turn, in order
    odd,     \* what went out of step: "overlap", a turn started while another
             \* was alive; "refused", an archived chat refused the message
             \* of a timer; "orphan", an answer found no turn alive
    spent    \* requests and crashes so far

vars == <<chat, queue, mem, starts, odd, spent>>

NewTurn(fresh, phase) ==
    [phase   |-> phase,   \* where its promise waits
     fresh   |-> fresh,   \* runSpawnTurn rather than runResumeTurn
     aborted |-> FALSE,   \* its AbortController
     revived |-> FALSE,   \* it runs on a revived session
     handle  |-> FALSE]   \* it has an ActiveRun to dispose

NoMemory ==
    [turns |-> <<>>, timers |-> <<>>, flight |-> 0, active |-> 0, token |-> 0,
     interrupt |-> FALSE, question |-> FALSE]

Init ==
    /\ chat = [status |-> "idle", archived |-> FALSE, agent |-> FALSE]
    /\ queue = <<>>
    /\ mem = NoMemory
    /\ starts = <<>>
    /\ odd = {}
    /\ spent = [ops |-> 0, crashes |-> 0]

Alive == {i \in DOMAIN mem.turns : mem.turns[i].phase # "over"}

Pending == {q \in DOMAIN queue : queue[q].status = "pending"}

(* Mutant: the last message that was queued is taken first. *)
Newest == CHOOSE q \in Pending : \A p \in Pending : q >= p

Oldest == CHOOSE q \in Pending : \A p \in Pending : q <= p

---------------------------------------------------------------------------
(* A turn starts *)

(* sendMessage past its refusals: the chat runs, and a turn of its own     *)
(* spawns, resumes, or revives at once when the last turn ended in error.  *)
Start(c, m) ==
    LET n == Len(m.turns) + 1
        phase == IF c.agent /\ c.status = "error" THEN "reviving" ELSE "opening"
    IN /\ chat' = [c EXCEPT !.status = "running"]
       /\ mem' = [m EXCEPT !.turns = Append(@, NewTurn(~c.agent, phase)),
                           !.flight = n, !.token = n]
       /\ odd' = IF Alive = {} THEN odd ELSE odd \cup {"overlap"}

Takes(c) == ~c.archived /\ c.status \in {"idle", "error"}

---------------------------------------------------------------------------
(* A turn ends *)

(* Mutant: the queue is asked with the status before the turn settled. *)
SettleUnread(i, c, m) ==
    LET to == IF c.status = "running" THEN "idle" ELSE c.status
    IN /\ chat' = [c EXCEPT !.status = to]
       /\ mem' = [m EXCEPT !.turns[i] = NewTurn(FALSE, "over"),
                           !.token = 0,
                           !.interrupt = FALSE,
                           !.timers = @ \o (IF m.interrupt THEN <<"interrupt">>
                                            ELSE IF c.status = "idle" THEN <<"deliver">> ELSE <<>>)]

(* settleTurn after the handle is disposed.  The chat is idle whatever     *)
(* turn made it run, and the token is dropped whoever holds it.            *)
Settle(i, c, m) ==
    LET to == IF c.status = "running" THEN "idle" ELSE c.status
    IN /\ chat' = [c EXCEPT !.status = to]
       /\ mem' = [m EXCEPT !.turns[i] = NewTurn(FALSE, "over"),
                           !.token = 0,
                           !.interrupt = FALSE,
                           !.timers = @ \o (IF m.interrupt THEN <<"interrupt">>
                                            ELSE IF to = "idle" THEN <<"deliver">> ELSE <<>>)]

(* The finally of a turn: a handle is disposed first, which takes a while. *)
Finish(i, c) ==
    LET m == [mem EXCEPT !.flight = IF @ = i THEN 0 ELSE @, !.active = 0]
    IN IF m.turns[i].handle
       THEN chat' = c /\ mem' = [m EXCEPT !.turns[i].phase = "disposing"]
       ELSE Settle(i, c, m)

Disposed(i) ==
    /\ mem.turns[i].phase = "disposing"
    /\ Settle(i, chat, mem)
    /\ UNCHANGED <<queue, starts, odd, spent>>

(* handleTurnError: nothing of a turn that was aborted is an error.        *)
Failed(i) ==
    IF ~mem.turns[i].aborted /\ chat.status \in {"running", "needs_input"}
    THEN [chat EXCEPT !.status = "error"] ELSE chat

(* A failed result is an error of the chat if the chat runs.               *)
Errored == IF chat.status = "running" THEN [chat EXCEPT !.status = "error"] ELSE chat

---------------------------------------------------------------------------
(* What a turn does while it is alive *)

Attach(i, c) ==
    /\ chat' = [c EXCEPT !.agent = TRUE]
    /\ mem' = [mem EXCEPT !.active = i, !.turns[i].phase = "streaming", !.turns[i].handle = TRUE]

Revive(i) ==
    /\ chat' = chat
    /\ mem' = [mem EXCEPT !.turns[i].phase = "reviving"]

(* executor.spawn or resume returns; the abort is not looked at.           *)
Opened(i) ==
    /\ mem.turns[i].phase = "opening"
    /\ Attach(i, chat)
    /\ UNCHANGED <<queue, starts, odd, spent>>

(* It throws: a session that is gone is revived, anything else is an error.*)
Throws(i) ==
    /\ mem.turns[i].phase \in {"opening", "streaming", "waiting"}
    /\ \/ Finish(i, Failed(i))
       \/ /\ ~mem.turns[i].fresh /\ ~mem.turns[i].revived /\ ~mem.turns[i].aborted
          /\ Revive(i)
    /\ UNCHANGED <<queue, starts, odd, spent>>

(* Mutant: the abort is not looked at when the session comes back. *)
MayReviveStopped(i) == TRUE

MayRevive(i) == ~mem.turns[i].aborted

(* The spawn of reviveChatTurn returns.  Of a turn aborted meanwhile it is *)
(* dropped; else the chat runs again and its stream is read.               *)
Revived(i) ==
    /\ mem.turns[i].phase = "reviving"
    /\ IF MayRevive(i)
       THEN /\ chat' = [chat EXCEPT !.agent = TRUE,
                                    !.status = IF @ = "error" THEN "running" ELSE @]
            /\ mem' = [mem EXCEPT !.active = i,
                                  !.turns[i] = [@ EXCEPT !.phase = "streaming",
                                                         !.revived = TRUE,
                                                         !.handle = TRUE]]
       ELSE Finish(i, chat)
    /\ UNCHANGED <<queue, starts, odd, spent>>

ReviveFails(i) ==
    /\ mem.turns[i].phase = "reviving"
    /\ Finish(i, Failed(i))
    /\ UNCHANGED <<queue, starts, odd, spent>>

(* The stream ends, and of a turn that goes on the result is waited for.   *)
StreamEnds(i) ==
    /\ mem.turns[i].phase = "streaming"
    /\ IF mem.turns[i].aborted
       THEN Finish(i, chat)
       ELSE chat' = chat /\ mem' = [mem EXCEPT !.turns[i].phase = "waiting"]
    /\ UNCHANGED <<queue, starts, odd, spent>>

(* The result: good or cancelled, failed with output, or failed without    *)
(* any, which revives the session unless this one is a revived one.  It    *)
(* counts even if the turn was aborted while it was waited for.            *)
Result(i) ==
    /\ mem.turns[i].phase = "waiting"
    /\ \/ Finish(i, chat)
       \/ Finish(i, Errored)
       \/ ~mem.turns[i].revived /\ ~mem.turns[i].aborted /\ Revive(i)
    /\ UNCHANGED <<queue, starts, odd, spent>>

(* ask_user of the agent of turn i: the token is checked if there is one.  *)
Ask(i) ==
    /\ mem.turns[i].phase = "streaming"
    /\ mem.token \in {0, i}
    /\ chat.status = "running"
    /\ ~mem.question
    /\ chat' = [chat EXCEPT !.status = "needs_input"]
    /\ mem' = [mem EXCEPT !.question = TRUE]
    /\ UNCHANGED <<queue, starts, odd, spent>>

---------------------------------------------------------------------------
(* Timers *)

(* deliverNextQueuedMessage: the oldest message is marked delivered, then  *)
(* sent; an archived chat refuses it, and it is lost.                      *)
Deliver(m) ==
    IF m.flight = 0 /\ m.active = 0 /\ chat.status = "idle" /\ Pending # {}
    THEN /\ queue' = [queue EXCEPT ![Oldest].status = "delivered"]
         /\ IF Takes(chat)
            THEN Start(chat, m) /\ starts' = Append(starts, Oldest)
            ELSE chat' = chat /\ mem' = m /\ odd' = odd \cup {"refused"} /\ UNCHANGED starts
    ELSE chat' = chat /\ mem' = m /\ UNCHANGED <<queue, starts, odd>>

(* The timer of maybeStartPendingInterrupt: while the chat runs, or does   *)
(* not take a message, the message of the interrupt is dropped.            *)
FollowUp(m) ==
    /\ IF Takes(chat) THEN Start(chat, m)
       ELSE /\ chat' = chat /\ mem' = m
            /\ odd' = IF chat.archived THEN odd \cup {"refused"} ELSE odd
    /\ UNCHANGED <<queue, starts>>

Timer ==
    /\ mem.timers # <<>>
    /\ LET m == [mem EXCEPT !.timers = Tail(@)]
       IN IF Head(mem.timers) = "deliver" THEN Deliver(m) ELSE FollowUp(m)
    /\ UNCHANGED spent

---------------------------------------------------------------------------
(* The operator *)

Request ==
    /\ spent.ops < MaxOps
    /\ spent' = [spent EXCEPT !.ops = @ + 1]

Aborted(m) == IF m.flight = 0 THEN m ELSE [m EXCEPT !.turns[m.flight].aborted = TRUE]

(* cancelPendingQuestion: the agent's wait is forgotten, not ended.        *)
Unasked(m) == IF m.question THEN [m EXCEPT !.question = FALSE] ELSE m

SendMessage ==
    /\ Request
    /\ Takes(chat)
    /\ Start(chat, mem)
    /\ UNCHANGED <<queue, starts>>

QueueMessage ==
    /\ Request
    /\ ~chat.archived /\ chat.status = "running"
    /\ queue' = Append(queue, [status |-> "pending", boot |-> spent.crashes])
    /\ UNCHANGED <<chat, mem, starts, odd>>

(* Mutant: a chat that waits for an answer is interrupted as well. *)
InterruptibleAsked == {"running", "needs_input"}

(* interruptChat while the chat runs; else it is sendMessage.  Without a   *)
(* session to cancel yet, its timer is set at once.                        *)
Interruptible == {"running"}

InterruptChat ==
    /\ Request
    /\ ~chat.archived /\ chat.status \in Interruptible
    /\ LET m == Aborted(Unasked(mem))
       IN mem' = IF m.active # 0 THEN [m EXCEPT !.interrupt = TRUE]
                 ELSE [m EXCEPT !.timers = Append(@, "interrupt"), !.interrupt = FALSE]
    /\ UNCHANGED <<chat, queue, starts, odd>>

Cancelled(c) == IF c.status \in {"running", "needs_input"} THEN [c EXCEPT !.status = "idle"] ELSE c

Emptied(q) == [n \in DOMAIN q |-> IF q[n].status = "pending" THEN [q[n] EXCEPT !.status = "cancelled"]
                                  ELSE q[n]]

Forgotten(m) == Aborted(Unasked([m EXCEPT !.interrupt = FALSE]))

CancelChat ==
    /\ Request
    /\ chat' = Cancelled(chat)
    /\ queue' = Emptied(queue)
    /\ mem' = Forgotten(mem)
    /\ UNCHANGED <<starts, odd>>

(* patchChat with archived: only a busy chat is cancelled first.           *)
Archive ==
    /\ Request
    /\ ~chat.archived
    /\ chat' = [Cancelled(chat) EXCEPT !.archived = TRUE]
    /\ IF chat.status \in {"running", "needs_input"}
       THEN queue' = Emptied(queue) /\ mem' = Forgotten(mem)
       ELSE UNCHANGED <<queue, mem>>
    /\ UNCHANGED <<starts, odd>>

Unarchive ==
    /\ chat.archived
    /\ chat' = [chat EXCEPT !.archived = FALSE]
    /\ UNCHANGED <<queue, mem, starts, odd, spent>>

AnswerChat ==
    /\ chat.status = "needs_input"
    /\ chat' = [chat EXCEPT !.status = "running"]
    /\ mem' = [mem EXCEPT !.question = FALSE]
    /\ odd' = IF Alive = {} THEN odd \cup {"orphan"} ELSE odd
    /\ UNCHANGED <<queue, starts, spent>>

(* A crash, and resumeInterruptedChats at the next start.                  *)
Restart ==
    /\ spent.crashes < MaxCrashes
    /\ spent' = [spent EXCEPT !.crashes = @ + 1]
    /\ mem' = NoMemory
    /\ chat' = IF chat.archived THEN chat ELSE Cancelled(chat)
    /\ UNCHANGED <<queue, starts, odd>>

Turn(i) ==
    \/ Opened(i) \/ Throws(i) \/ Revived(i) \/ ReviveFails(i)
    \/ StreamEnds(i) \/ Result(i) \/ Disposed(i) \/ Ask(i)

Next ==
    \/ \E i \in DOMAIN mem.turns : Turn(i)
    \/ Timer
    \/ SendMessage \/ QueueMessage \/ InterruptChat \/ CancelChat
    \/ Archive \/ Unarchive \/ AnswerChat
    \/ Restart

Spec == Init /\ [][Next]_vars

---------------------------------------------------------------------------
(* Properties *)

(* Each queued message starts at most one turn, in the order of the queue, *)
(* and none that the operator's stop cancelled starts any.                 *)
QueueOnceInOrder ==
    /\ \A a, b \in DOMAIN starts : a < b => starts[a] < starts[b]
    /\ \A a \in DOMAIN starts : queue[starts[a]].status = "delivered"

(* An idle chat with no turn alive and no timer set has delivered what was *)
(* queued since the daemon started: no message is left behind.             *)
QueuedIsDelivered ==
    (chat.status = "idle" /\ mem.timers = <<>> /\ Alive = {} /\ "refused" \notin odd)
    => \A q \in Pending : queue[q].boot < spent.crashes

(* While turns do not overlap and no answer comes after its turn, what the *)
(* row says is so: a running chat has a turn, a chat that waits for the    *)
(* operator has the question to answer, and an archived chat does neither. *)
StatusIsTrue ==
    odd \cap {"overlap", "orphan"} = {} =>
        /\ chat.status = "running" => Alive # {} /\ ~chat.archived
        /\ chat.status = "needs_input" => mem.question /\ ~chat.archived

(* A stop is final: a chat that does not run comes to run only by a new    *)
(* turn, or by a revived turn that nobody stopped or interrupted, however  *)
(* late the session of a stopped turn comes back.                          *)
StopIsFinal ==
    [][(chat.status \in {"idle", "error"} /\ chat'.status = "running")
       => \/ Len(mem'.turns) > Len(mem.turns)
          \/ \E i \in DOMAIN mem.turns : mem'.turns[i] # mem.turns[i] /\ ~mem.turns[i].aborted]_vars
=============================================================================
