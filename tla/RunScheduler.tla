---------------------------- MODULE RunScheduler ----------------------------
(***************************************************************************)
(* What the run engine promises of its slots (README: excess runs queue    *)
(* and start as slots free): runs wait in the order they were submitted,   *)
(* and the queue gives a slot to the oldest ones while fewer than Cap are  *)
(* held.  Only the operator's messages give a run a slot out of turn.      *)
(***************************************************************************)
EXTENDS Naturals, FiniteSets

CONSTANTS
    NumRuns, Cap,
    Interrupts   \* whether the operator interrupts turns

Runs == 1..NumRuns

VARIABLE phase   \* of every run

Phases == {"absent", "waiting", "holding", "done"}

TypeOK == phase \in [Runs -> Phases]

With(p, ph) == {r \in Runs : p[r] = ph}

Init == phase = [r \in Runs |-> "absent"]

(* In the phases p the queue may give a slot to the runs of S: to some of  *)
(* the oldest that wait, while there are slots.                            *)
Serves(S, p) ==
    /\ S \subseteq With(p, "waiting")
    /\ \A r \in S, q \in With(p, "waiting") \ S : r < q
    /\ S = {} \/ Cardinality(S) + Cardinality(With(p, "holding")) <= Cap

(* From the phases p the queue is served. *)
Admit(p) ==
    \E S \in SUBSET Runs :
        /\ Serves(S, p)
        /\ phase' = [r \in Runs |-> IF r \in S THEN "holding" ELSE p[r]]

(* The youngest run is submitted. *)
Submit(r) ==
    /\ phase[r] = "absent"
    /\ \A q \in Runs : q < r => phase[q] # "absent"
    /\ Admit([phase EXCEPT ![r] = "waiting"])

(* A waiting run is withdrawn. *)
Withdraw(r) == phase[r] = "waiting" /\ Admit([phase EXCEPT ![r] = "done"])

(* Runs leave their slots: those of D for good, those of W to wait for     *)
(* another attempt.                                                        *)
Leave(D, W) ==
    Admit([r \in Runs |-> IF r \in D THEN "done"
                          ELSE IF r \in W THEN "waiting" ELSE phase[r]])

(* A run with an interrupted turn whose earlier spawn fails late gives its *)
(* slot back only after the queue was served: a younger run may have got   *)
(* a slot meanwhile.                                                       *)
GiveBack(r) ==
    /\ Interrupts /\ phase[r] = "holding"
    /\ \E S \in SUBSET Runs, ph \in {"waiting", "done"} :
          /\ Serves(S, phase)
          /\ phase' = [q \in Runs |-> IF q = r THEN ph
                                      ELSE IF q \in S THEN "holding" ELSE phase[q]]

(* A message of the operator gives its run a slot at once. *)
Reopen(r) ==
    /\ phase[r] \in {"done", "waiting"}
    /\ phase' = [phase EXCEPT ![r] = "holding"]

Next ==
    \/ \E D \in SUBSET With(phase, "holding") :
           \E W \in SUBSET (With(phase, "holding") \ D) : Leave(D, W)
    \/ \E r \in Runs : Submit(r) \/ Withdraw(r) \/ GiveBack(r) \/ Reopen(r)

Spec == Init /\ [][Next]_phase
=============================================================================
