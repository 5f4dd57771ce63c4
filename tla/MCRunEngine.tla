---------------------------- MODULE MCRunEngine ----------------------------
(***************************************************************************)
(* RunEngine for model checking: its instances are the cfg files           *)
(* RunEngine_*.cfg, and what the engine promises of its slots is the       *)
(* abstract RunScheduler under the mapping below.                          *)
(***************************************************************************)
EXTENDS RunEngine

(* The phase of a run, seen by the scheduler. *)
PhaseOf(status) ==
    CASE status = "absent"     -> "absent"
      [] status = "queued"     -> "waiting"
      [] status \in Holding    -> "holding"
      [] status \in Terminal   -> "done"

Scheduler ==
    INSTANCE RunScheduler WITH Interrupts <- "interrupt" \in OperatorOps,
                               phase <- [r \in Runs |-> PhaseOf(db[r].status)]

(* The engine implements the slot scheduler: whatever tasks, crashes and   *)
(* timers interleave, the queue is served first in, first out, within the  *)
(* cap, and only an operator's message takes a slot out of turn.           *)
ImplementsScheduler == Scheduler!Spec
=============================================================================
