----------------------------- MODULE RunStatus -----------------------------
(***************************************************************************)
(* The statuses of a run and the edges its state machine allows            *)
(* (runs/state-machine.ts), with the sets of statuses the engine and the   *)
(* store ask about.                                                        *)
(***************************************************************************)

Statuses == {"queued", "running", "needs_input", "paused",
             "completed", "failed", "cancelled"}

Terminal == {"completed", "failed", "cancelled"}

(* The statuses RunStore.countActiveRuns counts against the cap. *)
Holding == {"running", "needs_input", "paused"}

Allowed ==
    [queued      |-> {"running", "cancelled"},
     running     |-> {"needs_input", "completed", "failed", "cancelled",
                      "queued", "paused"},
     needs_input |-> {"running", "completed", "failed", "cancelled", "queued"},
     paused      |-> {"running", "cancelled", "failed"},
     completed   |-> {"running"},
     failed      |-> {"running"},
     cancelled   |-> {"running"}]

CanTransition(from, to) == to \in Allowed[from]
=============================================================================
