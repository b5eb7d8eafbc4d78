--------------------------- MODULE BranchLifecycle ---------------------------
(***************************************************************************)
(* What an output branch promises to the ones who own it: its phases, the   *)
(* threads that run inside it and when it lets go of what it was charged    *)
(* for.  "A failed branch remains owned and charged until its workers have  *)
(* actually exited" (MediaRuntimeBranch.h:52).                              *)
(***************************************************************************)
CONSTANT Workers

VARIABLES phase,   \* MediaRuntimeBranch::m_state; "Dropped" once destroyed
          live,    \* workers whose thread has been started and has not exited
          held     \* nodes, workers and channels have not been released

branch == <<phase, live, held>>

Phases == {"Prepared", "Running", "Draining", "Failed", "Retiring", "Retired",
           "Dropped"}

Init == phase = "Prepared" /\ live = {} /\ held = TRUE

Launch(w) ==
    /\ phase = "Prepared"
    /\ live' = live \cup {w}
    /\ UNCHANGED <<phase, held>>

Exit(w) == live' = live \ {w} /\ UNCHANGED <<phase, held>>

Start == phase = "Prepared" /\ phase' = "Running" /\ UNCHANGED <<live, held>>
Drain == phase = "Running" /\ phase' = "Draining" /\ UNCHANGED <<live, held>>

Fail ==
    /\ phase \in {"Prepared", "Running", "Draining"}
    /\ phase' = "Failed"
    /\ UNCHANGED <<live, held>>

\* A branch that did not start, or that a worker is still in, does not retire.
Retire ==
    /\ phase \in {"Running", "Draining", "Failed"} /\ live = {}
    /\ phase' = "Retiring"
    /\ UNCHANGED <<live, held>>

Drop ==
    /\ phase \in {"Prepared", "Running", "Draining", "Failed"}
    /\ phase' = "Dropped"
    /\ UNCHANGED <<live, held>>

Release ==
    /\ phase \in {"Retiring", "Dropped"} /\ live = {}
    /\ held' = FALSE
    /\ UNCHANGED <<phase, live>>

Finish ==
    /\ phase = "Retiring" /\ ~held
    /\ phase' = "Retired"
    /\ UNCHANGED <<live, held>>

Next ==
    \/ \E w \in Workers : Launch(w) \/ Exit(w)
    \/ Start \/ Drain \/ Fail \/ Retire \/ Drop \/ Release \/ Finish

Spec == Init /\ [][Next]_branch
=============================================================================
