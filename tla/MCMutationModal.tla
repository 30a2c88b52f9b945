-------------------------- MODULE MCMutationModal --------------------------
(* Model-checking instance of MutationModal. *)
EXTENDS MutationModal

CONSTANTS UNKNOWN_STATE, TERMINATED_STATE

MCLifeCycleStates ==
    {UNKNOWN_STATE, PENDING_STATE, RUNNING_STATE, FAILED_STATE, TERMINATED_STATE}

\* Four steps: odd and even lengths, and more than one step per column.
MCMaxSteps == 4
=============================================================================
