-------------------------- MODULE MCExecuteButton --------------------------
(* Model-checking instance of ExecuteButton. *)
EXTENDS ExecuteButton

\* The committed and the queued id plus three more: room for orphans to pile
\* up if the effect ever failed to clear the timer it replaces.
MCMaxTimers == 5

\* Twelve context changes: several runs started and stopped, a cluster that
\* drops out and comes back, identity-only re-renders of cancelExecution.
MCMaxChanges == 12
=============================================================================
