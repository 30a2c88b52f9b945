--------------------------- MODULE MutationModal ---------------------------
(***************************************************************************)
(* MutationModal (src/ui/src/containers/live/mutation-modal.tsx).          *)
(*                                                                         *)
(* While a script's mutation (tracepoint deployment) is in progress the    *)
(* live view renders this modal with the latest MutationInfo polled from   *)
(* the cluster.  Each render lays the mutation's steps out in two grid     *)
(* columns and gives each one an icon from its LifeCycleState               *)
(* (MutationState).  The model's state is the props: the list of step      *)
(* states; a step changes state whenever a new MutationInfo arrives.        *)
(* Step ids and names are abstracted to positions in the list.             *)
(***************************************************************************)
EXTENDS Naturals, Sequences

CONSTANTS
    LifeCycleStates,  \* the LifeCycleState enum values
    RUNNING_STATE, FAILED_STATE, PENDING_STATE,
    MaxSteps          \* bound on the number of steps of one mutation

ASSUME {RUNNING_STATE, FAILED_STATE, PENDING_STATE} \subseteq LifeCycleStates
ASSUME MaxSteps \in Nat

VARIABLE steps  \* mutationInfo.getStatesList(), as the sequence of their getState()

\* Math.ceil(x / d) for naturals.
CeilDiv(x, d) == (x + d - 1) \div d

\* Status icons the modal can show.
Icons == {"healthy", "unhealthy", "spinner"}

\* Mutant: the default branch renders the raw state instead of a spinner.
MutationStateNoDefault(state) ==
    CASE state = RUNNING_STATE -> "healthy"
      [] state = FAILED_STATE  -> "unhealthy"
      [] OTHER                 -> state

\* MutationState: RUNNING -> healthy StatusCell, FAILED -> unhealthy
\* StatusCell, anything else -> CircularProgress.
MutationState(state) ==
    CASE state = RUNNING_STATE -> "healthy"
      [] state = FAILED_STATE  -> "unhealthy"
      [] OTHER                 -> "spinner"

\* Left grid column: getStatesList().slice(0, Math.ceil(getStatesList().length)).
LeftColumn(s) == SubSeq(s, 1, Len(s))

\* Right grid column: getStatesList().slice(Math.ceil(getStatesList().length)).
RightColumn(s) == SubSeq(s, Len(s) + 1, Len(s))

\* A mutation of any number of steps up to MaxSteps, in any states.
Init == \E n \in 0..MaxSteps : steps \in [1..n -> LifeCycleStates]

\* A new MutationInfo arrives for the same mutation: same steps, each in
\* whatever state the cluster now reports (possibly the same ones); the
\* modal re-renders.
MutationInfoUpdate ==
    \E s \in [DOMAIN steps -> LifeCycleStates] : steps' = s

Next == MutationInfoUpdate

Spec == Init /\ [][Next]_steps

-----------------------------------------------------------------------------
TypeOK ==
    /\ steps \in Seq(LifeCycleStates)
    /\ Len(steps) <= MaxSteps
    /\ \A i \in 1..Len(steps) : MutationState(steps[i]) \in Icons

\* The steps are split roughly in half across the two columns (spec 4.2:
\* "partitions a list of named sub-steps roughly in half across two visual
\* columns"): the column lengths differ by at most one.
ColumnsBalanced ==
    LET l == Len(LeftColumn(steps))
        r == Len(RightColumn(steps))
    IN l <= r + 1 /\ r <= l + 1
=============================================================================
