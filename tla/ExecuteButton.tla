--------------------------- MODULE ExecuteButton ---------------------------
(***************************************************************************)
(* ExecuteScriptButton (src/ui/src/containers/live/execute-button.tsx).   *)
(*                                                                         *)
(* The button turns from "Run" into "Stop" one CANCELLABILITY_DELAY_MS     *)
(* after an execution starts on a healthy cluster.  It does so with a      *)
(* useEffect that clears the timer id kept in React state, and either      *)
(* schedules a window timer (whose callback sets cancellable) or resets    *)
(* cancellable to false.  The timer id itself is React state: the effect  *)
(* stores it with setCancellabilityTimer and a later run of the effect     *)
(* reads it back from the render it belongs to.                            *)
(*                                                                         *)
(* The model keeps React's commit/effect/update ordering explicit:         *)
(*  - a render commits new context values and, when the effect's deps     *)
(*    changed, leaves the effect pending; React flushes a pending passive *)
(*    effect before it starts the next render;                            *)
(*  - setState calls made by the effect and by the timer callback are     *)
(*    queued and applied, in order, by the next render (React 17's legacy *)
(*    root, which the repository's React.FC and @mui/styles use).         *)
(* The data is abstracted to what the effect tests: busy stands for       *)
(* (loading || streaming), healthy for the truthiness of `healthy`.       *)
(***************************************************************************)
EXTENDS Naturals, Sequences, FiniteSets

CONSTANTS
    MaxTimers,      \* bound on window timer ids that can be live or referenced at once
    MaxChanges      \* bound on context changes in one behaviour

ASSUME MaxTimers \in Nat \ {0} /\ MaxChanges \in Nat

VARIABLES
    busy,                 \* committed (loading || streaming) from ResultsContext
    healthy,              \* committed cloudClient && cluster status CS_HEALTHY
    cancellable,          \* committed useState<boolean> cancellable
    cancellabilityTimer,  \* committed useState<number> cancellabilityTimer, 0 = undefined
    pendTimer,            \* queued setCancellabilityTimer update, 0 = none
    pendCancellable,      \* queued setCancellable update: <<>> or <<value>>
    effectPending,        \* deps changed in the last commit and the effect has not run
    timers,               \* window timer ids scheduled, neither fired nor cleared
    changes               \* context changes so far (bounded by MaxChanges)

vars == <<busy, healthy, cancellable, cancellabilityTimer, pendTimer,
          pendCancellable, effectPending, timers, changes>>

TimerIds == 1..MaxTimers
NoTimer == 0

TypeOK ==
    /\ busy \in BOOLEAN
    /\ healthy \in BOOLEAN
    /\ cancellable \in BOOLEAN
    /\ cancellabilityTimer \in TimerIds \cup {NoTimer}
    /\ pendTimer \in TimerIds \cup {NoTimer}
    /\ pendCancellable \in {<<>>} \cup {<<b>> : b \in BOOLEAN}
    /\ effectPending \in BOOLEAN
    /\ timers \subseteq TimerIds
    /\ changes \in 0..MaxChanges

\* Timer ids the browser may hand out: none that any state still refers to.
\* (Browsers never reuse an id; reusing an unreferenced one is equivalent.)
FreeIds == TimerIds \ (timers \cup {cancellabilityTimer, pendTimer})

\* The committed state after the queued updates are applied.
ApplyQueued ==
    /\ cancellable' = IF pendCancellable = <<>> THEN cancellable
                                                ELSE pendCancellable[1]
    /\ cancellabilityTimer' = IF pendTimer = NoTimer THEN cancellabilityTimer
                                                     ELSE pendTimer
    /\ pendCancellable' = <<>>
    /\ pendTimer' = NoTimer

\* First mount: useState initial values; the effect runs after the commit.
Init ==
    /\ busy \in BOOLEAN
    /\ healthy \in BOOLEAN
    /\ cancellable = FALSE
    /\ cancellabilityTimer = NoTimer
    /\ pendTimer = NoTimer
    /\ pendCancellable = <<>>
    /\ effectPending = TRUE
    /\ timers = {}
    /\ changes = 0


(***************************************************************************)
(* A context the button reads (ResultsContext, ClusterContext,             *)
(* ScriptContext) changes and the component re-renders with new            *)
(* (loading || streaming), healthy, or a new cancelExecution identity: one *)
(* of the effect's deps changes, so the effect becomes pending.  The       *)
(* render applies the queued updates too.  A click on Run or Stop only     *)
(* calls saveEditor or cancelExecution; what they do reaches the button    *)
(* as such a context change.                                               *)
(***************************************************************************)
ContextChange(b, h) ==
    /\ ~effectPending
    /\ changes < MaxChanges
    /\ changes' = changes + 1
    /\ busy' = b
    /\ healthy' = h
    /\ effectPending' = TRUE
    /\ ApplyQueued
    /\ UNCHANGED timers

\* Mutant: cancellabilityTimer in the effect's deps (the comment of line 74
\* warns against it): applying a queued timer id re-runs the effect.
RenderQueuedTimerInDeps ==
    /\ ~effectPending
    /\ pendTimer # NoTimer \/ pendCancellable # <<>>
    /\ ApplyQueued
    /\ effectPending' = (pendTimer # NoTimer)
    /\ UNCHANGED <<busy, healthy, timers, changes>>

\* A render that only applies queued setState updates.  The effect's deps
\* do not include cancellabilityTimer or cancellable, so it is not re-run.
RenderQueued ==
    /\ ~effectPending
    /\ pendTimer # NoTimer \/ pendCancellable # <<>>
    /\ ApplyQueued
    /\ UNCHANGED <<busy, healthy, effectPending, timers, changes>>

(***************************************************************************)
(* The useEffect body: clearTimeout(cancellabilityTimer) with the id of    *)
(* the render it belongs to; then, when executing on a healthy cluster,    *)
(* schedule the timer and queue setCancellabilityTimer(id); otherwise      *)
(* queue setCancellable(false).                                           *)
(***************************************************************************)
\* Mutant: the effect schedules without clearing the previous timer.
EffectScheduleNoClear ==
    /\ effectPending
    /\ busy /\ healthy
    /\ \E id \in FreeIds :
         /\ timers' = timers \cup {id}
         /\ pendTimer' = id
    /\ effectPending' = FALSE
    /\ UNCHANGED <<busy, healthy, cancellable, cancellabilityTimer, pendCancellable, changes>>

EffectSchedule ==
    /\ effectPending
    /\ busy /\ healthy
    /\ \E id \in FreeIds :
         /\ timers' = (timers \ {cancellabilityTimer}) \cup {id}
         /\ pendTimer' = id
    /\ effectPending' = FALSE
    /\ UNCHANGED <<busy, healthy, cancellable, cancellabilityTimer, pendCancellable, changes>>

\* Mutant: the else branch forgets setCancellable(false).
EffectResetNoFalse ==
    /\ effectPending
    /\ ~(busy /\ healthy)
    /\ timers' = timers \ {cancellabilityTimer}
    /\ effectPending' = FALSE
    /\ UNCHANGED <<busy, healthy, cancellable, cancellabilityTimer, pendTimer, pendCancellable, changes>>

\* Mutant: clearTimeout is done only in the scheduling branch.
EffectResetNoClear ==
    /\ effectPending
    /\ ~(busy /\ healthy)
    /\ pendCancellable' = <<FALSE>>
    /\ effectPending' = FALSE
    /\ UNCHANGED <<busy, healthy, cancellable, cancellabilityTimer, pendTimer, timers, changes>>

EffectReset ==
    /\ effectPending
    /\ ~(busy /\ healthy)
    /\ timers' = timers \ {cancellabilityTimer}
    /\ pendCancellable' = <<FALSE>>
    /\ effectPending' = FALSE
    /\ UNCHANGED <<busy, healthy, cancellable, cancellabilityTimer, pendTimer, changes>>

\* The timer callback: setCancellable((loading || streaming) && healthy)
\* with the values its closure captured, which were true when scheduled.
TimerFire(t) ==
    /\ t \in timers
    /\ timers' = timers \ {t}
    /\ pendCancellable' = <<TRUE>>
    /\ UNCHANGED <<busy, healthy, cancellable, cancellabilityTimer, pendTimer, effectPending, changes>>

Next ==
    \/ \E b, h \in BOOLEAN : ContextChange(b, h)
    \/ RenderQueued
    \/ EffectSchedule
    \/ EffectReset
    \/ \E t \in TimerIds : TimerFire(t)

\* React always flushes passive effects and renders queued updates; the
\* browser fires every timer that stays scheduled.  Contexts are driven by
\* the user and the cluster and are not fair.
Fairness ==
    /\ WF_vars(EffectSchedule \/ EffectReset)
    /\ WF_vars(RenderQueued)
    /\ \A t \in TimerIds : WF_vars(TimerFire(t))

Spec == Init /\ [][Next]_vars /\ Fairness

-----------------------------------------------------------------------------
(* Properties                                                              *)

\* Every scheduled timer is one the component can still clear: its id is
\* the committed cancellabilityTimer or the queued update to it.  An orphan
\* timer fires with the busy/healthy values of a render long gone.
NoOrphanTimer == timers \subseteq {cancellabilityTimer, pendTimer}

\* Once the effect has reacted to the last commit and no setCancellable is
\* queued, the button shows an enabled Stop (onClick = cancelExecution)
\* only while a script is executing on a healthy cluster.
StopOnlyWhileRunning ==
    (~effectPending /\ pendCancellable = <<>>) => (cancellable => busy /\ healthy)

\* If execution keeps going on a healthy cluster once the contexts have
\* stopped changing, the button eventually offers Stop for good: the timer
\* of lines 67-69 fires and nothing resets it.
StopEventuallyOffered == <>[](busy /\ healthy) => <>[]cancellable

\* If execution has ended once the contexts have stopped changing, Stop is
\* eventually withdrawn for good and the button returns to Run.
RunEventuallyRestored == <>[]~busy => <>[]~cancellable

-----------------------------------------------------------------------------
(* Refinement: the component implements ButtonMode, with running the      *)
(* condition the effect tests (line 66) and stop the committed            *)
(* cancellable that selects Stop (lines 89-96).                            *)

Abstract == INSTANCE ButtonMode WITH running <- busy /\ healthy, stop <- cancellable

\* Every committed change of cancellable is either the button following
\* the current (loading || streaming) && healthy, or a render committing a
\* catch-up with the previous value together with new contexts; and a
\* button that lags behind the contexts eventually catches up.
RefinesButtonMode == Abstract!Spec

=============================================================================
