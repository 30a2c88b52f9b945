# TLA+ models of the Pixie UI live-view components

This directory models the stateful parts of the UI code under
`src/src/ui/src` with TLA+ and checks them with TLC. Every definition is
translated from the source. `PROJECT.json` has the details:

- `map` gives the exact lines each definition models;
- `runs` lists the runs;
- `mutants` lists the seeded bugs each property must catch;
- `findings` records the disagreements TLC found;
- `hazards` lists the behaviours that are hard to test.

## The system's parts

| Part | Source | Modelled by | State and interactions |
|---|---|---|---|
| Run/Stop button | `containers/live/execute-button.tsx` | `ExecuteButton` | It reads ResultsContext, ClusterContext and ScriptContext. Its React state holds `cancellable` and the id of a window timer. A `useEffect` clears that timer and then either schedules a new one or resets `cancellable`. |
| Formatters and renderers | `containers/format-data/format-data.tsx` | `FormatData` | These are pure functions, called once per table cell or axis tick: `formatScaled` and its unit-specific wrappers, `formatPercent`, the semantic-type dispatch, and the HTTP status colour classes. |
| Tracepoint deploy modal | `containers/live/mutation-modal.tsx` | `MutationModal` | It re-renders on every poll of `mutationInfo`, listing each tracepoint's state in two columns. |
| Snackbar provider | `components/snackbar/snackbar.tsx` | `Snackbar` | It holds one `SnackbarState`. `showSnackbar` is given to the whole app through context. `hideSnackbar` is called by the action button, the close icon and MUI's `onClose`. |
| Navigation bars | `containers/App/nav-bars.tsx` | `NavBars` | It holds `sidebarOpen` and hands TopBar two ways to change it: a functional toggle and the raw setter. |
| VersionInfo, heart logo, routing mock | the other files | not modelled | These do pure rendering or are test scaffolding. |

`ButtonMode` is the abstract specification of the Run/Stop button.

These parts interact only through React contexts, which the models treat as
inputs. For example, ExecuteButton's contexts change nondeterministically, and
Snackbar's actions are arbitrary app callbacks. No module composes another.

## Modules

### ExecuteButton
Each variable corresponds to a piece of the component's state:

- `busy` and `healthy` are the committed context values.
- `cancellable` and `cancellabilityTimer` are the committed `useState` values.
- `pendTimer` and `pendCancellable` are updates that have been queued but not yet rendered.
- `effectPending` means the deps changed and the effect has not run yet.
- `timers` holds the live window timers.

There is one action for each step:

- `ContextChange` is a re-render with new context values, which also applies the queued updates. A click on Run or Stop only calls `saveEditor` or `cancelExecution` from the contexts, so its effect reaches the button as a context change.
- `RenderQueued` is a render that only applies queued updates.
- `EffectSchedule` and `EffectReset` are the two branches of the effect, lines 64-76.
- `TimerFire` is the timer callback.

The repository uses React 17's legacy root (`React.FC` with implicit
`children`, `@mui/styles`), in which every render applies all queued updates in
the order they were queued. The model follows that.

`ButtonMode` states what the button promises, with only two variables:

- `running` is whether a script executes on a healthy cluster;
- `stop` is whether the button offers Stop.

The environment changes `running` at will. On its own, the button only sets
`stop` to the current `running`. A render that commits new contexts may also
commit the catch-up with the previous `running`. If the button lags, weak
fairness on `Settle` makes it catch up.

`ExecuteButton` instantiates `ButtonMode` with this refinement mapping:

- `running <- busy /\ healthy`
- `stop <- cancellable`

`RefinesButtonMode` is the abstract `Spec`, checked as a PROPERTY.

### FormatData
Each variable is an input or output of the most recent call:

- `args` holds the arguments of the most recent `formatScaled` call.
- `out` holds that call's `DataWithUnits` result.
- `statusCell` holds the most recently rendered HTTP status cell.

The helper operators translate the code's arithmetic:

- `FloorLog` is the `Math.floor(log/log)` of line 93.
- `ToFixed` is `toFixed`. A tie is resolved nondeterministically when the decimal value is not exactly representable as a double.
- `Shortest` is `parseFloat` followed by the template string, which strips trailing zeros.

`RenderCell` models the column renderers (`BytesRenderer`, `PercentRenderer`,
...). Each passes the cell to one formatter.

Values are rationals `<<num, den>>`. The arithmetic is written in quotient and
remainder form so that it stays inside TLC's 32-bit integers.

### MutationModal
`steps` is the list of tracepoint states. `LeftColumn` and `RightColumn` are the
two slices taken at lines 134 and 146. `MutationState` is the mapping from a
state to an icon. `MutationInfoUpdate` is a new `mutationInfo` prop.

### Snackbar
The variables are the state and two bookkeeping sets:

- `state` is the `SnackbarState`, including the `autoHideDuration` handed to MUI.
- `seen` holds the messages some render displayed.
- `lost` holds the messages that were hidden before any render.
- `lastClose` is a history variable. It records what closed the message in the last step: an `onClose` reason, `closeIcon`, `action`, or `none`. `hideSnackbar` cannot tell these apart, so the property needs the record.

The actions correspond to the controls:

- `ShowSnackbar` is a call to `showSnackbar` from app code.
- `CloseIconClick` is the close icon.
- `SnackbarOnClose(reason)` is MUI's `onClose`. The reason is `timeout`, `clickaway` or `escapeKeyDown`, and `hideSnackbar` ignores it.
- `ActionClickOnly` and `ActionClickShows` are the action button, whose action either does or does not call `showSnackbar`.

### NavBars
The variables are:

- `sidebarOpen` is the committed state.
- `queue` holds the updates queued since the last render, either the functional `Toggle` or a boolean.

`ToggleSidebar` and `SetSidebarOpen` queue updates. `Render` applies the queue
in order, using `FoldLeft`.

## Runs

| Run | Expect | What it shows |
|---|---|---|
| exe_safety | pass | Every live timer is still referenced, so no timer is orphaned (`NoOrphanTimer`). Stop is enabled only while a script runs on a healthy cluster (`StopOnlyWhileRunning`). |
| exe_liveness | pass | The button eventually settles on Stop during a run and on Run after it. |
| fmt_units | pass | The unit chosen equals the one given by a reference definition (the largest power of the scale at or below the value). The shown value is within half a displayed digit. Each HTTP status gets at most one colour, and the colour is correct for 100-599. |
| fmt_range | violation | Rounding can push a value up to the scale itself, for example 1048575 B shown as "1024 KB". |
| modal_layout | pass | Every tracepoint state, known or not, maps to one of the three icons. |
| modal_balance | violation | The split at `Math.ceil(length)` leaves the right column empty. |
| exe_refines | pass | The button refines `ButtonMode`: Stop follows whether a script runs on a healthy cluster. |
| nav_clicks | pass | `sidebarOpen` is always a boolean, whatever sequence of toggles and explicit sets TopBar makes. |
| snack_close | pass | Every reachable `SnackbarState` has its `ShowArgs` defaults filled in. |
| snack_lost | violation | An action that shows a new message has that message hidden by the batched `hideSnackbar`. |
| snack_dismiss | violation | A message shown with `dismissible: false` has no close icon. Yet a click outside it, or Escape, still closes it through `onClose={hideSnackbar}`: a step that closes it has `lastClose` = `clickaway`. |

Each property of a passing run has a mutant in `PROJECT.json`. A mutant is a
plausible bug in the mapped definition, for example:

- a dropped `clearTimeout`;
- an off-by-one in the log;
- truncation instead of rounding;
- an overlapping status range.

TLC finds each mutant's property violated.

## Bounds

ExecuteButton uses these bounds:

- `MaxTimers = 5`: the committed id, the queued id, and up to three orphans at once.
- `MaxChanges = 12`: several runs started and stopped, a cluster that drops out and returns, and re-renders that only change the identity of `cancelExecution`. Every run checks in seconds at this bound. The first bound, 6, gave the same results.

The liveness properties are stated about the state once the changes run out.
That state stands in for "the contexts stop changing".

FormatData's inputs sit on both sides of every unit boundary (1023, 1024,
1048575, 999, 999999, ...), at zero, negative, and at non-dyadic ties.
The HTTP status inputs sit on both sides of every range bound, plus 0, -1 and NaN.

MutationModal uses up to 4 steps over 5 lifecycle states, which covers every
length parity. NavBars allows up to 4 calls per event. That covers every mix of toggles and
explicit values up to two of each. Snackbar uses 3 shows with two app actions, enough for a show, an
action that shows, and a close.

## Fairness

ExecuteButton assumes weak fairness in three places:

- on the effect flush, because React always flushes a pending passive effect;
- on renders that apply queued updates, because React always renders a scheduled update;
- on each live timer, because the browser fires every timer that is not cleared.

Context changes are driven by the user and the cluster, so they get no fairness.
The other modules check only safety.

## Not modelled

- **Unmount:** the effect in `execute-button.tsx` has no cleanup. A timer that fires after unmount only calls `setState` on an unmounted component, which is a no-op.
- **MUI internals:** MUI's auto-hide timer and exit transition are library code.
- **`formatByDataType`, the gauge and alert renderers, and `PortRenderer`:** these delegate to helpers outside this tree or only lay out markup.
- **`ExecuteScriptButton`'s click:** `onClick` only calls `cancelExecution` or `saveEditor` from ScriptContext and EditorContext, which are outside this tree. Its effect on the button arrives as a context change.

## Plan for further work

1. Model the snackbar's auto-hide timer as explicit state, and check whether a replaced message keeps the old deadline.
2. Extend ExecuteButton with the click handlers, if ScriptContext becomes part of the tree: `execute` and `cancelExecution` in ScriptContext, and the results stream that ends an execution.
3. Compose ExecuteButton with MutationModal: the modal's Cancel button calls the same `cancelExecution`.
