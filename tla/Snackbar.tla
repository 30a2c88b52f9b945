----------------------------- MODULE Snackbar -----------------------------
(***************************************************************************)
(* SnackbarProvider (src/ui/src/components/snackbar/snackbar.tsx).         *)
(*                                                                         *)
(* One SnackbarState in React state.  showSnackbar (handed to the app      *)
(* through SnackbarContext) replaces it with the new message, defaults     *)
(* filled in, opened; hideSnackbar clears `opened` with a functional       *)
(* update.  The rendered snackbar offers an action button (when an action  *)
(* and a title were given), a close icon (when dismissible), and MUI's     *)
(* onClose (auto-hide timeout, click-away), all of which end in            *)
(* hideSnackbar.  The action button's handler first runs the app's action, *)
(* which may itself call showSnackbar, and then hideSnackbar; React        *)
(* batches both updates of one event handler and applies them in order.    *)
(*                                                                         *)
(* Messages are numbered by the order of showSnackbar calls; the message  *)
(* and title text are abstracted away.  MUI calls onClose with a reason:   *)
(* its auto-hide timer ran out, a click landed outside the snackbar, or    *)
(* Escape was pressed; hideSnackbar ignores the reason.                     *)
(***************************************************************************)
EXTENDS Naturals

CONSTANTS
    Actions,     \* app callbacks passed as ShowArgs.action
    noop,        \* the module's noop, the default action
    Undefined,   \* an omitted optional ShowArgs field
    Durations,   \* autoHideDuration values the app passes
    MaxShows     \* bound on showSnackbar calls

ASSUME noop \notin Actions /\ MaxShows \in Nat

VARIABLES
    state,    \* the SnackbarState: [opened, message, action, actionTitle, dismissible]
    shows,    \* number of showSnackbar calls so far; message i is the i-th
    seen,     \* messages some render displayed open
    lost,     \* messages whose showSnackbar was undone before any render displayed them
    lastClose \* history: what ended the last step's message, "none" if nothing did

vars == <<state, shows, seen, lost, lastClose>>

Titles == {"", "Retry"}

\* The reasons MUI's Snackbar passes to onClose.
CloseReasons == {"timeout", "clickaway", "escapeKeyDown"}

\* The causes lastClose records: an onClose reason, the close icon, the
\* action button, or no close at all.
CloseCauses == CloseReasons \cup {"closeIcon", "action", "none"}

\* The ShowArgs the app may pass: message is the call's number, the optional
\* fields are given or omitted.
ShowArgs ==
    [action : Actions \cup {noop, Undefined},
     actionTitle : Titles \cup {Undefined},
     autoHideDuration : Durations \cup {Undefined},
     dismissible : BOOLEAN \cup {Undefined}]

\* Mutant: the destructuring defaults of lines 71-77 missing.
DefaultMissing(x, d) == x

\* A destructuring default: d when the field is omitted.
Default(x, d) == IF x = Undefined THEN d ELSE x

States ==
    [opened : BOOLEAN, message : 0..MaxShows, action : Actions \cup {noop},
     actionTitle : Titles, autoHideDuration : Durations \cup {2000},
     dismissible : BOOLEAN]

TypeOK ==
    /\ state \in States
    /\ shows \in 0..MaxShows
    /\ seen \subseteq 1..MaxShows
    /\ lost \subseteq 1..MaxShows
    /\ lastClose \in CloseCauses

\* useState initial value, lines 61-68.
Init ==
    /\ state = [opened |-> FALSE, message |-> 0, action |-> noop,
                actionTitle |-> "", autoHideDuration |-> 2000, dismissible |-> TRUE]
    /\ shows = 0
    /\ seen = {}
    /\ lost = {}
    /\ lastClose = "none"

\* The state showSnackbar(args) sets for message m, lines 70-86.
ShownState(m, a) ==
    [opened |-> TRUE, message |-> m,
     action |-> Default(a.action, noop),
     actionTitle |-> Default(a.actionTitle, ""),
     autoHideDuration |-> Default(a.autoHideDuration, 2000),
     dismissible |-> Default(a.dismissible, TRUE)]

\* hideSnackbar's functional update, lines 88-93: only opened changes.
HiddenState(s) == [s EXCEPT !.opened = FALSE]

\* App code anywhere under the provider calls showSnackbar; the update is
\* rendered on its own.
ShowSnackbar(a) ==
    /\ shows < MaxShows
    /\ shows' = shows + 1
    /\ state' = ShownState(shows + 1, a)
    /\ seen' = seen \cup {shows + 1}
    /\ lastClose' = "none"
    /\ UNCHANGED lost

\* The close icon, rendered when state.dismissible (lines 109-113).
CloseIconClick ==
    /\ state.opened /\ state.dismissible
    /\ state' = HiddenState(state)
    /\ lastClose' = "closeIcon"
    /\ UNCHANGED <<shows, seen, lost>>

\* MUI's onClose (line 129) for any reason, only while the snackbar is open
\* (line 128); the timer runs for state.autoHideDuration (line 132).
SnackbarOnClose(reason) ==
    /\ state.opened
    /\ state' = HiddenState(state)
    /\ lastClose' = reason
    /\ UNCHANGED <<shows, seen, lost>>

(***************************************************************************)
(* The action button (lines 98-108), rendered when state.action !== noop  *)
(* and state.actionTitle is non-empty: state.action() and then             *)
(* hideSnackbar(), in one batch.  The action either leaves the snackbar    *)
(* alone or calls showSnackbar(a) itself; the batch then applies that show *)
(* and the hide, in that order, and renders once.                          *)
(***************************************************************************)
ActionClickOnly ==
    /\ state.opened /\ state.action # noop /\ state.actionTitle # ""
    /\ state' = HiddenState(state)
    /\ lastClose' = "action"
    /\ UNCHANGED <<shows, seen, lost>>

ActionClickShows(a) ==
    /\ state.opened /\ state.action # noop /\ state.actionTitle # ""
    /\ shows < MaxShows
    /\ shows' = shows + 1
    /\ lastClose' = "action"
    /\ LET batched == HiddenState(ShownState(shows + 1, a)) IN
         /\ state' = batched
         /\ IF batched.opened THEN seen' = seen \cup {shows + 1} /\ lost' = lost
                              ELSE lost' = lost \cup {shows + 1} /\ seen' = seen

Next ==
    \/ \E a \in ShowArgs : ShowSnackbar(a)
    \/ CloseIconClick
    \/ \E r \in CloseReasons : SnackbarOnClose(r)
    \/ ActionClickOnly
    \/ \E a \in ShowArgs : ActionClickShows(a)

Spec == Init /\ [][Next]_vars

-----------------------------------------------------------------------------
(* Properties                                                              *)

\* Every message passed to showSnackbar is displayed by some render, unless
\* a later showSnackbar replaced it: showSnackbar sets opened to true
\* (line 84) for the message it is given.
NoMessageLost == lost = {}

\* A message shown with dismissible: false (ShowArgs line 33), which gets
\* no close icon (line 109), is not dismissed by the user either: only its
\* auto-hide timeout, its action or a newer message ends it.  lastClose
\* records which control closed it, since hideSnackbar (line 88) cannot tell.
NonDismissibleStays ==
    [][(state.opened /\ ~state.dismissible /\ ~state'.opened)
          => lastClose' \in {"timeout", "action"}]_vars
=============================================================================
