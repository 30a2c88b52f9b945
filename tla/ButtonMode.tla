----------------------------- MODULE ButtonMode -----------------------------
(***************************************************************************)
(* What the Run/Stop button promises, without React or timers.            *)
(*                                                                         *)
(* `running` is whether a script executes on a healthy cluster; `stop` is *)
(* whether the button offers Stop.  The environment changes `running` at  *)
(* will; the button follows it: on its own it only moves `stop` to the    *)
(* current value of `running`.  A change of `running` may be committed     *)
(* together with the button catching up with the value `running` had     *)
(* before the change, never with anything else.  If the button lags       *)
(* behind `running` for good, it eventually catches up.                    *)
(***************************************************************************)
VARIABLES running, stop

Init ==
    /\ running \in BOOLEAN
    /\ stop = FALSE

\* The contexts change; the same render may commit the button's pending
\* catch-up with the previous value of running.
Environment(r) ==
    /\ running' = r
    /\ stop' \in {stop, running}

\* The button catches up with running.
Settle ==
    /\ stop # running
    /\ stop' = running
    /\ UNCHANGED running

Next == (\E r \in BOOLEAN : Environment(r)) \/ Settle

Spec == Init /\ [][Next]_<<running, stop>> /\ WF_<<running, stop>>(Settle)
=============================================================================
