---------------------------- MODULE MCSnackbar ----------------------------
(* Model-checking instance of Snackbar. *)
EXTENDS Snackbar

CONSTANTS retry, undo

\* Three messages: one replaced while open, one closed, one shown by an action.
MCMaxShows == 3

\* An explicit autoHideDuration besides the default 2000.
MCDurations == {5000}
=============================================================================
