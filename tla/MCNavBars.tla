----------------------------- MODULE MCNavBars -----------------------------
EXTENDS NavBars

\* Four calls in one event: two toggles after an explicit value, after a toggle.
MCMaxBatch == 4
=============================================================================
