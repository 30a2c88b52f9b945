------------------------------ MODULE NavBars ------------------------------
(***************************************************************************)
(* NavBars (src/ui/src/containers/App/nav-bars.tsx).                       *)
(*                                                                         *)
(* sidebarOpen is React state.  TopBar receives two ways to change it:     *)
(* toggleSidebar, a functional update (open) => !open, and the raw         *)
(* setSidebarOpen(value).  Calls made in one event are queued and applied *)
(* in order by the next render, which SideBar then shows.                 *)
(***************************************************************************)
EXTENDS Naturals, Sequences, SequencesExt

CONSTANTS
    Toggle,     \* a queued functional update (open) => !open
    Undefined,  \* JavaScript undefined
    MaxBatch    \* bound on updates queued by one event

VARIABLES
    sidebarOpen,  \* committed useState<boolean> sidebarOpen (line 25)
    queue         \* updates queued since the last render: Toggle or a boolean

vars == <<sidebarOpen, queue>>

TypeOK ==
    /\ sidebarOpen \in BOOLEAN
    /\ queue \in Seq({Toggle} \cup BOOLEAN) /\ Len(queue) <= MaxBatch

\* Mutant: React.useState<boolean>() with no initial value.
InitUndefined ==
    /\ sidebarOpen = Undefined
    /\ queue = <<>>

Init ==
    /\ sidebarOpen = FALSE
    /\ queue = <<>>

\* TopBar calls toggleSidebar (line 26).
ToggleSidebar ==
    /\ Len(queue) < MaxBatch
    /\ queue' = Append(queue, Toggle)
    /\ UNCHANGED sidebarOpen

\* TopBar calls setSidebarOpen(v) (line 30).
SetSidebarOpen(v) ==
    /\ Len(queue) < MaxBatch
    /\ queue' = Append(queue, v)
    /\ UNCHANGED sidebarOpen

\* React's processing of one queued update: a function is applied to the
\* current value, a value replaces it.
ApplyUpdate(open, u) == IF u = Toggle THEN ~open ELSE u

\* The next render applies the queue in order and SideBar gets the result.
Render ==
    /\ queue # <<>>
    /\ sidebarOpen' = FoldLeft(ApplyUpdate, sidebarOpen, queue)
    /\ queue' = <<>>

Next ==
    \/ ToggleSidebar
    \/ \E v \in BOOLEAN : SetSidebarOpen(v)
    \/ Render

Spec == Init /\ [][Next]_vars

=============================================================================
