----------------------------- MODULE MCWorkspace -----------------------------
(* Instances of Workspace for TLC. *)
EXTENDS Workspace, TLC

CONSTANTS j1, j2, j3, gitignore, notes, x, y

MCHides == (x :> {notes}) @@ (y :> {}) @@ (Absent :> {})

\* There is a file that is ignored, until somebody edits .gitignore.
MCWorkTrees == {(gitignore :> x) @@ (notes :> x)}

NoBudget == [c \in Countable |-> 0]

\* Jobs enough to fill the table; jobs over two sessions; edits over two
\* sessions; a job among edits.
MCBudgets ==
    {[NoBudget EXCEPT !.turns = 1, !.starts = 3],
     [NoBudget EXCEPT !.turns = 1, !.starts = 2, !.cancels = 1, !.sessions = 1],
     [NoBudget EXCEPT !.turns = 2, !.writes = 4, !.undos = 2, !.sessions = 1],
     [NoBudget EXCEPT !.turns = 1, !.starts = 1, !.cancels = 1, !.forks = 1,
                      !.writes = 1, !.undos = 1]}
=============================================================================
