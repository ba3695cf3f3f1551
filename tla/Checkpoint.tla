----------------------------- MODULE Checkpoint -----------------------------
(***************************************************************************)
(* The checkpoint of a turn (checkpoint.rs) and its undo, on a work tree   *)
(* that jobs, hooks and people write to as well.                           *)
(*                                                                         *)
(* A file is Absent or has one of Contents; a content stands for the bytes *)
(* and the mode, or for the target of a link.  The files Git lists are the *)
(* ones in its index and those that exist and are not ignored, so the      *)
(* content of one of them, IgnoreFile, decides what a checkpoint sees.     *)
(***************************************************************************)
EXTENDS Naturals, Functions

CONSTANTS
    Files,          \* the paths of the work tree
    Contents,       \* what a file may hold
    Absent,         \* FileState::Missing
    IgnoreFile,     \* .gitignore
    Hides,          \* the files each state of IgnoreFile hides
    Tracked,        \* the files in Git's index
    NoFile,         \* not a path
    WorkTrees       \* bound: the work trees a session may start in

States == Contents \union {Absent}

ASSUME CheckpointAssumption ==
    /\ Absent \notin Contents /\ NoFile \notin Files
    /\ IgnoreFile \in Files /\ Tracked \subseteq Files
    /\ Hides \in [States -> SUBSET Files]
    /\ WorkTrees \subseteq [Files -> States]

VARIABLES
    disk,       \* the work tree
    pending,    \* Engine.pending_checkpoint: the states captured
    last,       \* Engine.last_checkpoint: changes, and what undo restored
    undo,       \* the loop of undo: the files to restore, the one re-read
    session,    \* which conversation the engine holds
    atStart,    \* history: the work tree when the last turn began,
    atEnd,      \* ... and when it ended,
    ofSession   \* ... and the conversation it was a turn of

checkpointVars ==
    <<disk, pending, last, undo, session, atStart, atEnd, ofSession>>

\* The maps from a set of paths.
Snapshots == UNION {[S -> States] : S \in SUBSET Files}
Changes   == UNION {[S -> States \X States] : S \in SUBSET Files}

NoSnapshot == [kept |-> FALSE, files |-> <<>>]
NoChanges  == [kept |-> FALSE, files |-> <<>>, restored |-> {}]
Idle       == [todo |-> {}, next |-> NoFile, raced |-> FALSE]

CheckpointTypeOK ==
    /\ disk \in [Files -> States] /\ atStart \in [Files -> States]
    /\ atEnd \in [Files -> States]
    /\ pending \in [kept: BOOLEAN, files: Snapshots]
    /\ last \in [kept: BOOLEAN, files: Changes, restored: SUBSET Files]
    /\ undo \in [todo: SUBSET Files, next: Files \union {NoFile}, raced: BOOLEAN]
    /\ session \in Nat /\ ofSession \in Nat

-----------------------------------------------------------------------------
(* What Git lists, and what a checkpoint makes of it *)

GitPaths(d) ==
    Tracked \union {f \in Files : d[f] # Absent /\ f \notin Hides[d[IgnoreFile]]}

SnapshotPaths(d, paths) == [f \in paths |-> d[f]]

\* The changes between a snapshot and the work tree: a path in neither list
\* of Git's is not looked at, one in the second list only was Missing before.
ChangesSince(before, d) ==
    LET paths == DOMAIN before \union GitPaths(d)
        Was(f) == IF f \in DOMAIN before THEN before[f] ELSE Absent
        changed == {f \in paths : Was(f) # d[f]}
    IN  [f \in changed |-> <<Was(f), d[f]>>]

\* The state undo expects a changed file to be in.
Expected(f) == IF f \in last.restored THEN last.files[f][1] ELSE last.files[f][2]

-----------------------------------------------------------------------------
(* The engine *)

\* begin_checkpoint.  A capture fails outside a work tree, on a file that is
\* no file, and above the limits on files and bytes.
Begin ==
    /\ last' = NoChanges
    /\ \/ pending' = [kept |-> TRUE, files |-> SnapshotPaths(disk, GitPaths(disk))]
       \/ pending' = NoSnapshot
    /\ atStart' = disk /\ ofSession' = session
    /\ UNCHANGED <<disk, undo, session, atEnd>>

\* finish_checkpoint.
Finish ==
    /\ pending' = NoSnapshot
    /\ \/ /\ pending.kept
          /\ last' = [kept |-> TRUE, files |-> ChangesSince(pending.files, disk),
                      restored |-> {}]
       \/ UNCHANGED last
    /\ atEnd' = disk
    /\ UNCHANGED <<disk, undo, session, atStart, ofSession>>

\* set_messages: another conversation, which has no turn to undo.
SetMessages ==
    /\ session' = session + 1
    /\ pending' = NoSnapshot /\ last' = NoChanges
    /\ UNCHANGED <<disk, undo, atStart, atEnd, ofSession>>

-----------------------------------------------------------------------------
(* Undo *)

Undoing == undo.todo # {}

\* Everything is verified, and every replacement staged, before a file is
\* touched; a conflict, or a failure to stage, leaves things as they are.
UndoVerified ==
    /\ last.kept /\ ~Undoing
    /\ \A f \in DOMAIN last.files : disk[f] = Expected(f)
    /\ IF DOMAIN last.files = {}
       THEN last' = NoChanges /\ UNCHANGED undo
       ELSE /\ undo' = [Idle EXCEPT !.todo = DOMAIN last.files \ last.restored]
            /\ UNCHANGED last
    /\ UNCHANGED <<disk, pending, session, atStart, atEnd, ofSession>>

\* (mutant) trusts the verification pass
NoReread(f) ==
    /\ f \in undo.todo /\ undo.next = NoFile
    /\ undo' = [undo EXCEPT !.next = f, !.raced = FALSE]
    /\ UNCHANGED <<disk, pending, last, session, atStart, atEnd, ofSession>>

\* The file is read again right before it is replaced; if it changed, undo
\* stops and keeps what it has restored.  Paths come in their order, which
\* the model leaves open.
Reread(f) ==
    /\ f \in undo.todo /\ undo.next = NoFile
    /\ undo' = IF disk[f] = last.files[f][2]
               THEN [undo EXCEPT !.next = f, !.raced = FALSE] ELSE Idle
    /\ UNCHANGED <<disk, pending, last, session, atStart, atEnd, ofSession>>

\* A staged replacement is renamed over the file; a file the turn created is
\* removed.  Either may fail.  After the last one the checkpoint is dropped.
Restore ==
    LET f == undo.next
        rest == undo.todo \ {f}
    IN  /\ f # NoFile
        /\ \/ /\ disk' = [disk EXCEPT ![f] = last.files[f][1]]
              /\ undo' = [Idle EXCEPT !.todo = rest]
              /\ last' = IF rest = {} THEN NoChanges
                         ELSE [last EXCEPT !.restored = @ \union {f}]
           \/ undo' = Idle /\ UNCHANGED <<disk, last>>
        /\ UNCHANGED <<pending, session, atStart, atEnd, ofSession>>

-----------------------------------------------------------------------------
(* Writers *)

\* Somebody, the turn's own tools included, gives a file another state.
Write(f, c) ==
    /\ disk[f] # c
    /\ disk' = [disk EXCEPT ![f] = c]
    /\ undo' = [undo EXCEPT !.raced = @ \/ undo.next = f]
    /\ UNCHANGED <<pending, last, session, atStart, atEnd, ofSession>>

CheckpointInit ==
    /\ disk \in WorkTrees
    /\ pending = NoSnapshot /\ last = NoChanges /\ undo = Idle
    /\ session = 0 /\ ofSession = 0
    /\ atStart = disk /\ atEnd = disk

-----------------------------------------------------------------------------
(* Properties *)

\* The step replaces a file as a part of an undo.
Restores(f) == undo.next = f /\ disk'[f] # disk[f] /\ f \notin undo'.todo

WasHidden(f) == atStart[f] # Absent /\ f \notin GitPaths(atStart)

\* Undo is of the last turn of the conversation at hand; what it overwrites is
\* what that turn left, not what somebody put there later, and what it writes
\* is what was there before the turn.  Exempt are an edit between the last look
\* at the file and its replacement, and the files that were ignored when the
\* turn began.
UndoIsExact ==
    [][\A f \in Files : Restores(f) =>
          /\ ofSession = session
          /\ disk[f] = atEnd[f] \/ undo.raced
          /\ disk'[f] = atStart[f] \/ WasHidden(f)]_checkpointVars
=============================================================================
