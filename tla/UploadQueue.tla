----------------------------- MODULE UploadQueue -----------------------------
(***************************************************************************)
(* What the upload endpoint promises: every capture file it accepted is    *)
(* processed once, with the contents that were uploaded, one file at a     *)
(* time and in the order in which the files were accepted.                 *)
(***************************************************************************)
EXTENDS Sequences, SequencesExt

CONSTANTS
    Upload,         \* the uploads
    NoFile          \* no upload is being processed

VARIABLES
    waiting,        \* accepted, not started
    running,        \* the upload being processed, or NoFile
    done            \* processed, in order

vars == <<waiting, running, done>>

Init == waiting = <<>> /\ running = NoFile /\ done = <<>>

Accept(u) ==
    /\ u \notin ToSet(waiting) \cup {running} \cup ToSet(done)
    /\ waiting' = Append(waiting, u)
    /\ UNCHANGED <<running, done>>

Begin ==
    /\ running = NoFile /\ waiting # <<>>
    /\ running' = Head(waiting)
    /\ waiting' = Tail(waiting)
    /\ UNCHANGED done

Finish ==
    /\ running # NoFile
    /\ done' = Append(done, running)
    /\ running' = NoFile
    /\ UNCHANGED waiting

Next == Begin \/ Finish \/ \E u \in Upload : Accept(u)

Spec == Init /\ [][Next]_vars
=============================================================================
