----------------------------- MODULE FrameQueue -----------------------------
(***************************************************************************)
(* What a media buffer (YangMediaBuffer) promises the thread that takes    *)
(* frames from it: a bounded queue, first in, first out.  A frame for      *)
(* which there is no room never enters it.  The promise can be broken, by  *)
(* a reset that is not done alone or by two producers that both saw the    *)
(* last free place; then nothing is said of the frames taken until the     *)
(* next reset.                                                             *)
(***************************************************************************)
EXTENDS Naturals, Sequences

CONSTANTS Frames, Capacity

VARIABLES
    queue,  \* the frames to come, the oldest first
    taken,  \* the frame taken last
    whole   \* the promise holds

vars == <<queue, taken, whole>>

Init ==
    /\ queue = << >>
    /\ taken \in Frames
    /\ whole = TRUE

Put(f) ==
    /\ whole
    /\ Len(queue) < Capacity
    /\ queue' = Append(queue, f)
    /\ UNCHANGED <<taken, whole>>

Get ==
    /\ whole
    /\ queue # << >>
    /\ taken' = Head(queue)
    /\ queue' = Tail(queue)
    /\ UNCHANGED whole

Clear ==
    /\ queue' = << >>
    /\ whole' = TRUE
    /\ UNCHANGED taken

Break ==
    /\ queue' = << >>
    /\ whole' = FALSE
    /\ UNCHANGED taken

\* With the promise broken any frame may be taken.
TakeAny ==
    /\ ~whole
    /\ taken' \in Frames
    /\ UNCHANGED <<queue, whole>>

Next ==
    \/ \E f \in Frames : Put(f)
    \/ Get \/ Clear \/ Break \/ TakeAny

Spec == Init /\ [][Next]_vars
=============================================================================
