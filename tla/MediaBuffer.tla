---------------------------- MODULE MediaBuffer -----------------------------
(***************************************************************************)
(* A media buffer (YangMediaBuffer), the ring of frames between two        *)
(* threads of a pipeline: capture and encoder, encoder and publisher,      *)
(* receiver and decoder, decoder and player.  Its producers put frames     *)
(* (one, or one UDP thread per peer in YangP2pRtc), one consumer takes     *)
(* them, and the application's thread resets the indices when a stream is  *)
(* connected (yang_reindex).  putFrame and getFrame look at the size       *)
(* before they take the lock; a reset takes no lock at all.                *)
(*                                                                         *)
(* A frame's metadata and payload are one value.  frame and slot of a      *)
(* thread are its local variables.                                         *)
(***************************************************************************)
EXTENDS Naturals, Sequences

CONSTANTS
    Producers,  \* threads that put frames
    Frames,     \* contents of a frame
    Capacity,   \* m_cache_num
    SizeMod     \* m_size is unsigned: 2^32

Consumer == "consumer"
Nobody == "nobody"

ASSUME CapacityOK == Capacity \in Nat \ {0}
ASSUME SizeModOK == SizeMod \in Nat /\ SizeMod > Capacity + 1
ASSUME ThreadsOK == Consumer \notin Producers /\ Nobody \notin Producers

VARIABLES
    putIndex, getIndex, size, frames,  \* m_putIndex, m_getIndex, m_size, m_frames
    lock,        \* m_lock: its owner
    put,         \* producers: [pc, frame, slot]
    get,         \* consumer: [pc, mode, frame]; mode "ref" for getFrameRef
    reset,       \* the application's thread: the index it resets next
    taken,       \* the frame taken last
    peeked,      \* frames the consumer has looked at and not yet taken: one at most
    ref,         \* references handed out and still used: [slot, frame], one at most
    overtaken,   \* history: producers that found room before another one's put
    overlapped,  \* history: a put or a get coincided with the reset in progress
    whole        \* history: since a reset nothing coincided with, no other reset, and no
                 \* overtaken producer put a frame into a full buffer

indices == <<putIndex, getIndex, size>>
vars == <<indices, frames, lock, put, get, reset, taken, peeked, ref, overtaken, overlapped, whole>>

Slots == 0 .. Capacity - 1
Wrapped(i) == IF i >= Capacity THEN i - Capacity ELSE i
Inc(n) == IF n + 1 = SizeMod THEN 0 ELSE n + 1
Dec(n) == IF n = 0 THEN SizeMod - 1 ELSE n - 1

Init ==
    /\ putIndex = 0 /\ getIndex = 0 /\ size = 0
    /\ frames \in [Slots -> Frames]
    /\ lock = Nobody
    /\ \E f \in Frames :
        /\ put = [p \in Producers |-> [pc |-> "idle", frame |-> f, slot |-> 0]]
        /\ get = [pc |-> "idle", mode |-> "copy", frame |-> f]
        /\ taken = f
    /\ reset = "idle"
    /\ peeked = {}
    /\ ref = {}
    /\ overtaken = {}
    /\ overlapped = FALSE
    /\ whole = TRUE

-----------------------------------------------------------------------------
(* A producer: putFrame *)

\* A mutant of the next: one frame too many is let in.
PutCheck_OneMore(p, f) ==
    /\ put[p].pc = "idle"
    /\ size <= Capacity
    /\ put' = [put EXCEPT ![p] = [pc |-> "lock", frame |-> f, slot |-> 0]]
    /\ overtaken' = overtaken \ {p}
    /\ UNCHANGED <<indices, frames, lock, get, reset, taken, peeked, ref, overlapped, whole>>

\* Without room the frame is dropped: nothing changes.
PutCheck(p, f) ==
    /\ put[p].pc = "idle"
    /\ size < Capacity
    /\ put' = [put EXCEPT ![p] = [pc |-> "lock", frame |-> f, slot |-> 0]]
    /\ overtaken' = overtaken \ {p}
    /\ UNCHANGED <<indices, frames, lock, get, reset, taken, peeked, ref, overlapped, whole>>

\* A mutant of the next: the lock is not waited for.
PutLock_Free(p) ==
    /\ put[p].pc = "lock"
    /\ lock' = p
    /\ put' = [put EXCEPT ![p].pc = "take"]
    /\ UNCHANGED <<indices, frames, get, reset, taken, peeked, ref, overtaken, overlapped, whole>>

PutLock(p) ==
    /\ put[p].pc = "lock"
    /\ lock = Nobody
    /\ lock' = p
    /\ put' = [put EXCEPT ![p].pc = "take"]
    /\ UNCHANGED <<indices, frames, get, reset, taken, peeked, ref, overtaken, overlapped, whole>>

\* m_frames[m_putIndex++]: the size seen before the lock may have grown since.
PutTake(p) ==
    /\ put[p].pc = "take"
    /\ put' = [put EXCEPT ![p] = [pc |-> "copy", frame |-> put[p].frame, slot |-> putIndex]]
    /\ putIndex' = putIndex + 1
    /\ overlapped' = (overlapped \/ reset # "idle")
    /\ whole' = (whole /\ ~(p \in overtaken /\ size >= Capacity))
    /\ UNCHANGED <<getIndex, size, frames, lock, get, reset, taken, peeked, ref, overtaken>>

PutCopy(p) ==
    /\ put[p].pc = "copy"
    /\ put' = [put EXCEPT ![p].pc = "done"]
    /\ frames' = [frames EXCEPT ![put[p].slot] = put[p].frame]
    /\ UNCHANGED <<indices, lock, get, reset, taken, peeked, ref, overtaken, overlapped, whole>>

\* A mutant of the next: the index goes on past the end.
PutDone_NoWrap(p) ==
    /\ put[p].pc = "done"
    /\ put' = [put EXCEPT ![p].pc = "idle"]
    /\ putIndex' = IF putIndex > Capacity THEN 0 ELSE putIndex
    /\ size' = Inc(size)
    /\ lock' = Nobody
    /\ overtaken' = overtaken \cup {q \in Producers : put[q].pc = "lock"}
    /\ UNCHANGED <<getIndex, frames, get, reset, taken, peeked, ref, overlapped, whole>>

PutDone(p) ==
    /\ put[p].pc = "done"
    /\ put' = [put EXCEPT ![p].pc = "idle"]
    /\ putIndex' = IF putIndex >= Capacity THEN 0 ELSE putIndex
    /\ size' = Inc(size)
    /\ lock' = Nobody
    /\ overtaken' = overtaken \cup {q \in Producers : put[q].pc = "lock"}
    /\ UNCHANGED <<getIndex, frames, get, reset, taken, peeked, ref, overlapped, whole>>

-----------------------------------------------------------------------------
(* The consumer: getFrame, which copies, getFrameRef, which does not, and  *)
(* getCurFrameRef, getNextFrameTimestamp, which look at the next frame.    *)

Peek ==
    /\ get.pc = "idle"
    /\ size # 0
    /\ peeked' = {frames[getIndex]}
    /\ UNCHANGED <<indices, frames, lock, put, get, reset, taken, ref, overtaken, overlapped, whole>>

GetCheck(mode) ==
    /\ get.pc = "idle"
    /\ size # 0
    /\ get' = [pc |-> "lock", mode |-> mode, frame |-> get.frame]
    /\ overlapped' = (overlapped \/ reset # "idle")
    /\ UNCHANGED <<indices, frames, lock, put, reset, taken, peeked, ref, overtaken, whole>>

GetLock ==
    /\ get.pc = "lock"
    /\ lock = Nobody
    /\ lock' = Consumer
    /\ get' = [get EXCEPT !.pc = "take"]
    /\ UNCHANGED <<indices, frames, put, reset, taken, peeked, ref, overtaken, overlapped, whole>>

GetTake ==
    /\ get.pc = "take"
    /\ get' = [pc |-> "done", mode |-> get.mode, frame |-> frames[getIndex]]
    /\ UNCHANGED <<indices, frames, lock, put, reset, taken, peeked, ref, overtaken, overlapped, whole>>

GetDone ==
    /\ get.pc = "done"
    /\ get' = [get EXCEPT !.pc = IF get.mode = "ref" THEN "use" ELSE "idle"]
    /\ getIndex' = Wrapped(getIndex + 1)
    /\ size' = Dec(size)
    /\ lock' = Nobody
    /\ taken' = get.frame
    /\ peeked' = {}
    /\ ref' = IF get.mode = "ref" THEN {[slot |-> getIndex, frame |-> get.frame]} ELSE {}
    /\ UNCHANGED <<putIndex, frames, put, reset, overtaken, overlapped, whole>>

\* The consumer is through with the payload it has a reference to.
Release ==
    /\ get.pc = "use"
    /\ get' = [get EXCEPT !.pc = "idle"]
    /\ ref' = {}
    /\ UNCHANGED <<indices, frames, lock, put, reset, taken, peeked, overtaken, overlapped, whole>>

-----------------------------------------------------------------------------
(* The application's thread: resetIndex *)

PutUnderWay == \E p \in Producers : put[p].pc \in {"copy", "done"}
GetUnderWay == get.pc \in {"lock", "take", "done"}

ResetPut ==
    /\ reset = "idle"
    /\ reset' = "get"
    /\ putIndex' = 0
    /\ overlapped' = (PutUnderWay \/ GetUnderWay)
    /\ whole' = FALSE
    /\ peeked' = {}
    /\ ref' = {}
    /\ UNCHANGED <<getIndex, size, frames, lock, put, get, taken, overtaken>>

\* A mutant of the next: the other index stays.
ResetGet_Not ==
    /\ reset = "get"
    /\ reset' = "size"
    /\ UNCHANGED <<indices, frames, lock, put, get, taken, peeked, ref, overtaken, overlapped, whole>>

ResetGet ==
    /\ reset = "get"
    /\ reset' = "size"
    /\ getIndex' = 0
    /\ UNCHANGED <<putIndex, size, frames, lock, put, get, taken, peeked, ref, overtaken, overlapped, whole>>

\* A reset nobody coincided with leaves an empty buffer in order.
ResetSize ==
    /\ reset = "size"
    /\ reset' = "idle"
    /\ size' = 0
    /\ whole' = ~overlapped
    /\ peeked' = {}
    /\ UNCHANGED <<putIndex, getIndex, frames, lock, put, get, taken, ref, overtaken, overlapped>>

-----------------------------------------------------------------------------
Next ==
    \/ \E p \in Producers :
        \/ \E f \in Frames : PutCheck(p, f)
        \/ PutLock(p) \/ PutTake(p) \/ PutCopy(p) \/ PutDone(p)
    \/ Peek \/ GetLock \/ GetTake \/ GetDone \/ Release
    \/ \E mode \in {"copy", "ref"} : GetCheck(mode)
    \/ ResetPut \/ ResetGet \/ ResetSize

Spec == Init /\ [][Next]_vars

-----------------------------------------------------------------------------
(* Properties *)

\* The types of the variables; no index a thread uses is out of the ring,
\* whatever the resets do.
TypeOK ==
    /\ putIndex \in 0 .. Capacity
    /\ getIndex \in Slots
    /\ size \in 0 .. SizeMod - 1
    /\ frames \in [Slots -> Frames]
    /\ lock \in Producers \cup {Consumer, Nobody}
    /\ put \in [Producers -> [pc : {"idle", "lock", "take", "copy", "done"},
                              frame : Frames, slot : Slots]]
    /\ get \in [pc : {"idle", "lock", "take", "done", "use"}, mode : {"copy", "ref"}, frame : Frames]
    /\ reset \in {"idle", "get", "size"}
    /\ taken \in Frames
    /\ peeked \in SUBSET Frames
    /\ ref \in SUBSET [slot : Slots, frame : Frames]
    /\ overtaken \in SUBSET Producers
    /\ overlapped \in BOOLEAN
    /\ whole \in BOOLEAN

\* What the queue the buffer stands for holds.
Queue == [i \in 1 .. size |-> frames[Wrapped(getIndex + i - 1)]]

Q == INSTANCE FrameQueue WITH queue <- IF whole THEN Queue ELSE << >>

\* The consumer gets the frames that were put, each once, in order: the buffer
\* implements the queue, from every reset nobody coincided with to the next
\* reset or the next frame put into a full buffer.
IsAQueue == Q!Spec

\* The frame whose time the consumer has looked at is the frame it takes next,
\* although it looks without the lock.
PeekedIsNext == whole => \A f \in peeked : size # 0 /\ frames[getIndex] = f

\* The payload a consumer works on outside the lock is not overwritten before
\* the buffer has filled up behind it.
ReferenceIsGood ==
    (whole /\ size < Capacity /\ ~PutUnderWay) =>
        \A r \in ref : frames[r.slot] = r.frame
=============================================================================
