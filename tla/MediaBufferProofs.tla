------------------------- MODULE MediaBufferProofs -------------------------
(***************************************************************************)
(* Theorems about MediaBuffer, for any number of producers, any capacity   *)
(* and any frames: the indices stay in the ring, the consumer's unlocked   *)
(* looks are good, and the buffer implements the queue of FrameQueue.      *)
(***************************************************************************)
EXTENDS MediaBuffer, SequenceTheorems, TLAPS

-----------------------------------------------------------------------------
(* The inductive invariant, in parts *)

\* The lock is held by the one that is between its lock and its unlock.
LockInv ==
    /\ \A p \in Producers : put[p].pc \in {"take", "copy", "done"} <=> lock = p
    /\ get.pc \in {"take", "done"} <=> lock = Consumer

\* Outside a put the index is in the ring.
IndexInv == ~PutUnderWay => putIndex < Capacity

\* A reset nobody coincided with so far has the indices it has reset to itself.
ResetInv ==
    reset # "idle" =>
        /\ ~whole
        /\ overlapped \/ /\ putIndex = 0
                         /\ ~PutUnderWay /\ ~GetUnderWay
                         /\ ref = {}
                         /\ reset = "size" => getIndex = 0

\* The indices and the size agree, and so does what a put or a get under way saw.
Agree ==
    /\ ~PutUnderWay => size <= Capacity /\ putIndex = Wrapped(getIndex + size)
    /\ \A p \in Producers :
        /\ put[p].pc \in {"copy", "done"} =>
            /\ size < Capacity
            /\ put[p].slot = Wrapped(getIndex + size)
            /\ putIndex = put[p].slot + 1
        /\ put[p].pc = "done" => frames[put[p].slot] = put[p].frame
        /\ put[p].pc \in {"lock", "take"} /\ p \notin overtaken => size < Capacity
    /\ GetUnderWay => size > 0
    /\ get.pc = "done" => get.frame = frames[getIndex]

AgreeInv == whole => Agree

\* The slot a reference is to is the one before the next frame's, and it is the
\* last that is written again.
RefInv ==
    whole => \A r \in ref :
        /\ getIndex = Wrapped(r.slot + 1)
        /\ \/ frames[r.slot] = r.frame
           \/ size = Capacity
           \/ PutUnderWay /\ size = Capacity - 1

\* TypeOK without the sets and the Boolean variables.
Types ==
    /\ putIndex \in 0 .. Capacity
    /\ getIndex \in Slots
    /\ size \in 0 .. SizeMod - 1
    /\ frames \in [Slots -> Frames]
    /\ lock \in Producers \cup {Consumer, Nobody}
    /\ put \in [Producers -> [pc : {"idle", "lock", "take", "copy", "done"},
                              frame : Frames, slot : Slots]]
    /\ get \in [pc : {"idle", "lock", "take", "done", "use"},
                mode : {"copy", "ref"}, frame : Frames]
    /\ reset \in {"idle", "get", "size"}
    /\ taken \in Frames

Inv == TypeOK /\ LockInv /\ IndexInv /\ ResetInv /\ AgreeInv /\ PeekedIsNext /\ RefInv

USE CapacityOK, SizeModOK, ThreadsOK

-----------------------------------------------------------------------------
(* Arithmetic of the ring *)

\* A step of the ring stays in it.
LEMMA WrappedInSlots ==
    ASSUME NEW i \in 0 .. 2 * Capacity - 1
    PROVE  Wrapped(i) \in Slots
  BY DEF Wrapped, Slots

\* Fewer than Capacity steps from a slot never lead back to it.
LEMMA WrappedApart ==
    ASSUME NEW g \in Slots, NEW i \in 0 .. Capacity, NEW j \in 0 .. Capacity,
           i < j, j - i < Capacity
    PROVE  Wrapped(g + i) # Wrapped(g + j)
  BY DEF Wrapped, Slots

\* One step after another.
LEMMA WrappedSucc ==
    ASSUME NEW g \in Slots, NEW i \in 0 .. Capacity - 1
    PROVE  /\ Wrapped(Wrapped(g + 1) + i) = Wrapped(g + (i + 1))
           /\ Wrapped(g + 0) = g
           /\ Wrapped(g + 1) \in Slots
           /\ Wrapped(Wrapped(g + i) + 1) = Wrapped(g + (i + 1))
  BY DEF Wrapped, Slots

-----------------------------------------------------------------------------
(* The initial states *)

LEMMA InitInv == Init => Inv
<1> SUFFICES ASSUME Init PROVE Inv OBVIOUS
<1>1. TypeOK
  <2>1. Types
    <3> PICK f \in Frames :
            /\ put = [p \in Producers |-> [pc |-> "idle", frame |-> f, slot |-> 0]]
            /\ get = [pc |-> "idle", mode |-> "copy", frame |-> f]
            /\ taken = f
      BY Zenon DEF Init
    <3>1. 0 \in Slots BY DEF Slots
    <3>2. put \in [Producers -> [pc : {"idle", "lock", "take", "copy", "done"},
                                frame : Frames, slot : Slots]]
      BY <3>1, SMT
    <3>3. get \in [pc : {"idle", "lock", "take", "done", "use"},
                  mode : {"copy", "ref"}, frame : Frames]
      BY SMT
    <3>4. putIndex \in 0 .. Capacity /\ getIndex \in Slots /\ size \in 0 .. SizeMod - 1
      BY <3>1, SMT DEF Init
    <3>5. /\ frames \in [Slots -> Frames] /\ lock \in Producers \cup {Consumer, Nobody}
          /\ reset \in {"idle", "get", "size"} /\ taken \in Frames
      BY DEF Init
    <3> QED BY Zenon, <3>2, <3>3, <3>4, <3>5 DEF Types
  <2>2. peeked = {} /\ ref = {} /\ overtaken = {} /\ overlapped = FALSE /\ whole = TRUE
    BY Zenon DEF Init
  <2> QED BY Zenon, <2>1, <2>2 DEF TypeOK, Types
<1>2. LockInv
  <2>1. \A p \in Producers : put[p].pc = "idle"
    <3>1. PICK f \in Frames : put = [p \in Producers |-> [pc |-> "idle", frame |-> f, slot |-> 0]]
      BY Zenon DEF Init
    <3> QED BY <3>1
  <2>2. get.pc = "idle" /\ lock = Nobody BY DEF Init
  <2> QED BY <2>1, <2>2 DEF LockInv, Consumer, Nobody
<1>3. IndexInv /\ ResetInv BY DEF Init, IndexInv, ResetInv
<1>4. AgreeInv BY SMT DEF Init, AgreeInv, Agree, PutUnderWay, GetUnderWay, Wrapped
<1>5. PeekedIsNext BY DEF Init, PeekedIsNext
<1>6. RefInv BY DEF Init, RefInv
<1> QED BY <1>1, <1>2, <1>3, <1>4, <1>5, <1>6 DEF Inv

-----------------------------------------------------------------------------
(* Types *)

\* What a step writes is of its type, given where putIndex is when a put begins.
LEMMA TypesStep == TypeOK /\ LockInv /\ IndexInv /\ [Next]_vars => Types'
<1> SUFFICES ASSUME TypeOK, LockInv, IndexInv, [Next]_vars PROVE Types' OBVIOUS
<1> USE DEF Types
<1>0. Types BY Zenon DEF TypeOK
<1>1. ASSUME NEW p \in Producers, NEW f \in Frames, PutCheck(p, f) PROVE Types'
  <2>1. /\ put' = [put EXCEPT ![p] = [pc |-> "lock", frame |-> f, slot |-> 0]]
        /\ UNCHANGED <<indices, frames, lock, get, reset, taken>>
    BY <1>1, Zenon DEF PutCheck
  <2>2. 0 \in Slots BY DEF Slots
  <2> QED BY <1>0, <2>1, <2>2, SMT DEF indices
<1>2. ASSUME NEW p \in Producers, PutLock(p) PROVE Types'
  BY <1>0, <1>2, SMT DEF PutLock, indices
<1>3. ASSUME NEW p \in Producers, PutTake(p) PROVE Types'
  <2>1. ~PutUnderWay BY <1>0, <1>3 DEF PutTake, PutUnderWay, LockInv
  <2>2. putIndex \in Slots BY <1>0, <2>1 DEF IndexInv, Slots
  <2>3. /\ put' = [put EXCEPT ![p] = [pc |-> "copy", frame |-> put[p].frame, slot |-> putIndex]]
        /\ putIndex' = putIndex + 1
    BY <1>3, Zenon DEF PutTake
  <2>4. UNCHANGED <<getIndex, size, frames, lock, get, reset, taken>> BY <1>3, Zenon DEF PutTake
  <2>5. put' \in [Producers -> [pc : {"idle", "lock", "take", "copy", "done"},
                               frame : Frames, slot : Slots]]
    BY <1>0, <2>2, <2>3, SMT
  <2>6. putIndex' \in 0 .. Capacity BY <2>2, <2>3 DEF Slots
  <2> QED BY <1>0, <2>4, <2>5, <2>6, SMT
<1>4. ASSUME NEW p \in Producers, PutCopy(p) PROVE Types'
  BY <1>0, <1>4, SMT DEF PutCopy, indices
<1>5. ASSUME NEW p \in Producers, PutDone(p) PROVE Types'
  <2>1. Inc(size) \in 0 .. SizeMod - 1 BY <1>0 DEF Inc
  <2>2. putIndex' \in 0 .. Capacity BY <1>0, <1>5 DEF PutDone
  <2>3. /\ put' = [put EXCEPT ![p].pc = "idle"] /\ size' = Inc(size) /\ lock' = Nobody
        /\ UNCHANGED <<getIndex, frames, get, reset, taken>>
    BY <1>5, Zenon DEF PutDone
  <2> QED BY <1>0, <2>1, <2>2, <2>3, SMT
<1>6. ASSUME Peek PROVE Types' BY <1>0, <1>6, SMT DEF Peek, indices
<1>7. ASSUME NEW mode \in {"copy", "ref"}, GetCheck(mode) PROVE Types'
  <2>1. get' = [pc |-> "lock", mode |-> mode, frame |-> get.frame] BY <1>7, Zenon DEF GetCheck
  <2>2. UNCHANGED <<indices, frames, lock, put, reset, taken>> BY <1>7, Zenon DEF GetCheck
  <2>3. get' \in [pc : {"idle", "lock", "take", "done", "use"},
                 mode : {"copy", "ref"}, frame : Frames]
    BY <1>0, <2>1, SMT
  <2> QED BY <1>0, <2>2, <2>3, SMT DEF indices
<1>8. ASSUME GetLock PROVE Types' BY <1>0, <1>8, SMT DEF GetLock, indices
<1>9. ASSUME GetTake PROVE Types'
  <2>1. get' = [pc |-> "done", mode |-> get.mode, frame |-> frames[getIndex]] BY <1>9, Zenon DEF GetTake
  <2>2. frames[getIndex] \in Frames BY <1>0
  <2>3. get' \in [pc : {"idle", "lock", "take", "done", "use"},
                 mode : {"copy", "ref"}, frame : Frames]
    BY <1>0, <2>1, <2>2, SMT
  <2> QED BY <1>0, <1>9, <2>3, SMT DEF GetTake, indices
<1>10. ASSUME GetDone PROVE Types'
  <2>1. Dec(size) \in 0 .. SizeMod - 1 BY <1>0 DEF Dec
  <2>2. Wrapped(getIndex + 1) \in Slots BY <1>0, WrappedSucc
  <2> QED BY <1>0, <1>10, <2>1, <2>2, SMT DEF GetDone
<1>11. ASSUME Release PROVE Types' BY <1>0, <1>11, SMT DEF Release, indices
<1>12. ASSUME ResetPut PROVE Types'
  <2>1. reset' = "get" /\ putIndex' = 0 /\ UNCHANGED <<getIndex, size, frames, lock, put, get, taken>>
    BY <1>12, Zenon DEF ResetPut
  <2> QED BY <1>0, <2>1, SMT
<1>13. ASSUME ResetGet PROVE Types' BY <1>0, <1>13, SMT DEF ResetGet, Slots
<1>14. ASSUME ResetSize PROVE Types'
  <2>1. reset' = "idle" /\ size' = 0 /\ UNCHANGED <<putIndex, getIndex, frames, lock, put, get, taken>>
    BY <1>14, Zenon DEF ResetSize
  <2> QED BY <1>0, <2>1, SMT
<1>15. CASE UNCHANGED vars BY <1>0, <1>15, SMT DEF vars, indices
<1> QED
  BY Zenon, <1>1, <1>2, <1>3, <1>4, <1>5, <1>6, <1>7, <1>8, <1>9, <1>10, <1>11, <1>12, <1>13,
     <1>14, <1>15 DEF Next

\* The sets and the Boolean variables.
LEMMA TypeOKStep == Inv /\ [Next]_vars => TypeOK'
<1> SUFFICES ASSUME Inv, [Next]_vars PROVE TypeOK' OBVIOUS
<1>0. TypeOK /\ LockInv /\ IndexInv /\ Types BY Zenon DEF Inv, TypeOK, Types
<1>1. Types' BY <1>0, TypesStep
<1> DEFINE Rest ==
        /\ peeked \in SUBSET Frames
        /\ ref \in SUBSET [slot : Slots, frame : Frames]
        /\ overtaken \in SUBSET Producers
        /\ overlapped \in BOOLEAN
        /\ whole \in BOOLEAN
<1>2. Rest BY <1>0, Zenon DEF TypeOK
<1>3. ASSUME NEW p \in Producers, NEW f \in Frames, PutCheck(p, f) PROVE Rest'
  BY <1>2, <1>3, Zenon DEF PutCheck
<1>4. ASSUME NEW p \in Producers, PutLock(p) PROVE Rest' BY <1>2, <1>4, Zenon DEF PutLock
<1>5. ASSUME NEW p \in Producers, PutTake(p) PROVE Rest' BY <1>2, <1>5, Zenon DEF PutTake
<1>6. ASSUME NEW p \in Producers, PutCopy(p) PROVE Rest' BY <1>2, <1>6, Zenon DEF PutCopy
<1>7. ASSUME NEW p \in Producers, PutDone(p) PROVE Rest'
  <2>1. overtaken' \in SUBSET Producers BY <1>2, <1>7, SMT DEF PutDone
  <2> QED BY <1>2, <1>7, <2>1, Zenon DEF PutDone
<1>8. ASSUME Peek PROVE Rest'
  <2>1. peeked' \in SUBSET Frames BY <1>0, <1>8, SMT DEF Peek, Types
  <2> QED BY <1>2, <1>8, <2>1, Zenon DEF Peek
<1>9. ASSUME NEW mode \in {"copy", "ref"}, GetCheck(mode) PROVE Rest'
  BY <1>2, <1>9, Zenon DEF GetCheck
<1>10. ASSUME GetLock PROVE Rest' BY <1>2, <1>10, Zenon DEF GetLock
<1>11. ASSUME GetTake PROVE Rest' BY <1>2, <1>11, Zenon DEF GetTake
<1>12. ASSUME GetDone PROVE Rest'
  <2>1. ref' \in SUBSET [slot : Slots, frame : Frames] BY <1>0, <1>12, SMT DEF GetDone, Types
  <2>2. peeked' \in SUBSET Frames BY <1>12 DEF GetDone
  <2> QED BY <1>2, <1>12, <2>1, <2>2, Zenon DEF GetDone
<1>13. ASSUME Release PROVE Rest' BY <1>2, <1>13, Zenon DEF Release
<1>14. ASSUME ResetPut PROVE Rest' BY <1>2, <1>14, Zenon DEF ResetPut
<1>15. ASSUME ResetGet PROVE Rest' BY <1>2, <1>15, Zenon DEF ResetGet
<1>16. ASSUME ResetSize PROVE Rest' BY <1>2, <1>16, Zenon DEF ResetSize
<1>17. ASSUME UNCHANGED vars PROVE Rest'
  <2>1. UNCHANGED <<peeked, ref, overtaken>> BY <1>17, SMT DEF vars
  <2>2. overlapped' = overlapped BY <1>17 DEF vars
  <2>3. whole' = whole BY <1>17 DEF vars
  <2> QED BY <1>2, <2>1, <2>2, <2>3, Zenon
<1> HIDE DEF Rest
<1>18. Rest'
  BY Zenon, <1>3, <1>4, <1>5, <1>6, <1>7, <1>8, <1>9, <1>10, <1>11, <1>12, <1>13, <1>14,
     <1>15, <1>16, <1>17 DEF Next
<1> QED BY Zenon, <1>1, <1>18 DEF TypeOK, Types, Rest

-----------------------------------------------------------------------------
(* The lock and the index *)

\* A thread enters its critical section only with the lock, and gives it up on leaving.
LEMMA LockStep == Types /\ LockInv /\ [Next]_vars => LockInv'
<1> SUFFICES ASSUME Types, LockInv, [Next]_vars PROVE LockInv' OBVIOUS
<1> USE DEF Types, LockInv, Consumer, Nobody
<1>1. ASSUME NEW p \in Producers, NEW f \in Frames, PutCheck(p, f) PROVE LockInv'
  BY <1>1, SMT DEF PutCheck
<1>2. ASSUME NEW p \in Producers, PutLock(p) PROVE LockInv' BY <1>2, SMT DEF PutLock
<1>3. ASSUME NEW p \in Producers, PutTake(p) PROVE LockInv' BY <1>3, SMT DEF PutTake
<1>4. ASSUME NEW p \in Producers, PutCopy(p) PROVE LockInv' BY <1>4, SMT DEF PutCopy
<1>5. ASSUME NEW p \in Producers, PutDone(p) PROVE LockInv' BY <1>5, SMT DEF PutDone
<1>6. ASSUME Peek PROVE LockInv' BY <1>6, SMT DEF Peek
<1>7. ASSUME NEW mode \in {"copy", "ref"}, GetCheck(mode) PROVE LockInv'
  BY <1>7, SMT DEF GetCheck
<1>8. ASSUME GetLock PROVE LockInv' BY <1>8, SMT DEF GetLock
<1>9. ASSUME GetTake PROVE LockInv' BY <1>9, SMT DEF GetTake
<1>10. ASSUME GetDone PROVE LockInv' BY <1>10, SMT DEF GetDone
<1>11. ASSUME Release PROVE LockInv' BY <1>11, SMT DEF Release
<1>12. ASSUME ResetPut \/ ResetGet \/ ResetSize PROVE LockInv'
  <2>1. UNCHANGED <<put, get, lock>> BY <1>12, Zenon DEF ResetPut, ResetGet, ResetSize
  <2> QED BY <2>1, SMT
<1>13. CASE UNCHANGED vars BY <1>13, SMT DEF vars
<1> QED
  BY Zenon, <1>1, <1>2, <1>3, <1>4, <1>5, <1>6, <1>7, <1>8, <1>9, <1>10, <1>11, <1>12, <1>13
     DEF Next

\* putIndex is past the end only while a put is under way.
LEMMA IndexStep == Types /\ LockInv /\ IndexInv /\ [Next]_vars => IndexInv'
<1> SUFFICES ASSUME Types, LockInv, IndexInv, [Next]_vars PROVE IndexInv' OBVIOUS
<1> USE DEF Types, LockInv, IndexInv, PutUnderWay
<1>1. ASSUME NEW p \in Producers, NEW f \in Frames, PutCheck(p, f) PROVE IndexInv'
  BY <1>1, SMT DEF PutCheck, indices
<1>2. ASSUME NEW p \in Producers, PutLock(p) PROVE IndexInv' BY <1>2, SMT DEF PutLock, indices
<1>3. ASSUME NEW p \in Producers, PutTake(p) PROVE IndexInv' BY <1>3, SMT DEF PutTake
<1>4. ASSUME NEW p \in Producers, PutCopy(p) PROVE IndexInv' BY <1>4, SMT DEF PutCopy
<1>5. ASSUME NEW p \in Producers, PutDone(p) PROVE IndexInv' BY <1>5, SMT DEF PutDone
<1>6. ASSUME ResetPut PROVE IndexInv' BY <1>6, SMT DEF ResetPut
<1>7. ASSUME UNCHANGED <<put, putIndex>> PROVE IndexInv' BY <1>7, SMT
<1>8. ASSUME NEW mode \in {"copy", "ref"}, GetCheck(mode) PROVE UNCHANGED <<put, putIndex>>
  BY <1>8, Zenon DEF GetCheck, indices
<1>9. ASSUME Peek \/ GetLock \/ GetTake \/ Release PROVE UNCHANGED <<put, putIndex>>
  BY <1>9, Zenon DEF Peek, GetLock, GetTake, Release, indices
<1>10. ASSUME GetDone \/ ResetGet \/ ResetSize PROVE UNCHANGED <<put, putIndex>>
  BY <1>10, Zenon DEF GetDone, ResetGet, ResetSize
<1>11. CASE UNCHANGED vars BY <1>11, SMT DEF vars, indices
<1> QED
  BY Zenon, <1>1, <1>2, <1>3, <1>4, <1>5, <1>6, <1>7, <1>8, <1>9, <1>10, <1>11 DEF Next

-----------------------------------------------------------------------------
(* The reset *)

\* While whole holds no reset is under way, and a reset nobody has coincided with is
\* still alone: a put or a get that begins says so in overlapped.
LEMMA ResetStep == Types /\ LockInv /\ ResetInv /\ [Next]_vars => ResetInv'
<1> SUFFICES ASSUME Types, LockInv, ResetInv, [Next]_vars PROVE ResetInv' OBVIOUS
<1> DEFINE Alone ==
        /\ putIndex = 0
        /\ ~PutUnderWay /\ ~GetUnderWay
        /\ ref = {}
        /\ reset = "size" => getIndex = 0
<1>0. reset # "idle" => ~whole /\ (overlapped \/ Alone) BY Zenon DEF ResetInv
<1> SUFFICES reset' # "idle" => ~whole' /\ (overlapped' \/ Alone') BY Zenon DEF ResetInv
<1> USE DEF Types, LockInv, PutUnderWay, GetUnderWay
<1>1. ASSUME NEW p \in Producers, NEW f \in Frames, PutCheck(p, f), Alone PROVE Alone'
  BY <1>1, SMT DEF PutCheck, indices
<1>2. ASSUME NEW p \in Producers, PutLock(p), Alone PROVE Alone'
  BY <1>2, SMT DEF PutLock, indices
<1>3. ASSUME NEW p \in Producers, PutCopy(p) PROVE ~Alone BY <1>3, SMT DEF PutCopy
<1>4. ASSUME NEW p \in Producers, PutDone(p) PROVE ~Alone BY <1>4, SMT DEF PutDone
<1>5. ASSUME Peek, Alone PROVE Alone' BY <1>5, SMT DEF Peek, indices
<1>6. ASSUME GetLock PROVE ~Alone BY <1>6, SMT DEF GetLock
<1>7. ASSUME GetTake PROVE ~Alone BY <1>7, SMT DEF GetTake
<1>8. ASSUME GetDone PROVE ~Alone BY <1>8, SMT DEF GetDone
<1>9. ASSUME Release, Alone PROVE Alone' BY <1>9, SMT DEF Release, indices
<1>10. ASSUME ResetPut PROVE reset' = "get" /\ ~whole' /\ (overlapped' \/ Alone')
  <2>1. /\ reset' = "get" /\ putIndex' = 0 /\ ref' = {}
        /\ UNCHANGED <<put, get>>
    BY <1>10, Zenon DEF ResetPut
  <2>2. ~whole' /\ (overlapped' <=> PutUnderWay \/ GetUnderWay) BY <1>10, Zenon DEF ResetPut
  <2>3. (PutUnderWay' <=> PutUnderWay) /\ (GetUnderWay' <=> GetUnderWay) BY <2>1, SMT
  <2>4. CASE PutUnderWay \/ GetUnderWay BY <2>1, <2>2, <2>4, Zenon
  <2>5. CASE ~(PutUnderWay \/ GetUnderWay)
    <3>1. Alone' BY <2>1, <2>3, <2>5, SMT
    <3> QED BY <2>1, <2>2, <3>1, Zenon
  <2> QED BY <2>4, <2>5, Zenon
<1>11. ASSUME ResetGet, Alone PROVE Alone' BY <1>11, SMT DEF ResetGet
<1>12. ASSUME UNCHANGED vars, Alone PROVE Alone' BY <1>12, SMT DEF vars, indices
<1> HIDE DEF Alone
<1>13. ASSUME NEW p \in Producers, PutTake(p) PROVE reset' # "idle" => ~whole' /\ overlapped'
  BY <1>0, <1>13, Zenon DEF PutTake
<1>14. ASSUME NEW mode \in {"copy", "ref"}, GetCheck(mode)
       PROVE reset' # "idle" => ~whole' /\ overlapped'
  BY <1>0, <1>14, Zenon DEF GetCheck
<1>15. ASSUME NEW p \in Producers, NEW f \in Frames, PutCheck(p, f)
       PROVE UNCHANGED <<reset, whole, overlapped>>
  BY <1>15, Zenon DEF PutCheck
<1>16. ASSUME NEW p \in Producers, PutLock(p) \/ PutCopy(p) \/ PutDone(p)
       PROVE UNCHANGED <<reset, whole, overlapped>>
  BY <1>16, Zenon DEF PutLock, PutCopy, PutDone
<1>17. ASSUME Peek \/ GetLock \/ GetTake \/ GetDone \/ Release
       PROVE UNCHANGED <<reset, whole, overlapped>>
  BY <1>17, Zenon DEF Peek, GetLock, GetTake, GetDone, Release
<1>18. ASSUME UNCHANGED vars PROVE UNCHANGED <<reset, whole, overlapped>>
  BY <1>18 DEF vars
<1>19. ASSUME ResetGet PROVE reset # "idle" /\ UNCHANGED <<whole, overlapped>>
  BY <1>19 DEF ResetGet
<1>20. ASSUME ResetSize PROVE reset' = "idle" BY <1>20, Zenon DEF ResetSize
<1>21. ASSUME UNCHANGED <<reset, whole, overlapped>>, Alone => Alone'
       PROVE reset' # "idle" => ~whole' /\ (overlapped' \/ Alone')
  BY <1>0, <1>21, Zenon
<1>22. ASSUME NEW p \in Producers, NEW f \in Frames, PutCheck(p, f)
       PROVE reset' # "idle" => ~whole' /\ (overlapped' \/ Alone')
  BY <1>1, <1>15, <1>21, <1>22, Zenon
<1>23. ASSUME NEW p \in Producers, PutLock(p) \/ PutCopy(p) \/ PutDone(p)
       PROVE reset' # "idle" => ~whole' /\ (overlapped' \/ Alone')
  BY <1>2, <1>3, <1>4, <1>16, <1>21, <1>23, Zenon
<1>24. ASSUME Peek \/ GetLock \/ GetTake \/ GetDone \/ Release
       PROVE reset' # "idle" => ~whole' /\ (overlapped' \/ Alone')
  BY <1>5, <1>6, <1>7, <1>8, <1>9, <1>17, <1>21, <1>24, Zenon
<1>25. ASSUME ResetGet PROVE reset' # "idle" => ~whole' /\ (overlapped' \/ Alone')
  BY <1>0, <1>11, <1>19, <1>25, Zenon
<1>26. ASSUME UNCHANGED vars PROVE reset' # "idle" => ~whole' /\ (overlapped' \/ Alone')
  BY <1>12, <1>18, <1>21, <1>26, Zenon
<1> QED
  BY Zenon, <1>10, <1>13, <1>14, <1>20, <1>22, <1>23, <1>24, <1>25, <1>26 DEF Next

-----------------------------------------------------------------------------
(* The order of the frames *)

\* whole comes to hold only with the end of a reset nobody has coincided with, and
\* holds on only outside resets.
LEMMA WholeStep ==
    ASSUME ResetInv, [Next]_vars, whole', ~ResetSize
    PROVE  whole /\ ~ResetPut /\ ~ResetGet
<1>1. ~ResetPut BY Zenon DEF ResetPut
<1>2. whole
  <2>1. ASSUME NEW p \in Producers, NEW f \in Frames, PutCheck(p, f) PROVE whole
    BY <2>1, Zenon DEF PutCheck
  <2>2. ASSUME NEW p \in Producers, PutLock(p) \/ PutTake(p) \/ PutCopy(p) \/ PutDone(p)
        PROVE whole
    BY <2>2, Zenon DEF PutLock, PutTake, PutCopy, PutDone
  <2>3. ASSUME Peek \/ GetLock \/ GetTake \/ GetDone \/ Release \/ ResetGet PROVE whole
    BY <2>3, Zenon DEF Peek, GetLock, GetTake, GetDone, Release, ResetGet
  <2>4. ASSUME NEW mode \in {"copy", "ref"}, GetCheck(mode) PROVE whole
    BY <2>4, Zenon DEF GetCheck
  <2>5. CASE UNCHANGED vars BY <2>5 DEF vars
  <2> QED BY Zenon, <1>1, <2>1, <2>2, <2>3, <2>4, <2>5 DEF Next
<1>3. ~ResetGet BY <1>2 DEF ResetGet, ResetInv
<1> QED BY <1>1, <1>2, <1>3, Zenon

\* A put writes behind the frames that wait, one that was not overtaken finds the
\* room it saw, and a get takes the oldest.
LEMMA AgreeStep ==
    Types /\ LockInv /\ IndexInv /\ ResetInv /\ AgreeInv /\ [Next]_vars => AgreeInv'
<1> SUFFICES ASSUME Types, LockInv, IndexInv, ResetInv, AgreeInv, [Next]_vars, whole'
             PROVE  Agree'
  BY Zenon DEF AgreeInv
<1> USE DEF Types, PutUnderWay, GetUnderWay
<1>1. ASSUME ResetSize PROVE Agree'
  <2>1. ~overlapped /\ reset = "size" BY <1>1, Zenon DEF ResetSize
  <2>2. putIndex = 0 /\ getIndex = 0 /\ ~PutUnderWay /\ ~GetUnderWay
    BY <2>1, Zenon DEF ResetInv
  <2>3. size' = 0 /\ UNCHANGED <<putIndex, getIndex, frames, put, get, overtaken>>
    BY <1>1, Zenon DEF ResetSize
  <2> QED BY <2>2, <2>3, SMT DEF Agree, Wrapped
<1>2. CASE ~ResetSize
  <2>1. whole /\ ~ResetPut /\ ~ResetGet BY <1>2, WholeStep, Zenon
  <2>2. Agree BY <2>1, Zenon DEF AgreeInv
  <2> USE DEF Agree
  <2>3. ASSUME NEW p \in Producers, NEW f \in Frames, PutCheck(p, f) PROVE Agree'
    BY <2>2, <2>3, SMT DEF PutCheck, indices
  <2>4. ASSUME NEW p \in Producers, PutLock(p) PROVE Agree'
    BY <2>2, <2>4, SMT DEF PutLock, indices
  <2>5. ASSUME NEW p \in Producers, PutTake(p) PROVE Agree'
    <3>1. ~(p \in overtaken /\ size >= Capacity) BY <2>5, Zenon DEF PutTake
    <3>2. put[p].pc = "take" /\ size < Capacity BY <2>2, <2>5, <3>1, SMT DEF PutTake
    <3>3. \A q \in Producers : q # p => put[q].pc \notin {"take", "copy", "done"}
      BY <3>2, SMT DEF LockInv
    <3>4. get.pc \notin {"take", "done"} BY <3>2, SMT DEF LockInv, Consumer
    <3>5. putIndex = Wrapped(getIndex + size) BY <2>2, <3>2, <3>3, SMT
    <3>6. put' = [put EXCEPT ![p] = [pc |-> "copy", frame |-> put[p].frame, slot |-> putIndex]]
      BY <2>5, Zenon DEF PutTake
    <3>7. /\ putIndex' = putIndex + 1
          /\ UNCHANGED <<getIndex, size, frames, get, overtaken>>
      BY <2>5, Zenon DEF PutTake
    <3> QED BY <2>2, <3>2, <3>3, <3>4, <3>5, <3>6, <3>7, SMT
  <2>6. ASSUME NEW p \in Producers, PutCopy(p) PROVE Agree'
    <3>1. put[p].pc = "copy" BY <2>6, SMT DEF PutCopy
    <3>2. \A q \in Producers : q # p => put[q].pc \notin {"take", "copy", "done"}
      BY <3>1, SMT DEF LockInv
    <3>3. get.pc \notin {"take", "done"} BY <3>1, SMT DEF LockInv, Consumer
    <3> QED BY <2>2, <2>6, <3>1, <3>2, <3>3, SMT DEF PutCopy, indices
  <2>7. ASSUME NEW p \in Producers, PutDone(p) PROVE Agree'
    <3>1. put[p].pc = "done" BY <2>7, SMT DEF PutDone
    <3>2. \A q \in Producers : q # p => put[q].pc \notin {"take", "copy", "done"}
      BY <3>1, SMT DEF LockInv
    <3>3. get.pc \notin {"take", "done"} BY <3>1, SMT DEF LockInv, Consumer
    <3>4. /\ size < Capacity /\ put[p].slot = Wrapped(getIndex + size)
          /\ putIndex = put[p].slot + 1
      BY <2>2, <3>1, SMT
    <3>5. size' = size + 1 BY <2>7, <3>4, SMT DEF PutDone, Inc
    <3>6. putIndex' = Wrapped(getIndex + (size + 1))
      <4>1. putIndex' = Wrapped(put[p].slot + 1) BY <2>7, <3>4, SMT DEF PutDone, Wrapped
      <4> QED BY <3>4, <4>1, WrappedSucc
    <3>7. put' = [put EXCEPT ![p].pc = "idle"] BY <2>7, Zenon DEF PutDone
    <3>8. /\ overtaken' = overtaken \cup {q \in Producers : put[q].pc = "lock"}
          /\ UNCHANGED <<getIndex, frames, get>>
      BY <2>7, Zenon DEF PutDone
    <3>9. ~PutUnderWay' BY <3>2, <3>7, SMT
    <3>10. \A q \in Producers : put'[q].pc \in {"lock", "take"} => q \in overtaken'
      BY <3>2, <3>7, <3>8, SMT
    <3> QED BY <2>2, <3>3, <3>4, <3>5, <3>6, <3>8, <3>9, <3>10, SMT
  <2>8. ASSUME NEW mode \in {"copy", "ref"}, GetCheck(mode) PROVE Agree'
    <3>1. get' = [pc |-> "lock", mode |-> mode, frame |-> get.frame] /\ size # 0
      BY <2>8, Zenon DEF GetCheck
    <3>2. UNCHANGED <<putIndex, getIndex, size, frames, put, overtaken>>
      BY <2>8, Zenon DEF GetCheck, indices
    <3> QED BY <2>2, <3>1, <3>2, SMT
  <2>9. ASSUME GetLock PROVE Agree' BY <2>2, <2>9, SMT DEF GetLock, indices
  <2>10. ASSUME GetTake PROVE Agree'
    <3>1. get' = [pc |-> "done", mode |-> get.mode, frame |-> frames[getIndex]] /\ get.pc = "take"
      BY <2>10, Zenon DEF GetTake
    <3>2. UNCHANGED <<putIndex, getIndex, size, frames, put, overtaken>>
      BY <2>10, Zenon DEF GetTake, indices
    <3> QED BY <2>2, <3>1, <3>2, SMT
  <2>11. ASSUME GetDone PROVE Agree'
    <3>1. get.pc = "done" BY <2>11, Zenon DEF GetDone
    <3>2. ~PutUnderWay BY <3>1, SMT DEF LockInv, Consumer
    <3>3. size > 0 /\ size <= Capacity /\ putIndex = Wrapped(getIndex + size)
      BY <2>2, <3>1, <3>2, SMT
    <3>4. size' = size - 1 /\ getIndex' = Wrapped(getIndex + 1)
      BY <2>11, <3>3, SMT DEF GetDone, Dec
    <3>5. putIndex = Wrapped(getIndex' + size') BY <3>3, <3>4, WrappedSucc, SMT
    <3>6. UNCHANGED <<putIndex, frames, put, overtaken>> BY <2>11, Zenon DEF GetDone
    <3>7. get'.pc \in {"idle", "use"} BY <2>11, SMT DEF GetDone
    <3> QED BY <2>2, <3>2, <3>3, <3>4, <3>5, <3>6, <3>7, SMT
  <2>12. ASSUME Peek \/ Release PROVE Agree'
    <3>1. UNCHANGED <<putIndex, getIndex, size, frames, put, overtaken>>
      BY <2>12, Zenon DEF Peek, Release, indices
    <3>2. get' = get \/ get' = [get EXCEPT !.pc = "idle"] BY <2>12, Zenon DEF Peek, Release
    <3> QED BY <2>2, <3>1, <3>2, SMT
  <2>13. CASE UNCHANGED vars BY <2>2, <2>13, SMT DEF vars, indices
  <2> HIDE DEF Agree
  <2> QED
    BY Zenon, <1>2, <2>1, <2>3, <2>4, <2>5, <2>6, <2>7, <2>8, <2>9, <2>10, <2>11, <2>12, <2>13
       DEF Next
<1> QED BY <1>1, <1>2, Zenon

-----------------------------------------------------------------------------
(* What the consumer looks at without the lock *)

\* A put that is not overtaken writes no slot between the next frame's and its own.
LEMMA PutWrites ==
    ASSUME Types, Agree, NEW p \in Producers, PutCopy(p)
    PROVE  /\ \A i \in 0 .. Capacity - 1 :
                 i # size => frames'[Wrapped(getIndex + i)] = frames[Wrapped(getIndex + i)]
           /\ size < Capacity
           /\ frames'[Wrapped(getIndex + size)] = put[p].frame
<1> USE DEF Types
<1>1. put[p].pc = "copy" /\ frames' = [frames EXCEPT ![put[p].slot] = put[p].frame]
  BY Zenon DEF PutCopy
<1>2. size < Capacity /\ put[p].slot = Wrapped(getIndex + size) BY <1>1, SMT DEF Agree
<1>3. \A i \in 0 .. Capacity - 1 : i # size => Wrapped(getIndex + i) # Wrapped(getIndex + size)
  BY <1>2, SMT DEF Wrapped, Slots
<1>4. \A i \in 0 .. Capacity - 1 : Wrapped(getIndex + i) \in Slots BY SMT DEF Wrapped, Slots
<1> QED BY <1>1, <1>2, <1>3, <1>4, SMT

\* A frame looked at stays the next one until it is taken.
LEMMA PeekStep ==
    TypeOK /\ Types /\ LockInv /\ ResetInv /\ AgreeInv /\ PeekedIsNext /\ [Next]_vars => PeekedIsNext'
<1> SUFFICES ASSUME TypeOK, Types, LockInv, ResetInv, AgreeInv, PeekedIsNext, [Next]_vars, whole'
             PROVE  (\A f \in peeked : size # 0 /\ frames[getIndex] = f)'
  BY Zenon DEF PeekedIsNext
<1> DEFINE Same == \A f \in peeked : size # 0 /\ frames[getIndex] = f
<1> SUFFICES Same' OBVIOUS
<1>1. ASSUME ResetSize PROVE Same' BY <1>1, Zenon DEF ResetSize
<1>2. ASSUME ~ResetSize PROVE Same'
  <2>1. whole /\ ~ResetPut /\ ~ResetGet BY <1>2, WholeStep, Zenon
  <2>2. Agree /\ Same BY <2>1, Zenon DEF AgreeInv, PeekedIsNext
  <2>3. ASSUME NEW p \in Producers, PutCopy(p) PROVE Same'
    <3>1. UNCHANGED <<peeked, getIndex, size>> BY <2>3, Zenon DEF PutCopy, indices
    <3>2. size # 0 => frames'[getIndex] = frames[getIndex]
      <4>1. Wrapped(getIndex + 0) = getIndex BY WrappedSucc DEF Types
      <4>2. 0 \in 0 .. Capacity - 1 OBVIOUS
      <4> QED BY <2>2, <2>3, <4>1, <4>2, PutWrites
    <3> QED BY <2>2, <3>1, <3>2
  <2>4. ASSUME NEW p \in Producers, PutDone(p) PROVE Same'
    <3>1. size < Capacity BY <2>2, <2>4, SMT DEF Agree, PutDone
    <3>2. size' # 0 BY <2>4, <3>1, SMT DEF PutDone, Inc, Types
    <3> QED BY <2>2, <2>4, <3>2, Zenon DEF PutDone
  <2>5. ASSUME Peek PROVE Same' BY <2>5, SMT DEF Peek, indices
  <2>6. ASSUME GetDone PROVE Same' BY <2>6, Zenon DEF GetDone
  <2>7. ASSUME UNCHANGED <<peeked, getIndex, size, frames>> PROVE Same' BY <2>2, <2>7, SMT
  <2>8. ASSUME NEW p \in Producers, NEW f \in Frames, PutCheck(p, f)
        PROVE UNCHANGED <<peeked, getIndex, size, frames>>
    BY <2>8, Zenon DEF PutCheck, indices
  <2>9. ASSUME NEW p \in Producers, PutLock(p) \/ PutTake(p)
        PROVE UNCHANGED <<peeked, getIndex, size, frames>>
    BY <2>9, Zenon DEF PutLock, PutTake, indices
  <2>10. ASSUME NEW mode \in {"copy", "ref"}, GetCheck(mode)
         PROVE UNCHANGED <<peeked, getIndex, size, frames>>
    BY <2>10, Zenon DEF GetCheck, indices
  <2>11. ASSUME GetLock \/ GetTake \/ Release PROVE UNCHANGED <<peeked, getIndex, size, frames>>
    BY <2>11, Zenon DEF GetLock, GetTake, Release, indices
  <2>12. ASSUME UNCHANGED vars PROVE UNCHANGED <<peeked, getIndex, size, frames>>
    BY <2>12, SMT DEF vars, indices
  <2> HIDE DEF Same
  <2> QED
    BY Zenon, <1>2, <2>1, <2>3, <2>4, <2>5, <2>6, <2>7, <2>8, <2>9, <2>10, <2>11, <2>12 DEF Next
<1> HIDE DEF Same
<1> QED BY <1>1, <1>2, Zenon

\* The slot a reference is to is the last one the producers reach.
LEMMA RefStep ==
    TypeOK /\ Types /\ LockInv /\ ResetInv /\ AgreeInv /\ RefInv /\ [Next]_vars => RefInv'
<1> DEFINE Kept(r) ==
        /\ getIndex = Wrapped(r.slot + 1)
        /\ \/ frames[r.slot] = r.frame
           \/ size = Capacity
           \/ PutUnderWay /\ size = Capacity - 1
<1> SUFFICES ASSUME TypeOK, Types, LockInv, ResetInv, AgreeInv, RefInv, [Next]_vars, whole'
             PROVE  \A r \in ref' : Kept(r)'
  BY Zenon DEF RefInv
<1> DEFINE Good == \A r \in ref : Kept(r)
<1> SUFFICES Good' OBVIOUS
<1>0. ref \in SUBSET [slot : Slots, frame : Frames] BY Zenon DEF TypeOK
<1>1. ASSUME ResetSize PROVE Good'
  <2>1. ~overlapped /\ reset = "size" /\ ref' = ref BY <1>1, Zenon DEF ResetSize
  <2> QED BY <2>1, Zenon DEF ResetInv
<1>2. ASSUME ~ResetSize PROVE Good'
  <2>1. whole /\ ~ResetPut /\ ~ResetGet BY <1>2, WholeStep, Zenon
  <2>2. Agree /\ Good BY <2>1, Zenon DEF AgreeInv, RefInv
  <2>3. ASSUME NEW p \in Producers, PutTake(p) PROVE Good'
    <3>1. UNCHANGED <<ref, getIndex, size, frames>> BY <2>3, Zenon DEF PutTake
    <3>2. PutUnderWay' BY <2>3, SMT DEF PutTake, PutUnderWay, Types
    <3> QED BY <2>2, <3>1, <3>2
  <2>4. ASSUME NEW p \in Producers, PutCopy(p) PROVE Good'
    <3>1. UNCHANGED <<ref, getIndex, size>> BY <2>4, Zenon DEF PutCopy, indices
    <3>2. PutUnderWay' BY <2>4, SMT DEF PutCopy, PutUnderWay, Types
    <3>3. size < Capacity BY <2>2, <2>4, PutWrites
    <3>4. ASSUME NEW r \in ref, size # Capacity - 1 PROVE frames'[r.slot] = frames[r.slot]
      <4>1. r.slot \in Slots /\ getIndex = Wrapped(r.slot + 1) BY <1>0, <2>2
      <4>2. r.slot = Wrapped(getIndex + (Capacity - 1)) BY <4>1 DEF Wrapped, Slots
      <4>3. Capacity - 1 \in 0 .. Capacity - 1 OBVIOUS
      <4> QED BY <2>2, <2>4, <3>4, <4>2, <4>3, PutWrites
    <3>5. ASSUME NEW r \in ref PROVE Kept(r)'
      <4>1. Kept(r) BY <2>2
      <4> QED BY <3>1, <3>2, <3>3, <3>4, <4>1
    <3> QED BY <3>1, <3>5
  <2>5. ASSUME NEW p \in Producers, PutDone(p) PROVE Good'
    <3>1. put[p].pc = "done" BY <2>5, SMT DEF PutDone
    <3>2. size < Capacity BY <2>2, <3>1, SMT DEF Agree
    <3>3. size' = size + 1 BY <2>5, <3>2, SMT DEF PutDone, Inc, Types
    <3>4. UNCHANGED <<ref, getIndex, frames>> BY <2>5, Zenon DEF PutDone
    <3>5. ASSUME NEW r \in ref PROVE Kept(r)'
      <4>1. Kept(r) BY <2>2
      <4> QED BY <3>2, <3>3, <3>4, <4>1
    <3> QED BY <3>4, <3>5
  <2>6. ASSUME GetDone PROVE Good'
    <3>1. ref' = IF get.mode = "ref" THEN {[slot |-> getIndex, frame |-> get.frame]} ELSE {}
      BY <2>6, Zenon DEF GetDone
    <3>2. getIndex' = Wrapped(getIndex + 1) /\ frames' = frames BY <2>6, Zenon DEF GetDone
    <3>3. get.frame = frames[getIndex] BY <2>2, <2>6, SMT DEF Agree, GetDone
    <3> QED BY <3>1, <3>2, <3>3
  <2>7. ASSUME Release PROVE Good' BY <2>7, Zenon DEF Release
  <2>8. ASSUME UNCHANGED <<ref, getIndex, size, frames>>, PutUnderWay => PutUnderWay' PROVE Good'
    BY <2>2, <2>8
  <2>9. ASSUME NEW p \in Producers, NEW f \in Frames, PutCheck(p, f) PROVE Good'
    <3>1. UNCHANGED <<ref, getIndex, size, frames>> BY <2>9, Zenon DEF PutCheck, indices
    <3>2. PutUnderWay => PutUnderWay' BY <2>9, SMT DEF PutCheck, PutUnderWay, Types
    <3> QED BY <2>8, <3>1, <3>2, Zenon
  <2>10. ASSUME NEW p \in Producers, PutLock(p) PROVE Good'
    <3>1. UNCHANGED <<ref, getIndex, size, frames>> BY <2>10, Zenon DEF PutLock, indices
    <3>2. PutUnderWay => PutUnderWay' BY <2>10, SMT DEF PutLock, PutUnderWay, Types
    <3> QED BY <2>8, <3>1, <3>2, Zenon
  <2>11. ASSUME UNCHANGED <<ref, getIndex, size, frames, put>> PROVE Good'
    BY <2>8, <2>11, Zenon DEF PutUnderWay
  <2>12. ASSUME NEW mode \in {"copy", "ref"}, GetCheck(mode)
         PROVE UNCHANGED <<ref, getIndex, size, frames, put>>
    BY <2>12, Zenon DEF GetCheck, indices
  <2>13. ASSUME Peek \/ GetLock \/ GetTake PROVE UNCHANGED <<ref, getIndex, size, frames, put>>
    BY <2>13, Zenon DEF Peek, GetLock, GetTake, indices
  <2>14. ASSUME UNCHANGED vars PROVE UNCHANGED <<ref, getIndex, size, frames, put>>
    BY <2>14, SMT DEF vars, indices
  <2> HIDE DEF Good
  <2> QED
    BY Zenon, <1>2, <2>1, <2>3, <2>4, <2>5, <2>6, <2>7, <2>9, <2>10, <2>11, <2>12, <2>13, <2>14
       DEF Next
<1> HIDE DEF Good
<1> QED BY <1>1, <1>2, Zenon

-----------------------------------------------------------------------------
(* The theorems *)

LEMMA InvStep == Inv /\ [Next]_vars => Inv'
<1> SUFFICES ASSUME Inv, [Next]_vars PROVE Inv' OBVIOUS
<1>1. /\ TypeOK /\ LockInv /\ IndexInv /\ ResetInv
      /\ AgreeInv /\ PeekedIsNext /\ RefInv
  BY Zenon DEF Inv
<1>2. Types BY <1>1, Zenon DEF TypeOK, Types
<1>3. TypeOK' BY TypeOKStep, Zenon
<1>4. LockInv' /\ IndexInv' /\ ResetInv' BY <1>1, <1>2, LockStep, IndexStep, ResetStep, Zenon
<1>5. AgreeInv' BY <1>1, <1>2, AgreeStep, Zenon
<1>6. PeekedIsNext' /\ RefInv' BY <1>1, <1>2, PeekStep, RefStep, Zenon
<1> QED BY <1>3, <1>4, <1>5, <1>6, Zenon DEF Inv

THEOREM InvHolds == Spec => []Inv
<1>1. Init => Inv BY InitInv
<1>2. Inv /\ [Next]_vars => Inv' BY InvStep
<1> QED BY <1>1, <1>2, PTL DEF Spec

\* No index leaves the ring and no value its type, whatever the threads' steps and
\* the application's resets do to each other.
THEOREM TypesHold == Spec => []TypeOK
<1>1. Inv => TypeOK BY DEF Inv
<1> QED BY <1>1, InvHolds, PTL

\* getNextFrameTimestamp and getCurFrameRef look without the lock; still the frame
\* they saw is the one the next getFrame returns.
THEOREM PeekedFrameIsNext == Spec => []PeekedIsNext
<1>1. Inv => PeekedIsNext BY DEF Inv
<1> QED BY <1>1, InvHolds, PTL

\* The payload getFrameRef handed out is intact while the buffer has room.
THEOREM ReferenceStaysGood == Spec => []ReferenceIsGood
<1>1. Inv => ReferenceIsGood
  <2> SUFFICES ASSUME Inv, whole, size < Capacity, ~PutUnderWay, NEW r \in ref
               PROVE  frames[r.slot] = r.frame
    BY Zenon DEF ReferenceIsGood
  <2>1. frames[r.slot] = r.frame \/ size = Capacity \/ (PutUnderWay /\ size = Capacity - 1)
    <3>1. RefInv BY DEF Inv
    <3> QED BY <3>1, Zenon DEF RefInv
  <2>2. size \in Nat BY DEF Inv, TypeOK
  <2> QED BY <2>1, <2>2
<1> QED BY <1>1, InvHolds, PTL

-----------------------------------------------------------------------------
(* The buffer implements the queue *)

\* n frames of the ring from slot g on.
From(g, n, fr) == [i \in 1 .. n |-> fr[Wrapped(g + i - 1)]]

\* Such a run of slots is a sequence of frames.
LEMMA FromIsSeq ==
    ASSUME NEW g \in Slots, NEW n \in 0 .. Capacity, NEW fr \in [Slots -> Frames]
    PROVE  /\ From(g, n, fr) \in Seq(Frames)
           /\ Len(From(g, n, fr)) = n
           /\ \A i \in 1 .. n : From(g, n, fr)[i] = fr[Wrapped(g + (i - 1))]
<1>1. \A i \in 1 .. n : g + i - 1 = g + (i - 1) /\ Wrapped(g + i - 1) \in Slots
  BY SMT DEF Wrapped, Slots
<1>2. From(g, n, fr) \in [1 .. n -> Frames] BY <1>1, SMT DEF From
<1>3. From(g, n, fr) \in Seq(Frames) BY <1>2, SeqDef
<1>4. Len(From(g, n, fr)) = n BY <1>2, <1>3, LenProperties
<1> QED BY <1>1, <1>3, <1>4 DEF From

\* A frame written behind it is appended to it.
LEMMA FromAppend ==
    ASSUME NEW g \in Slots, NEW n \in 0 .. Capacity - 1, NEW fr \in [Slots -> Frames],
           NEW f \in Frames, fr[Wrapped(g + n)] = f
    PROVE  From(g, n + 1, fr) = Append(From(g, n, fr), f)
<1>1. /\ From(g, n + 1, fr) \in Seq(Frames) /\ Len(From(g, n + 1, fr)) = n + 1
      /\ \A i \in 1 .. n + 1 : From(g, n + 1, fr)[i] = fr[Wrapped(g + (i - 1))]
  <2>1. n + 1 \in 0 .. Capacity OBVIOUS
  <2> QED BY <2>1, FromIsSeq
<1>2. /\ From(g, n, fr) \in Seq(Frames) /\ Len(From(g, n, fr)) = n
      /\ \A i \in 1 .. n : From(g, n, fr)[i] = fr[Wrapped(g + (i - 1))]
  <2>1. n \in 0 .. Capacity OBVIOUS
  <2> QED BY <2>1, FromIsSeq
<1> DEFINE A == Append(From(g, n, fr), f)
<1>3. /\ A \in Seq(Frames) /\ Len(A) = n + 1
      /\ \A i \in 1 .. n : A[i] = From(g, n, fr)[i]
      /\ A[n + 1] = f
  BY <1>2, AppendProperties
<1> HIDE DEF A
<1>4. \A i \in 1 .. n + 1 : From(g, n + 1, fr)[i] = A[i]
  <2> TAKE i \in 1 .. n + 1
  <2>1. CASE i \in 1 .. n BY <1>1, <1>2, <1>3, <2>1
  <2>2. CASE i = n + 1
    <3>1. (n + 1) - 1 = n OBVIOUS
    <3> QED BY <1>1, <1>3, <2>2, <3>1
  <2> QED BY <2>1, <2>2
<1>5. From(g, n + 1, fr) = A BY <1>1, <1>3, <1>4, SeqEqual
<1> QED BY <1>5 DEF A

\* A frame read from its first slot is its head.
LEMMA FromTail ==
    ASSUME NEW g \in Slots, NEW n \in 1 .. Capacity, NEW fr \in [Slots -> Frames]
    PROVE  /\ From(g, n, fr) # << >>
           /\ Head(From(g, n, fr)) = fr[g]
           /\ Tail(From(g, n, fr)) = From(Wrapped(g + 1), n - 1, fr)
<1>1. /\ From(g, n, fr) \in Seq(Frames) /\ Len(From(g, n, fr)) = n
      /\ \A i \in 1 .. n : From(g, n, fr)[i] = fr[Wrapped(g + (i - 1))]
  BY FromIsSeq
<1> DEFINE g1 == Wrapped(g + 1)
<1>2. g1 \in Slots /\ \A i \in 0 .. Capacity - 1 : Wrapped(g1 + i) = Wrapped(g + (i + 1))
  BY WrappedSucc
<1> HIDE DEF g1
<1>3. /\ From(g1, n - 1, fr) \in Seq(Frames) /\ Len(From(g1, n - 1, fr)) = n - 1
      /\ \A i \in 1 .. n - 1 : From(g1, n - 1, fr)[i] = fr[Wrapped(g1 + (i - 1))]
  <2>1. n - 1 \in 0 .. Capacity OBVIOUS
  <2> QED BY <1>2, <2>1, FromIsSeq
<1>4. From(g, n, fr) # << >> BY <1>1, EmptySeq
<1> DEFINE T == Tail(From(g, n, fr))
<1>5. /\ T \in Seq(Frames) /\ Len(T) = n - 1
      /\ \A i \in 1 .. n - 1 : T[i] = From(g, n, fr)[i + 1]
  BY <1>1, <1>4, HeadTailProperties
<1>6. \A i \in 1 .. n - 1 : T[i] = From(g1, n - 1, fr)[i]
  <2> TAKE i \in 1 .. n - 1
  <2>1. T[i] = fr[Wrapped(g + i)] BY <1>1, <1>5
  <2>2. From(g1, n - 1, fr)[i] = fr[Wrapped(g + i)] BY <1>2, <1>3
  <2> QED BY <2>1, <2>2
<1> HIDE DEF T
<1>7. T = From(g1, n - 1, fr) BY <1>3, <1>5, <1>6, SeqEqual
<1>8. Head(From(g, n, fr)) = fr[g]
  <2>1. Head(From(g, n, fr)) = From(g, n, fr)[1] BY <1>1, <1>4
  <2> QED BY <1>1, <2>1, WrappedSucc
<1> QED BY <1>4, <1>7, <1>8 DEF T, g1

\* It does not change when another slot is written.
LEMMA FromSame ==
    ASSUME NEW g \in Slots, NEW n \in 0 .. Capacity, NEW fr \in [Slots -> Frames],
           NEW fr2 \in [Slots -> Frames],
           \A i \in 0 .. n - 1 : fr2[Wrapped(g + i)] = fr[Wrapped(g + i)]
    PROVE  From(g, n, fr2) = From(g, n, fr)
<1>1. /\ From(g, n, fr) \in Seq(Frames) /\ Len(From(g, n, fr)) = n
      /\ \A i \in 1 .. n : From(g, n, fr)[i] = fr[Wrapped(g + (i - 1))]
  BY FromIsSeq
<1>2. /\ From(g, n, fr2) \in Seq(Frames) /\ Len(From(g, n, fr2)) = n
      /\ \A i \in 1 .. n : From(g, n, fr2)[i] = fr2[Wrapped(g + (i - 1))]
  BY FromIsSeq
<1>3. \A i \in 1 .. n : From(g, n, fr2)[i] = From(g, n, fr)[i] BY <1>1, <1>2
<1> QED BY <1>1, <1>2, <1>3, SeqEqual

\* The buffer begins as an empty queue.
LEMMA QueueInit == Init => Q!Init
<1> SUFFICES ASSUME Init PROVE Q!Init OBVIOUS
<1>1. size = 0 /\ whole BY Zenon DEF Init
<1>2. Queue = << >> BY <1>1, SMT DEF Queue
<1>3. taken \in Frames BY DEF Init
<1>4. whole = TRUE BY DEF Init
<1> QED BY <1>1, <1>2, <1>3, <1>4, Zenon DEF Q!Init

\* Every step of the buffer is one of the queue or changes nothing of it: the end of
\* a put puts, the end of a get takes, a reset breaks the promise and its end renews it.
LEMMA QueueStep == Inv /\ Inv' /\ [Next]_vars => [Q!Next]_(Q!vars)
<1> SUFFICES ASSUME Inv, Inv', [Next]_vars PROVE [Q!Next]_(Q!vars) OBVIOUS
<1> DEFINE queue == IF whole THEN Queue ELSE << >>
<1>0. /\ TypeOK /\ Types /\ LockInv /\ ResetInv /\ AgreeInv
      /\ TypeOK' /\ Types'
  BY Zenon DEF Inv, TypeOK, Types
<1>1. Queue = From(getIndex, size, frames) /\ Queue' = From(getIndex', size', frames')
  BY Zenon DEF Queue, From
<1>2. whole \in BOOLEAN /\ whole' \in BOOLEAN BY <1>0, Zenon DEF TypeOK
<1>3. getIndex \in Slots /\ frames \in [Slots -> Frames] /\ size \in Nat BY <1>0 DEF Types
<1>4. ASSUME UNCHANGED <<queue, taken>>, whole' = whole PROVE [Q!Next]_(Q!vars)
  BY <1>4 DEF Q!vars
<1>5. ASSUME UNCHANGED <<getIndex, size, frames, taken>>, whole' = whole PROVE [Q!Next]_(Q!vars)
  <2>1. Queue' = Queue BY <1>1, <1>5
  <2>2. queue' = queue BY <1>5, <2>1, Zenon
  <2> QED BY <1>4, <1>5, <2>2
<1>6. ASSUME NEW p \in Producers, NEW f \in Frames, PutCheck(p, f) PROVE [Q!Next]_(Q!vars)
  <2>1. UNCHANGED <<getIndex, size, frames, taken>> /\ whole' = whole
    BY <1>6, Zenon DEF PutCheck, indices
  <2> QED BY <1>5, <2>1, Zenon
<1>7. ASSUME NEW p \in Producers, PutLock(p) PROVE [Q!Next]_(Q!vars)
  <2>1. UNCHANGED <<getIndex, size, frames, taken>> /\ whole' = whole
    BY <1>7, Zenon DEF PutLock, indices
  <2> QED BY <1>5, <2>1, Zenon
<1>8. ASSUME NEW p \in Producers, PutTake(p) PROVE [Q!Next]_(Q!vars)
  <2>1. UNCHANGED <<getIndex, size, frames, taken>> BY <1>8, Zenon DEF PutTake
  <2>2. CASE whole' = whole BY <1>5, <2>1, <2>2, Zenon
  <2>3. CASE whole' # whole
    <3>1. whole /\ ~whole' BY <1>2, <1>8, <2>3, Zenon DEF PutTake
    <3>2. whole' = FALSE BY <1>2, <3>1, Zenon
    <3>3. queue' = << >> BY <3>1, Zenon
    <3>4. Q!Break BY <2>1, <3>2, <3>3, Zenon DEF Q!Break
    <3> QED BY <3>4, Zenon DEF Q!Next
  <2> QED BY <2>2, <2>3, Zenon
<1>9. ASSUME NEW p \in Producers, PutCopy(p) PROVE [Q!Next]_(Q!vars)
  <2>1. UNCHANGED <<getIndex, size, taken>> /\ whole' = whole BY <1>9, Zenon DEF PutCopy, indices
  <2>2. ASSUME whole PROVE Queue' = Queue
    <3>1. Agree BY <2>2, <1>0, Zenon DEF AgreeInv
    <3>2. /\ \A i \in 0 .. Capacity - 1 :
                i # size => frames'[Wrapped(getIndex + i)] = frames[Wrapped(getIndex + i)]
          /\ size < Capacity
      BY <1>0, <1>9, <3>1, PutWrites
    <3>3. size \in 0 .. Capacity BY <1>3, <3>2
    <3>4. \A i \in 0 .. size - 1 : frames'[Wrapped(getIndex + i)] = frames[Wrapped(getIndex + i)]
      BY <1>3, <3>2
    <3>5. frames' \in [Slots -> Frames] BY <1>0 DEF Types
    <3> QED BY <1>1, <1>3, <2>1, <3>3, <3>4, <3>5, FromSame
  <2>3. queue' = queue BY <2>1, <2>2, Zenon
  <2> QED BY <1>4, <2>1, <2>3, Zenon
<1>10. ASSUME NEW p \in Producers, PutDone(p) PROVE [Q!Next]_(Q!vars)
  <2>1. UNCHANGED <<getIndex, frames, taken>> /\ whole' = whole BY <1>10, Zenon DEF PutDone
  <2>2. CASE ~whole
    <3>1. queue' = queue BY <2>1, <2>2, Zenon
    <3> QED BY <1>4, <2>1, <3>1, Zenon
  <2>3. CASE whole
    <3>1. Agree BY <1>0, <2>3, Zenon DEF AgreeInv
    <3>2. put[p].pc = "done" BY <1>10, Zenon DEF PutDone
    <3> DEFINE f == put[p].frame
    <3>3. f \in Frames BY <1>0 DEF Types
    <3>4. size < Capacity /\ frames[Wrapped(getIndex + size)] = f BY <3>1, <3>2 DEF Agree
    <3>5. size' = size + 1 BY <1>3, <1>10, <3>4 DEF PutDone, Inc
    <3>6. Queue' = Append(Queue, f)
      <4>1. size \in 0 .. Capacity - 1 BY <1>3, <3>4
      <4> HIDE DEF f
      <4> QED BY <1>1, <1>3, <2>1, <3>3, <3>4, <3>5, <4>1, FromAppend
    <3>7. Len(Queue) < Capacity
      <4>1. size \in 0 .. Capacity BY <1>3, <3>4
      <4> QED BY <1>1, <1>3, <3>4, <4>1, FromIsSeq
    <3> HIDE DEF f
    <3>8. queue = Queue /\ queue' = Queue' BY <2>1, <2>3, Zenon
    <3> HIDE DEF queue
    <3>9. /\ queue' = Append(queue, f) /\ Len(queue) < Capacity
      BY <3>6, <3>7, <3>8, Zenon
    <3> USE DEF queue
    <3>10. Q!Put(f) BY <2>1, <2>3, <3>9, Zenon DEF Q!Put
    <3> QED BY <3>3, <3>10, Zenon DEF Q!Next
  <2> QED BY <2>2, <2>3, Zenon
<1>11. ASSUME Peek PROVE [Q!Next]_(Q!vars)
  <2>1. UNCHANGED <<getIndex, size, frames, taken>> /\ whole' = whole BY <1>11, Zenon DEF Peek, indices
  <2> QED BY <1>5, <2>1, Zenon
<1>12. ASSUME NEW mode \in {"copy", "ref"}, GetCheck(mode) PROVE [Q!Next]_(Q!vars)
  <2>1. UNCHANGED <<getIndex, size, frames, taken>> /\ whole' = whole
    BY <1>12, Zenon DEF GetCheck, indices
  <2> QED BY <1>5, <2>1, Zenon
<1>13. ASSUME GetLock \/ GetTake \/ Release PROVE [Q!Next]_(Q!vars)
  <2>1. UNCHANGED <<getIndex, size, frames, taken>> /\ whole' = whole
    BY <1>13, Zenon DEF GetLock, GetTake, Release, indices
  <2> QED BY <1>5, <2>1, Zenon
<1>14. ASSUME GetDone PROVE [Q!Next]_(Q!vars)
  <2>1. frames' = frames /\ taken' = get.frame /\ whole' = whole BY <1>14, Zenon DEF GetDone
  <2>2. CASE ~whole
    <3>1. queue' = queue BY <2>1, <2>2, Zenon
    <3>2. taken' \in Frames BY <1>0 DEF Types
    <3>3. Q!TakeAny BY <2>1, <2>2, <3>1, <3>2, Zenon DEF Q!TakeAny
    <3> QED BY <3>3, Zenon DEF Q!Next
  <2>3. CASE whole
    <3>1. Agree BY <1>0, <2>3, Zenon DEF AgreeInv
    <3>2. get.pc = "done" BY <1>14, Zenon DEF GetDone
    <3>3. ~PutUnderWay BY <1>0, <3>2, SMT DEF LockInv, PutUnderWay, Consumer, Types
    <3>4. size \in 1 .. Capacity BY <1>3, <3>1, <3>2, <3>3 DEF Agree, GetUnderWay
    <3>5. get.frame = frames[getIndex] BY <3>1, <3>2 DEF Agree
    <3>6. size' = size - 1 /\ getIndex' = Wrapped(getIndex + 1) BY <1>14, <3>4 DEF GetDone, Dec
    <3>7. Queue # << >> /\ taken' = Head(Queue) /\ Queue' = Tail(Queue)
      BY <1>1, <1>3, <2>1, <3>4, <3>5, <3>6, FromTail
    <3>8. queue = Queue /\ queue' = Queue' BY <2>1, <2>3, Zenon
    <3>9. Q!Get BY <2>1, <2>3, <3>7, <3>8, Zenon DEF Q!Get
    <3> QED BY <3>9, Zenon DEF Q!Next
  <2> QED BY <2>2, <2>3, Zenon
<1>15. ASSUME ResetPut PROVE [Q!Next]_(Q!vars)
  <2>1. taken' = taken /\ whole' = FALSE BY <1>15, Zenon DEF ResetPut
  <2>2. queue' = << >> BY <2>1, Zenon
  <2>3. Q!Break BY <2>1, <2>2, Zenon DEF Q!Break
  <2> QED BY <2>3, Zenon DEF Q!Next
<1>16. ASSUME ResetGet PROVE [Q!Next]_(Q!vars)
  <2>1. taken' = taken /\ whole' = whole /\ reset = "get" BY <1>16, Zenon DEF ResetGet
  <2>2. ~whole BY <1>0, <2>1 DEF ResetInv
  <2>3. queue' = queue BY <2>1, <2>2, Zenon
  <2> QED BY <1>4, <2>1, <2>3, Zenon
<1>17. ASSUME ResetSize PROVE [Q!Next]_(Q!vars)
  <2>1. /\ taken' = taken /\ size' = 0 /\ reset = "size"
        /\ whole' = ~overlapped
    BY <1>17, Zenon DEF ResetSize
  <2>2. ~whole BY <1>0, <2>1 DEF ResetInv
  <2>3. CASE overlapped
    <3>1. ~whole' BY <2>1, <2>3, Zenon
    <3>2. queue' = queue /\ whole' = whole BY <1>2, <2>2, <3>1, Zenon
    <3> QED BY <1>4, <2>1, <3>2, Zenon
  <2>4. CASE ~overlapped
    <3>1. whole' /\ whole' = TRUE BY <1>2, <2>1, <2>4, Zenon
    <3>2. Queue' = << >>
      <4>1. Queue' = [i \in 1 .. 0 |-> frames'[Wrapped(getIndex' + i - 1)]] BY <2>1, Zenon DEF Queue
      <4> QED BY <4>1, SMT
    <3>3. queue' = << >> BY <3>1, <3>2, Zenon
    <3>4. Q!Clear BY <2>1, <3>1, <3>3, Zenon DEF Q!Clear
    <3> QED BY <3>4, Zenon DEF Q!Next
  <2> QED BY <2>3, <2>4, Zenon
<1>18. CASE UNCHANGED vars
  <2>1. UNCHANGED <<getIndex, size, frames, taken>> BY <1>18, SMT DEF vars, indices
  <2>2. whole' = whole BY <1>18 DEF vars
  <2> QED BY <1>5, <2>1, <2>2, Zenon
<1> QED
  BY Zenon, <1>6, <1>7, <1>8, <1>9, <1>10, <1>11, <1>12, <1>13, <1>14, <1>15, <1>16, <1>17,
     <1>18 DEF Next

\* The media buffer is a bounded queue for its consumer: what was put, each once, in
\* order, as long as no reset and no overtaken producer has broken it.
THEOREM BufferIsAQueue == Spec => IsAQueue
<1>1. Init => Q!Init BY QueueInit
<1>2. Inv /\ Inv' /\ [Next]_vars => [Q!Next]_(Q!vars) BY QueueStep
<1> QED BY <1>1, <1>2, InvHolds, PTL DEF Spec, IsAQueue, Q!Spec
=============================================================================
