------------------------- MODULE PushPublishProofs --------------------------
(***************************************************************************)
(* A stream, a session and a publisher that are freed are used by no       *)
(* thread but those the code does not wait for, for every number of        *)
(* threads and messages; and publishing implements the message thread.     *)
(*                                                                         *)
(* The invariant says who may be where: one thread at a time is in the     *)
(* handle, and what it holds is m_pub; a publisher that is made is new;    *)
(* from the moment its mark is cleared it is never set again, so that a    *)
(* thread found between the mark and the end of its use is one of those    *)
(* counted when the mark was cleared.                                      *)
(***************************************************************************)
EXTENDS PushPublish, TLAPS

-----------------------------------------------------------------------------
(* The message thread: what it has handled is a beginning of what was put  *)
(* on the list, as long as no two threads change the list at once, for     *)
(* what has been put on it is what has been handled, followed by what is   *)
(* on the list.                                                            *)

\* The message that is handled is still on the list.
InHand == handler.pc \in {"handle", "erase"}
Done == IF InHand THEN Len(handled) - 1 ELSE Len(handled)

\* The list continues what is done.
ListInv ==
    ~torn =>
        /\ InHand => Len(queue) > 0 /\ Len(handled) > 0
        /\ Len(pushed) = Done + Len(queue)
        /\ \A i \in 1 .. Len(handled) : handled[i] = pushed[i]
        /\ \A i \in 1 .. Len(queue) : queue[i] = pushed[Done + i]

\* The messages have numbers of their own: those on the list, and those that a thread is about
\* to put there.
NumberInv ==
    /\ \A i \in 1 .. Len(pushed) : pushed[i].n <= posts
    /\ \A p \in Posters : \A m \in poster[p].msg : m.n <= posts
    /\ \A i, j \in 1 .. Len(pushed) : pushed[i].n = pushed[j].n => i = j
    /\ \A p \in Posters : \A m \in poster[p].msg :
        /\ \A i \in 1 .. Len(pushed) : pushed[i].n # m.n
        /\ \A q \in Posters : \A l \in poster[q].msg : l.n = m.n => q = p /\ l = m

\* A record of the types stays one when its program counter moves.
LEMMA PosterMoves ==
    ASSUME NEW r \in PosterType, NEW pc \in {"idle", "push", "test", "signal"}
    PROVE  [r EXCEPT !.pc = pc] \in PosterType
BY DEF PosterType

LEMMA HandlerMoves ==
    ASSUME NEW from, NEW to, HandlerAt(from, to), handler \in HandlerType,
           to \in {"begin", "lock", "while", "arm", "wait", "woken", "awake", "size", "handle", "ended"}
    PROVE  handler' \in HandlerType
BY DEF HandlerAt, HandlerType

\* The type invariant holds at the beginning and is kept.
LEMMA TypesInit == MsgInit => MsgTypeOK
<1> SUFFICES ASSUME MsgInit PROVE MsgTypeOK
    OBVIOUS
<1>1. << >> \in Seq(Message)
    OBVIOUS
<1>2. [pc |-> "idle", msg |-> {}, list |-> << >>] \in PosterType
    BY <1>1 DEF PosterType
<1>3. poster \in [Posters -> PosterType]
    BY <1>2 DEF MsgInit
<1>4. handler \in HandlerType
    BY <1>1 DEF MsgInit, HandlerType
<1>5. queue \in Seq(Message) /\ pushed \in Seq(Message) /\ handled \in Seq(Message)
    BY <1>1 DEF MsgInit
<1>6. torn \in BOOLEAN /\ stopLost \in BOOLEAN
    BY Zenon DEF MsgInit
<1>7. posts \in 0 .. MaxPosts /\ loop \in {0, 1} /\ waitState \in {0, 1} /\ overlooked \subseteq Message
    BY MaxPostsAssumption DEF MsgInit
<1>8. owner \in {"open", "delete", "test", "signal", "wait", "gone"}
    BY DEF MsgInit
<1> QED BY <1>3, <1>4, <1>5, <1>6, <1>7, <1>8, Zenon DEF MsgTypeOK

LEMMA TypesStep == MsgTypeOK /\ [MsgNext]_msgVars => MsgTypeOK'
<1> SUFFICES ASSUME MsgTypeOK, [MsgNext]_msgVars PROVE MsgTypeOK'
    OBVIOUS
<1>0. torn \in BOOLEAN /\ stopLost \in BOOLEAN
    BY Zenon DEF MsgTypeOK
<1> DEFINE Flags == torn' \in BOOLEAN /\ stopLost' \in BOOLEAN
           Rest == /\ poster \in [Posters -> PosterType]
                   /\ queue \in Seq(Message)
                   /\ loop \in {0, 1} /\ waitState \in {0, 1}
                   /\ handler \in HandlerType
                   /\ owner \in {"open", "delete", "test", "signal", "wait", "gone"}
                   /\ posts \in 0 .. MaxPosts
                   /\ pushed \in Seq(Message) /\ handled \in Seq(Message)
                   /\ overlooked \subseteq Message
<1>01. Rest
    BY Zenon DEF MsgTypeOK
<1>02. ASSUME Rest', Flags PROVE MsgTypeOK'
    BY <1>02, Zenon DEF MsgTypeOK
<1>1. CASE UNCHANGED msgVars
    <2>1. Flags
        BY <1>1, <1>0, Zenon DEF msgVars, msgHistory
    <2>2. Rest'
        BY <1>1, <1>01 DEF msgVars, msgHistory
    <2> QED BY <2>1, <2>2, <1>02, Zenon
<1>2. ASSUME NEW p \in Posters, NEW kind \in Kinds, Post(p, kind) PROVE MsgTypeOK'
    <2> DEFINE m == [n |-> posts + 1, kind |-> kind]
    <2>1. m \in Message
        BY <1>2, <1>01, MaxPostsAssumption DEF Post, Message
    <2>2. [pc |-> "push", list |-> queue, msg |-> {m}] \in PosterType
        BY <2>1, <1>01 DEF PosterType
    <2>3. poster' \in [Posters -> PosterType]
        BY <1>2, <2>2, <1>01 DEF Post
    <2>4. Flags
        BY <1>2, <1>0, Zenon DEF Post, msgHistory
    <2>5. Rest'
        BY <1>2, <2>3, <1>01, MaxPostsAssumption DEF Post, msgHistory
    <2> QED BY <2>4, <2>5, <1>02, Zenon
<1>3. ASSUME NEW p \in Posters, Push(p) PROVE MsgTypeOK'
    <2>1. PICK m \in poster[p].msg : queue' = Append(poster[p].list, m) /\ pushed' = Append(pushed, m)
        BY <1>3 DEF Push
    <2>2. m \in Message /\ poster[p].list \in Seq(Message)
        BY <1>01 DEF PosterType
    <2>3. queue' \in Seq(Message) /\ pushed' \in Seq(Message)
        BY <2>1, <2>2, <1>01
    <2>4. [pc |-> "test", msg |-> {}, list |-> << >>] \in PosterType
        BY DEF PosterType
    <2>5. poster' \in [Posters -> PosterType]
        BY <1>3, <2>4, <1>01 DEF Push
    <2>6. Flags
        BY <1>3, <1>0, Zenon DEF Push
    <2>7. Rest'
        BY <1>3, <2>3, <2>5, <1>01 DEF Push
    <2> QED BY <2>6, <2>7, <1>02, Zenon
<1>4. ASSUME NEW p \in Posters, TestWait(p) \/ Signal(p) PROVE MsgTypeOK'
    <2>1. poster' \in [Posters -> PosterType]
        <3>1. CASE TestWait(p)
            BY <3>1, <1>01 DEF TestWait, PosterType
        <3>2. CASE Signal(p)
            BY <3>2, <1>01 DEF Signal, PosterType
        <3> QED BY <1>4, <3>1, <3>2
    <2>2. handler' \in HandlerType
        BY <1>4, <1>01 DEF TestWait, Signal, Woken, HandlerType
    <2>3. Flags
        BY <1>4, <1>0, Zenon DEF TestWait, Signal, msgHistory
    <2>4. Rest'
        BY <1>4, <2>1, <2>2, <1>01 DEF TestWait, Signal, msgHistory
    <2> QED BY <2>3, <2>4, <1>02, Zenon
<1>5. CASE Run \/ Begin \/ Lock \/ While \/ Arm \/ Wake \/ Awake \/ Size \/ HandleMessage
    <2>1. handler' \in HandlerType
        BY <1>5, <1>01, HandlerMoves
        DEF Run, Begin, Lock, While, Arm, Wake, Awake, Size, HandleMessage
    <2>2. Flags
        BY <1>5, <1>0, Zenon
        DEF Run, Begin, Lock, While, Arm, Wake, Awake, Size, HandleMessage, msgHistory
    <2>3. HandleMessage => handled' \in Seq(Message)
        BY <1>01 DEF HandleMessage
    <2>4. Arm => overlooked' \subseteq Message
        BY <1>01 DEF Arm
    <2>5. Rest'
        BY <1>5, <2>1, <2>3, <2>4, <1>01
        DEF Run, Begin, Lock, While, Arm, Wake, Awake, Size, HandleMessage, msgHistory
    <2> QED BY <2>2, <2>5, <1>02, Zenon
<1>6. CASE Return
    <2>1. handler' \in HandlerType
        BY <1>6, <1>01 DEF Return, HandlerType
    <2>2. Flags
        BY <1>6, <1>0, Zenon DEF Return, msgHistory
    <2>3. Rest'
        BY <1>6, <2>1, <1>01 DEF Return, msgHistory
    <2> QED BY <2>2, <2>3, <1>02, Zenon
<1>7. CASE Erase
    <2>1. handler' \in HandlerType
        BY <1>7 DEF Erase, HandlerType
    <2>2. handler.list \in Seq(Message)
        BY <1>01 DEF HandlerType
    <2>3. queue' \in Seq(Message)
        BY <1>7, <2>2 DEF Erase
    <2>4. Flags
        BY <1>7, <1>0, Zenon DEF Erase
    <2>5. Rest'
        BY <1>7, <2>1, <2>3, <1>01 DEF Erase
    <2> QED BY <2>4, <2>5, <1>02, Zenon
<1>8. CASE Delete \/ OwnerStep
    <2>1. handler' \in HandlerType
        BY <1>8, <1>01
        DEF Delete, OwnerStep, StopLoop, StopTest, StopSignal, StopWait, Woken, HandlerType
    <2>2. Flags
        BY <1>8, <1>0, Zenon
        DEF Delete, OwnerStep, StopLoop, StopTest, StopSignal, StopWait, msgHistory
    <2>3. Rest'
        BY <1>8, <2>1, <1>01
        DEF Delete, OwnerStep, OwnerAt, StopLoop, StopTest, StopSignal, StopWait, msgHistory
    <2> QED BY <2>2, <2>3, <1>02, Zenon
<1> QED BY <1>1, <1>2, <1>3, <1>4, <1>5, <1>6, <1>7, <1>8 DEF MsgNext, Poster, HandlerStep

\* The variables of the message thread have their types.
THEOREM MsgTypesHold == MsgSpec => []MsgTypeOK
BY TypesInit, TypesStep, PTL DEF MsgSpec

-----------------------------------------------------------------------------
(* What is done, and what is on the list *)

\* A list that grows at its end, or loses its head, with the types the provers need.
LEMMA Appended ==
    ASSUME NEW s \in Seq(Message), NEW m \in Message
    PROVE  /\ Append(s, m) \in Seq(Message)
           /\ Len(Append(s, m)) = Len(s) + 1
           /\ \A i \in 1 .. Len(s) : Append(s, m)[i] = s[i]
           /\ Append(s, m)[Len(s) + 1] = m
OBVIOUS

LEMMA Tailed ==
    ASSUME NEW s \in Seq(Message), Len(s) > 0
    PROVE  /\ s # << >>
           /\ Tail(s) \in Seq(Message)
           /\ Len(Tail(s)) = Len(s) - 1
           /\ \A i \in 1 .. Len(s) - 1 : Tail(s)[i] = s[i + 1]
OBVIOUS

LEMMA ListInit == MsgInit => ListInv
<1> SUFFICES ASSUME MsgInit PROVE ListInv
    OBVIOUS
<1>1. Len(pushed) = 0 /\ Len(queue) = 0 /\ Len(handled) = 0 /\ ~InHand
    BY DEF MsgInit, InHand
<1> QED BY <1>1 DEF ListInv, Done

LEMMA ListStep == MsgTypeOK /\ ListInv /\ [MsgNext]_msgVars => ListInv'
<1> SUFFICES ASSUME MsgTypeOK, ListInv, [MsgNext]_msgVars, ~torn' PROVE ListInv'
    BY DEF ListInv
<1>0. /\ queue \in Seq(Message) /\ pushed \in Seq(Message) /\ handled \in Seq(Message)
      /\ \A p \in Posters : poster[p].msg \subseteq Message
    BY DEF MsgTypeOK, PosterType
\* A step that leaves the lists alone, and neither begins nor ends the handling of a message.
<1>1. ASSUME UNCHANGED <<queue, pushed, handled, torn>>, InHand' = InHand
      PROVE  ListInv'
    <2>1. ~torn
        BY <1>1
    <2>2. Done' = Done
        BY <1>1 DEF Done
    <2> QED BY <1>1, <2>1, <2>2 DEF ListInv
<1>2. ASSUME NEW p \in Posters, Push(p) PROVE ListInv'
    <2>1. PICK m \in poster[p].msg : /\ queue' = Append(poster[p].list, m)
                                    /\ pushed' = Append(pushed, m)
        BY <1>2 DEF Push
    <2>2. ~torn /\ queue = poster[p].list
        BY <1>2, Zenon DEF Push
    <2>3. handler' = handler /\ handled' = handled
        BY <1>2 DEF Push
    <2>4. InHand' = InHand /\ Done' = Done
        BY <2>3 DEF InHand, Done
    <2>5. m \in Message
        BY <1>0
    <2>6. /\ Len(queue') = Len(queue) + 1 /\ Len(pushed') = Len(pushed) + 1
          /\ \A i \in 1 .. Len(queue) : queue'[i] = queue[i]
          /\ \A i \in 1 .. Len(pushed) : pushed'[i] = pushed[i]
          /\ queue'[Len(queue) + 1] = m /\ pushed'[Len(pushed) + 1] = m
        BY <2>1, <2>2, <2>5, <1>0, Appended
    <2>7. Done \in Int /\ Len(handled) \in Nat /\ Len(queue) \in Nat /\ Len(pushed) \in Nat
        BY <1>0 DEF Done
    <2>8. /\ InHand => Len(queue) > 0 /\ Len(handled) > 0
          /\ Len(pushed) = Done + Len(queue)
          /\ \A i \in 1 .. Len(handled) : handled[i] = pushed[i]
          /\ \A i \in 1 .. Len(queue) : queue[i] = pushed[Done + i]
        BY <2>2 DEF ListInv
    <2>9. Done >= 0 /\ Len(handled) <= Len(pushed)
        BY <2>7, <2>8 DEF Done
    <2>10. \A i \in 1 .. Len(handled') : handled'[i] = pushed'[i]
        BY <2>3, <2>6, <2>7, <2>8, <2>9
    <2>11. \A i \in 1 .. Len(queue') : queue'[i] = pushed'[Done' + i]
        BY <2>4, <2>6, <2>7, <2>8, <2>9
    <2>12. /\ InHand' => Len(queue') > 0 /\ Len(handled') > 0
           /\ Len(pushed') = Done' + Len(queue')
        BY <2>3, <2>4, <2>6, <2>7, <2>8
    <2> QED BY <2>10, <2>11, <2>12 DEF ListInv
<1>3. CASE HandleMessage
    <2>1. /\ handler.pc = "size" /\ handler'.pc = "handle"
          /\ queue # << >> /\ handled' = Append(handled, Head(queue))
          /\ UNCHANGED <<queue, pushed>>
        BY <1>3, <1>0 DEF HandleMessage, HandlerAt, MsgTypeOK, HandlerType
    <2>2. ~InHand /\ InHand'
        BY <2>1 DEF InHand
    <2>3. ~torn
        BY <1>3, Zenon DEF HandleMessage
    <2>4. /\ Len(pushed) = Len(handled) + Len(queue)
          /\ \A i \in 1 .. Len(handled) : handled[i] = pushed[i]
          /\ \A i \in 1 .. Len(queue) : queue[i] = pushed[Len(handled) + i]
        BY <2>2, <2>3 DEF ListInv, Done
    <2>5. Len(queue) > 0 /\ Head(queue) = queue[1] /\ Head(queue) \in Message
        BY <2>1, <1>0
    <2>6. /\ Len(handled') = Len(handled) + 1
          /\ \A i \in 1 .. Len(handled) : handled'[i] = handled[i]
          /\ handled'[Len(handled) + 1] = queue[1]
        BY <2>1, <2>5, <1>0, Appended
    <2>7. Len(handled) \in Nat /\ Len(queue) \in Nat
        BY <1>0
    <2>8. Done' = Len(handled)
        BY <2>2, <2>6, <2>7 DEF Done
    <2>9. \A i \in 1 .. Len(handled') : handled'[i] = pushed'[i]
        BY <2>1, <2>4, <2>5, <2>6, <2>7
    <2>10. Len(queue') > 0 /\ Len(handled') > 0 /\ Len(pushed') = Done' + Len(queue')
        BY <2>1, <2>4, <2>5, <2>6, <2>7, <2>8
    <2>11. \A i \in 1 .. Len(queue') : queue'[i] = pushed'[Done' + i]
        BY <2>1, <2>4, <2>8
    <2> QED BY <2>9, <2>10, <2>11 DEF ListInv
<1>4. CASE Erase
    <2>1. ~torn /\ queue = handler.list
        BY <1>4, Zenon DEF Erase
    <2>2. handler.pc = "erase" /\ handler'.pc = "size" /\ UNCHANGED <<pushed, handled>>
        BY <1>4 DEF Erase
    <2>3. InHand /\ ~InHand'
        BY <2>2 DEF InHand
    <2>4. /\ Len(queue) > 0 /\ Len(handled) > 0
          /\ Len(pushed) = Len(handled) - 1 + Len(queue)
          /\ \A i \in 1 .. Len(handled) : handled[i] = pushed[i]
          /\ \A i \in 1 .. Len(queue) : queue[i] = pushed[Len(handled) - 1 + i]
        BY <2>1, <2>3 DEF ListInv, Done
    <2>5. queue # << >> /\ queue' = Tail(queue)
        BY <1>4, <2>1, <2>4, <1>0, Tailed DEF Erase
    <2>6. Len(queue') = Len(queue) - 1 /\ \A i \in 1 .. Len(queue) - 1 : queue'[i] = queue[i + 1]
        BY <2>4, <2>5, <1>0, Tailed
    <2>7. Done' = Len(handled) /\ Len(handled) \in Nat /\ Len(queue) \in Nat
        BY <2>2, <2>3, <1>0 DEF Done
    <2>8. ASSUME NEW i \in 1 .. Len(queue') PROVE queue'[i] = pushed'[Done' + i]
        <3>1. i \in 1 .. Len(queue) - 1 /\ i + 1 \in 1 .. Len(queue)
            BY <2>6, <2>7
        <3>2. queue'[i] = queue[i + 1] /\ queue[i + 1] = pushed[Len(handled) - 1 + (i + 1)]
            BY <3>1, <2>4, <2>6
        <3>3. Len(handled) - 1 + (i + 1) = Done' + i
            BY <3>1, <2>7
        <3> QED BY <2>2, <3>2, <3>3
    <2>9. Len(pushed') = Done' + Len(queue') /\ \A i \in 1 .. Len(handled') : handled'[i] = pushed'[i]
        BY <2>2, <2>4, <2>6, <2>7
    <2> QED BY <2>3, <2>8, <2>9 DEF ListInv
<1>5. CASE UNCHANGED msgVars
    BY <1>5, <1>1 DEF msgVars, msgHistory, InHand
<1>6. ASSUME NEW p \in Posters, NEW kind \in Kinds, Post(p, kind) PROVE ListInv'
    BY <1>6, <1>1 DEF Post, msgHistory, InHand
<1>7. ASSUME NEW p \in Posters, TestWait(p) \/ Signal(p) PROVE ListInv'
    <2>1. InHand' = InHand
        BY <1>7 DEF TestWait, Signal, Woken, Sleeps, InHand, MsgTypeOK, HandlerType
    <2> QED BY <1>7, <2>1, <1>1 DEF TestWait, Signal, msgHistory
<1>8. CASE Run \/ Begin \/ Lock \/ While \/ Arm \/ Wake \/ Awake \/ Size
    <2>1. InHand' = InHand
        BY <1>8 DEF Run, Begin, Lock, While, Arm, Wake, Awake, Size, HandlerAt, InHand,
                    MsgTypeOK, HandlerType
    <2> QED BY <1>8, <2>1, <1>1 DEF Run, Begin, Lock, While, Arm, Wake, Awake, Size, msgHistory
<1>9. CASE Return
    <2>1. InHand' = InHand
        BY <1>9 DEF Return, InHand
    <2> QED BY <1>9, <2>1, <1>1 DEF Return, msgHistory
<1>10. CASE Delete \/ OwnerStep
    <2>1. InHand' = InHand
        BY <1>10 DEF Delete, OwnerStep, StopLoop, StopTest, StopSignal, StopWait, Woken, Sleeps,
                     InHand, MsgTypeOK, HandlerType
    <2> QED BY <1>10, <2>1, <1>1
            DEF Delete, OwnerStep, StopLoop, StopTest, StopSignal, StopWait, msgHistory
<1> QED BY <1>2, <1>3, <1>4, <1>5, <1>6, <1>7, <1>8, <1>9, <1>10 DEF MsgNext, Poster, HandlerStep

LEMMA NumberInit == MsgInit => NumberInv
BY DEF MsgInit, NumberInv

LEMMA NumberStep == MsgTypeOK /\ NumberInv /\ [MsgNext]_msgVars => NumberInv'
<1> SUFFICES ASSUME MsgTypeOK, NumberInv, [MsgNext]_msgVars PROVE NumberInv'
    OBVIOUS
<1>0. /\ pushed \in Seq(Message) /\ posts \in Nat
      /\ poster \in [Posters -> PosterType]
      /\ \A p \in Posters : poster[p].msg \subseteq Message
    BY DEF MsgTypeOK, PosterType
<1>1. \A m \in Message : m.n \in Nat
    BY DEF Message
<1>2. ASSUME UNCHANGED <<pushed, posts>>, \A p \in Posters : poster'[p].msg = poster[p].msg
      PROVE  NumberInv'
    BY <1>2 DEF NumberInv
<1>3. ASSUME NEW p \in Posters, NEW kind \in Kinds, Post(p, kind) PROVE NumberInv'
    <2>1. posts' = posts + 1 /\ pushed' = pushed
        BY <1>3 DEF Post, msgHistory
    <2>2. CASE poster' = poster
        <3>1. \A q \in Posters : \A m \in poster[q].msg : m.n \in Nat
            BY <1>0, <1>1
        <3>2. \A i \in 1 .. Len(pushed) : pushed[i].n \in Nat
            BY <1>0, <1>1
        <3>3. \A q \in Posters : \A m \in poster[q].msg : m.n <= posts + 1
            BY <3>1, <1>0 DEF NumberInv
        <3>4. \A i \in 1 .. Len(pushed) : pushed[i].n <= posts + 1
            BY <3>2, <1>0 DEF NumberInv
        <3> QED BY <2>1, <2>2, <3>3, <3>4 DEF NumberInv
    <2>3. CASE poster' # poster
        <3> DEFINE new == [n |-> posts + 1, kind |-> kind]
        <3>1. /\ poster'[p].msg = {new}
              /\ \A q \in Posters \ {p} : poster'[q].msg = poster[q].msg
            BY <1>3, <2>3, <1>0 DEF Post
        <3>2. \A q \in Posters : \A m \in poster[q].msg : m.n \in Nat /\ m.n <= posts
            BY <1>0, <1>1 DEF NumberInv
        <3>3. \A i \in 1 .. Len(pushed) : pushed[i].n \in Nat /\ pushed[i].n <= posts
            BY <1>0, <1>1 DEF NumberInv
        <3>4. new.n = posts + 1
            OBVIOUS
        <3> HIDE DEF new
        <3>5. ASSUME NEW q \in Posters, NEW m \in poster'[q].msg
              PROVE  \/ q = p /\ m = new
                     \/ q # p /\ m \in poster[q].msg
            BY <3>1
        <3>6. \A i \in 1 .. Len(pushed') : pushed'[i].n <= posts'
            BY <2>1, <3>3, <1>0
        <3>7. \A q \in Posters : \A m \in poster'[q].msg : m.n <= posts'
            BY <2>1, <3>2, <3>5, <3>4, <1>0
        <3>8. \A q \in Posters : \A m \in poster'[q].msg : \A i \in 1 .. Len(pushed') : pushed'[i].n # m.n
            BY <2>1, <3>2, <3>3, <3>5, <3>4, <1>0 DEF NumberInv
        <3>9. ASSUME NEW q \in Posters, NEW m \in poster'[q].msg,
                     NEW r \in Posters, NEW l \in poster'[r].msg, l.n = m.n
              PROVE  r = q /\ l = m
            BY <3>9, <3>2, <3>5, <3>4, <1>0 DEF NumberInv
        <3>10. \A i, j \in 1 .. Len(pushed') : pushed'[i].n = pushed'[j].n => i = j
            BY <2>1 DEF NumberInv
        <3> QED BY <3>6, <3>7, <3>8, <3>9, <3>10 DEF NumberInv
    <2> QED BY <2>2, <2>3
<1>4. ASSUME NEW p \in Posters, Push(p) PROVE NumberInv'
    <2>1. PICK m \in poster[p].msg : pushed' = Append(pushed, m)
        BY <1>4 DEF Push
    <2>2. /\ posts' = posts
          /\ poster'[p].msg = {}
          /\ \A q \in Posters \ {p} : poster'[q].msg = poster[q].msg
        BY <1>4, <1>0 DEF Push
    <2>3. m \in Message /\ Len(pushed) \in Nat
        BY <1>0
    <2>4. /\ Len(pushed') = Len(pushed) + 1
          /\ \A i \in 1 .. Len(pushed) : pushed'[i] = pushed[i]
          /\ pushed'[Len(pushed) + 1] = m
        BY <2>1, <2>3, <1>0, Appended
    <2>5. ASSUME NEW i \in 1 .. Len(pushed')
          PROVE  \/ i \in 1 .. Len(pushed) /\ pushed'[i] = pushed[i]
                 \/ i = Len(pushed) + 1 /\ pushed'[i] = m
        <3>1. i \in 1 .. Len(pushed) \/ i = Len(pushed) + 1
            BY <2>3, <2>4
        <3> QED BY <3>1, <2>4
    <2>6. \A i \in 1 .. Len(pushed') : pushed'[i].n <= posts'
        BY <2>2, <2>5 DEF NumberInv
    <2>7. \A i, j \in 1 .. Len(pushed') : pushed'[i].n = pushed'[j].n => i = j
        BY <2>5 DEF NumberInv
    <2>8. \A q \in Posters : \A l \in poster'[q].msg : q # p /\ l \in poster[q].msg
        BY <2>2
    <2>9. ASSUME NEW q \in Posters, NEW l \in poster'[q].msg, NEW i \in 1 .. Len(pushed')
          PROVE  pushed'[i].n # l.n
        <3>1. q # p /\ l \in poster[q].msg
            BY <2>8
        <3>2. m.n # l.n
            BY <3>1 DEF NumberInv
        <3> QED BY <3>1, <3>2, <2>5 DEF NumberInv
    <2>10. \A q \in Posters : \A l \in poster'[q].msg : l.n <= posts'
        BY <2>2, <2>8 DEF NumberInv
    <2>11. \A q \in Posters : \A l \in poster'[q].msg :
              \A r \in Posters : \A h \in poster'[r].msg : h.n = l.n => r = q /\ h = l
        BY <2>8 DEF NumberInv
    <2> QED BY <2>6, <2>7, <2>9, <2>10, <2>11 DEF NumberInv
<1>5. CASE UNCHANGED msgVars
    BY <1>5, <1>2 DEF msgVars, msgHistory
<1>6. ASSUME NEW p \in Posters, TestWait(p) \/ Signal(p) PROVE NumberInv'
    <2>0. PICK pc : poster' = [poster EXCEPT ![p].pc = pc]
        BY <1>6 DEF TestWait, Signal
    <2>1. ASSUME NEW q \in Posters PROVE poster'[q].msg = poster[q].msg
        <3>1. poster[q] \in PosterType
            BY <1>0
        <3>2. q # p => poster'[q] = poster[q]
            BY <2>0, <1>0
        <3>3. q = p => poster'[q] = [poster[q] EXCEPT !.pc = pc]
            BY <2>0, <1>0
        <3> QED BY <3>1, <3>2, <3>3 DEF PosterType
    <2>2. UNCHANGED <<pushed, posts>>
        BY <1>6 DEF TestWait, Signal, msgHistory
    <2> QED BY <2>1, <2>2, <1>2
<1>7. CASE HandlerStep
    BY <1>7, <1>2 DEF HandlerStep, Run, Begin, Lock, While, Arm, Wake, Awake, Size, HandleMessage,
                      Return, Erase, msgHistory
<1>8. CASE Delete \/ OwnerStep
    BY <1>8, <1>2 DEF Delete, OwnerStep, StopLoop, StopTest, StopSignal, StopWait, msgHistory
<1> QED BY <1>3, <1>4, <1>5, <1>6, <1>7, <1>8 DEF MsgNext, Poster

\* The message that is taken up is none that was handled before.
LEMMA NextIsNew ==
    ASSUME MsgTypeOK, ListInv, NumberInv, HandleMessage, ~torn
    PROVE  /\ Len(queue) > 0 /\ Head(queue) \in Message
           /\ \A i \in 1 .. Len(handled) : handled[i].n # Head(queue).n
<1>1. queue \in Seq(Message) /\ handled \in Seq(Message) /\ pushed \in Seq(Message)
    BY DEF MsgTypeOK
<1>2. queue # << >> /\ Done = Len(handled)
    BY DEF HandleMessage, Done, InHand
<1>3. Len(queue) > 0 /\ Head(queue) = queue[1] /\ Head(queue) \in Message
    BY <1>1, <1>2
<1>4. /\ Len(pushed) = Len(handled) + Len(queue)
      /\ \A i \in 1 .. Len(handled) : handled[i] = pushed[i]
      /\ queue[1] = pushed[Len(handled) + 1]
    BY <1>1, <1>2, <1>3 DEF ListInv
<1>5. ASSUME NEW i \in 1 .. Len(handled) PROVE handled[i].n # Head(queue).n
    <2>1. i \in 1 .. Len(pushed) /\ Len(handled) + 1 \in 1 .. Len(pushed) /\ i # Len(handled) + 1
        BY <1>1, <1>3, <1>4
    <2> QED BY <2>1, <1>3, <1>4 DEF NumberInv
<1> QED BY <1>3, <1>5

\* The messages are handled in the order in which they were put on the list, each once and
\* none left out, as long as no two threads change the list at once (startLoop, putMessage).
LEMMA ListOrder == MsgTypeOK /\ ListInv => HandledInOrder
<1> SUFFICES ASSUME MsgTypeOK, ListInv, ~torn
             PROVE  /\ Len(handled) <= Len(pushed)
                    /\ \A i \in 1 .. Len(handled) : handled[i] = pushed[i]
    BY DEF HandledInOrder
<1>1. Len(handled) \in Nat /\ Len(queue) \in Nat /\ Len(pushed) \in Nat
    BY DEF MsgTypeOK
<1>2. InHand => Len(queue) > 0
    BY DEF ListInv
<1>3. Len(pushed) = Done + Len(queue)
    BY DEF ListInv
<1> QED BY <1>1, <1>2, <1>3 DEF ListInv, Done

THEOREM OrderHolds == MsgSpec => []HandledInOrder
<1>1. MsgInit => MsgTypeOK /\ ListInv
    BY TypesInit, ListInit
<1>2. MsgTypeOK /\ ListInv /\ [MsgNext]_msgVars => (MsgTypeOK /\ ListInv)'
    BY TypesStep, ListStep
<1> QED BY <1>1, <1>2, ListOrder, PTL DEF MsgSpec

-----------------------------------------------------------------------------
(* The publish thread and the handles: who may be where                    *)

\* In the handle there is the message thread or the application's, and only the first connects.
AloneInv ==
    /\ user["handler"].pc # "idle" => handler.pc = "handle"
    /\ user["owner"].pc # "idle" => owner # "open" /\ handler.pc # "handle"
    /\ user["owner"].pc \notin {"create", "connect", "start"}

\* The publisher a thread works on is m_pub.
Works(u) == user[u].pc \notin {"idle", "create", "done"}
HeldInv ==
    /\ \A u \in Users : Works(u) => user[u].k = pub /\ pub \in Publishers
    /\ \A u \in Users : user[u].pc = "create" => pub = 0
    /\ pub \notin dead

\* Nothing has been done with the publisher.
Untouched(k) ==
    /\ obj[k] = [isConvert |-> 0, pushs |-> "none", streamInit |-> 0, session |-> "none"]
    /\ thread[k].pc = "none"
    /\ k \notin freed \cup dead

\* A publisher is made for a message that none was made for before.
FreshInv ==
    /\ \A k \in Publishers :
        (\A i \in 1 .. Len(handled) : handled[i].n # k) => Untouched(k) /\ pub # k
    /\ handler.pc = "handle" => Len(handled) \in 1 .. Len(handled) /\ Current.n \in Publishers
    /\ handler.pc = "handle" /\ user["handler"].pc \notin {"start", "done"} => Untouched(Current.n)
    /\ handler.pc = "handle" /\ user["handler"].pc \notin {"connect", "start", "done"}
        => pub # Current.n
    /\ user["handler"].pc = "connect" => user["handler"].k = Current.n
    /\ user["handler"].pc = "start" => thread[user["handler"].k].pc = "none"

\* The mark of the stream has been cleared for good.
Past(u) == user[u].pc \in {"session", "destroy", "freeStream", "clear", "stop", "waitStop",
                           "delete", "waitDelete", "free"}
Cleared(k) ==
    \/ \E u \in Users : user[u].k = k /\ Past(u)
    \/ k \in freed \cup dead

MarkInv ==
    \A k \in Publishers : Cleared(k) => obj[k].streamInit = 0 /\ (Inside(k) => k \in caught)

\* A session that is being destroyed is destroyed by somebody.
DyingInv ==
    \A k \in Publishers : obj[k].session = "dying" =>
        \/ thread[k].pc = "destroy"
        \/ \E u \in Users : user[u].k = k /\ user[u].pc = "destroy"

\* A thread that loops is told so, until somebody waits for it.
Quiet == {"none", "ended", "crashed"}
Early == {"start", "convert"}
RunInv ==
    \A k \in Publishers \ dead :
        obj[k].isConvert = 0 /\ thread[k].pc \notin Quiet \cup Early =>
            \E u \in Users : user[u].k = k /\ user[u].pc \in {"waitStop", "waitDelete"}

\* A publisher is freed when its thread has ended, or was missed.
MissedInv ==
    /\ \A u \in Users : user[u].pc \in {"waitDelete", "free"} /\ thread[user[u].k].pc \in Early =>
        user[u].k \in missed
    /\ \A u \in Users : user[u].pc = "free" =>
        thread[user[u].k].pc \in Quiet \/ user[u].k \in missed
    /\ \A k \in dead : thread[k].pc \in Quiet \/ k \in missed

PushInv ==
    /\ AloneInv
    /\ HeldInv
    /\ FreshInv
    /\ MarkInv
    /\ DyingInv
    /\ RunInv
    /\ MissedInv
    /\ FreedIsNotUsed

-----------------------------------------------------------------------------
(* Publishing implements the message thread *)

LEMMA RefineInit == Init => MsgInit
BY DEF Init

LEMMA RefineStep == [Next]_vars => [MsgNext]_msgVars
<1> SUFFICES ASSUME [Next]_vars PROVE MsgNext \/ UNCHANGED msgVars
    OBVIOUS
<1>1. CASE UNCHANGED vars
    BY <1>1 DEF vars
<1>2. CASE Application
    BY <1>2 DEF Application, MsgNext
<1>3. ASSUME NEW p \in Posters, Puts(p) PROVE MsgNext
    BY <1>3 DEF Puts, MsgNext
<1>4. ASSUME NEW u \in Users, User(u) PROVE UNCHANGED msgVars
    BY <1>4 DEF User, Unset, EndSession, SessionEnded, FreeStream, Clear, StopPublisher, WaitStop,
                DeletePublisher, WaitDelete, Free, Create, ConnectServer, StartThread
<1>5. CASE MessageThread
    <2>1. CASE MsgHandler
        BY <2>1 DEF MsgHandler, MsgNext, HandlerStep
    <2>2. CASE Handle \/ Refuse
        BY <2>2 DEF Handle, Enters, Refuse
    <2>3. CASE Handled
        BY <2>3 DEF Handled, MsgNext, HandlerStep
    <2>4. CASE Cross
        BY <2>4 DEF Cross
    <2> QED BY <1>5, <1>4, <2>1, <2>2, <2>3, <2>4 DEF MessageThread, Users
<1>6. CASE Closing
    <2>1. CASE MsgOwner
        BY <2>1 DEF MsgOwner, MsgNext, OwnerStep
    <2>2. CASE DeletePush
        BY <2>2 DEF DeletePush, Enters
    <2> QED BY <1>6, <1>4, <2>1, <2>2 DEF Closing, Users
<1>7. ASSUME NEW k \in Publishers, Publishes(k) \/ Frame(k) \/ Connected(k)
      PROVE  UNCHANGED msgVars
    BY <1>7 DEF Publishes, Frame, Connected, Start, Convert, Look, End, Streams, Check, Sent, Fails,
                StillConnected, NotConnected, Disconnect, Disconnected, Moves, Runs
<1> QED BY <1>1, <1>2, <1>3, <1>5, <1>6, <1>7 DEF Next

\* What the application posts is handled in publishing as the message thread promises: every step
\* of the whole is one of YangSysMessageHandle, or changes nothing of it.
THEOREM PublishingHandlesMessages == Spec => MsgSpec
BY RefineInit, RefineStep, PTL DEF Spec, MsgSpec

\* The messages are handled in the order in which they were put on the list, as long as no two
\* threads change it at once.
THEOREM MessagesInOrder == Spec => []HandledInOrder
BY PublishingHandlesMessages, OrderHolds, PTL

-----------------------------------------------------------------------------
(* Types *)

PushTypes ==
    /\ pub \in 0 .. MaxPosts
    /\ obj \in [Publishers -> ObjType]
    /\ thread \in [Publishers -> ThreadType]
    /\ user \in [Users -> UserType]
    /\ freed \subseteq Publishers /\ dead \subseteq Publishers
    /\ caught \subseteq Publishers /\ missed \subseteq Publishers
    /\ touched \subseteq Publishers /\ haunted \subseteq Publishers /\ twice \subseteq Publishers

LEMMA PushTypesAre == TypeOK <=> MsgTypeOK /\ PushTypes /\ crossed \in BOOLEAN
BY Zenon DEF TypeOK, PushTypes

\* What a step does to a record of one publisher, of one thread or of one user.
LEMMA ObjSet ==
    ASSUME NEW r \in ObjType
    PROVE  /\ \A x \in {0, 1} : [r EXCEPT !.isConvert = x] \in ObjType
           /\ \A x \in {"none", "handle", "null"} : [r EXCEPT !.pushs = x] \in ObjType
           /\ \A x \in {0, 1} : [r EXCEPT !.streamInit = x] \in ObjType
           /\ \A x \in {"none", "live", "connected", "dying", "freed"} :
                [r EXCEPT !.session = x] \in ObjType
BY DEF ObjType

ThreadPcs == {"none", "start", "convert", "loop", "streams", "check", "publish", "failed",
              "session", "destroy", "ended", "crashed"}
UserPcs == {"idle", "unset", "session", "destroy", "freeStream", "clear", "stop", "waitStop",
            "delete", "waitDelete", "free", "create", "connect", "start", "done"}

LEMMA ThreadSet ==
    ASSUME NEW r \in ThreadType, NEW x \in ThreadPcs
    PROVE  [r EXCEPT !.pc = x] \in ThreadType
BY DEF ThreadType, ThreadPcs

LEMMA ThreadSteps ==
    ASSUME NEW k \in Publishers, NEW from, PushTypes, Runs(k, from)
    PROVE  /\ touched' \subseteq Publishers /\ haunted' \subseteq Publishers
           /\ pub' \in 0 .. MaxPosts /\ user' \in [Users -> UserType]
           /\ freed' \subseteq Publishers /\ dead' \subseteq Publishers
           /\ caught' \subseteq Publishers /\ missed' \subseteq Publishers
BY DEF Runs, PushTypes

LEMMA PushTypesInit == Init => PushTypes
BY MaxPostsAssumption DEF Init, PushTypes, ObjType, ThreadType, UserType, Users, Publishers

-----------------------------------------------------------------------------
(* A step on one publisher by its own thread, or by the thread of its session *)

InsidePcs == {"check", "publish", "failed", "session", "destroy"}
LEMMA InsideIs == ASSUME NEW k PROVE Inside(k) <=> thread[k].pc \in InsidePcs
BY DEF Inside, InsidePcs

\* What such a step does to the rest, to the thread, to the publisher, and to the history of
\* sessions destroyed twice.
Kept(k) ==
    /\ UNCHANGED <<handler, owner, handled, pub, user, freed, dead, caught, missed>>
    /\ ~Untouched(k)
    /\ \/ touched' = touched
       \/ touched' = touched \cup {k} /\ Inside(k) /\ k \in freed
    /\ \/ haunted' = haunted
       \/ haunted' = haunted \cup {k} /\ k \in dead /\ thread[k].pc \notin Quiet
Moved(k, from, to) ==
    /\ \A j \in Publishers \ {k} : thread'[j] = thread[j]
    /\ thread[k].pc = from /\ thread'[k].pc = to
MovedWell(k, from, to) ==
    /\ from = "none" => to = "none"
    /\ from \in Quiet => to \in Quiet
    /\ to \in Early => from \in Early
    /\ to \in InsidePcs => from \in InsidePcs \/ obj[k].streamInit = 1
    /\ from \in Early /\ to \notin Early => obj'[k].isConvert = 1
    /\ obj'[k].session = "dying" =>
        \/ to = "destroy"
        \/ obj[k].session = "dying" /\ from # "destroy"
ObjMoved(k) ==
    /\ \A j \in Publishers \ {k} : obj'[j] = obj[j]
    /\ obj'[k].isConvert \in {1, obj[k].isConvert}
    /\ obj'[k].streamInit \in {0, obj[k].streamInit}
TwiceMoved(k, from) ==
    \/ twice' = twice
    \/ twice' = twice \cup {k} /\ from = "session" /\ obj[k].session = "dying"

LEMMA ThreadStep ==
    ASSUME NEW k \in Publishers, NEW from, NEW to, PushTypes, PushInv,
           Kept(k), Moved(k, from, to), MovedWell(k, from, to), ObjMoved(k), TwiceMoved(k, from)
    PROVE  PushInv'
<1> USE DEF Kept, Moved, MovedWell, ObjMoved, TwiceMoved
<1> USE DEF PushInv
<1>1. AloneInv'
    BY DEF AloneInv
<1>2. HeldInv'
    BY DEF HeldInv, Works
<1>3. \A j \in Publishers : Untouched(j) => j # k /\ Untouched(j)'
    BY DEF Untouched
<1>4. FreshInv'
    <2>1. \A j \in Publishers :
             (\A i \in 1 .. Len(handled') : handled'[i].n # j) => Untouched(j)' /\ pub' # j
        BY <1>3 DEF FreshInv
    <2>2. Current' = Current
        BY DEF Current
    <2>3. handler'.pc = "handle" /\ user'["handler"].pc \notin {"start", "done"} => Untouched(Current.n)'
        <3>1. SUFFICES ASSUME handler.pc = "handle", user["handler"].pc \notin {"start", "done"}
                       PROVE  Untouched(Current.n)'
            OBVIOUS
        <3>2. PICK j \in Publishers : j = Current.n
            BY <3>1 DEF FreshInv
        <3>3. Untouched(j)'
            BY <3>1, <3>2, <1>3 DEF FreshInv
        <3> QED BY <2>2, <3>2, <3>3 DEF Untouched
    <2>4. user'["handler"].pc = "start" => thread'[user'["handler"].k].pc = "none"
        BY DEF FreshInv, HeldInv, Works, Users
    <2> QED BY <2>1, <2>2, <2>3, <2>4 DEF FreshInv
<1>5. \A j : Cleared(j)' = Cleared(j)
    BY DEF Cleared, Past
<1>6. MarkInv'
    <2>1. ASSUME NEW j \in Publishers, Cleared(j)
          PROVE  obj'[j].streamInit = 0 /\ (thread'[j].pc \in InsidePcs => j \in caught')
        BY <2>1, InsideIs DEF MarkInv
    <2> QED BY <1>5, <2>1, InsideIs DEF MarkInv, Inside, InsidePcs
<1>7. DyingInv'
    BY DEF DyingInv
<1>8. RunInv'
    <2>1. ASSUME NEW j \in Publishers \ dead, obj'[j].isConvert = 0, thread'[j].pc \notin Quiet \cup Early
          PROVE  obj[j].isConvert = 0 /\ thread[j].pc \notin Quiet \cup Early
        BY <2>1
    <2> QED BY <2>1 DEF RunInv
<1>9. MissedInv'
    <2>1. \A j \in Publishers : /\ thread'[j].pc \in Early => thread[j].pc \in Early
                               /\ thread[j].pc \in Quiet => thread'[j].pc \in Quiet
        OBVIOUS
    <2>2. \A u \in Users : user[u].pc \in {"waitDelete", "free"} => user[u].k \in Publishers
        BY DEF HeldInv, Works
    <2>3. dead \subseteq Publishers
        BY DEF PushTypes
    <2> QED BY <2>1, <2>2, <2>3 DEF MissedInv
<1>10. FreedIsNotUsed'
    <2>1. touched' \subseteq caught
        BY DEF FreedIsNotUsed, MarkInv, Cleared
    <2>2. haunted' \subseteq missed
        BY DEF FreedIsNotUsed, MissedInv
    <2>3. twice' \subseteq caught
        <3>1. ASSUME thread[k].pc = "session", obj[k].session = "dying" PROVE k \in caught
            <4>1. PICK u \in Users : user[u].k = k /\ user[u].pc = "destroy"
                BY <3>1 DEF DyingInv
            <4>2. Cleared(k)
                BY <4>1 DEF Cleared, Past
            <4> QED BY <4>2, <3>1 DEF MarkInv, Inside
        <3> QED BY <3>1 DEF FreedIsNotUsed
    <2> QED BY <2>1, <2>2, <2>3 DEF FreedIsNotUsed
<1> QED BY <1>1, <1>2, <1>4, <1>6, <1>7, <1>8, <1>9, <1>10

\* What every step of a publisher's thread does.
LEMMA RunsKeeps ==
    ASSUME NEW k \in Publishers, NEW from, from \notin Quiet, Runs(k, from)
    PROVE  Kept(k) /\ thread[k].pc = from
BY DEF Runs, Kept, Untouched, Quiet, msgVars, msgHistory

LEMMA ThreadTypes ==
    ASSUME NEW k \in Publishers, NEW from, PushTypes, Runs(k, from),
           thread' \in [Publishers -> ThreadType], obj' \in [Publishers -> ObjType],
           twice' \subseteq Publishers
    PROVE  PushTypes'
BY ThreadSteps DEF PushTypes

LEMMA MovesTo ==
    ASSUME NEW k \in Publishers, NEW from, NEW to \in ThreadPcs, PushTypes, thread[k].pc = from,
           thread' = [thread EXCEPT ![k].pc = to]
    PROVE  thread' \in [Publishers -> ThreadType] /\ Moved(k, from, to)
<1>1. thread \in [Publishers -> ThreadType] /\ thread[k] \in ThreadType
    BY DEF PushTypes
<1>2. [thread[k] EXCEPT !.pc = to] \in ThreadType /\ [thread[k] EXCEPT !.pc = to].pc = to
    BY <1>1, ThreadSet DEF ThreadType
<1> QED BY <1>1, <1>2 DEF Moved

LEMMA GoesOnTo ==
    ASSUME NEW k \in Publishers, NEW from, NEW video, PushTypes, thread[k].pc = from, GoesOn(k, video)
    PROVE  /\ thread' \in [Publishers -> ThreadType]
           /\ \E to \in {"publish", "loop"} : Moved(k, from, to)
<1>1. thread \in [Publishers -> ThreadType]
    BY DEF PushTypes
<1>2. PICK r \in {[pc |-> "publish", turn |-> "video"], [pc |-> "loop", turn |-> "audio"]} :
         thread' = [thread EXCEPT ![k] = r]
    BY DEF GoesOn
<1>3. r \in ThreadType /\ r.pc \in {"publish", "loop"}
    BY DEF ThreadType
<1>4. Moved(k, from, r.pc)
    BY <1>1, <1>2 DEF Moved
<1> QED BY <1>1, <1>2, <1>3, <1>4

\* A field of the publisher is set.
LEMMA ObjTo ==
    ASSUME NEW k \in Publishers, NEW f, PushTypes, f \in ObjType,
           obj' = [obj EXCEPT ![k] = f]
    PROVE  /\ obj' \in [Publishers -> ObjType]
           /\ obj'[k] = f
           /\ \A j \in Publishers \ {k} : obj'[j] = obj[j]
BY DEF PushTypes

LEMMA ObjSame ==
    ASSUME NEW k \in Publishers, PushTypes, obj' = obj
    PROVE  ObjMoved(k) /\ obj' \in [Publishers -> ObjType] /\ obj'[k] = obj[k]
BY DEF ObjMoved, PushTypes

LEMMA ThreadActions ==
    ASSUME NEW k \in Publishers, PushTypes, PushInv, Publishes(k) \/ Frame(k) \/ Connected(k)
    PROVE  PushTypes' /\ PushInv'
<1>0. obj[k] \in ObjType /\ twice \subseteq Publishers
    BY DEF PushTypes
<1>1. ASSUME Start(k) PROVE PushTypes' /\ PushInv'
    <2>1. /\ Runs(k, "start") /\ thread' = [thread EXCEPT ![k].pc = "convert"]
          /\ obj' = obj /\ twice' = twice
        BY <1>1 DEF Start, Moves
    <2>2. Kept(k) /\ thread[k].pc = "start"
        BY <2>1, RunsKeeps DEF Quiet
    <2>3. Moved(k, "start", "convert") /\ thread' \in [Publishers -> ThreadType]
        BY <2>1, <2>2, MovesTo DEF ThreadPcs
    <2>4. ObjMoved(k) /\ obj' \in [Publishers -> ObjType] /\ obj'[k] = obj[k]
        BY <2>1, ObjSame
    <2>5. MovedWell(k, "start", "convert") /\ TwiceMoved(k, "start")
        BY <2>1, <2>4 DEF MovedWell, TwiceMoved, Quiet, Early, InsidePcs
    <2>6. PushTypes'
        BY <2>1, <2>3, <2>4, <1>0, ThreadTypes
    <2> QED BY <2>2, <2>3, <2>4, <2>5, <2>6, ThreadStep
<1>2. ASSUME Convert(k) PROVE PushTypes' /\ PushInv'
    <2>1. /\ Runs(k, "convert") /\ thread' = [thread EXCEPT ![k].pc = "loop"]
          /\ obj' = [obj EXCEPT ![k].isConvert = 1] /\ twice' = twice
        BY <1>2 DEF Convert, Moves
    <2>2. Kept(k) /\ thread[k].pc = "convert"
        BY <2>1, RunsKeeps DEF Quiet
    <2>3. Moved(k, "convert", "loop") /\ thread' \in [Publishers -> ThreadType]
        BY <2>1, <2>2, MovesTo DEF ThreadPcs
    <2>4. /\ obj' \in [Publishers -> ObjType] /\ obj'[k] = [obj[k] EXCEPT !.isConvert = 1]
          /\ \A j \in Publishers \ {k} : obj'[j] = obj[j]
        BY <2>1, <1>0, ObjSet, ObjTo
    <2>5. ObjMoved(k) /\ obj'[k].isConvert = 1 /\ obj'[k].session = obj[k].session
        BY <2>4, <1>0 DEF ObjMoved, ObjType
    <2>6. MovedWell(k, "convert", "loop") /\ TwiceMoved(k, "convert")
        BY <2>1, <2>5 DEF MovedWell, TwiceMoved, Quiet, Early, InsidePcs
    <2>7. PushTypes'
        BY <2>1, <2>3, <2>4, <1>0, ThreadTypes
    <2> QED BY <2>2, <2>3, <2>5, <2>6, <2>7, ThreadStep
\* A step that moves the thread and nothing else.
<1>3. ASSUME NEW from \in {"loop", "streams", "check", "publish", "failed"},
             NEW to \in {"loop", "streams", "check", "publish", "failed", "ended", "crashed"},
             Runs(k, from), Moved(k, from, to), thread' \in [Publishers -> ThreadType],
             obj' = obj, twice' = twice,
             to = "check" => obj[k].streamInit = 1,
             to \in {"publish", "failed"} => from \in {"check", "publish", "failed"}
      PROVE  PushTypes' /\ PushInv'
    <2>1. Kept(k)
        BY <1>3, RunsKeeps DEF Quiet
    <2>2. ObjMoved(k) /\ obj' \in [Publishers -> ObjType] /\ obj'[k] = obj[k]
        BY <1>3, ObjSame
    <2>3. MovedWell(k, from, to) /\ TwiceMoved(k, from)
        BY <1>3, <2>2 DEF MovedWell, TwiceMoved, Quiet, Early, InsidePcs
    <2>4. PushTypes'
        BY <1>3, <2>2, <1>0, ThreadTypes
    <2> QED BY <1>3, <2>1, <2>2, <2>3, <2>4, ThreadStep
<1>4. ASSUME NEW from \in {"loop", "streams", "publish"},
             NEW to \in {"loop", "streams", "check", "failed", "ended", "crashed"},
             Moves(k, from, to), obj' = obj, to = "check" => obj[k].streamInit = 1,
             to = "failed" => from = "publish"
      PROVE  PushTypes' /\ PushInv'
    <2>1. Runs(k, from) /\ thread' = [thread EXCEPT ![k].pc = to] /\ twice' = twice
        BY <1>4 DEF Moves
    <2>2. thread[k].pc = from
        BY <2>1 DEF Runs
    <2>3. Moved(k, from, to) /\ thread' \in [Publishers -> ThreadType]
        BY <2>1, <2>2, MovesTo DEF ThreadPcs
    <2> QED BY <1>4, <2>1, <2>3, <1>3
<1>5. ASSUME Frame(k) \/ End(k) \/ Fails(k) PROVE PushTypes' /\ PushInv'
    <2>1. Frame(k) => Moves(k, "loop", "streams") /\ obj' = obj
        BY DEF Frame, Look
    <2>2. End(k) => Moves(k, "loop", "ended") /\ obj' = obj
        BY DEF End
    <2>3. Fails(k) => Moves(k, "publish", "failed") /\ obj' = obj
        BY DEF Fails
    <2> QED BY <1>5, <2>1, <2>2, <2>3, <1>4
<1>6. ASSUME Streams(k) PROVE PushTypes' /\ PushInv'
    <2>1. obj[k].pushs \in {"none", "null", "handle"}
        BY <1>0 DEF ObjType
    <2>2. PICK to \in {"loop", "crashed", "check"} :
             Moves(k, "streams", to) /\ obj' = obj /\ (to = "check" => obj[k].streamInit = 1)
        BY <1>6, <2>1 DEF Streams
    <2> QED BY <2>2, <1>4
<1>7. ASSUME NEW turn \in {"audio", "video"}, Check(k, turn) PROVE PushTypes' /\ PushInv'
    <2>1. Runs(k, "check") /\ obj' = obj /\ twice' = twice
        BY <1>7 DEF Check
    <2>2. thread[k].pc = "check" /\ thread \in [Publishers -> ThreadType]
        BY <2>1 DEF Runs, PushTypes
    <2>3. PICK r \in {[pc |-> "publish", turn |-> turn], [thread[k] EXCEPT !.pc = "loop"]} :
             thread' = [thread EXCEPT ![k] = r]
        BY <1>7 DEF Check
    <2>4. r \in ThreadType /\ r.pc \in {"publish", "loop"}
        BY <2>2 DEF ThreadType
    <2>5. Moved(k, "check", r.pc) /\ thread' \in [Publishers -> ThreadType]
        BY <2>2, <2>3, <2>4 DEF Moved
    <2> QED BY <2>1, <2>4, <2>5, <1>3
<1>8. ASSUME NEW video \in BOOLEAN, Sent(k, video) \/ StillConnected(k, video)
      PROVE  PushTypes' /\ PushInv'
    <2>1. PICK from \in {"publish", "failed"} : Runs(k, from)
        BY <1>8 DEF Sent, StillConnected
    <2>2. GoesOn(k, video) /\ obj' = obj /\ twice' = twice /\ thread[k].pc = from
        BY <1>8, <2>1 DEF Sent, StillConnected, Runs
    <2>3. /\ thread' \in [Publishers -> ThreadType]
          /\ \E to \in {"publish", "loop"} : Moved(k, from, to)
        BY <2>2, GoesOnTo
    <2> QED BY <2>1, <2>2, <2>3, <1>3
<1>9. ASSUME NotConnected(k) PROVE PushTypes' /\ PushInv'
    <2>1. /\ Runs(k, "failed") /\ thread' = [thread EXCEPT ![k].pc = "session"]
          /\ obj' = [obj EXCEPT ![k].streamInit = 0] /\ twice' = twice
        BY <1>9 DEF NotConnected, Moves
    <2>2. Kept(k) /\ thread[k].pc = "failed"
        BY <2>1, RunsKeeps DEF Quiet
    <2>3. Moved(k, "failed", "session") /\ thread' \in [Publishers -> ThreadType]
        BY <2>1, <2>2, MovesTo DEF ThreadPcs
    <2>4. /\ obj' \in [Publishers -> ObjType] /\ obj'[k] = [obj[k] EXCEPT !.streamInit = 0]
          /\ \A j \in Publishers \ {k} : obj'[j] = obj[j]
        BY <2>1, <1>0, ObjSet, ObjTo
    <2>5. ObjMoved(k) /\ obj'[k].session = obj[k].session
        BY <2>4, <1>0 DEF ObjMoved, ObjType
    <2>6. MovedWell(k, "failed", "session") /\ TwiceMoved(k, "failed")
        BY <2>1, <2>5 DEF MovedWell, TwiceMoved, Quiet, Early, InsidePcs
    <2>7. PushTypes'
        BY <2>1, <2>3, <2>4, <1>0, ThreadTypes
    <2> QED BY <2>2, <2>3, <2>5, <2>6, <2>7, ThreadStep
<1>10. ASSUME Disconnect(k) PROVE PushTypes' /\ PushInv'
    <2>1. /\ Runs(k, "session") /\ thread' = [thread EXCEPT ![k].pc = "destroy"]
          /\ obj' = [obj EXCEPT ![k].session = "dying"]
          /\ twice' = IF obj[k].session = "dying" THEN twice \cup {k} ELSE twice
        BY <1>10 DEF Disconnect
    <2>2. Kept(k) /\ thread[k].pc = "session"
        BY <2>1, RunsKeeps DEF Quiet
    <2>3. Moved(k, "session", "destroy") /\ thread' \in [Publishers -> ThreadType]
        BY <2>1, <2>2, MovesTo DEF ThreadPcs
    <2>4. /\ obj' \in [Publishers -> ObjType] /\ obj'[k] = [obj[k] EXCEPT !.session = "dying"]
          /\ \A j \in Publishers \ {k} : obj'[j] = obj[j]
        BY <2>1, <1>0, ObjSet, ObjTo
    <2>5. ObjMoved(k)
        BY <2>4, <1>0 DEF ObjMoved, ObjType
    <2>6. MovedWell(k, "session", "destroy") /\ TwiceMoved(k, "session")
        BY <2>1 DEF MovedWell, TwiceMoved, Quiet, Early, InsidePcs
    <2>7. twice' \subseteq Publishers
        BY <2>1, <1>0
    <2>8. PushTypes'
        BY <2>1, <2>3, <2>4, <2>7, ThreadTypes
    <2> QED BY <2>2, <2>3, <2>5, <2>6, <2>8, ThreadStep
<1>11. ASSUME NEW video \in BOOLEAN, Disconnected(k, video) PROVE PushTypes' /\ PushInv'
    <2>1. PICK from \in {"session", "destroy"} : Runs(k, from)
        BY <1>11 DEF Disconnected
    <2>2. GoesOn(k, video) /\ twice' = twice /\ obj' = [obj EXCEPT ![k].session = "freed"]
        BY <1>11 DEF Disconnected
    <2>3. Kept(k) /\ thread[k].pc = from
        BY <2>1, RunsKeeps DEF Quiet
    <2>4. PICK to \in {"publish", "loop"} :
             Moved(k, from, to) /\ thread' \in [Publishers -> ThreadType]
        BY <2>2, <2>3, GoesOnTo
    <2>5. /\ obj' \in [Publishers -> ObjType] /\ obj'[k] = [obj[k] EXCEPT !.session = "freed"]
          /\ \A j \in Publishers \ {k} : obj'[j] = obj[j]
        BY <2>2, <1>0, ObjSet, ObjTo
    <2>6. ObjMoved(k) /\ obj'[k].session = "freed"
        BY <2>5, <1>0 DEF ObjMoved, ObjType
    <2>7. MovedWell(k, from, to) /\ TwiceMoved(k, from)
        BY <2>2, <2>6 DEF MovedWell, TwiceMoved, Quiet, Early, InsidePcs
    <2>8. PushTypes'
        BY <2>1, <2>2, <2>4, <2>5, <1>0, ThreadTypes
    <2> QED BY <2>3, <2>4, <2>6, <2>7, <2>8, ThreadStep
<1>12. ASSUME Connected(k) PROVE PushTypes' /\ PushInv'
    <2>1. /\ obj' = [obj EXCEPT ![k].session = "connected"] /\ obj[k].session = "live"
          /\ UNCHANGED <<handler, owner, handled, pub, user, thread, freed, dead, caught, missed,
                         touched, haunted, twice>>
        BY <1>12 DEF Connected, msgVars, msgHistory, pushHistory
    <2>2. Kept(k) /\ Moved(k, thread[k].pc, thread[k].pc)
        BY <2>1 DEF Kept, Untouched, Moved
    <2>3. /\ obj' \in [Publishers -> ObjType] /\ obj'[k] = [obj[k] EXCEPT !.session = "connected"]
          /\ \A j \in Publishers \ {k} : obj'[j] = obj[j]
        BY <2>1, <1>0, ObjSet, ObjTo
    <2>4. ObjMoved(k) /\ obj'[k].session = "connected"
        BY <2>3, <1>0 DEF ObjMoved, ObjType
    <2>5. MovedWell(k, thread[k].pc, thread[k].pc) /\ TwiceMoved(k, thread[k].pc)
        BY <2>1, <2>4 DEF MovedWell, TwiceMoved
    <2>6. PushTypes'
        BY <2>1, <2>3 DEF PushTypes
    <2> QED BY <2>2, <2>4, <2>5, <2>6, ThreadStep
<1> QED BY <1>1, <1>2, <1>5, <1>6, <1>7, <1>8, <1>9, <1>10, <1>11, <1>12 DEF Publishes

-----------------------------------------------------------------------------
(* A step of the handle once the mark is cleared *)

PastPcs == {"session", "destroy", "freeStream", "clear", "stop", "waitStop", "delete", "waitDelete", "free"}

\* While one thread works in the handle, the other does not.
LEMMA Solo ==
    ASSUME AloneInv, NEW u \in Users, user[u].pc # "idle"
    PROVE  \A v \in Users \ {u} : user[v].pc = "idle"
BY DEF AloneInv, Users

\* A step on m_pub, or on no publisher, makes none that is not there.
LEMMA FreshKept ==
    ASSUME FreshInv, UNCHANGED <<handler, handled>>, pub' \in {pub, 0},
           \A j \in Publishers : Untouched(j) /\ j # pub => Untouched(j)',
           user'["handler"].pc \notin {"connect", "start"},
           user'["handler"].pc # "done" => user["handler"].pc \notin {"connect", "start", "done"}
    PROVE  FreshInv'
<1>0. 0 \notin Publishers
    BY DEF Publishers
<1>1. \A j \in Publishers :
         (\A i \in 1 .. Len(handled') : handled'[i].n # j) => Untouched(j)' /\ pub' # j
    BY <1>0 DEF FreshInv
<1>2. Current' = Current
    BY DEF Current
<1>3. ASSUME handler.pc = "handle", user'["handler"].pc # "done"
      PROVE  Untouched(Current.n)' /\ pub' # Current'.n
    <2>1. PICK j \in Publishers : j = Current.n
        BY <1>3 DEF FreshInv
    <2>2. pub # j /\ Untouched(j)
        BY <1>3, <2>1 DEF FreshInv
    <2>3. Untouched(j)'
        BY <2>2
    <2>4. pub' # j
        BY <1>0, <2>2
    <2> QED BY <1>2, <2>1, <2>3, <2>4 DEF Untouched
<1>4. handler'.pc = "handle" =>
         Len(handled') \in 1 .. Len(handled') /\ Current'.n \in Publishers
    BY <1>2 DEF FreshInv
<1> QED BY <1>1, <1>3, <1>4 DEF FreshInv

\* What such a step does to the rest, to the user and the publisher, and why that is well.
Steps(u) ==
    /\ UNCHANGED <<handler, owner, handled, pub, thread, dead, caught, touched, haunted>>
    /\ \A j \in Publishers \ {user[u].k} : obj'[j] = obj[j]
    /\ freed' \in {freed, freed \cup {user[u].k}}
    /\ missed \subseteq missed'
UserMoved(u, to) ==
    /\ \A v \in Users \ {u} : user'[v] = user[v]
    /\ user'[u].pc = to /\ user'[u].k = user[u].k
SteppedWell(k, from, to) ==
    /\ obj'[k].streamInit = obj[k].streamInit
    /\ obj'[k].session = "dying" => thread[k].pc = "destroy" \/ to = "destroy"
    /\ \/ to \in {"waitStop", "waitDelete"}
       \/ thread[k].pc \in Quiet \cup Early
       \/ obj'[k].isConvert = obj[k].isConvert /\ from \notin {"waitStop", "waitDelete"}
    /\ to \in {"waitDelete", "free"} /\ thread[k].pc \in Early => k \in missed'
    /\ to = "free" => thread[k].pc \in Quiet \cup Early
    /\ \/ twice' = twice
       \/ twice' = twice \cup {k} /\ obj[k].session = "dying" /\ from = "session"

LEMMA PastStep ==
    ASSUME NEW u \in Users, NEW from \in PastPcs, NEW to \in PastPcs, PushTypes, PushInv,
           user[u].pc = from, Steps(u), UserMoved(u, to), SteppedWell(user[u].k, from, to)
    PROVE  PushInv'
<1> DEFINE k == user[u].k
<1> USE DEF PushInv, Steps, UserMoved, SteppedWell
<1>0. k \in Publishers /\ k = pub /\ k \notin dead
    BY DEF HeldInv, Works, PastPcs
<1>1. \A v \in Users \ {u} : user[v].pc = "idle" /\ user'[v].pc = "idle"
    BY Solo DEF PastPcs
<1>2. Past(u) /\ Past(u)' /\ Cleared(k) /\ Cleared(k)'
    BY DEF Past, Cleared, PastPcs
<1>3. AloneInv'
    BY <1>1 DEF AloneInv, PastPcs, Users
<1>4. HeldInv'
    BY <1>0, <1>1 DEF HeldInv, Works, PastPcs
<1>5. \A j \in Publishers : Untouched(j) /\ j # k => Untouched(j)'
    BY DEF Untouched
<1>6. FreshInv'
    <2>1. user'["handler"].pc \notin {"connect", "start"}
        BY <1>1 DEF PastPcs, Users
    <2>2. user'["handler"].pc # "done" => user["handler"].pc \notin {"connect", "start", "done"}
        BY <1>1 DEF PastPcs, Users
    <2> QED BY <1>0, <1>5, <2>1, <2>2, FreshKept
<1>7. ASSUME NEW j \in Publishers \ {k} PROVE Cleared(j)' <=> Cleared(j)
    BY <1>1 DEF Cleared, Past
<1>8. MarkInv'
    <2>1. ASSUME NEW j \in Publishers, Cleared(j)'
          PROVE  obj'[j].streamInit = 0 /\ (thread'[j].pc \in InsidePcs => j \in caught')
        <3>1. Cleared(j) /\ obj'[j].streamInit = obj[j].streamInit
            BY <1>2, <1>7, <2>1
        <3> QED BY <3>1, InsideIs DEF MarkInv
    <2> QED BY <2>1 DEF MarkInv, Inside, InsidePcs
<1>9. DyingInv'
    <2>1. ASSUME NEW j \in Publishers \ {k}, obj[j].session = "dying" PROVE thread[j].pc = "destroy"
        BY <2>1, <1>1 DEF DyingInv
    <2> QED BY <1>1, <2>1 DEF DyingInv
<1>10. RunInv'
    <2>1. ASSUME NEW j \in Publishers \ dead, j # k, obj[j].isConvert = 0
          PROVE  thread[j].pc \in Quiet \cup Early
        BY <2>1, <1>1 DEF RunInv
    <2>2. ASSUME from \notin {"waitStop", "waitDelete"}, obj[k].isConvert = 0
          PROVE  thread[k].pc \in Quiet \cup Early
        BY <2>2, <1>0, <1>1 DEF RunInv
    <2> QED BY <1>0, <2>1, <2>2 DEF RunInv
<1>11. MissedInv'
    <2>1. \A v \in Users : user'[v].pc \in {"waitDelete", "free"} => v = u
        BY <1>1
    <2> QED BY <2>1 DEF MissedInv
<1>12. FreedIsNotUsed'
    <2>1. ASSUME obj[k].session = "dying", from = "session" PROVE k \in caught
        <3>1. thread[k].pc = "destroy"
            BY <2>1, <1>0, <1>1 DEF DyingInv
        <3> QED BY <3>1, <1>0, <1>2, InsideIs DEF MarkInv, InsidePcs
    <2> QED BY <2>1 DEF FreedIsNotUsed
<1> QED BY <1>3, <1>4, <1>6, <1>8, <1>9, <1>10, <1>11, <1>12

LEMMA UserAtMoves ==
    ASSUME NEW u \in Users, NEW from, NEW to \in UserPcs, PushTypes, UserAt(u, from, to)
    PROVE  /\ user[u].pc = from /\ UserMoved(u, to) /\ user' \in [Users -> UserType]
<1>1. user \in [Users -> UserType] /\ user[u] \in UserType
    BY DEF PushTypes
<1>2. /\ [user[u] EXCEPT !.pc = to] \in UserType /\ [user[u] EXCEPT !.pc = to].pc = to
      /\ [user[u] EXCEPT !.pc = to].k = user[u].k
    BY <1>1 DEF UserType, UserPcs
<1> QED BY <1>1, <1>2 DEF UserMoved, UserAt

LEMMA PastTypes ==
    ASSUME NEW u \in Users, PushTypes, user[u].k \in Publishers, Steps(u),
           user' \in [Users -> UserType], obj' \in [Publishers -> ObjType],
           missed' \subseteq Publishers, twice' \subseteq Publishers
    PROVE  PushTypes'
BY DEF PushTypes, Steps

PastAction(u) ==
    \/ EndSession(u) \/ SessionEnded(u) \/ FreeStream(u) \/ Clear(u) \/ StopPublisher(u)
    \/ WaitStop(u) \/ DeletePublisher(u) \/ WaitDelete(u)

LEMMA PastActions ==
    ASSUME NEW u \in Users, PushTypes, PushInv, PastAction(u)
    PROVE  PushTypes' /\ PushInv'
<1> DEFINE k == user[u].k
<1> USE DEF PushInv
<1> USE DEF PastPcs, UserPcs
<1>0. user[u].pc \in PastPcs
    BY DEF PastAction, EndSession, SessionEnded, FreeStream, Clear, StopPublisher, WaitStop,
           DeletePublisher, WaitDelete, UserAt
<1>1. /\ k \in Publishers /\ k \notin dead
      /\ obj \in [Publishers -> ObjType] /\ obj[k] \in ObjType
      /\ missed \subseteq Publishers /\ twice \subseteq Publishers
    BY <1>0 DEF HeldInv, Works, PushTypes
<1>2. \A v \in Users \ {u} : user[v].pc = "idle"
    BY <1>0, Solo
\* What the invariant says of k while u is here.
<1>3. obj[k].session = "dying" /\ user[u].pc # "destroy" => thread[k].pc = "destroy"
    BY <1>1, <1>2 DEF DyingInv
<1>4. obj[k].isConvert = 0 /\ user[u].pc \notin {"waitStop", "waitDelete"}
        => thread[k].pc \in Quiet \cup Early
    BY <1>1, <1>2 DEF RunInv
\* What remains to be shown of each action.
<1>5. ASSUME NEW from \in PastPcs, NEW to \in PastPcs, UserAt(u, from, to), Steps(u),
             obj' \in [Publishers -> ObjType],
             missed' \subseteq Publishers, twice' \subseteq Publishers, SteppedWell(k, from, to)
      PROVE  PushTypes' /\ PushInv'
    <2>1. user[u].pc = from /\ UserMoved(u, to) /\ user' \in [Users -> UserType]
        BY <1>5, UserAtMoves
    <2>2. PushTypes'
        BY <1>1, <1>5, <2>1, PastTypes
    <2>3. PushInv'
        BY <1>5, <2>1, PastStep
    <2> QED BY <2>2, <2>3
<1>6. CASE EndSession(u)
    <2>1. PICK to \in {"destroy", "freeStream"} :
             UserAt(u, "session", to) /\ to = IF HasSession(k) THEN "destroy" ELSE "freeStream"
        BY <1>6 DEF EndSession
    <2>2. user[u].pc = "session"
        BY <2>1 DEF UserAt
    <2>3. /\ obj' = [obj EXCEPT ![k] = [obj[k] EXCEPT !.session = IF HasSession(k) THEN "dying" ELSE @]]
          /\ twice' = IF obj[k].session = "dying" THEN twice \cup {k} ELSE twice
        BY <1>6 DEF EndSession
    <2> DEFINE f == [obj[k] EXCEPT !.session = IF HasSession(k) THEN "dying" ELSE @]
    <2>4. /\ f \in ObjType
          /\ f.streamInit = obj[k].streamInit /\ f.isConvert = obj[k].isConvert
          /\ f.session = "dying" => to = "destroy"
        BY <1>1, <2>1 DEF ObjType, HasSession
    <2>5. /\ obj' \in [Publishers -> ObjType] /\ obj'[k] = f
          /\ \A j \in Publishers \ {k} : obj'[j] = obj[j]
        BY <1>1, <2>3, <2>4, ObjTo
    <2>6. Steps(u) /\ missed' = missed
        BY <1>6, <2>5 DEF EndSession, Steps, msgVars, msgHistory
    <2>7. SteppedWell(k, "session", to)
        BY <2>1, <2>3, <2>4, <2>5 DEF SteppedWell
    <2> QED BY <1>1, <1>5, <2>1, <2>3, <2>5, <2>6, <2>7
<1>7. CASE SessionEnded(u)
    <2>1. UserAt(u, "destroy", "freeStream")
        BY <1>7 DEF SessionEnded
    <2>2. obj' = [obj EXCEPT ![k] = [obj[k] EXCEPT !.session = "freed"]] /\ twice' = twice
        BY <1>7 DEF SessionEnded, pushHistory
    <2>3. /\ obj' \in [Publishers -> ObjType] /\ obj'[k] = [obj[k] EXCEPT !.session = "freed"]
          /\ \A j \in Publishers \ {k} : obj'[j] = obj[j]
        BY <1>1, <2>2, ObjSet, ObjTo
    <2>4. Steps(u) /\ missed' = missed
        BY <1>7, <2>3 DEF SessionEnded, Steps, msgVars, msgHistory, pushHistory
    <2>5. SteppedWell(k, "destroy", "freeStream")
        BY <1>1, <2>2, <2>3 DEF SteppedWell, ObjType
    <2> QED BY <1>1, <1>5, <2>1, <2>2, <2>3, <2>4, <2>5
<1>8. CASE FreeStream(u)
    <2>1. UserAt(u, "freeStream", "clear") /\ user[u].pc = "freeStream"
        BY <1>8 DEF FreeStream, UserAt
    <2>2. obj' = [obj EXCEPT ![k] = [obj[k] EXCEPT !.pushs = "null"]] /\ twice' = twice
        BY <1>8 DEF FreeStream
    <2>3. /\ obj' \in [Publishers -> ObjType] /\ obj'[k] = [obj[k] EXCEPT !.pushs = "null"]
          /\ \A j \in Publishers \ {k} : obj'[j] = obj[j]
        BY <1>1, <2>2, ObjSet, ObjTo
    <2>4. Steps(u) /\ missed' = missed
        BY <1>8, <2>3 DEF FreeStream, Steps, msgVars, msgHistory
    <2>5. SteppedWell(k, "freeStream", "clear")
        BY <1>1, <1>3, <2>1, <2>2, <2>3 DEF SteppedWell, ObjType
    <2> QED BY <1>1, <1>5, <2>1, <2>2, <2>3, <2>4, <2>5
<1>9. CASE Clear(u)
    <2>1. PICK to \in {"stop", "delete"} : UserAt(u, "clear", to) /\ user[u].pc = "clear"
        BY <1>9 DEF Clear, AfterStream, UserAt
    <2>2. obj' = [obj EXCEPT ![k] = [obj[k] EXCEPT !.pushs = "none"]] /\ twice' = twice
        BY <1>9 DEF Clear, pushHistory
    <2>3. /\ obj' \in [Publishers -> ObjType] /\ obj'[k] = [obj[k] EXCEPT !.pushs = "none"]
          /\ \A j \in Publishers \ {k} : obj'[j] = obj[j]
        BY <1>1, <2>2, ObjSet, ObjTo
    <2>4. Steps(u) /\ missed' = missed
        BY <1>9, <2>3 DEF Clear, Steps, msgVars, msgHistory, pushHistory
    <2>5. SteppedWell(k, "clear", to)
        BY <1>1, <1>3, <2>1, <2>2, <2>3 DEF SteppedWell, ObjType
    <2> QED BY <1>1, <1>5, <2>1, <2>2, <2>3, <2>4, <2>5
<1>10. CASE StopPublisher(u)
    <2>1. UserAt(u, "stop", "waitStop") /\ user[u].pc = "stop"
        BY <1>10 DEF StopPublisher, UserAt
    <2>2. PICK x \in {0, 1} : obj' = [obj EXCEPT ![k] = [obj[k] EXCEPT !.isConvert = x]]
        BY <1>1, <1>10 DEF StopPublisher, ObjType
    <2>3. /\ obj' \in [Publishers -> ObjType] /\ obj'[k] = [obj[k] EXCEPT !.isConvert = x]
          /\ \A j \in Publishers \ {k} : obj'[j] = obj[j]
        BY <1>1, <2>2, ObjSet, ObjTo
    <2>4. Steps(u) /\ missed' = missed /\ twice' = twice
        BY <1>10, <2>3 DEF StopPublisher, Steps, msgVars, msgHistory, pushHistory
    <2>5. SteppedWell(k, "stop", "waitStop")
        BY <1>1, <1>3, <2>1, <2>3, <2>4 DEF SteppedWell, ObjType
    <2> QED BY <1>1, <1>5, <2>1, <2>3, <2>4, <2>5
<1>11. CASE WaitStop(u)
    <2>1. UserAt(u, "waitStop", "delete") /\ user[u].pc = "waitStop"
        BY <1>11 DEF WaitStop, UserAt
    <2>2. thread[k].pc \in Quiet \cup Early
        BY <1>11 DEF WaitStop, IsStarted, Quiet, Early
    <2>3. obj' = obj /\ missed' = missed /\ twice' = twice
        BY <1>11 DEF WaitStop, pushHistory
    <2>4. Steps(u)
        BY <1>11 DEF WaitStop, Steps, msgVars, msgHistory, pushHistory
    <2>5. SteppedWell(k, "waitStop", "delete")
        BY <1>3, <2>1, <2>2, <2>3 DEF SteppedWell
    <2> QED BY <1>1, <1>5, <2>1, <2>3, <2>4, <2>5
<1>12. CASE DeletePublisher(u)
    <2>1. PICK to \in {"waitDelete", "free"} :
             UserAt(u, "delete", to) /\ to = IF obj[k].isConvert = 1 THEN "waitDelete" ELSE "free"
        BY <1>12 DEF DeletePublisher
    <2>2. user[u].pc = "delete"
        BY <2>1 DEF UserAt
    <2>3. /\ obj' = [obj EXCEPT ![k] = [obj[k] EXCEPT !.isConvert = 0]] /\ twice' = twice
          /\ missed' = IF thread[k].pc \in Early THEN missed \cup {k} ELSE missed
        BY <1>12 DEF DeletePublisher, Early
    <2>4. /\ obj' \in [Publishers -> ObjType] /\ obj'[k] = [obj[k] EXCEPT !.isConvert = 0]
          /\ \A j \in Publishers \ {k} : obj'[j] = obj[j]
        BY <1>1, <2>3, ObjSet, ObjTo
    <2>5. Steps(u) /\ missed' \subseteq Publishers
        BY <1>1, <1>12, <2>3, <2>4 DEF DeletePublisher, Steps, msgVars, msgHistory
    <2>6. obj[k].isConvert \in {0, 1}
        BY <1>1 DEF ObjType
    <2>7. to = "free" => thread[k].pc \in Quiet \cup Early
        BY <1>4, <2>1, <2>2, <2>6
    <2>8. SteppedWell(k, "delete", to)
        BY <1>1, <1>3, <2>2, <2>3, <2>4, <2>7 DEF SteppedWell, ObjType
    <2> QED BY <1>1, <1>5, <2>1, <2>3, <2>4, <2>5, <2>8
<1>13. CASE WaitDelete(u)
    <2>1. UserAt(u, "waitDelete", "free") /\ user[u].pc = "waitDelete"
        BY <1>13 DEF WaitDelete, UserAt
    <2>2. thread[k].pc \in Quiet \cup Early
        BY <1>13 DEF WaitDelete, IsStarted, Quiet, Early
    <2>3. obj' = obj /\ missed' = missed /\ twice' = twice
        BY <1>13 DEF WaitDelete, pushHistory
    <2>4. Steps(u)
        BY <1>13 DEF WaitDelete, Steps, msgVars, msgHistory, pushHistory
    <2>5. thread[k].pc \in Early => k \in missed
        BY <2>1 DEF MissedInv
    <2>6. SteppedWell(k, "waitDelete", "free")
        BY <1>3, <2>1, <2>2, <2>3, <2>5 DEF SteppedWell
    <2> QED BY <1>1, <1>5, <2>1, <2>3, <2>4, <2>6
<1> QED BY <1>6, <1>7, <1>8, <1>9, <1>10, <1>11, <1>12, <1>13 DEF PastAction

-----------------------------------------------------------------------------
(* The other steps of the handle *)

LEMMA UnsetStep ==
    ASSUME NEW u \in Users, PushTypes, PushInv, Unset(u)
    PROVE  PushTypes' /\ PushInv'
<1> DEFINE k == user[u].k
<1> USE DEF PushInv
<1>1. PICK to \in {"session", "stop", "delete"} : UserAt(u, "unset", to)
    BY DEF Unset, AfterStream
<1>2. user[u].pc = "unset" /\ UserMoved(u, to) /\ user' \in [Users -> UserType]
    BY <1>1, UserAtMoves DEF UserPcs
<1>3. k \in Publishers /\ k = pub /\ k \notin dead
    BY <1>2 DEF HeldInv, Works
<1>4. \A v \in Users \ {u} : user[v].pc = "idle" /\ user'[v].pc = "idle"
    BY <1>2, Solo DEF UserMoved
<1>5. /\ UNCHANGED <<handler, owner, handled, pub, thread, freed, dead, missed, touched, haunted, twice>>
      /\ caught' = IF Inside(k) THEN caught \cup {k} ELSE caught
    BY DEF Unset, msgVars, msgHistory
<1>6. /\ obj' \in [Publishers -> ObjType] /\ obj'[k] = [obj[k] EXCEPT !.streamInit = 0]
      /\ \A j \in Publishers \ {k} : obj'[j] = obj[j]
    <2>1. obj' = [obj EXCEPT ![k] = [obj[k] EXCEPT !.streamInit = 0]] /\ obj[k] \in ObjType
        BY <1>3 DEF Unset, PushTypes
    <2> QED BY <1>3, <2>1, ObjSet, ObjTo
<1>7. /\ obj'[k].streamInit = 0 /\ obj'[k].session = obj[k].session
      /\ obj'[k].isConvert = obj[k].isConvert
    BY <1>3, <1>6 DEF PushTypes, ObjType
<1>8. PushTypes'
    BY <1>2, <1>3, <1>5, <1>6 DEF PushTypes
<1>19. \A j \in Publishers :
         obj'[j].session = obj[j].session /\ obj'[j].isConvert = obj[j].isConvert
    BY <1>6, <1>7
<1>9. AloneInv'
    BY <1>2, <1>4, <1>5 DEF AloneInv, UserMoved, Users
<1>10. HeldInv'
    BY <1>2, <1>3, <1>4, <1>5 DEF HeldInv, Works, UserMoved
<1>11. \A j \in Publishers : Untouched(j) /\ j # k => Untouched(j)'
    BY <1>5, <1>6 DEF Untouched
<1>12. FreshInv'
    <2>1. user'["handler"].pc \notin {"connect", "start"}
        BY <1>2, <1>4 DEF UserMoved, Users
    <2>2. user'["handler"].pc # "done" => user["handler"].pc \notin {"connect", "start", "done"}
        BY <1>2, <1>4 DEF UserMoved, Users
    <2> QED BY <1>3, <1>5, <1>11, <2>1, <2>2, FreshKept
<1>13. ASSUME NEW j \in Publishers \ {k} PROVE Cleared(j)' <=> Cleared(j)
    BY <1>2, <1>4, <1>5 DEF Cleared, Past, UserMoved
<1>14. MarkInv'
    <2>1. ASSUME NEW j \in Publishers \ {k}, Cleared(j)'
          PROVE  obj'[j].streamInit = 0 /\ (thread'[j].pc \in InsidePcs => j \in caught')
        BY <1>5, <1>6, <1>13, <2>1, InsideIs DEF MarkInv
    <2>2. thread'[k].pc \in InsidePcs => k \in caught'
        BY <1>5, InsideIs
    <2> QED BY <1>7, <2>1, <2>2 DEF MarkInv, Inside, InsidePcs
<1>15. DyingInv'
    <2>1. ASSUME NEW j \in Publishers, obj[j].session = "dying" PROVE thread[j].pc = "destroy"
        BY <2>1, <1>2, <1>4 DEF DyingInv
    <2> QED BY <1>5, <1>19, <2>1 DEF DyingInv
<1>16. RunInv'
    <2>1. ASSUME NEW j \in Publishers \ dead, obj[j].isConvert = 0
          PROVE  thread[j].pc \in Quiet \cup Early
        BY <2>1, <1>2, <1>4 DEF RunInv
    <2> QED BY <1>5, <1>19, <2>1 DEF RunInv
<1>17. MissedInv'
    <2>1. \A v \in Users : user'[v].pc \notin {"waitDelete", "free"}
        BY <1>2, <1>4 DEF UserMoved
    <2> QED BY <1>5, <2>1 DEF MissedInv
<1>18. FreedIsNotUsed'
    BY <1>5 DEF FreedIsNotUsed
<1> QED BY <1>8, <1>9, <1>10, <1>12, <1>14, <1>15, <1>16, <1>17, <1>18

LEMMA FreeStep ==
    ASSUME NEW u \in Users, PushTypes, PushInv, Free(u)
    PROVE  PushTypes' /\ PushInv'
<1> DEFINE k == user[u].k
<1> USE DEF PushInv
<1>1. PICK to \in {"create", "done"} :
         UserAt(u, "free", to) /\ (to = "create" => Connects(u))
    BY DEF Free, Onward
<1>2. user[u].pc = "free" /\ UserMoved(u, to) /\ user' \in [Users -> UserType]
    BY <1>1, UserAtMoves DEF UserPcs
<1>3. k \in Publishers /\ k = pub /\ k \notin dead
    BY <1>2 DEF HeldInv, Works
<1>4. \A v \in Users \ {u} : user[v].pc = "idle" /\ user'[v].pc = "idle"
    BY <1>2, Solo DEF UserMoved
<1>5. /\ UNCHANGED <<handler, owner, handled, obj, thread, freed, caught, missed, touched, haunted, twice>>
      /\ dead' = dead \cup {k} /\ pub' = 0
    BY DEF Free, msgVars, msgHistory
<1>6. PushTypes'
    BY <1>2, <1>3, <1>5, MaxPostsAssumption DEF PushTypes
<1>7. AloneInv'
    <2>1. to = "create" => u # "owner"
        BY <1>1 DEF Connects
    <2> QED BY <1>2, <1>4, <1>5, <2>1 DEF AloneInv, UserMoved, Users
<1>8. HeldInv'
    <2>1. 0 \notin dead \cup {k}
        BY <1>3 DEF PushTypes, Publishers
    <2> QED BY <1>2, <1>4, <1>5, <2>1 DEF HeldInv, Works, UserMoved
<1>9. \A j \in Publishers : Untouched(j) /\ j # k => Untouched(j)'
    BY <1>5 DEF Untouched
<1>10. FreshInv'
    <2>1. user'["handler"].pc \notin {"connect", "start"}
        BY <1>2, <1>4 DEF UserMoved, Users
    <2>2. user'["handler"].pc # "done" => user["handler"].pc \notin {"connect", "start", "done"}
        BY <1>2, <1>4 DEF UserMoved, Users
    <2> QED BY <1>3, <1>5, <1>9, <2>1, <2>2, FreshKept
<1>11. MarkInv'
    <2>1. ASSUME NEW j \in Publishers, Cleared(j)' PROVE Cleared(j)
        BY <1>2, <1>3, <1>4, <1>5, <2>1 DEF Cleared, Past, UserMoved
    <2> QED BY <1>5, <2>1 DEF MarkInv, Inside
<1>12. DyingInv'
    <2>1. ASSUME NEW j \in Publishers, obj[j].session = "dying" PROVE thread[j].pc = "destroy"
        BY <2>1, <1>2, <1>4 DEF DyingInv
    <2> QED BY <1>5, <2>1 DEF DyingInv
<1>13. RunInv'
    <2>1. ASSUME NEW j \in Publishers \ dead, obj[j].isConvert = 0
          PROVE  thread[j].pc \in Quiet \cup Early
        BY <2>1, <1>2, <1>4 DEF RunInv
    <2> QED BY <1>5, <2>1 DEF RunInv
<1>14. MissedInv'
    <2>1. \A v \in Users : user'[v].pc \notin {"waitDelete", "free"}
        BY <1>2, <1>4 DEF UserMoved
    <2>2. thread[k].pc \in Quiet \/ k \in missed
        BY <1>2 DEF MissedInv
    <2> QED BY <1>5, <2>1, <2>2 DEF MissedInv
<1>15. FreedIsNotUsed'
    BY <1>5 DEF FreedIsNotUsed
<1> QED BY <1>6, <1>7, <1>8, <1>10, <1>11, <1>12, <1>13, <1>14, <1>15

LEMMA CreateStep ==
    ASSUME NEW u \in Users, PushTypes, PushInv, Create(u)
    PROVE  PushTypes' /\ PushInv'
<1> USE DEF PushInv
<1>1. user[u].pc = "create" /\ pub = 0 /\ u = "handler"
    BY DEF Create, HeldInv, AloneInv, Users
<1>2. handler.pc = "handle" /\ user["owner"].pc = "idle"
    BY <1>1, Solo DEF AloneInv, Users
<1>3. PICK k \in Publishers : k = Current.n
    BY <1>2 DEF FreshInv
<1>4. /\ UNCHANGED <<handler, owner, handled, obj, thread, freed, dead, caught, missed, touched,
                     haunted, twice>>
      /\ pub' = k /\ user' = [user EXCEPT !["handler"] = [pc |-> "connect", k |-> k]]
    BY <1>1, <1>3 DEF Create, msgVars, msgHistory, pushHistory
<1>5. /\ user'["handler"] = [pc |-> "connect", k |-> k] /\ user'["owner"] = user["owner"]
      /\ user' \in [Users -> UserType]
    <2>1. [pc |-> "connect", k |-> k] \in UserType
        BY MaxPostsAssumption DEF UserType, Publishers
    <2> QED BY <1>4, <2>1 DEF PushTypes, Users
<1>6. Untouched(k)
    BY <1>1, <1>2, <1>3 DEF FreshInv, Untouched
<1>7. PushTypes'
    BY <1>4, <1>5, MaxPostsAssumption DEF PushTypes, Publishers
<1>8. AloneInv'
    BY <1>2, <1>4, <1>5 DEF AloneInv
<1>9. HeldInv'
    BY <1>2, <1>4, <1>5, <1>6 DEF HeldInv, Works, Users, Untouched
<1>10. FreshInv'
    <2>1. Current' = Current /\ \A j \in Publishers : Untouched(j) => Untouched(j)'
        BY <1>4 DEF Current, Untouched
    <2>2. \A j \in Publishers :
             (\A i \in 1 .. Len(handled') : handled'[i].n # j) => Untouched(j)' /\ pub' # j
        <3>1. Len(handled) \in 1 .. Len(handled) /\ handled[Len(handled)].n = k
            BY <1>2, <1>3 DEF FreshInv, Current
        <3> QED BY <1>4, <2>1, <3>1 DEF FreshInv
    <2>3. Untouched(Current.n)'
        BY <1>3, <1>6, <2>1 DEF Untouched
    <2> QED BY <1>3, <1>4, <1>5, <2>1, <2>2, <2>3 DEF FreshInv
<1>11. \A j \in Publishers : Cleared(j)' <=> Cleared(j)
    BY <1>1, <1>4, <1>5 DEF Cleared, Past, Users
<1>12. MarkInv'
    BY <1>4, <1>11 DEF MarkInv, Inside
<1>13. DyingInv'
    BY <1>1, <1>4, <1>5 DEF DyingInv, Users
<1>14. RunInv'
    BY <1>1, <1>4, <1>5 DEF RunInv, Users
<1>15. MissedInv'
    BY <1>1, <1>2, <1>4, <1>5 DEF MissedInv, Users
<1>16. FreedIsNotUsed'
    BY <1>4 DEF FreedIsNotUsed
<1> QED BY <1>7, <1>8, <1>9, <1>10, <1>12, <1>13, <1>14, <1>15, <1>16

LEMMA ConnectServerStep ==
    ASSUME NEW u \in Users, NEW ok \in BOOLEAN, PushTypes, PushInv, ConnectServer(u, ok)
    PROVE  PushTypes' /\ PushInv'
<1> DEFINE k == user["handler"].k
<1> USE DEF PushInv
<1>1. PICK to \in {"start", "done"} : UserAt(u, "connect", to)
    BY DEF ConnectServer
<1>2. u = "handler" /\ user["handler"].pc = "connect"
    BY <1>1 DEF UserAt, AloneInv, Users
<1>3. handler.pc = "handle" /\ user["owner"].pc = "idle"
    BY <1>2, Solo DEF AloneInv, Users
<1>4. k \in Publishers /\ k = pub /\ k \notin dead /\ k = Current.n
    BY <1>2 DEF HeldInv, Works, FreshInv, Users
<1>5. Untouched(k)
    BY <1>2, <1>3, <1>4 DEF FreshInv, Untouched
<1>6. UserMoved("handler", to) /\ user' \in [Users -> UserType]
    BY <1>1, <1>2, UserAtMoves DEF UserPcs, Users
<1>7. UNCHANGED <<handler, owner, handled, pub, thread, freed, dead, caught, missed, touched,
                  haunted, twice>>
    BY DEF ConnectServer, msgVars, msgHistory, pushHistory
<1>8. PICK f \in ObjType : /\ obj' = [obj EXCEPT ![k] = f]
                           /\ f.session = "live" /\ f.isConvert = 0
    <2>1. PICK x \in {0, 1} : obj' = [obj EXCEPT ![k] = [isConvert |-> obj[k].isConvert,
              pushs |-> "handle", session |-> "live", streamInit |-> x]]
        BY <1>2 DEF ConnectServer
    <2>2. obj[k].isConvert = 0
        BY <1>5 DEF Untouched
    <2>3. [isConvert |-> obj[k].isConvert, pushs |-> "handle", session |-> "live",
           streamInit |-> x] \in ObjType
        BY <2>2 DEF ObjType
    <2> QED BY <2>1, <2>2, <2>3
<1>9. /\ obj' \in [Publishers -> ObjType] /\ obj'[k] = f
      /\ \A j \in Publishers \ {k} : obj'[j] = obj[j]
    BY <1>4, <1>8, ObjTo
<1>10. PushTypes'
    BY <1>6, <1>7, <1>9 DEF PushTypes
<1>11. AloneInv'
    BY <1>3, <1>6, <1>7 DEF AloneInv, UserMoved, Users
<1>12. HeldInv'
    BY <1>3, <1>4, <1>6, <1>7 DEF HeldInv, Works, UserMoved, Users
<1>13. FreshInv'
    <2>1. \A j \in Publishers : Untouched(j) /\ j # k => Untouched(j)'
        BY <1>7, <1>9 DEF Untouched
    <2>2. Current' = Current
        BY <1>7 DEF Current
    <2>3. \A j \in Publishers :
             (\A i \in 1 .. Len(handled') : handled'[i].n # j) => Untouched(j)' /\ pub' # j
        BY <1>4, <1>7, <2>1 DEF FreshInv
    <2>4. user'["handler"].pc = to /\ thread'[user'["handler"].k].pc = "none"
        BY <1>5, <1>6, <1>7 DEF Untouched, UserMoved
    <2> QED BY <1>3, <1>7, <2>2, <2>3, <2>4 DEF FreshInv
<1>14. \A j \in Publishers : Cleared(j)' => Cleared(j) /\ j # k
    BY <1>1, <1>2, <1>3, <1>5, <1>6, <1>7 DEF Cleared, Past, UserMoved, Users, Untouched
<1>15. MarkInv'
    BY <1>7, <1>9, <1>14 DEF MarkInv, Inside
<1>16. DyingInv'
    <2>1. ASSUME NEW j \in Publishers, obj[j].session = "dying" PROVE thread[j].pc = "destroy"
        BY <2>1, <1>2, <1>3 DEF DyingInv, Users
    <2> QED BY <1>7, <1>8, <1>9, <2>1 DEF DyingInv
<1>17. RunInv'
    <2>1. ASSUME NEW j \in Publishers \ dead, obj[j].isConvert = 0
          PROVE  thread[j].pc \in Quiet \cup Early
        BY <2>1, <1>2, <1>3 DEF RunInv, Users
    <2>2. obj[k].isConvert = 0
        BY <1>5 DEF Untouched
    <2>3. \A j \in Publishers : obj'[j].isConvert = obj[j].isConvert
        BY <1>8, <1>9, <2>2
    <2> QED BY <1>7, <2>1, <2>3 DEF RunInv
<1>18. MissedInv'
    <2>1. \A v \in Users : user'[v].pc \notin {"waitDelete", "free"}
        BY <1>3, <1>6 DEF UserMoved, Users
    <2> QED BY <1>7, <2>1 DEF MissedInv
<1>19. FreedIsNotUsed'
    BY <1>7 DEF FreedIsNotUsed
<1> QED BY <1>10, <1>11, <1>12, <1>13, <1>15, <1>16, <1>17, <1>18, <1>19

LEMMA StartThreadStep ==
    ASSUME NEW u \in Users, PushTypes, PushInv, StartThread(u)
    PROVE  PushTypes' /\ PushInv'
<1> DEFINE k == user["handler"].k
<1> USE DEF PushInv
<1>1. u = "handler" /\ user["handler"].pc = "start"
    BY DEF StartThread, UserAt, AloneInv, Users
<1>2. handler.pc = "handle" /\ user["owner"].pc = "idle"
    BY <1>1, Solo DEF AloneInv, Users
<1>3. k \in Publishers /\ k = pub /\ k \notin dead /\ thread[k].pc = "none"
    BY <1>1 DEF HeldInv, Works, FreshInv, Users
<1>4. UserMoved("handler", "done") /\ user' \in [Users -> UserType]
    BY <1>1, UserAtMoves DEF StartThread, UserPcs, Users
<1>5. UNCHANGED <<handler, owner, handled, pub, obj, freed, dead, caught, missed, touched,
                  haunted, twice>>
    BY DEF StartThread, msgVars, msgHistory, pushHistory
<1>6. thread' \in [Publishers -> ThreadType] /\ Moved(k, "none", "start")
    BY <1>1, <1>3, MovesTo DEF StartThread, ThreadPcs
<1>7. PushTypes'
    BY <1>4, <1>5, <1>6 DEF PushTypes
<1>8. AloneInv'
    BY <1>2, <1>4, <1>5 DEF AloneInv, UserMoved, Users
<1>9. HeldInv'
    BY <1>2, <1>4, <1>5, <1>3 DEF HeldInv, Works, UserMoved, Users
<1>10. FreshInv'
    <2>1. \A j \in Publishers : Untouched(j) /\ j # pub => Untouched(j)'
        BY <1>3, <1>5, <1>6 DEF Untouched, Moved
    <2>2. user'["handler"].pc = "done"
        BY <1>4 DEF UserMoved
    <2> QED BY <1>5, <2>1, <2>2, FreshKept
<1>11. \A j \in Publishers : Cleared(j)' => Cleared(j)
    BY <1>2, <1>4, <1>5 DEF Cleared, Past, UserMoved, Users
<1>12. MarkInv'
    <2>1. ASSUME NEW j \in Publishers, Cleared(j)'
          PROVE  obj'[j].streamInit = 0 /\ (thread'[j].pc \in InsidePcs => j \in caught')
        <3>1. thread'[j].pc \in InsidePcs => thread[j].pc \in InsidePcs
            BY <1>6 DEF Moved, InsidePcs
        <3> QED BY <1>5, <1>11, <2>1, <3>1, InsideIs DEF MarkInv
    <2> QED BY <2>1 DEF MarkInv, Inside, InsidePcs
<1>13. DyingInv'
    BY <1>1, <1>2, <1>3, <1>4, <1>5, <1>6 DEF DyingInv, Moved, UserMoved, Users
<1>14. RunInv'
    <2>1. ASSUME NEW j \in Publishers \ dead, obj[j].isConvert = 0
          PROVE  thread[j].pc \in Quiet \cup Early
        BY <2>1, <1>1, <1>2 DEF RunInv, Users
    <2>2. \A j \in Publishers : thread[j].pc \in Quiet \cup Early => thread'[j].pc \in Quiet \cup Early
        BY <1>6 DEF Moved, Early
    <2> QED BY <1>5, <2>1, <2>2 DEF RunInv
<1>15. MissedInv'
    <2>1. \A v \in Users : user'[v].pc \notin {"waitDelete", "free"}
        BY <1>2, <1>4 DEF UserMoved, Users
    <2>2. \A j \in dead : thread'[j] = thread[j]
        BY <1>3, <1>6 DEF Moved, PushTypes
    <2> QED BY <1>5, <2>1, <2>2 DEF MissedInv
<1>16. FreedIsNotUsed'
    BY <1>5 DEF FreedIsNotUsed
<1> QED BY <1>7, <1>8, <1>9, <1>10, <1>12, <1>13, <1>14, <1>15, <1>16

\* A step into the handle, or out of it, that touches no publisher.
LEMMA EnterStep ==
    ASSUME NEW u \in Users, PushTypes, PushInv, user[u].pc \in {"idle", "done"},
           UNCHANGED <<owner, pub, obj, thread, freed, dead, caught, missed, touched, haunted, twice>>,
           user' \in [Users -> UserType], \A v \in Users \ {u} : user'[v] = user[v],
           user'[u].pc \in {"idle", "unset", "create", "done"},
           user'[u].pc = "unset" => user'[u].k = pub /\ pub \in Publishers,
           user'[u].pc = "create" => pub = 0,
           AloneInv', FreshInv'
    PROVE  PushTypes' /\ PushInv'
<1> USE DEF PushInv
<1>1. PushTypes'
    BY DEF PushTypes
<1>2. HeldInv'
    BY DEF HeldInv, Works
<1>3. \A j \in Publishers : Cleared(j)' => Cleared(j)
    BY DEF Cleared, Past
<1>4. MarkInv'
    BY <1>3 DEF MarkInv, Inside
<1>5. DyingInv'
    BY DEF DyingInv
<1>6. RunInv'
    BY DEF RunInv
<1>7. MissedInv'
    BY DEF MissedInv
<1>8. FreedIsNotUsed'
    BY DEF FreedIsNotUsed
<1> QED BY <1>1, <1>2, <1>3, <1>4, <1>5, <1>6, <1>7, <1>8

LEMMA EntersStep ==
    ASSUME NEW u \in Users, PushTypes, PushInv, Enters(u),
           u = "handler" => handler.pc = "handle",
           u = "owner" => owner = "delete" /\ handler.pc # "handle"
    PROVE  PushTypes' /\ PushInv'
<1> USE DEF PushInv
<1>1. user[u].pc = "idle"
    BY DEF Enters
<1>2. PICK to \in {"unset", "create", "done"} :
         /\ user' = [user EXCEPT ![u] = [pc |-> to, k |-> pub]]
         /\ to = "unset" => pub # 0
         /\ to = "create" => pub = 0 /\ u = "handler"
    BY DEF Enters, Onward, Connects
<1>3. user' \in [Users -> UserType] /\ user'[u] = [pc |-> to, k |-> pub]
      /\ \A v \in Users \ {u} : user'[v] = user[v]
    <2>1. [pc |-> to, k |-> pub] \in UserType
        BY DEF UserType, PushTypes
    <2> QED BY <1>2, <2>1 DEF PushTypes
<1>4. UNCHANGED <<handler, owner, handled, pub, obj, thread, freed, dead, caught, missed, touched,
                  haunted, twice>>
    BY DEF Enters, msgVars, msgHistory, pushHistory
<1>5. AloneInv'
    BY <1>2, <1>3, <1>4 DEF AloneInv, Users
<1>6. FreshInv'
    <2>1. \A j \in Publishers : Untouched(j) => Untouched(j)'
        BY <1>4 DEF Untouched
    <2>2. user'["handler"].pc \notin {"connect", "start"}
        BY <1>1, <1>3 DEF AloneInv, Users
    <2>3. user'["handler"].pc # "done" => user["handler"].pc \notin {"connect", "start", "done"}
        BY <1>1, <1>3 DEF AloneInv, Users
    <2> QED BY <1>4, <2>1, <2>2, <2>3, FreshKept
<1>7. to = "unset" => pub \in Publishers
    BY <1>2, MaxPostsAssumption DEF PushTypes, Publishers
<1> QED BY <1>1, <1>2, <1>3, <1>4, <1>5, <1>6, <1>7, EnterStep

LEMMA RefuseStep ==
    ASSUME PushTypes, PushInv, Refuse
    PROVE  PushTypes' /\ PushInv'
<1> USE DEF PushInv
<1>1. user["handler"].pc = "idle" /\ UserMoved("handler", "done") /\ user' \in [Users -> UserType]
    BY UserAtMoves DEF Refuse, UserPcs, Users
<1>2. UNCHANGED <<handler, owner, handled, pub, obj, thread, freed, dead, caught, missed, touched,
                  haunted, twice>> /\ handler.pc = "handle"
    BY DEF Refuse, msgVars, msgHistory, pushHistory
<1>3. AloneInv'
    BY <1>1, <1>2 DEF AloneInv, UserMoved, Users
<1>4. \A j \in Publishers : Untouched(j) => Untouched(j)'
    BY <1>2 DEF Untouched
<1>5. FreshInv'
    BY <1>1, <1>2, <1>4, FreshKept DEF UserMoved
<1> QED BY <1>1, <1>2, <1>3, <1>5, EnterStep DEF UserMoved, Users

LEMMA HandledStep ==
    ASSUME PushTypes, PushInv, Handled
    PROVE  PushTypes' /\ PushInv'
<1> USE DEF PushInv
<1>1. /\ user["handler"].pc = "done" /\ user' = [user EXCEPT !["handler"] = [pc |-> "idle", k |-> 0]]
      /\ handler'.pc = "erase"
      /\ UNCHANGED <<owner, handled, pub, obj, thread, freed, dead, caught, missed, touched,
                     haunted, twice>>
    BY DEF Handled, Return, msgHistory, pushHistory
<1>2. user' \in [Users -> UserType] /\ user'["handler"] = [pc |-> "idle", k |-> 0]
      /\ user'["owner"] = user["owner"]
    <2>1. [pc |-> "idle", k |-> 0] \in UserType
        BY MaxPostsAssumption DEF UserType
    <2> QED BY <1>1, <2>1 DEF PushTypes, Users
<1>3. AloneInv'
    BY <1>1, <1>2 DEF AloneInv
<1>4. FreshInv'
    <2>1. \A j \in Publishers : Untouched(j) => Untouched(j)'
        BY <1>1 DEF Untouched
    <2> QED BY <1>1, <1>2, <2>1 DEF FreshInv
<1> QED BY <1>1, <1>2, <1>3, <1>4, EnterStep DEF Users

-----------------------------------------------------------------------------
(* The steps of the list and the condition *)

\* Such a step neither begins nor ends the handling of a message.
Between ==
    /\ UNCHANGED <<handled, pushVars>>
    /\ handler' = handler \/ (handler.pc # "handle" /\ handler'.pc # "handle")
    /\ owner' = owner \/ owner' # "open"

LEMMA BetweenStep == ASSUME PushTypes, PushInv, Between PROVE PushTypes' /\ PushInv'
<1> USE DEF PushInv
<1>1. /\ UNCHANGED <<handled, pub, obj, thread, user, freed, dead, caught, missed, touched, haunted, twice>>
      /\ handler'.pc = "handle" <=> handler.pc = "handle"
      /\ owner' = owner \/ owner' # "open"
    BY DEF Between, pushVars, pushHistory
<1>2. PushTypes'
    BY <1>1 DEF PushTypes
<1>3. AloneInv'
    BY <1>1 DEF AloneInv
<1>4. HeldInv'
    BY <1>1 DEF HeldInv, Works
<1>5. FreshInv'
    BY <1>1 DEF FreshInv, Current, Untouched
<1>6. MarkInv'
    BY <1>1 DEF MarkInv, Cleared, Past, Inside
<1>7. DyingInv'
    BY <1>1 DEF DyingInv
<1>8. RunInv'
    BY <1>1 DEF RunInv
<1>9. MissedInv'
    BY <1>1 DEF MissedInv
<1>10. FreedIsNotUsed'
    BY <1>1 DEF FreedIsNotUsed
<1> QED BY <1>2, <1>3, <1>4, <1>5, <1>6, <1>7, <1>8, <1>9, <1>10

LEMMA MessageSteps ==
    ASSUME MsgTypeOK, UNCHANGED pushVars,
           \/ Delete \/ OwnerStep \/ \E p \in Posters : Poster(p) \/ \E kind \in Kinds : Post(p, kind)
           \/ Run \/ Begin \/ Lock \/ While \/ Arm \/ Wake \/ Awake \/ Size \/ Erase
    PROVE  Between
<1>1. ASSUME NEW from, NEW to, HandlerAt(from, to), from # "handle", to # "handle"
      PROVE  handler.pc # "handle" /\ handler'.pc # "handle"
    BY <1>1 DEF HandlerAt
<1>2. ASSUME handler' = Woken
      PROVE  handler' = handler \/ (handler.pc # "handle" /\ handler'.pc # "handle")
    <2>1. handler \in HandlerType
        BY DEF MsgTypeOK
    <2>2. [handler EXCEPT !.pc = "woken"].pc = "woken"
        BY <2>1 DEF HandlerType
    <2> QED BY <1>2, <2>2 DEF Woken, Sleeps
<1>3. CASE Delete \/ OwnerStep
    <2>1. UNCHANGED handled /\ owner' # "open"
        BY <1>3 DEF Delete, OwnerStep, OwnerAt, StopLoop, StopTest, StopSignal, StopWait, msgHistory
    <2>2. handler' = handler \/ handler' = Woken
        BY <1>3 DEF Delete, OwnerStep, StopLoop, StopTest, StopSignal, StopWait
    <2> QED BY <1>2, <2>1, <2>2 DEF Between
<1>4. ASSUME NEW p \in Posters, Poster(p) \/ \E kind \in Kinds : Post(p, kind)
      PROVE  Between
    <2>1. UNCHANGED <<handled, owner>>
        BY <1>4 DEF Poster, Push, TestWait, Signal, Post, msgHistory
    <2>2. handler' = handler \/ handler' = Woken
        BY <1>4 DEF Poster, Push, TestWait, Signal, Post
    <2> QED BY <1>2, <2>1, <2>2 DEF Between
<1>5. CASE Run \/ Begin \/ Lock \/ While \/ Arm \/ Wake \/ Awake \/ Size
    <2>1. UNCHANGED <<handled, owner>>
        BY <1>5 DEF Run, Begin, Lock, While, Arm, Wake, Awake, Size, msgHistory
    <2>2. PICK from \in {"created", "begin", "lock", "while", "arm", "woken", "awake", "size"},
               to \in {"begin", "lock", "while", "arm", "ended", "wait", "awake", "size"} :
             HandlerAt(from, to)
        BY <1>5 DEF Run, Begin, Lock, While, Arm, Wake, Awake, Size
    <2> QED BY <1>1, <2>1, <2>2 DEF Between
<1>6. CASE Erase
    BY <1>6 DEF Erase, Between
<1> QED BY <1>3, <1>4, <1>5, <1>6

LEMMA HandleMessageStep ==
    ASSUME MsgTypeOK, ListInv, NumberInv, PushTypes, PushInv,
           HandleMessage, owner = "open", ~torn, UNCHANGED pushVars
    PROVE  PushTypes' /\ PushInv'
<1> USE DEF PushInv
<1>1. /\ UNCHANGED <<pub, obj, thread, user, freed, dead, caught, missed, touched, haunted, twice>>
      /\ owner' = owner /\ handler.pc = "size" /\ handled' = Append(handled, Head(queue))
      /\ handler'.pc = "handle"
    <2>1. handler'.pc = "handle"
        BY DEF HandleMessage, HandlerAt, MsgTypeOK, HandlerType
    <2> QED BY <2>1 DEF HandleMessage, pushVars, pushHistory
<1>2. user["handler"].pc = "idle" /\ user["owner"].pc = "idle"
    BY <1>1 DEF AloneInv
<1> DEFINE m == Head(queue)
           k == m.n
<1>3. m \in Message /\ \A i \in 1 .. Len(handled) : handled[i].n # k
    BY NextIsNew
<1>4. k \in Publishers
    BY <1>3 DEF Message, Publishers
<1>5. Untouched(k) /\ pub # k
    BY <1>3, <1>4 DEF FreshInv
<1>6. /\ Len(handled') \in 1 .. Len(handled')
      /\ handled'[Len(handled')] = m
      /\ Len(handled) < Len(handled')
      /\ \A i \in 1 .. Len(handled) : i \in 1 .. Len(handled') /\ handled'[i] = handled[i]
    <2>1. handled \in Seq(Message)
        BY DEF MsgTypeOK
    <2>2. Len(handled) \in Nat
        BY <2>1
    <2> QED BY <1>1, <1>3, <2>1, <2>2, Appended
<1>7. Current'.n = k
    BY <1>6 DEF Current
<1>8. \A j \in Publishers : Untouched(j) <=> Untouched(j)'
    BY <1>1 DEF Untouched
<1>9. FreshInv'
    <2>1. ASSUME NEW j \in Publishers, \A i \in 1 .. Len(handled') : handled'[i].n # j
          PROVE  Untouched(j)' /\ pub' # j
        <3>1. \A i \in 1 .. Len(handled) : handled[i].n # j
            BY <1>6, <2>1
        <3> QED BY <1>1, <1>8, <3>1 DEF FreshInv
    <2>2. Untouched(Current.n)'
        BY <1>4, <1>5, <1>7, <1>8 DEF Untouched
    <2>3. user'["handler"].pc = "idle" /\ pub' = pub
        BY <1>1, <1>2
    <2> QED BY <1>4, <1>5, <1>6, <1>7, <2>1, <2>2, <2>3 DEF FreshInv
<1>10. PushTypes'
    BY <1>1 DEF PushTypes
<1>11. AloneInv'
    BY <1>1, <1>2 DEF AloneInv
<1>12. HeldInv'
    BY <1>1 DEF HeldInv, Works
<1>13. MarkInv'
    BY <1>1 DEF MarkInv, Cleared, Past, Inside
<1>14. DyingInv'
    BY <1>1 DEF DyingInv
<1>15. RunInv'
    BY <1>1 DEF RunInv
<1>16. MissedInv'
    BY <1>1 DEF MissedInv
<1>17. FreedIsNotUsed'
    BY <1>1 DEF FreedIsNotUsed
<1> QED BY <1>9, <1>10, <1>11, <1>12, <1>13, <1>14, <1>15, <1>16, <1>17

-----------------------------------------------------------------------------
(* The invariant holds *)

LEMMA PushInvInit == Init => PushInv
<1> SUFFICES ASSUME Init PROVE PushInv
    OBVIOUS
<1>1. /\ pub = 0 /\ freed = {} /\ dead = {} /\ caught = {} /\ missed = {}
      /\ touched = {} /\ haunted = {} /\ twice = {}
      /\ \A u \in Users : user[u].pc = "idle"
      /\ \A k \in Publishers : Untouched(k)
      /\ handler.pc = "created"
    BY DEF Init, MsgInit, Untouched
<1>2. AloneInv /\ HeldInv
    BY <1>1 DEF AloneInv, HeldInv, Works, Users
<1>3. FreshInv
    BY <1>1 DEF FreshInv, Users, Publishers
<1>4. MarkInv
    BY <1>1 DEF MarkInv, Cleared, Past
<1>5. DyingInv /\ RunInv
    BY <1>1 DEF DyingInv, RunInv, Untouched, Quiet
<1>6. MissedInv /\ FreedIsNotUsed
    BY <1>1 DEF MissedInv, FreedIsNotUsed
<1> QED BY <1>2, <1>3, <1>4, <1>5, <1>6 DEF PushInv

LEMMA UserSteps ==
    ASSUME NEW u \in Users, PushTypes, PushInv, User(u)
    PROVE  PushTypes' /\ PushInv'
<1>1. PastAction(u) => PushTypes' /\ PushInv'
    BY PastActions
<1>2. Unset(u) => PushTypes' /\ PushInv'
    BY UnsetStep
<1>3. Free(u) => PushTypes' /\ PushInv'
    BY FreeStep
<1>4. Create(u) => PushTypes' /\ PushInv'
    BY CreateStep
<1>5. ASSUME NEW ok \in BOOLEAN, ConnectServer(u, ok) PROVE PushTypes' /\ PushInv'
    BY <1>5, ConnectServerStep
<1>6. StartThread(u) => PushTypes' /\ PushInv'
    BY StartThreadStep
<1> QED BY <1>1, <1>2, <1>3, <1>4, <1>5, <1>6 DEF User, PastAction

LEMMA PushStep ==
    ASSUME MsgTypeOK, ListInv, NumberInv, PushTypes, PushInv, [Next]_vars
    PROVE  PushTypes' /\ PushInv'
<1>1. Between => PushTypes' /\ PushInv'
    BY BetweenStep
<1>2. CASE UNCHANGED vars
    BY <1>1, <1>2 DEF vars, msgVars, msgHistory, Between
<1>3. CASE Application
    <2>1. UNCHANGED pushVars /\ (Delete \/ \E p \in Posters : \E kind \in Kinds : Post(p, kind))
        BY <1>3 DEF Application
    <2> QED BY <1>1, <2>1, MessageSteps
<1>4. ASSUME NEW p \in Posters, Puts(p) PROVE PushTypes' /\ PushInv'
    <2>1. UNCHANGED pushVars /\ Poster(p)
        BY <1>4 DEF Puts
    <2> QED BY <1>1, <2>1, MessageSteps
<1>5. CASE MessageThread
    <2>1. CASE ~Crashed /\ MsgHandler /\ UNCHANGED pushVars
        <3>1. CASE owner = "open" /\ HandleMessage
            BY <2>1, <3>1, HandleMessageStep DEF Crashed
        <3>2. CASE ~(owner = "open" /\ HandleMessage)
            BY <1>1, <2>1, <3>2, MessageSteps DEF MsgHandler
        <3> QED BY <3>1, <3>2
    <2>2. CASE Handle
        BY <2>2, EntersStep DEF Handle, Users
    <2>3. CASE Refuse
        BY <2>3, RefuseStep
    <2>4. CASE Handled
        BY <2>4, HandledStep
    <2>5. CASE User("handler")
        BY <2>5, UserSteps DEF Users
    <2>6. CASE Cross
        <3>1. /\ UNCHANGED <<handler, owner, handled, pub, obj, thread, user, freed, dead, caught,
                             missed, touched, haunted, twice>>
            BY <2>6 DEF Cross, msgVars, msgHistory
        <3>2. PushTypes'
            BY <3>1 DEF PushTypes
        <3>3. AloneInv' /\ HeldInv' /\ MarkInv' /\ DyingInv' /\ RunInv'
            BY <3>1 DEF PushInv, AloneInv, HeldInv, Works, MarkInv, Cleared, Past, Inside, DyingInv, RunInv
        <3>4. FreshInv' /\ MissedInv' /\ FreedIsNotUsed'
            BY <3>1 DEF PushInv, FreshInv, Current, Untouched, MissedInv, FreedIsNotUsed
        <3> QED BY <3>2, <3>3, <3>4 DEF PushInv
    <2> QED BY <1>5, <2>1, <2>2, <2>3, <2>4, <2>5, <2>6 DEF MessageThread
<1>6. CASE Closing
    <2>1. CASE MsgOwner /\ UNCHANGED pushVars
        BY <1>1, <2>1, MessageSteps DEF MsgOwner, OwnerStep
    <2>2. CASE DeletePush
        BY <2>2, EntersStep DEF DeletePush, Users
    <2>3. CASE User("owner")
        BY <2>3, UserSteps DEF Users
    <2> QED BY <1>6, <2>1, <2>2, <2>3 DEF Closing
<1>7. ASSUME NEW k \in Publishers, Publishes(k) \/ Frame(k) \/ Connected(k)
      PROVE  PushTypes' /\ PushInv'
    BY <1>7, ThreadActions
<1> QED BY <1>2, <1>3, <1>4, <1>5, <1>6, <1>7 DEF Next

\* Whether both were in the handle is a Boolean.
LEMMA CrossedInit == Init => crossed \in BOOLEAN
BY Zenon DEF Init

LEMMA CrossedStep ==
    ASSUME crossed \in BOOLEAN, [Next]_vars
    PROVE  crossed' \in BOOLEAN
<1>1. crossed' = crossed \/ crossed' = TRUE
    <2>1. ASSUME NEW u, User(u) PROVE crossed' = crossed
        BY <2>1, Zenon DEF User, Unset, EndSession, SessionEnded, FreeStream, Clear, StopPublisher, WaitStop,
                DeletePublisher, WaitDelete, Free, Create, ConnectServer, StartThread, pushHistory
    <2>2. ASSUME NEW k, Publishes(k) \/ Frame(k) \/ Connected(k) PROVE crossed' = crossed
        BY <2>2, Zenon DEF Publishes, Frame, Connected, Start, Convert, Look, End, Streams, Check, Sent,
                Fails, StillConnected, NotConnected, Disconnect, Disconnected, Moves, Runs, pushHistory
    <2>3. ASSUME NEW u, Enters(u) PROVE crossed' = crossed
        BY <2>3, Zenon DEF Enters, pushHistory
    <2>4. CASE UNCHANGED pushVars
        BY <2>4, Zenon DEF pushVars, pushHistory
    <2>5. CASE Refuse \/ Handled
        BY <2>5, Zenon DEF Refuse, Handled, pushHistory
    <2>6. CASE Cross
        BY <2>6, Zenon DEF Cross
    <2> QED
        BY <2>1, <2>2, <2>3, <2>4, <2>5, <2>6, Zenon
           DEF Next, vars, Application, Puts, MessageThread, Closing, Handle, DeletePush
<1> QED BY <1>1, Zenon

\* The types of the variables of the message thread and of publishing.
THEOREM PushTypesHold == Spec => []TypeOK
<1> DEFINE I == MsgTypeOK /\ ListInv /\ NumberInv /\ PushTypes /\ PushInv /\ crossed \in BOOLEAN
<1>1. Init => I
    BY RefineInit, TypesInit, ListInit, NumberInit, PushTypesInit, PushInvInit, CrossedInit
<1>2. I /\ [Next]_vars => I'
    <2> SUFFICES ASSUME I, [Next]_vars PROVE I'
        OBVIOUS
    <2>1. MsgTypeOK' /\ ListInv' /\ NumberInv'
        BY RefineStep, TypesStep, ListStep, NumberStep
    <2>2. PushTypes' /\ PushInv'
        BY PushStep
    <2>3. crossed' \in BOOLEAN
        BY CrossedStep
    <2> QED BY <2>1, <2>2, <2>3
<1>3. I => TypeOK
    BY PushTypesAre
<1> QED BY <1>1, <1>2, <1>3, PTL DEF Spec

\* A stream that is freed, and its session, are used only by a publisher's thread that had found
\* the mark set before it was cleared; a publisher that is freed only by a thread that had not
\* yet said that it loops.
THEOREM FreedIsSafe == Spec => []FreedIsNotUsed
<1> DEFINE I == MsgTypeOK /\ ListInv /\ NumberInv /\ PushTypes /\ PushInv
<1>1. Init => I
    BY RefineInit, TypesInit, ListInit, NumberInit, PushTypesInit, PushInvInit
<1>2. I /\ [Next]_vars => I'
    <2> SUFFICES ASSUME I, [Next]_vars PROVE I'
        OBVIOUS
    <2>1. MsgTypeOK' /\ ListInv' /\ NumberInv'
        BY RefineStep, TypesStep, ListStep, NumberStep
    <2>2. PushTypes' /\ PushInv'
        BY PushStep
    <2> QED BY <2>1, <2>2
<1>3. I => FreedIsNotUsed
    BY DEF PushInv
<1> QED BY <1>1, <1>2, <1>3, PTL DEF Spec
=============================================================================
