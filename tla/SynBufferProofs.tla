-------------------------- MODULE SynBufferProofs ---------------------------
(***************************************************************************)
(* Proofs about SynBuffer, for every cache time that is not longer than    *)
(* the window, any limits and any times a stream may have.                 *)
(*                                                                         *)
(* HeldAtMost is inductive only with what a hold leaves behind: HeldInv    *)
(* says that the holds in a row are counted in early, or that the base has *)
(* just moved to the frame that is held, which then is not held again; and *)
(* that nothing is held before the first poll has emptied the buffer.      *)
(* EvenlyPlayed follows from WindowInv: by the base as it is now, the      *)
(* frame played last was played inside the window.                         *)
(***************************************************************************)
EXTENDS SynBuffer, TLAPS

HeldInv ==
    /\ \/ held <= early
       \/ held <= Limit + 1 /\ queue # << >> /\ base = Head(queue).pts /\ start <= now
    /\ ~first => base = 0 /\ held = 0
    /\ pc = "take" => held = 0

WindowInv ==
    \A f \in last :
        \/ moved
        \/ base = 0
        \/ /\ base - Cache <= f.pts - f.at + start
           /\ f.pts - f.at + start <= base - Cache + MaxMinus

OneLast == \A f, g \in last : f = g

Inv == TypeOK /\ HeldInv /\ WindowInv /\ OneLast

Consts ==
    /\ Cache \in Nat /\ MaxMinus \in Nat /\ Cache <= MaxMinus
    /\ Limit \in Nat /\ LostLimit \in Nat

\* The cache time of either kind of frame is not longer than its window.
LEMMA ConstsHold == Consts
BY CacheOK, LimitsOK, BoundsOK DEF Consts, Cache, MaxMinus, Limit

\* The head of a queue with frames, and what is left.
LEMMA HeadIsFrame ==
    ASSUME TypeOK, queue # << >>
    PROVE  /\ Head(queue) \in Frame
           /\ Head(queue).pts \in Int
           /\ Head(queue).key \in BOOLEAN
           /\ Tail(queue) \in Seq(Frame)
           /\ Len(queue) \in Nat
<1>1. queue \in Seq(Frame) BY DEF TypeOK
<1>2. Head(queue) \in Frame /\ Tail(queue) \in Seq(Frame) /\ Len(queue) \in Nat BY <1>1
<1> QED BY <1>2 DEF Frame

\* The invariant holds of a buffer just constructed.
LEMMA InitInv == Init => Inv
<1> SUFFICES ASSUME Init PROVE Inv OBVIOUS
<1> USE ConstsHold DEF Consts
<1>1. TypeOK
  <2>1. queue \in Seq(Frame) BY DEF Init
  <2>2. first \in BOOLEAN /\ moved \in BOOLEAN BY Zenon DEF Init
  <2> QED BY <2>1, <2>2 DEF Init, TypeOK
<1>2. HeldInv BY DEF Init, HeldInv, TypeOK
<1>3. WindowInv BY DEF Init, WindowInv
<1>4. OneLast BY DEF Init, OneLast
<1> QED BY <1>1, <1>2, <1>3, <1>4 DEF Inv

-----------------------------------------------------------------------------
(* What a poll does to the base *)

\* What a poll that judges a frame computes are integers.
LEMMA PollTypes ==
    ASSUME TypeOK, Poll, NEW moves \in BOOLEAN, Update(moves)
    PROVE  /\ base' \in Int /\ start' \in Nat
           /\ Base \in Int /\ Start \in Nat /\ Time \in Int /\ Minus \in Int
           /\ kind' = kind /\ now' = now
           /\ timeState' \in {0, 1}
<1> USE ConstsHold DEF Consts
<1>1. queue # << >> BY DEF Poll
<1>2. Head(queue).pts \in Int BY <1>1, HeadIsFrame
<1>3. base \in Int /\ start \in Nat /\ now \in Nat /\ timeState \in {0, 1} BY DEF TypeOK
<1>4. Base \in Int /\ Start \in Nat BY <1>2, <1>3 DEF Base, Start
<1>5. Time \in Int /\ Minus \in Int BY <1>2, <1>3, <1>4 DEF Time, Minus
<1>6. base' \in Int /\ start' \in Nat BY <1>2, <1>3, <1>4 DEF Update
<1>7. kind' = kind /\ now' = now /\ timeState' \in {0, 1} BY <1>3 DEF Poll
<1> QED BY <1>4, <1>5, <1>6, <1>7

\* A base that has not moved since the frame played last is the one it was.
LEMMA BaseStays ==
    ASSUME ~Sets
    PROVE  Base = base /\ Start = start /\ base # 0
BY DEF Sets, Base, Start

\* A frame that is judged in time, played now, is inside the window of its base.
LEMMA InWindow ==
    ASSUME TypeOK, Poll, 0 <= Minus, Minus <= MaxMinus
    PROVE  /\ Base - Cache <= Head(queue).pts - now + Start
           /\ Head(queue).pts - now + Start <= Base - Cache + MaxMinus
<1> USE ConstsHold DEF Consts
<1>1. queue # << >> BY DEF Poll
<1>2. Head(queue).pts \in Int BY <1>1, HeadIsFrame
<1>3. base \in Int /\ start \in Nat /\ now \in Nat BY DEF TypeOK
<1>4. Base \in Int /\ Start \in Nat BY <1>2, <1>3 DEF Base, Start
<1> QED BY <1>2, <1>3, <1>4 DEF Time, Minus

-----------------------------------------------------------------------------
(* Each part of the invariant is kept *)

\* Every step keeps the types and the bounds of the counters.
LEMMA TypesStep == TypeOK /\ [Next]_vars => TypeOK'
<1> SUFFICES ASSUME TypeOK, [Next]_vars PROVE TypeOK' OBVIOUS
<1> USE ConstsHold DEF Consts
<1>t. /\ kind \in {"audio", "video"} /\ queue \in Seq(Frame) /\ pts \in Int /\ now \in Nat
      /\ base \in Int /\ start \in Nat /\ timeState \in {0, 1}
      /\ late \in 0 .. Limit /\ early \in 0 .. Limit /\ lost \in 0 .. LostLimit + 1
      /\ pc \in {"poll", "take"} /\ held \in Nat
      /\ last \in SUBSET [pts : Int, at : Nat, fresh : BOOLEAN]
  BY DEF TypeOK
<1>b. first \in BOOLEAN /\ moved \in BOOLEAN BY Zenon DEF TypeOK
<1>l. kind' = kind => Limit' = Limit BY DEF Limit
<1>s. Sets \in BOOLEAN BY Zenon DEF Sets
\* A poll that moves the base and takes frames, or none, from the queue.
<1>p. ASSUME Poll, NEW moves \in BOOLEAN, Update(moves)
      PROVE  /\ kind' \in {"audio", "video"} /\ Limit' = Limit /\ pts' \in Int /\ now' \in Nat
             /\ base' \in Int /\ start' \in Nat /\ timeState' \in {0, 1}
             /\ pc' \in {"poll", "take"} /\ queue # << >> /\ Tail(queue) \in Seq(Frame)
             /\ Head(queue).pts \in Int /\ Time \in Int /\ Len(queue) \in Nat
  <2>1. queue # << >> BY <1>p DEF Poll
  <2>2. kind' = kind /\ pts' = pts /\ now' = now /\ pc' = pc BY <1>p DEF Poll
  <2>3. Head(queue).pts \in Int /\ Tail(queue) \in Seq(Frame) /\ Len(queue) \in Nat
    BY <2>1, HeadIsFrame
  <2>4. base' \in Int /\ start' \in Nat /\ timeState' \in {0, 1} /\ Time \in Int
    BY <1>p, PollTypes
  <2> QED BY <1>t, <1>l, <2>1, <2>2, <2>3, <2>4
<1>f. ASSUME Poll PROVE first' \in BOOLEAN
  BY <1>f, <1>b, Zenon DEF Poll
<1>m. \A moves \in BOOLEAN : (moved \/ moves \/ Sets) \in BOOLEAN BY <1>b, Zenon
<1>1. ASSUME NEW step \in Steps \cup {-Turn}, NEW key \in BOOLEAN, Put(step, key) PROVE TypeOK'
  <2>1. pts' \in Int BY <1>1, <1>t, BoundsOK DEF Put
  <2>2. [pts |-> pts', key |-> key] \in Frame BY <1>1, <2>1, Zenon DEF Frame
  <2>3. queue' \in Seq(Frame) BY <1>1, <1>t, <2>2 DEF Put
  <2>4. first' \in BOOLEAN /\ moved' \in BOOLEAN BY <1>1, <1>b, Zenon DEF Put, history
  <2> QED BY <1>1, <1>t, <1>l, <2>1, <2>3, <2>4 DEF Put, TypeOK, clock, counts, history
<1>2. CASE Tick
  <2>1. first' \in BOOLEAN /\ moved' \in BOOLEAN BY <1>2, <1>b, Zenon DEF Tick, history
  <2> QED BY <1>2, <1>t, <1>l, <2>1 DEF Tick, TypeOK, clock, counts, history
<1>3. CASE FirstPoll
  <2>1. first' \in BOOLEAN /\ moved' \in BOOLEAN BY <1>3, <1>b, Zenon DEF FirstPoll, history
  <2> QED BY <1>3, <1>t, <1>l, <2>1 DEF FirstPoll, TypeOK, clock, counts, history
<1>u. ASSUME NEW f \in Frame
      PROVE  PlayedUnjudged(f) \in SUBSET [pts : Int, at : Nat, fresh : BOOLEAN]
  BY <1>t DEF PlayedUnjudged, Frame
<1>4. CASE TakeFirst
  <2>1. first' \in BOOLEAN /\ moved' \in BOOLEAN BY <1>4, <1>b, Zenon DEF TakeFirst
  <2>2. queue' \in Seq(Frame) BY <1>4, <1>t DEF TakeFirst
  <2>3. last' \in SUBSET [pts : Int, at : Nat, fresh : BOOLEAN]
    <3>1. CASE queue = << >> BY <1>4, <1>t, <3>1 DEF TakeFirst
    <3>2. CASE queue # << >>
      <4>1. Head(queue) \in Frame BY <3>2, HeadIsFrame
      <4> QED BY <1>4, <1>u, <3>2, <4>1 DEF TakeFirst
    <3> QED BY <3>1, <3>2
  <2> QED BY <1>4, <1>t, <1>l, <2>1, <2>2, <2>3 DEF TakeFirst, TypeOK, clock, counts
<1>5. CASE Drop
  <2> DEFINE moves == late >= Limit
  <2>1. Poll /\ Update(moves) /\ moves \in BOOLEAN BY <1>5 DEF Drop
  <2>2. moved' \in BOOLEAN BY <1>5, <1>b, <1>s, Zenon DEF Drop
  <2>3. late' \in 0 .. Limit BY <1>5, <1>t DEF Drop
  <2>4. queue' = Tail(queue) /\ early' = early /\ lost' = lost /\ held' = 0 /\ last' = last
    BY <1>5 DEF Drop
  <2>5. first' \in BOOLEAN BY <2>1, <1>f
  <2> HIDE DEF moves
  <2> QED BY <1>t, <1>p, <2>1, <2>2, <2>3, <2>4, <2>5 DEF TypeOK
<1>6. CASE Hold
  <2> DEFINE moves == early >= Limit
  <2>1. Poll /\ Update(moves) /\ moves \in BOOLEAN BY <1>6 DEF Hold
  <2>2. moved' \in BOOLEAN BY <1>6, <1>b, <1>s, Zenon DEF Hold
  <2>3. early' \in 0 .. Limit BY <1>6, <1>t DEF Hold
  <2>4. queue' = queue /\ late' = late /\ lost' = lost /\ held' = held + 1 /\ last' = last
    BY <1>6 DEF Hold
  <2>5. first' \in BOOLEAN BY <2>1, <1>f
  <2> HIDE DEF moves
  <2> QED BY <1>t, <1>p, <2>1, <2>2, <2>3, <2>4, <2>5 DEF TypeOK
<1>q. ASSUME Head(queue).pts \in Int
      PROVE  Played(Head(queue)) \in SUBSET [pts : Int, at : Nat, fresh : BOOLEAN]
  <2>1. (moved \/ Sets) \in BOOLEAN BY <1>b, Zenon
  <2>2. [pts |-> Head(queue).pts, at |-> now, fresh |-> moved \/ Sets]
          \in [pts : Int, at : Nat, fresh : BOOLEAN]
    BY <1>q, <1>t, <2>1, Zenon
  <2> QED BY <2>2, Zenon DEF Played
<1>7. CASE PlayVideo
  <2> DEFINE moves == Head(queue).key
  <2>1. Poll /\ Update(moves) BY <1>7 DEF PlayVideo, InTime
  <2>2. moves \in BOOLEAN BY <2>1, HeadIsFrame DEF Poll
  <2>3. /\ queue' = Tail(queue) /\ late' = late /\ early' = early /\ lost' = lost /\ held' = 0
        /\ last' = Played(Head(queue))
    BY <1>7 DEF PlayVideo, counts
  <2>4. first' \in BOOLEAN BY <2>1, <1>f
  <2>5. moved' \in BOOLEAN BY <1>7, Zenon DEF PlayVideo
  <2> HIDE DEF moves
  <2>6. last' \in SUBSET [pts : Int, at : Nat, fresh : BOOLEAN] BY <2>1, <2>2, <2>3, <1>p, <1>q
  <2> QED BY <1>t, <1>p, <2>1, <2>2, <2>3, <2>4, <2>5, <2>6 DEF TypeOK
<1>8. CASE PlayAudio
  <2> DEFINE moves == Time > UpdateInterval
  <2>1. Poll /\ Update(moves) /\ moves \in BOOLEAN BY <1>8 DEF PlayAudio, InTime
  <2>2. /\ queue' = Tail(queue) /\ late' = late /\ early' = early /\ held' = 0
        /\ last' = Played(Head(queue))
    BY <1>8 DEF PlayAudio
  <2>3. lost' \in 0 .. LostLimit + 1 BY <1>8, <1>t DEF PlayAudio, Discards
  <2>4. first' \in BOOLEAN BY <2>1, <1>f
  <2>5. moved' \in BOOLEAN BY <1>8, Zenon DEF PlayAudio
  <2> HIDE DEF moves
  <2>6. last' \in SUBSET [pts : Int, at : Nat, fresh : BOOLEAN] BY <2>1, <2>2, <1>p, <1>q
  <2> QED BY <1>t, <1>p, <2>1, <2>2, <2>3, <2>4, <2>5, <2>6 DEF TypeOK
<1>9. CASE Discard
  <2> DEFINE rest == SubSeq(queue, 3, Len(queue))
  <2>1. Poll /\ Update(TRUE) BY <1>9 DEF Discard, InTime
  <2>2. rest \in Seq(Frame) BY <1>t
  <2>3. queue' = IF rest = << >> THEN << >> ELSE Tail(rest) BY <1>9 DEF Discard
  <2>4. /\ late' = late /\ early' = early /\ lost' \in {0, 1} /\ held' = 0
        /\ last' = IF rest = << >> THEN last ELSE PlayedUnjudged(Head(rest))
    BY <1>9 DEF Discard
  <2>5. first' \in BOOLEAN BY <2>1, <1>f
  <2>6. moved' \in BOOLEAN BY <1>9, Zenon DEF Discard
  <2> HIDE DEF rest
  <2>7. queue' \in Seq(Frame) BY <2>2, <2>3
  <2>8. late' \in 0 .. Limit /\ early' \in 0 .. Limit /\ lost' \in 0 .. LostLimit + 1
    BY <1>t, <2>4
  <2>9. last' \in SUBSET [pts : Int, at : Nat, fresh : BOOLEAN]
    <3>1. rest # << >> => Head(rest) \in Frame BY <2>2
    <3> QED BY <1>t, <1>u, <2>4, <3>1
  <2> QED BY <1>t, <1>p, <2>1, <2>4, <2>5, <2>6, <2>7, <2>8, <2>9 DEF TypeOK
<1>10. CASE Reset
  <2>1. first' \in BOOLEAN /\ moved' \in BOOLEAN BY <1>10, Zenon DEF Reset
  <2> QED BY <1>10, <1>t, <1>l, <2>1 DEF Reset, TypeOK
<1>11. CASE UNCHANGED vars
  <2>1. first' \in BOOLEAN /\ moved' \in BOOLEAN BY <1>11, <1>b, Zenon DEF vars, history
  <2> QED BY <1>11, <1>t, <1>l, <2>1 DEF vars, TypeOK, clock, counts, history
<1> QED
  BY <1>1, <1>2, <1>3, <1>4, <1>5, <1>6, <1>7, <1>8, <1>9, <1>10, <1>11 DEF Next

\* Every step keeps the count of holds that early, or the base, bounds.
LEMMA HeldStep == TypeOK /\ HeldInv /\ [Next]_vars => HeldInv'
<1> SUFFICES ASSUME TypeOK, HeldInv, [Next]_vars PROVE HeldInv' OBVIOUS
<1> USE ConstsHold DEF Consts
<1>t. /\ queue \in Seq(Frame) /\ now \in Nat /\ base \in Int /\ start \in Nat
      /\ early \in 0 .. Limit /\ held \in Nat
  BY DEF TypeOK
<1>e. TypeOK' BY TypesStep
<1>l. kind' = kind => Limit' = Limit BY DEF Limit
\* Whatever plays, drops or resets starts the count again.
<1>z. ASSUME held' = 0, early' \in Nat, ~first' => base' = 0 PROVE HeldInv'
  BY <1>z DEF HeldInv
\* A poll finds the buffer emptied once.
<1>p. ASSUME Poll, held' = 0, early' \in Nat PROVE HeldInv'
  <2>1. first' BY <1>p DEF Poll, HeldInv
  <2> QED BY <1>p, <1>z, <2>1
<1>1. ASSUME NEW step \in Steps \cup {-Turn}, NEW key \in BOOLEAN, Put(step, key) PROVE HeldInv'
  <2>1. /\ kind' = kind /\ now' = now /\ base' = base /\ start' = start /\ first' = first
        /\ early' = early /\ held' = held /\ pc' = pc
    BY <1>1 DEF Put, clock, counts, history
  <2>2. pts' \in Int BY <1>1, BoundsOK DEF Put, TypeOK
  <2>3. [pts |-> pts', key |-> key] \in Frame BY <1>1, <2>2, Zenon DEF Frame
  <2>4. queue # << >> => queue' # << >> /\ Head(queue') = Head(queue)
    BY <1>1, <1>t, <2>3 DEF Put
  <2> QED BY <1>l, <2>1, <2>4 DEF HeldInv
<1>2. CASE Tick
  BY <1>2, <1>t, <1>l DEF Tick, HeldInv, clock, counts, history
<1>3. CASE FirstPoll
  <2>1. ~first /\ first' /\ held' = held /\ early' = early
    BY <1>3 DEF FirstPoll, counts, history
  <2>2. held = 0 BY <2>1 DEF HeldInv
  <2> QED BY <2>1, <2>2, <1>t, <1>z
<1>4. CASE TakeFirst
  <2>1. held = 0 BY <1>4 DEF TakeFirst, HeldInv
  <2>2. held' = held /\ early' = early /\ first' = first /\ base' = base
    BY <1>4 DEF TakeFirst, clock, counts
  <2>3. ~first' => base' = 0 BY <2>2 DEF HeldInv
  <2> QED BY <2>1, <2>2, <2>3, <1>t, <1>z
<1>5. CASE Drop
  BY <1>5, <1>p, <1>t DEF Drop
<1>6. CASE Hold
  <2> DEFINE moves == early >= Limit
  <2>1. /\ Poll /\ Minus > MaxMinus /\ Update(moves)
        /\ early' = (IF moves THEN 0 ELSE early + 1) /\ held' = held + 1 /\ queue' = queue
    BY <1>6 DEF Hold
  <2>2. /\ queue # << >> /\ kind' = kind /\ now' = now /\ first' = first /\ pc' = pc /\ pc = "poll"
    BY <2>1 DEF Poll
  <2>3. first' BY <2>1, <2>2 DEF Poll, HeldInv
  <2>4. Head(queue).pts \in Int BY <2>2, HeadIsFrame
  \* The base is not the frame's own: that one would be in the window.
  <2>5. held <= early
    <3> SUFFICES ASSUME base = Head(queue).pts, start <= now PROVE FALSE BY DEF HeldInv
    <3>1. Base = Head(queue).pts /\ Start \in Nat /\ Start <= now BY <1>t DEF Base, Start
    <3> QED BY <1>t, <2>1, <2>4, <3>1 DEF Minus, Time
  <2>6. CASE moves
    <3>1. base' = Head(queue).pts /\ start' = now BY <2>1, <2>6 DEF Update
    <3> QED BY <1>t, <1>l, <2>1, <2>2, <2>3, <2>5, <2>6, <3>1 DEF HeldInv
  <2>7. CASE ~moves
    BY <1>t, <1>l, <2>1, <2>2, <2>3, <2>5, <2>7 DEF HeldInv
  <2> QED BY <2>6, <2>7
<1>7. CASE PlayVideo
  BY <1>7, <1>p, <1>t DEF PlayVideo, InTime, counts
<1>8. CASE PlayAudio
  BY <1>8, <1>p, <1>t DEF PlayAudio, InTime
<1>9. CASE Discard
  BY <1>9, <1>p, <1>t DEF Discard, InTime
<1>10. CASE Reset
  BY <1>10, <1>z DEF Reset
<1>11. CASE UNCHANGED vars
  BY <1>11, <1>l DEF vars, HeldInv, clock, counts, history
<1> QED
  BY <1>1, <1>2, <1>3, <1>4, <1>5, <1>6, <1>7, <1>8, <1>9, <1>10, <1>11 DEF Next

\* Every step keeps the frame played last inside the window of the base.
LEMMA WindowStep == TypeOK /\ WindowInv /\ [Next]_vars => WindowInv'
<1> SUFFICES ASSUME TypeOK, WindowInv, [Next]_vars PROVE WindowInv' OBVIOUS
<1> USE ConstsHold DEF Consts
<1>t. /\ base \in Int /\ start \in Nat /\ now \in Nat
      /\ \A f \in last : f.pts \in Int /\ f.at \in Nat
  BY DEF TypeOK
<1>k. kind' = kind => Cache' = Cache /\ MaxMinus' = MaxMinus BY DEF Cache, MaxMinus
\* A step that leaves the base, or notes that it moved.
<1>s. ASSUME last' = last, kind' = kind,
             moved' \/ (moved' = moved /\ base' = base /\ start' = start)
      PROVE  WindowInv'
  BY <1>s, <1>k DEF WindowInv
\* A poll that drops or holds its frame.
<1>d. ASSUME Poll, NEW moves \in BOOLEAN, Update(moves), last' = last,
             moved' = (moved \/ moves \/ Sets)
      PROVE  WindowInv'
  <2>1. kind' = kind BY <1>d DEF Poll
  <2>2. CASE moved'
    BY <1>d, <2>1, <2>2, <1>s
  <2>3. CASE ~moved'
    <3>1. ~moves /\ ~Sets /\ ~moved BY <1>d, <2>3, Zenon
    <3>2. base' = base /\ start' = start BY <1>d, <3>1, BaseStays DEF Update
    <3> QED BY <1>d, <1>k, <2>1, <3>1, <3>2 DEF WindowInv
  <2> QED BY <2>2, <2>3
\* A poll that plays its frame.
<1>p. ASSUME InTime, NEW moves \in BOOLEAN, Update(moves), last' = Played(Head(queue))
      PROVE  WindowInv'
  <2>1. Poll /\ 0 <= Minus /\ Minus <= MaxMinus BY <1>p DEF InTime
  <2>2. kind' = kind /\ queue # << >> BY <2>1 DEF Poll
  <2>3. Head(queue).pts \in Int BY <2>2, HeadIsFrame
  <2>4. \A f \in last' : f.pts = Head(queue).pts /\ f.at = now BY <1>p DEF Played
  <2>5. CASE moves
    <3>1. base' = Head(queue).pts /\ start' = now BY <1>p, <2>5 DEF Update
    <3> QED BY <1>t, <1>k, <2>2, <2>3, <2>4, <3>1 DEF WindowInv
  <2>6. CASE ~moves
    <3>1. base' = Base /\ start' = Start BY <1>p, <2>6 DEF Update
    <3>2. /\ Base - Cache <= Head(queue).pts - now + Start
          /\ Head(queue).pts - now + Start <= Base - Cache + MaxMinus
      BY <2>1, InWindow
    <3> QED BY <1>k, <2>2, <2>4, <3>1, <3>2 DEF WindowInv
  <2> QED BY <2>5, <2>6
<1>1. ASSUME NEW step \in Steps \cup {-Turn}, NEW key \in BOOLEAN, Put(step, key) PROVE WindowInv'
  BY <1>1, <1>s DEF Put, clock, history
<1>2. CASE Tick
  BY <1>2, <1>s DEF Tick, clock, history
<1>3. CASE FirstPoll
  BY <1>3, <1>s DEF FirstPoll, clock, history
<1>m. ASSUME moved' PROVE WindowInv'
  BY <1>m DEF WindowInv
<1>4. CASE TakeFirst
  BY <1>4, <1>m, <1>s DEF TakeFirst, clock
<1>5. CASE Drop
  <2> DEFINE moves == late >= Limit
  <2>1. Poll /\ Update(moves) /\ last' = last /\ moves \in BOOLEAN BY <1>5 DEF Drop
  <2>2. moved' = (moved \/ moves \/ Sets) BY <1>5, Zenon DEF Drop
  <2> QED BY <2>1, <2>2, <1>d
<1>6. CASE Hold
  <2> DEFINE moves == early >= Limit
  <2>1. Poll /\ Update(moves) /\ last' = last /\ moves \in BOOLEAN BY <1>6 DEF Hold
  <2>2. moved' = (moved \/ moves \/ Sets) BY <1>6, Zenon DEF Hold
  <2> QED BY <2>1, <2>2, <1>d
<1>7. CASE PlayVideo
  <2>1. InTime /\ Update(Head(queue).key) /\ last' = Played(Head(queue)) BY <1>7 DEF PlayVideo
  <2>2. Head(queue).key \in BOOLEAN BY <2>1, HeadIsFrame DEF InTime, Poll
  <2> QED BY <2>1, <2>2, <1>p
<1>8. CASE PlayAudio
  <2>1. InTime /\ Update(Time > UpdateInterval) /\ last' = Played(Head(queue))
    BY <1>8 DEF PlayAudio
  <2>2. (Time > UpdateInterval) \in BOOLEAN OBVIOUS
  <2> QED BY <2>1, <2>2, <1>p
<1>9. CASE Discard
  BY <1>9, <1>m DEF Discard
<1>10. CASE Reset
  BY <1>10, <1>s DEF Reset
<1>11. CASE UNCHANGED vars
  BY <1>11, <1>s DEF vars, clock, history
<1> QED
  BY <1>1, <1>2, <1>3, <1>4, <1>5, <1>6, <1>7, <1>8, <1>9, <1>10, <1>11 DEF Next

\* A frame played starts a new set of one, or the step plays nothing.
LEMMA Plays ==
    ASSUME [Next]_vars
    PROVE  \/ last' = last
           \/ InTime /\ last' = Played(Head(queue))
           \/ \E f : last' = PlayedUnjudged(f)
<1>1. CASE TakeFirst \/ Discard
  BY <1>1 DEF TakeFirst, Discard
<1>2. CASE ~(TakeFirst \/ Discard)
  BY <1>2 DEF Next, Put, Tick, FirstPoll, Drop, Hold, PlayVideo, PlayAudio, Reset, vars, history
<1> QED BY <1>1, <1>2

-----------------------------------------------------------------------------
(* The theorems *)

\* The inductive invariant holds in every state of YangSynBuffer.
THEOREM InvHolds == Spec => []Inv
<1>1. Inv /\ [Next]_vars => OneLast' 
  BY Plays DEF Inv, OneLast, Played, PlayedUnjudged
<1>2. Inv /\ [Next]_vars => Inv' BY TypesStep, HeldStep, WindowStep, <1>1 DEF Inv
<1> QED BY InitInv, <1>2, PTL DEF Spec

\* The types, and the bounds of the counters.
THEOREM TypesHold == Spec => []TypeOK
<1>1. Inv => TypeOK BY DEF Inv
<1> QED BY InvHolds, <1>1, PTL

\* No frame is held by more polls in a row than the limit and one.
THEOREM HoldsAreBounded == Spec => []HeldAtMost
<1>1. Inv => HeldAtMost
  <2> SUFFICES ASSUME Inv PROVE HeldAtMost OBVIOUS
  <2> USE ConstsHold DEF Consts
  <2> QED BY DEF Inv, TypeOK, HeldInv, HeldAtMost
<1> QED BY InvHolds, <1>1, PTL

\* Two frames played by one base are as far apart as their times, give or take the
\* window.
THEOREM PlayedEvenly == Spec => EvenlyPlayed
<1> DEFINE Even(a, b) ==
      (b # a /\ ~b.fresh) =>
          LET drift == (b.at - a.at) - (b.pts - a.pts)
          IN -MaxMinus <= drift /\ drift <= MaxMinus
<1>1. ASSUME Inv, [Next]_vars, NEW a \in last, NEW b \in last' PROVE Even(a, b)
  <2> SUFFICES ASSUME b # a, ~b.fresh
               PROVE  LET drift == (b.at - a.at) - (b.pts - a.pts)
                      IN -MaxMinus <= drift /\ drift <= MaxMinus
    OBVIOUS
  <2> USE ConstsHold DEF Consts
  <2>1. TypeOK /\ WindowInv BY <1>1 DEF Inv
  <2>2. /\ base \in Int /\ start \in Nat /\ now \in Nat /\ a.pts \in Int /\ a.at \in Nat
    BY <2>1 DEF TypeOK
  <2>3. last' # last => InTime /\ last' = Played(Head(queue))
    <3>1. \A f : last' # PlayedUnjudged(f) BY DEF PlayedUnjudged
    <3> QED BY <1>1, <3>1, Plays
  <2>4. CASE last' = last
    BY <1>1, <2>4 DEF Inv, OneLast
  <2>5. CASE last' # last
    <3>1. b = [pts |-> Head(queue).pts, at |-> now, fresh |-> moved \/ Sets]
      BY <2>3, <2>5 DEF Played
    <3>2. ~moved /\ ~Sets BY <3>1, Zenon
    <3>3. b.pts = Head(queue).pts /\ b.at = now BY <3>1
    <3>4. Poll /\ 0 <= Minus /\ Minus <= MaxMinus BY <2>3, <2>5 DEF InTime
    <3>5. Head(queue).pts \in Int BY <2>1, <3>4, HeadIsFrame DEF Poll
    <3>6. Base = base /\ Start = start /\ base # 0 BY <3>2, BaseStays
    <3>7. /\ base - Cache <= b.pts - b.at + start
          /\ b.pts - b.at + start <= base - Cache + MaxMinus
      BY <2>1, <3>3, <3>4, <3>6, InWindow
    <3>8. /\ base - Cache <= a.pts - a.at + start
          /\ a.pts - a.at + start <= base - Cache + MaxMinus
      BY <2>1, <3>2, <3>6 DEF WindowInv
    <3> QED BY <2>2, <3>3, <3>5, <3>7, <3>8
  <2> QED BY <2>4, <2>5
<1>2. Inv /\ [Next]_vars => [\A a \in last, b \in last' : Even(a, b)]_vars BY <1>1
<1> QED BY InvHolds, <1>2, PTL DEF Spec, EvenlyPlayed
=============================================================================
