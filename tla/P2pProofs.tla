----------------------------- MODULE P2pProofs ------------------------------
(***************************************************************************)
(* Proofs about P2p, for any set of callers and any number of calls at     *)
(* once: the types, one publisher as long as calls do not overlap, no use  *)
(* of a freed peer, and nobody freed who has not left.                     *)
(***************************************************************************)
EXTENDS P2p, SequenceTheorems, WellFoundedInduction, TLAPS

-----------------------------------------------------------------------------
(* The inductive invariant *)

\* Where an actor is when it has added its peer, and when it needs m_pub.
Added  == {"push", "initRtc2", "answer", "done"}
HasPub == {"addPeer", "startRtc"} \cup Added

\* What a thread has at hand is there: m_pub once it has come to addPeer, the publisher
\* it adds its peer to, the peer and its uid, the publisher of a publishing thread and
\* the peer it waits for.
Placed(a) ==
    /\ act[a].pc \in HasPub => pub \in Actors
    /\ act[a].pc \in {"startRtc", "push"} => act[a].rtc \in Actors
    /\ act[a].pc \in Added => /\ peer[a].rtc \in Actors
                              /\ peer[a].uid \in Nat
                              /\ peer[a].udp # "none"
    /\ act[a].pc \notin Added => /\ peer[a].rtc = None
                                 /\ peer[a].uid = -1
                                 /\ peer[a].udp = "none"
    /\ thread[a].pc # "none" => thread[a].rtc \in Actors /\ act[a].pc \in {"answer", "done"}
    /\ thread[a].pc \in {"publish", "join"} => thread[a].at > 0
    /\ thread[a].pc = "join" => thread[a].peer \in Actors
PlaceInv ==
    /\ isInitRtc => pub \in Actors
    /\ \A a \in Actors : Placed(a)

\* A connection has been accepted before its thread runs, so the thread has read one.
ConnInv ==
    \A c \in Conns : /\ act[c].pc # "none" => connFd \in Conns
                     /\ act[c].pc \notin {"none", "new"} => act[c].conn \in Conns

\* As long as no two calls overlapped: one actor at most is busy; it makes the publisher
\* when there is none; the uid it has read is still the next one and above all others; and
\* who has started a publisher's thread has set m_isInitRtc, or is about to.
AloneInv ==
    ~overlapped =>
        /\ \A a, b \in Actors : a \in Busy /\ b \in Busy => a = b
        /\ \A a \in Actors :
              /\ act[a].pc = "newRtc" => pub = None
              /\ act[a].pc = "startRtc" => act[a].rtc = pub /\ act[a].seq = rtc[pub].uidSeq
              /\ act[a].pc \in Added =>
                    peer[a].rtc = pub /\ peer[a].uid < rtc[pub].uidSeq
              /\ thread[a].pc # "none" => isInitRtc \/ act[a].pc = "answer"
        /\ ~TwoThreads
        /\ ~SameUid

\* What is on a publisher's list is its peer, and so is what an actor adds to it.
ListedInv ==
    /\ \A p \in Actors : \A i \in 1 .. Len(rtc[p].pushs) : peer[rtc[p].pushs[i]].rtc = p
    /\ \A a \in Actors :
          act[a].pc = "push" =>
              /\ peer[a].rtc = act[a].rtc
              /\ \A i \in 1 .. Len(act[a].list) : peer[act[a].list[i]].rtc = act[a].rtc

\* Every uid on a publisher's list of peers to remove is the uid of one of its peers that
\* has left; the uid the application keeps is that of the peer it has called.
LeftInv ==
    /\ \A p \in Actors : \A i \in 1 .. Len(rtc[p].removeList) :
          \E h \in left : peer[h].rtc = p /\ peer[h].uid = rtc[p].removeList[i]
    /\ \A p \in Actors :
          rtc[p].clientUid # -1 =>
              \/ act[App].pc = "failed"
              \/ peer[App].rtc = p /\ peer[App].uid = rtc[p].clientUid
    /\ \A b \in Actors : thread[b].pc = "join" => thread[b].peer \in left \/ SameUid
    /\ OnlyTheLeftAreFreed

\* As long as no addition of a peer was torn by a removal and one thread publishes: a peer
\* is in one place of one list, from its addition until it is freed, and the place at which
\* the publisher's thread waits for a peer is that peer's.
CleanInv ==
    ~torn /\ ~TwoThreads =>
        /\ \A p, q \in Actors :
              \A i \in 1 .. Len(rtc[p].pushs), j \in 1 .. Len(rtc[q].pushs) :
                  rtc[p].pushs[i] = rtc[q].pushs[j] => p = q /\ i = j
        /\ \A p \in Actors : \A i \in 1 .. Len(rtc[p].pushs) :
              /\ rtc[p].pushs[i] \notin freed
              /\ act[rtc[p].pushs[i]].pc \in Added \ {"push"}
        /\ \A h \in freed : act[h].pc \in Added \ {"push"}
        /\ \A b \in Actors :
              thread[b].pc = "join" =>
                  /\ thread[b].at <= Len(rtc[thread[b].rtc].pushs)
                  /\ rtc[thread[b].rtc].pushs[thread[b].at] = thread[b].peer
        /\ touched = {}

IInv ==
    /\ TypeOK
    /\ PlaceInv
    /\ ConnInv
    /\ AloneInv
    /\ ListedInv
    /\ LeftInv
    /\ CleanInv

-----------------------------------------------------------------------------
(* Types *)

ActType == [pc : {"none", "new", "recv", "initRtc", "newRtc", "addPeer", "startRtc", "push",
                  "initRtc2", "answer", "done", "failed"},
            conn : Conns \cup {None}, rtc : Actors \cup {None},
            seq : Nat, list : Seq(Actors)]
RtcType == [uidSeq : Nat, pushs : Seq(Actors), removeList : Seq(Nat),
            mutex : Actors \cup {None}, isStart : {0, 1}, clientUid : Nat \cup {-1}]
PeerType == [rtc : Actors \cup {None}, uid : Nat \cup {-1}, state : {0, 1}, isStop : {0, 1},
             udp : {"none", "run", "alert", "stop", "ended"}]
ThreadType == [pc : {"none", "run", "loop", "publish", "remove", "join", "stuck"},
               rtc : Actors \cup {None}, at : Nat, peer : Actors \cup {None}]
ServerTypes ==
    /\ connFd \in Conns \cup {None}
    /\ pub \in Actors \cup {None}
    /\ isInitRtc \in BOOLEAN
    /\ freed \in SUBSET Actors
    /\ answered \in SUBSET Conns
    /\ left \in SUBSET Actors
    /\ touched \in SUBSET Actors
    /\ overlapped \in BOOLEAN
    /\ torn \in BOOLEAN

Types ==
    /\ ServerTypes
    /\ act \in [Actors -> ActType]
    /\ rtc \in [Actors -> RtcType]
    /\ peer \in [Actors -> PeerType]
    /\ thread \in [Actors -> ThreadType]

LEMMA TypesAre == TypeOK <=> Types
BY DEF TypeOK, Types, ServerTypes, ActType, RtcType, PeerType, ThreadType

LEMMA AppIsActor == App \in Actors /\ None \notin Actors
BY NoneIsNoActor DEF Actors

\* A set of numbers that is not empty has a least one.
LEMMA Least ==
    ASSUME NEW S \in SUBSET Nat, S # {}
    PROVE  \E x \in S : \A y \in S : x <= y
<1> DEFINE R == {ss \in Nat \X Nat : ss[1] < ss[2]}
<1>1. IsWellFoundedOn(R, Nat)
    BY NatLessThanWellFounded DEF OpToRel
<1>2. PICK x \in S : \A y \in S : <<y, x>> \notin R
    BY <1>1, WFMin
<1>3. ASSUME NEW y \in S PROVE x <= y
    <2>1. <<y, x>> \notin R /\ <<y, x>> \in Nat \X Nat
        BY <1>2
    <2>2. ~(y < x)
        BY <2>1
    <2> QED BY <2>2
<1> QED BY <1>3

\* erasePeer finds a peer with the uid, if there is one.
LEMMA FirstWithFinds ==
    ASSUME NEW b, NEW uid, Mine(b).pushs \in Seq(Actors), FirstWith(b, uid) # 0
    PROVE  /\ FirstWith(b, uid) \in 1 .. Len(Mine(b).pushs)
           /\ peer[Mine(b).pushs[FirstWith(b, uid)]].uid = uid
<1> DEFINE pushs == Mine(b).pushs
           found == {i \in 1 .. Len(pushs) : peer[pushs[i]].uid = uid}
           first == CHOOSE i \in found : \A j \in found : i <= j
<1>1. FirstWith(b, uid) = (IF found = {} THEN 0 ELSE first)
    BY DEF FirstWith
<1>2. found # {} /\ FirstWith(b, uid) = first
    BY <1>1
<1>3. found \in SUBSET Nat
    OBVIOUS
<1> HIDE DEF found
<1>4. \E i \in found : \A j \in found : i <= j
    BY <1>2, <1>3, Least
<1>5. first \in found
    BY <1>4
<1> QED BY <1>2, <1>5 DEF found

\* What is left of a list without the element at a place.
LEMMA Without ==
    ASSUME NEW S, NEW s \in Seq(S), NEW i \in 1 .. Len(s)
    PROVE  LET t == SubSeq(s, 1, i - 1) \o SubSeq(s, i + 1, Len(s))
           IN  /\ t \in Seq(S)
               /\ Len(t) = Len(s) - 1
               /\ \A k \in 1 .. Len(t) : t[k] = s[IF k < i THEN k ELSE k + 1]
<1> DEFINE f == SubSeq(s, 1, i - 1)
           g == SubSeq(s, i + 1, Len(s))
<1>0. Len(s) \in Nat /\ i \in Nat /\ \A k \in 1 .. Len(s) : s[k] \in S
    BY LenProperties, ElementOfSeq
<1>1. /\ f \in Seq(S) /\ Len(f) = i - 1
      /\ \A k \in 1 .. i - 1 : f[k] = s[k]
    <2>1. /\ f \in Seq(S) /\ Len(f) = (IF 1 <= i - 1 THEN (i - 1) - 1 + 1 ELSE 0)
          /\ \A k \in 1 .. (i - 1) - 1 + 1 : f[k] = s[1 + k - 1]
        BY <1>0, SubSeqProperties
    <2> HIDE DEF f
    <2> QED BY <2>1, <1>0
<1>2. /\ g \in Seq(S) /\ Len(g) = Len(s) - i
      /\ \A k \in 1 .. Len(s) - i : g[k] = s[i + k]
    <2>1. /\ g \in Seq(S)
          /\ Len(g) = (IF i + 1 <= Len(s) THEN Len(s) - (i + 1) + 1 ELSE 0)
          /\ \A k \in 1 .. Len(s) - (i + 1) + 1 : g[k] = s[(i + 1) + k - 1]
        BY <1>0, SubSeqProperties
    <2> HIDE DEF g
    <2> QED BY <2>1, <1>0
<1>3. /\ f \o g \in Seq(S)
      /\ Len(f \o g) = Len(f) + Len(g)
      /\ \A k \in 1 .. Len(f) + Len(g) :
            (f \o g)[k] = IF k <= Len(f) THEN f[k] ELSE g[k - Len(f)]
    BY <1>1, <1>2, ConcatProperties
<1> HIDE DEF f, g
<1>4. ASSUME NEW k \in 1 .. Len(f \o g) PROVE (f \o g)[k] = s[IF k < i THEN k ELSE k + 1]
    <2>1. CASE k < i
        BY <2>1, <1>0, <1>1, <1>2, <1>3
    <2>2. CASE ~(k < i)
        <3>1. /\ (f \o g)[k] = g[k - (i - 1)] /\ k - (i - 1) \in 1 .. Len(s) - i
            BY <2>2, <1>0, <1>1, <1>2, <1>3
        <3>2. i + (k - (i - 1)) = k + 1
            BY <1>0
        <3> QED BY <2>2, <3>1, <3>2, <1>2
    <2> QED BY <2>1, <2>2
<1>5. Len(f \o g) = Len(s) - 1
    BY <1>0, <1>1, <1>2, <1>3
<1> QED BY <1>3, <1>4, <1>5 DEF f, g

LEMMA TypesInit == Init => TypeOK
<1> SUFFICES ASSUME Init PROVE TypeOK
    OBVIOUS
<1> USE DEF Init
<1>1. << >> \in Seq(Actors) /\ << >> \in Seq(Nat)
    BY EmptySeq
<1>2. act \in [Actors -> ActType]
    BY <1>1 DEF ActType
<1>3. rtc \in [Actors -> RtcType]
    BY <1>1 DEF RtcType
<1>4. peer \in [Actors -> PeerType]
    BY DEF PeerType
<1>5. thread \in [Actors -> ThreadType]
    BY DEF ThreadType
<1>6. ServerTypes
    BY DEF ServerTypes
<1> QED BY <1>2, <1>3, <1>4, <1>5, <1>6, TypesAre DEF Types

-----------------------------------------------------------------------------
(* What a step does to the record of one actor *)

Others(f, g, a) == \A x \in Actors : x # a => g[x] = f[x]

LEMMA ActTo ==
    ASSUME act \in [Actors -> ActType], NEW a \in Actors, NEW e \in ActType,
           act' = [act EXCEPT ![a] = e]
    PROVE  act' \in [Actors -> ActType] /\ act'[a] = e /\ Others(act, act', a)
BY DEF Others

LEMMA RtcTo ==
    ASSUME rtc \in [Actors -> RtcType], NEW a \in Actors, NEW e \in RtcType,
           rtc' = [rtc EXCEPT ![a] = e]
    PROVE  rtc' \in [Actors -> RtcType] /\ rtc'[a] = e /\ Others(rtc, rtc', a)
BY DEF Others

LEMMA PeerTo ==
    ASSUME peer \in [Actors -> PeerType], NEW a \in Actors, NEW e \in PeerType,
           peer' = [peer EXCEPT ![a] = e]
    PROVE  peer' \in [Actors -> PeerType] /\ peer'[a] = e /\ Others(peer, peer', a)
BY DEF Others

LEMMA ThreadTo ==
    ASSUME thread \in [Actors -> ThreadType], NEW a \in Actors, NEW e \in ThreadType,
           thread' = [thread EXCEPT ![a] = e]
    PROVE  thread' \in [Actors -> ThreadType] /\ thread'[a] = e /\ Others(thread, thread', a)
BY DEF Others

ActPcs == {"none", "new", "recv", "initRtc", "newRtc", "addPeer", "startRtc", "push",
           "initRtc2", "answer", "done", "failed"}

\* An actor goes on to its next step.
LEMMA GotoTo ==
    ASSUME act \in [Actors -> ActType], NEW a \in Actors, NEW pc \in ActPcs, Goto(a, pc)
    PROVE  /\ act' \in [Actors -> ActType] /\ Others(act, act', a)
           /\ act'[a].pc = pc
           /\ act'[a].rtc = act[a].rtc /\ act'[a].seq = act[a].seq
           /\ act'[a].conn = act[a].conn
<1> DEFINE e == [act[a] EXCEPT !.pc = pc]
<1>1. act' = [act EXCEPT ![a] = e]
    BY DEF Goto
<1>2. /\ e \in ActType
      /\ e.pc = pc /\ e.rtc = act[a].rtc /\ e.seq = act[a].seq /\ e.conn = act[a].conn
    BY DEF ActType, ActPcs
<1> HIDE DEF e
<1> QED BY <1>1, <1>2, ActTo

ThreadPcs == {"none", "run", "loop", "publish", "remove", "join", "stuck"}

\* A publisher's thread goes on to its next step.
LEMMA StepTo ==
    ASSUME thread \in [Actors -> ThreadType], NEW b \in Actors, NEW pc \in ThreadPcs, Step(b, pc)
    PROVE  /\ thread' \in [Actors -> ThreadType] /\ Others(thread, thread', b)
           /\ thread'[b].pc = pc
           /\ thread'[b].rtc = thread[b].rtc /\ thread'[b].at = thread[b].at
<1> DEFINE e == [thread[b] EXCEPT !.pc = pc]
<1>1. thread' = [thread EXCEPT ![b] = e]
    BY DEF Step
<1>2. /\ e \in ThreadType
      /\ e.pc = pc /\ e.rtc = thread[b].rtc /\ e.at = thread[b].at
    BY DEF ThreadType, ThreadPcs
<1> HIDE DEF e
<1> QED BY <1>1, <1>2, ThreadTo

-----------------------------------------------------------------------------
(* What each part of the invariant is safe from *)

KeepsPeers ==
    \A x \in Actors : /\ peer'[x].rtc = peer[x].rtc /\ peer'[x].uid = peer[x].uid
                      /\ peer'[x].udp = "none" <=> peer[x].udp = "none"
KeepsUids == \A p \in Actors : rtc'[p].uidSeq = rtc[p].uidSeq
KeepsLists == \A p \in Actors : rtc'[p].pushs = rtc[p].pushs
KeepsRemoved == \A p \in Actors : /\ rtc'[p].removeList = rtc[p].removeList
                                  /\ rtc'[p].clientUid = rtc[p].clientUid
KeepsStarted == \A b \in Actors : /\ thread'[b].pc = "none" <=> thread[b].pc = "none"
                                  /\ thread'[b].rtc = thread[b].rtc
StaysStarted ==
    \A b \in Actors : thread[b].pc # "none" => /\ thread'[b].pc # "none"
                                              /\ thread'[b].rtc = thread[b].rtc
AddedStay ==
    \A x \in Actors : act[x].pc \in Added \ {"push"} => act'[x].pc \in Added \ {"push"}
KeepsJoined ==
    \A b \in Actors :
       thread'[b].pc = "join" => /\ thread[b].pc = "join"
                                 /\ thread'[b].at = thread[b].at
                                 /\ thread'[b].peer = thread[b].peer
Waits(b) == /\ thread[b].pc \in {"publish", "join"} => thread[b].at > 0
            /\ thread[b].pc = "join" => thread[b].peer \in Actors

LEMMA PlaceKept ==
    ASSUME PlaceInv, UNCHANGED <<act, handle>>, KeepsPeers, KeepsStarted,
           \A b \in Actors : Waits(b)'
    PROVE  PlaceInv'
<1>1. ASSUME NEW x \in Actors PROVE Placed(x)'
    BY DEF PlaceInv, Placed, KeepsPeers, KeepsStarted, Waits, handle
<1> QED BY <1>1 DEF PlaceInv, handle

LEMMA UidsKept == ASSUME KeepsPeers PROVE SameUid' <=> SameUid
BY DEF SameUid, KeepsPeers

LEMMA ThreadsKept == ASSUME KeepsStarted PROVE TwoThreads' <=> TwoThreads
BY DEF TwoThreads, KeepsStarted

LEMMA AloneKept ==
    ASSUME PlaceInv, AloneInv, UNCHANGED <<act, handle, overlapped>>,
           KeepsPeers, KeepsUids, KeepsStarted
    PROVE  AloneInv'
<1> SUFFICES ASSUME ~overlapped' PROVE AloneInv'
    BY DEF AloneInv
<1>1. ~overlapped
    OBVIOUS
<1>2. ~TwoThreads' /\ ~SameUid'
    BY <1>1, UidsKept, ThreadsKept DEF AloneInv
<1>3. Busy' = Busy
    BY DEF Busy, Begun
<1>4. \A x \in Actors : act[x].pc \in Added \cup {"startRtc"} => pub \in Actors
    BY DEF PlaceInv, Placed, HasPub
<1> QED BY <1>1, <1>2, <1>3, <1>4 DEF AloneInv, KeepsPeers, KeepsUids, KeepsStarted, handle

LEMMA LeftKept ==
    ASSUME Types, LeftInv, UNCHANGED <<left, freed>>, KeepsPeers, KeepsRemoved, KeepsJoined,
           act[App].pc = "failed" => act'[App].pc = "failed"
    PROVE  LeftInv'
<1>1. SameUid' <=> SameUid
    BY UidsKept
<1>2. OnlyTheLeftAreFreed'
    BY <1>1 DEF LeftInv, OnlyTheLeftAreFreed
<1>3. ASSUME NEW p \in Actors, NEW i \in 1 .. Len(rtc'[p].removeList)
      PROVE  \E h \in left' : peer'[h].rtc = p /\ peer'[h].uid = rtc'[p].removeList[i]
    <2>1. rtc'[p].removeList = rtc[p].removeList
        BY DEF KeepsRemoved
    <2>2. PICK h \in left : peer[h].rtc = p /\ peer[h].uid = rtc[p].removeList[i]
        BY <2>1 DEF LeftInv
    <2>3. h \in Actors /\ h \in left'
        BY DEF Types, ServerTypes
    <2> QED BY <2>1, <2>2, <2>3 DEF KeepsPeers
<1>4. ASSUME NEW b \in Actors, thread'[b].pc = "join" PROVE thread'[b].peer \in left' \/ SameUid'
    BY <1>1, <1>4 DEF LeftInv, KeepsJoined
<1>5. ASSUME NEW p \in Actors, rtc'[p].clientUid # -1
      PROVE  act'[App].pc = "failed" \/ (peer'[App].rtc = p /\ peer'[App].uid = rtc'[p].clientUid)
    BY <1>5, AppIsActor DEF LeftInv, KeepsPeers, KeepsRemoved
<1> QED BY <1>2, <1>3, <1>4, <1>5 DEF LeftInv

\* A step that changes no list, uses no freed peer as long as the lists are clean, and waits for
\* the peer of the place it has found.
LEMMA CleanStays ==
    ASSUME Types, CleanInv, UNCHANGED <<freed, torn>>, AddedStay, KeepsLists, StaysStarted,
           ~torn /\ ~TwoThreads =>
              /\ touched' = touched
              /\ \A b \in Actors :
                    thread'[b].pc = "join" =>
                       /\ thread'[b].rtc \in Actors
                       /\ thread'[b].at <= Len(rtc[thread'[b].rtc].pushs)
                       /\ rtc[thread'[b].rtc].pushs[thread'[b].at] = thread'[b].peer
    PROVE  CleanInv'
<1> SUFFICES ASSUME ~torn', ~TwoThreads' PROVE CleanInv'
    BY DEF CleanInv
<1>1. ~torn /\ ~TwoThreads
    BY DEF TwoThreads, StaysStarted
<1>2. ASSUME NEW b \in Actors, thread'[b].pc = "join"
      PROVE  /\ thread'[b].at <= Len(rtc'[thread'[b].rtc].pushs)
             /\ rtc'[thread'[b].rtc].pushs[thread'[b].at] = thread'[b].peer
    BY <1>1, <1>2 DEF KeepsLists
<1>3. ASSUME NEW p \in Actors, NEW q \in Actors,
             NEW i \in 1 .. Len(rtc'[p].pushs), NEW j \in 1 .. Len(rtc'[q].pushs),
             rtc'[p].pushs[i] = rtc'[q].pushs[j]
      PROVE  p = q /\ i = j
    <2>1. rtc'[p].pushs = rtc[p].pushs /\ rtc'[q].pushs = rtc[q].pushs
        BY DEF KeepsLists
    <2>2. i \in 1 .. Len(rtc[p].pushs) /\ j \in 1 .. Len(rtc[q].pushs)
        BY <2>1
    <2>3. rtc[p].pushs[i] = rtc[q].pushs[j]
        BY <2>1, <1>3
    <2> QED BY <1>1, <2>2, <2>3 DEF CleanInv
<1>4. ASSUME NEW p \in Actors, NEW i \in 1 .. Len(rtc'[p].pushs)
      PROVE  /\ rtc'[p].pushs[i] \notin freed'
             /\ act'[rtc'[p].pushs[i]].pc \in Added \ {"push"}
    <2>1. rtc'[p].pushs = rtc[p].pushs /\ rtc[p].pushs[i] \in Actors
        BY ElementOfSeq DEF KeepsLists, Types, RtcType
    <2> QED BY <1>1, <2>1 DEF CleanInv, AddedStay
<1>5. \A h \in freed' : act'[h].pc \in Added \ {"push"}
    BY <1>1 DEF CleanInv, AddedStay, Types, ServerTypes
<1>6. touched' = {}
    BY <1>1 DEF CleanInv
<1> QED BY <1>2, <1>3, <1>4, <1>5, <1>6 DEF CleanInv

LEMMA CleanKept ==
    ASSUME Types, PlaceInv, CleanInv, UNCHANGED <<freed, touched, torn>>,
           AddedStay, KeepsLists, StaysStarted, KeepsJoined
    PROVE  CleanInv'
<1>1. ASSUME ~torn, ~TwoThreads, NEW b \in Actors, thread'[b].pc = "join"
      PROVE  /\ thread'[b].rtc \in Actors
             /\ thread'[b].at <= Len(rtc[thread'[b].rtc].pushs)
             /\ rtc[thread'[b].rtc].pushs[thread'[b].at] = thread'[b].peer
    <2>1. /\ thread[b].pc = "join" /\ thread[b].rtc \in Actors
          /\ thread'[b].rtc = thread[b].rtc
          /\ thread'[b].at = thread[b].at /\ thread'[b].peer = thread[b].peer
        BY <1>1 DEF KeepsJoined, StaysStarted, PlaceInv, Placed
    <2>2. /\ thread[b].at <= Len(rtc[thread[b].rtc].pushs)
          /\ rtc[thread[b].rtc].pushs[thread[b].at] = thread[b].peer
        BY <1>1, <2>1 DEF CleanInv
    <2> QED BY <2>1, <2>2
<1> QED BY <1>1, CleanStays

\* A step of a thread that changes nothing these parts of the invariant speak of.
Quiet ==
    /\ UNCHANGED <<act, handle, freed, left, touched, overlapped, torn>>
    /\ KeepsPeers /\ KeepsUids /\ KeepsLists /\ KeepsRemoved /\ KeepsStarted /\ KeepsJoined
    /\ \A b \in Actors : Waits(b)'

LEMMA QuietKeeps ==
    ASSUME Types, IInv, Quiet
    PROVE  PlaceInv' /\ AloneInv' /\ LeftInv' /\ CleanInv'
<1>1. AddedStay /\ StaysStarted
    BY DEF Quiet, AddedStay, KeepsStarted, StaysStarted
<1> QED BY <1>1, PlaceKept, AloneKept, LeftKept, CleanKept DEF IInv, Quiet

-----------------------------------------------------------------------------
(* A call, until its peer is added *)

Early == {"none", "new", "recv", "initRtc", "newRtc", "addPeer"}
EarlyMove(a) ==
    /\ act[a].pc \in Early
    /\ act'[a].pc \in {"new", "recv", "failed", "initRtc", "newRtc", "addPeer", "startRtc"}
    /\ Others(act, act', a)
    /\ UNCHANGED <<isInitRtc, rtc, peer, thread, freed, left, touched, torn>>
    /\ IF act[a].pc = "newRtc" THEN pub' = a ELSE pub' = pub
    /\ act'[a].pc \in HasPub => pub' \in Actors
    /\ act'[a].pc = "newRtc" => pub' = None
    /\ act'[a].pc = "startRtc" => act'[a].rtc = pub' /\ act'[a].seq = rtc[pub'].uidSeq
    /\ IF act[a].pc = "none" THEN overlapped' = (overlapped \/ Busy # {})
                             ELSE overlapped' = overlapped

LEMMA BeginDoes ==
    ASSUME Types, NEW a \in Actors, NEW pc \in {"new", "initRtc"}, Begin(a, pc),
           connFd' \in Conns \cup {None},
           UNCHANGED <<answered, handle, rtc, peer, thread, freed, left, touched, torn>>
    PROVE  Types' /\ EarlyMove(a)
<1>1. /\ act' \in [Actors -> ActType] /\ Others(act, act', a)
      /\ act[a].pc = "none" /\ act'[a].pc = pc
    BY GotoTo DEF Types, Begin, ActPcs
<1>2. overlapped' = (overlapped \/ Busy # {})
    BY DEF Begin
<1>3. Types'
    <2>1. overlapped' \in BOOLEAN
        BY <1>2
    <2> QED BY <1>1, <2>1 DEF Types, ServerTypes, handle
<1> QED BY <1>1, <1>2, <1>3 DEF EarlyMove, Early, HasPub, Added, handle

LEMMA EarlyDoes ==
    ASSUME Types, PlaceInv, NEW a \in Actors,
           \/ a \in Conns /\ Accept(a)
           \/ a = App /\ ConnectRtc
           \/ ReadConnFd(a) \/ ReadOffer(a) \/ ConnClosed(a)
           \/ InitRtc(a) \/ NewRtc(a) \/ ReadUid(a)
    PROVE  Types' /\ EarlyMove(a)
<1> USE DEF server, handle, history
<1>1. CASE a \in Conns /\ Accept(a)
    BY <1>1, BeginDoes DEF Accept
<1>2. CASE a = App /\ ConnectRtc
    BY <1>2, BeginDoes DEF ConnectRtc, Types, ServerTypes
<1>3. CASE ReadConnFd(a)
    <2> DEFINE e == [act[a] EXCEPT !.pc = "recv", !.conn = connFd]
    <2>1. act' = [act EXCEPT ![a] = e] /\ act[a].pc = "new"
        BY <1>3 DEF ReadConnFd
    <2>2. e \in ActType /\ e.pc = "recv"
        <3>1. act[a] \in ActType /\ connFd \in Conns \cup {None}
            BY DEF Types, ServerTypes
        <3> QED BY <3>1 DEF ActType
    <2> HIDE DEF e
    <2>3. act' \in [Actors -> ActType] /\ Others(act, act', a) /\ act'[a].pc = "recv"
        BY <2>1, <2>2, ActTo DEF Types
    <2>4. Types'
        BY <2>3, <1>3 DEF ReadConnFd, Types, ServerTypes
    <2> QED BY <2>1, <2>3, <2>4, <1>3 DEF ReadConnFd, EarlyMove, Early, HasPub, Added
<1>4. ASSUME NEW from \in Early \ {"none", "newRtc"},
             NEW to \in {"failed", "initRtc", "newRtc", "addPeer"},
             act[a].pc = from, Goto(a, to),
             to = "addPeer" => pub \in Actors, to = "newRtc" => pub = None,
             UNCHANGED <<server, handle, rtc, peer, thread, freed, history>>
      PROVE  Types' /\ EarlyMove(a)
    <2>1. act' \in [Actors -> ActType] /\ Others(act, act', a) /\ act'[a].pc = to
        BY <1>4, GotoTo DEF Types, ActPcs
    <2>2. Types'
        BY <2>1, <1>4 DEF Types, ServerTypes
    <2> QED BY <2>1, <2>2, <1>4 DEF EarlyMove, Early, HasPub, Added
<1>5. CASE ReadOffer(a)
    <2>1. CASE isInitRtc
        BY <2>1, <1>4, <1>5 DEF ReadOffer, Early, PlaceInv
    <2>2. CASE ~isInitRtc
        BY <2>2, <1>4, <1>5 DEF ReadOffer, Early
    <2> QED BY <2>1, <2>2
<1>6. CASE ConnClosed(a)
    BY <1>4, <1>6 DEF ConnClosed, Early
<1>7. CASE InitRtc(a)
    <2>1. CASE pub = None
        BY <2>1, <1>4, <1>7 DEF InitRtc, Early
    <2>2. CASE pub # None
        <3>1. pub \in Actors
            BY <2>2 DEF Types, ServerTypes
        <3> QED BY <2>2, <3>1, <1>4, <1>7 DEF InitRtc, Early
    <2> QED BY <2>1, <2>2
<1>8. CASE NewRtc(a)
    <2>1. act' \in [Actors -> ActType] /\ Others(act, act', a) /\ act'[a].pc = "addPeer"
        BY <1>8, GotoTo DEF NewRtc, Types, ActPcs
    <2>2. Types'
        BY <2>1, <1>8 DEF NewRtc, Types, ServerTypes
    <2> QED BY <2>1, <2>2, <1>8 DEF NewRtc, EarlyMove, Early, HasPub, Added
<1>9. CASE ReadUid(a)
    <2>0. pub \in Actors
        BY <1>9 DEF ReadUid, PlaceInv, Placed, HasPub
    <2> DEFINE e == [act[a] EXCEPT !.pc = "startRtc", !.rtc = pub, !.seq = rtc[pub].uidSeq]
    <2>1. act' = [act EXCEPT ![a] = e] /\ act[a].pc = "addPeer"
        BY <1>9 DEF ReadUid
    <2>2. e \in ActType /\ e.pc = "startRtc" /\ e.rtc = pub /\ e.seq = rtc[pub].uidSeq
        <3>1. rtc[pub].uidSeq \in Nat
            BY <2>0 DEF Types, RtcType
        <3> QED BY <3>1, <2>0 DEF Types, ActType
    <2> HIDE DEF e
    <2>3. /\ act' \in [Actors -> ActType] /\ Others(act, act', a)
          /\ act'[a].pc = "startRtc" /\ act'[a].rtc = pub /\ act'[a].seq = rtc[pub].uidSeq
        BY <2>1, <2>2, ActTo DEF Types
    <2>4. Types'
        BY <2>3, <1>9 DEF ReadUid, Types, ServerTypes
    <2> QED BY <2>0, <2>1, <2>3, <2>4, <1>9 DEF ReadUid, EarlyMove, Early, HasPub, Added
<1> QED BY <1>1, <1>2, <1>3, <1>5, <1>6, <1>7, <1>8, <1>9

LEMMA EarlyKeeps ==
    ASSUME Types, IInv, NEW a \in Actors, EarlyMove(a)
    PROVE  PlaceInv' /\ AloneInv' /\ LeftInv' /\ CleanInv'
<1> USE DEF EarlyMove, Early, Others
<1>1. PlaceInv'
    <2>1. act[a].pc \notin Added /\ act'[a].pc \notin Added \cup {"push"}
        BY DEF Added
    <2>2. pub \in Actors => pub' \in Actors
        OBVIOUS
    <2>3. act'[a].pc \in {"startRtc", "push"} => act'[a].rtc \in Actors
        BY DEF HasPub
    <2>4. ASSUME NEW x \in Actors, x # a PROVE act'[x] = act[x]
        BY <2>4
    <2>5. isInitRtc' => pub' \in Actors
        BY <2>2 DEF IInv, PlaceInv
    <2>6. ASSUME NEW x \in Actors PROVE Placed(x)'
        <3>1. CASE x = a
            BY <3>1, <2>1, <2>3 DEF IInv, PlaceInv, Placed
        <3>2. CASE x # a
            BY <3>2, <2>2, <2>4 DEF IInv, PlaceInv, Placed
        <3> QED BY <3>1, <3>2
    <2> QED BY <2>5, <2>6 DEF PlaceInv
<1>2. /\ KeepsPeers /\ KeepsLists /\ KeepsRemoved /\ StaysStarted /\ KeepsJoined /\ AddedStay
      /\ act[App].pc = "failed" => act'[App].pc = "failed"
    BY AppIsActor DEF KeepsPeers, KeepsLists, KeepsRemoved, StaysStarted, KeepsJoined, AddedStay, Added
<1>3. LeftInv' /\ CleanInv'
    BY <1>2, LeftKept, CleanKept DEF IInv
<1>4. AloneInv'
    <2> SUFFICES ASSUME ~overlapped' PROVE AloneInv'
        BY DEF AloneInv
    <2>1. /\ ~overlapped
          /\ act[a].pc = "none" => Busy = {}
        OBVIOUS
    <2>2. /\ \A x, y \in Actors : x \in Busy /\ y \in Busy => x = y
          /\ ~TwoThreads /\ ~SameUid
        BY <2>1 DEF IInv, AloneInv
    <2>3. \A x \in Actors : x \in Busy' => x = a \/ x \in Busy
        BY DEF Busy, Begun
    <2>4. a \in Busy \/ Busy = {}
        BY <2>1 DEF Busy, Begun
    <2>5. \A x \in Actors : x # a => x \notin Busy'
        BY <2>2, <2>3, <2>4 DEF Busy, Begun
    <2>6. ~TwoThreads' /\ ~SameUid'
        BY <2>2 DEF TwoThreads, SameUid
    <2>7. ASSUME NEW x \in Actors
          PROVE  /\ act'[x].pc = "newRtc" => pub' = None
                 /\ act'[x].pc = "startRtc" => act'[x].rtc = pub' /\ act'[x].seq = rtc'[pub'].uidSeq
                 /\ act'[x].pc \in Added =>
                       peer'[x].rtc = pub' /\ peer'[x].uid < rtc'[pub'].uidSeq
                 /\ thread'[x].pc # "none" => isInitRtc' \/ act'[x].pc = "answer"
        <3>1. CASE x = a
            BY <3>1, <2>1 DEF Added, IInv, AloneInv
        <3>2. CASE x # a
            <4>1. act'[x] = act[x] /\ act[x].pc \in {"none", "done", "failed"}
                BY <3>2, <2>5 DEF Busy, Begun
            <4>2. act[x].pc \in Added => pub' = pub
                <5>1. act[x].pc \in Added => pub # None
                    BY AppIsActor DEF IInv, PlaceInv, Placed, HasPub
                <5>2. act[a].pc = "newRtc" => pub = None
                    BY <2>1 DEF IInv, AloneInv
                <5> QED BY <5>1, <5>2
            <4> QED BY <4>1, <4>2, <2>1 DEF Added, IInv, AloneInv
        <3> QED BY <3>1, <3>2
    <2> QED BY <2>5, <2>6, <2>7 DEF AloneInv
<1> QED BY <1>1, <1>3, <1>4

-----------------------------------------------------------------------------
(* The steps of a peer's thread, and of a publisher's between two removals *)

\* A peer's record but for its publisher and its uid.
LEMMA PeerMoves ==
    ASSUME Types, NEW h \in Actors, NEW state \in {0, 1}, NEW isStop \in {0, 1},
           NEW udp \in {"run", "alert", "stop", "ended"}, peer[h].udp # "none",
           peer' = [peer EXCEPT ![h] = [@ EXCEPT !.state = state, !.isStop = isStop, !.udp = udp]]
    PROVE  peer' \in [Actors -> PeerType] /\ KeepsPeers
<1> DEFINE e == [peer[h] EXCEPT !.state = state, !.isStop = isStop, !.udp = udp]
<1>1. /\ e \in PeerType
      /\ e.rtc = peer[h].rtc /\ e.uid = peer[h].uid /\ e.udp # "none"
    BY DEF Types, PeerType
<1>2. peer' = [peer EXCEPT ![h] = e]
    OBVIOUS
<1> HIDE DEF e
<1>3. peer' \in [Actors -> PeerType] /\ peer'[h] = e /\ Others(peer, peer', h)
    BY <1>1, <1>2, PeerTo DEF Types
<1> QED BY <1>1, <1>3 DEF KeepsPeers, Others

LEMMA UdpQuiet ==
    ASSUME Types, PlaceInv, NEW h \in Actors, Connected(h) \/ CloseNotify(h) \/ SetStop(h)
    PROVE  Types' /\ Quiet
<1>0. peer[h] \in PeerType
    BY DEF Types
<1>1. UNCHANGED <<server, act, handle, rtc, thread, freed, history>>
    BY DEF Connected, CloseNotify, SetStop
<1>2. peer' \in [Actors -> PeerType] /\ KeepsPeers
    <2>1. CASE Connected(h)
        <3>1. peer' = [peer EXCEPT ![h] = [@ EXCEPT !.state = 1, !.isStop = peer[h].isStop,
                                                    !.udp = "run"]]
            <4>1. peer[h].udp = "run" /\ peer' = [peer EXCEPT ![h].state = 1]
                BY <2>1 DEF Connected
            <4>2. [peer[h] EXCEPT !.state = 1, !.isStop = peer[h].isStop, !.udp = "run"]
                     = [peer[h] EXCEPT !.state = 1]
                BY <4>1, <1>0 DEF PeerType
            <4> QED BY <4>1, <4>2
        <3>2. peer[h].udp # "none" /\ peer[h].isStop \in {0, 1}
            BY <2>1, <1>0 DEF Connected, PeerType
        <3> QED BY <3>1, <3>2, PeerMoves
    <2>2. CASE CloseNotify(h)
        <3> DEFINE udp == IF h = App THEN "stop" ELSE "alert"
        <3>1. peer' = [peer EXCEPT ![h].udp = udp]
            BY <2>2 DEF CloseNotify
        <3>3. udp \in {"stop", "alert"}
            OBVIOUS
        <3> HIDE DEF udp
        <3>4. peer[h].state = 1 /\ peer[h].isStop = 0
            BY <2>2 DEF CloseNotify
        <3>2. peer' = [peer EXCEPT ![h] = [@ EXCEPT !.state = 1, !.isStop = 0, !.udp = udp]]
            <4>1. [peer[h] EXCEPT !.state = 1, !.isStop = 0, !.udp = udp] = [peer[h] EXCEPT !.udp = udp]
                BY <3>4, <1>0 DEF PeerType
            <4> QED BY <3>1, <4>1
        <3>5. peer[h].udp # "none" /\ udp \in {"run", "alert", "stop", "ended"}
            BY <2>2, <3>3 DEF CloseNotify
        <3> QED BY <3>2, <3>5, PeerMoves
    <2>3. CASE SetStop(h)
        <3>1. peer' = [peer EXCEPT ![h] = [@ EXCEPT !.state = peer[h].state, !.isStop = 1,
                                                    !.udp = "run"]]
            <4>1. peer' = [peer EXCEPT ![h] = [@ EXCEPT !.isStop = 1, !.udp = "run"]]
                BY <2>3 DEF SetStop
            <4>2. [peer[h] EXCEPT !.state = peer[h].state, !.isStop = 1, !.udp = "run"]
                     = [peer[h] EXCEPT !.isStop = 1, !.udp = "run"]
                BY <1>0 DEF PeerType
            <4> QED BY <4>1, <4>2
        <3>2. peer[h].udp # "none" /\ peer[h].state \in {0, 1}
            BY <2>3, <1>0 DEF SetStop, PeerType
        <3> QED BY <3>1, <3>2, PeerMoves
    <2> QED BY <2>1, <2>2, <2>3
<1>3. Types'
    BY <1>1, <1>2 DEF Types, ServerTypes, server, handle, history
<1> QED BY <1>1, <1>2, <1>3
        DEF Quiet, handle, history, KeepsUids, KeepsLists, KeepsRemoved, KeepsStarted, KeepsJoined,
            Waits, PlaceInv, Placed

\* The lock and the mark of a publisher.
LEMMA RtcMoves ==
    ASSUME Types, NEW p \in Actors, NEW mutex \in Actors \cup {None}, NEW isStart \in {0, 1},
           rtc' = [rtc EXCEPT ![p] = [@ EXCEPT !.mutex = mutex, !.isStart = isStart]]
    PROVE  rtc' \in [Actors -> RtcType] /\ KeepsUids /\ KeepsLists /\ KeepsRemoved
<1> DEFINE e == [rtc[p] EXCEPT !.mutex = mutex, !.isStart = isStart]
<1>1. /\ e \in RtcType
      /\ e.uidSeq = rtc[p].uidSeq /\ e.pushs = rtc[p].pushs
      /\ e.removeList = rtc[p].removeList /\ e.clientUid = rtc[p].clientUid
    BY DEF Types, RtcType
<1>2. rtc' = [rtc EXCEPT ![p] = e]
    OBVIOUS
<1> HIDE DEF e
<1>3. rtc' \in [Actors -> RtcType] /\ rtc'[p] = e /\ Others(rtc, rtc', p)
    BY <1>1, <1>2, RtcTo DEF Types
<1> QED BY <1>1, <1>3 DEF KeepsUids, KeepsLists, KeepsRemoved, Others

LEMMA PublisherQuiet ==
    ASSUME Types, PlaceInv, NEW b \in Actors, Run(b) \/ Loop(b) \/ Lock(b) \/ Unlock(b)
    PROVE  Types' /\ Quiet
<1>0. /\ thread[b] \in ThreadType /\ thread[b].pc # "none" /\ thread[b].pc # "join"
      /\ thread[b].rtc \in Actors /\ rtc[thread[b].rtc] \in RtcType
    BY DEF Types, Run, Loop, Lock, Unlock, PlaceInv, Placed
<1>1. UNCHANGED <<server, act, handle, peer, freed, history>>
    BY DEF Run, Loop, Lock, Unlock
<1>2. /\ thread' \in [Actors -> ThreadType] /\ Others(thread, thread', b)
      /\ thread'[b].rtc = thread[b].rtc
      /\ thread'[b].pc \in {"loop", "publish", "remove"}
      /\ thread'[b].pc = "publish" => thread'[b].at > 0
    <2>1. ASSUME NEW pc \in {"loop", "remove"}, Step(b, pc)
          PROVE  /\ thread' \in [Actors -> ThreadType] /\ Others(thread, thread', b)
                 /\ thread'[b].rtc = thread[b].rtc /\ thread'[b].pc = pc
        BY <2>1, StepTo DEF ThreadPcs, Types
    <2>2. CASE Run(b) \/ Lock(b) \/ Unlock(b)
        BY <2>1, <2>2 DEF Run, Lock, Unlock
    <2>3. CASE Loop(b)
        <3> DEFINE e == [thread[b] EXCEPT !.pc = "publish", !.at = 1]
        <3>1. /\ e \in ThreadType
              /\ e.pc = "publish" /\ e.at = 1 /\ e.rtc = thread[b].rtc
            BY <1>0 DEF ThreadType
        <3>2. thread' = [thread EXCEPT ![b] = e]
            BY <2>3 DEF Loop
        <3> HIDE DEF e
        <3>3. thread' \in [Actors -> ThreadType] /\ thread'[b] = e /\ Others(thread, thread', b)
            BY <3>1, <3>2, ThreadTo DEF Types
        <3> QED BY <3>1, <3>3
    <2> QED BY <2>2, <2>3
<1>3. rtc' \in [Actors -> RtcType] /\ KeepsUids /\ KeepsLists /\ KeepsRemoved
    <2> DEFINE p == thread[b].rtc
    <2>1. CASE Run(b)
        <3>1. [rtc[p] EXCEPT !.isStart = 1] = [rtc[p] EXCEPT !.mutex = rtc[p].mutex, !.isStart = 1]
            BY <1>0 DEF RtcType
        <3>2. rtc' = [rtc EXCEPT ![p] = [@ EXCEPT !.mutex = rtc[p].mutex, !.isStart = 1]]
            BY <2>1, <3>1 DEF Run
        <3>3. rtc[p].mutex \in Actors \cup {None}
            BY <1>0 DEF RtcType
        <3> QED BY <3>2, <3>3, <1>0, RtcMoves
    <2>2. CASE Loop(b)
        BY <2>2 DEF Loop, Types, KeepsUids, KeepsLists, KeepsRemoved
    <2>3. ASSUME NEW m \in {b, None}, rtc' = [rtc EXCEPT ![p].mutex = m]
          PROVE  rtc' \in [Actors -> RtcType] /\ KeepsUids /\ KeepsLists /\ KeepsRemoved
        <3>1. [rtc[p] EXCEPT !.mutex = m] = [rtc[p] EXCEPT !.mutex = m, !.isStart = rtc[p].isStart]
            BY <1>0 DEF RtcType
        <3>2. rtc' = [rtc EXCEPT ![p] = [@ EXCEPT !.mutex = m, !.isStart = rtc[p].isStart]]
            BY <2>3, <3>1
        <3>3. rtc[p].isStart \in {0, 1}
            BY <1>0 DEF RtcType
        <3> QED BY <3>2, <3>3, <1>0, RtcMoves
    <2>4. CASE Lock(b)
        BY <2>3, <2>4 DEF Lock
    <2>5. CASE Unlock(b)
        BY <2>3, <2>5 DEF Unlock
    <2> QED BY <2>1, <2>2, <2>4, <2>5
<1>4. Types'
    BY <1>1, <1>2, <1>3 DEF Types, ServerTypes, server, handle, history
<1>5. KeepsStarted /\ KeepsJoined /\ \A x \in Actors : Waits(x)'
    BY <1>0, <1>2 DEF KeepsStarted, KeepsJoined, Waits, Others, PlaceInv, Placed
<1> QED BY <1>1, <1>3, <1>4, <1>5 DEF Quiet, handle, history, KeepsPeers

-----------------------------------------------------------------------------
(* A peer is added *)

\* Only its own step changes what an actor has added.
LEMMA AddedMoves ==
    ASSUME Types, NEW a \in Actors, Others(act, act', a), act[a].pc \in Added, act'[a].pc \in Added
    PROVE  \A x \in Actors : act'[x].pc \in Added <=> act[x].pc \in Added
BY DEF Others

LEMMA StartPeerDoes ==
    ASSUME Types, PlaceInv, NEW a \in Actors, StartPeer(a)
    PROVE  LET p == act[a].rtc
           IN  /\ Types'
               /\ p \in Actors
               /\ act[a].pc = "startRtc" /\ act'[a].pc = "push"
               /\ act'[a].rtc = p /\ act'[a].list = rtc[p].pushs
               /\ Others(act, act', a)
               /\ Others(rtc, rtc', p) /\ rtc'[p].uidSeq = act[a].seq + 1
               /\ rtc'[p].clientUid = IF a = App THEN act[a].seq ELSE rtc[p].clientUid
               /\ KeepsLists
               /\ \A q \in Actors : rtc'[q].removeList = rtc[q].removeList
               /\ Others(peer, peer', a) /\ peer'[a].rtc = p /\ peer'[a].uid = act[a].seq
               /\ peer'[a].udp = "run"
               /\ UNCHANGED <<handle, thread, freed, history>>
<1> DEFINE p == act[a].rtc
           uid == act[a].seq
           ac == [act[a] EXCEPT !.pc = "push", !.list = rtc[p].pushs]
           client == IF a = App THEN uid ELSE rtc[p].clientUid
           rc == [rtc[p] EXCEPT !.uidSeq = uid + 1, !.clientUid = client]
           pc == [rtc |-> p, uid |-> uid, state |-> 0, isStop |-> 0, udp |-> "run"]
<1>1. act[a].pc = "startRtc" /\ p \in Actors /\ act[a] \in ActType /\ rtc[p] \in RtcType
    BY DEF StartPeer, PlaceInv, Placed, Types
<1>2. uid \in Nat /\ rtc[p].pushs \in Seq(Actors) /\ rtc[p].clientUid \in Nat \cup {-1}
    BY <1>1 DEF ActType, RtcType
<1>3. /\ ac \in ActType /\ ac.pc = "push" /\ ac.rtc = p /\ ac.list = rtc[p].pushs
    BY <1>1, <1>2 DEF ActType
<1>4. /\ rc \in RtcType /\ rc.uidSeq = uid + 1 /\ rc.pushs = rtc[p].pushs
      /\ rc.clientUid = client
      /\ rc.removeList = rtc[p].removeList
    <2>1. client \in Nat \cup {-1}
        BY <1>2
    <2> HIDE DEF client
    <2>2. uid + 1 \in Nat
        BY <1>2
    <2> HIDE DEF uid
    <2> QED BY <2>1, <2>2, <1>1 DEF RtcType
<1>5. pc \in PeerType /\ pc.rtc = p /\ pc.uid = uid /\ pc.udp = "run"
    BY <1>1, <1>2 DEF PeerType
<1>6. /\ act' = [act EXCEPT ![a] = ac]
      /\ rtc' = [rtc EXCEPT ![p] = rc]
      /\ peer' = [peer EXCEPT ![a] = pc]
      /\ UNCHANGED <<server, handle, thread, freed, history>>
    BY DEF StartPeer
<1> HIDE DEF ac, rc, pc
<1>7. act' \in [Actors -> ActType] /\ act'[a] = ac /\ Others(act, act', a)
    BY <1>3, <1>6, ActTo DEF Types
<1>8. rtc' \in [Actors -> RtcType] /\ rtc'[p] = rc /\ Others(rtc, rtc', p)
    BY <1>1, <1>4, <1>6, RtcTo DEF Types
<1>9. peer' \in [Actors -> PeerType] /\ peer'[a] = pc /\ Others(peer, peer', a)
    BY <1>5, <1>6, PeerTo DEF Types
<1>10. Types'
    BY <1>6, <1>7, <1>8, <1>9 DEF Types, ServerTypes, server, handle, history
<1>11. KeepsLists /\ \A q \in Actors : rtc'[q].removeList = rtc[q].removeList
    BY <1>4, <1>8 DEF KeepsLists, Others
<1> QED BY <1>1, <1>3, <1>4, <1>5, <1>6, <1>7, <1>8, <1>9, <1>10, <1>11

\* Two peers of one publisher with the same uid stay that when another is added.
LEMMA UidsStay ==
    ASSUME NEW a \in Actors, peer[a].rtc = None, Others(peer, peer', a)
    PROVE  SameUid => SameUid'
BY DEF SameUid, Others

LEMMA StartPeerKeeps ==
    ASSUME Types, IInv, NEW a \in Actors, StartPeer(a)
    PROVE  Types' /\ PlaceInv' /\ AloneInv' /\ LeftInv' /\ CleanInv'
<1> DEFINE p == act[a].rtc
           uid == act[a].seq
<1>1. /\ Types'
      /\ p \in Actors
      /\ act[a].pc = "startRtc" /\ act'[a].pc = "push"
      /\ act'[a].rtc = p
      /\ Others(act, act', a)
      /\ Others(rtc, rtc', p) /\ rtc'[p].uidSeq = uid + 1
      /\ rtc'[p].clientUid = IF a = App THEN uid ELSE rtc[p].clientUid
      /\ KeepsLists
      /\ \A q \in Actors : rtc'[q].removeList = rtc[q].removeList
      /\ Others(peer, peer', a) /\ peer'[a].rtc = p /\ peer'[a].uid = uid
      /\ peer'[a].udp = "run"
      /\ UNCHANGED <<handle, thread, freed, history>>
    BY StartPeerDoes DEF IInv
<1>2. uid \in Nat /\ PlaceInv /\ pub \in Actors /\ peer[a].rtc = None /\ peer[a].uid = -1
    BY <1>1 DEF Types, ActType, IInv, PlaceInv, Placed, HasPub, Added
<1> HIDE DEF p, uid
<1> USE DEF Others
<1>3. PlaceInv'
    <2>1. ASSUME NEW x \in Actors, x # a PROVE Placed(x)'
        BY <1>1, <1>2, <2>1 DEF PlaceInv, Placed, handle
    <2>2. Placed(a)'
        BY <1>1, <1>2 DEF PlaceInv, Placed, handle, Added
    <2> QED BY <1>1, <1>2, <2>1, <2>2 DEF PlaceInv, handle
<1>4. AloneInv'
    <2> SUFFICES ASSUME ~overlapped' PROVE AloneInv'
        BY DEF AloneInv
    <2>1. ~overlapped
        BY <1>1 DEF history
    <2>2. /\ \A x, y \in Actors : x \in Busy /\ y \in Busy => x = y
          /\ ~TwoThreads /\ ~SameUid
          /\ p = pub /\ uid = rtc[pub].uidSeq
          /\ \A x \in Actors : act[x].pc \in Added => peer[x].rtc = pub /\ peer[x].uid < rtc[pub].uidSeq
          /\ \A x \in Actors : thread[x].pc # "none" => isInitRtc \/ act[x].pc = "answer"
        BY <1>1, <2>1 DEF AloneInv, IInv, p, uid
    <2>3. a \in Busy /\ Busy' = Busy
        BY <1>1 DEF Busy, Begun
    <2>4. ASSUME NEW x \in Actors, x # a
          PROVE  act'[x] = act[x] /\ act[x].pc \in {"none", "done", "failed"}
        BY <1>1, <2>2, <2>3, <2>4 DEF Busy, Begun
    <2>5. rtc'[pub].uidSeq = uid + 1
        BY <1>1, <2>2
    <2>6. ASSUME NEW x \in Actors, act'[x].pc \in Added
          PROVE  peer'[x].rtc = pub' /\ peer'[x].uid < rtc'[pub'].uidSeq
        <3>1. CASE x = a
            BY <3>1, <1>1, <1>2, <2>2, <2>5 DEF handle
        <3>2. CASE x # a
            <4>1. peer'[x] = peer[x] /\ act[x].pc \in Added
                BY <3>2, <2>4, <2>6, <1>1
            <4>2. peer[x].uid \in Nat
                BY <4>1, <1>2 DEF PlaceInv, Placed
            <4> QED BY <4>1, <4>2, <1>1, <1>2, <2>2, <2>5 DEF handle
        <3> QED BY <3>1, <3>2
    <2>7. ~SameUid'
        <3>1. ASSUME NEW x \in Actors, x # a PROVE peer'[x] = peer[x] /\ peer'[x].uid # uid
            <4>1. peer'[x] = peer[x]
                BY <3>1, <1>1
            <4>2. peer[x].uid = -1 \/ (peer[x].uid \in Nat /\ peer[x].uid < uid)
                BY <1>2, <2>2 DEF PlaceInv, Placed
            <4> QED BY <4>1, <4>2, <1>2
        <3> QED BY <3>1, <1>1, <2>2 DEF SameUid
    <2>8. ~TwoThreads'
        BY <1>1, <2>2 DEF TwoThreads
    <2>9. ASSUME NEW x \in Actors
          PROVE  /\ act'[x].pc \notin {"newRtc", "startRtc"}
                 /\ thread'[x].pc # "none" => isInitRtc' \/ act'[x].pc = "answer"
        BY <1>1, <2>2, <2>4 DEF handle
    <2>10. \A x, y \in Actors : x \in Busy' /\ y \in Busy' => x = y
        BY <2>2, <2>3
    <2> QED BY <2>6, <2>7, <2>8, <2>9, <2>10 DEF AloneInv
<1>5. LeftInv'
    <2>1. SameUid => SameUid'
        BY <1>1, <1>2, UidsStay
    <2>2. ASSUME NEW q \in Actors, NEW i \in 1 .. Len(rtc'[q].removeList)
          PROVE  \E h \in left' : peer'[h].rtc = q /\ peer'[h].uid = rtc'[q].removeList[i]
        <3>1. rtc'[q].removeList = rtc[q].removeList /\ rtc[q].removeList[i] \in Nat
            BY <1>1, ElementOfSeq DEF Types, RtcType
        <3>2. PICK h \in left : peer[h].rtc = q /\ peer[h].uid = rtc[q].removeList[i]
            BY <3>1 DEF LeftInv, IInv
        <3>3. h \in Actors /\ h # a
            BY <3>1, <3>2, <1>2 DEF Types, ServerTypes
        <3> QED BY <3>1, <3>2, <3>3, <1>1 DEF history
    <2>3. ASSUME NEW q \in Actors, rtc'[q].clientUid # -1
          PROVE  act'[App].pc = "failed" \/ (peer'[App].rtc = q /\ peer'[App].uid = rtc'[q].clientUid)
        <3>1. CASE a = App
            <4>1. \A r \in Actors : rtc[r].clientUid = -1
                BY <3>1, <1>1, <1>2 DEF LeftInv, IInv
            <4> QED BY <3>1, <4>1, <2>3, <1>1
        <3>2. CASE a # App
            <4>1. rtc'[q].clientUid = rtc[q].clientUid
                BY <3>2, <1>1
            <4> QED BY <3>2, <4>1, <2>3, <1>1, AppIsActor DEF LeftInv, IInv
        <3> QED BY <3>1, <3>2
    <2>4. OnlyTheLeftAreFreed' /\ \A b \in Actors : thread'[b].pc = "join" => thread'[b].peer \in left' \/ SameUid'
        BY <2>1, <1>1 DEF LeftInv, IInv, OnlyTheLeftAreFreed, history
    <2> QED BY <2>2, <2>3, <2>4 DEF LeftInv
<1>6. CleanInv'
    <2>1. AddedStay /\ StaysStarted /\ KeepsJoined
        BY <1>1 DEF AddedStay, StaysStarted, KeepsJoined, Added
    <2> QED BY <1>1, <2>1, CleanKept DEF IInv, history
<1> QED BY <1>1, <1>3, <1>4, <1>5, <1>6

LEMMA ConnectFailsKeeps ==
    ASSUME Types, IInv, ConnectFails
    PROVE  Types' /\ PlaceInv' /\ AloneInv' /\ LeftInv' /\ CleanInv'
<1> DEFINE p == act[App].rtc
           uid == act[App].seq
           ac == [act[App] EXCEPT !.pc = "failed", !.rtc = None, !.seq = 0]
           rc == [rtc[p] EXCEPT !.uidSeq = uid + 1, !.clientUid = uid]
<1>1. /\ App \in Actors /\ act[App].pc = "startRtc" /\ p \in Actors /\ pub \in Actors
      /\ act[App] \in ActType /\ rtc[p] \in RtcType
      /\ peer[App].rtc = None /\ peer[App].uid = -1 /\ peer[App].udp = "none"
    BY AppIsActor DEF ConnectFails, IInv, PlaceInv, Placed, Types, HasPub, Added
<1>2. uid \in Nat /\ uid + 1 \in Nat
    BY <1>1 DEF ActType
<1>3. ac \in ActType /\ ac.pc = "failed"
    BY <1>1 DEF ActType
<1>4. /\ rc \in RtcType /\ rc.uidSeq = uid + 1 /\ rc.pushs = rtc[p].pushs
      /\ rc.clientUid = uid /\ rc.removeList = rtc[p].removeList
    <2> HIDE DEF uid
    <2> QED BY <1>1, <1>2 DEF RtcType
<1>5. /\ act' = [act EXCEPT ![App] = ac] /\ rtc' = [rtc EXCEPT ![p] = rc]
      /\ UNCHANGED <<server, handle, peer, thread, freed, history>>
    BY DEF ConnectFails
<1> HIDE DEF ac, rc
<1>6. act' \in [Actors -> ActType] /\ act'[App] = ac /\ Others(act, act', App)
    BY <1>1, <1>3, <1>5, ActTo DEF Types
<1>7. rtc' \in [Actors -> RtcType] /\ rtc'[p] = rc /\ Others(rtc, rtc', p)
    BY <1>1, <1>4, <1>5, RtcTo DEF Types
<1>8. Types'
    BY <1>5, <1>6, <1>7 DEF Types, ServerTypes, server, handle, history
<1>9. act'[App].pc = "failed" /\ rtc'[p].uidSeq = uid + 1
    BY <1>3, <1>4, <1>6, <1>7
<1>10. \A q \in Actors : rtc'[q].removeList = rtc[q].removeList /\ rtc'[q].pushs = rtc[q].pushs
    BY <1>4, <1>7 DEF Others
<1> HIDE DEF p, uid
<1>11. PlaceInv'
    <2>1. ASSUME NEW x \in Actors, x # App PROVE Placed(x)'
        BY <1>5, <1>6, <2>1 DEF IInv, PlaceInv, Placed, handle, Others
    <2>2. Placed(App)'
        BY <1>1, <1>5, <1>9 DEF IInv, PlaceInv, Placed, handle, Added
    <2> QED BY <1>5, <2>1, <2>2 DEF IInv, PlaceInv, handle
<1>12. AloneInv'
    <2> SUFFICES ASSUME ~overlapped' PROVE AloneInv'
        BY DEF AloneInv
    <2>1. ~overlapped
        BY <1>5 DEF history
    <2>2. /\ \A x, y \in Actors : x \in Busy /\ y \in Busy => x = y
          /\ ~TwoThreads /\ ~SameUid
          /\ p = pub /\ uid = rtc[pub].uidSeq
          /\ \A x \in Actors : act[x].pc \in Added => peer[x].rtc = pub /\ peer[x].uid < rtc[pub].uidSeq
          /\ \A x \in Actors : thread[x].pc # "none" => isInitRtc \/ act[x].pc = "answer"
        BY <1>1, <2>1 DEF AloneInv, IInv, p, uid
    <2>3. App \in Busy /\ \A x \in Actors : x # App => act'[x] = act[x] /\ x \notin Busy
        BY <1>1, <1>6, <2>2 DEF Busy, Begun, Others
    <2>4. \A x \in Actors : act'[x].pc \in {"none", "done", "failed"}
        BY <2>3, <1>9 DEF Busy, Begun
    <2>5. \A x \in Actors : x \notin Busy'
        BY <2>4 DEF Busy, Begun
    <2>6. ASSUME NEW x \in Actors, act'[x].pc \in Added
          PROVE  peer'[x].rtc = pub' /\ peer'[x].uid < rtc'[pub'].uidSeq
        <3>1. x # App /\ act[x].pc \in Added
            BY <2>3, <2>6, <1>9 DEF Added
        <3>2. peer[x].uid \in Nat
            BY <3>1 DEF IInv, PlaceInv, Placed
        <3> QED BY <3>1, <3>2, <1>2, <1>5, <1>9, <2>2 DEF handle
    <2>7. ~TwoThreads' /\ ~SameUid'
        BY <1>5, <2>2 DEF TwoThreads, SameUid
    <2>8. \A x \in Actors : thread'[x].pc # "none" => isInitRtc' \/ act'[x].pc = "answer"
        BY <1>1, <1>5, <2>2, <2>3 DEF handle
    <2> QED BY <2>4, <2>5, <2>6, <2>7, <2>8 DEF AloneInv
<1>13. LeftInv'
    BY <1>5, <1>9, <1>10 DEF LeftInv, IInv, SameUid, OnlyTheLeftAreFreed, history
<1>14. CleanInv'
    <2>1. AddedStay /\ StaysStarted /\ KeepsJoined /\ KeepsLists
        BY <1>1, <1>5, <1>6, <1>10
           DEF AddedStay, StaysStarted, KeepsJoined, KeepsLists, Added, Others
    <2> QED BY <1>5, <2>1, CleanKept DEF IInv, history
<1> QED BY <1>8, <1>11, <1>12, <1>13, <1>14

\* What the next steps of a call have in common.
AddedMove(a) ==
    /\ act[a].pc \in Added /\ act'[a].pc \in Added
    /\ act[a].pc # "done"
    /\ act'[a].pc # "push"
    /\ Others(act, act', a)
    /\ UNCHANGED <<pub, peer, freed, left, touched, overlapped>>
    /\ KeepsUids /\ KeepsRemoved

LEMMA AddedKeeps ==
    ASSUME Types, IInv, NEW a \in Actors, AddedMove(a)
    PROVE  /\ AddedStay
           /\ KeepsPeers
           /\ /\ \A b \in Actors : thread'[b].pc # "none" =>
                    thread'[b].rtc \in Actors /\ act'[b].pc \in {"answer", "done"}
              /\ \A b \in Actors : Waits(b)'
              => PlaceInv'
           /\ KeepsJoined => LeftInv'
<1>1. AddedStay /\ KeepsPeers
    BY DEF AddedMove, AddedStay, KeepsPeers, Others, Added
<1>2. ASSUME KeepsJoined PROVE LeftInv'
    <2>1. act[App].pc = "failed" => act'[App].pc = "failed"
        BY AppIsActor DEF AddedMove, Others, Added
    <2> QED BY <1>1, <1>2, <2>1, LeftKept DEF AddedMove, IInv
<1>3. ASSUME \A b \in Actors : thread'[b].pc # "none" =>
                thread'[b].rtc \in Actors /\ act'[b].pc \in {"answer", "done"},
             \A b \in Actors : Waits(b)'
      PROVE  PlaceInv'
    <2>1. pub \in Actors /\ pub' = pub
        BY DEF AddedMove, IInv, PlaceInv, Placed, HasPub
    <2>2. ASSUME NEW x \in Actors, x # a PROVE Placed(x)'
        BY <1>3, <2>1, <2>2 DEF AddedMove, IInv, PlaceInv, Placed, Waits, Others
    <2>3. Placed(a)'
        BY <1>3, <2>1 DEF AddedMove, IInv, PlaceInv, Placed, Waits, Added
    <2> QED BY <2>1, <2>2, <2>3 DEF PlaceInv
<1> QED BY <1>1, <1>2, <1>3

\* As long as no two calls overlapped, the other actors are at rest.
LEMMA OthersRest ==
    ASSUME AloneInv, ~overlapped, NEW a \in Actors, act[a].pc \notin {"none", "done", "failed"}
    PROVE  \A x \in Actors : x # a => act[x].pc \in {"none", "done", "failed"}
BY DEF AloneInv, Busy, Begun

LEMMA AddedAlone ==
    ASSUME Types, IInv, NEW a \in Actors, AddedMove(a),
           ~overlapped => /\ ~TwoThreads'
                          /\ \A x \in Actors :
                                thread'[x].pc # "none" => isInitRtc' \/ act'[x].pc = "answer"
    PROVE  AloneInv'
<1> SUFFICES ASSUME ~overlapped' PROVE AloneInv'
    BY DEF AloneInv
<1>1. ~overlapped /\ act[a].pc \notin {"none", "done", "failed"}
    BY DEF AddedMove, Added
<1>2. \A x \in Actors : x # a => act'[x] = act[x] /\ act'[x].pc \in {"none", "done", "failed"}
    BY <1>1, OthersRest DEF IInv, AddedMove, Others
<1>3. \A x, y \in Actors : x \in Busy' /\ y \in Busy' => x = y
    BY <1>2 DEF Busy, Begun
<1>4. ~SameUid'
    BY <1>1 DEF IInv, AloneInv, SameUid, AddedMove
<1>5. \A x \in Actors : act'[x].pc \notin {"newRtc", "startRtc"}
    BY <1>2 DEF AddedMove, Added
<1>6. ASSUME NEW x \in Actors, act'[x].pc \in Added
      PROVE  peer'[x].rtc = pub' /\ peer'[x].uid < rtc'[pub'].uidSeq
    <2>1. act[x].pc \in Added /\ pub \in Actors
        BY <1>2, <1>6 DEF AddedMove, IInv, PlaceInv, Placed, HasPub
    <2> QED BY <1>1, <2>1 DEF IInv, AloneInv, AddedMove, KeepsUids
<1> QED BY <1>1, <1>3, <1>4, <1>5, <1>6 DEF AloneInv

LEMMA PushKeeps ==
    ASSUME Types, IInv, NEW a \in Actors, Push(a)
    PROVE  Types' /\ PlaceInv' /\ AloneInv' /\ LeftInv' /\ CleanInv'
<1> DEFINE p == act[a].rtc
           new == Append(act[a].list, a)
           ac == [act[a] EXCEPT !.pc = "initRtc2", !.rtc = None, !.seq = 0, !.list = << >>]
           rc == [rtc[p] EXCEPT !.pushs = new]
<1>1. /\ act[a].pc = "push" /\ p \in Actors /\ act[a] \in ActType /\ rtc[p] \in RtcType
    BY DEF Push, IInv, PlaceInv, Placed, Types
<1>2. act[a].list \in Seq(Actors) /\ rtc[p].pushs \in Seq(Actors) /\ << >> \in Seq(Actors)
    BY <1>1, EmptySeq DEF ActType, RtcType
<1>3. /\ new \in Seq(Actors) /\ Len(new) = Len(act[a].list) + 1 /\ new[Len(act[a].list) + 1] = a
      /\ \A i \in 1 .. Len(act[a].list) : new[i] = act[a].list[i]
    BY <1>2, AppendProperties
<1>4. ac \in ActType /\ ac.pc = "initRtc2"
    BY <1>1, <1>2 DEF ActType
<1> HIDE DEF new
<1>5. /\ rc \in RtcType /\ rc.pushs = new /\ rc.uidSeq = rtc[p].uidSeq
      /\ rc.clientUid = rtc[p].clientUid /\ rc.removeList = rtc[p].removeList
    BY <1>1, <1>3 DEF RtcType
<1>6. /\ act' = [act EXCEPT ![a] = ac]
      /\ rtc' = [rtc EXCEPT ![p] = rc]
      /\ torn' = (torn \/ act[a].list # rtc[p].pushs)
      /\ UNCHANGED <<server, handle, peer, thread, freed, left, touched, overlapped>>
    BY DEF Push, new
<1> HIDE DEF ac, rc
<1>7. act' \in [Actors -> ActType] /\ act'[a] = ac /\ Others(act, act', a)
    BY <1>1, <1>4, <1>6, ActTo DEF Types
<1>8. rtc' \in [Actors -> RtcType] /\ rtc'[p] = rc /\ Others(rtc, rtc', p)
    BY <1>1, <1>5, <1>6, RtcTo DEF Types
<1>9. Types'
    <2>1. torn' \in BOOLEAN
        BY <1>6
    <2> QED BY <2>1, <1>6, <1>7, <1>8 DEF Types, ServerTypes, server, handle
<1>10. AddedMove(a) /\ rtc'[p].pushs = new
    BY <1>1, <1>4, <1>5, <1>6, <1>7, <1>8
       DEF AddedMove, Added, KeepsUids, KeepsRemoved, Others, handle
<1> HIDE DEF p
<1>11. PlaceInv' /\ LeftInv' /\ AddedStay
    <2>1. \A b \in Actors : thread'[b].pc # "none" =>
             thread'[b].rtc \in Actors /\ act'[b].pc \in {"answer", "done"}
        BY <1>1, <1>6, <1>7 DEF IInv, PlaceInv, Placed, Others
    <2>2. \A b \in Actors : Waits(b)'
        BY <1>6 DEF IInv, PlaceInv, Placed, Waits
    <2>3. KeepsJoined
        BY <1>6 DEF KeepsJoined
    <2> QED BY <1>10, <2>1, <2>2, <2>3, AddedKeeps
<1>12. AloneInv'
    <2>1. ASSUME ~overlapped
          PROVE  /\ ~TwoThreads'
                 /\ \A x \in Actors : thread'[x].pc # "none" => isInitRtc' \/ act'[x].pc = "answer"
        BY <1>1, <1>6, <1>7, <2>1 DEF IInv, AloneInv, TwoThreads, Others, handle
    <2> QED BY <1>10, <2>1, AddedAlone
<1>13. CleanInv'
    <2> SUFFICES ASSUME ~torn', ~TwoThreads' PROVE CleanInv'
        BY DEF CleanInv
    <2>1. ~torn /\ ~TwoThreads /\ act[a].list = rtc[p].pushs
        BY <1>6 DEF TwoThreads
    <2> DEFINE n == Len(rtc[p].pushs)
    <2>2. /\ n \in Nat /\ Len(rtc'[p].pushs) = n + 1 /\ rtc'[p].pushs[n + 1] = a
          /\ \A i \in 1 .. n : rtc'[p].pushs[i] = rtc[p].pushs[i]
        BY <1>2, <1>3, <1>10, <2>1, LenProperties
    <2>3. ASSUME NEW q \in Actors, NEW i \in 1 .. Len(rtc[q].pushs)
          PROVE  /\ rtc[q].pushs[i] \in Actors /\ rtc[q].pushs[i] \notin freed
                 /\ act[rtc[q].pushs[i]].pc \in Added \ {"push"}
                 /\ rtc[q].pushs[i] # a
        <3>1. rtc[q].pushs[i] \in Actors
            BY ElementOfSeq DEF Types, RtcType
        <3> QED BY <3>1, <1>1, <2>1 DEF IInv, CleanInv
    <2>4. ASSUME NEW q \in Actors, NEW i \in 1 .. Len(rtc'[q].pushs)
          PROVE  \/ q = p /\ i = n + 1 /\ rtc'[q].pushs[i] = a
                 \/ i \in 1 .. Len(rtc[q].pushs) /\ rtc'[q].pushs[i] = rtc[q].pushs[i]
        <3>1. CASE q = p
            BY <3>1, <2>2
        <3>2. CASE q # p
            BY <3>2, <1>8 DEF Others
        <3> QED BY <3>1, <3>2
    <2> HIDE DEF n
    <2>5. a \notin freed /\ act'[a].pc = "initRtc2"
        BY <1>1, <1>4, <1>7, <2>1 DEF IInv, CleanInv
    <2>6. ASSUME NEW q \in Actors, NEW r \in Actors,
                 NEW i \in 1 .. Len(rtc'[q].pushs), NEW j \in 1 .. Len(rtc'[r].pushs),
                 rtc'[q].pushs[i] = rtc'[r].pushs[j]
          PROVE  q = r /\ i = j
        <3>1. CASE rtc'[q].pushs[i] = a
            BY <3>1, <2>3, <2>4, <2>6
        <3>2. CASE rtc'[q].pushs[i] # a
            BY <3>2, <2>1, <2>4, <2>6 DEF IInv, CleanInv
        <3> QED BY <3>1, <3>2
    <2>7. ASSUME NEW q \in Actors, NEW i \in 1 .. Len(rtc'[q].pushs)
          PROVE  /\ rtc'[q].pushs[i] \notin freed'
                 /\ act'[rtc'[q].pushs[i]].pc \in Added \ {"push"}
        BY <2>3, <2>4, <2>5, <1>6, <1>11 DEF AddedStay, Added
    <2>8. \A h \in freed' : act'[h].pc \in Added \ {"push"}
        BY <2>1, <1>6, <1>11 DEF IInv, CleanInv, AddedStay, Types, ServerTypes
    <2>9. ASSUME NEW b \in Actors, thread'[b].pc = "join"
          PROVE  /\ thread'[b].at <= Len(rtc'[thread'[b].rtc].pushs)
                 /\ rtc'[thread'[b].rtc].pushs[thread'[b].at] = thread'[b].peer
        <3>1. /\ thread' = thread /\ thread[b].rtc \in Actors
              /\ thread[b].at \in Nat /\ thread[b].at > 0
            BY <2>9, <1>6 DEF IInv, PlaceInv, Placed, Types, ThreadType
        <3>2. /\ thread[b].at <= Len(rtc[thread[b].rtc].pushs)
              /\ rtc[thread[b].rtc].pushs[thread[b].at] = thread[b].peer
            <4>1. thread[b].pc = "join"
                BY <2>9, <3>1
            <4>2. \A c \in Actors :
                     thread[c].pc = "join" =>
                        /\ thread[c].at <= Len(rtc[thread[c].rtc].pushs)
                        /\ rtc[thread[c].rtc].pushs[thread[c].at] = thread[c].peer
                BY <2>1 DEF IInv, CleanInv
            <4> QED BY <4>1, <4>2
        <3>3. CASE thread[b].rtc = p
            <4>1. thread[b].at \in 1 .. n
                BY <3>1, <3>2, <3>3, <2>2 DEF n
            <4>2. /\ rtc'[p].pushs[thread[b].at] = thread[b].peer
                  /\ thread[b].at <= Len(rtc'[p].pushs)
                BY <4>1, <3>2, <3>3, <2>2
            <4> QED BY <4>2, <3>1, <3>3
        <3>4. CASE thread[b].rtc # p
            BY <3>1, <3>2, <3>4, <1>8 DEF Others
        <3> QED BY <3>3, <3>4
    <2>10. touched' = {}
        BY <2>1, <1>6 DEF IInv, CleanInv
    <2> QED BY <2>6, <2>7, <2>8, <2>9, <2>10 DEF CleanInv
<1> QED BY <1>9, <1>11, <1>12, <1>13

LEMMA InitRtc2Keeps ==
    ASSUME Types, IInv, NEW a \in Actors, InitRtc2(a)
    PROVE  Types' /\ PlaceInv' /\ AloneInv' /\ LeftInv' /\ CleanInv'
<1> DEFINE e == [thread[a] EXCEPT !.pc = "run", !.rtc = pub]
           starts == ~isInitRtc /\ rtc[pub].isStart = 0
<1>1. /\ act[a].pc = "initRtc2" /\ pub \in Actors
      /\ UNCHANGED <<server, handle, rtc, peer, freed, history>>
    BY DEF InitRtc2, IInv, PlaceInv, Placed, HasPub, Added
<1>2. act' \in [Actors -> ActType] /\ act'[a].pc = "answer" /\ Others(act, act', a)
    BY GotoTo DEF InitRtc2, Types, ActPcs
<1>3. e \in ThreadType /\ e.pc = "run" /\ e.rtc = pub
    BY <1>1 DEF Types, ThreadType
<1>4. thread' = IF starts THEN [thread EXCEPT ![a] = e] ELSE thread
    BY DEF InitRtc2
<1> HIDE DEF e, starts
<1>5. thread' \in [Actors -> ThreadType] /\ Others(thread, thread', a) /\ thread'[a] \in {thread[a], e}
    <2>1. CASE starts
        BY <2>1, <1>3, <1>4, ThreadTo DEF Types
    <2>2. CASE ~starts
        BY <2>2, <1>4 DEF Types, Others
    <2> QED BY <2>1, <2>2
<1>6. Types'
    BY <1>1, <1>2, <1>5 DEF Types, ServerTypes, server, handle, history
<1>7. AddedMove(a)
    BY <1>1, <1>2 DEF AddedMove, Added, KeepsUids, KeepsRemoved, handle, history
<1>8. /\ \A b \in Actors : thread'[b].pc # "none" =>
            thread'[b].rtc \in Actors /\ act'[b].pc \in {"answer", "done"}
      /\ \A b \in Actors : Waits(b)'
      /\ KeepsJoined /\ StaysStarted
    <2>1. thread[a].pc = "none"
        BY <1>1 DEF IInv, PlaceInv, Placed
    <2> QED BY <2>1, <1>1, <1>2, <1>3, <1>5
            DEF IInv, PlaceInv, Placed, Waits, KeepsJoined, StaysStarted, Others
<1>9. PlaceInv' /\ LeftInv' /\ AddedStay
    BY <1>7, <1>8, AddedKeeps
<1>10. AloneInv'
    <2>1. ASSUME ~overlapped
          PROVE  /\ ~TwoThreads'
                 /\ \A x \in Actors : thread'[x].pc # "none" => isInitRtc' \/ act'[x].pc = "answer"
        <3>1. \A x \in Actors : x # a => act[x].pc # "answer" /\ act'[x].pc # "answer"
            BY <1>1, <1>2, <2>1, OthersRest DEF IInv, Others
        <3>2. \A x \in Actors : thread[x].pc # "none" => isInitRtc
            BY <1>1, <2>1, <3>1 DEF IInv, AloneInv
        <3>3. starts => \A x \in Actors : thread[x].pc = "none"
            BY <3>2 DEF starts
        <3>4. ~TwoThreads'
            <4>1. CASE starts
                BY <4>1, <3>3, <1>5 DEF TwoThreads, Others
            <4>2. CASE ~starts
                BY <4>2, <1>4, <2>1 DEF TwoThreads, IInv, AloneInv
            <4> QED BY <4>1, <4>2
        <3>5. \A x \in Actors : thread'[x].pc # "none" => isInitRtc' \/ act'[x].pc = "answer"
            BY <1>1, <1>2, <1>5, <3>2 DEF handle, Others
        <3> QED BY <3>4, <3>5
    <2> QED BY <1>7, <2>1, AddedAlone
<1>11. CleanInv'
    BY <1>1, <1>8, <1>9, CleanKept DEF IInv, KeepsLists, history
<1> QED BY <1>6, <1>9, <1>10, <1>11

LEMMA AnswerKeeps ==
    ASSUME Types, IInv, NEW a \in Actors, Answer(a)
    PROVE  Types' /\ PlaceInv' /\ AloneInv' /\ LeftInv' /\ CleanInv'
<1>1. /\ act[a].pc = "answer" /\ act[a] \in ActType
      /\ isInitRtc' = TRUE
      /\ answered' = IF a = App THEN answered ELSE answered \cup {act[a].conn}
      /\ UNCHANGED <<connFd, pub, rtc, peer, thread, freed, history>>
    BY DEF Answer, Types
<1>2. act' \in [Actors -> ActType] /\ act'[a].pc = "done" /\ Others(act, act', a)
    BY GotoTo DEF Answer, Types, ActPcs
<1>3. AddedMove(a) /\ KeepsJoined /\ StaysStarted /\ KeepsLists
    BY <1>1, <1>2
       DEF AddedMove, Added, KeepsUids, KeepsRemoved, history, KeepsJoined, StaysStarted, KeepsLists
<1>4. PlaceInv' /\ LeftInv' /\ AddedStay
    <2>1. /\ \A b \in Actors : thread'[b].pc # "none" =>
                thread'[b].rtc \in Actors /\ act'[b].pc \in {"answer", "done"}
          /\ \A b \in Actors : Waits(b)'
        BY <1>1, <1>2 DEF IInv, PlaceInv, Placed, Waits, Others
    <2> QED BY <1>3, <2>1, AddedKeeps
<1>5. AloneInv'
    <2>1. ~overlapped => ~TwoThreads'
        BY <1>1 DEF IInv, AloneInv, TwoThreads
    <2> QED BY <1>1, <1>3, <2>1, AddedAlone
<1>6. CleanInv'
    BY <1>1, <1>3, <1>4, CleanKept DEF IInv, history
<1>7. Types'
    <2>1. answered' \in SUBSET Conns
        <3>1. a # App => act[a].conn \in Conns
            BY <1>1 DEF IInv, ConnInv, Actors
        <3> QED BY <3>1, <1>1 DEF Types, ServerTypes
    <2> QED BY <2>1, <1>1, <1>2 DEF Types, ServerTypes, history
<1> QED BY <1>4, <1>5, <1>6, <1>7

\* An actor keeps the connection it has read.
LEMMA ConnKept ==
    ASSUME ConnInv, NEW a \in Actors, Others(act, act', a), connFd' = connFd,
           act[a].pc \notin {"none", "new"}, act'[a].conn = act[a].conn
    PROVE  ConnInv'
BY DEF ConnInv, Others, Actors

LEMMA ConnKeeps ==
    ASSUME Types, ConnInv, Next
    PROVE  ConnInv'
<1> USE DEF server
<1>1. ASSUME NEW c \in Conns, Accept(c) PROVE ConnInv'
    <2>1. c \in Actors /\ act[c].pc = "none" /\ Goto(c, "new") /\ connFd' = c
        BY <1>1 DEF Accept, Begin, Actors
    <2>2. /\ act'[c].pc = "new" /\ Others(act, act', c)
        BY <2>1, GotoTo DEF Types, ActPcs
    <2> QED BY <2>1, <2>2 DEF ConnInv, Others, Actors
<1>2. CASE ConnectRtc
    <2>1. App \in Actors /\ App \notin Conns /\ Goto(App, "initRtc") /\ connFd' = connFd
        BY <1>2, AppIsActor, AppIsNoConn DEF ConnectRtc, Begin
    <2>2. Others(act, act', App)
        BY <2>1, GotoTo DEF Types, ActPcs
    <2> QED BY <2>1, <2>2 DEF ConnInv, Others, Actors
<1>3. CASE ConnectFails
    <2> DEFINE e == [act[App] EXCEPT !.pc = "failed", !.rtc = None, !.seq = 0]
    <2>1. /\ act[App].pc = "startRtc" /\ act' = [act EXCEPT ![App] = e] /\ connFd' = connFd
        BY <1>3 DEF ConnectFails
    <2>2. e \in ActType /\ e.conn = act[App].conn
        BY AppIsActor DEF Types, ActType
    <2> HIDE DEF e
    <2> QED BY <2>1, <2>2, AppIsActor, ActTo, ConnKept DEF Types
<1>4. CASE DisConnectPeer
    BY <1>4 DEF DisConnectPeer, ConnInv
<1>5. ASSUME NEW a \in Actors, Connected(a) \/ CloseNotify(a) \/ Udp(a) \/ Publisher(a)
      PROVE  ConnInv'
    <2>1. act' = act /\ connFd' = connFd
        BY <1>5 DEF Connected, CloseNotify, Udp, SslAlert, SetStop, Publisher, Run, Loop, Publish,
                    Lock, RemoveStream, Erase, Unlock
    <2> QED BY <2>1 DEF ConnInv
<1>6. ASSUME NEW a \in Actors, Call(a) PROVE ConnInv'
    <2>1. ASSUME NEW from \in ActPcs \ {"none", "new"}, NEW to \in ActPcs,
                 act[a].pc = from, Goto(a, to), connFd' = connFd
          PROVE  ConnInv'
        BY <2>1, GotoTo, ConnKept DEF Types
    <2>2. CASE ReadConnFd(a)
        <3> DEFINE e == [act[a] EXCEPT !.pc = "recv", !.conn = connFd]
        <3>1. /\ act[a].pc = "new" /\ act' = [act EXCEPT ![a] = e] /\ connFd' = connFd
              /\ a \in Conns
            BY <2>2 DEF ReadConnFd
        <3>2. e \in ActType /\ e.pc = "recv" /\ e.conn = connFd
            <4>1. act[a] \in ActType /\ connFd \in Conns \cup {None}
                BY DEF Types, ServerTypes
            <4> QED BY <4>1 DEF ActType
        <3> HIDE DEF e
        <3>3. act'[a] = e /\ Others(act, act', a)
            BY <3>1, <3>2, ActTo DEF Types
        <3> QED BY <3>1, <3>2, <3>3 DEF ConnInv, Others, Actors
    <2>3. CASE ReadOffer(a) \/ InitRtc(a)
        <3>1. PICK to \in {"addPeer", "initRtc", "newRtc"} : Goto(a, to)
            BY <2>3 DEF ReadOffer, InitRtc
        <3> QED BY <2>1, <2>3, <3>1 DEF ReadOffer, InitRtc, ActPcs
    <2>4. CASE ConnClosed(a) \/ NewRtc(a)
        BY <2>1, <2>4 DEF ConnClosed, NewRtc, ActPcs
    <2>5. CASE InitRtc2(a) \/ Answer(a)
        BY <2>1, <2>5 DEF InitRtc2, Answer, ActPcs
    <2>6. ASSUME NEW e, act' = [act EXCEPT ![a] = e], e.conn = act[a].conn,
                 act[a].pc \notin {"none", "new"}, connFd' = connFd
          PROVE  ConnInv'
        <3>1. act'[a] = e /\ Others(act, act', a)
            BY <2>6 DEF Types, Others
        <3> QED BY <2>6, <3>1, ConnKept
    <2>a. act[a] \in ActType
        BY DEF Types
    <2>7. CASE ReadUid(a)
        <3> DEFINE e == [act[a] EXCEPT !.pc = "startRtc", !.rtc = pub, !.seq = rtc[pub].uidSeq]
        <3>1. /\ act[a].pc = "addPeer" /\ act' = [act EXCEPT ![a] = e] /\ connFd' = connFd
            BY <2>7 DEF ReadUid
        <3>2. e.conn = act[a].conn
            BY <2>a DEF ActType
        <3> HIDE DEF e
        <3> QED BY <2>6, <3>1, <3>2
    <2>8. CASE StartPeer(a)
        <3> DEFINE e == [act[a] EXCEPT !.pc = "push", !.list = rtc[act[a].rtc].pushs]
        <3>1. /\ act[a].pc = "startRtc" /\ act' = [act EXCEPT ![a] = e] /\ connFd' = connFd
            BY <2>8 DEF StartPeer
        <3>2. e.conn = act[a].conn
            BY <2>a DEF ActType
        <3> HIDE DEF e
        <3> QED BY <2>6, <3>1, <3>2
    <2>9. CASE Push(a)
        <3> DEFINE e == [act[a] EXCEPT !.pc = "initRtc2", !.rtc = None, !.seq = 0, !.list = << >>]
        <3>1. /\ act[a].pc = "push" /\ act' = [act EXCEPT ![a] = e] /\ connFd' = connFd
            BY <2>9 DEF Push
        <3>2. e.conn = act[a].conn
            BY <2>a DEF ActType
        <3> HIDE DEF e
        <3> QED BY <2>6, <3>1, <3>2
    <2> QED BY <1>6, <2>2, <2>3, <2>4, <2>5, <2>7, <2>8, <2>9 DEF Call
<1> QED BY <1>1, <1>2, <1>3, <1>4, <1>5, <1>6 DEF Next

-----------------------------------------------------------------------------
(* What is on a publisher's list *)

\* A step that lists no peer anew, gives none another publisher, and begins no addition.
LEMMA ListedKept ==
    ASSUME Types, PlaceInv, ListedInv,
           \A x \in Actors : peer[x].rtc # None => peer'[x].rtc = peer[x].rtc,
           \A p \in Actors : \A i \in 1 .. Len(rtc'[p].pushs) :
              \E j \in 1 .. Len(rtc[p].pushs) : rtc'[p].pushs[i] = rtc[p].pushs[j],
           \A x \in Actors : act'[x].pc = "push" => act'[x] = act[x]
    PROVE  ListedInv'
<1>1. ASSUME NEW p \in Actors, NEW i \in 1 .. Len(rtc'[p].pushs)
      PROVE  peer'[rtc'[p].pushs[i]].rtc = p
    <2>1. PICK j \in 1 .. Len(rtc[p].pushs) : rtc'[p].pushs[i] = rtc[p].pushs[j]
        OBVIOUS
    <2>2. rtc[p].pushs[j] \in Actors
        BY ElementOfSeq DEF Types, RtcType
    <2>3. peer[rtc[p].pushs[j]].rtc = p /\ p # None
        BY AppIsActor DEF ListedInv
    <2> QED BY <2>1, <2>2, <2>3
<1>2. ASSUME NEW a \in Actors, act'[a].pc = "push"
      PROVE  /\ peer'[a].rtc = act'[a].rtc
             /\ \A i \in 1 .. Len(act'[a].list) : peer'[act'[a].list[i]].rtc = act'[a].rtc
    <2>1. /\ act'[a] = act[a] /\ act[a].pc = "push"
          /\ act[a].rtc \in Actors /\ act[a].rtc # None /\ peer[a].rtc = act[a].rtc
        BY <1>2, AppIsActor DEF PlaceInv, Placed, ListedInv
    <2>2. ASSUME NEW i \in 1 .. Len(act[a].list) PROVE peer'[act[a].list[i]].rtc = act[a].rtc
        <3>1. act[a].list[i] \in Actors
            BY ElementOfSeq DEF Types, ActType
        <3>2. peer[act[a].list[i]].rtc = act[a].rtc
            BY <2>1 DEF ListedInv
        <3> QED BY <2>1, <3>1, <3>2
    <2> QED BY <2>1, <2>2
<1> QED BY <1>1, <1>2 DEF ListedInv

LEMMA StartPeerLists ==
    ASSUME Types, PlaceInv, ListedInv, NEW a \in Actors, StartPeer(a)
    PROVE  ListedInv'
<1> DEFINE p == act[a].rtc
<1>1. /\ p \in Actors /\ p # None
      /\ act[a].pc = "startRtc" /\ act'[a].pc = "push"
      /\ act'[a].rtc = p /\ act'[a].list = rtc[p].pushs
      /\ Others(act, act', a) /\ KeepsLists
      /\ Others(peer, peer', a) /\ peer'[a].rtc = p
    BY StartPeerDoes, AppIsActor
<1>2. peer[a].rtc = None
    BY <1>1 DEF PlaceInv, Placed, Added
<1> HIDE DEF p
<1>3. ASSUME NEW x \in Actors, peer[x].rtc # None PROVE peer'[x].rtc = peer[x].rtc
    BY <1>1, <1>2, <1>3 DEF Others
<1>4. ASSUME NEW q \in Actors, NEW i \in 1 .. Len(rtc[q].pushs)
      PROVE  peer'[rtc[q].pushs[i]].rtc = q
    <2>1. rtc[q].pushs[i] \in Actors /\ peer[rtc[q].pushs[i]].rtc = q /\ q # None
        BY ElementOfSeq, AppIsActor DEF Types, RtcType, ListedInv
    <2> QED BY <2>1, <1>3
<1>5. ASSUME NEW x \in Actors, act'[x].pc = "push"
      PROVE  /\ peer'[x].rtc = act'[x].rtc
             /\ \A i \in 1 .. Len(act'[x].list) : peer'[act'[x].list[i]].rtc = act'[x].rtc
    <2>1. CASE x = a
        BY <2>1, <1>1, <1>4
    <2>2. CASE x # a
        <3>1. /\ act'[x] = act[x] /\ act[x].pc = "push"
              /\ act[x].rtc \in Actors /\ act[x].rtc # None /\ peer[x].rtc = act[x].rtc
            BY <2>2, <1>1, <1>5, AppIsActor DEF Others, PlaceInv, Placed, ListedInv
        <3>2. ASSUME NEW i \in 1 .. Len(act[x].list) PROVE peer'[act[x].list[i]].rtc = act[x].rtc
            <4>1. act[x].list[i] \in Actors /\ peer[act[x].list[i]].rtc = act[x].rtc
                BY <3>1, ElementOfSeq DEF Types, ActType, ListedInv
            <4> QED BY <3>1, <4>1, <1>3
        <3> QED BY <3>1, <3>2, <1>3
    <2> QED BY <2>1, <2>2
<1>6. \A q \in Actors : rtc'[q].pushs = rtc[q].pushs
    BY <1>1 DEF KeepsLists
<1> QED BY <1>4, <1>5, <1>6 DEF ListedInv

LEMMA PushLists ==
    ASSUME Types, PlaceInv, ListedInv, NEW a \in Actors, Push(a)
    PROVE  ListedInv'
<1> DEFINE p == act[a].rtc
           new == Append(act[a].list, a)
           ac == [act[a] EXCEPT !.pc = "initRtc2", !.rtc = None, !.seq = 0, !.list = << >>]
           rc == [rtc[p] EXCEPT !.pushs = new]
<1>1. /\ act[a].pc = "push" /\ p \in Actors /\ act[a] \in ActType /\ rtc[p] \in RtcType
      /\ act' = [act EXCEPT ![a] = ac] /\ rtc' = [rtc EXCEPT ![p] = rc] /\ peer' = peer
    BY DEF Push, PlaceInv, Placed, Types
<1>2. act[a].list \in Seq(Actors) /\ Len(act[a].list) \in Nat
    BY <1>1, LenProperties DEF ActType
<1>3. /\ Len(new) = Len(act[a].list) + 1 /\ new[Len(act[a].list) + 1] = a
      /\ \A i \in 1 .. Len(act[a].list) : new[i] = act[a].list[i]
    BY <1>2, AppendProperties
<1>4. ac.pc = "initRtc2"
    BY <1>1 DEF ActType
<1> HIDE DEF new
<1>5. rc.pushs = new
    BY <1>1 DEF RtcType
<1> HIDE DEF ac, rc
<1>6. /\ act'[a].pc = "initRtc2" /\ Others(act, act', a)
      /\ rtc'[p].pushs = new /\ Others(rtc, rtc', p)
    BY <1>1, <1>4, <1>5 DEF Types, Others
<1>7. ASSUME NEW i \in 1 .. Len(new) PROVE peer[new[i]].rtc = p
    <2>1. CASE i = Len(act[a].list) + 1
        BY <2>1, <1>1, <1>3 DEF ListedInv
    <2>2. CASE i # Len(act[a].list) + 1
        <3>1. i \in 1 .. Len(act[a].list)
            BY <2>2, <1>2, <1>3
        <3> QED BY <3>1, <1>1, <1>3 DEF ListedInv
    <2> QED BY <2>1, <2>2
<1> HIDE DEF p
<1>8. ASSUME NEW q \in Actors, NEW i \in 1 .. Len(rtc'[q].pushs)
      PROVE  peer'[rtc'[q].pushs[i]].rtc = q
    <2>1. CASE q = p
        BY <2>1, <1>1, <1>6, <1>7
    <2>2. CASE q # p
        BY <2>2, <1>1, <1>6 DEF Others, ListedInv
    <2> QED BY <2>1, <2>2
<1>9. \A x \in Actors : act'[x].pc = "push" => act'[x] = act[x]
    BY <1>6 DEF Others
<1> QED BY <1>1, <1>8, <1>9 DEF ListedInv

LEMMA EraseLists ==
    ASSUME Types, PlaceInv, ListedInv, NEW b \in Actors, Erase(b)
    PROVE  ListedInv'
<1> DEFINE p == thread[b].rtc
           i == thread[b].at
           h == thread[b].peer
           s == rtc[p].pushs
           t == SubSeq(s, 1, i - 1) \o SubSeq(s, i + 1, Len(s))
           re == [rtc[p] EXCEPT !.pushs = t]
<1>1. /\ p \in Actors /\ h \in Actors /\ rtc[p] \in RtcType /\ peer[h] \in PeerType
      /\ s \in Seq(Actors) /\ Len(s) \in Nat /\ i \in 1 .. Len(s)
    <2>1. thread[b].pc = "join" /\ i <= Len(Mine(b).pushs)
        BY DEF Erase
    <2>2. p \in Actors /\ h \in Actors /\ i \in Nat /\ i > 0
        BY <2>1 DEF PlaceInv, Placed, Types, ThreadType
    <2>3. rtc[p] \in RtcType /\ s \in Seq(Actors) /\ Len(s) \in Nat /\ peer[h] \in PeerType
        BY <2>2, LenProperties DEF Types, RtcType
    <2> QED BY <2>1, <2>2, <2>3 DEF Mine
<1>2. /\ rtc' = [rtc EXCEPT ![p] = re] /\ peer' = [peer EXCEPT ![h].udp = "ended"]
      /\ act' = act
    BY DEF Erase
<1>3. /\ Len(t) = Len(s) - 1
      /\ \A k \in 1 .. Len(t) : t[k] = s[IF k < i THEN k ELSE k + 1]
    BY <1>1, Without
<1> HIDE DEF t
<1>4. re.pushs = t
    BY <1>1 DEF RtcType
<1> HIDE DEF re
<1>5. rtc'[p].pushs = t /\ Others(rtc, rtc', p)
    BY <1>1, <1>2, <1>4 DEF Types, Others
<1>6. ASSUME NEW q \in Actors, NEW k \in 1 .. Len(rtc'[q].pushs)
      PROVE  \E j \in 1 .. Len(rtc[q].pushs) : rtc'[q].pushs[k] = rtc[q].pushs[j]
    <2>1. CASE q = p
        <3>1. k \in 1 .. Len(t) /\ k \in Nat
            BY <2>1, <1>5
        <3>2. CASE k < i
            <4>1. k \in 1 .. Len(s) /\ t[k] = s[k]
                BY <3>1, <3>2, <1>1, <1>3
            <4> QED BY <2>1, <4>1, <1>5
        <3>3. CASE ~(k < i)
            <4>1. k + 1 \in 1 .. Len(s) /\ t[k] = s[k + 1]
                BY <3>1, <3>3, <1>1, <1>3
            <4> QED BY <2>1, <4>1, <1>5
        <3> QED BY <3>2, <3>3
    <2>2. CASE q # p
        BY <2>2, <1>5 DEF Others
    <2> QED BY <2>1, <2>2
<1>7. \A x \in Actors : peer'[x].rtc = peer[x].rtc
    BY <1>1, <1>2 DEF Types, PeerType
<1> QED BY <1>2, <1>6, <1>7, ListedKept

LEMMA ListedKeeps ==
    ASSUME Types, PlaceInv, ListedInv, Next
    PROVE  ListedInv'
\* A step that keeps the lists and the peers of every publisher.
<1>1. ASSUME KeepsLists, \A x \in Actors : peer'[x].rtc = peer[x].rtc,
             \A x \in Actors : act'[x].pc = "push" => act'[x] = act[x]
      PROVE  ListedInv'
    <2>1. ASSUME NEW p \in Actors, NEW i \in 1 .. Len(rtc'[p].pushs)
          PROVE  \E j \in 1 .. Len(rtc[p].pushs) : rtc'[p].pushs[i] = rtc[p].pushs[j]
        BY <1>1 DEF KeepsLists
    <2> QED BY <1>1, <2>1, ListedKept
<1>2. ASSUME NEW a \in Actors, EarlyMove(a) PROVE ListedInv'
    BY <1>1, <1>2 DEF EarlyMove, Others, KeepsLists
<1>3. ASSUME Quiet PROVE ListedInv'
    BY <1>1, <1>3 DEF Quiet, KeepsPeers
<1>4. ASSUME NEW c \in Conns, Accept(c) PROVE ListedInv'
    <2>1. c \in Actors
        BY DEF Actors
    <2> QED BY <2>1, <1>2, <1>4, EarlyDoes
<1>5. CASE ConnectRtc
    BY <1>2, <1>5, EarlyDoes, AppIsActor
\* A step that changes fields of a publisher's record other than its list of peers.
<1>6. ASSUME NEW p, NEW re, rtc' = [rtc EXCEPT ![p] = re], re.pushs = rtc[p].pushs
      PROVE  KeepsLists
    BY <1>6 DEF Types, KeepsLists
<1>7. CASE ConnectFails
    <2> DEFINE p == act[App].rtc
               re == [rtc[p] EXCEPT !.uidSeq = act[App].seq + 1, !.clientUid = act[App].seq]
               ae == [act[App] EXCEPT !.pc = "failed", !.rtc = None, !.seq = 0]
    <2>1. /\ rtc' = [rtc EXCEPT ![p] = re] /\ act' = [act EXCEPT ![App] = ae] /\ peer' = peer
          /\ p \in Actors /\ rtc[p] \in RtcType /\ act[App] \in ActType
        BY <1>7, AppIsActor DEF ConnectFails, PlaceInv, Placed, Types
    <2>2. re.pushs = rtc[p].pushs /\ ae.pc = "failed"
        BY <2>1 DEF RtcType, ActType
    <2> HIDE DEF re, ae
    <2>3. \A x \in Actors : act'[x].pc = "push" => act'[x] = act[x]
        BY <2>1, <2>2, AppIsActor DEF Types
    <2>4. KeepsLists
        BY <1>6, <2>1, <2>2
    <2> QED BY <1>1, <2>1, <2>3, <2>4
<1>8. CASE DisConnectPeer
    <2> DEFINE re == [rtc[pub] EXCEPT !.removeList = Append(rtc[pub].removeList, rtc[pub].clientUid),
                                      !.clientUid = -1]
    <2>1. rtc' = [rtc EXCEPT ![pub] = re] /\ UNCHANGED <<act, peer>> /\ rtc[pub] \in RtcType
        BY <1>8, AppIsActor DEF DisConnectPeer, PlaceInv, Placed, HasPub, Added, Types
    <2>2. re.pushs = rtc[pub].pushs
        BY <2>1 DEF RtcType
    <2> HIDE DEF re
    <2> QED BY <1>1, <1>6, <2>1, <2>2
<1>9. ASSUME NEW a \in Actors, Call(a) PROVE ListedInv'
    <2>1. CASE ReadConnFd(a) \/ ReadOffer(a) \/ ConnClosed(a) \/ InitRtc(a) \/ NewRtc(a) \/ ReadUid(a)
        BY <2>1, <1>2, EarlyDoes
    <2>2. CASE StartPeer(a)
        BY <2>2, StartPeerLists
    <2>3. CASE Push(a)
        BY <2>3, PushLists
    <2>4. CASE InitRtc2(a) \/ Answer(a)
        <3>1. PICK to \in {"answer", "done"} : Goto(a, to)
            BY <2>4 DEF InitRtc2, Answer
        <3>2. act'[a].pc = to /\ Others(act, act', a)
            BY <3>1, GotoTo DEF Types, ActPcs
        <3>3. rtc' = rtc /\ peer' = peer
            BY <2>4 DEF InitRtc2, Answer
        <3> QED BY <1>1, <3>2, <3>3 DEF Others, KeepsLists
    <2> QED BY <1>9, <2>1, <2>2, <2>3, <2>4 DEF Call
<1>10. ASSUME NEW h \in Actors, Connected(h) \/ CloseNotify(h) \/ SetStop(h) PROVE ListedInv'
    BY <1>3, <1>10, UdpQuiet
<1>11. ASSUME NEW h \in Actors, SslAlert(h) PROVE ListedInv'
    <2> DEFINE p == peer[h].rtc
               re == [rtc[p] EXCEPT !.removeList = Append(rtc[p].removeList, peer[h].uid)]
    <2>1. /\ rtc' = [rtc EXCEPT ![p] = re] /\ peer' = [peer EXCEPT ![h].udp = "stop"]
          /\ peer[h].udp = "alert" /\ act' = act
        BY <1>11 DEF SslAlert
    <2>2. p \in Actors /\ rtc[p] \in RtcType
        BY <2>1 DEF PlaceInv, Placed, Added, Types
    <2>3. re.pushs = rtc[p].pushs
        BY <2>2 DEF RtcType
    <2>4. \A x \in Actors : peer'[x].rtc = peer[x].rtc
        BY <2>1 DEF Types, PeerType
    <2> HIDE DEF re, p
    <2> QED BY <1>1, <1>6, <2>1, <2>3, <2>4
<1>12. ASSUME NEW b \in Actors, Publisher(b) PROVE ListedInv'
    <2>1. CASE Run(b) \/ Loop(b) \/ Lock(b) \/ Unlock(b)
        BY <2>1, <1>3, PublisherQuiet
    <2>2. CASE Publish(b)
        BY <2>2, <1>1 DEF Publish, KeepsLists
    <2>3. CASE RemoveStream(b)
        <3> DEFINE p == thread[b].rtc
                   re == [rtc[p] EXCEPT !.removeList = Tail(rtc[p].removeList)]
        <3>1. rtc' = [rtc EXCEPT ![p] = re] /\ act' = act /\ thread[b].pc = "remove"
            BY <2>3 DEF RemoveStream
        <3>2. p \in Actors /\ rtc[p] \in RtcType
            BY <3>1 DEF PlaceInv, Placed, Types
        <3>3. re.pushs = rtc[p].pushs
            BY <3>2 DEF RtcType
        <3>4. \/ peer' = peer
              \/ \E h, stop : peer' = [peer EXCEPT ![h] = [@ EXCEPT !.state = 0, !.isStop = stop]]
            BY <2>3 DEF RemoveStream
        <3>5. \A x \in Actors : peer'[x].rtc = peer[x].rtc
            <4>1. ASSUME NEW h, NEW stop, NEW x \in Actors,
                         peer' = [peer EXCEPT ![h] = [@ EXCEPT !.state = 0, !.isStop = stop]]
                  PROVE  peer'[x].rtc = peer[x].rtc
                <5> DEFINE e == [peer[x] EXCEPT !.state = 0, !.isStop = stop]
                <5>1. peer[x] \in PeerType
                    BY DEF Types
                <5>2. e.rtc = peer[x].rtc
                    BY <5>1 DEF PeerType
                <5>3. CASE h = x
                    <6>1. peer' = [peer EXCEPT ![x] = e]
                        BY <4>1, <5>3
                    <6> HIDE DEF e
                    <6> QED BY <5>2, <6>1 DEF Types
                <5>4. CASE h # x
                    <6> DEFINE v == [peer[h] EXCEPT !.state = 0, !.isStop = stop]
                    <6>1. peer' = [peer EXCEPT ![h] = v]
                        BY <4>1
                    <6>2. peer \in [Actors -> PeerType]
                        BY DEF Types
                    <6> HIDE DEF v
                    <6>3. peer'[x] = peer[x]
                        BY <5>4, <6>1, <6>2, Zenon
                    <6> QED BY <6>3
                <5> QED BY <5>3, <5>4
            <4>2. CASE peer' = peer
                BY <4>2
            <4>3. CASE \E h, stop : peer' = [peer EXCEPT ![h] = [@ EXCEPT !.state = 0, !.isStop = stop]]
                <5>1. PICK h, stop : peer' = [peer EXCEPT ![h] = [@ EXCEPT !.state = 0, !.isStop = stop]]
                    BY <4>3, Zenon
                <5> TAKE x \in Actors
                <5> QED BY <4>1, <5>1, Zenon
            <4> QED BY <3>4, <4>2, <4>3
        <3> HIDE DEF re, p
        <3> QED BY <1>1, <1>6, <3>1, <3>3, <3>5
    <2>4. CASE Erase(b)
        BY <2>4, EraseLists
    <2> QED BY <1>12, <2>1, <2>2, <2>3, <2>4 DEF Publisher
<1> QED BY <1>4, <1>5, <1>7, <1>8, <1>9, <1>10, <1>11, <1>12 DEF Next, Udp

-----------------------------------------------------------------------------
(* A peer leaves *)

Leaves(h, p, u) ==
    /\ peer[h].rtc = p /\ peer[h].uid = u
    /\ Others(rtc, rtc', p)
    /\ rtc'[p].removeList = Append(rtc[p].removeList, u)
    /\ rtc'[p].uidSeq = rtc[p].uidSeq /\ rtc'[p].pushs = rtc[p].pushs
    /\ rtc'[p].clientUid \in {-1, rtc[p].clientUid}
    /\ KeepsPeers
    /\ left' = left \cup {h}
    /\ UNCHANGED <<act, handle, thread, freed, touched, overlapped, torn>>

LEMMA LeavesKeeps ==
    ASSUME Types, IInv, NEW h \in Actors, NEW p \in Actors, NEW u \in Nat, Leaves(h, p, u)
    PROVE  PlaceInv' /\ AloneInv' /\ LeftInv' /\ CleanInv'
<1> USE DEF Leaves
<1>1. /\ KeepsUids /\ KeepsLists /\ KeepsStarted /\ StaysStarted /\ KeepsJoined /\ AddedStay
      /\ \A b \in Actors : Waits(b)'
    BY DEF KeepsUids, KeepsLists, KeepsStarted, StaysStarted, KeepsJoined, AddedStay, Waits, Others,
           IInv, PlaceInv, Placed
<1>2. PlaceInv' /\ AloneInv' /\ CleanInv'
    BY <1>1, PlaceKept, AloneKept, CleanKept DEF IInv
<1>3. LeftInv'
    <2>1. SameUid' <=> SameUid
        BY UidsKept
    <2>2. ASSUME NEW q \in Actors, NEW i \in 1 .. Len(rtc'[q].removeList)
          PROVE  \E g \in left' : peer'[g].rtc = q /\ peer'[g].uid = rtc'[q].removeList[i]
        <3>1. /\ rtc[p].removeList \in Seq(Nat) /\ Len(rtc[p].removeList) \in Nat
              /\ left \subseteq Actors
            BY LenProperties DEF Types, RtcType, ServerTypes
        <3>2. CASE q = p /\ i = Len(rtc[p].removeList) + 1
            BY <3>1, <3>2, AppendProperties DEF KeepsPeers
        <3>3. CASE ~(q = p /\ i = Len(rtc[p].removeList) + 1)
            <4>1. i \in 1 .. Len(rtc[q].removeList) /\ rtc'[q].removeList[i] = rtc[q].removeList[i]
                <5>1. CASE q # p
                    BY <5>1 DEF Others
                <5>2. CASE q = p
                    <6>1. /\ Len(rtc'[p].removeList) = Len(rtc[p].removeList) + 1
                          /\ \A j \in 1 .. Len(rtc[p].removeList) :
                                rtc'[p].removeList[j] = rtc[p].removeList[j]
                        BY <3>1, AppendProperties
                    <6> HIDE DEF Leaves
                    <6> QED BY <3>1, <3>3, <5>2, <6>1
                <5> QED BY <5>1, <5>2
            <4>2. PICK g \in left : peer[g].rtc = q /\ peer[g].uid = rtc[q].removeList[i]
                BY <4>1 DEF IInv, LeftInv
            <4> QED BY <3>1, <4>1, <4>2 DEF KeepsPeers
        <3> QED BY <3>2, <3>3
    <2>3. ASSUME NEW q \in Actors, rtc'[q].clientUid # -1
          PROVE  act'[App].pc = "failed" \/ (peer'[App].rtc = q /\ peer'[App].uid = rtc'[q].clientUid)
        BY <2>3, AppIsActor DEF IInv, LeftInv, KeepsPeers, Others
    <2>4. \A b \in Actors : thread'[b].pc = "join" => thread'[b].peer \in left' \/ SameUid'
        BY <2>1 DEF IInv, LeftInv
    <2>5. OnlyTheLeftAreFreed'
        BY <2>1 DEF IInv, LeftInv, OnlyTheLeftAreFreed
    <2> QED BY <2>2, <2>3, <2>4, <2>5 DEF LeftInv
<1> QED BY <1>2, <1>3

LEMMA DisConnectPeerKeeps ==
    ASSUME Types, IInv, DisConnectPeer
    PROVE  Types' /\ PlaceInv' /\ AloneInv' /\ LeftInv' /\ CleanInv'
<1> DEFINE u == rtc[pub].clientUid
           list == Append(rtc[pub].removeList, u)
           e == [rtc[pub] EXCEPT !.removeList = list, !.clientUid = -1]
<1>1. /\ act[App].pc = "done" /\ u # -1 /\ App \in Actors
      /\ rtc' = [rtc EXCEPT ![pub] = e]
      /\ left' = left \cup {App}
      /\ UNCHANGED <<server, act, handle, peer, thread, freed, touched, overlapped, torn>>
    BY AppIsActor DEF DisConnectPeer
<1>2. pub \in Actors /\ rtc[pub] \in RtcType
    BY <1>1 DEF IInv, PlaceInv, Placed, HasPub, Added, Types
<1>3. u \in Nat /\ peer[App].rtc = pub /\ peer[App].uid = u /\ list \in Seq(Nat)
    <2>1. u \in Nat /\ rtc[pub].removeList \in Seq(Nat)
        BY <1>1, <1>2 DEF RtcType
    <2> QED BY <1>1, <1>2, <2>1, AppendProperties DEF IInv, LeftInv
<1> HIDE DEF list
<1>4. /\ e \in RtcType /\ e.removeList = list /\ e.clientUid = -1
      /\ e.uidSeq = rtc[pub].uidSeq /\ e.pushs = rtc[pub].pushs
    BY <1>2, <1>3 DEF RtcType
<1> HIDE DEF e
<1>5. rtc' \in [Actors -> RtcType] /\ rtc'[pub] = e /\ Others(rtc, rtc', pub)
    BY <1>1, <1>2, <1>4, RtcTo DEF Types
<1>6. Types'
    BY <1>1, <1>5 DEF Types, ServerTypes, server, handle
<1>7. Leaves(App, pub, u)
    BY <1>1, <1>3, <1>4, <1>5 DEF Leaves, list, KeepsPeers
<1> HIDE DEF u
<1> QED BY <1>1, <1>2, <1>3, <1>6, <1>7, LeavesKeeps

LEMMA SslAlertKeeps ==
    ASSUME Types, IInv, NEW h \in Actors, SslAlert(h)
    PROVE  Types' /\ PlaceInv' /\ AloneInv' /\ LeftInv' /\ CleanInv'
<1> DEFINE p == peer[h].rtc
           u == peer[h].uid
           list == Append(rtc[p].removeList, u)
           e == [rtc[p] EXCEPT !.removeList = list]
<1>1. /\ peer[h].udp = "alert" /\ p \in Actors /\ u \in Nat /\ rtc[p] \in RtcType
      /\ peer[h] \in PeerType
    BY DEF SslAlert, IInv, PlaceInv, Placed, Added, Types
<1>2. /\ rtc' = [rtc EXCEPT ![p] = e]
      /\ peer' = [peer EXCEPT ![h].udp = "stop"]
      /\ left' = left \cup {h}
      /\ UNCHANGED <<server, act, handle, thread, freed, touched, overlapped, torn>>
    BY DEF SslAlert
<1>3. list \in Seq(Nat)
    <2>1. rtc[p].removeList \in Seq(Nat)
        BY <1>1 DEF RtcType
    <2> QED BY <1>1, <2>1, AppendProperties
<1> HIDE DEF list
<1>4. /\ e \in RtcType /\ e.removeList = list /\ e.clientUid = rtc[p].clientUid
      /\ e.uidSeq = rtc[p].uidSeq /\ e.pushs = rtc[p].pushs
    BY <1>1, <1>3 DEF RtcType
<1> HIDE DEF e
<1>5. rtc' \in [Actors -> RtcType] /\ rtc'[p] = e /\ Others(rtc, rtc', p)
    BY <1>1, <1>2, <1>4, RtcTo DEF Types
<1>6. peer' \in [Actors -> PeerType] /\ KeepsPeers
    <2>1. [peer[h] EXCEPT !.udp = "stop"] = [peer[h] EXCEPT !.state = peer[h].state,
                                               !.isStop = peer[h].isStop, !.udp = "stop"]
        BY <1>1 DEF PeerType
    <2>2. peer' = [peer EXCEPT ![h] = [@ EXCEPT !.state = peer[h].state,
                                               !.isStop = peer[h].isStop, !.udp = "stop"]]
        BY <1>2, <2>1
    <2>3. peer[h].state \in {0, 1} /\ peer[h].isStop \in {0, 1}
        BY <1>1 DEF PeerType
    <2> QED BY <1>1, <2>2, <2>3, PeerMoves
<1>7. Types'
    BY <1>2, <1>5, <1>6 DEF Types, ServerTypes, server, handle
<1>8. Leaves(h, p, u)
    BY <1>2, <1>4, <1>5, <1>6 DEF Leaves, list
<1> HIDE DEF u, p
<1> QED BY <1>1, <1>7, <1>8, LeavesKeeps

-----------------------------------------------------------------------------
(* A publisher's thread uses, removes and frees peers *)

\* As long as nothing was torn and one thread publishes, no peer on a list is freed.
LEMMA ListedNotFreed ==
    ASSUME IInv, ~torn, ~TwoThreads, NEW p \in Actors, NEW i \in 1 .. Len(rtc[p].pushs)
    PROVE  rtc[p].pushs[i] \notin freed
BY DEF IInv, CleanInv

LEMMA PublishKeeps ==
    ASSUME Types, IInv, NEW b \in Actors, Publish(b)
    PROVE  Types' /\ PlaceInv' /\ AloneInv' /\ LeftInv' /\ CleanInv'
<1> DEFINE p == thread[b].rtc
           at == thread[b].at
           ends == [thread[b] EXCEPT !.pc = "loop", !.at = 0]
           goesOn == [thread[b] EXCEPT !.at = at + 1]
<1>1. /\ thread[b].pc = "publish" /\ p \in Actors /\ at \in Nat /\ at > 0
      /\ thread[b] \in ThreadType /\ rtc[p].pushs \in Seq(Actors) /\ Len(rtc[p].pushs) \in Nat
      /\ UNCHANGED <<server, act, handle, rtc, peer, freed, left, overlapped, torn>>
    BY LenProperties DEF Publish, IInv, PlaceInv, Placed, Types, ThreadType, RtcType
<1>2. \/ at > Len(rtc[p].pushs) /\ thread' = [thread EXCEPT ![b] = ends] /\ touched' = touched
      \/ /\ at \in 1 .. Len(rtc[p].pushs) /\ thread' = [thread EXCEPT ![b] = goesOn]
         /\ Uses({rtc[p].pushs[at]})
    <2>1. CASE at > Len(rtc[p].pushs)
        BY <2>1 DEF Publish, Mine
    <2>2. CASE ~(at > Len(rtc[p].pushs))
        BY <2>2, <1>1 DEF Publish, Mine
    <2> QED BY <2>1, <2>2
<1>3. /\ ends \in ThreadType /\ ends.pc = "loop" /\ ends.rtc = p
      /\ goesOn \in ThreadType /\ goesOn.pc = "publish" /\ goesOn.rtc = p /\ goesOn.at > 0
    <2>1. at + 1 \in Nat /\ at + 1 > 0
        BY <1>1
    <2>2. thread[b] \in ThreadType /\ thread[b].pc = "publish" /\ p = thread[b].rtc
        BY <1>1
    <2> HIDE DEF at, p
    <2> QED BY <2>1, <2>2 DEF ThreadType
<1> HIDE DEF ends, goesOn
<1>4. /\ thread' \in [Actors -> ThreadType] /\ Others(thread, thread', b)
      /\ thread'[b] \in {ends, goesOn}
    BY <1>2, <1>3, ThreadTo DEF Types
<1> HIDE DEF p, at
<1>5. Types'
    <2>1. touched' \in SUBSET Actors
        BY <1>2 DEF Uses, Types, ServerTypes
    <2> QED BY <1>1, <1>4, <2>1 DEF Types, ServerTypes, server, handle
<1>6. /\ KeepsPeers /\ KeepsUids /\ KeepsLists /\ KeepsRemoved /\ KeepsStarted /\ StaysStarted
      /\ KeepsJoined /\ AddedStay
    BY <1>1, <1>3, <1>4
       DEF KeepsPeers, KeepsUids, KeepsLists, KeepsRemoved, KeepsStarted, StaysStarted, KeepsJoined,
           AddedStay, Others, p
<1>7. \A x \in Actors : Waits(x)'
    BY <1>3, <1>4 DEF Waits, IInv, PlaceInv, Placed, Others
<1>8. PlaceInv' /\ AloneInv' /\ LeftInv'
    BY <1>1, <1>6, <1>7, PlaceKept, AloneKept, LeftKept DEF IInv
<1>9. CleanInv'
    <2>1. ~torn /\ ~TwoThreads => touched' = touched
        BY <1>1, <1>2, ListedNotFreed DEF Uses
    <2>2. ASSUME ~torn, ~TwoThreads, NEW x \in Actors, thread'[x].pc = "join"
          PROVE  /\ thread'[x].rtc \in Actors
                 /\ thread'[x].at <= Len(rtc[thread'[x].rtc].pushs)
                 /\ rtc[thread'[x].rtc].pushs[thread'[x].at] = thread'[x].peer
        <3>1. thread'[x] = thread[x] /\ thread[x].rtc \in Actors
            BY <2>2, <1>3, <1>4 DEF Others, IInv, PlaceInv, Placed
        <3> QED BY <2>2, <3>1 DEF IInv, CleanInv
    <2> QED BY <2>1, <2>2, <1>1, <1>6, CleanStays DEF IInv
<1> QED BY <1>5, <1>8, <1>9

LEMMA RemoveStreamKeeps ==
    ASSUME Types, IInv, NEW b \in Actors, RemoveStream(b)
    PROVE  Types' /\ PlaceInv' /\ AloneInv' /\ LeftInv' /\ CleanInv'
<1> DEFINE p == thread[b].rtc
           uid == Head(rtc[p].removeList)
           i == FirstWith(b, uid)
           h == rtc[p].pushs[i]
           rest == Tail(rtc[p].removeList)
           re == [rtc[p] EXCEPT !.removeList = rest]
           te == [thread[b] EXCEPT !.pc = "join", !.at = i, !.peer = h]
           stop == IF peer[h].state = 1 THEN 1 ELSE peer[h].isStop
<1>1. /\ thread[b].pc = "remove" /\ p \in Actors /\ thread[b] \in ThreadType
      /\ rtc[p] \in RtcType /\ rtc[p].pushs \in Seq(Actors)
      /\ rtc[p].removeList \in Seq(Nat) /\ rtc[p].removeList # << >>
      /\ UNCHANGED <<server, act, handle, freed, left, overlapped, torn>>
    BY DEF RemoveStream, Mine, IInv, PlaceInv, Placed, Types, RtcType
<1>2. rtc' = [rtc EXCEPT ![p] = re]
    BY DEF RemoveStream
<1>3. \/ i = 0 /\ UNCHANGED <<thread, peer>>
      \/ i # 0 /\ Step(b, "stuck") /\ UNCHANGED peer
      \/ /\ i # 0
         /\ thread' = [thread EXCEPT ![b] = te]
         /\ peer' = [peer EXCEPT ![h] = [@ EXCEPT !.state = 0, !.isStop = stop]]
    BY DEF RemoveStream, Mine
<1>u. Uses(Searched(b, i))
    BY DEF RemoveStream, Mine
<1>s. Searched(b, i) \subseteq {rtc[p].pushs[j] : j \in 1 .. Len(rtc[p].pushs)}
    <2>1. Len(rtc[p].pushs) \in Nat
        BY <1>1, LenProperties
    <2>2. i # 0 => i \in 1 .. Len(rtc[p].pushs)
        BY <1>1, FirstWithFinds DEF Mine
    <2> HIDE DEF i
    <2>3. ASSUME NEW x \in Searched(b, i)
          PROVE  \E j \in 1 .. Len(rtc[p].pushs) : x = rtc[p].pushs[j]
        <3>1. PICK j \in 1 .. (IF i = 0 THEN Len(rtc[p].pushs) ELSE i) : x = rtc[p].pushs[j]
            BY DEF Searched, Mine
        <3>2. j \in 1 .. Len(rtc[p].pushs)
            BY <2>1, <2>2
        <3> QED BY <3>1, <3>2
    <2> QED BY <2>3
<1>4. /\ uid \in Nat /\ uid = rtc[p].removeList[1] /\ 1 \in 1 .. Len(rtc[p].removeList)
      /\ rest \in Seq(Nat) /\ Len(rest) = Len(rtc[p].removeList) - 1
      /\ \A k \in 1 .. Len(rest) : rest[k] = rtc[p].removeList[k + 1]
    BY <1>1, HeadTailProperties, ElementOfSeq, LenProperties, EmptySeq
<1>5. i # 0 => /\ i \in 1 .. Len(rtc[p].pushs) /\ h \in Actors /\ peer[h].uid = uid
               /\ peer[h] \in PeerType /\ peer[h].udp # "none"
    <2>1. i # 0 => i \in 1 .. Len(rtc[p].pushs) /\ peer[h].uid = uid
        BY <1>1, FirstWithFinds DEF Mine
    <2>2. i # 0 => h \in Actors
        BY <1>1, <2>1, ElementOfSeq
    <2> HIDE DEF i, h, uid
    <2>3. i # 0 => peer[h].uid # -1
        BY <1>4, <2>1
    <2> QED BY <2>1, <2>2, <2>3 DEF IInv, PlaceInv, Placed, Types
<1> HIDE DEF rest, i, h, stop
<1>6. /\ re \in RtcType /\ re.removeList = rest /\ re.pushs = rtc[p].pushs
      /\ re.uidSeq = rtc[p].uidSeq /\ re.clientUid = rtc[p].clientUid
    BY <1>1, <1>4 DEF RtcType
<1>7. i # 0 => /\ te \in ThreadType /\ te.pc = "join" /\ te.rtc = p
               /\ te.at = i /\ te.peer = h
    <2>1. i # 0 => i \in Nat /\ h \in Actors
        BY <1>5
    <2> QED BY <1>1, <2>1 DEF ThreadType
<1> HIDE DEF re, te
<1>8. rtc' \in [Actors -> RtcType] /\ rtc'[p] = re /\ Others(rtc, rtc', p)
    BY <1>1, <1>2, <1>6, RtcTo DEF Types
<1>9. /\ thread' \in [Actors -> ThreadType] /\ Others(thread, thread', b)
      /\ thread'[b].pc # "none" /\ thread'[b].rtc = p
      /\ \/ thread'[b].pc \in {"remove", "stuck"}
         \/ i # 0 /\ thread'[b].pc = "join" /\ thread'[b].at = i /\ thread'[b].peer = h
    <2>1. CASE i = 0
        BY <2>1, <1>1, <1>3 DEF Types, Others
    <2>2. CASE Step(b, "stuck")
        BY <2>2, StepTo DEF Types, ThreadPcs
    <2>3. CASE i # 0 /\ thread' = [thread EXCEPT ![b] = te]
        BY <2>3, <1>7, ThreadTo DEF Types
    <2> QED BY <2>1, <2>2, <2>3, <1>3
<1>10. peer' \in [Actors -> PeerType] /\ KeepsPeers
    <2>1. CASE peer' = peer
        BY <2>1 DEF Types, KeepsPeers
    <2>2. CASE i # 0 /\ peer' = [peer EXCEPT ![h] = [@ EXCEPT !.state = 0, !.isStop = stop]]
        <3>1. /\ peer[h].udp \in {"run", "alert", "stop", "ended"} /\ h \in Actors
              /\ stop \in {0, 1} /\ peer[h] \in PeerType
            BY <2>2, <1>5 DEF PeerType, stop
        <3>2. [peer[h] EXCEPT !.state = 0, !.isStop = stop] =
              [peer[h] EXCEPT !.state = 0, !.isStop = stop, !.udp = peer[h].udp]
            BY <3>1 DEF PeerType
        <3>3. peer' = [peer EXCEPT ![h] = [@ EXCEPT !.state = 0, !.isStop = stop,
                                                    !.udp = peer[h].udp]]
            BY <2>2, <3>2
        <3> QED BY <3>1, <3>3, PeerMoves
    <2> QED BY <2>1, <2>2, <1>3
<1>11. Types'
    <2>1. touched' \in SUBSET Actors
        BY <1>u DEF Uses, Types, ServerTypes
    <2> QED BY <1>1, <1>8, <1>9, <1>10, <2>1 DEF Types, ServerTypes, server, handle
<1>12. KeepsUids /\ KeepsLists /\ AddedStay
    BY <1>1, <1>6, <1>8 DEF KeepsUids, KeepsLists, AddedStay, Others
<1>13. KeepsStarted /\ StaysStarted /\ \A x \in Actors : Waits(x)'
    <2>1. KeepsStarted /\ StaysStarted
        BY <1>1, <1>9 DEF KeepsStarted, StaysStarted, Others
    <2>2. Waits(b)'
        BY <1>1, <1>5, <1>9 DEF Waits
    <2>3. ASSUME NEW x \in Actors, x # b PROVE Waits(x)'
        <3>1. thread'[x] = thread[x]
            BY <1>9, <2>3 DEF Others
        <3>2. Placed(x)
            BY DEF IInv, PlaceInv
        <3> QED BY <3>1, <3>2 DEF Placed, Waits
    <2> QED BY <2>1, <2>2, <2>3
<1>14. PlaceInv' /\ AloneInv'
    BY <1>1, <1>10, <1>12, <1>13, PlaceKept, AloneKept DEF IInv
<1>15. LeftInv'
    <2>1. SameUid' <=> SameUid
        BY <1>10, UidsKept
    <2>2. ASSUME NEW q \in Actors, NEW k \in 1 .. Len(rtc'[q].removeList)
          PROVE  \E g \in left' : peer'[g].rtc = q /\ peer'[g].uid = rtc'[q].removeList[k]
        <3>1. PICK j \in 1 .. Len(rtc[q].removeList) : rtc'[q].removeList[k] = rtc[q].removeList[j]
            <4>1. CASE q = p
                <5>1. rtc'[q].removeList = rest
                    BY <4>1, <1>6, <1>8
                <5>2. k \in 1 .. Len(rest) /\ Len(rtc[p].removeList) \in Nat
                    BY <5>1, <1>1, LenProperties
                <5>3. k + 1 \in 1 .. Len(rtc[p].removeList) /\ rest[k] = rtc[p].removeList[k + 1]
                    BY <5>2, <1>4
                <5> QED BY <4>1, <5>1, <5>3
            <4>2. CASE q # p
                BY <4>2, <1>8 DEF Others
            <4> QED BY <4>1, <4>2
        <3>2. PICK g \in left : peer[g].rtc = q /\ peer[g].uid = rtc[q].removeList[j]
            BY DEF IInv, LeftInv
        <3>3. g \in Actors /\ g \in left'
            BY <1>1 DEF Types, ServerTypes
        <3> QED BY <3>1, <3>2, <3>3, <1>10 DEF KeepsPeers
    <2>3. ASSUME NEW q \in Actors, rtc'[q].clientUid # -1
          PROVE  act'[App].pc = "failed" \/ (peer'[App].rtc = q /\ peer'[App].uid = rtc'[q].clientUid)
        <3>1. rtc'[q].clientUid = rtc[q].clientUid
            BY <1>6, <1>8 DEF Others
        <3> QED BY <2>3, <3>1, <1>1, <1>10, AppIsActor DEF IInv, LeftInv, KeepsPeers
    <2>4. ASSUME NEW x \in Actors, thread'[x].pc = "join"
          PROVE  thread'[x].peer \in left' \/ SameUid'
        <3>1. CASE x = b
            <4>1. i # 0 /\ thread'[x].peer = h
                BY <2>4, <3>1, <1>9
            <4>2. PICK g \in left : peer[g].rtc = p /\ peer[g].uid = uid
                <5>1. \E g \in left : peer[g].rtc = p /\ peer[g].uid = rtc[p].removeList[1]
                    BY <1>1, <1>4 DEF IInv, LeftInv
                <5> QED BY <5>1, <1>4
            <4>3. /\ g \in Actors /\ h \in Actors /\ peer[h].uid = uid
                  /\ p # None
                BY <4>1, <1>1, <1>5, AppIsActor DEF Types, ServerTypes
            <4>5. peer[h].rtc = p
                BY <4>1, <1>1, <1>5 DEF IInv, ListedInv, h
            <4> HIDE DEF uid, p
            <4>4. g = h \/ SameUid
                BY <4>2, <4>3, <4>5 DEF SameUid
            <4> QED BY <4>1, <4>2, <4>4, <2>1, <1>1
        <3>2. CASE x # b
            BY <2>4, <3>2, <2>1, <1>1, <1>9 DEF IInv, LeftInv, Others
        <3> QED BY <3>1, <3>2
    <2>5. OnlyTheLeftAreFreed'
        BY <2>1, <1>1 DEF IInv, LeftInv, OnlyTheLeftAreFreed
    <2> QED BY <2>2, <2>3, <2>4, <2>5 DEF LeftInv
<1>16. CleanInv'
    <2>1. ~torn /\ ~TwoThreads => touched' = touched
        <3> SUFFICES ASSUME ~torn, ~TwoThreads PROVE touched' = touched
            OBVIOUS
        <3>1. \A j \in 1 .. Len(rtc[p].pushs) : rtc[p].pushs[j] \notin freed
            BY <1>1, ListedNotFreed
        <3>2. \A x \in Searched(b, i) : x \notin freed
            BY <1>s, <3>1
        <3> QED BY <1>u, <3>2 DEF Uses
    <2>2. ASSUME ~torn, ~TwoThreads, NEW x \in Actors, thread'[x].pc = "join"
          PROVE  /\ thread'[x].rtc \in Actors
                 /\ thread'[x].at <= Len(rtc[thread'[x].rtc].pushs)
                 /\ rtc[thread'[x].rtc].pushs[thread'[x].at] = thread'[x].peer
        <3>1. CASE x = b
            <4>1. /\ i # 0 /\ thread'[x].at = i /\ thread'[x].peer = h
                  /\ thread'[x].rtc = p
                BY <2>2, <3>1, <1>9
            <4>2. i <= Len(rtc[p].pushs) /\ rtc[p].pushs[i] = h
                BY <4>1, <1>5 DEF h
            <4> QED BY <4>1, <4>2, <1>1
        <3>2. CASE x # b
            BY <2>2, <3>2, <1>9 DEF Others, IInv, CleanInv, PlaceInv, Placed
        <3> QED BY <3>1, <3>2
    <2> QED BY <2>1, <2>2, <1>1, <1>12, <1>13, CleanStays DEF IInv
<1> QED BY <1>11, <1>14, <1>15, <1>16

LEMMA EraseKeeps ==
    ASSUME Types, IInv, NEW b \in Actors, Erase(b)
    PROVE  Types' /\ PlaceInv' /\ AloneInv' /\ LeftInv' /\ CleanInv'
<1> DEFINE p == thread[b].rtc
           i == thread[b].at
           h == thread[b].peer
           s == rtc[p].pushs
           t == SubSeq(s, 1, i - 1) \o SubSeq(s, i + 1, Len(s))
           re == [rtc[p] EXCEPT !.pushs = t]
           te == [thread[b] EXCEPT !.pc = "remove", !.at = 0, !.peer = None]
<1>1. /\ thread[b].pc = "join" /\ p \in Actors /\ h \in Actors /\ thread[b] \in ThreadType
      /\ rtc[p] \in RtcType /\ s \in Seq(Actors) /\ i \in 1 .. Len(s) /\ Len(s) \in Nat
      /\ peer[h] \in PeerType /\ peer[h].udp \in {"run", "ended"}
      /\ UNCHANGED <<server, act, handle, history>>
    <2>1. thread[b].pc = "join" /\ i <= Len(Mine(b).pushs)
        BY DEF Erase
    <2>2. p \in Actors /\ h \in Actors /\ i \in Nat /\ i > 0 /\ thread[b] \in ThreadType
        BY <2>1 DEF IInv, PlaceInv, Placed, Types, ThreadType
    <2>3. rtc[p] \in RtcType /\ s \in Seq(Actors) /\ Len(s) \in Nat
        BY <2>2, LenProperties DEF Types, RtcType
    <2> QED BY <2>1, <2>2, <2>3 DEF Erase, Mine, Types
<1>2. /\ rtc' = [rtc EXCEPT ![p] = re]
      /\ thread' = [thread EXCEPT ![b] = te]
      /\ peer' = [peer EXCEPT ![h].udp = "ended"]
      /\ freed' = freed \cup {h}
    BY DEF Erase
<1>3. /\ t \in Seq(Actors) /\ Len(t) = Len(s) - 1
      /\ \A k \in 1 .. Len(t) : t[k] = s[IF k < i THEN k ELSE k + 1]
    BY <1>1, Without
<1> HIDE DEF t
<1>4. /\ re \in RtcType /\ re.pushs = t /\ re.removeList = rtc[p].removeList
      /\ re.uidSeq = rtc[p].uidSeq /\ re.clientUid = rtc[p].clientUid
    BY <1>1, <1>3 DEF RtcType
<1>5. te \in ThreadType /\ te.pc = "remove" /\ te.rtc = p
    BY <1>1 DEF ThreadType
<1> HIDE DEF re, te
<1>6. rtc' \in [Actors -> RtcType] /\ rtc'[p] = re /\ Others(rtc, rtc', p)
    BY <1>1, <1>2, <1>4, RtcTo DEF Types
<1>7. thread' \in [Actors -> ThreadType] /\ thread'[b] = te /\ Others(thread, thread', b)
    BY <1>2, <1>5, ThreadTo DEF Types
<1>8. peer' \in [Actors -> PeerType] /\ KeepsPeers
    <2>1. [peer[h] EXCEPT !.udp = "ended"] =
          [peer[h] EXCEPT !.state = peer[h].state, !.isStop = peer[h].isStop, !.udp = "ended"]
        BY <1>1 DEF PeerType
    <2>2. peer' = [peer EXCEPT ![h] = [@ EXCEPT !.state = peer[h].state, !.isStop = peer[h].isStop,
                                                !.udp = "ended"]]
        BY <1>2, <2>1
    <2>3. peer[h].state \in {0, 1} /\ peer[h].isStop \in {0, 1}
        BY <1>1 DEF PeerType
    <2> QED BY <1>1, <2>2, <2>3, PeerMoves
<1>9. Types'
    <2>1. freed' \in SUBSET Actors
        BY <1>1, <1>2 DEF Types, ServerTypes
    <2> QED BY <1>1, <1>6, <1>7, <1>8, <2>1 DEF Types, ServerTypes, server, handle, history
<1>10. /\ KeepsUids /\ KeepsRemoved /\ KeepsStarted /\ StaysStarted /\ KeepsJoined
       /\ \A x \in Actors : Waits(x)'
    <2>1. KeepsUids /\ KeepsRemoved
        BY <1>4, <1>6 DEF KeepsUids, KeepsRemoved, Others
    <2>2. KeepsStarted /\ StaysStarted /\ KeepsJoined
        BY <1>1, <1>5, <1>7 DEF KeepsStarted, StaysStarted, KeepsJoined, Others
    <2>3. \A x \in Actors : Waits(x)'
        BY <1>5, <1>7 DEF Waits, Others, IInv, PlaceInv, Placed
    <2> QED BY <2>1, <2>2, <2>3
<1>11. PlaceInv' /\ AloneInv'
    BY <1>1, <1>8, <1>10, PlaceKept, AloneKept DEF IInv, history
<1>12. LeftInv'
    <2>1. SameUid' <=> SameUid
        BY <1>8, UidsKept
    <2>2. h \in left \/ SameUid
        BY <1>1 DEF IInv, LeftInv
    <2>3. OnlyTheLeftAreFreed'
        BY <2>1, <2>2, <1>1, <1>2 DEF IInv, LeftInv, OnlyTheLeftAreFreed, history
    <2>4. ASSUME NEW q \in Actors, NEW k \in 1 .. Len(rtc'[q].removeList)
          PROVE  \E g \in left' : peer'[g].rtc = q /\ peer'[g].uid = rtc'[q].removeList[k]
        <3>1. rtc'[q].removeList = rtc[q].removeList
            BY <1>10 DEF KeepsRemoved
        <3>2. PICK g \in left : peer[g].rtc = q /\ peer[g].uid = rtc[q].removeList[k]
            BY <3>1 DEF IInv, LeftInv
        <3>3. g \in Actors /\ g \in left'
            BY <1>1 DEF Types, ServerTypes, history
        <3> QED BY <3>1, <3>2, <3>3, <1>8 DEF KeepsPeers
    <2>5. ASSUME NEW q \in Actors, rtc'[q].clientUid # -1
          PROVE  act'[App].pc = "failed" \/ (peer'[App].rtc = q /\ peer'[App].uid = rtc'[q].clientUid)
        BY <2>5, <1>1, <1>8, <1>10, AppIsActor DEF IInv, LeftInv, KeepsPeers, KeepsRemoved
    <2>6. ASSUME NEW x \in Actors, thread'[x].pc = "join"
          PROVE  thread'[x].peer \in left' \/ SameUid'
        BY <2>1, <2>6, <1>1, <1>10 DEF IInv, LeftInv, KeepsJoined, history
    <2> QED BY <2>3, <2>4, <2>5, <2>6 DEF LeftInv
<1>13. CleanInv'
    <2> SUFFICES ASSUME ~torn', ~TwoThreads' PROVE CleanInv'
        BY DEF CleanInv
    <2>1. ~torn /\ ~TwoThreads
        BY <1>1, <1>10, ThreadsKept DEF history
    <2>2. s[i] = h /\ act[h].pc \in Added \ {"push"}
        <3>1. s[i] = h
            BY <1>1, <2>1 DEF IInv, CleanInv
        <3> QED BY <3>1, <1>1, <2>1 DEF IInv, CleanInv
    \* What is on a list was on it, and in one place of it.
    <2> DEFINE was(q, k) == IF q = p /\ ~(k < i) THEN k + 1 ELSE k
    <2>3. ASSUME NEW q \in Actors, NEW k \in 1 .. Len(rtc'[q].pushs)
          PROVE  /\ was(q, k) \in 1 .. Len(rtc[q].pushs)
                 /\ rtc'[q].pushs[k] = rtc[q].pushs[was(q, k)]
                 /\ rtc'[q].pushs[k] # h
        <3>1. CASE q = p
            <4>1. rtc'[p].pushs = t
                BY <1>4, <1>6
            <4>2. k \in 1 .. Len(t) /\ was(q, k) = (IF k < i THEN k ELSE k + 1)
                BY <3>1, <4>1
            <4>3. was(q, k) \in 1 .. Len(s) /\ was(q, k) # i
                BY <4>2, <1>1, <1>3
            <4>4. t[k] = s[was(q, k)]
                BY <4>2, <1>3
            <4> HIDE DEF was
            <4>5. s[was(q, k)] # s[i]
                BY <4>3, <1>1, <2>1 DEF IInv, CleanInv
            <4> QED BY <3>1, <4>1, <4>3, <4>4, <4>5, <2>2
        <3>2. CASE q # p
            <4>1. rtc'[q].pushs = rtc[q].pushs /\ was(q, k) = k
                BY <3>2, <1>6 DEF Others
            <4> HIDE DEF was
            <4>2. rtc[q].pushs[k] # s[i]
                BY <3>2, <4>1, <1>1, <2>1 DEF IInv, CleanInv
            <4> QED BY <4>1, <4>2, <2>2
        <3> QED BY <3>1, <3>2
    <2>4. ASSUME NEW q \in Actors, NEW r \in Actors,
                 NEW k \in 1 .. Len(rtc'[q].pushs), NEW j \in 1 .. Len(rtc'[r].pushs),
                 rtc'[q].pushs[k] = rtc'[r].pushs[j]
          PROVE  q = r /\ k = j
        <3>1. q = r /\ was(q, k) = was(r, j)
            <4> HIDE DEF was
            <4>1. rtc[q].pushs[was(q, k)] = rtc[r].pushs[was(r, j)]
                BY <2>3, <2>4
            <4> QED BY <4>1, <2>1, <2>3 DEF IInv, CleanInv
        <3> QED BY <3>1, <1>1
    <2> HIDE DEF was
    <2>5. ASSUME NEW q \in Actors, NEW k \in 1 .. Len(rtc'[q].pushs)
          PROVE  /\ rtc'[q].pushs[k] \notin freed'
                 /\ act'[rtc'[q].pushs[k]].pc \in Added \ {"push"}
        <3>1. PICK j \in 1 .. Len(rtc[q].pushs) : rtc'[q].pushs[k] = rtc[q].pushs[j]
            BY <2>3
        <3>2. rtc[q].pushs[j] \notin freed /\ act[rtc[q].pushs[j]].pc \in Added \ {"push"}
            BY <2>1 DEF IInv, CleanInv
        <3>3. act' = act /\ freed' = freed \cup {h}
            BY <1>1, <1>2
        <3> QED BY <2>3, <3>1, <3>2, <3>3
    <2>6. \A g \in freed' : act'[g].pc \in Added \ {"push"}
        BY <2>1, <2>2, <1>1, <1>2 DEF IInv, CleanInv
    <2>7. ASSUME NEW x \in Actors, thread'[x].pc = "join" PROVE FALSE
        <3>1. x # b /\ thread[x].pc = "join"
            BY <2>7, <1>5, <1>7 DEF Others
        <3> QED BY <3>1, <1>1, <2>1 DEF TwoThreads
    <2>8. touched' = {}
        BY <2>1, <1>1 DEF IInv, CleanInv, history
    <2> QED BY <2>4, <2>5, <2>6, <2>7, <2>8 DEF CleanInv
<1> QED BY <1>9, <1>11, <1>12, <1>13

-----------------------------------------------------------------------------
(* The theorems *)

LEMMA IInvInit == Init => IInv
<1> SUFFICES ASSUME Init PROVE IInv
    OBVIOUS
<1>1. TypeOK
    BY TypesInit
<1> USE DEF Init
<1>2. PlaceInv
    BY DEF PlaceInv, Placed, HasPub, Added
<1>3. ConnInv
    BY DEF ConnInv, Actors
<1>4. AloneInv
    BY DEF AloneInv, Busy, Begun, Added, TwoThreads, SameUid
<1>5. LeftInv
    <2>1. \A p \in Actors : Len(rtc[p].removeList) = 0
        BY EmptySeq
    <2> QED BY <2>1 DEF LeftInv, OnlyTheLeftAreFreed
<1>6. CleanInv /\ ListedInv
    <2>1. \A p \in Actors : Len(rtc[p].pushs) = 0
        BY EmptySeq
    <2> QED BY <2>1 DEF CleanInv, ListedInv
<1> QED BY <1>1, <1>2, <1>3, <1>4, <1>5, <1>6 DEF IInv

LEMMA IInvStep == IInv /\ [Next]_vars => IInv'
<1> SUFFICES ASSUME IInv, [Next]_vars PROVE IInv'
    OBVIOUS
<1>0. Types /\ PlaceInv /\ ConnInv /\ ListedInv
    BY TypesAre DEF IInv
<1>a. CASE UNCHANGED vars
    <2> USE <1>a DEF vars, server, handle, history
    <2>1. TypeOK'
        BY DEF IInv, TypeOK
    <2>2. PlaceInv' /\ ConnInv'
        BY DEF IInv, PlaceInv, Placed, ConnInv
    <2>3. AloneInv'
        BY DEF IInv, AloneInv, Busy, Begun, TwoThreads, SameUid
    <2>4. LeftInv'
        BY DEF IInv, LeftInv, OnlyTheLeftAreFreed, SameUid
    <2>5. CleanInv'
        BY DEF IInv, CleanInv, TwoThreads
    <2>6. ListedInv'
        BY DEF IInv, ListedInv
    <2> QED BY <2>1, <2>2, <2>3, <2>4, <2>5, <2>6 DEF IInv
<1>b. CASE Next
    <2>1. ConnInv' /\ ListedInv'
        BY <1>0, <1>b, ConnKeeps, ListedKeeps
    <2> SUFFICES Types' /\ PlaceInv' /\ AloneInv' /\ LeftInv' /\ CleanInv'
        BY <2>1, TypesAre DEF IInv, Types, ServerTypes, TypeOK, ActType, RtcType, PeerType, ThreadType
    <2> DEFINE Kept == Types' /\ PlaceInv' /\ AloneInv' /\ LeftInv' /\ CleanInv'
    <2>2. ASSUME NEW a \in Actors, Types', EarlyMove(a) PROVE Kept
        BY <1>0, <2>2, EarlyKeeps
    <2>3. ASSUME Types', Quiet PROVE Kept
        BY <1>0, <2>3, QuietKeeps
    <2> HIDE DEF Kept
    <2>4. ASSUME NEW c \in Conns, Accept(c) PROVE Kept
        <3>1. c \in Actors
            BY DEF Actors
        <3>2. Types' /\ EarlyMove(c)
            BY <1>0, <2>4, <3>1, EarlyDoes
        <3> QED BY <2>2, <3>1, <3>2
    <2>5. CASE ConnectRtc
        <3>1. Types' /\ EarlyMove(App)
            BY <1>0, <2>5, EarlyDoes, AppIsActor
        <3> QED BY <2>2, <3>1, AppIsActor DEF Kept
    <2>6. CASE ConnectFails
        BY <1>0, <2>6, ConnectFailsKeeps DEF Kept
    <2>7. CASE DisConnectPeer
        BY <1>0, <2>7, DisConnectPeerKeeps DEF Kept
    <2>8. ASSUME NEW a \in Actors, Call(a) PROVE Kept
        <3>1. CASE ReadConnFd(a) \/ ReadOffer(a) \/ ConnClosed(a) \/ InitRtc(a) \/ NewRtc(a) \/ ReadUid(a)
            BY <1>0, <2>2, <3>1, EarlyDoes
        <3>2. CASE StartPeer(a)
            BY <1>0, <3>2, StartPeerKeeps DEF Kept
        <3>3. CASE Push(a)
            BY <1>0, <3>3, PushKeeps DEF Kept
        <3>4. CASE InitRtc2(a)
            BY <1>0, <3>4, InitRtc2Keeps DEF Kept
        <3>5. CASE Answer(a)
            BY <1>0, <3>5, AnswerKeeps DEF Kept
        <3> QED BY <2>8, <3>1, <3>2, <3>3, <3>4, <3>5 DEF Call
    <2>9. ASSUME NEW a \in Actors, Connected(a) \/ CloseNotify(a) \/ Udp(a) PROVE Kept
        <3>1. CASE Connected(a) \/ CloseNotify(a) \/ SetStop(a)
            BY <1>0, <2>3, <3>1, UdpQuiet
        <3>2. CASE SslAlert(a)
            BY <1>0, <3>2, SslAlertKeeps DEF Kept
        <3> QED BY <2>9, <3>1, <3>2 DEF Udp
    <2>10. ASSUME NEW b \in Actors, Publisher(b) PROVE Kept
        <3>1. CASE Run(b) \/ Loop(b) \/ Lock(b) \/ Unlock(b)
            BY <1>0, <2>3, <3>1, PublisherQuiet
        <3>2. CASE Publish(b)
            BY <1>0, <3>2, PublishKeeps DEF Kept
        <3>3. CASE RemoveStream(b)
            BY <1>0, <3>3, RemoveStreamKeeps DEF Kept
        <3>4. CASE Erase(b)
            BY <1>0, <3>4, EraseKeeps DEF Kept
        <3> QED BY <2>10, <3>1, <3>2, <3>3, <3>4 DEF Publisher
    <2> QED BY <1>b, <2>4, <2>5, <2>6, <2>7, <2>8, <2>9, <2>10 DEF Next, Kept
<1> QED BY <1>a, <1>b

LEMMA Invariance == Spec => []IInv
BY IInvInit, IInvStep, PTL DEF Spec

\* The variables keep their types: a list never holds anything but peers and uids, and no
\* thread goes past the end of one.
THEOREM TypeCorrect == Spec => []TypeOK
<1>1. IInv => TypeOK
    BY DEF IInv
<1> QED BY <1>1, Invariance, PTL

\* Calls set up one after the other share one publisher, with one thread and uids that differ.
THEOREM OnePublisherHolds == Spec => []OnePublisher
<1>1. IInv => OnePublisher
    BY DEF IInv, OnePublisher, AloneInv, PlaceInv, Placed
<1> QED BY <1>1, Invariance, PTL

\* A publisher uses no peer it has freed, unless a peer was added while one was erased or two
\* threads publish.
THEOREM FreedPeersAreNotUsed == Spec => []FreedIsNotUsed
<1>1. IInv => FreedIsNotUsed
    BY DEF IInv, FreedIsNotUsed, CleanInv
<1> QED BY <1>1, Invariance, PTL

\* A peer is freed only after it has left, unless two peers have the same uid.
THEOREM FreedHaveLeft == Spec => []OnlyTheLeftAreFreed
<1>1. IInv => OnlyTheLeftAreFreed
    BY DEF IInv, LeftInv
<1> QED BY <1>1, Invariance, PTL
=============================================================================
