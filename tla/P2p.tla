-------------------------------- MODULE P2p ---------------------------------
(***************************************************************************)
(* Peer-to-peer calls: the server that accepts the offers of other peers   *)
(* (YangP2pServer), the threads that answer them, the handle that prepares *)
(* capture and publishing with the first peer (YangP2pHandleImpl), the     *)
(* list of peers (YangP2pRtc) with the thread that publishes to them, and  *)
(* each peer's UDP thread.  The application's thread calls a peer itself.  *)
(*                                                                         *)
(* A call's actor is the thread that sets it up: one per accepted          *)
(* connection, and App.  The YangP2pRtc, the peer and the publisher's      *)
(* thread an actor creates bear its name.  A step is an access to what     *)
(* threads share; m_mutex is held over several steps only by the           *)
(* publisher.  m_pushs.push_back reads the list and writes it, so what is  *)
(* erased in between comes back.                                           *)
(***************************************************************************)
EXTENDS Integers, Sequences, FiniteSets

CONSTANTS
    Conns,  \* connections of peers that make an offer
    App,    \* the application's thread
    MaxAtOnce   \* bound: the calls, once two have overlapped

ASSUME AppIsNoConn == App \notin Conns
ASSUME MaxAtOnceAssumption == MaxAtOnce \in Nat

None == "none"
ASSUME NoneIsNoActor == None \notin Conns \cup {App}
Actors == Conns \cup {App}

VARIABLES
    connFd,     \* YangP2pServer.connFd: the connection accepted last
    act,        \* actors: [pc, conn, rtc, seq, list]
    pub,        \* m_pub: who has created it
    isInitRtc,  \* m_isInitRtc
    rtc,        \* YangP2pRtc by creator: [uidSeq, pushs, removeList, mutex, isStart, clientUid]
    peer,       \* peers by creator: [rtc, uid, state, isStop, udp]
    thread,     \* publisher's threads by starter: [pc, rtc, at, peer]
    freed,      \* peers freed
    answered,   \* connections answered and closed
    left,       \* history: peers that said goodbye or were disconnected
    touched,    \* history: peers a publisher used after they were freed
    overlapped, \* history: two calls were set up at once
    torn        \* history: a peer was erased while another was being added

server == <<connFd, answered>>
handle == <<pub, isInitRtc>>
history == <<left, touched, overlapped, torn>>
vars == <<server, act, handle, rtc, peer, thread, freed, history>>

Init ==
    /\ connFd = None
    /\ act = [a \in Actors |-> [pc |-> "none", conn |-> None, rtc |-> None,
                                seq |-> 0, list |-> << >>]]
    /\ pub = None
    /\ isInitRtc = FALSE
    /\ rtc = [a \in Actors |-> [uidSeq |-> 0, pushs |-> << >>, removeList |-> << >>,
                                mutex |-> None, isStart |-> 0, clientUid |-> -1]]
    /\ peer = [a \in Actors |-> [rtc |-> None, uid |-> -1, state |-> 0,
                                 isStop |-> 0, udp |-> "none"]]
    /\ thread = [a \in Actors |-> [pc |-> "none", rtc |-> None, at |-> 0, peer |-> None]]
    /\ freed = {}
    /\ answered = {}
    /\ left = {}
    /\ touched = {}
    /\ overlapped = FALSE
    /\ torn = FALSE

Goto(a, pc) == act' = [act EXCEPT ![a].pc = pc]

Begun == {a \in Actors : act[a].pc # "none"}
Busy == {a \in Begun : act[a].pc \notin {"done", "failed"}}

\* A call begins.
Begin(a, pc) ==
    /\ act[a].pc = "none"
    /\ (Busy = {} /\ ~overlapped) \/ Cardinality(Begun) < MaxAtOnce
    /\ Goto(a, pc)
    /\ overlapped' = (overlapped \/ Busy # {})

-----------------------------------------------------------------------------
(* The server's thread and the threads it starts *)

\* The new thread is told its connection by connFd alone.
Accept(c) ==
    /\ Begin(c, "new")
    /\ connFd' = c
    /\ UNCHANGED <<answered, handle, rtc, peer, thread, freed, left, touched, torn>>

ReadConnFd(t) ==
    /\ act[t].pc = "new"
    /\ t \in Conns
    /\ act' = [act EXCEPT ![t] = [@ EXCEPT !.pc = "recv", !.conn = connFd]]
    /\ UNCHANGED <<server, handle, rtc, peer, thread, freed, history>>

\* The offer is read by one of the threads that have its connection; startRtc begins.
ReadOffer(t) ==
    /\ act[t].pc = "recv"
    /\ act[t].conn \notin answered \cup {act[u].conn : u \in {v \in Busy : act[v].pc # "recv"}}
    /\ Goto(t, IF isInitRtc THEN "addPeer" ELSE "initRtc")
    /\ UNCHANGED <<server, handle, rtc, peer, thread, freed, history>>

\* Another thread has answered and closed the connection.
ConnClosed(t) ==
    /\ act[t].pc = "recv"
    /\ act[t].conn \in answered
    /\ Goto(t, "failed")
    /\ UNCHANGED <<server, handle, rtc, peer, thread, freed, history>>

-----------------------------------------------------------------------------
(* An actor: startRtc and connectRtc *)

\* The application calls a peer.
ConnectRtc ==
    /\ Begin(App, "initRtc")
    /\ UNCHANGED <<server, handle, rtc, peer, thread, freed, left, touched, torn>>

InitRtc(a) ==
    /\ act[a].pc = "initRtc"
    /\ Goto(a, IF pub = None THEN "newRtc" ELSE "addPeer")
    /\ UNCHANGED <<server, handle, rtc, peer, thread, freed, history>>

NewRtc(a) ==
    /\ act[a].pc = "newRtc"
    /\ pub' = a
    /\ Goto(a, "addPeer")
    /\ UNCHANGED <<server, isInitRtc, rtc, peer, thread, freed, history>>

\* m_uidSeq++: the read.
ReadUid(a) ==
    /\ act[a].pc = "addPeer"
    /\ act' = [act EXCEPT ![a] = [@ EXCEPT !.pc = "startRtc", !.rtc = pub,
                                           !.seq = rtc[pub].uidSeq]]
    /\ UNCHANGED <<server, handle, rtc, peer, thread, freed, history>>

\* m_uidSeq++: the write; the peer's UDP thread is started, and push_back reads the list.
StartPeer(a) ==
    LET p == act[a].rtc
        uid == act[a].seq
    IN /\ act[a].pc = "startRtc"
       /\ rtc' = [rtc EXCEPT ![p] = [@ EXCEPT !.uidSeq = uid + 1,
                                              !.clientUid = IF a = App THEN uid
                                                              ELSE rtc[p].clientUid]]
       /\ peer' = [peer EXCEPT ![a] = [rtc |-> p, uid |-> uid, state |-> 0,
                                       isStop |-> 0, udp |-> "run"]]
       /\ act' = [act EXCEPT ![a] = [@ EXCEPT !.pc = "push", !.list = rtc[p].pushs]]
       /\ UNCHANGED <<server, handle, thread, freed, history>>

\* The called peer does not answer: the peer is forgotten, not freed.
ConnectFails ==
    LET p == act[App].rtc
    IN /\ act[App].pc = "startRtc"
       /\ rtc' = [rtc EXCEPT ![p] = [@ EXCEPT !.uidSeq = act[App].seq + 1,
                                              !.clientUid = act[App].seq]]
       /\ act' = [act EXCEPT ![App] = [@ EXCEPT !.pc = "failed", !.rtc = None, !.seq = 0]]
       /\ UNCHANGED <<server, handle, peer, thread, freed, history>>

\* A mutant of the next: the list is changed under the mutex.
Push_Locked(a) ==
    LET p == act[a].rtc
    IN /\ act[a].pc = "push"
       /\ rtc[p].mutex = None
       /\ rtc' = [rtc EXCEPT ![p].pushs = Append(@, a)]
       /\ act' = [act EXCEPT ![a] = [@ EXCEPT !.pc = "initRtc2", !.rtc = None, !.seq = 0,
                                              !.list = << >>]]
       /\ UNCHANGED <<server, handle, peer, thread, freed, history>>

\* m_pushs is written.
Push(a) ==
    LET p == act[a].rtc
    IN /\ act[a].pc = "push"
       /\ rtc' = [rtc EXCEPT ![p].pushs = Append(act[a].list, a)]
       /\ torn' = (torn \/ act[a].list # rtc[p].pushs)
       /\ act' = [act EXCEPT ![a] = [@ EXCEPT !.pc = "initRtc2", !.rtc = None, !.seq = 0,
                                              !.list = << >>]]
       /\ UNCHANGED <<server, handle, peer, thread, freed, left, touched, overlapped>>

\* A mutant of the next: every call starts the publisher.
InitRtc2_Always(a) ==
    /\ act[a].pc = "initRtc2"
    /\ thread' = [thread EXCEPT ![a] = [@ EXCEPT !.pc = "run", !.rtc = pub]]
    /\ Goto(a, "answer")
    /\ UNCHANGED <<server, handle, rtc, peer, freed, history>>

\* m_pub->start(), unless it has been started already, which is known later.
InitRtc2(a) ==
    /\ act[a].pc = "initRtc2"
    /\ thread' = IF ~isInitRtc /\ rtc[pub].isStart = 0
                 THEN [thread EXCEPT ![a] = [@ EXCEPT !.pc = "run", !.rtc = pub]]
                 ELSE thread
    /\ Goto(a, "answer")
    /\ UNCHANGED <<server, handle, rtc, peer, freed, history>>

\* m_isInitRtc is set; the answer is sent and the connection closed.
Answer(a) ==
    /\ act[a].pc = "answer"
    /\ isInitRtc' = TRUE
    /\ answered' = IF a = App THEN answered ELSE answered \cup {act[a].conn}
    /\ Goto(a, "done")
    /\ UNCHANGED <<connFd, pub, rtc, peer, thread, freed, history>>

\* A mutant of the next: m_clientUid is cleared first.
DisConnectPeer_Cleared ==
    /\ act[App].pc = "done"
    /\ rtc[pub].clientUid # -1
    /\ rtc[pub].mutex = None
    /\ rtc' = [rtc EXCEPT ![pub] = [@ EXCEPT !.removeList = Append(rtc[pub].removeList, -1),
                                               !.clientUid = -1]]
    /\ left' = left \cup {App}
    /\ UNCHANGED <<server, act, handle, peer, thread, freed, touched, overlapped, torn>>

\* The application: disConnectPeer.  Bound: it disconnects what it has called; a call
\* without a peer puts -1 on the list, the uid of no peer.
DisConnectPeer ==
    LET r == rtc[pub]
    IN /\ act[App].pc = "done"
       /\ r.clientUid # -1
       /\ r.mutex = None
       /\ rtc' = [rtc EXCEPT ![pub] = [@ EXCEPT !.removeList = Append(r.removeList, r.clientUid),
                                               !.clientUid = -1]]
       /\ left' = left \cup {App}
       /\ UNCHANGED <<server, act, handle, peer, thread, freed, touched, overlapped, torn>>

-----------------------------------------------------------------------------
(* A peer's UDP thread *)

\* A STUN request, or the handshake, connects the peer, which has the answer by then.
Connected(h) ==
    /\ act[h].pc = "done"
    /\ peer[h].udp = "run"
    /\ peer[h].state = 0
    /\ peer' = [peer EXCEPT ![h].state = 1]
    /\ UNCHANGED <<server, act, handle, rtc, thread, freed, history>>

\* ssl_on_info: the peer closes the connection; one the application has called has no
\* callback.
CloseNotify(h) ==
    /\ peer[h].udp = "run"
    /\ peer[h].state = 1
    /\ peer[h].isStop = 0
    /\ peer' = [peer EXCEPT ![h].udp = IF h = App THEN "stop" ELSE "alert"]
    /\ UNCHANGED <<server, act, handle, rtc, thread, freed, history>>

\* A mutant of the next: the peer is not put on the list.
SslAlert_Not(h) ==
    /\ peer[h].udp = "alert"
    /\ rtc[peer[h].rtc].mutex = None
    /\ peer' = [peer EXCEPT ![h].udp = "stop"]
    /\ left' = left \cup {h}
    /\ UNCHANGED <<server, act, handle, rtc, thread, freed, touched, overlapped, torn>>

\* g_p2p_rtcrecv_sslAlert, removePeer.
SslAlert(h) ==
    LET p == peer[h].rtc
    IN /\ peer[h].udp = "alert"
       /\ rtc[p].mutex = None
       /\ rtc' = [rtc EXCEPT ![p].removeList = Append(@, peer[h].uid)]
       /\ peer' = [peer EXCEPT ![h].udp = "stop"]
       /\ left' = left \cup {h}
       /\ UNCHANGED <<server, act, handle, thread, freed, touched, overlapped, torn>>

SetStop(h) ==
    /\ peer[h].udp = "stop"
    /\ peer' = [peer EXCEPT ![h] = [@ EXCEPT !.isStop = 1, !.udp = "run"]]
    /\ UNCHANGED <<server, act, handle, rtc, thread, freed, history>>

-----------------------------------------------------------------------------
(* A publisher's thread; frames keep coming *)

Step(b, pc) == thread' = [thread EXCEPT ![b].pc = pc]
Mine(b) == rtc[thread[b].rtc]
Uses(peers) == touched' = touched \cup (peers \cap freed)

Run(b) ==
    /\ thread[b].pc = "run"
    /\ Step(b, "loop")
    /\ rtc' = [rtc EXCEPT ![thread[b].rtc].isStart = 1]
    /\ UNCHANGED <<server, act, handle, peer, freed, history>>

\* One turn of the loop, which removes peers or publishes.
Loop(b) ==
    /\ thread[b].pc = "loop"
    /\ Mine(b).pushs # << >>
    /\ Mine(b).removeList = << >>
    /\ thread' = [thread EXCEPT ![b] = [@ EXCEPT !.pc = "publish", !.at = 1]]
    /\ UNCHANGED <<server, act, handle, rtc, peer, freed, history>>

Lock(b) ==
    /\ thread[b].pc = "loop"
    /\ Mine(b).pushs # << >>
    /\ Mine(b).removeList # << >>
    /\ Mine(b).mutex = None
    /\ rtc' = [rtc EXCEPT ![thread[b].rtc].mutex = b]
    /\ Step(b, "remove")
    /\ UNCHANGED <<server, act, handle, peer, freed, history>>

\* publishVideoData and publishAudioData: the next peer of the list, or the end of it.
Publish(b) ==
    LET t == thread[b]
    IN /\ t.pc = "publish"
       /\ IF t.at > Len(Mine(b).pushs)
          THEN /\ thread' = [thread EXCEPT ![b] = [@ EXCEPT !.pc = "loop", !.at = 0]]
               /\ UNCHANGED touched
          ELSE /\ thread' = [thread EXCEPT ![b].at = @ + 1]
               /\ Uses({Mine(b).pushs[t.at]})
       /\ UNCHANGED <<server, act, handle, rtc, peer, freed, left, overlapped, torn>>

\* A mutant of the next: the first peer of the list.
FirstWith_Any(b, uid) == IF Mine(b).pushs = << >> THEN 0 ELSE 1

\* erasePeer: the first place in the list with this uid, or 0.
FirstWith(b, uid) ==
    LET pushs == Mine(b).pushs
        found == {i \in 1 .. Len(pushs) : peer[pushs[i]].uid = uid}
    IN IF found = {} THEN 0 ELSE CHOOSE i \in found : \A j \in found : i <= j

\* The search reads every peer up to the one it finds.
Searched(b, i) ==
    {Mine(b).pushs[j] : j \in 1 .. (IF i = 0 THEN Len(Mine(b).pushs) ELSE i)}

\* removeStream and erasePeer, up to the peer's thread: a peer that is connected and
\* not marked stopped is sent an alert, whose callback is removePeer again: it waits
\* for the mutex this thread holds.
RemoveStream(b) ==
    LET p == thread[b].rtc
        i == FirstWith(b, Head(Mine(b).removeList))
        h == Mine(b).pushs[i]
    IN /\ thread[b].pc = "remove"
       /\ Mine(b).removeList # << >>
       /\ rtc' = [rtc EXCEPT ![p].removeList = Tail(@)]
       /\ Uses(Searched(b, i))
       /\ IF i = 0
          THEN UNCHANGED <<thread, peer>>
          ELSE IF peer[h].state = 1 /\ peer[h].isStop = 0 /\ h # App
          THEN Step(b, "stuck") /\ UNCHANGED peer
          ELSE /\ thread' = [thread EXCEPT ![b] = [@ EXCEPT !.pc = "join", !.at = i,
                                                            !.peer = h]]
               /\ peer' = [peer EXCEPT ![h] = [@ EXCEPT !.state = 0,
                                  !.isStop = IF peer[h].state = 1 THEN 1 ELSE peer[h].isStop]]
       /\ UNCHANGED <<server, act, handle, freed, left, overlapped, torn>>

\* A mutant of the next: the freed peer stays in the list.
Erase_Not(b) ==
    LET h == thread[b].peer
    IN /\ thread[b].pc = "join"
       /\ peer[h].udp \in {"run", "ended"}
       /\ peer' = [peer EXCEPT ![h].udp = "ended"]
       /\ freed' = freed \cup {h}
       /\ thread' = [thread EXCEPT ![b] = [@ EXCEPT !.pc = "remove", !.at = 0, !.peer = None]]
       /\ UNCHANGED <<server, act, handle, rtc, history>>

\* The UDP thread has come to the end of its loop; the peer is freed and erased.  When
\* the list has become too short meanwhile, m_pushs.at throws, and the publisher ends here.
Erase(b) ==
    LET h == thread[b].peer
        i == thread[b].at
    IN /\ thread[b].pc = "join"
       /\ i <= Len(Mine(b).pushs)
       /\ peer[h].udp \in {"run", "ended"}
       /\ peer' = [peer EXCEPT ![h].udp = "ended"]
       /\ freed' = freed \cup {h}
       /\ rtc' = [rtc EXCEPT ![thread[b].rtc].pushs =
                      SubSeq(@, 1, i - 1) \o SubSeq(@, i + 1, Len(@))]
       /\ thread' = [thread EXCEPT ![b] = [@ EXCEPT !.pc = "remove", !.at = 0, !.peer = None]]
       /\ UNCHANGED <<server, act, handle, history>>

\* The whole list is done.
Unlock(b) ==
    /\ thread[b].pc = "remove"
    /\ Mine(b).removeList = << >>
    /\ rtc' = [rtc EXCEPT ![thread[b].rtc].mutex = None]
    /\ Step(b, "loop")
    /\ UNCHANGED <<server, act, handle, peer, freed, history>>

-----------------------------------------------------------------------------
Call(a) ==
    \/ ReadConnFd(a) \/ ReadOffer(a) \/ ConnClosed(a)
    \/ InitRtc(a) \/ NewRtc(a) \/ ReadUid(a) \/ StartPeer(a) \/ Push(a)
    \/ InitRtc2(a) \/ Answer(a)

Udp(h) == SslAlert(h) \/ SetStop(h)

Publisher(b) ==
    \/ Run(b) \/ Loop(b) \/ Publish(b) \/ Lock(b)
    \/ RemoveStream(b) \/ Erase(b) \/ Unlock(b)

Next ==
    \/ \E c \in Conns : Accept(c)
    \/ ConnectRtc \/ ConnectFails \/ DisConnectPeer
    \/ \E a \in Actors : Call(a) \/ Connected(a) \/ CloseNotify(a) \/ Udp(a) \/ Publisher(a)

\* Every thread goes on while it can; what the other peers and the application do is
\* their affair.
Fairness ==
    \A a \in Actors : WF_vars(Call(a)) /\ WF_vars(Udp(a)) /\ WF_vars(Publisher(a))

Spec == Init /\ [][Next]_vars /\ Fairness

-----------------------------------------------------------------------------
(* Properties *)

\* The types of the variables.
TypeOK ==
    /\ connFd \in Conns \cup {None}
    /\ act \in [Actors -> [pc : {"none", "new", "recv", "initRtc", "newRtc", "addPeer",
                                 "startRtc", "push", "initRtc2", "answer", "done",
                                 "failed"},
                           conn : Conns \cup {None}, rtc : Actors \cup {None},
                           seq : Nat, list : Seq(Actors)]]
    /\ pub \in Actors \cup {None}
    /\ isInitRtc \in BOOLEAN
    /\ rtc \in [Actors -> [uidSeq : Nat, pushs : Seq(Actors), removeList : Seq(Nat),
                           mutex : Actors \cup {None}, isStart : {0, 1},
                           clientUid : Nat \cup {-1}]]
    /\ peer \in [Actors -> [rtc : Actors \cup {None}, uid : Nat \cup {-1}, state : {0, 1},
                            isStop : {0, 1},
                            udp : {"none", "run", "alert", "stop", "ended"}]]
    /\ thread \in [Actors -> [pc : {"none", "run", "loop", "publish", "remove", "join",
                                    "stuck"},
                              rtc : Actors \cup {None}, at : Nat,
                              peer : Actors \cup {None}]]
    /\ freed \in SUBSET Actors
    /\ answered \in SUBSET Conns
    /\ left \in SUBSET Actors
    /\ touched \in SUBSET Actors
    /\ overlapped \in BOOLEAN
    /\ torn \in BOOLEAN

\* Two peers of one publisher have the same uid.
SameUid ==
    \E a, b \in Actors : /\ a # b
                         /\ peer[a].rtc = peer[b].rtc /\ peer[a].rtc # None
                         /\ peer[a].uid = peer[b].uid

\* Two threads publish, whether from one publisher's list or from two.
TwoThreads ==
    \E a, b \in Actors : a # b /\ thread[a].pc # "none" /\ thread[b].pc # "none"

\* There is one publisher, with all the peers and with uids that differ, as long as no
\* two calls were set up at once.
OnePublisher ==
    ~overlapped => /\ ~TwoThreads /\ ~SameUid
                   /\ \A a \in Actors : peer[a].rtc \in {None, pub}

\* A publisher uses a peer it has freed only when a peer was added while one was
\* erased, or when two threads publish.
FreedIsNotUsed == touched # {} => torn \/ TwoThreads

\* Only a peer that left is freed, unless two of one publisher have the same uid.
OnlyTheLeftAreFreed == freed \subseteq left \/ SameUid

\* A thread publishes to this peer: none does when two calls have each made a publisher
\* and m_isInitRtc was set for the one that is not m_pub any more.
Served(h) == \E b \in Actors : thread[b].pc # "none" /\ thread[b].rtc = peer[h].rtc

\* A peer that has left is freed, unless no thread serves it, a publisher comes between
\* its callback and its stop mark, or another peer of its publisher has its uid or is
\* added while one is erased.
LeftIsFreed ==
    left # {} ~> \/ \A h \in left : h \in freed \/ ~Served(h)
                 \/ \E b \in Actors : thread[b].pc = "stuck"
                 \/ SameUid \/ torn

\* The connections their threads have read from connFd in time are answered, whatever
\* the publisher and the other calls do.
AcceptedIsAnswered ==
    LET read == {c \in Conns : act[c].conn = c}
    IN read # {} ~> read \subseteq answered
=============================================================================
