----------------------------- MODULE RtcSession -----------------------------
(***************************************************************************)
(* The life of one client session (YangRtcSession) and of the threads that *)
(* work for it: the application's thread, which connects, publishes and    *)
(* tears everything down (YangPeerConnection); the UDP thread              *)
(* (YangUdpHandle), which receives every packet; the 1 s timer             *)
(* (YangCTimer), started by the UDP thread; and the thread that repeats    *)
(* DTLS flights (YangRtcDtls).  No lock is taken anywhere: the threads are *)
(* stopped by a flag and by waiting for another flag.                      *)
(*                                                                         *)
(* A thread reading an object the application's thread has freed is        *)
(* recorded in touched and goes on as if the memory were still there.      *)
(***************************************************************************)
EXTENDS Naturals

CONSTANTS
    ArqMaxRetry,  \* arq_max_retry: 24 repeated flights
    ArqMaxLoop    \* max_loop: 512 turns of the loop that repeats them

ASSUME ArqMaxOK == ArqMaxRetry \in Nat /\ ArqMaxLoop \in Nat

VARIABLES
    app,      \* where the application's thread is
    ctx,      \* session and context: [state, activeState, isSendDtls]
    dtls,     \* YangRtcDtls: [state, handshake_done]
    srtp,     \* the SRTP contexts created
    udp,      \* YangUdpHandle: [pc, isStart, isLoop]
    timer,    \* YangCTimer: [pc, isStart, isloop]
    arq,      \* the DTLS thread: [pc, turns, count]
    freed,    \* what the application's thread has freed
    touched,  \* history: <<thread, object>> used after it was freed
    missed,   \* history: threads that were not running yet when told to stop
    caught    \* history: the session was taken down under a packet's handler

threads == <<udp, timer, arq>>
vars == <<app, ctx, dtls, srtp, udp, timer, arq, freed, touched, missed, caught>>

Objects == {"timer", "pubStream", "playStream", "udp", "dtls", "session"}
Packets == {"stun", "hello", "finished", "rtp", "rtcp"}
Handlers == Packets \cup {"sendKey", "recvKey", "done", "connected"}

\* Thread t uses these objects in this step.
Uses(t, objects) == touched' = touched \cup ({t} \X (objects \cap freed))

Init ==
    /\ app = "new"
    /\ ctx = [state |-> 0, activeState |-> FALSE, isSendDtls |-> 0]
    /\ dtls = [state |-> "Init", handshake_done |-> FALSE]
    /\ srtp = {}
    /\ udp = [pc |-> "none", isStart |-> 0, isLoop |-> 0]
    /\ timer = [pc |-> "none", isStart |-> 0, isloop |-> 0]
    /\ arq = [pc |-> "none", turns |-> 0, count |-> 0]
    /\ freed = {}
    /\ touched = {}
    /\ missed = {}
    /\ caught = FALSE

-----------------------------------------------------------------------------
(* The application's thread *)

\* yang_srs_startRtc: the session is set up, then the UDP thread is started.
StartRtc ==
    /\ app = "new"
    /\ app' = "live"
    /\ ctx' = [ctx EXCEPT !.activeState = TRUE]
    /\ udp' = [udp EXCEPT !.pc = "created"]
    /\ UNCHANGED <<dtls, srtp, timer, arq, freed, touched, missed, caught>>

\* g_yang_pc_disconnectServer up to the destruction of the session.
Disconnect ==
    /\ app = "live"
    /\ app' = "deactivate"
    /\ ctx' = [ctx EXCEPT !.state = 0]
    /\ UNCHANGED <<dtls, srtp, threads, freed, touched, missed, caught>>

\* A mutant of the next: the session is never marked inactive.
Deactivate_Not ==
    /\ app = "deactivate"
    /\ app' = "stopTimer"
    /\ UNCHANGED <<ctx, dtls, srtp, threads, freed, touched, missed, caught>>

Deactivate ==
    /\ app = "deactivate"
    /\ app' = "stopTimer"
    /\ ctx' = [ctx EXCEPT !.activeState = FALSE]
    /\ caught' = (udp.pc \in Handlers)
    /\ UNCHANGED <<dtls, srtp, threads, freed, touched, missed>>

\* A mutant of the next: the timer's thread is not waited for.
StopTimer_NoWait ==
    /\ app = "stopTimer"
    /\ app' = "freeTimer"
    /\ timer' = [timer EXCEPT !.isloop = 0]
    /\ missed' = IF timer.isStart = 0 THEN missed \cup {"timer"} ELSE missed
    /\ UNCHANGED <<ctx, dtls, srtp, udp, arq, freed, touched, caught>>

\* yang_timer_stop: nothing at all is done when the thread does not run (yet).
StopTimer ==
    /\ app = "stopTimer"
    /\ IF timer.isStart = 1
       THEN /\ app' = "waitTimer"
            /\ timer' = [timer EXCEPT !.isloop = 0]
            /\ UNCHANGED missed
       ELSE /\ app' = "freeTimer"
            /\ missed' = missed \cup {"timer"}
            /\ UNCHANGED timer
    /\ UNCHANGED <<ctx, dtls, srtp, udp, arq, freed, touched, caught>>

WaitTimer ==
    /\ app = "waitTimer"
    /\ timer.isStart = 0
    /\ app' = "freeTimer"
    /\ UNCHANGED <<ctx, dtls, srtp, threads, freed, touched, missed, caught>>

\* One object of yang_destroy_rtcsession after the other.
Free(from, object, to) ==
    /\ app = from
    /\ app' = to
    /\ freed' = freed \cup {object}
    /\ UNCHANGED <<ctx, dtls, srtp, threads, touched, missed, caught>>

\* yang_stop_rtcudp
StopUdp ==
    /\ app = "stopUdp"
    /\ app' = "waitUdp"
    /\ udp' = [udp EXCEPT !.isLoop = 0]
    /\ missed' = IF udp.isStart = 0 THEN missed \cup {"udp"} ELSE missed
    /\ UNCHANGED <<ctx, dtls, srtp, timer, arq, freed, touched, caught>>

WaitUdp ==
    /\ app = "waitUdp"
    /\ udp.isStart = 0
    /\ app' = "freeUdp"
    /\ UNCHANGED <<ctx, dtls, srtp, threads, freed, touched, missed, caught>>

TearDown ==
    \/ Disconnect \/ Deactivate \/ StopTimer \/ WaitTimer
    \/ Free("freeTimer", "timer", "freePublish")
    \/ Free("freePublish", "pubStream", "freePlay")
    \/ Free("freePlay", "playStream", "stopUdp")
    \/ StopUdp \/ WaitUdp
    \/ Free("freeUdp", "udp", "freeDtls")
    \/ Free("freeDtls", "dtls", "freeSession")
    \/ Free("freeSession", "session", "gone")

-----------------------------------------------------------------------------
(* The UDP thread: yang_run_rtcudp_thread *)

UdpStep(from, to) == udp.pc = from /\ udp' = [udp EXCEPT !.pc = to]

UdpStart ==
    /\ udp.pc = "created"
    /\ udp' = [udp EXCEPT !.pc = "bind", !.isStart = 1]
    /\ Uses("udp", {"udp"})
    /\ UNCHANGED <<app, ctx, dtls, srtp, timer, arq, freed, missed, caught>>

UdpBind ==
    /\ udp.pc = "bind"
    /\ udp' = [udp EXCEPT !.pc = "startTimer", !.isLoop = 1]
    /\ Uses("udp", {"udp"})
    /\ UNCHANGED <<app, ctx, dtls, srtp, timer, arq, freed, missed, caught>>

\* yang_rtcsession_startStunTimer: a timer already freed is not started.
UdpStartTimer ==
    /\ UdpStep("startTimer", "loop")
    /\ timer' = IF "timer" \in freed THEN timer ELSE [timer EXCEPT !.pc = "created"]
    /\ Uses("udp", {"udp", "session"})
    /\ UNCHANGED <<app, ctx, dtls, srtp, arq, freed, missed, caught>>

\* What the peer can send: answers to what it got from this side.
MayArrive(p) ==
    CASE p = "stun"     -> timer.pc # "none"
      [] p = "hello"    -> dtls.state # "Init"
      [] p = "finished" -> dtls.state \in {"ClientCertificate", "ClientDone"}
      [] OTHER          -> dtls.state = "ClientDone"

\* recvfrom returns a packet, which is dropped once the session is inactive,
\* or gives up after 200 ms.
UdpReceive ==
    /\ udp.isLoop = 1
    /\ \/ \E p \in Packets : MayArrive(p) /\ ctx.activeState /\ UdpStep("loop", p)
       \/ UdpStep("loop", "loop")
    /\ Uses("udp", {"udp", "session"})
    /\ UNCHANGED <<app, ctx, dtls, srtp, timer, arq, freed, missed, caught>>

\* A client's STUN answer: the first one starts the handshake.
OnStun ==
    /\ UdpStep("stun", "loop")
    /\ IF ctx.isSendDtls = 0
       THEN /\ ctx' = [ctx EXCEPT !.isSendDtls = 1]
            /\ dtls' = [dtls EXCEPT !.state = "ClientHello"]
            /\ arq' = [arq EXCEPT !.pc = "created"]
       ELSE UNCHANGED <<ctx, dtls, arq>>
    /\ Uses("udp", {"session", "dtls"})
    /\ UNCHANGED <<app, srtp, timer, freed, missed, caught>>

\* yang_process_dtls_data: the server's first flight, which asks for the
\* client's certificate, is answered with it; then every DTLS packet falls through to
\* client_sucess.
OnHello ==
    /\ UdpStep("hello", "connected")
    /\ dtls' = [dtls EXCEPT !.state = IF @ = "ClientHello" THEN "ClientCertificate" ELSE @]
    /\ Uses("udp", {"session", "dtls", "udp"})
    /\ UNCHANGED <<app, ctx, srtp, timer, arq, freed, missed, caught>>

OnFinished ==
    /\ UdpStep("finished", IF dtls.state = "ClientDone" THEN "connected" ELSE "sendKey")
    /\ dtls' = [dtls EXCEPT !.handshake_done = TRUE]
    /\ Uses("udp", {"session", "dtls", "udp"})
    /\ UNCHANGED <<app, ctx, srtp, timer, arq, freed, missed, caught>>

\* A mutant of the next: the handshake counts as done one context early.
CreateSendCtx_DoneEarly ==
    /\ UdpStep("sendKey", "recvKey")
    /\ srtp' = srtp \cup {"send"}
    /\ dtls' = [dtls EXCEPT !.state = "ClientDone"]
    /\ Uses("udp", {"session"})
    /\ UNCHANGED <<app, ctx, timer, arq, freed, missed, caught>>

\* yang_on_handshake_done: both SRTP contexts are created before the state is set.
CreateSendCtx ==
    /\ UdpStep("sendKey", "recvKey")
    /\ srtp' = srtp \cup {"send"}
    /\ Uses("udp", {"session"})
    /\ UNCHANGED <<app, ctx, dtls, timer, arq, freed, missed, caught>>

CreateRecvCtx ==
    /\ UdpStep("recvKey", "done")
    /\ srtp' = srtp \cup {"recv"}
    /\ Uses("udp", {"session"})
    /\ UNCHANGED <<app, ctx, dtls, timer, arq, freed, missed, caught>>

HandshakeDone ==
    /\ UdpStep("done", "connected")
    /\ dtls' = [dtls EXCEPT !.state = "ClientDone"]
    /\ Uses("udp", {"dtls"})
    /\ UNCHANGED <<app, ctx, srtp, timer, arq, freed, missed, caught>>

\* client_sucess
Connected ==
    /\ UdpStep("connected", "loop")
    /\ ctx' = [ctx EXCEPT !.state = 1]
    /\ Uses("udp", {"session"})
    /\ UNCHANGED <<app, dtls, srtp, timer, arq, freed, missed, caught>>

\* Media goes to the play stream, reports and NACKs to the publish stream.
OnMedia ==
    /\ \/ UdpStep("rtp", "loop") /\ Uses("udp", {"session", "playStream", "udp"})
       \/ UdpStep("rtcp", "loop") /\ Uses("udp", {"session", "pubStream", "playStream", "udp"})
    /\ UNCHANGED <<app, ctx, dtls, srtp, timer, arq, freed, missed, caught>>

\* A mutant of the next: the thread's end is not told.
UdpEnd_Untold ==
    /\ udp.isLoop = 0
    /\ UdpStep("loop", "close")
    /\ Uses("udp", {"udp"})
    /\ UNCHANGED <<app, ctx, dtls, srtp, timer, arq, freed, missed, caught>>

UdpEnd ==
    /\ udp.pc = "loop"
    /\ udp.isLoop = 0
    /\ udp' = [udp EXCEPT !.pc = "close", !.isStart = 0]
    /\ Uses("udp", {"udp"})
    /\ UNCHANGED <<app, ctx, dtls, srtp, timer, arq, freed, missed, caught>>

\* The socket is closed after isStart is reset.
UdpClose ==
    /\ UdpStep("close", "ended")
    /\ Uses("udpClose", {"udp"})
    /\ UNCHANGED <<app, ctx, dtls, srtp, timer, arq, freed, missed, caught>>

UdpThread ==
    \/ UdpStart \/ UdpBind \/ UdpStartTimer \/ UdpReceive \/ OnStun \/ OnHello
    \/ OnFinished \/ CreateSendCtx \/ CreateRecvCtx \/ HandshakeDone \/ Connected
    \/ OnMedia \/ UdpEnd \/ UdpClose

-----------------------------------------------------------------------------
(* The timer's thread: yang_run_timer_thread *)

TimerStep(pc, isStart, isloop) ==
    /\ timer' = [pc |-> pc, isStart |-> isStart, isloop |-> isloop]
    /\ UNCHANGED <<app, ctx, dtls, srtp, udp, arq, freed, missed, caught>>

TimerStart ==
    /\ timer.pc = "created"
    /\ TimerStep("started", 1, timer.isloop)
    /\ Uses("timer", {"timer"})

TimerEnterLoop ==
    /\ timer.pc = "started"
    /\ TimerStep("loop", 1, 1)
    /\ Uses("timer", {"timer"})

\* The wait ends after a second, or when the thread is told to stop; the task
\* is done either way.
TimerWake ==
    /\ timer.pc = "loop"
    /\ timer.isloop = 1
    /\ TimerStep("task", timer.isStart, timer.isloop)
    /\ Uses("timer", {"timer"})

\* g_yang_doTask: STUN request, receiver reports.
TimerTask ==
    /\ timer.pc = "task"
    /\ TimerStep("loop", timer.isStart, timer.isloop)
    /\ Uses("timer", {"timer", "session", "udp", "playStream"})

TimerEnd ==
    /\ timer.pc = "loop"
    /\ timer.isloop = 0
    /\ TimerStep("ended", 0, 0)
    /\ Uses("timer", {"timer"})

TimerThread == TimerStart \/ TimerEnterLoop \/ TimerWake \/ TimerTask \/ TimerEnd

-----------------------------------------------------------------------------
(* The DTLS thread: yang_run_rtcdtls_app *)

ArqGoesOn ==
    /\ ~dtls.handshake_done
    /\ dtls.state \in {"ClientHello", "ClientCertificate"}
    /\ arq.turns < ArqMaxLoop

\* One turn of the loop: the flight is repeated if its time is over; any of
\* the calls this takes may fail, and then the thread ends.
ArqTurn ==
    \E repeats \in {0, 1}, fails \in BOOLEAN :
        /\ arq' = [pc |-> IF fails THEN "ended" ELSE "loop",
                   turns |-> arq.turns + 1, count |-> arq.count + repeats]
        /\ Uses("arq", IF repeats = 1 THEN {"dtls", "udp"} ELSE {"dtls"})

ArqEnds == arq' = [arq EXCEPT !.pc = "ended"] /\ Uses("arq", {"dtls"})

\* A mutant of the next: the flight is repeated once too often.
ArqLoop_OneMore ==
    /\ arq.pc \in {"created", "loop"}
    /\ IF ArqGoesOn /\ arq.count <= ArqMaxRetry THEN ArqTurn ELSE ArqEnds
    /\ UNCHANGED <<app, ctx, dtls, srtp, udp, timer, freed, missed, caught>>

\* It repeats the last flight until the handshake is done, a call fails, or
\* one of its two limits is reached.
ArqLoop ==
    /\ arq.pc \in {"created", "loop"}
    /\ IF ArqGoesOn /\ arq.count < ArqMaxRetry THEN ArqTurn ELSE ArqEnds
    /\ UNCHANGED <<app, ctx, dtls, srtp, udp, timer, freed, missed, caught>>

-----------------------------------------------------------------------------
Next == StartRtc \/ TearDown \/ UdpThread \/ TimerThread \/ ArqLoop

\* Every thread is scheduled again and again, and the teardown, once begun,
\* goes on: sleeps, waits and recvfrom have a time limit. Nobody has to
\* disconnect.
Fairness ==
    /\ WF_vars(TearDown /\ app # "live")
    /\ WF_vars(UdpThread)
    /\ WF_vars(TimerThread)
    /\ WF_vars(ArqLoop)

Spec == Init /\ [][Next]_vars /\ Fairness

-----------------------------------------------------------------------------
(* Properties *)

\* The types of the variables.
TypeOK ==
    /\ app \in {"new", "live", "deactivate", "stopTimer", "waitTimer", "freeTimer",
                "freePublish", "freePlay", "stopUdp", "waitUdp", "freeUdp",
                "freeDtls", "freeSession", "gone"}
    /\ ctx \in [state : {0, 1}, activeState : BOOLEAN, isSendDtls : {0, 1}]
    /\ dtls \in [state : {"Init", "ClientHello", "ClientCertificate", "ClientDone"},
                 handshake_done : BOOLEAN]
    /\ srtp \subseteq {"send", "recv"}
    /\ udp \in [pc : {"none", "created", "bind", "startTimer", "loop", "close", "ended"}
                       \cup Handlers,
                isStart : {0, 1}, isLoop : {0, 1}]
    /\ timer \in [pc : {"none", "created", "started", "loop", "task", "ended"},
                  isStart : {0, 1}, isloop : {0, 1}]
    /\ arq \in [pc : {"none", "created", "loop", "ended"},
                turns : 0 .. ArqMaxLoop, count : 0 .. ArqMaxRetry]
    /\ freed \subseteq Objects
    /\ touched \subseteq {"udp", "udpClose", "timer", "arq"} \X Objects
    /\ missed \subseteq {"udp", "timer"}
    /\ caught \in BOOLEAN

\* A publisher that finds the handshake done can protect its packets, and what
\* arrives then can be unprotected: both SRTP contexts exist.
KeysBeforeMedia == dtls.state = "ClientDone" => srtp = {"send", "recv"}

\* The timer's task, which reads the session, the play stream and the socket,
\* never reads what the teardown has freed, if the timer ran when it was stopped.
TimerTouchesNothingFreed ==
    "timer" \notin missed => \A o \in Objects : <<"timer", o>> \notin touched

\* Nor does the UDP thread, if it ran when it was stopped and was in no
\* packet's handler when the session was marked inactive. Closing the socket,
\* which it does after it told that it has ended, is not covered.
UdpTouchesNothingFreed ==
    ("udp" \notin missed /\ ~caught) => \A o \in Objects : <<"udp", o>> \notin touched

\* A stop that came between a thread's isStart = 1 and its isLoop = 1 is undone.
StopIsLost ==
    \/ app = "waitUdp" /\ udp.isLoop = 1
    \/ app = "waitTimer" /\ timer.isloop = 1

\* A teardown comes to its end, unless its order to stop is overwritten.
TearDownEnds == app = "deactivate" ~> (app = "gone" \/ StopIsLost)
=============================================================================
