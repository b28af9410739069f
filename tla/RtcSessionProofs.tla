-------------------------- MODULE RtcSessionProofs --------------------------
(***************************************************************************)
(* Proofs about RtcSession, for any limit on the repeats of a flight and on*)
(* the turns of the loop that repeats it: the types, the order of keys and *)
(* media, and that threads which ran when they were stopped use nothing the*)
(* teardown has freed.                                                     *)
(***************************************************************************)
EXTENDS RtcSession, TLAPS

-----------------------------------------------------------------------------
(* Types *)

\* The types of the records.
CtxType   == [state : {0, 1}, activeState : BOOLEAN, isSendDtls : {0, 1}]
DtlsType  == [state : {"Init", "ClientHello", "ClientCertificate", "ClientDone"},
              handshake_done : BOOLEAN]
UdpPlaces == {"none", "created", "bind", "startTimer", "loop", "close", "ended"} \cup Handlers
UdpType   == [pc : UdpPlaces, isStart : {0, 1}, isLoop : {0, 1}]
ArqType   == [pc : {"none", "created", "loop", "ended"},
              turns : 0 .. ArqMaxLoop, count : 0 .. ArqMaxRetry]

LEMMA InitType == Init => TypeOK
<1> SUFFICES ASSUME Init PROVE TypeOK
    OBVIOUS
<1>1. ctx \in CtxType
    BY DEF Init, CtxType
<1>2. dtls \in DtlsType
    BY DEF Init, DtlsType
<1>3. caught \in BOOLEAN
    BY DEF Init
<1>4. arq \in ArqType
    BY ArqMaxOK DEF Init, ArqType
<1> QED BY <1>1, <1>2, <1>3, <1>4 DEF Init, TypeOK, CtxType, DtlsType, ArqType

LEMMA TearDownType == TypeOK /\ (StartRtc \/ TearDown) => TypeOK'
<1> SUFFICES ASSUME TypeOK, StartRtc \/ TearDown PROVE TypeOK'
    OBVIOUS
<1> USE DEF TypeOK, threads
<1>1. CASE StartRtc
    <2>1. ctx' \in CtxType
        BY <1>1 DEF StartRtc, CtxType
    <2>2. udp' \in UdpType
        BY <1>1 DEF StartRtc, UdpType, UdpPlaces
    <2> QED BY <1>1, <2>1, <2>2 DEF StartRtc, CtxType, UdpType, UdpPlaces
<1>2. CASE Disconnect BY <1>2 DEF Disconnect
<1>3. CASE Deactivate
    <2>1. ctx' \in CtxType
        BY <1>3 DEF Deactivate, CtxType
    <2>2. caught' \in BOOLEAN
        BY <1>3 DEF Deactivate
    <2> QED BY <1>3, <2>1, <2>2 DEF Deactivate, CtxType
<1>4. CASE StopTimer  BY <1>4 DEF StopTimer
<1>5. CASE WaitTimer  BY <1>5 DEF WaitTimer
<1>6. CASE StopUdp    BY <1>6 DEF StopUdp
<1>7. CASE WaitUdp    BY <1>7 DEF WaitUdp
<1>8. CASE Free("freeTimer", "timer", "freePublish")    BY <1>8 DEF Free, Objects
<1>9. CASE Free("freePublish", "pubStream", "freePlay") BY <1>9 DEF Free, Objects
<1>10. CASE Free("freePlay", "playStream", "stopUdp")   BY <1>10 DEF Free, Objects
<1>11. CASE Free("freeUdp", "udp", "freeDtls")          BY <1>11 DEF Free, Objects
<1>12. CASE Free("freeDtls", "dtls", "freeSession")     BY <1>12 DEF Free, Objects
<1>13. CASE Free("freeSession", "session", "gone")      BY <1>13 DEF Free, Objects
<1> QED BY <1>1, <1>2, <1>3, <1>4, <1>5, <1>6, <1>7, <1>8, <1>9, <1>10, <1>11,
           <1>12, <1>13 DEF TearDown

\* What a thread of the session uses is some of the objects.
LEMMA UsesType ==
    ASSUME TypeOK, NEW t \in {"udp", "udpClose", "timer", "arq"}, NEW objects, Uses(t, objects)
    PROVE  touched' \subseteq {"udp", "udpClose", "timer", "arq"} \X Objects
BY DEF TypeOK, Uses

LEMMA UdpThreadType == TypeOK /\ UdpThread => TypeOK'
<1> SUFFICES ASSUME TypeOK, UdpThread PROVE TypeOK'
    OBVIOUS
<1>1. touched' \subseteq {"udp", "udpClose", "timer", "arq"} \X Objects
    BY UsesType DEF UdpThread, UdpStart, UdpBind, UdpStartTimer, UdpReceive, OnStun,
       OnHello, OnFinished, CreateSendCtx, CreateRecvCtx, HandshakeDone, Connected,
       OnMedia, UdpEnd, UdpClose
<1> USE <1>1 DEF TypeOK, UdpStep, Handlers, Packets
<1>2. CASE UdpStart
    <2>1. udp' \in UdpType
        BY <1>2 DEF UdpStart, UdpType, UdpPlaces
    <2> QED BY <1>2, <2>1 DEF UdpStart, UdpType, UdpPlaces
<1>3. CASE UdpBind
    <2>1. udp' \in UdpType
        BY <1>3 DEF UdpBind, UdpType, UdpPlaces
    <2> QED BY <1>3, <2>1 DEF UdpBind, UdpType, UdpPlaces
<1>4. CASE UdpStartTimer BY <1>4 DEF UdpStartTimer
<1>5. CASE UdpReceive    BY <1>5 DEF UdpReceive
<1>6. CASE OnStun        BY <1>6 DEF OnStun
<1>7. CASE OnHello       BY <1>7 DEF OnHello
<1>8. CASE OnFinished
    <2>1. udp' \in UdpType /\ dtls' \in DtlsType
        BY <1>8 DEF OnFinished, UdpType, UdpPlaces, DtlsType
    <2> QED BY <1>8, <2>1 DEF OnFinished, UdpType, UdpPlaces, DtlsType
<1>9. CASE CreateSendCtx BY <1>9 DEF CreateSendCtx
<1>10. CASE CreateRecvCtx BY <1>10 DEF CreateRecvCtx
<1>11. CASE HandshakeDone BY <1>11 DEF HandshakeDone
<1>12. CASE Connected    BY <1>12 DEF Connected
<1>13. CASE OnMedia      BY <1>13 DEF OnMedia
<1>14. CASE UdpEnd
    <2>1. udp' \in UdpType
        BY <1>14 DEF UdpEnd, UdpType, UdpPlaces
    <2> QED BY <1>14, <2>1 DEF UdpEnd, UdpType, UdpPlaces
<1>15. CASE UdpClose     BY <1>15 DEF UdpClose
<1> QED BY <1>2, <1>3, <1>4, <1>5, <1>6, <1>7, <1>8, <1>9, <1>10, <1>11, <1>12,
           <1>13, <1>14, <1>15 DEF UdpThread

LEMMA TimerType == TypeOK /\ TimerThread => TypeOK'
<1> SUFFICES ASSUME TypeOK, TimerThread PROVE TypeOK'
    OBVIOUS
<1>1. touched' \subseteq {"udp", "udpClose", "timer", "arq"} \X Objects
    BY UsesType DEF TimerThread, TimerStart, TimerEnterLoop, TimerWake, TimerTask, TimerEnd
<1> USE <1>1 DEF TypeOK, TimerStep
<1>2. CASE TimerStart     BY <1>2 DEF TimerStart
<1>3. CASE TimerEnterLoop BY <1>3 DEF TimerEnterLoop
<1>4. CASE TimerWake      BY <1>4 DEF TimerWake
<1>5. CASE TimerTask      BY <1>5 DEF TimerTask
<1>6. CASE TimerEnd       BY <1>6 DEF TimerEnd
<1> QED BY <1>2, <1>3, <1>4, <1>5, <1>6 DEF TimerThread

LEMMA ArqLoopType == TypeOK /\ ArqLoop => TypeOK'
<1> SUFFICES ASSUME TypeOK, ArqLoop PROVE TypeOK'
    OBVIOUS
<1>1. touched' \subseteq {"udp", "udpClose", "timer", "arq"} \X Objects
    BY UsesType DEF ArqLoop, ArqTurn, ArqEnds
<1>2. arq' \in ArqType
    <2>1. arq \in ArqType
        BY DEF TypeOK, ArqType
    <2>2. CASE ArqGoesOn /\ arq.count < ArqMaxRetry
        <3>1. arq.turns + 1 \in 0 .. ArqMaxLoop
            BY <2>1, <2>2, ArqMaxOK DEF ArqGoesOn, ArqType
        <3>2. arq.count \in 0 .. ArqMaxRetry /\ arq.count + 1 \in 0 .. ArqMaxRetry
            BY <2>1, <2>2, ArqMaxOK DEF ArqType
        <3>3. arq.count + 0 = arq.count
            BY <3>2, ArqMaxOK
        <3> QED BY <2>2, <3>1, <3>2, <3>3 DEF ArqLoop, ArqTurn, ArqType
    <2>3. CASE ~(ArqGoesOn /\ arq.count < ArqMaxRetry)
        BY <2>1, <2>3 DEF ArqLoop, ArqEnds, ArqType
    <2> QED BY <2>2, <2>3
<1> QED BY <1>1, <1>2 DEF ArqLoop, TypeOK, ArqType

LEMMA StepType == TypeOK /\ [Next]_vars => TypeOK'
<1>1. TypeOK /\ UNCHANGED vars => TypeOK'
    BY DEF TypeOK, vars
<1> QED BY <1>1, TearDownType, UdpThreadType, TimerType, ArqLoopType DEF Next

\* The threads' places and flags, the handshake's state, the counter of
\* repeated flights and the history never leave their types.
THEOREM TypeCorrect == Spec => []TypeOK
BY InitType, StepType, PTL DEF Spec

-----------------------------------------------------------------------------
(* Keys before media *)

\* While the contexts are created the handshake does not count as done, and
\* each is there when the next step is taken.
KeysInv ==
    /\ udp.pc = "recvKey" => "send" \in srtp
    /\ udp.pc = "done" => srtp = {"send", "recv"}
    /\ KeysBeforeMedia

LEMMA InitKeys == Init => KeysInv
BY DEF Init, KeysInv, KeysBeforeMedia

LEMMA StepKeys == TypeOK /\ KeysInv /\ [Next]_vars => KeysInv'
<1> SUFFICES ASSUME TypeOK, KeysInv, [Next]_vars PROVE KeysInv'
    OBVIOUS
<1> USE DEF TypeOK, KeysInv, KeysBeforeMedia, UdpStep, threads, vars
<1>1. ASSUME UNCHANGED <<udp.pc, srtp, dtls>> PROVE KeysInv'
    BY <1>1
<1>2. CASE UNCHANGED vars
    BY <1>1, <1>2
<1>3. CASE StartRtc
    BY <1>3 DEF StartRtc
<1>4. CASE TearDown
    BY <1>1, <1>4 DEF TearDown, Disconnect, Deactivate, StopTimer, WaitTimer, Free, StopUdp, WaitUdp
<1>5. CASE UdpThread
    <2>1. CASE UdpStart      BY <1>5, <2>1 DEF UdpStart
    <2>2. CASE UdpBind       BY <1>5, <2>2 DEF UdpBind
    <2>3. CASE UdpStartTimer BY <1>5, <2>3 DEF UdpStartTimer
    <2>4. CASE UdpReceive    BY <1>5, <2>4 DEF UdpReceive, Packets
    <2>5. CASE OnStun        BY <1>5, <2>5 DEF OnStun
    <2>6. CASE OnHello       BY <1>5, <2>6 DEF OnHello
    <2>7. CASE OnFinished    BY <1>5, <2>7 DEF OnFinished
    <2>8. CASE CreateSendCtx BY <1>5, <2>8 DEF CreateSendCtx
    <2>9. CASE CreateRecvCtx BY <1>5, <2>9 DEF CreateRecvCtx
    <2>10. CASE HandshakeDone BY <1>5, <2>10 DEF HandshakeDone
    <2>11. CASE Connected    BY <1>5, <2>11 DEF Connected
    <2>12. CASE OnMedia      BY <1>5, <2>12 DEF OnMedia
    <2>13. CASE UdpEnd       BY <1>5, <2>13 DEF UdpEnd
    <2>14. CASE UdpClose     BY <1>5, <2>14 DEF UdpClose
    <2> QED BY <1>5, <2>1, <2>2, <2>3, <2>4, <2>5, <2>6, <2>7, <2>8, <2>9, <2>10,
               <2>11, <2>12, <2>13, <2>14 DEF UdpThread
<1>6. CASE TimerThread
    BY <1>1, <1>6 DEF TimerThread, TimerStart, TimerEnterLoop, TimerWake, TimerTask, TimerEnd,
                      TimerStep
<1>7. CASE ArqLoop
    BY <1>1, <1>7 DEF ArqLoop
<1> QED BY <1>2, <1>3, <1>4, <1>5, <1>6, <1>7 DEF Next

\* Whenever the handshake counts as done, which is what a publisher asks,
\* both SRTP contexts exist.
THEOREM KeysFirst == Spec => []KeysBeforeMedia
<1>1. TypeOK /\ KeysInv /\ [Next]_vars => (TypeOK /\ KeysInv)'
    BY StepType, StepKeys
<1>2. KeysInv => KeysBeforeMedia
    BY DEF KeysInv
<1> QED BY InitType, InitKeys, <1>1, <1>2, PTL DEF Spec

-----------------------------------------------------------------------------
(* Nothing freed is used *)

\* The places and flags of the UDP thread and the timer agree.
FlagsInv ==
    /\ udp.isStart = 1 <=> udp.pc \in {"bind", "startTimer", "loop"} \cup Handlers
    /\ timer.isStart = 1 <=> timer.pc \in {"started", "loop", "task"}
    /\ udp.pc = "none" <=> app = "new"
    /\ udp.pc \in {"none", "created", "bind", "startTimer"} => timer.pc = "none"

\* Where the application's thread is before it frees anything, before it marks
\* the session inactive, and when the UDP thread has ended.
BeforeInactive == {"new", "live", "deactivate"}
BeforeFree     == BeforeInactive \cup {"stopTimer", "waitTimer", "freeTimer"}
AfterUdp       == {"freeUdp", "freeDtls", "freeSession", "gone"}

\* What is freed where: streams while the UDP thread may still run, the rest
\* of what it uses after it has ended.
FreedInv ==
    /\ app \in BeforeFree => freed = {}
    /\ app \notin AfterUdp => freed \cap {"udp", "dtls", "session"} = {}

\* A timer that ran when it was stopped has ended before anything is freed.
TimerInv ==
    /\ app = "waitTimer" => timer.pc \in {"started", "loop", "task", "ended"}
    /\ (app \notin BeforeFree \/ app = "freeTimer") => ("timer" \in missed \/ timer.pc = "ended")

\* Once the session is inactive no packet is handled, unless one was when it
\* was marked.
InactiveInv ==
    /\ app \in BeforeInactive => ~caught
    /\ app \notin BeforeInactive => ~ctx.activeState
    /\ app \notin BeforeInactive => (caught \/ udp.pc \notin Handlers)

\* A UDP thread that ran when it was stopped has ended before the socket and
\* the rest are freed.
StoppedInv ==
    /\ app = "waitUdp" => ("udp" \in missed \/ udp.pc \notin {"none", "created"})
    /\ app \in AfterUdp => ("udp" \in missed \/ udp.pc \in {"close", "ended"})

IInv ==
    /\ TypeOK
    /\ FlagsInv
    /\ FreedInv
    /\ TimerInv
    /\ InactiveInv
    /\ StoppedInv
    /\ TimerTouchesNothingFreed
    /\ UdpTouchesNothingFreed

LEMMA InitInv == Init => IInv
<1> SUFFICES ASSUME Init PROVE IInv
    OBVIOUS
<1>1. TypeOK
    BY InitType
<1>2. FlagsInv /\ FreedInv /\ TimerInv
    BY DEF Init, FlagsInv, FreedInv, TimerInv, Handlers, Packets, BeforeFree, BeforeInactive,
           AfterUdp
<1>3. InactiveInv /\ StoppedInv
    BY DEF Init, InactiveInv, StoppedInv, BeforeInactive, AfterUdp
<1>4. TimerTouchesNothingFreed /\ UdpTouchesNothingFreed
    BY DEF Init, TimerTouchesNothingFreed, UdpTouchesNothingFreed
<1> QED BY <1>1, <1>2, <1>3, <1>4 DEF IInv

LEMMA StepFlags == TypeOK /\ FlagsInv /\ [Next]_vars => FlagsInv'
<1> SUFFICES ASSUME TypeOK, FlagsInv, [Next]_vars PROVE FlagsInv'
    OBVIOUS
<1> USE DEF TypeOK, FlagsInv, UdpStep, TimerStep, Handlers, Packets, threads, vars
<1>1. CASE UNCHANGED vars BY <1>1
<1>2. CASE StartRtc       BY <1>2 DEF StartRtc
<1>3. CASE TearDown
    BY <1>3 DEF TearDown, Disconnect, Deactivate, StopTimer, WaitTimer, Free, StopUdp, WaitUdp
<1>4. CASE UdpThread
    <2>1. CASE UdpStart BY <1>4, <2>1 DEF UdpStart
    <2>2. CASE UdpBind BY <1>4, <2>2 DEF UdpBind
    <2>3. CASE UdpStartTimer BY <1>4, <2>3 DEF UdpStartTimer
    <2>4. CASE UdpReceive BY <1>4, <2>4 DEF UdpReceive
    <2>5. CASE OnStun BY <1>4, <2>5 DEF OnStun
    <2>6. CASE OnHello BY <1>4, <2>6 DEF OnHello
    <2>7. CASE OnFinished BY <1>4, <2>7 DEF OnFinished
    <2>8. CASE CreateSendCtx BY <1>4, <2>8 DEF CreateSendCtx
    <2>9. CASE CreateRecvCtx BY <1>4, <2>9 DEF CreateRecvCtx
    <2>10. CASE HandshakeDone BY <1>4, <2>10 DEF HandshakeDone
    <2>11. CASE Connected BY <1>4, <2>11 DEF Connected
    <2>12. CASE OnMedia BY <1>4, <2>12 DEF OnMedia
    <2>13. CASE UdpEnd BY <1>4, <2>13 DEF UdpEnd
    <2>14. CASE UdpClose BY <1>4, <2>14 DEF UdpClose
    <2> QED BY <1>4, <2>1, <2>2, <2>3, <2>4, <2>5, <2>6, <2>7,
               <2>8, <2>9, <2>10, <2>11, <2>12, <2>13, <2>14 DEF UdpThread
<1>5. CASE TimerThread
    BY <1>5 DEF TimerThread, TimerStart, TimerEnterLoop, TimerWake, TimerTask, TimerEnd
<1>6. CASE ArqLoop        BY <1>6 DEF ArqLoop
<1> QED BY <1>1, <1>2, <1>3, <1>4, <1>5, <1>6 DEF Next

\* Only the application's thread frees, and only in this order.
LEMMA StepFreed == TypeOK /\ FreedInv /\ [Next]_vars => FreedInv'
<1> SUFFICES ASSUME TypeOK, FreedInv, [Next]_vars PROVE FreedInv'
    OBVIOUS
<1> USE DEF FreedInv, BeforeFree, BeforeInactive, AfterUdp
<1>1. ASSUME UNCHANGED <<app, freed>> PROVE FreedInv'
    BY <1>1
<1>2. CASE StartRtc BY <1>2 DEF StartRtc
<1>3. CASE TearDown
    BY <1>3 DEF TearDown, Disconnect, Deactivate, StopTimer, WaitTimer, Free, StopUdp, WaitUdp
<1>4. CASE UdpThread \/ TimerThread \/ ArqLoop \/ UNCHANGED vars
    BY <1>1, <1>4 DEF vars, UdpThread, UdpStart, UdpBind, UdpStartTimer, UdpReceive, OnStun,
       OnHello, OnFinished, CreateSendCtx, CreateRecvCtx, HandshakeDone, Connected, OnMedia,
       UdpEnd, UdpClose, TimerThread, TimerStart, TimerEnterLoop, TimerWake, TimerTask,
       TimerEnd, TimerStep, ArqLoop
<1> QED BY <1>2, <1>3, <1>4 DEF Next

\* A timer stopped while it runs is waited for; one that is started later was
\* missed by the stop.
LEMMA StepTimer == TypeOK /\ FlagsInv /\ TimerInv /\ [Next]_vars => TimerInv'
<1> SUFFICES ASSUME TypeOK, FlagsInv, TimerInv, [Next]_vars PROVE TimerInv'
    OBVIOUS
<1> USE DEF TypeOK, FlagsInv, TimerInv, BeforeFree, BeforeInactive, threads
<1>1. ASSUME UNCHANGED <<app, missed, timer>> PROVE TimerInv'
    BY <1>1
<1>2. CASE StartRtc       BY <1>2 DEF StartRtc
<1>3. CASE TearDown
    BY <1>3 DEF TearDown, Disconnect, Deactivate, StopTimer, WaitTimer, Free, StopUdp, WaitUdp
<1>4. CASE UdpStartTimer  BY <1>4 DEF UdpStartTimer, UdpStep
<1>5. CASE UdpThread /\ ~UdpStartTimer
    BY <1>1, <1>5 DEF UdpThread, UdpStart, UdpBind, UdpReceive, OnStun, OnHello, OnFinished,
       CreateSendCtx, CreateRecvCtx, HandshakeDone, Connected, OnMedia, UdpEnd, UdpClose
<1>6. CASE TimerThread
    BY <1>6 DEF TimerThread, TimerStart, TimerEnterLoop, TimerWake, TimerTask, TimerEnd, TimerStep
<1>7. CASE ArqLoop \/ UNCHANGED vars
    BY <1>1, <1>7 DEF ArqLoop, vars
<1> QED BY <1>2, <1>3, <1>4, <1>5, <1>6, <1>7 DEF Next

\* The session is inactive before anything is stopped, and a packet that
\* arrives then is not handled.
LEMMA StepInactive == TypeOK /\ InactiveInv /\ [Next]_vars => InactiveInv'
<1> SUFFICES ASSUME TypeOK, InactiveInv, [Next]_vars PROVE InactiveInv'
    OBVIOUS
<1> USE DEF InactiveInv, BeforeInactive, threads
<1>1. ASSUME UNCHANGED <<caught, ctx.activeState>>,
             app \in BeforeInactive <=> app' \in BeforeInactive,
             udp'.pc \in Handlers => (udp.pc \in Handlers \/ ctx.activeState)
      PROVE  InactiveInv'
    BY <1>1
<1>2. CASE Deactivate
    <2>1. app' = "stopTimer"
        BY <1>2 DEF Deactivate
    <2>2. ~ctx'.activeState
        BY <1>2 DEF Deactivate, TypeOK
    <2>3. caught' <=> udp.pc \in Handlers
        BY <1>2 DEF Deactivate
    <2>4. udp' = udp
        BY <1>2 DEF Deactivate
    <2> QED BY <2>1, <2>2, <2>3, <2>4
<1>3. CASE StartRtc
    <2>1. app = "new" /\ app' = "live" /\ caught' = caught
        BY <1>3 DEF StartRtc
    <2> QED BY <2>1
<1>4. CASE TearDown /\ ~Deactivate
    <2>1. UNCHANGED <<caught, ctx.activeState, udp.pc>>
        BY <1>4 DEF TypeOK, TearDown, Disconnect, StopTimer, WaitTimer, Free, StopUdp, WaitUdp
    <2>2. app \in BeforeInactive <=> app' \in BeforeInactive
        BY <1>4 DEF TearDown, Disconnect, StopTimer, WaitTimer, Free, StopUdp, WaitUdp
    <2> QED BY <1>1, <2>1, <2>2
<1>5. CASE UdpThread
    <2>1. UNCHANGED <<app, caught, ctx.activeState>>
        BY <1>5 DEF TypeOK, UdpThread, UdpStart, UdpBind, UdpStartTimer, UdpReceive, OnStun,
           OnHello, OnFinished, CreateSendCtx, CreateRecvCtx, HandshakeDone, Connected,
           OnMedia, UdpEnd, UdpClose
    <2>2. udp'.pc \in Handlers => (udp.pc \in Handlers \/ ctx.activeState)
        <3>1. CASE ~UdpReceive
            <4>1. \/ UdpStart \/ UdpBind \/ UdpStartTimer \/ UdpEnd \/ UdpClose
                  \/ udp.pc \in Handlers
                BY <1>5, <3>1 DEF UdpThread, OnStun, OnHello, OnFinished, CreateSendCtx,
                   CreateRecvCtx, HandshakeDone, Connected, OnMedia, UdpStep, Handlers, Packets
            <4>2. UdpStart \/ UdpBind \/ UdpStartTimer \/ UdpEnd \/ UdpClose
                     => udp'.pc \in {"bind", "startTimer", "loop", "close", "ended"}
                BY DEF TypeOK, UdpStart, UdpBind, UdpStartTimer, UdpEnd, UdpClose, UdpStep
            <4>3. Handlers \cap {"bind", "startTimer", "loop", "close", "ended"} = {}
                BY DEF Handlers, Packets
            <4> QED BY <4>1, <4>2, <4>3
        <3>2. CASE UdpReceive /\ ~UdpStep("loop", "loop")
            BY <3>2 DEF UdpReceive
        <3>3. CASE UdpStep("loop", "loop")
            <4>1. udp'.pc = "loop"
                BY <3>3 DEF UdpStep, TypeOK
            <4> QED BY <4>1 DEF Handlers, Packets
        <3> QED BY <3>1, <3>2, <3>3
    <2> QED BY <1>1, <2>1, <2>2
<1>6. CASE TimerThread \/ ArqLoop \/ UNCHANGED vars
    <2>1. UNCHANGED <<app, ctx, udp, caught>>
        BY <1>6 DEF TimerThread, TimerStart, TimerEnterLoop, TimerWake, TimerTask, TimerEnd,
           TimerStep, ArqLoop, vars
    <2> QED BY <1>1, <2>1
<1> QED BY <1>2, <1>3, <1>4, <1>5, <1>6 DEF Next

\* A UDP thread stopped while it runs is waited for.
LEMMA StepStopped == TypeOK /\ FlagsInv /\ StoppedInv /\ [Next]_vars => StoppedInv'
<1> SUFFICES ASSUME TypeOK, FlagsInv, StoppedInv, [Next]_vars PROVE StoppedInv'
    OBVIOUS
<1> USE DEF TypeOK, StoppedInv, AfterUdp, threads
<1>1. ASSUME UNCHANGED <<app, missed, udp>> PROVE StoppedInv'
    BY <1>1
<1>2. CASE StartRtc BY <1>2 DEF StartRtc
<1>3. CASE TearDown
    <2>1. CASE Disconnect BY <1>3, <2>1 DEF Disconnect
    <2>2. CASE Deactivate BY <1>3, <2>2 DEF Deactivate
    <2>3. CASE StopTimer BY <1>3, <2>3 DEF StopTimer
    <2>4. CASE WaitTimer BY <1>3, <2>4 DEF WaitTimer
    <2>5. CASE StopUdp BY <1>3, <2>5 DEF StopUdp, FlagsInv, Handlers, Packets
    <2>6. CASE WaitUdp BY <1>3, <2>6 DEF WaitUdp, FlagsInv, Handlers, Packets
    <2>7. CASE Free("freeTimer", "timer", "freePublish") BY <1>3, <2>7 DEF Free
    <2>8. CASE Free("freePublish", "pubStream", "freePlay") BY <1>3, <2>8 DEF Free
    <2>9. CASE Free("freePlay", "playStream", "stopUdp") BY <1>3, <2>9 DEF Free
    <2>10. CASE Free("freeUdp", "udp", "freeDtls") BY <1>3, <2>10 DEF Free
    <2>11. CASE Free("freeDtls", "dtls", "freeSession") BY <1>3, <2>11 DEF Free
    <2>12. CASE Free("freeSession", "session", "gone") BY <1>3, <2>12 DEF Free
    <2> QED BY <1>3, <2>1, <2>2, <2>3, <2>4, <2>5, <2>6, <2>7, <2>8, <2>9, <2>10, <2>11, <2>12
            DEF TearDown
<1>4. CASE UdpThread
    <2>1. CASE UdpStart BY <1>4, <2>1 DEF UdpStart, UdpStep, Handlers, Packets
    <2>2. CASE UdpBind BY <1>4, <2>2 DEF UdpBind, UdpStep, Handlers, Packets
    <2>3. CASE UdpStartTimer BY <1>4, <2>3 DEF UdpStartTimer, UdpStep, Handlers, Packets
    <2>4. CASE UdpReceive BY <1>4, <2>4 DEF UdpReceive, UdpStep, Handlers, Packets
    <2>5. CASE OnStun BY <1>4, <2>5 DEF OnStun, UdpStep, Handlers, Packets
    <2>6. CASE OnHello BY <1>4, <2>6 DEF OnHello, UdpStep, Handlers, Packets
    <2>7. CASE OnFinished BY <1>4, <2>7 DEF OnFinished, UdpStep, Handlers, Packets
    <2>8. CASE CreateSendCtx BY <1>4, <2>8 DEF CreateSendCtx, UdpStep, Handlers, Packets
    <2>9. CASE CreateRecvCtx BY <1>4, <2>9 DEF CreateRecvCtx, UdpStep, Handlers, Packets
    <2>10. CASE HandshakeDone BY <1>4, <2>10 DEF HandshakeDone, UdpStep, Handlers, Packets
    <2>11. CASE Connected BY <1>4, <2>11 DEF Connected, UdpStep, Handlers, Packets
    <2>12. CASE OnMedia BY <1>4, <2>12 DEF OnMedia, UdpStep, Handlers, Packets
    <2>13. CASE UdpEnd BY <1>4, <2>13 DEF UdpEnd, UdpStep, Handlers, Packets
    <2>14. CASE UdpClose BY <1>4, <2>14 DEF UdpClose, UdpStep, Handlers, Packets
    <2> QED BY <1>4, <2>1, <2>2, <2>3, <2>4, <2>5, <2>6, <2>7, <2>8, <2>9,
               <2>10, <2>11, <2>12, <2>13, <2>14 DEF UdpThread
<1>5. CASE TimerThread \/ ArqLoop \/ UNCHANGED vars
    BY <1>1, <1>5 DEF TimerThread, TimerStart, TimerEnterLoop, TimerWake, TimerTask, TimerEnd,
       TimerStep, ArqLoop, vars
<1> QED BY <1>2, <1>3, <1>4, <1>5 DEF Next

\* A step that uses no freed object records nothing.
LEMMA UsesNothingFreed ==
    ASSUME NEW t, NEW objects, Uses(t, objects), objects \cap freed = {}
    PROVE  touched' = touched
BY DEF Uses

\* While the timer's thread has not ended nothing is freed, or the timer was
\* missed by the stop.
LEMMA StepTimerTouches ==
    ASSUME IInv, [Next]_vars PROVE TimerTouchesNothingFreed'
<1> USE DEF TimerTouchesNothingFreed
<1>1. missed \subseteq missed'
    BY DEF IInv, TypeOK, Next, vars, StartRtc, TearDown, Disconnect, Deactivate, StopTimer,
       WaitTimer, Free, StopUdp, WaitUdp, UdpThread, UdpStart, UdpBind, UdpStartTimer,
       UdpReceive, OnStun, OnHello, OnFinished, CreateSendCtx, CreateRecvCtx, HandshakeDone,
       Connected, OnMedia, UdpEnd, UdpClose, TimerThread, TimerStart, TimerEnterLoop,
       TimerWake, TimerTask, TimerEnd, TimerStep, ArqLoop
<1>2. CASE TimerThread
    <2>1. CASE "timer" \in missed
        BY <1>1, <2>1
    <2>2. CASE "timer" \notin missed
        <3>1. timer.pc # "ended" /\ timer.pc \notin {"none"}
            BY <1>2 DEF TimerThread, TimerStart, TimerEnterLoop, TimerWake, TimerTask, TimerEnd
        <3>2. freed = {}
            BY <2>2, <3>1 DEF IInv, TimerInv, FreedInv, BeforeFree
        <3>3. touched' = touched
            BY <1>2, <3>2, UsesNothingFreed DEF TimerThread, TimerStart, TimerEnterLoop,
               TimerWake, TimerTask, TimerEnd
        <3> QED BY <1>1, <3>3 DEF IInv
    <2> QED BY <2>1, <2>2
<1>3. CASE UdpThread \/ ArqLoop
    <2>1. \A o \in Objects : <<"timer", o>> \in touched' => <<"timer", o>> \in touched
        BY <1>3 DEF UdpThread, UdpStart, UdpBind, UdpStartTimer, UdpReceive, OnStun, OnHello,
           OnFinished, CreateSendCtx, CreateRecvCtx, HandshakeDone, Connected, OnMedia,
           UdpEnd, UdpClose, ArqLoop, ArqTurn, ArqEnds, Uses
    <2> QED BY <1>1, <2>1 DEF IInv
<1>4. CASE StartRtc \/ TearDown \/ UNCHANGED vars
    <2>1. touched' = touched
        BY <1>4 DEF vars, StartRtc, TearDown, Disconnect, Deactivate, StopTimer, WaitTimer,
           Free, StopUdp, WaitUdp
    <2> QED BY <1>1, <2>1 DEF IInv
<1> QED BY <1>2, <1>3, <1>4 DEF Next

\* Outside a handler the UDP thread uses what is freed after it has ended,
\* inside one what is freed after the session is inactive.
LEMMA StepUdpTouches ==
    ASSUME IInv, [Next]_vars PROVE UdpTouchesNothingFreed'
<1> USE DEF UdpTouchesNothingFreed
<1>1. missed \subseteq missed'
    BY DEF IInv, TypeOK, Next, vars, StartRtc, TearDown, Disconnect, Deactivate, StopTimer,
       WaitTimer, Free, StopUdp, WaitUdp, UdpThread, UdpStart, UdpBind, UdpStartTimer,
       UdpReceive, OnStun, OnHello, OnFinished, CreateSendCtx, CreateRecvCtx, HandshakeDone,
       Connected, OnMedia, UdpEnd, UdpClose, TimerThread, TimerStart, TimerEnterLoop,
       TimerWake, TimerTask, TimerEnd, TimerStep, ArqLoop
<1>2. CASE UdpThread
    <2>1. caught' = caught
        BY <1>2 DEF UdpThread, UdpStart, UdpBind, UdpStartTimer, UdpReceive, OnStun, OnHello,
           OnFinished, CreateSendCtx, CreateRecvCtx, HandshakeDone, Connected, OnMedia,
           UdpEnd, UdpClose
    <2>2. CASE "udp" \in missed \/ caught
        BY <1>1, <2>1, <2>2
    <2>3. CASE "udp" \notin missed /\ ~caught /\ ~UdpClose
        <3>1. udp.pc \notin {"close", "ended"}
            BY <1>2, <2>3 DEF UdpThread, UdpStart, UdpBind, UdpStartTimer, UdpReceive, OnStun,
               OnHello, OnFinished, CreateSendCtx, CreateRecvCtx, HandshakeDone, Connected,
               OnMedia, UdpEnd, UdpStep
        <3>2. freed \cap {"udp", "dtls", "session"} = {}
            BY <2>3, <3>1 DEF IInv, StoppedInv, FreedInv
        <3>3. OnMedia => freed = {}
            BY <2>3 DEF OnMedia, UdpStep, IInv, InactiveInv, FreedInv, BeforeFree, Handlers, Packets
        <3>4. touched' = touched
            BY <1>2, <2>3, <3>2, <3>3, UsesNothingFreed DEF UdpThread, UdpStart, UdpBind,
               UdpStartTimer, UdpReceive, OnStun, OnHello, OnFinished, CreateSendCtx,
               CreateRecvCtx, HandshakeDone, Connected, OnMedia, UdpEnd
        <3> QED BY <1>1, <2>1, <3>4 DEF IInv
    <2>4. CASE UdpClose
        <3>1. \A o \in Objects : <<"udp", o>> \in touched' => <<"udp", o>> \in touched
            BY <2>4 DEF UdpClose, Uses
        <3> QED BY <1>1, <2>1, <3>1 DEF IInv
    <2> QED BY <2>2, <2>3, <2>4
<1>3. CASE TimerThread \/ ArqLoop
    <2>1. \A o \in Objects : <<"udp", o>> \in touched' => <<"udp", o>> \in touched
        BY <1>3 DEF TimerThread, TimerStart, TimerEnterLoop, TimerWake, TimerTask, TimerEnd,
           ArqLoop, ArqTurn, ArqEnds, Uses
    <2>2. caught' = caught
        BY <1>3 DEF TimerThread, TimerStart, TimerEnterLoop, TimerWake, TimerTask, TimerEnd,
           TimerStep, ArqLoop
    <2> QED BY <1>1, <2>1, <2>2 DEF IInv
<1>4. CASE StartRtc \/ TearDown \/ UNCHANGED vars
    <2>1. touched' = touched
        BY <1>4 DEF vars, StartRtc, TearDown, Disconnect, Deactivate, StopTimer, WaitTimer,
           Free, StopUdp, WaitUdp
    <2>2. caught => caught'
        <3>1. CASE Deactivate
            BY <3>1 DEF Deactivate, IInv, InactiveInv, BeforeInactive
        <3>2. CASE ~Deactivate
            BY <1>4, <3>2 DEF vars, StartRtc, TearDown, Disconnect, StopTimer, WaitTimer,
               Free, StopUdp, WaitUdp
        <3> QED BY <3>1, <3>2
    <2> QED BY <1>1, <2>1, <2>2 DEF IInv
<1> QED BY <1>2, <1>3, <1>4 DEF Next

LEMMA StepInv == IInv /\ [Next]_vars => IInv'
<1> SUFFICES ASSUME IInv, [Next]_vars PROVE IInv'
    OBVIOUS
<1>1. TypeOK' /\ FlagsInv' /\ FreedInv'
    BY StepType, StepFlags, StepFreed DEF IInv
<1>2. TimerInv' /\ InactiveInv' /\ StoppedInv'
    BY StepTimer, StepInactive, StepStopped DEF IInv
<1>3. TimerTouchesNothingFreed' /\ UdpTouchesNothingFreed'
    BY StepTimerTouches, StepUdpTouches
<1> QED BY <1>1, <1>2, <1>3 DEF IInv

LEMMA Invariance == Spec => []IInv
BY InitInv, StepInv, PTL DEF Spec

\* A timer that ran when yang_timer_stop was called never uses what the
\* teardown has freed.
THEOREM TimerSafe == Spec => []TimerTouchesNothingFreed
<1>1. IInv => TimerTouchesNothingFreed
    BY DEF IInv
<1> QED BY Invariance, <1>1, PTL

\* Up to the end of its loop, a UDP thread that ran when yang_stop_rtcudp was
\* called, and was in no packet's handler when the session was marked
\* inactive, never uses what the teardown has freed.
THEOREM UdpSafe == Spec => []UdpTouchesNothingFreed
<1>1. IInv => UdpTouchesNothingFreed
    BY DEF IInv
<1> QED BY Invariance, <1>1, PTL
=============================================================================
