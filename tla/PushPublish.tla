---------------------------- MODULE PushPublish -----------------------------
(***************************************************************************)
(* Publishing on the application's demand.  The message thread connects    *)
(* and disconnects (YangPushMessageHandle, YangPushHandleImpl): to connect *)
(* it ends what is being published, makes a publisher (YangRtcPublish), a  *)
(* stream and its session, and starts the publisher's thread; to           *)
(* disconnect it destroys the stream, then stops the thread, waits for it  *)
(* and frees the publisher.  When the application closes, its thread does  *)
(* the same by way of the destructors.                                     *)
(*                                                                         *)
(* The publisher's thread looks at the list of streams, at the stream's    *)
(* mark and state, and publishes, without a lock; if that fails and the    *)
(* stream is not connected, it disconnects it itself.                      *)
(*                                                                         *)
(* A publisher has the number of the message it was made for.  What is     *)
(* freed stays readable in the model, and its use is recorded.  Where the  *)
(* code crashes, two threads change the list of messages at once, or the   *)
(* application's thread and the message thread are in the handle at once,  *)
(* nothing more is modelled.                                               *)
(***************************************************************************)
EXTENDS SysMessage

Users == {"handler", "owner"}
Publishers == 1 .. MaxPosts

VARIABLES
    pub,     \* m_pub: the publisher there is, or 0
    obj,     \* publishers: [isConvert, pushs, streamInit, session]
    thread,  \* publishers' threads: [pc, turn]; m_isStart is part of pc
    user,    \* the threads that use the handle: [pc, k]
    freed,   \* publishers whose stream has been freed
    dead,    \* publishers that have been freed
    crossed, \* history: both were in the handle
    caught,  \* history: publishers' threads past the mark when it was cleared
    missed,  \* history: threads nobody waited for, since they had not said they loop
    touched, \* history: publishers whose stream was used after it was freed
    haunted, \* history: publishers used after they were freed
    twice    \* history: publishers whose session was destroyed by two threads

pushHistory == <<freed, dead, crossed, caught, missed, touched, haunted, twice>>
pushVars == <<pub, obj, thread, user, pushHistory>>
vars == <<msgVars, pushVars>>

IsStarted(k) == thread[k].pc \notin {"none", "start", "ended"}
Crashed == torn \/ crossed \/ \E k \in Publishers : thread[k].pc = "crashed"

Init ==
    /\ MsgInit
    /\ pub = 0
    /\ obj = [k \in Publishers |->
                [isConvert |-> 0, pushs |-> "none", streamInit |-> 0, session |-> "none"]]
    /\ thread = [k \in Publishers |-> [pc |-> "none", turn |-> "audio"]]
    /\ user = [u \in Users |-> [pc |-> "idle", k |-> 0]]
    /\ freed = {} /\ dead = {}
    /\ crossed = FALSE
    /\ caught = {} /\ missed = {} /\ touched = {} /\ haunted = {} /\ twice = {}

-----------------------------------------------------------------------------
(* The handle: stopPublish and publish *)

UserAt(u, from, to) ==
    /\ user[u].pc = from
    /\ user' = [user EXCEPT ![u].pc = to]

\* The message that is handled.
Current == handled[Len(handled)]
Connects(u) == u = "handler" /\ Current.kind = "connect"

\* After the old publisher is gone, or if there is none.
Onward(u) == IF Connects(u) THEN "create" ELSE "done"

Enters(u) ==
    /\ user[u].pc = "idle"
    /\ user' = [user EXCEPT ![u] = [pc |-> IF pub = 0 THEN Onward(u) ELSE "unset", k |-> pub]]
    /\ UNCHANGED <<msgVars, pub, obj, thread, pushHistory>>

\* The message thread begins to handle a message.
Handle == handler.pc = "handle" /\ Enters("handler")

\* An address that does not parse is refused.
Refuse ==
    /\ handler.pc = "handle" /\ Connects("handler")
    /\ UserAt("handler", "idle", "done")
    /\ UNCHANGED <<msgVars, pub, obj, thread, pushHistory>>

\* The application's thread begins to delete the handle.
DeletePush ==
    /\ owner = "delete" /\ handler.pc # "handle"
    /\ Enters("owner")

\* The publisher's thread has found the stream good and is about to use it.
Inside(k) == thread[k].pc \in {"check", "publish", "failed", "session", "destroy"}

AfterStream(u) == IF u = "handler" THEN "stop" ELSE "delete"

\* A mutant of the next: the stream's mark is left.
Unset_Not(u) ==
    LET k == user[u].k
    IN /\ UserAt(u, "unset", IF obj[k].pushs = "none" THEN AfterStream(u) ELSE "session")
       /\ caught' = IF Inside(k) THEN caught \cup {k} ELSE caught
       /\ UNCHANGED <<msgVars, pub, thread, obj, freed, dead, crossed, missed, touched, haunted, twice>>

\* disConnectMediaServer: streamInit = 0.
Unset(u) ==
    LET k == user[u].k
    IN /\ UserAt(u, "unset", IF obj[k].pushs = "none" THEN AfterStream(u) ELSE "session")
       /\ obj' = [obj EXCEPT ![k].streamInit = 0]
       /\ caught' = IF Inside(k) THEN caught \cup {k} ELSE caught
       /\ UNCHANGED <<msgVars, pub, thread, freed, dead, crossed, missed, touched, haunted, twice>>

HasSession(k) == obj[k].session \in {"live", "connected", "dying"}

\* yang_destroy_peerConnection.
EndSession(u) ==
    LET k == user[u].k
    IN /\ UserAt(u, "session", IF HasSession(k) THEN "destroy" ELSE "freeStream")
       /\ obj' = [obj EXCEPT ![k].session = IF HasSession(k) THEN "dying" ELSE @]
       /\ twice' = IF obj[k].session = "dying" THEN twice \cup {k} ELSE twice
       /\ UNCHANGED <<msgVars, pub, thread, freed, dead, crossed, caught, missed, touched, haunted>>

SessionEnded(u) ==
    LET k == user[u].k
    IN /\ UserAt(u, "destroy", "freeStream")
       /\ obj' = [obj EXCEPT ![k].session = "freed"]
       /\ UNCHANGED <<msgVars, pub, thread, pushHistory>>

\* The stream is freed, and its entry in the list is NULL until the list is cleared.
FreeStream(u) ==
    LET k == user[u].k
    IN /\ UserAt(u, "freeStream", "clear")
       /\ obj' = [obj EXCEPT ![k].pushs = "null"]
       /\ freed' = freed \cup {k}
       /\ UNCHANGED <<msgVars, pub, thread, dead, crossed, caught, missed, touched, haunted, twice>>

Clear(u) ==
    LET k == user[u].k
    IN /\ UserAt(u, "clear", AfterStream(u))
       /\ obj' = [obj EXCEPT ![k].pushs = "none"]
       /\ UNCHANGED <<msgVars, pub, thread, pushHistory>>

\* yang_stop: a thread that has not said that it has started is not told.
StopPublisher(u) ==
    LET k == user[u].k
    IN /\ UserAt(u, "stop", "waitStop")
       /\ obj' = [obj EXCEPT ![k].isConvert = IF IsStarted(k) THEN 0 ELSE @]
       /\ UNCHANGED <<msgVars, pub, thread, pushHistory>>

\* yang_stop_thread.
WaitStop(u) ==
    /\ user[u].pc = "waitStop" /\ ~IsStarted(user[u].k)
    /\ UserAt(u, "waitStop", "delete")
    /\ UNCHANGED <<msgVars, pub, obj, thread, pushHistory>>

\* ~YangRtcPublish: a thread that loops is stopped and waited for.
DeletePublisher(u) ==
    LET k == user[u].k
    IN /\ UserAt(u, "delete", IF obj[k].isConvert = 1 THEN "waitDelete" ELSE "free")
       /\ obj' = [obj EXCEPT ![k].isConvert = 0]
       /\ missed' = IF thread[k].pc \in {"start", "convert"} THEN missed \cup {k} ELSE missed
       /\ UNCHANGED <<msgVars, pub, thread, freed, dead, crossed, caught, touched, haunted, twice>>

WaitDelete(u) ==
    /\ user[u].pc = "waitDelete" /\ ~IsStarted(user[u].k)
    /\ UserAt(u, "waitDelete", "free")
    /\ UNCHANGED <<msgVars, pub, obj, thread, pushHistory>>

Free(u) ==
    LET k == user[u].k
    IN /\ UserAt(u, "free", Onward(u))
       /\ dead' = dead \cup {k}
       /\ pub' = 0
       /\ UNCHANGED <<msgVars, obj, thread, freed, crossed, caught, missed, touched, haunted, twice>>

\* publish, and init up to the connection.
Create(u) ==
    /\ user[u].pc = "create"
    /\ pub' = Current.n
    /\ user' = [user EXCEPT ![u] = [pc |-> "connect", k |-> Current.n]]
    /\ UNCHANGED <<msgVars, obj, thread, pushHistory>>

ConnectServer(u, ok) ==
    LET k == user[u].k
    IN /\ UserAt(u, "connect", IF ok THEN "start" ELSE "done")
       /\ obj' = [obj EXCEPT ![k] = [isConvert |-> @.isConvert, pushs |-> "handle",
                                     session |-> "live", streamInit |-> IF ok THEN 1 ELSE 0]]
       /\ UNCHANGED <<msgVars, pub, thread, pushHistory>>

StartThread(u) ==
    LET k == user[u].k
    IN /\ UserAt(u, "start", "done")
       /\ thread' = [thread EXCEPT ![k].pc = "start"]
       /\ UNCHANGED <<msgVars, pub, obj, pushHistory>>

User(u) ==
    /\ ~Crashed
    /\ \/ Unset(u) \/ EndSession(u) \/ SessionEnded(u) \/ FreeStream(u) \/ Clear(u)
       \/ StopPublisher(u) \/ WaitStop(u) \/ DeletePublisher(u) \/ WaitDelete(u) \/ Free(u)
       \/ Create(u) \/ (\E ok \in BOOLEAN : ConnectServer(u, ok)) \/ StartThread(u)

-----------------------------------------------------------------------------
(* The publisher's thread: run and startLoop *)

\* A step of the thread, with what it uses that may be gone.
Runs(k, from) ==
    /\ thread[k].pc = from
    /\ touched' = IF Inside(k) /\ k \in freed THEN touched \cup {k} ELSE touched
    /\ haunted' = IF k \in dead THEN haunted \cup {k} ELSE haunted
    /\ UNCHANGED <<msgVars, pub, user, freed, dead, crossed, caught, missed>>

Moves(k, from, to) ==
    /\ Runs(k, from)
    /\ thread' = [thread EXCEPT ![k].pc = to]
    /\ UNCHANGED twice

Start(k) == Moves(k, "start", "convert") /\ UNCHANGED obj

Convert(k) ==
    /\ Moves(k, "convert", "loop")
    /\ obj' = [obj EXCEPT ![k].isConvert = 1]

\* There is a frame.
Look(k) ==
    /\ obj[k].isConvert = 1
    /\ Moves(k, "loop", "streams")
    /\ UNCHANGED obj

End(k) ==
    /\ obj[k].isConvert = 0
    /\ Moves(k, "loop", "ended")
    /\ UNCHANGED obj

\* The list, its last entry and the entry's mark are read without a lock.
Streams(k) ==
    /\ Moves(k, "streams",
             CASE obj[k].pushs = "none" -> "loop"
               [] obj[k].pushs = "null" -> "crashed"
               [] obj[k].pushs = "handle" -> IF obj[k].streamInit = 1 THEN "check" ELSE "loop")
    /\ UNCHANGED obj

\* Of a stream that is connected the thread sends what there is of audio, then of video.
Check(k, turn) ==
    /\ Runs(k, "check")
    /\ thread' = [thread EXCEPT ![k] = IF obj[k].session = "connected" THEN [pc |-> "publish", turn |-> turn]
                                      ELSE [@ EXCEPT !.pc = "loop"]]
    /\ UNCHANGED <<obj, twice>>

\* The thread goes on to the video frame, if there is one.
GoesOn(k, video) ==
    thread' = [thread EXCEPT ![k] = IF video THEN [pc |-> "publish", turn |-> "video"]
                                             ELSE [pc |-> "loop", turn |-> "audio"]]

Sent(k, video) ==
    /\ HasSession(k)
    /\ video => thread[k].turn = "audio"
    /\ Runs(k, "publish")
    /\ GoesOn(k, video)
    /\ UNCHANGED <<obj, twice>>

Fails(k) == Moves(k, "publish", "failed") /\ UNCHANGED obj

StillConnected(k, video) ==
    /\ obj[k].session = "connected"
    /\ video => thread[k].turn = "audio"
    /\ Runs(k, "failed")
    /\ GoesOn(k, video)
    /\ UNCHANGED <<obj, twice>>

NotConnected(k) ==
    /\ obj[k].session # "connected"
    /\ Moves(k, "failed", "session")
    /\ obj' = [obj EXCEPT ![k].streamInit = 0]

\* disConnectServer.
Disconnect(k) ==
    /\ HasSession(k)
    /\ Runs(k, "session")
    /\ thread' = [thread EXCEPT ![k].pc = "destroy"]
    /\ obj' = [obj EXCEPT ![k].session = "dying"]
    /\ twice' = IF obj[k].session = "dying" THEN twice \cup {k} ELSE twice

Disconnected(k, video) ==
    /\ thread[k].pc = "session" => ~HasSession(k)
    /\ video => thread[k].turn = "audio"
    /\ Runs(k, "session") \/ Runs(k, "destroy")
    /\ GoesOn(k, video)
    /\ obj' = [obj EXCEPT ![k].session = "freed"]
    /\ UNCHANGED twice

Publishes(k) ==
    /\ ~Crashed
    /\ \/ Start(k) \/ Convert(k) \/ End(k) \/ Streams(k)
       \/ \E turn \in {"audio", "video"} : Check(k, turn)
       \/ Fails(k) \/ NotConnected(k) \/ Disconnect(k)
       \/ \E video \in BOOLEAN :
            Sent(k, video) \/ StillConnected(k, video) \/ Disconnected(k, video)

Frame(k) == ~Crashed /\ Look(k)

\* The UDP thread of the session has the server's first DTLS packet.  (context.state is part of
\* the session; that it may be set once more while the session is destroyed is left out.)
Connected(k) ==
    /\ ~Crashed
    /\ obj[k].session = "live" /\ obj[k].streamInit = 1
    /\ obj' = [obj EXCEPT ![k].session = "connected"]
    /\ UNCHANGED <<msgVars, pub, thread, user, pushHistory>>

-----------------------------------------------------------------------------
(* The threads together *)

\* From here on the handler and the application's thread share what is being deleted,
\* or the handler calls a function that the destroyed class no longer has.
Cross ==
    /\ ~crossed
    /\ \/ owner # "open" /\ handler.pc = "size" /\ queue # << >>
       \/ owner = "delete" /\ user["owner"].pc = "idle" /\ handler.pc = "handle"
    /\ crossed' = TRUE
    /\ UNCHANGED <<msgVars, pub, obj, thread, user, freed, dead, caught, missed, touched, haunted, twice>>

Handled ==
    /\ Return
    /\ user["handler"].pc = "done"
    /\ user' = [user EXCEPT !["handler"] = [pc |-> "idle", k |-> 0]]
    /\ UNCHANGED <<pub, obj, thread, pushHistory>>

\* The list is worked off and the condition waited for as SysMessage has it.
MsgHandler ==
    \/ Run \/ Begin \/ Lock \/ While \/ Arm \/ Wake \/ Awake \/ Size \/ Erase
    \/ owner = "open" /\ HandleMessage

MsgOwner ==
    \/ user["owner"].pc = "done" /\ StopLoop
    \/ StopTest \/ StopSignal \/ StopWait

MessageThread ==
    \/ ~Crashed /\ MsgHandler /\ UNCHANGED pushVars
    \/ ~Crashed /\ (Handle \/ Refuse \/ Handled)
    \/ User("handler")
    \/ ~Crashed /\ Cross

Closing ==
    \/ ~Crashed /\ MsgOwner /\ UNCHANGED pushVars
    \/ ~Crashed /\ DeletePush
    \/ User("owner")

Puts(p) == ~Crashed /\ Poster(p) /\ UNCHANGED pushVars

Application ==
    /\ ~Crashed
    /\ Delete \/ \E p \in Posters, kind \in Kinds : Post(p, kind)
    /\ UNCHANGED pushVars

Next ==
    \/ Application
    \/ \E p \in Posters : Puts(p)
    \/ MessageThread
    \/ Closing
    \/ \E k \in Publishers : Publishes(k) \/ Frame(k) \/ Connected(k)

\* Every thread goes on; frames, connections and the application's calls need not come.
Fairness ==
    /\ \A p \in Posters : WF_vars(Puts(p))
    /\ WF_vars(MessageThread)
    /\ WF_vars(Closing)
    /\ \A k \in Publishers : WF_vars(Publishes(k))

Spec == Init /\ [][Next]_vars /\ Fairness

-----------------------------------------------------------------------------
(* Properties *)

ObjType == [isConvert : {0, 1}, pushs : {"none", "handle", "null"}, streamInit : {0, 1},
            session : {"none", "live", "connected", "dying", "freed"}]
ThreadType == [pc : {"none", "start", "convert", "loop", "streams", "check", "publish", "failed",
                     "session", "destroy", "ended", "crashed"},
               turn : {"audio", "video"}]
UserType == [pc : {"idle", "unset", "session", "destroy", "freeStream", "clear", "stop", "waitStop",
                   "delete", "waitDelete", "free", "create", "connect", "start", "done"},
             k : 0 .. MaxPosts]

\* The types of the variables.
TypeOK ==
    /\ MsgTypeOK
    /\ pub \in 0 .. MaxPosts
    /\ obj \in [Publishers -> ObjType]
    /\ thread \in [Publishers -> ThreadType]
    /\ user \in [Users -> UserType]
    /\ freed \subseteq Publishers /\ dead \subseteq Publishers
    /\ crossed \in BOOLEAN
    /\ caught \subseteq Publishers /\ missed \subseteq Publishers
    /\ touched \subseteq Publishers /\ haunted \subseteq Publishers /\ twice \subseteq Publishers

\* What is freed is used by nobody: the stream and its session only by a publisher's thread
\* that had found the mark set before it was cleared, the publisher only by a thread that
\* had not yet said that it loops when it was deleted.
FreedIsNotUsed ==
    /\ touched \subseteq caught
    /\ twice \subseteq caught
    /\ haunted \subseteq missed

\* The message thread waits for a publisher that has been told to stop too early.
StopIsLost(u) == user[u].pc = "waitStop" /\ obj[user[u].k].isConvert = 1

\* What the application has put on the list is handled, if nothing crashes and the message
\* thread does not wait for a publisher that has overwritten its stop.
EveryPostIsHandled ==
    \A n \in 1 .. MaxPosts : Listed(n) ~> Settled(n) \/ Crashed \/ StopIsLost("handler")

\* The destructor comes to its end, unless the stop of a thread is lost.
CloseEnds ==
    owner = "delete" ~> owner = "gone" \/ stopLost \/ Crashed \/ StopIsLost("handler")
=============================================================================
