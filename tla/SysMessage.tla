----------------------------- MODULE SysMessage -----------------------------
(***************************************************************************)
(* The application's messages to the library (YangSysMessageHandle): any   *)
(* thread may put one on the list m_sysMessages; one thread sleeps on a    *)
(* condition, wakes, and handles what is on the list.  The mutex guards    *)
(* the condition only: the list is appended to and erased from without it, *)
(* and whoever puts a message signals only if m_waitState says that the    *)
(* thread sleeps.                                                          *)
(*                                                                         *)
(* The thread holds the mutex whenever it neither sleeps nor has just been *)
(* woken, so the mutex is no variable.  push_back and erase each read the  *)
(* list and write it, so of two at once one is lost (torn).  How a message *)
(* is handled is left to a module that extends this one.                   *)
(***************************************************************************)
EXTENDS Integers, Sequences, FiniteSets

CONSTANTS
    Posters,  \* threads that put messages
    Kinds,    \* kinds of messages
    MaxPosts  \* bound: messages

ASSUME MaxPostsAssumption == MaxPosts \in Nat

VARIABLES
    poster,     \* threads that put a message: [pc, msg, list]
    queue,      \* m_sysMessages
    loop,       \* m_loop
    waitState,  \* m_waitState
    handler,    \* the thread: [pc, list]; m_isStart is part of pc
    owner,      \* the thread that destroys it
    posts,      \* messages made so far
    pushed,     \* history: the messages put on the list, in order
    handled,    \* history: the messages given to handleMessage, in order
    torn,       \* history: two threads changed the list at once
    overlooked, \* history: messages the thread fell asleep over
    stopLost    \* history: the stop was overwritten, or came while it fell asleep

msgHistory == <<pushed, handled, torn, overlooked, stopLost>>
msgVars == <<poster, queue, loop, waitState, handler, owner, posts, msgHistory>>

Message == [n : 1 .. MaxPosts, kind : Kinds]
Sleeps == handler.pc = "wait"
LockFree == handler.pc \in {"created", "begin", "lock", "wait", "woken", "ended"}
IsStart == handler.pc \notin {"created", "ended"}

\* A mutant of the next: the constructor leaves m_waitState as it finds it.
MsgInit_Unset ==
    /\ poster = [p \in Posters |-> [pc |-> "idle", msg |-> {}, list |-> << >>]]
    /\ queue = << >>
    /\ loop = 0
    /\ waitState \in {0, 7}
    /\ handler = [pc |-> "created", list |-> << >>]
    /\ owner = "open"
    /\ posts = 0
    /\ pushed = << >> /\ handled = << >>
    /\ torn = FALSE
    /\ overlooked = {}
    /\ stopLost = FALSE

MsgInit ==
    /\ poster = [p \in Posters |-> [pc |-> "idle", msg |-> {}, list |-> << >>]]
    /\ queue = << >>
    /\ loop = 0
    /\ waitState = 0
    /\ handler = [pc |-> "created", list |-> << >>]
    /\ owner = "open"
    /\ posts = 0
    /\ pushed = << >>
    /\ handled = << >>
    /\ torn = FALSE
    /\ overlooked = {}
    /\ stopLost = FALSE

-----------------------------------------------------------------------------
(* putMessage *)

\* Without the loop the message is dropped, and nobody is told.
Post(p, kind) ==
    /\ poster[p].pc = "idle"
    /\ owner # "gone"
    /\ posts < MaxPosts
    /\ posts' = posts + 1
    /\ poster' = IF loop = 1
                 THEN [poster EXCEPT ![p] = [pc |-> "push", list |-> queue,
                                             msg |-> {[n |-> posts + 1, kind |-> kind]}]]
                 ELSE poster
    /\ UNCHANGED <<queue, loop, waitState, handler, owner, msgHistory>>

\* push_back writes what it has read, and one more.
Push(p) ==
    \E m \in poster[p].msg :
        /\ poster[p].pc = "push"
        /\ queue' = Append(poster[p].list, m)
        /\ pushed' = Append(pushed, m)
        /\ torn' = (torn \/ queue # poster[p].list)
        /\ poster' = [poster EXCEPT ![p] = [pc |-> "test", msg |-> {}, list |-> << >>]]
        /\ UNCHANGED <<loop, waitState, handler, owner, posts, handled, overlooked, stopLost>>

TestWait(p) ==
    /\ poster[p].pc = "test"
    /\ poster' = [poster EXCEPT ![p].pc = IF waitState = 1 THEN "signal" ELSE "idle"]
    /\ UNCHANGED <<queue, loop, waitState, handler, owner, posts, msgHistory>>

\* The signal waits for the mutex, that is, until the thread sleeps again.
Woken == IF Sleeps THEN [handler EXCEPT !.pc = "woken"] ELSE handler

Signal(p) ==
    /\ poster[p].pc = "signal"
    /\ LockFree
    /\ handler' = Woken
    /\ poster' = [poster EXCEPT ![p].pc = "idle"]
    /\ UNCHANGED <<queue, loop, waitState, owner, posts, msgHistory>>

Poster(p) == Push(p) \/ TestWait(p) \/ Signal(p)

-----------------------------------------------------------------------------
(* run and startLoop *)

HandlerAt(from, to) ==
    /\ handler.pc = from
    /\ handler' = [handler EXCEPT !.pc = to]

Run ==
    /\ HandlerAt("created", "begin")
    /\ UNCHANGED <<poster, queue, loop, waitState, owner, posts, msgHistory>>

Begin ==
    /\ HandlerAt("begin", "lock")
    /\ loop' = 1
    /\ stopLost' = (stopLost \/ owner \in {"test", "signal", "wait"})
    /\ UNCHANGED <<poster, queue, waitState, owner, posts, pushed, handled, torn, overlooked>>

Lock ==
    /\ HandlerAt("lock", "while")
    /\ UNCHANGED <<poster, queue, loop, waitState, owner, posts, msgHistory>>

While ==
    /\ HandlerAt("while", IF loop = 1 THEN "arm" ELSE "ended")
    /\ UNCHANGED <<poster, queue, loop, waitState, owner, posts, msgHistory>>

\* A mutant of the next: m_waitState is set after the wait.
Arm_Unmarked ==
    /\ HandlerAt("arm", "wait")
    /\ overlooked' = IF \E p \in Posters : poster[p].pc \in {"test", "signal"}
                     THEN overlooked
                     ELSE overlooked \cup {queue[i] : i \in DOMAIN queue}
    /\ UNCHANGED <<poster, queue, loop, waitState, owner, posts, pushed, handled, torn, stopLost>>

\* m_waitState is set, and the thread falls asleep with whatever is on the list.
Arm ==
    /\ HandlerAt("arm", "wait")
    /\ waitState' = 1
    /\ overlooked' = IF \E p \in Posters : poster[p].pc \in {"test", "signal"}
                     THEN overlooked
                     ELSE overlooked \cup {queue[i] : i \in DOMAIN queue}
    /\ UNCHANGED <<poster, queue, loop, owner, posts, pushed, handled, torn, stopLost>>

Wake ==
    /\ HandlerAt("woken", "awake")
    /\ UNCHANGED <<poster, queue, loop, waitState, owner, posts, msgHistory>>

Awake ==
    /\ HandlerAt("awake", "size")
    /\ waitState' = 0
    /\ UNCHANGED <<poster, queue, loop, owner, posts, msgHistory>>

Size ==
    /\ handler.pc = "size" /\ queue = << >>
    /\ HandlerAt("size", "while")
    /\ UNCHANGED <<poster, queue, loop, waitState, owner, posts, msgHistory>>

HandleMessage ==
    /\ handler.pc = "size" /\ queue # << >>
    /\ HandlerAt("size", "handle")
    /\ handled' = Append(handled, Head(queue))
    /\ UNCHANGED <<poster, queue, loop, waitState, owner, posts, pushed, torn, overlooked, stopLost>>

\* handleMessage has returned; erase reads the list.
Return ==
    /\ handler.pc = "handle"
    /\ handler' = [pc |-> "erase", list |-> queue]
    /\ UNCHANGED <<poster, queue, loop, waitState, owner, posts, msgHistory>>

\* A mutant of the next: the first message stays.
Erase_Not ==
    /\ handler.pc = "erase"
    /\ handler' = [pc |-> "size", list |-> << >>]
    /\ UNCHANGED <<poster, queue, loop, waitState, owner, posts, msgHistory>>

Erase ==
    /\ handler.pc = "erase"
    /\ handler' = [pc |-> "size", list |-> << >>]
    /\ queue' = IF handler.list = << >> THEN << >> ELSE Tail(handler.list)
    /\ torn' = (torn \/ queue # handler.list)
    /\ UNCHANGED <<poster, loop, waitState, owner, posts, pushed, handled, overlooked, stopLost>>

-----------------------------------------------------------------------------
(* ~YangSysMessageHandle *)

OwnerAt(from, to) == owner = from /\ owner' = to

\* The derived class's destructor begins (YangPushMessageHandle: m_push is deleted).
Delete ==
    /\ OwnerAt("open", "delete")
    /\ UNCHANGED <<poster, queue, loop, waitState, handler, posts, msgHistory>>

StopLoop ==
    /\ OwnerAt("delete", IF IsStart THEN "test" ELSE "gone")
    /\ loop' = IF IsStart THEN 0 ELSE loop
    /\ UNCHANGED <<poster, queue, waitState, handler, posts, msgHistory>>

\* A mutant of the next: nobody is woken.
StopTest_Quiet ==
    /\ OwnerAt("test", "wait")
    /\ stopLost' = (stopLost \/ (waitState = 0 /\ handler.pc = "arm"))
    /\ UNCHANGED <<poster, queue, loop, waitState, handler, posts, pushed, handled, torn, overlooked>>

StopTest ==
    /\ OwnerAt("test", IF waitState = 1 THEN "signal" ELSE "wait")
    /\ stopLost' = (stopLost \/ (waitState = 0 /\ handler.pc = "arm"))
    /\ UNCHANGED <<poster, queue, loop, waitState, handler, posts, pushed, handled, torn, overlooked>>

StopSignal ==
    /\ OwnerAt("signal", "wait")
    /\ LockFree
    /\ handler' = Woken
    /\ UNCHANGED <<poster, queue, loop, waitState, posts, msgHistory>>

StopWait ==
    /\ OwnerAt("wait", "gone")
    /\ ~IsStart
    /\ UNCHANGED <<poster, queue, loop, waitState, handler, posts, msgHistory>>

-----------------------------------------------------------------------------
HandlerStep ==
    \/ Run \/ Begin \/ Lock \/ While \/ Arm \/ Wake \/ Awake
    \/ Size \/ HandleMessage \/ Return \/ Erase
OwnerStep == StopLoop \/ StopTest \/ StopSignal \/ StopWait

MsgNext ==
    \/ \E p \in Posters, kind \in Kinds : Post(p, kind)
    \/ \E p \in Posters : Poster(p)
    \/ HandlerStep
    \/ Delete \/ OwnerStep

MsgSpec == MsgInit /\ [][MsgNext]_msgVars

-----------------------------------------------------------------------------
(* Properties *)

PosterType == [pc : {"idle", "push", "test", "signal"}, msg : SUBSET Message, list : Seq(Message)]
HandlerType == [pc : {"created", "begin", "lock", "while", "arm", "wait", "woken", "awake",
                      "size", "handle", "erase", "ended"},
                list : Seq(Message)]

\* The types of the variables.
MsgTypeOK ==
    /\ poster \in [Posters -> PosterType]
    /\ queue \in Seq(Message)
    /\ loop \in {0, 1} /\ waitState \in {0, 1}
    /\ handler \in HandlerType
    /\ owner \in {"open", "delete", "test", "signal", "wait", "gone"}
    /\ posts \in 0 .. MaxPosts
    /\ pushed \in Seq(Message) /\ handled \in Seq(Message)
    /\ torn \in BOOLEAN /\ stopLost \in BOOLEAN
    /\ overlooked \subseteq Message

\* The messages are handled in the order in which they were put on the list, each
\* once and none left out, as long as no two threads change the list at once.
HandledInOrder ==
    ~torn => /\ Len(handled) <= Len(pushed)
             /\ \A i \in 1 .. Len(handled) : handled[i] = pushed[i]

\* A message is on the list; a message has been handled, or cannot be any more, since two
\* threads changed the list at once, the thread fell asleep over it, or it is being stopped.
Listed(n) == \E i \in DOMAIN queue : queue[i].n = n
Settled(n) ==
    \/ \E i \in DOMAIN handled : handled[i].n = n
    \/ torn \/ owner # "open" \/ \E m \in overlooked : m.n = n
=============================================================================
