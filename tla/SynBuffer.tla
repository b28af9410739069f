----------------------------- MODULE SynBuffer ------------------------------
(***************************************************************************)
(* When a decoded frame is played, held or dropped (YangSynBuffer): the    *)
(* thread that plays polls the buffer; a frame's time relative to a base   *)
(* is compared with the clock since the base was set.  After several       *)
(* frames that came too late, or several polls that found one too early,   *)
(* the base moves to the frame at hand; with video it also moves to every  *)
(* key frame played, with audio every five seconds.                        *)
(*                                                                         *)
(* Audio and video share nothing but the clock: a behaviour is of one of   *)
(* them.  Times are in milliseconds of one unit (the model's pts are those *)
(* after the division by the codec's clock).  The buffer is a FrameQueue.  *)
(***************************************************************************)
EXTENDS Integers, Sequences

CONSTANTS
    VideoCache, AudioCache,        \* m_videoCacheTime, Yang_Audio_Cache_time
    MaxVideoMinus, MaxAudioMinus,  \* m_maxVideoMinus, m_maxAudioMinus
    VideoLimit, AudioLimit,        \* late frames, and early polls, that are put up with
    UpdateInterval,                \* Yang_Audio_Base_Update_Interval
    LostLimit,                     \* updates with a long buffer that are put up with
    Steps, Turn,                   \* bounds: from a frame's time to the next one's, and
                                   \* back, when the times turn or start again
    MaxPts, MaxTime, Capacity      \* bounds

\* The caches are not longer than the windows with the program's own values (video: 35 ms
\* both; audio: 5 and 25 ms); setVideoCacheTime, which nothing calls and which tests
\* nothing, could set a longer one.
ASSUME CacheOK ==
    /\ VideoCache \in Nat /\ MaxVideoMinus \in Nat /\ VideoCache <= MaxVideoMinus
    /\ AudioCache \in Nat /\ MaxAudioMinus \in Nat /\ AudioCache <= MaxAudioMinus
ASSUME LimitsOK == VideoLimit \in Nat /\ AudioLimit \in Nat
ASSUME BoundsOK ==
    /\ UpdateInterval \in Nat /\ LostLimit \in Nat /\ Steps \subseteq Nat /\ Turn \in Nat
    /\ MaxPts \in Nat /\ MaxTime \in Nat /\ Capacity \in Nat

VARIABLES
    kind,      \* "audio" or "video"
    queue,     \* m_audioBuffer, m_videoBuffer
    pts,       \* the time of the frame put last
    now,       \* yang_get_milli_tick
    base,      \* m_videoBase, m_audioBase; 0 when not set
    start,     \* m_video_startClock, m_audio_startClock
    first,     \* m_isFirstVideo, m_isFirstAudio
    timeState, \* m_video_time_state: the first key frame has been seen
    late,      \* m_videoNegativeCount, m_audioNegativeCount
    early,     \* m_videoTimeoutCount, m_audioTimeoutCount
    lost,      \* m_lostAudioCount
    pc,        \* "take" when the first poll has emptied the buffer
    held,      \* history: polls in a row that held the frame
    moved,     \* history: the base moved, but not to the frame played last
    last       \* history: the frame played last: [pts, at, fresh], or none; fresh when
               \* it was judged by no base, or by one that had moved meanwhile

clock == <<base, start>>
counts == <<late, early, lost>>
history == <<held, moved, last>>
vars == <<kind, queue, pts, now, clock, first, timeState, counts, pc, history>>

Cache == IF kind = "video" THEN VideoCache ELSE AudioCache
MaxMinus == IF kind = "video" THEN MaxVideoMinus ELSE MaxAudioMinus
Limit == IF kind = "video" THEN VideoLimit ELSE AudioLimit

Frame == [pts : Int, key : BOOLEAN]

Init ==
    /\ kind \in {"audio", "video"}
    /\ queue = << >>
    /\ pts = 0
    /\ now = 0
    /\ base = 0 /\ start = 0
    /\ first = FALSE
    /\ timeState = 0
    /\ late = 0 /\ early = 0 /\ lost = 0
    /\ pc = "poll"
    /\ held = 0
    /\ moved = FALSE
    /\ last = {}

\* The decoder's thread.
Put(step, key) ==
    /\ Len(queue) < Capacity
    /\ pts + step \in 0 .. MaxPts
    /\ pts' = pts + step
    /\ queue' = Append(queue, [pts |-> pts', key |-> key])
    /\ UNCHANGED <<kind, now, clock, first, timeState, counts, pc, history>>

Tick ==
    /\ now < MaxTime
    /\ now' = now + 1
    /\ UNCHANGED <<kind, queue, pts, clock, first, timeState, counts, pc, history>>

-----------------------------------------------------------------------------
(* The thread that plays *)

\* The first poll empties the buffer, and still says that its frame be played.
FirstPoll ==
    /\ pc = "poll" /\ queue # << >> /\ base = 0 /\ ~first
    /\ queue' = << >>
    /\ first' = TRUE
    /\ pc' = "take"
    /\ UNCHANGED <<kind, pts, now, clock, timeState, counts, history>>

\* A frame that is played without being judged.
PlayedUnjudged(f) == {[pts |-> f.pts, at |-> now, fresh |-> TRUE]}

\* A frame that has come meanwhile is played at once.
TakeFirst ==
    /\ pc = "take"
    /\ IF queue = << >>
       THEN UNCHANGED <<queue, moved, last>>
       ELSE /\ queue' = Tail(queue)
            /\ moved' = TRUE
            /\ last' = PlayedUnjudged(Head(queue))
    /\ pc' = "poll"
    /\ UNCHANGED <<kind, pts, now, clock, first, timeState, counts, held>>

\* The base is set to the frame at hand before it is judged.
Sets ==
    \/ base = 0
    \/ kind = "video" /\ timeState = 0 /\ Head(queue).key

Base == IF Sets THEN Head(queue).pts ELSE base
Start == IF Sets THEN now ELSE start

\* m_videoTime, m_audioTime and m_videoMinus, m_audioMinus.
Time == Head(queue).pts - Base
Minus == Time + Cache - (now - Start)

Poll ==
    /\ pc = "poll" /\ queue # << >> /\ ~(base = 0 /\ ~first)
    /\ timeState' = IF kind = "video" /\ Head(queue).key THEN 1 ELSE timeState
    /\ UNCHANGED <<kind, pts, now, first, pc>>

\* A mutant of the next: the clock is not taken again.
Update_NoClock(moves) ==
    /\ base' = IF moves THEN Head(queue).pts ELSE Base
    /\ start' = Start

\* updateVideoBaseTimestamp, updateAudioBaseTimestamp.
Update(moves) ==
    /\ base' = IF moves THEN Head(queue).pts ELSE Base
    /\ start' = IF moves THEN now ELSE Start

\* A mutant of the next: one frame more is put up with, and the count goes on.
Drop_OneMore ==
    LET moves == late > Limit
    IN /\ Poll
       /\ Minus < 0
       /\ queue' = Tail(queue)
       /\ late' = IF moves THEN 0 ELSE late + 1
       /\ Update(moves)
       /\ held' = 0
       /\ moved' = (moved \/ moves \/ Sets)
       /\ UNCHANGED <<early, lost, last>>

\* Too late: the frame is dropped.  Audio looks at the next one in the same poll.
Drop ==
    LET moves == late >= Limit
    IN /\ Poll
       /\ Minus < 0
       /\ queue' = Tail(queue)
       /\ late' = IF moves THEN 0 ELSE late + 1
       /\ Update(moves)
       /\ held' = 0
       /\ moved' = (moved \/ moves \/ Sets)
       /\ UNCHANGED <<early, lost, last>>

\* A mutant of the next: the polls are counted, and the base stays.
Hold_BaseStays ==
    /\ Poll
    /\ Minus > MaxMinus
    /\ early' = IF early >= Limit THEN 0 ELSE early + 1
    /\ Update(FALSE)
    /\ held' = held + 1
    /\ moved' = (moved \/ Sets)
    /\ UNCHANGED <<queue, late, lost, last>>

\* Too early: the frame stays.
Hold ==
    LET moves == early >= Limit
    IN /\ Poll
       /\ Minus > MaxMinus
       /\ early' = IF moves THEN 0 ELSE early + 1
       /\ Update(moves)
       /\ held' = held + 1
       /\ moved' = (moved \/ moves \/ Sets)
       /\ UNCHANGED <<queue, late, lost, last>>

InTime == Poll /\ 0 <= Minus /\ Minus <= MaxMinus

Played(f) == {[pts |-> f.pts, at |-> now, fresh |-> moved \/ Sets]}

PlayVideo ==
    /\ kind = "video"
    /\ InTime
    /\ queue' = Tail(queue)
    /\ Update(Head(queue).key)
    /\ held' = 0
    /\ moved' = FALSE
    /\ last' = Played(Head(queue))
    /\ UNCHANGED counts

\* Frames are thrown away when the buffer was long at several updates.
Discards == Time > UpdateInterval /\ lost > LostLimit

PlayAudio ==
    /\ kind = "audio"
    /\ InTime
    /\ ~Discards
    /\ queue' = Tail(queue)
    /\ Update(Time > UpdateInterval)
    /\ lost' = IF Time > UpdateInterval /\ Len(queue) > 2 THEN lost + 1 ELSE lost
    /\ held' = 0
    /\ moved' = FALSE
    /\ last' = Played(Head(queue))
    /\ UNCHANGED <<late, early>>

\* Two frames go, the one judged among them; the base is set to that one, and the
\* third is played, if there is one.
Discard ==
    LET rest == SubSeq(queue, 3, Len(queue))
    IN /\ kind = "audio"
       /\ InTime
       /\ Discards
       /\ queue' = IF rest = << >> THEN << >> ELSE Tail(rest)
       /\ Update(TRUE)
       /\ lost' = IF Len(rest) > 2 THEN 1 ELSE 0
       /\ held' = 0
       /\ moved' = TRUE
       /\ last' = IF rest = << >> THEN last ELSE PlayedUnjudged(Head(rest))
       /\ UNCHANGED <<late, early>>

\* resetVideoClock, resetAudioClock, before a new stream is played.
Reset ==
    /\ pc = "poll"
    /\ base' = 0 /\ start' = 0
    /\ first' = FALSE
    /\ timeState' = IF kind = "video" THEN 0 ELSE timeState
    /\ late' = 0 /\ early' = 0 /\ lost' = 0
    /\ held' = 0
    /\ moved' = TRUE
    /\ UNCHANGED <<kind, queue, pts, now, pc, last>>

-----------------------------------------------------------------------------
Next ==
    \/ \E step \in Steps \cup {-Turn}, key \in BOOLEAN :
        (key => kind = "video") /\ Put(step, key)
    \/ Tick
    \/ FirstPoll \/ TakeFirst
    \/ Drop \/ Hold \/ PlayVideo \/ PlayAudio \/ Discard
    \/ Reset

Spec == Init /\ [][Next]_vars

-----------------------------------------------------------------------------
(* Properties *)

\* The types of the variables; the counters are reset at their limits.
TypeOK ==
    /\ kind \in {"audio", "video"}
    /\ queue \in Seq(Frame)
    /\ pts \in Int /\ now \in Nat
    /\ base \in Int /\ start \in Nat
    /\ first \in BOOLEAN
    /\ timeState \in {0, 1}
    /\ late \in 0 .. Limit /\ early \in 0 .. Limit
    /\ lost \in 0 .. LostLimit + 1
    /\ pc \in {"poll", "take"}
    /\ held \in Nat
    /\ moved \in BOOLEAN
    /\ last \in SUBSET [pts : Int, at : Nat, fresh : BOOLEAN]

\* No frame is held by more polls in a row than the limit and one, whatever
\* times the stream has and however late the polls come.
HeldAtMost == held <= Limit + 1

\* Two frames played one after the other are as far apart as their times say, give
\* or take the window, unless the base moved in between other than to a frame as it
\* was played, or the second was played unjudged.
EvenlyPlayed ==
    [][ \A a \in last, b \in last' :
            (b # a /\ ~b.fresh) =>
                LET drift == (b.at - a.at) - (b.pts - a.pts)
                IN -MaxMinus <= drift /\ drift <= MaxMinus ]_vars
=============================================================================
