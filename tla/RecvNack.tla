------------------------------ MODULE RecvNack ------------------------------
(***************************************************************************)
(* The receiving half of metaRTC's loss recovery for one media track:      *)
(* yang_recvtrack_on_nack with YangReceiveNackBuffer (the range of sequence*)
(* numbers seen) and YangRtpRecvNack (the list of numbers to ask for). All *)
(* of it runs on the UDP thread when a packet has been decoded; the 20 ms  *)
(* timer that would also check the list is commented out in the source.    *)
(*                                                                         *)
(* Packets are known by their number n in the order the sender produced    *)
(* them; the receiver sees SeqNum(n) only. The network loses, delays and    *)
(* reorders packets, and duplicates them when SRTP does not reject replays.*)
(***************************************************************************)
EXTENDS SeqArith, SequencesExt

CONSTANTS
    FirstSeq,         \* sequence number of packet 0
    MaxNumber,        \* bound: packets the sender produces
    Reorder,          \* bound: how far behind the newest a packet may arrive
    Early,            \* may packets older than the first one seen arrive?
    HaveDtls,         \* Yang_HaveDtls: SRTP rejects a packet seen before
    MaxTime,          \* bound: the clock, in ticks
    MaxQueueSize,     \* max_queue_size: 66 for audio, 666 for video
    MaxReqCount,      \* opts.max_req_count: 10
    MaxAliveTime,     \* opts.max_alive_time: 1000 ms
    FirstInterval,    \* opts.first_nack_interval: 10 ms
    StartInterval,    \* opts.nack_interval at the start: 50 ms
    MaxInterval,      \* opts.max_nack_interval: 500 ms
    MinInterval,      \* opts.min_nack_interval: 15 ms
    CheckInterval,    \* opts.nack_check_interval: 15 ms
    Rtts              \* round trip times a report may carry

ASSUME ConstantsOK ==
    /\ FirstSeq \in 0 .. SeqSpace - 1
    /\ {MaxNumber, Reorder, MaxTime, MaxQueueSize, MaxReqCount, MaxAliveTime,
        FirstInterval, StartInterval, MaxInterval, MinInterval, CheckInterval}
         \subseteq Nat
    /\ {Early, HaveDtls} \subseteq BOOLEAN
    /\ Rtts \subseteq Nat

VARIABLES
    buf,          \* YangReceiveNackBuffer: [begin, end, contexttialized]
    list,         \* nack->queue: the numbers missing, with their timers
    preCheck,     \* nack->pre_check_time
    nackInterval, \* nack->opts.nack_interval
    now,          \* yang_get_system_time, from the start of the program
    request,      \* the NACK the last step sent, empty if none
    received,     \* history: numbers that reached on_nack
    gone,         \* history: numbers given up, which then leave the list
    base          \* history: oldest number since the last (re)start

vars == <<buf, list, preCheck, nackInterval, now, request, received, gone, base>>

SeqNum(n) == (FirstSeq + n) % SeqSpace
Next16(s) == (s + 1) % SeqSpace
Bigger(a, b) == IF a > b THEN a ELSE b
Smaller(a, b) == IF a < b THEN a ELSE b

Newest == IF received = {} THEN 0 ELSE CHOOSE n \in received : \A m \in received : m <= n

\* YangRtpNackInfo, as yang_create_nackinfo makes it.
Info == [sn : Seqs, generate_time : Nat, pre_req_time : Nat, req_count : Nat]
NewInfo(sn) == [sn |-> sn, generate_time |-> now, pre_req_time |-> 0, req_count |-> 0]

Numbers(infos) == [i \in 1 .. Len(infos) |-> infos[i].sn]
Listed == ToSet(Numbers(list))

Init ==
    /\ buf = [begin |-> 0, end |-> 0, contexttialized |-> FALSE]
    /\ list = <<>>
    /\ preCheck = 0
    /\ nackInterval = StartInterval
    /\ now = 0
    /\ request = <<>>
    /\ received = {}
    /\ gone = {}
    /\ base = 0

-----------------------------------------------------------------------------
(* YangReceiveNackBuffer *)

\* A mutant of the next: the range goes up to and not including last - 1.
Update2_OffByOne(seq) ==
    IF buf.contexttialized
    THEN [buf |-> [buf EXCEPT !.end = Next16(seq)],
          first |-> buf.end, last |-> (seq - 1) % SeqSpace]
    ELSE [buf |-> [buf EXCEPT !.contexttialized = TRUE, !.begin = seq, !.end = Next16(seq)],
          first |-> 0, last |-> 0]

\* yang_nackbuffer_update2: the buffer after a number that was not listed, and
\* the range of numbers that are now missing, [first, last).
Update2(seq) ==
    CASE ~buf.contexttialized ->
           [buf |-> [buf EXCEPT !.contexttialized = TRUE, !.begin = seq,
                                !.end = Next16(seq)],
            first |-> 0, last |-> 0]
      [] buf.contexttialized /\ Distance(buf.end, seq) >= 0 ->
           [buf |-> [buf EXCEPT !.end = Next16(seq)], first |-> buf.end, last |-> seq]
      [] /\ buf.contexttialized
         /\ Distance(buf.end, seq) < 0 /\ Distance(seq, buf.begin) > 0 ->
           [buf |-> [buf EXCEPT !.begin = seq], first |-> seq, last |-> buf.begin]
      [] OTHER -> [buf |-> buf, first |-> 0, last |-> 0]

\* yang_nackbuffer_notify_nack_list_full
Flushed(b) == [b EXCEPT !.begin = 0, !.end = 0, !.contexttialized = FALSE]

\* yang_nackbuffer_notify_drop_seq
Dropped(b, seq) == [b EXCEPT !.begin = Next16(seq)]

-----------------------------------------------------------------------------
(* YangRtpRecvNack *)

\* yang_recvnack_insert: every number of [first, last), at its place.
Inserted(infos, first, last) ==
    LET Insert(l, k) ==
            LET sn == (first + k) % SeqSpace
                at == Place(Numbers(l), sn)
            IN  IF at = Duplicate THEN l ELSE Spliced(l, at, NewInfo(sn))
    IN  FoldLeft(Insert, infos, [k \in 1 .. Distance(first, last) |-> k - 1])

\* How long to wait before a number is asked for again.
RequestGap ==
    IF nackInterval < StartInterval
    THEN Bigger(MinInterval, nackInterval)
    ELSE Bigger(MinInterval, nackInterval \div 3)

Expired(info) ==
    now - info.generate_time > MaxAliveTime \/ info.req_count > MaxReqCount

\* One turn of the loop of yang_recvnack_get_nack_seqs, at position at: give
\* the number up (the next one then moves under at and is passed over), stop
\* at a number that is still young, or ask for it if it is due. The numbers
\* asked for are put into the NACK by yang_rtcpNack_addSn.
Turn(scan, ignored) ==
    IF scan.stop \/ scan.at > Len(scan.list) THEN scan
    ELSE LET info == scan.list[scan.at]
             place == Place(scan.request, info.sn)
         IN  IF Expired(info)
             THEN [scan EXCEPT !.buf = Dropped(@, info.sn),
                               !.list = RemoveAt(@, scan.at),
                               !.at = @ + 1]
             ELSE IF now - info.generate_time < FirstInterval
             THEN [scan EXCEPT !.stop = TRUE]
             ELSE IF now - info.pre_req_time >= RequestGap
             THEN [scan EXCEPT !.list[scan.at].req_count = @ + 1,
                               !.list[scan.at].pre_req_time = now,
                               !.request = IF place = Duplicate THEN @
                                           ELSE Spliced(@, place, info.sn),
                               !.at = @ + 1]
             ELSE [scan EXCEPT !.at = @ + 1]

GetNackSeqs(b, infos) ==
    LET start == [buf |-> b, list |-> infos, request |-> <<>>, at |-> 1, stop |-> FALSE]
    IN  FoldLeft(Turn, start, [i \in 1 .. Len(infos) |-> i])

-----------------------------------------------------------------------------
(* The handlers *)

\* The last part of yang_recvtrack_on_nack, yang_check_send_nacks: when the
\* list is not empty and was not checked a moment ago, go through it.
CheckSendNacks(b, infos) ==
    IF infos # <<>> /\ now - preCheck >= CheckInterval
    THEN LET scan == GetNackSeqs(b, infos)
         IN  /\ buf' = scan.buf
             /\ list' = scan.list
             /\ request' = scan.request
             /\ preCheck' = now
    ELSE /\ buf' = b
         /\ list' = infos
         /\ request' = <<>>
         /\ UNCHANGED preCheck

\* The numbers that leave the list other than by arriving.
GivenUp(before, after) == ToSet(Numbers(before)) \ ToSet(Numbers(after))

\* A mutant of the next: the number that arrived stays on the list.
OnListed_Kept(n) ==
    /\ SeqNum(n) \in Listed
    /\ request' = <<>>
    /\ UNCHANGED <<buf, list, preCheck, gone, base>>

\* A number that is listed is no longer missing, and nothing else is done.
OnListed(n) ==
    LET i == CHOOSE k \in 1 .. Len(list) :
                 /\ list[k].sn = SeqNum(n)
                 /\ \A j \in 1 .. k - 1 : list[j].sn # SeqNum(n)
    IN  /\ SeqNum(n) \in Listed
        /\ list' = RemoveAt(list, i)
        /\ request' = <<>>
        /\ UNCHANGED <<buf, preCheck, gone, base>>

\* A mutant of the next: the length of the list is not checked.
OnUnlisted_NeverFull(n) ==
    LET up    == Update2(SeqNum(n))
        infos == Inserted(list, up.first, up.last)
    IN  /\ SeqNum(n) \notin Listed
        /\ CheckSendNacks(up.buf, infos)
        /\ gone' = gone \cup GivenUp(infos, list')
        /\ base' = IF ~buf.contexttialized \/ n < base THEN n ELSE base

\* Any other number may open a gap; a list that has become too long is thrown
\* away together with what is known of the stream.
OnUnlisted(n) ==
    LET up    == Update2(SeqNum(n))
        more  == Inserted(list, up.first, up.last)
        full  == Distance(up.first, up.last) > 0 /\ Len(more) >= MaxQueueSize
        infos == IF full THEN <<>> ELSE more
    IN  /\ SeqNum(n) \notin Listed
        /\ CheckSendNacks(IF full THEN Flushed(up.buf) ELSE up.buf, infos)
        /\ gone' = gone \cup GivenUp(infos, list')
        /\ base' = IF ~buf.contexttialized \/ n < base THEN n ELSE base

\* yang_recvtrack_on_nack for packet n.
OnNack(n) ==
    /\ received' = received \cup {n}
    /\ OnListed(n) \/ OnUnlisted(n)
    /\ UNCHANGED <<now, nackInterval>>

\* The network delivers a packet the receiver has not seen (SRTP drops one it
\* has): the next, a later one, or one up to Reorder behind the newest.
Arrive ==
    \E n \in 1 .. MaxNumber :
        /\ n >= Newest - Reorder
        /\ n <= Newest + Reorder
        /\ HaveDtls => n \notin received
        /\ (received # {} /\ ~Early) => \E m \in received : m < n
        /\ OnNack(n)

\* yang_recvnack_update_rtt, when an XR report carries a round trip time.
UpdateRtt ==
    /\ \E rtt \in Rtts :
          nackInterval' = Smaller(MaxInterval,
                                  IF rtt > nackInterval
                                  THEN (8 * nackInterval + 2 * rtt) \div 10
                                  ELSE rtt)
    /\ request' = <<>>
    /\ UNCHANGED <<buf, list, preCheck, now, received, gone, base>>

Tick ==
    /\ now < MaxTime
    /\ now' = now + 1
    /\ request' = <<>>
    /\ UNCHANGED <<buf, list, preCheck, nackInterval, received, gone, base>>

Next == Arrive \/ UpdateRtt \/ Tick

Spec == Init /\ [][Next]_vars

-----------------------------------------------------------------------------
(* Properties *)

\* The number of the packet a sequence number stands for, near the newest.
NumberOf(sn) ==
    CHOOSE n \in Newest - SeqSpace \div 2 + 1 .. Newest + SeqSpace \div 2 : SeqNum(n) = sn

TypeOK ==
    /\ buf \in [begin : Seqs, end : Seqs, contexttialized : BOOLEAN]
    /\ list \in Seq(Info)
    /\ Len(list) < Bigger(MaxQueueSize, 1)
    /\ request \in Seq(Seqs)
    /\ {preCheck, nackInterval, now, base} \subseteq Nat
    /\ received \subseteq 1 .. MaxNumber
    /\ gone \subseteq Seqs

\* The list is what its declaration says: "Nack queue, seq order, oldest to
\* newest". The scan for numbers to ask for and the chunks of a NACK rely on it.
ListInSeqOrder == InSeqOrder(Numbers(list))

\* Nothing is forgotten: from the oldest packet seen since the (re)start to the
\* newest, every packet arrived, or is listed, or was listed and given up.
MissingIsListed ==
    buf.contexttialized =>
        \A n \in base .. NumberOf((buf.end - 1) % SeqSpace) :
            \/ n \in received
            \/ SeqNum(n) \in Listed \cup gone

\* Nothing that arrived is asked for.
ListedIsMissing == \A sn \in Listed : NumberOf(sn) \notin received

\* When the list is gone through, no number that is due is left out, although
\* the scan stops at the first one that is still young.
DueIsAsked ==
    [][preCheck' # preCheck =>
        \A info \in ToSet(list) :
            (/\ ~Expired(info)
             /\ now - info.generate_time >= FirstInterval
             /\ now - info.pre_req_time >= RequestGap
             /\ info.sn \in ToSet(Numbers(list')))
                => info.sn \in ToSet(request')]_vars
=============================================================================
