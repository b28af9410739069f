------------------------------ MODULE H264Recv ------------------------------
(***************************************************************************)
(* How the receiver puts H.264 frames together: YangH264RecvTrack, fed by  *)
(* the UDP thread with every video packet, in any order, and handing whole *)
(* frames to the decoder.  Cached packets live in a circle of RecvBuffer   *)
(* entries; header_sn is the packet the next frame starts with and lost_sn *)
(* the first one missing behind it.                                        *)
(*                                                                         *)
(* The sender is metaRTC's own encoder: parameter sets in a STAP-A packet  *)
(* before a key frame's slice, a slice in one raw packet or in fragments   *)
(* (FU-A), the marker on the last one, one timestamp per frame.  Packet n  *)
(* is the n-th one produced; the receiver sees SeqNum(n) only.  SRTP drops *)
(* duplicates before they come here.                                       *)
(***************************************************************************)
EXTENDS SeqArith, SequencesExt

CONSTANTS
    FirstSeq,    \* sequence number of the first packet
    RecvBuffer,  \* Yang_Rtc_Recv_Buffer: 1024
    MaxPieces,   \* bound: packets a slice is split into
    MaxFrames,   \* bound: frames the sender produces
    MaxPackets,  \* bound: packets the sender produces
    Reorder      \* bound: how far behind the newest a packet may arrive

ASSUME ConstantsOK ==
    /\ {RecvBuffer, MaxPieces} \subseteq Nat \ {0}
    /\ {FirstSeq, MaxFrames, MaxPackets, Reorder} \subseteq Nat
    /\ FirstSeq < SeqSpace
    /\ SeqSpace % RecvBuffer = 0

VARIABLES
    sent,      \* the packets the sender produces
    recv,      \* YangH264RecvTrack
    received,  \* history: the packets that came in
    delivered, \* history: the frames handed to receiveVideo, as packet numbers
    upset      \* history: what happened that the track does not recover from

vars == <<sent, recv, received, delivered, upset>>

SeqNum(n) == (FirstSeq + n - 1) % SeqSpace
Newest    == IF received = {} THEN 0 ELSE Max(received)
FramesSent == IF sent = <<>> THEN 0 ELSE Last(sent).ts

Kinds  == {"stap", "raw", "fua"}
\* looksIdr: the payload byte packet_video takes for the slice's type.
Packet == [ts : Nat, kind : Kinds, key : BOOLEAN, start : BOOLEAN, end : BOOLEAN,
           marker : BOOLEAN, looksIdr : BOOLEAN]
Frame  == [key : BOOLEAN, pieces : 1 .. MaxPieces, looksIdr : BOOLEAN]

\* yang_pub_h264_package_stap_a, and yang_h264_package_single_nalu2 or _fu_a.
PacketsOf(f, ts) ==
    LET Slice(i) == [ts |-> ts, kind |-> IF f.pieces = 1 THEN "raw" ELSE "fua",
                     key |-> f.key, start |-> i = 1, end |-> i = f.pieces,
                     marker |-> i = f.pieces, looksIdr |-> f.looksIdr]
        Stap == [ts |-> ts, kind |-> "stap", key |-> TRUE, start |-> FALSE,
                 end |-> FALSE, marker |-> FALSE, looksIdr |-> FALSE]
    IN  (IF f.key THEN <<Stap>> ELSE <<>>) \o [i \in 1 .. f.pieces |-> Slice(i)]

\* YangH264PacketCache: the packet it describes (0 once cleared), whether it is
\* in use, and whether its fragment flags are still set.
Entry == [in_use : BOOLEAN, n : 0 .. Len(sent), fua2 : BOOLEAN]
Cleared == [in_use |-> FALSE, n |-> 0, fua2 |-> FALSE]
Index(sn) == sn % RecvBuffer

Ts(e)      == IF e.n = 0 THEN 0 ELSE sent[e.n].ts
Marked(e)  == e.n # 0 /\ sent[e.n].marker
Opens(e)   == e.fua2 /\ sent[e.n].start
Closes(e)  == e.fua2 /\ sent[e.n].end

\* What the sender may produce: the receiver's steps do not depend on when.
Streams ==
    LET Frames == {f \in Frame : f.looksIdr => f.pieces > 1}
        Packets(fs) == FlattenSeq([ts \in DOMAIN fs |-> PacketsOf(fs[ts], ts)])
    IN  {ps \in {Packets(fs) : fs \in [1 .. MaxFrames -> Frames]} : Len(ps) <= MaxPackets}

Init ==
    /\ sent \in Streams
    /\ recv = [cache |-> [i \in 0 .. RecvBuffer - 1 |-> Cleared], key_frame_ts |-> -1,
               header_sn |-> 0, lost_sn |-> 0, hasReceiveStap |-> -1,
               hasRequestKeyframe |-> FALSE]
    /\ received = {}
    /\ delivered = <<>>
    /\ upset = {}

-----------------------------------------------------------------------------
(* Looking through the cache *)

At(r, sn) == r.cache[Index(sn)]
Span(first, last) == (last - first + 1) % SeqSpace
From(first, last) == [i \in 1 .. Span(first, last) |-> (first + i - 1) % SeqSpace]

\* yang_h264recv_find_next_lost_sn: the first number from here on that is
\* missing, or the last one of the frame.
FindNextLost(r, from) ==
    LET last_ts == Ts(At(r, r.header_sn))
        E(i) == At(r, from + i)
        stops == {i \in 0 .. RecvBuffer - 1 :
                    ~E(i).in_use \/ Ts(E(i)) # last_ts \/ Marked(E(i))}
        i == Min(stops)
        sn == (from + i) % SeqSpace
    IN  IF stops = {} THEN [is |-> "overflow", sn |-> 0]
        ELSE IF ~E(i).in_use THEN [is |-> "lost", sn |-> sn]
        ELSE IF Ts(E(i)) # last_ts THEN [is |-> "tail", sn |-> (sn - 1) % SeqSpace]
        ELSE [is |-> "tail", sn |-> sn]

\* A mutant of the next: fragments are not counted.
Complete_Always(r, first, last) == TRUE

\* yang_h264recv_check_frame_complete: as many fragments open a slice as close one.
Complete(r, first, last) ==
    LET es == [i \in 1 .. Span(first, last) |-> At(r, From(first, last)[i])]
    IN  Cardinality({i \in DOMAIN es : Opens(es[i])})
            = Cardinality({i \in DOMAIN es : Closes(es[i])})

\* yang_h264recv_is_keyframe2, on an entry whose payload pointer is past the
\* fragment header.
LooksKey(e) ==
    /\ e.n # 0
    /\ CASE sent[e.n].kind = "stap" -> TRUE
         [] sent[e.n].kind = "fua"  -> sent[e.n].looksIdr
         [] OTHER -> sent[e.n].key

-----------------------------------------------------------------------------
(* Handing frames on *)

\* A mutant of the next: what is handed on stays in the cache.
Packed_Kept(r, first, last) ==
    LET ns == [i \in DOMAIN From(first, last) |-> At(r, From(first, last)[i]).n]
    IN  [r EXCEPT !.header_sn = (last + 1) % SeqSpace, !.from = (last + 1) % SeqSpace,
                  !.out = Append(@, ns)]

\* yang_h264recv_packet_video up to its search for the next frame. Parameter
\* sets that went ahead on their own are left out of the frame.
Packed(r, first, last) ==
    LET sns  == From(first, last)
        used == {Index(sns[i]) : i \in DOMAIN sns}
        ns   == [i \in DOMAIN sns |-> At(r, sns[i]).n]
        Ahead(n) == sent[n].kind = "stap" /\ SeqNum(n) = r.hasReceiveStap
    IN  [r EXCEPT
            !.cache = [i \in DOMAIN r.cache |->
                          IF i \in used THEN [r.cache[i] EXCEPT !.in_use = FALSE, !.fua2 = FALSE]
                                        ELSE r.cache[i]],
            !.key_frame_ts = IF LooksKey(At(r, first)) THEN -1 ELSE @,
            !.hasReceiveStap = IF \E i \in DOMAIN ns : Ahead(ns[i]) THEN -1 ELSE @,
            !.header_sn = (last + 1) % SeqSpace,
            !.from = (last + 1) % SeqSpace,
            !.out = Append(@, SelectSeq(ns, LAMBDA n : ~Ahead(n)))]

\* What follows every search of the cache, packet_video's call of itself
\* included: whole frames are handed on until one is not. A frame that has an
\* end but is not complete leaves lost_sn as it was.
Onward(r, from) ==
    LET Step(s, i) ==
            LET found == FindNextLost(s, s.from)
            IN  IF ~s.go THEN s
                ELSE IF found.is = "lost" THEN [s EXCEPT !.lost_sn = found.sn, !.go = FALSE]
                ELSE IF found.is = "tail" /\ Complete(s, s.header_sn, found.sn)
                     THEN Packed(s, s.header_sn, found.sn)
                ELSE [s EXCEPT !.go = FALSE]
        start == [go |-> TRUE, from |-> from, out |-> <<>>] @@ r
    IN  FoldLeft(Step, start, [i \in 1 .. RecvBuffer + 1 |-> i])

\* Nothing to look for: the packet is only kept.
Kept(r) == [go |-> FALSE, from |-> 0, out |-> <<>>] @@ r

-----------------------------------------------------------------------------
(* One packet *)

Cached(r, n) ==
    [r EXCEPT !.cache[Index(SeqNum(n))] =
        [in_use |-> TRUE, n |-> n, fua2 |-> sent[n].kind = "fua"]]

\* yang_h264recv_clear_cached_video
ClearCached(r) ==
    [r EXCEPT !.cache = [i \in DOMAIN r.cache |-> IF r.cache[i].in_use THEN Cleared ELSE r.cache[i]]]

\* A mutant of the next: the number after the header's does not turn.
Restarted_NoTurn(r, n) ==
    [ClearCached(r) EXCEPT !.key_frame_ts = sent[n].ts, !.header_sn = SeqNum(n),
                           !.lost_sn = SeqNum(n) + 1]

\* The first packet to come of a key frame: the cache starts over from it.
Restarted(r, n) ==
    [ClearCached(r) EXCEPT !.key_frame_ts = sent[n].ts, !.header_sn = SeqNum(n),
                           !.lost_sn = (SeqNum(n) + 1) % SeqSpace]

NewKeyFrame(r, n) == r.key_frame_ts \in {-1, sent[n].ts} => r.key_frame_ts = -1

\* A mutant of the next: the header stays where it is.
OnKeyPacket_HeaderStays(r, n) ==
    LET sn == SeqNum(n)
        s  == Cached(IF NewKeyFrame(r, n) THEN Restarted(r, n) ELSE r, n)
    IN  IF s.lost_sn = sn THEN Onward(s, sn) ELSE Kept(s)

\* yang_h264recv_packet_video_key_frame. Parameter sets are handed on at once.
OnKeyPacket(r, n) ==
    LET sn == SeqNum(n)
        a  == IF sent[n].kind = "stap" THEN [r EXCEPT !.hasReceiveStap = sn] ELSE r
        s  == Cached(IF NewKeyFrame(a, n) THEN Restarted(a, n) ELSE a, n)
    IN  IF Distance(s.header_sn, sn) < 0 THEN Onward([s EXCEPT !.header_sn = sn], sn)
        ELSE IF s.lost_sn = sn THEN Onward(s, sn)
        ELSE Kept(s)

OnOtherPacket(r, n) ==
    LET s == Cached(r, n)
    IN  IF s.lost_sn = SeqNum(n) THEN Onward(s, SeqNum(n)) ELSE Kept(s)

\* yang_h264recv_on_rtp
OnRtp(r, n) ==
    IF sent[n].key THEN OnKeyPacket([r EXCEPT !.hasRequestKeyframe = TRUE], n)
                   ELSE OnOtherPacket(r, n)

-----------------------------------------------------------------------------
(* What the properties make an exception of *)

FrameOf(n)   == {m \in 1 .. Len(sent) : sent[m].ts = sent[n].ts}
NewestKey    == Max({0} \cup {sent[m].ts : m \in {m \in received : sent[m].key}})
WasDelivered(n) == \E i \in DOMAIN delivered : n \in ToSet(delivered[i])

\* A packet that starts a key frame, newer than all that came before.
Fresh(n) == sent[n].key /\ NewKeyFrame(recv, n) /\ n > Newest /\ FrameOf(n) \cap received = {}

\* The track does not recover from these before it starts over with the next
\* key frame, and from the last one it does not forget what it handed on:
\*   early: a key frame's first packet clears packets produced after it;
\*   stap:  parameter sets come after their frame was handed on without them;
\*   key:   a packet of a key frame comes after one of a later key frame;
\*   old:   a packet from before the current frame stays in the cache;
\*   full:  a packet takes the entry of one that still waits to be handed on;
\*   zero:  number 0 comes before any key frame and is taken for the expected one.
UpsetBy(n) ==
    {u \in {"early", "stap", "key", "old", "full", "zero"} :
        CASE u = "early" -> /\ sent[n].key /\ NewKeyFrame(recv, n)
                            /\ \E i \in DOMAIN recv.cache :
                                  recv.cache[i].in_use /\ recv.cache[i].n > n
          [] u = "stap"  -> sent[n].kind = "stap" /\ \E m \in FrameOf(n) : WasDelivered(m)
          [] u = "key"   -> sent[n].key /\ sent[n].ts < NewestKey
          [] u = "full"  -> LET e == At(recv, SeqNum(n))
                            IN  /\ e.in_use /\ ~(sent[n].key /\ NewKeyFrame(recv, n))
                                /\ Distance(recv.header_sn, SeqNum(e.n)) >= 0
          [] u = "zero"  -> /\ ~sent[n].key /\ ~recv.hasRequestKeyframe
                            /\ SeqNum(n) = recv.lost_sn
          [] u = "old"   -> ~sent[n].key /\ Distance(recv.header_sn, SeqNum(n)) < 0}

-----------------------------------------------------------------------------
(* The network *)

\* A packet that never arrives is lost.
Arrive ==
    \E n \in 1 .. Len(sent) \ received :
        LET r == OnRtp(recv, n)
        IN  /\ n + Reorder > Newest
            /\ received' = received \cup {n}
            /\ recv' = [f \in DOMAIN recv |-> r[f]]
            /\ delivered' = delivered \o r.out
            /\ upset' = UpsetBy(n) \cup
                 IF Fresh(n) THEN upset \cap {"zero"} ELSE upset
            /\ UNCHANGED sent

Next == Arrive

Spec == Init /\ [][Next]_vars

-----------------------------------------------------------------------------
(* Properties *)

\* The types of the variables; an entry describes a packet of its own position.
TypeOK ==
    /\ sent \in Seq(Packet)
    /\ DOMAIN recv.cache = 0 .. RecvBuffer - 1
    /\ \A i \in DOMAIN recv.cache :
          LET e == recv.cache[i] IN e \in Entry /\ (e.n # 0 => Index(SeqNum(e.n)) = i)
    /\ {recv.header_sn, recv.lost_sn} \subseteq Seqs
    /\ recv.hasReceiveStap \in Seqs \cup {-1}
    /\ recv.key_frame_ts \in {-1} \cup 1 .. FramesSent
    /\ recv.hasRequestKeyframe \in BOOLEAN
    /\ received \subseteq 1 .. Len(sent)
    /\ delivered \in Seq(Seq(1 .. Len(sent)))

HandedOn == {delivered'[i] : i \in Len(delivered) + 1 .. Len(delivered')}

\* What the decoder gets at once belongs to one frame, and its slice is whole
\* and in order, whatever was lost or came late: "check time first, avoid two
\* small frame mixed case decode fail". Not so when an old packet stayed in the
\* cache or the circle was overrun since the last key frame, or number 0 came
\* before the first one: then an entry of another turn of the circle is taken
\* for a neighbour.
WholeFrames ==
    [][upset' \cap {"old", "full", "zero"} = {} =>
          \A frame \in HandedOn :
              LET slice == SelectSeq(frame, LAMBDA n : sent[n].kind # "stap")
              IN  /\ \A m, n \in ToSet(frame) : sent[m].ts = sent[n].ts
                  /\ slice # <<>> => slice = SetToSortSeq({m \in FrameOf(slice[1]) :
                                                            sent[m].kind # "stap"}, <)]_vars

\* A frame handed on is newer than every frame handed on before, unless key
\* frames overtook each other, an old packet stayed in the cache or the circle
\* was overrun since the last key frame, or number 0 came before the first one.
FramesInOrder ==
    [][upset' \cap {"key", "old", "full", "zero"} = {} =>
          \A j \in Len(delivered) + 1 .. Len(delivered') : \A i \in 1 .. j - 1 :
              sent[Last(delivered'[i])].ts < sent[Last(delivered'[j])].ts]_vars

\* No frame is held back: once all of it and of its predecessors back to the
\* newest key frame are there, it has been handed on.
NothingHeldBack ==
    upset = {} =>
        \A n \in received :
            ( /\ NewestKey > 0
              /\ sent[n].ts >= NewestKey
              /\ {m \in 1 .. Len(sent) : sent[m].ts \in NewestKey .. sent[n].ts} \subseteq received )
            => sent[n].kind = "stap" \/ WasDelivered(n)
=============================================================================
