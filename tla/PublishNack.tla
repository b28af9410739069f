---------------------------- MODULE PublishNack ----------------------------
(***************************************************************************)
(* The sending half of metaRTC's loss recovery, for one media track:       *)
(* the 16-bit sequence counter, the ring of packet buffers the encoder     *)
(* writes into, the cache of packets that may be asked for again, and the  *)
(* two threads that use them without a lock:                               *)
(*                                                                         *)
(*   publisher   yang_h264_encodeVideo / yang_h264_encodeAudio, then       *)
(*               yang_send_avpacket                                        *)
(*   UDP thread  yang_rtcpublish_on_recv_nack, for one NACK at a time      *)
(*                                                                         *)
(* A packet is known by its number n, counting from 1 in the order the     *)
(* encoder produced it; the program itself only knows its sequence.        *)
(***************************************************************************)
EXTENDS Integers, FiniteSets

CONSTANTS
    SeqSpace,    \* sequence numbers are uint16_t: 65536
    Capacity,    \* slots of the NACK cache: 1000 for video, 100 for audio
    BufLen,      \* slots of the packet ring: 1400 for video, 100 for audio
    HaveDtls,    \* the build flag Yang_HaveDtls: packets are SRTP protected
    MaxPackets,  \* bound: packets the publisher produces
    MaxNacks     \* bound: sequence numbers in one NACK

ASSUME ConstantsOK ==
    /\ SeqSpace \in Nat \ {0}
    /\ Capacity \in 1 .. SeqSpace - 1
    /\ BufLen \in 1 .. SeqSpace
    /\ HaveDtls \in BOOLEAN
    /\ MaxPackets \in Nat
    /\ MaxNacks \in Nat

VARIABLES
    sequence,    \* rtp->videoSeq (audioSeq): the next packet's sequence number
    index,       \* rtpbuf->index: the slot handed out last
    buffer,      \* rtpbuf->buffer: per slot, the packet it holds and how
    queue,       \* nackbuf->queue: per position, a cached packet or None
    pubPc,       \* where the publisher is in yang_send_avpacket
    nacks,       \* sequence numbers of the NACK still to be looked up
    nackPc,      \* where the UDP thread is in yang_rtcpublish_on_recv_nack
    pkt,         \* the cache entry the UDP thread holds a pointer to
    asked,       \* history: the number of the packet that entry was asked for
    stale,       \* history: that entry has been freed since
    count        \* history: the number of packets produced

pubVars  == <<sequence, index, pubPc, count>>
nackVars == <<nacks, nackPc, pkt, asked>>
vars     == <<sequence, index, buffer, queue, pubPc, nacks, nackPc, pkt,
              asked, stale, count>>

Seqs  == 0 .. SeqSpace - 1
Slots == 0 .. BufLen - 1

\* What a slot holds: packet n (0 before the first use), the sequence number
\* in its RTP header, and whether the payload is enciphered at this moment.
Content == [n : Nat, seq : Seqs, cipher : BOOLEAN]

\* YangSendNackBuffer: a sequence number and a pointer to the packet's slot.
Entry == [seq : Seqs, payload : Slots]
None  == [seq |-> -1, payload |-> -1]

\* One wanted packet: the sequence number the NACK carries and, for the
\* properties only, the number of the packet the receiver misses.
Wanted == [seq : Seqs, n : Nat]

\* The position a steps before p on a circle of len positions.
Behind(p, a, len) == IF p >= a THEN p - a ELSE p - a + len

\* The sequence number of packet m, one of the last SeqSpace packets.
SeqOf(m) == Behind(sequence, count - m + 1, SeqSpace)

\* A mutant of the next: the ring never starts over.
NextSlot_NoReset == index + 1

\* yang_get_rtpBuffer: the slot after the last one handed out.
NextSlot == IF index + 1 = BufLen THEN 0 ELSE index + 1

\* A mutant of the next: half of the cache is left unused.
Position_Short(seq) == seq % (Capacity \div 2)

\* yang_pubnackbuffer_at and _set: where the cache keeps a sequence number.
Position(seq) == seq % Capacity

\* srtp_protect works in place. Its key stream depends on the ssrc and the
\* sequence number only, so protecting a slot again deciphers its payload.
Protected(c) == [c EXCEPT !.cipher = IF HaveDtls THEN ~c.cipher ELSE c.cipher]

\* The packets that have been handed to the socket.
LastSent == IF pubPc = "idle" THEN count ELSE count - 1

Init ==
    /\ sequence = 0
    /\ index = 0
    /\ buffer = [s \in Slots |-> [n |-> 0, seq |-> 0, cipher |-> FALSE]]
    /\ queue = [i \in 0 .. Capacity - 1 |-> None]
    /\ pubPc = "idle"
    /\ nacks = {}
    /\ nackPc = "idle"
    /\ pkt = None
    /\ asked = 0
    /\ stale = FALSE
    /\ count = 0

-----------------------------------------------------------------------------
(* The publisher *)

\* A packet takes the next sequence number and is written, still plain, into
\* the next slot of the ring, whatever that slot held.
Encode ==
    /\ pubPc = "idle"
    /\ count < MaxPackets
    /\ count' = count + 1
    /\ sequence' = IF sequence + 1 = SeqSpace THEN 0 ELSE sequence + 1
    /\ index' = NextSlot
    /\ buffer' = [buffer EXCEPT ![NextSlot] =
                    [n |-> count + 1, seq |-> sequence, cipher |-> FALSE]]
    /\ pubPc' = "cache"
    /\ UNCHANGED <<queue, nackVars, stale>>

\* yang_rtcpublish_cache_nack: the entry at this position is freed and
\* replaced by one that points into the ring. The UDP thread may hold it.
CacheNack ==
    LET seq == Behind(sequence, 1, SeqSpace)
        pos == Position(seq)
    IN  /\ pubPc = "cache"
        /\ queue' = [queue EXCEPT ![pos] = [seq |-> seq, payload |-> index]]
        /\ stale' = (stale \/ (nackPc = "found" /\ Position(pkt.seq) = pos))
        /\ pubPc' = "protect"
        /\ UNCHANGED <<sequence, index, count, buffer, nackVars>>

Protect ==
    /\ pubPc = "protect"
    /\ buffer' = [buffer EXCEPT ![index] = Protected(@)]
    /\ pubPc' = "send"
    /\ UNCHANGED <<sequence, index, count, queue, nackVars, stale>>

\* yang_rtc_sendData: a failure is reported to the caller, which drops it.
Send ==
    /\ pubPc = "send"
    /\ pubPc' = "idle"
    /\ UNCHANGED <<sequence, index, count, buffer, queue, nackVars, stale>>

-----------------------------------------------------------------------------
(* The UDP thread *)

\* A NACK arrives. It can name any packet sent in the last turn of the
\* sequence counter; sequence numbers used by no such packet find no entry.
RecvNack ==
    /\ nackPc = "idle"
    /\ \E W \in SUBSET {m \in 1 .. LastSent : count - m < SeqSpace} :
          /\ W # {}
          /\ Cardinality(W) <= MaxNacks
          /\ nacks' = {[seq |-> SeqOf(m), n |-> m] : m \in W}
    /\ nackPc' = "next"
    /\ UNCHANGED <<pubVars, buffer, queue, pkt, asked, stale>>

\* A mutant of the next: the sequence number is not compared.
Fetch_AnySequence ==
    /\ nackPc = "next"
    /\ \E w \in nacks :
          LET e == queue[Position(w.seq)]
          IN  /\ nacks' = nacks \ {w}
              /\ IF e # None
                 THEN /\ pkt' = e
                      /\ asked' = w.n
                      /\ nackPc' = "found"
                 ELSE UNCHANGED <<pkt, asked, nackPc>>
    /\ UNCHANGED <<pubVars, buffer, queue, stale>>

\* yang_rtcpublish_fetch_rtp_packet: the entry at the position of this
\* sequence number, if its own sequence number is equal; else the loop goes on.
Fetch ==
    /\ nackPc = "next"
    /\ \E w \in nacks :
          LET e == queue[Position(w.seq)]
          IN  /\ nacks' = nacks \ {w}
              /\ IF e # None /\ e.seq = w.seq
                 THEN /\ pkt' = e
                      /\ asked' = w.n
                      /\ nackPc' = "found"
                 ELSE UNCHANGED <<pkt, asked, nackPc>>
    /\ UNCHANGED <<pubVars, buffer, queue, stale>>

EndOfNack ==
    /\ nackPc = "next"
    /\ nacks = {}
    /\ nackPc' = "idle"
    /\ UNCHANGED <<pubVars, buffer, queue, nacks, pkt, asked, stale>>

\* yang_send_nackpacket reads the entry's pointer and protects the slot it
\* points to, once more, where it lies. An entry freed in between still reads
\* as it was, or as the one that took its memory.
ProtectAgain ==
    /\ nackPc = "found"
    /\ \E e \in {pkt} \cup (IF stale THEN {queue[Position(pkt.seq)]} ELSE {}) :
          /\ pkt' = e
          /\ buffer' = [buffer EXCEPT ![e.payload] = Protected(@)]
    /\ nackPc' = "send"
    /\ UNCHANGED <<pubVars, queue, nacks, asked, stale>>

\* yang_rtc_sendData: after a failure the rest of the NACK is given up.
SendAgain ==
    /\ nackPc = "send"
    /\ nackPc' = "next"
    /\ nacks' \in {nacks, {}}
    /\ stale' = FALSE
    /\ UNCHANGED <<pubVars, buffer, queue, pkt, asked>>

Next ==
    \/ Encode \/ CacheNack \/ Protect \/ Send
    \/ RecvNack \/ Fetch \/ EndOfNack \/ ProtectAgain \/ SendAgain

Spec == Init /\ [][Next]_vars

-----------------------------------------------------------------------------
(* Properties *)

\* The types of the variables: in particular the ring index and the sequence
\* counter stay in range, and entries point to slots of the ring.
TypeOK ==
    /\ sequence \in Seqs
    /\ index \in Slots
    /\ buffer \in [Slots -> Content]
    /\ queue \in [0 .. Capacity - 1 -> Entry \cup {None}]
    /\ pubPc \in {"idle", "cache", "protect", "send"}
    /\ nacks \subseteq Wanted
    /\ nackPc \in {"idle", "next", "found", "send"}
    /\ pkt \in Entry \cup {None}
    /\ asked \in Nat
    /\ stale \in BOOLEAN
    /\ count \in Nat

\* The packet handed to the socket in answer to a NACK is the very packet the
\* receiver misses, for as long as that packet is younger than the ring is
\* long and its entry was not freed under the handler's hands: whatever the
\* publisher does between the lookup, the encryption and the send.
AskedPacketIsResent ==
    (nackPc = "send" /\ ~stale /\ count - asked < BufLen)
        => buffer[pkt.payload].n = asked

\* What yang_rtcpublish_fetch_rtp_packet returns for a sequence number points
\* to a packet with that sequence number: "For NACK, it sequence must match
\* exactly, or it cause SRTP fail. Return packet only when sequence is equal."
SequenceMatches ==
    \A i \in 0 .. Capacity - 1 :
        queue[i] # None => buffer[queue[i].payload].seq = queue[i].seq

\* Two sequence numbers fewer than MinKept apart never share a position, the
\* turn of the counter included: across the turn positions are shifted by the
\* rest of SeqSpace by Capacity, which is all that is kept there.
MinKept == IF SeqSpace % Capacity = 0 THEN Capacity ELSE SeqSpace % Capacity

\* The last MinKept cached packets can all be found again, at any time.
RecentPacketIsCached ==
    LET cached == IF pubPc = "cache" THEN count - 1 ELSE count
    IN  \A m \in 1 .. cached :
            cached - m < MinKept => queue[Position(SeqOf(m))].seq = SeqOf(m)

\* The entry the UDP thread is reading is only ever freed by the publisher
\* when MinKept packets have been produced since the one it describes.
FreedOnlyWhenOld == stale => count - asked >= MinKept

\* What is resent is enciphered as what was sent: "such repeated
\* transmissions must have the same RTP payload".
ResentAsSent == nackPc = "send" => buffer[pkt.payload].cipher = HaveDtls
=============================================================================
