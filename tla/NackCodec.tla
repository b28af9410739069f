------------------------------ MODULE NackCodec ------------------------------
(***************************************************************************)
(* The NACK message (YangRtcpNack.c): yang_rtcpNack_addSn collects the     *)
(* numbers to ask for, yang_encode_rtcpNack packs them into chunks of a    *)
(* number (PID) and a bitmask of the BlpBits numbers after it (BLP), and   *)
(* yang_decode_rtcpNack collects them again at the other end.              *)
(*                                                                         *)
(* A bitmask is the set of the positions of its ones, 1 for the lowest.    *)
(***************************************************************************)
EXTENDS SeqArith, SequencesExt

CONSTANTS
    BlpBits,   \* bits in a BLP: 16
    Window,    \* bound: how far apart the numbers of one NACK may be
    MaxSns     \* bound: numbers in one NACK

ASSUME CodecOK == {BlpBits, Window, MaxSns} \subseteq Nat /\ 2 * Window < SeqSpace

VARIABLES
    nacks,    \* comm->nack->nacks at the receiver of the media
    chunks,   \* the FCI on the wire
    decoded,  \* comm->nack->nacks at the sender of the media
    pc        \* "add" while numbers are collected, then "sent", then "done"

codecVars == <<nacks, chunks, decoded, pc>>

\* yang_rtcpNack_addSn
Added(sns, sn) ==
    LET place == Place(sns, sn)
    IN  IF place = Duplicate THEN sns ELSE Spliced(sns, place, sn)

NoChunk == [in_use |-> FALSE, pid |-> 0, blp |-> {}]

\* A mutant of the next: a number BlpBits + 1 after the PID is put in the mask.
Packed_MaskTooWide(scan, sn) ==
    LET chunk  == scan.chunk
        offset == sn - chunk.pid
    IN  IF ~chunk.in_use
        THEN [scan EXCEPT !.chunk = [in_use |-> TRUE, pid |-> sn, blp |-> {}]]
        ELSE IF offset > BlpBits + 1
        THEN [done |-> Append(scan.done, chunk), chunk |-> NoChunk]
        ELSE [scan EXCEPT !.chunk.blp = @ \cup {offset % BlpBits}]

\* A mutant of the next: the chunk that is closed is not kept.
Packed_Replaced(scan, sn) ==
    IF ~scan.chunk.in_use \/ sn - scan.chunk.pid > BlpBits
    THEN [scan EXCEPT !.chunk = [in_use |-> TRUE, pid |-> sn, blp |-> {}]]
    ELSE [scan EXCEPT !.chunk.blp = @ \cup {sn - scan.chunk.pid}]

\* One turn of the loop of yang_encode_rtcpNack. The offset is an int: after
\* the turn of the counter it is negative and the number is skipped. A number
\* beyond the mask closes the chunk and is in neither this nor the next.
Packed(scan, sn) ==
    LET chunk  == scan.chunk
        offset == sn - chunk.pid
    IN  IF ~chunk.in_use
        THEN [scan EXCEPT !.chunk = [in_use |-> TRUE, pid |-> sn, blp |-> {}]]
        ELSE IF offset < 1 THEN scan
        ELSE IF offset > BlpBits
        THEN [done |-> Append(scan.done, chunk), chunk |-> NoChunk]
        ELSE [scan EXCEPT !.chunk.blp = @ \cup {offset}]

Encoded(sns) ==
    LET scan == FoldLeft(Packed, [done |-> <<>>, chunk |-> NoChunk], sns)
    IN  IF scan.chunk.in_use THEN Append(scan.done, scan.chunk) ELSE scan.done

\* One chunk of yang_decode_rtcpNack: the PID, then the mask from its lowest bit.
Unpacked(sns, chunk) ==
    LET sn(i) == (chunk.pid + i) % SeqSpace
        Bit(l, i) == IF i \in chunk.blp THEN Added(l, sn(i)) ELSE l
    IN  FoldLeft(Bit, Added(sns, chunk.pid), [i \in 1 .. BlpBits |-> i])

Decoded(cs) == FoldLeft(Unpacked, <<>>, cs)

-----------------------------------------------------------------------------

CodecInit ==
    /\ nacks = <<>>
    /\ chunks = <<>>
    /\ decoded = <<>>
    /\ pc = "add"

\* yang_recvnack_get_nack_seqs adds the numbers of its list from the oldest.
AddSn ==
    /\ pc = "add"
    /\ Len(nacks) < MaxSns
    /\ \E sn \in Seqs :
          /\ nacks # <<>> => /\ Distance(Last(nacks), sn) > 0
                             /\ Distance(Head(nacks), sn) \in 1 .. Window
          /\ nacks' = Added(nacks, sn)
    /\ UNCHANGED <<chunks, decoded, pc>>

\* yang_send_rtcp_nack is called when there is something to ask for.
Encode ==
    /\ pc = "add"
    /\ nacks # <<>>
    /\ chunks' = Encoded(nacks)
    /\ pc' = "sent"
    /\ UNCHANGED <<nacks, decoded>>

Decode ==
    /\ pc = "sent"
    /\ decoded' = Decoded(chunks)
    /\ pc' = "done"
    /\ UNCHANGED <<nacks, chunks>>

CodecNext == AddSn \/ Encode \/ Decode

CodecSpec == CodecInit /\ [][CodecNext]_codecVars

-----------------------------------------------------------------------------
(* Properties *)

\* The sender is never asked for a packet the receiver did not miss, whatever
\* gaps the numbers have and wherever the counter turns.
OnlyTheMissing == pc = "done" => ToSet(decoded) \subseteq ToSet(nacks)

\* Every NACK asks for the oldest number missing, so asking often enough asks
\* for everything.
OldestIsCarried == pc = "done" => Head(decoded) = Head(nacks)

\* A number is only left out of a NACK when it is what closed a chunk (and the
\* chunk ends there) or when the counter turned between a PID and it.
LeftOutBetweenChunks ==
    pc = "done" =>
        \A i \in 1 .. Len(nacks) :
            \/ nacks[i] \in ToSet(decoded)
            \/ \E c \in ToSet(chunks), j \in 1 .. i - 1 :
                  /\ nacks[j] = c.pid
                  /\ \/ nacks[i] < c.pid
                     \/ /\ nacks[i] - c.pid > BlpBits
                        /\ nacks[i - 1] - c.pid \in c.blp \cup {0}
=============================================================================
