------------------------------ MODULE SeqArith ------------------------------
(***************************************************************************)
(* Arithmetic on RTP sequence numbers (include/yangutil/sys/YangMath.h) and*)
(* the sorted insertion that both lists of lost packets are built with:    *)
(* yang_nackinfo_insert on the receiver and yang_insert_uint16 in a NACK.  *)
(***************************************************************************)
EXTENDS Integers, Sequences

CONSTANT SeqSpace  \* sequence numbers are uint16_t: 65536

ASSUME SeqSpaceOK == SeqSpace \in Nat \ {0} /\ SeqSpace % 2 = 0

Seqs == 0 .. SeqSpace - 1

\* A mutant of the next: the difference without the turn of the counter.
Distance_Plain(prev_value, value) == value - prev_value

\* yang_rtp_seq_distance: the difference as an int16_t, so half a turn counts
\* as behind.
Distance(prev_value, value) ==
    LET d == (value - prev_value) % SeqSpace
    IN  IF 2 * d >= SeqSpace THEN d - SeqSpace ELSE d

Duplicate == -1

\* A mutant of the next: the comparison with the last element is turned round.
Place_LastTurned(sns, value) ==
    LET n == Len(sns)
    IN  IF value \in {sns[i] : i \in 1 .. n} THEN Duplicate
        ELSE IF n > 0 /\ Distance(sns[n], value) > 0 THEN n - 1 ELSE n

\* Where yang_nackinfo_insert and yang_insert_uint16 put a value: the number
\* of list elements that end up before it, or Duplicate. The loop looks at the
\* gap after each element in turn; only the last element is also compared for
\* a value that comes before it.
Place(sns, value) ==
    LET n      == Len(sns)
        Stops  == {i \in 1 .. n - 1 :
                      \/ value \in {sns[i], sns[i + 1]}
                      \/ Distance(sns[i], value) > 0 /\ Distance(value, sns[i + 1]) > 0}
        stop   == CHOOSE i \in Stops : \A j \in Stops : i <= j
    IN  CASE n = 0                            -> 0
          [] Stops # {}                       -> IF value \in {sns[stop], sns[stop + 1]}
                                                 THEN Duplicate ELSE stop
          [] Stops = {} /\ n > 0              -> IF sns[n] = value THEN Duplicate
                                                 ELSE IF Distance(value, sns[n]) > 0
                                                      THEN n - 1 ELSE n

\* The list with an element put after its first k elements.
Spliced(list, k, element) ==
    SubSeq(list, 1, k) \o <<element>> \o SubSeq(list, k + 1, Len(list))

\* Oldest to newest.
InSeqOrder(sns) ==
    \A i, j \in 1 .. Len(sns) : i < j => Distance(sns[i], sns[j]) > 0
=============================================================================
