------------------------- MODULE PublishNackProofs -------------------------
(***************************************************************************)
(* Proofs about PublishNack, for every length of the ring and of the cache,*)
(* every sequence space that is at least as long as the ring, and every    *)
(* interleaving of the publisher with the UDP thread.                      *)
(***************************************************************************)
EXTENDS PublishNack, TLAPS

\* The cache maps a sequence number to one of its positions.
LEMMA PositionInRange ==
    \A s \in Seqs : Position(s) \in 0 .. Capacity - 1
BY ConstantsOK DEF Position, Seqs

\* A slot taken over by the next packet moves every other one a step back.
LEMMA BehindNext ==
    ASSUME NEW len \in Nat \ {0}, NEW p \in 0 .. len - 1, NEW a \in 0 .. len - 1
    PROVE  LET q == IF p + 1 = len THEN 0 ELSE p + 1
           IN  /\ q \in 0 .. len - 1
               /\ Behind(p, a, len) \in 0 .. len - 1
               /\ Behind(q, 0, len) = q
               /\ Behind(q, a + 1, len) = Behind(p, a, len)
               /\ a + 1 < len => Behind(p, a, len) # q
BY DEF Behind

\* Positions on a circle differ when they are different distances back.
LEMMA BehindInjective ==
    ASSUME NEW len \in Nat \ {0}, NEW p \in 0 .. len - 1,
           NEW a \in 0 .. len - 1, NEW b \in 0 .. len - 1,
           Behind(p, a, len) = Behind(p, b, len)
    PROVE  a = b
BY DEF Behind

LEMMA SeqOfInRange ==
    ASSUME TypeOK, NEW m \in 1 .. count, count - m < SeqSpace
    PROVE  SeqOf(m) \in Seqs
BY ConstantsOK DEF TypeOK, SeqOf, Seqs, Behind

LEMMA ProtectedType ==
    ASSUME NEW c \in Content
    PROVE  /\ Protected(c) \in Content
           /\ Protected(c).n = c.n
BY ConstantsOK DEF Protected, Content

-----------------------------------------------------------------------------
(* Remainders *)

LEMMA Division ==
    ASSUME NEW x \in Int, NEW c \in Nat \ {0}
    PROVE  /\ x % c \in 0 .. c - 1
           /\ x \div c \in Int
           /\ x = c * (x \div c) + (x % c)
OBVIOUS

\* Between 0 and c there is no multiple of c.
LEMMA NoMultiple ==
    ASSUME NEW c \in Nat \ {0}, NEW k \in Int, 0 < c * k, c * k < c
    PROVE  FALSE
<1>1. k >= 1
    <2> SUFFICES ASSUME k <= 0 PROVE FALSE
        OBVIOUS
    <2> QED BY SMT
<1>2. c * k >= c
    BY <1>1
<1> QED BY <1>2

\* Numbers less than c apart have different remainders.
LEMMA RemaindersDiffer ==
    ASSUME NEW c \in Nat \ {0}, NEW x \in Int, NEW y \in Int, 0 < x - y, x - y < c
    PROVE  x % c # y % c
<1> SUFFICES ASSUME x % c = y % c PROVE FALSE
    OBVIOUS
<1> DEFINE k == (x \div c) - (y \div c)
<1>1. k \in Int /\ x - y = c * k
    <2>1. /\ x \div c \in Int /\ x = c * (x \div c) + (x % c)
          /\ y \div c \in Int /\ y = c * (y \div c) + (y % c)
        BY Division
    <2>2. c * k = c * (x \div c) - c * (y \div c)
        BY <2>1
    <2> QED BY <2>1, <2>2
<1> HIDE DEF k
<1> QED BY <1>1, NoMultiple

\* A multiple of c makes no difference to the remainder.
LEMMA RemainderShifted ==
    ASSUME NEW c \in Nat \ {0}, NEW x \in Int, NEW k \in Int
    PROVE  (x - c * k) % c = x % c
<1> DEFINE y == x - c * k
           j == (x \div c) - (y \div c) - k
           i == (y \div c) + k - (x \div c)
<1>1. /\ x \div c \in Int /\ x = c * (x \div c) + (x % c) /\ x % c \in 0 .. c - 1
    BY Division
<1>2. y \in Int
    OBVIOUS
<1>3. /\ y \div c \in Int /\ y = c * (y \div c) + (y % c) /\ y % c \in 0 .. c - 1
    BY <1>2, Division
<1>4. j \in Int /\ i \in Int
    BY <1>1, <1>3
<1>5. c * j = (y % c) - (x % c) /\ c * i = (x % c) - (y % c)
    <2> DEFINE cx == c * (x \div c)
               cy == c * (y \div c)
               ck == c * k
    <2>1. c * j = cx - cy - ck /\ c * i = cy + ck - cx
        BY <1>1, <1>3
    <2>2. cx \in Int /\ cy \in Int /\ ck \in Int /\ y = x - ck
        BY <1>1, <1>3
    <2>3. x = cx + (x % c) /\ y = cy + (y % c)
        BY <1>1, <1>3
    <2> HIDE DEF cx, cy, ck, y, i, j
    <2> QED BY <2>1, <2>2, <2>3, <1>1, <1>3
<1> HIDE DEF y, i, j
<1>6. ~(0 < c * j) /\ ~(0 < c * i)
    <2>1. c * j < c /\ c * i < c
        BY <1>1, <1>3, <1>5
    <2> QED BY <2>1, <1>4, NoMultiple
<1>7. y % c = x % c
    BY <1>1, <1>3, <1>5, <1>6
<1> QED BY <1>7 DEF y

\* Two of MinKept consecutive numbers have different positions in the cache, also when
\* the counter turned between them.
LEMMA PositionsDiffer ==
    ASSUME NEW p \in Seqs, NEW a \in 1 .. MinKept - 1
    PROVE  Position(Behind(p, a + 1, SeqSpace)) # Position(Behind(p, 1, SeqSpace))
<1> DEFINE old == Behind(p, a + 1, SeqSpace)
           new == Behind(p, 1, SeqSpace)
           q   == SeqSpace \div Capacity
           r   == SeqSpace % Capacity
           turns == Capacity * q
           back  == old - turns
<1>0. /\ Capacity \in Nat \ {0} /\ SeqSpace \in Nat \ {0} /\ Capacity < SeqSpace
    BY ConstantsOK
<1>1. /\ r \in 0 .. Capacity - 1 /\ q \in Int /\ SeqSpace = turns + r /\ turns \in Int
    BY <1>0, Division
<1>2. a \in Nat \ {0} /\ a < Capacity /\ (r # 0 => a < r) /\ p \in 0 .. SeqSpace - 1
    BY <1>0, <1>1 DEF MinKept, Seqs
<1>3. /\ old \in Int /\ new \in Int
      /\ new - old = a \/ new - old = a - SeqSpace
    BY <1>0, <1>2 DEF Behind
<1>4. back \in Int /\ back % Capacity = old % Capacity
    <2> HIDE DEF old, q, r
    <2>1. (old - Capacity * q) % Capacity = old % Capacity
        BY <1>0, <1>1, <1>3, RemainderShifted
    <2>2. back % Capacity = old % Capacity
        BY <2>1, Zenon
    <2>3. back \in Int
        BY <1>1, <1>3
    <2> QED BY <2>2, <2>3
<1> HIDE DEF old, new, q, r, turns
<1>5. new - old = a - SeqSpace => new - back = a - r
    BY <1>0, <1>1, <1>2, <1>3
<1> HIDE DEF back
<1>6. CASE new - old = a
    BY <1>6, <1>0, <1>2, <1>3, RemaindersDiffer DEF Position, old, new
<1>7. CASE new - old # a
    <2>1. new - back = a - r
        BY <1>7, <1>3, <1>5
    <2>2. new % Capacity # back % Capacity
        <3>1. CASE r = 0
            <4>1. 0 < new - back /\ new - back < Capacity
                BY <3>1, <2>1, <1>0, <1>2
            <4> QED BY <4>1, <1>0, <1>3, <1>4, RemaindersDiffer
        <3>2. CASE r # 0
            <4>1. 0 < back - new /\ back - new < Capacity
                BY <3>2, <2>1, <1>0, <1>1, <1>2, <1>3, <1>4
            <4> QED BY <4>1, <1>0, <1>3, <1>4, RemaindersDiffer
        <3> QED BY <3>1, <3>2
    <2> QED BY <2>2, <1>4 DEF Position, old, new
<1> QED BY <1>6, <1>7

-----------------------------------------------------------------------------
(* The inductive invariant *)

\* The ring holds the last BufLen packets, each as far behind index as it is
\* older than the newest.
RingInv ==
    \A a \in 0 .. BufLen - 1 :
        a < count => buffer[Behind(index, a, BufLen)].n = count - a

\* An entry found under the sequence number of a packet that is in the ring
\* points to that packet's slot.
QueueInv ==
    \A a \in 0 .. BufLen - 1 :
        LET s == Behind(sequence, a + 1, SeqSpace)
        IN  (a < count /\ (a > 0 \/ pubPc # "cache") /\ queue[Position(s)].seq = s)
                => queue[Position(s)].payload = Behind(index, a, BufLen)

\* The sequence numbers of a NACK are those of the packets it is about.
NackInv ==
    \A w \in nacks :
        /\ w.n \in 1 .. LastSent
        /\ count - w.n < SeqSpace => w.seq = SeqOf(w.n)

\* The entry held by the UDP thread points to the slot of the packet asked
\* for, while that packet is in the ring.
HeldInv ==
    nackPc \in {"found", "send"} =>
        /\ asked \in 1 .. LastSent
        /\ pkt \in Entry
        /\ nackPc = "found" => queue[Position(pkt.seq)] \in Entry
        /\ (count - asked < BufLen /\ (nackPc = "found" \/ ~stale))
              => pkt.payload = Behind(index, count - asked, BufLen)

IInv ==
    /\ TypeOK
    /\ RingInv
    /\ QueueInv
    /\ NackInv
    /\ HeldInv

LEMMA InitInv == Init => IInv
<1> SUFFICES ASSUME Init PROVE IInv
    OBVIOUS
<1>1. TypeOK
    <2>1. sequence \in Seqs /\ index \in Slots /\ count \in Nat /\ asked \in Nat
        BY ConstantsOK DEF Init, Seqs, Slots
    <2>2. buffer \in [Slots -> Content]
        <3>1. [n |-> 0, seq |-> 0, cipher |-> FALSE] \in Content
            BY ConstantsOK DEF Content, Seqs
        <3> QED BY <3>1 DEF Init
    <2>3. queue \in [0 .. Capacity - 1 -> Entry \cup {None}]
        BY DEF Init
    <2>4. /\ pkt \in Entry \cup {None}
          /\ nacks \subseteq Wanted
          /\ pubPc \in {"idle", "cache", "protect", "send"}
          /\ nackPc \in {"idle", "next", "found", "send"}
          /\ stale \in BOOLEAN
        BY DEF Init
    <2> QED BY <2>1, <2>2, <2>3, <2>4 DEF TypeOK
<1>2. RingInv /\ QueueInv /\ NackInv /\ HeldInv
    BY ConstantsOK DEF Init, RingInv, QueueInv, NackInv, HeldInv
<1> QED BY <1>1, <1>2 DEF IInv

-----------------------------------------------------------------------------
(* One lemma per action *)

LEMMA EncodeInv == IInv /\ Encode => IInv'
<1> SUFFICES ASSUME IInv, Encode PROVE IInv'
    OBVIOUS
<1> USE ConstantsOK
<1>1. /\ sequence \in 0 .. SeqSpace - 1 /\ index \in 0 .. BufLen - 1
      /\ count \in Nat /\ pubPc = "idle" /\ TypeOK
    BY DEF IInv, TypeOK, Seqs, Slots, Encode
<1>2. /\ index' = (IF index + 1 = BufLen THEN 0 ELSE index + 1)
      /\ sequence' = (IF sequence + 1 = SeqSpace THEN 0 ELSE sequence + 1)
      /\ count' = count + 1
      /\ pubPc' = "cache"
      /\ index' \in 0 .. BufLen - 1
      /\ sequence' \in 0 .. SeqSpace - 1
      /\ LastSent = count /\ LastSent' = count
    BY <1>1 DEF Encode, NextSlot, LastSent
<1>3. /\ buffer' = [buffer EXCEPT ![index'] =
                      [n |-> count + 1, seq |-> sequence, cipher |-> FALSE]]
      /\ UNCHANGED <<queue, nacks, nackPc, pkt, asked, stale>>
    BY DEF Encode, nackVars, NextSlot
<1>4. TypeOK'
    <2>1. [n |-> count + 1, seq |-> sequence, cipher |-> FALSE] \in Content
        BY <1>1 DEF Content, Seqs
    <2>2. buffer' \in [Slots -> Content]
        BY <1>1, <1>2, <1>3, <2>1 DEF TypeOK, Slots
    <2> QED BY <1>1, <1>2, <1>3, <2>2 DEF TypeOK, Seqs, Slots
<1>5. RingInv'
    <2> SUFFICES ASSUME NEW a \in 0 .. BufLen - 1, a < count'
                 PROVE  buffer'[Behind(index', a, BufLen)].n = count' - a
        BY DEF RingInv
    <2>1. CASE a = 0
        <3>1. Behind(index', 0, BufLen) = index'
            BY <1>2 DEF Behind
        <3>2. buffer'[index'].n = count + 1
            BY <1>1, <1>2, <1>3 DEF TypeOK, Slots
        <3> QED BY <2>1, <3>1, <3>2, <1>1, <1>2
    <2>2. CASE a > 0
        <3>1. /\ Behind(index', a, BufLen) = Behind(index, a - 1, BufLen)
              /\ Behind(index, a - 1, BufLen) \in 0 .. BufLen - 1
              /\ Behind(index, a - 1, BufLen) # index'
            BY <2>2, <1>1, <1>2 DEF Behind
        <3>2. buffer'[Behind(index, a - 1, BufLen)]
                = buffer[Behind(index, a - 1, BufLen)]
            BY <3>1, <1>1, <1>3 DEF TypeOK, Slots
        <3>3. buffer[Behind(index, a - 1, BufLen)].n = count - (a - 1)
            BY <2>2, <1>1, <1>2 DEF IInv, RingInv
        <3> QED BY <3>1, <3>2, <3>3, <1>1, <1>2
    <2> QED BY <2>1, <2>2
<1>6. QueueInv'
    <2> SUFFICES ASSUME NEW a \in 0 .. BufLen - 1, a < count', a > 0,
                        NEW s, s = Behind(sequence', a + 1, SeqSpace),
                        queue[Position(s)].seq = s
                 PROVE  queue[Position(s)].payload = Behind(index', a, BufLen)
        BY <1>2, <1>3 DEF QueueInv, Position
    <2>1. /\ s = Behind(sequence, (a - 1) + 1, SeqSpace)
          /\ Behind(index', a, BufLen) = Behind(index, a - 1, BufLen)
        BY <1>1, <1>2 DEF Behind
    <2>2. a - 1 \in 0 .. BufLen - 1 /\ a - 1 < count
        BY <1>1, <1>2
    <2> QED BY <2>1, <2>2, <1>1 DEF IInv, QueueInv
<1>7. NackInv'
    <2> SUFFICES ASSUME NEW w \in nacks
                 PROVE  /\ w.n \in 1 .. LastSent'
                        /\ count' - w.n < SeqSpace => w.seq = SeqOf(w.n)'
        BY <1>3 DEF NackInv
    <2>1. w.n \in 1 .. count /\ (count - w.n < SeqSpace => w.seq = SeqOf(w.n))
        BY <1>2 DEF IInv, NackInv
    <2>2. ASSUME NEW m \in 1 .. count, count + 1 - m < SeqSpace
          PROVE  Behind(sequence', count' - m + 1, SeqSpace)
                   = Behind(sequence, count - m + 1, SeqSpace)
        BY <2>2, <1>1, <1>2 DEF Behind
    <2> QED BY <2>1, <2>2, <1>1, <1>2 DEF SeqOf
<1>8. HeldInv'
    <2> SUFFICES ASSUME nackPc \in {"found", "send"}
                 PROVE  /\ asked \in 1 .. LastSent'
                        /\ pkt \in Entry
                        /\ nackPc = "found" => queue[Position(pkt.seq)] \in Entry
                        /\ (count' - asked < BufLen
                              /\ (nackPc = "found" \/ ~stale))
                           => pkt.payload = Behind(index', count' - asked, BufLen)
        BY <1>3 DEF HeldInv, Position
    <2>1. /\ asked \in 1 .. count
          /\ pkt \in Entry
          /\ nackPc = "found" => queue[Position(pkt.seq)] \in Entry
          /\ (count - asked < BufLen /\ (nackPc = "found" \/ ~stale))
               => pkt.payload = Behind(index, count - asked, BufLen)
        BY <1>2 DEF IInv, HeldInv
    <2>2. count' - asked < BufLen
            => Behind(index', count' - asked, BufLen)
                 = Behind(index, count - asked, BufLen)
        BY <2>1, <1>1, <1>2 DEF Behind
    <2> QED BY <2>1, <2>2, <1>1, <1>2
<1> QED BY <1>4, <1>5, <1>6, <1>7, <1>8 DEF IInv

LEMMA CacheNackInv == IInv /\ CacheNack => IInv'
<1> SUFFICES ASSUME IInv, CacheNack PROVE IInv'
    OBVIOUS
<1> USE ConstantsOK
<1> DEFINE seq == Behind(sequence, 1, SeqSpace)
           new == [seq |-> seq, payload |-> index]
<1>1. /\ sequence \in 0 .. SeqSpace - 1 /\ index \in 0 .. BufLen - 1
      /\ count \in Nat /\ TypeOK /\ pubPc = "cache" /\ pubPc' = "protect"
      /\ queue' = [queue EXCEPT ![Position(seq)] = new]
      /\ stale' = (stale \/ (nackPc = "found" /\ Position(pkt.seq) = Position(seq)))
      /\ UNCHANGED <<sequence, index, count, buffer, nacks, nackPc, pkt, asked>>
    BY DEF IInv, TypeOK, Seqs, Slots, CacheNack, nackVars
<1>2. seq \in Seqs /\ Position(seq) \in 0 .. Capacity - 1
    BY <1>1, PositionInRange DEF Behind, Seqs
<1>3. new \in Entry
    BY <1>1, <1>2 DEF Entry, Slots
<1>4. TypeOK'
    <2>1. queue' \in [0 .. Capacity - 1 -> Entry \cup {None}]
        BY <1>1, <1>2, <1>3 DEF TypeOK
    <2>2. stale' \in BOOLEAN
        BY <1>1 DEF TypeOK
    <2> QED BY <1>1, <2>1, <2>2 DEF TypeOK
<1>5. RingInv'
    BY <1>1 DEF IInv, RingInv
<1>6. QueueInv'
    <2> SUFFICES ASSUME NEW a \in 0 .. BufLen - 1, a < count,
                        NEW s, s = Behind(sequence, a + 1, SeqSpace),
                        queue'[Position(s)].seq = s
                 PROVE  queue'[Position(s)].payload = Behind(index, a, BufLen)
        BY <1>1 DEF QueueInv, Position
    <2>1. s \in Seqs /\ Position(s) \in 0 .. Capacity - 1
        BY <1>1, PositionInRange DEF Behind, Seqs
    <2>2. CASE a = 0
        <3>1. s = seq /\ Behind(index, a, BufLen) = index
            BY <2>2, <1>1 DEF Behind
        <3>2. queue'[Position(s)] = new
            BY <3>1, <1>1, <1>2 DEF TypeOK
        <3> QED BY <3>1, <3>2
    <2>3. CASE a > 0
        <3>1. s # seq
            BY <2>3, <1>1 DEF Behind
        <3>2. Position(s) # Position(seq)
            <4> SUFFICES ASSUME Position(s) = Position(seq) PROVE FALSE
                OBVIOUS
            <4>1. queue'[Position(s)] = new
                BY <1>1, <1>2 DEF TypeOK
            <4> QED BY <4>1, <3>1
        <3>3. queue'[Position(s)] = queue[Position(s)]
            BY <3>2, <1>1, <2>1 DEF TypeOK
        <3> QED BY <3>3, <2>3 DEF IInv, QueueInv
    <2> QED BY <2>2, <2>3
<1>7. NackInv'
    BY <1>1 DEF IInv, NackInv, LastSent, SeqOf
<1>8. HeldInv'
    <2> SUFFICES ASSUME nackPc \in {"found", "send"}
                 PROVE  HeldInv'
        BY <1>1 DEF HeldInv
    <2>1. /\ asked \in 1 .. LastSent
          /\ pkt \in Entry
          /\ nackPc = "found" => queue[Position(pkt.seq)] \in Entry
          /\ (count - asked < BufLen /\ (nackPc = "found" \/ ~stale))
               => pkt.payload = Behind(index, count - asked, BufLen)
        BY DEF IInv, HeldInv
    <2>2. nackPc = "found" => queue'[Position(pkt.seq)] \in Entry
        <3>1. Position(pkt.seq) \in 0 .. Capacity - 1
            BY <2>1, PositionInRange DEF Entry
        <3> QED BY <3>1, <2>1, <1>1, <1>2, <1>3 DEF TypeOK
    <2>3. LastSent' = LastSent /\ Position(pkt.seq)' = Position(pkt.seq)
        BY <1>1 DEF LastSent, Position
    <2> QED BY <2>1, <2>2, <2>3, <1>1 DEF HeldInv
<1> QED BY <1>4, <1>5, <1>6, <1>7, <1>8 DEF IInv

\* Protecting a slot in place leaves every slot with the packet it holds.
LEMMA ProtectKeepsPackets ==
    ASSUME buffer \in [Slots -> Content], NEW s \in Slots,
           buffer' = [buffer EXCEPT ![s] = Protected(@)]
    PROVE  /\ buffer' \in [Slots -> Content]
           /\ \A t \in Slots : buffer'[t].n = buffer[t].n
BY ProtectedType

\* So it keeps the ring's part of the invariant.
LEMMA RingInvKept ==
    ASSUME TypeOK, RingInv, UNCHANGED <<index, count>>,
           \A t \in Slots : buffer'[t].n = buffer[t].n
    PROVE  RingInv'
<1> SUFFICES ASSUME NEW a \in 0 .. BufLen - 1, a < count
             PROVE  buffer'[Behind(index, a, BufLen)].n = count - a
    BY DEF RingInv
<1>1. Behind(index, a, BufLen) \in Slots
    BY ConstantsOK DEF TypeOK, Slots, Behind
<1> QED BY <1>1 DEF RingInv

LEMMA ProtectInv == IInv /\ Protect => IInv'
<1> SUFFICES ASSUME IInv, Protect PROVE IInv'
    OBVIOUS
<1>1. /\ TypeOK /\ RingInv /\ index \in Slots
      /\ pubPc = "protect" /\ pubPc' = "send"
      /\ UNCHANGED <<sequence, index, count, queue, nacks, nackPc, pkt, asked, stale>>
    BY DEF IInv, TypeOK, Protect, nackVars
<1>2. /\ buffer' \in [Slots -> Content]
      /\ \A t \in Slots : buffer'[t].n = buffer[t].n
    BY <1>1, ProtectKeepsPackets DEF TypeOK, Protect
<1>3. TypeOK'
    BY <1>1, <1>2 DEF TypeOK
<1>4. RingInv'
    BY <1>1, <1>2, RingInvKept
<1>5. QueueInv'
    BY <1>1 DEF IInv, QueueInv, Position
<1>6. NackInv' /\ HeldInv'
    BY <1>1 DEF IInv, NackInv, HeldInv, LastSent, SeqOf, Position
<1> QED BY <1>3, <1>4, <1>5, <1>6 DEF IInv

LEMMA SendInv == IInv /\ Send => IInv'
<1> SUFFICES ASSUME IInv, Send PROVE IInv'
    OBVIOUS
<1>1. /\ TypeOK /\ count \in Nat
      /\ pubPc = "send" /\ pubPc' = "idle"
      /\ UNCHANGED <<sequence, index, count, buffer, queue, nacks, nackPc, pkt,
                     asked, stale>>
    BY DEF IInv, TypeOK, Send, nackVars
<1>2. TypeOK' /\ RingInv'
    BY <1>1 DEF IInv, TypeOK, RingInv
<1>3. QueueInv'
    BY <1>1 DEF IInv, QueueInv, Position
<1>4. LastSent = count - 1 /\ LastSent' = count
    BY <1>1 DEF LastSent
<1>5. NackInv' /\ HeldInv'
    BY <1>1, <1>4 DEF IInv, NackInv, HeldInv, SeqOf, Position
<1> QED BY <1>2, <1>3, <1>5 DEF IInv

LEMMA RecvNackInv == IInv /\ RecvNack => IInv'
<1> SUFFICES ASSUME IInv, RecvNack PROVE IInv'
    OBVIOUS
<1>1. /\ TypeOK /\ count \in Nat /\ nackPc' = "next"
      /\ UNCHANGED <<sequence, index, pubPc, count, buffer, queue, pkt, asked, stale>>
    BY DEF IInv, TypeOK, RecvNack, pubVars
<1>2. PICK W \in SUBSET {m \in 1 .. LastSent : count - m < SeqSpace} :
            nacks' = {[seq |-> SeqOf(m), n |-> m] : m \in W}
    BY DEF RecvNack
<1>3. LastSent \in Int /\ LastSent <= count /\ LastSent' = LastSent
    BY <1>1 DEF LastSent
<1>4. nacks' \subseteq Wanted
    <2> SUFFICES ASSUME NEW m \in W
                 PROVE  [seq |-> SeqOf(m), n |-> m] \in Wanted
        BY <1>2
    <2>1. m \in 1 .. count /\ count - m < SeqSpace
        BY <1>1, <1>3
    <2> QED BY <2>1, <1>1, SeqOfInRange DEF Wanted
<1>5. TypeOK' /\ RingInv' /\ HeldInv'
    BY <1>1, <1>4 DEF IInv, TypeOK, RingInv, HeldInv
<1>6. QueueInv'
    BY <1>1 DEF IInv, QueueInv, Position
<1>7. NackInv'
    BY <1>1, <1>2, <1>3 DEF NackInv, SeqOf
<1> QED BY <1>5, <1>6, <1>7 DEF IInv

LEMMA FetchInv == IInv /\ Fetch => IInv'
<1> SUFFICES ASSUME IInv, Fetch PROVE IInv'
    OBVIOUS
<1> USE ConstantsOK
<1>1. /\ TypeOK /\ count \in Nat /\ nackPc = "next"
      /\ sequence \in 0 .. SeqSpace - 1 /\ index \in 0 .. BufLen - 1
      /\ UNCHANGED <<sequence, index, pubPc, count, buffer, queue, stale>>
    BY DEF IInv, TypeOK, Fetch, pubVars, Seqs, Slots
<1>2. PICK w \in nacks :
        LET e == queue[Position(w.seq)]
        IN  /\ nacks' = nacks \ {w}
            /\ IF e # None /\ e.seq = w.seq
               THEN pkt' = e /\ asked' = w.n /\ nackPc' = "found"
               ELSE UNCHANGED <<pkt, asked, nackPc>>
    BY DEF Fetch
<1> DEFINE e == queue[Position(w.seq)]
<1>3. /\ w \in Wanted
      /\ w.n \in 1 .. LastSent
      /\ count - w.n < SeqSpace => w.seq = SeqOf(w.n)
    BY <1>1 DEF IInv, TypeOK, NackInv
<1>4. /\ LastSent' = LastSent /\ LastSent <= count /\ LastSent \in Int
      /\ pubPc # "idle" => LastSent = count - 1
    BY <1>1 DEF LastSent
<1>5. e \in Entry \cup {None}
    BY <1>1, <1>3, PositionInRange DEF TypeOK, Wanted
<1>6. TypeOK'
    BY <1>1, <1>2, <1>3, <1>4, <1>5 DEF TypeOK, Wanted
<1>7. RingInv' /\ QueueInv'
    BY <1>1 DEF IInv, RingInv, QueueInv, Position
<1>8. NackInv'
    BY <1>1, <1>2, <1>4 DEF IInv, NackInv, SeqOf
<1>9. HeldInv'
    <2>1. CASE e # None /\ e.seq = w.seq
        <3>1. /\ pkt' = e /\ asked' = w.n /\ nackPc' = "found"
              /\ e \in Entry /\ Position(e.seq) = Position(w.seq)
            BY <2>1, <1>2, <1>5
        <3>2. queue'[Position(e.seq)] \in Entry
            BY <3>1, <1>1
        <3>3. ASSUME count - w.n < BufLen
              PROVE  e.payload = Behind(index, count - w.n, BufLen)
            <4> DEFINE a == count - w.n
            <4>1. /\ a \in 0 .. BufLen - 1 /\ a < count
                  /\ a > 0 \/ pubPc # "cache"
                BY <3>3, <1>1, <1>3, <1>4
            <4>2. w.seq = Behind(sequence, a + 1, SeqSpace)
                BY <3>3, <1>1, <1>3, <4>1 DEF SeqOf
            <4>3. queue[Position(Behind(sequence, a + 1, SeqSpace))].seq
                    = Behind(sequence, a + 1, SeqSpace)
                BY <2>1, <4>2
            <4>4. queue[Position(Behind(sequence, a + 1, SeqSpace))].payload
                    = Behind(index, a, BufLen)
                BY <4>1, <4>3 DEF IInv, QueueInv
            <4> QED BY <4>2, <4>4
        <3> QED BY <3>1, <3>2, <3>3, <1>1, <1>3, <1>4 DEF HeldInv, Position
    <2>2. CASE ~(e # None /\ e.seq = w.seq)
        BY <2>2, <1>1, <1>2 DEF HeldInv
    <2> QED BY <2>1, <2>2
<1> QED BY <1>6, <1>7, <1>8, <1>9 DEF IInv

LEMMA EndOfNackInv == IInv /\ EndOfNack => IInv'
BY DEF IInv, EndOfNack, pubVars, TypeOK, RingInv, QueueInv, NackInv, HeldInv,
       Position, SeqOf, LastSent

LEMMA ProtectAgainInv == IInv /\ ProtectAgain => IInv'
<1> SUFFICES ASSUME IInv, ProtectAgain PROVE IInv'
    OBVIOUS
<1>1. /\ TypeOK /\ RingInv /\ nackPc = "found" /\ nackPc' = "send"
      /\ UNCHANGED <<sequence, index, pubPc, count, queue, nacks, asked, stale>>
    BY DEF IInv, ProtectAgain, pubVars
<1>2. PICK e \in {pkt} \cup (IF stale THEN {queue[Position(pkt.seq)]} ELSE {}) :
        pkt' = e /\ buffer' = [buffer EXCEPT ![e.payload] = Protected(@)]
    BY DEF ProtectAgain
<1>3. e \in Entry /\ e.payload \in Slots
    BY <1>1, <1>2 DEF IInv, HeldInv, Entry
<1>4. /\ buffer' \in [Slots -> Content]
      /\ \A t \in Slots : buffer'[t].n = buffer[t].n
    BY <1>1, <1>2, <1>3, ProtectKeepsPackets DEF TypeOK
<1>5. TypeOK'
    BY <1>1, <1>2, <1>3, <1>4 DEF TypeOK
<1>6. RingInv'
    BY <1>1, <1>4, RingInvKept
<1>7. QueueInv' /\ NackInv'
    BY <1>1 DEF IInv, QueueInv, NackInv, Position, SeqOf, LastSent
<1>8. HeldInv'
    <2>1. stale \/ e = pkt
        BY <1>2
    <2> QED BY <2>1, <1>1, <1>2, <1>3 DEF IInv, HeldInv, LastSent
<1> QED BY <1>5, <1>6, <1>7, <1>8 DEF IInv

LEMMA SendAgainInv == IInv /\ SendAgain => IInv'
BY DEF IInv, SendAgain, pubVars, TypeOK, RingInv, QueueInv, NackInv, HeldInv,
       Position, SeqOf, LastSent

-----------------------------------------------------------------------------
(* The theorems *)

LEMMA StepInv == IInv /\ [Next]_vars => IInv'
<1> SUFFICES ASSUME IInv, [Next]_vars PROVE IInv'
    OBVIOUS
<1>1. CASE Encode         BY <1>1, EncodeInv
<1>2. CASE CacheNack      BY <1>2, CacheNackInv
<1>3. CASE Protect        BY <1>3, ProtectInv
<1>4. CASE Send           BY <1>4, SendInv
<1>5. CASE RecvNack       BY <1>5, RecvNackInv
<1>6. CASE Fetch          BY <1>6, FetchInv
<1>7. CASE EndOfNack      BY <1>7, EndOfNackInv
<1>8. CASE ProtectAgain   BY <1>8, ProtectAgainInv
<1>9. CASE SendAgain      BY <1>9, SendAgainInv
<1>10. CASE UNCHANGED vars
    BY <1>10 DEF vars, IInv, TypeOK, RingInv, QueueInv, NackInv, HeldInv,
                 Position, SeqOf, LastSent
<1> QED BY <1>1, <1>2, <1>3, <1>4, <1>5, <1>6, <1>7, <1>8, <1>9, <1>10 DEF Next

LEMMA Invariance == Spec => []IInv
BY InitInv, StepInv, PTL DEF Spec

\* The ring index and the sequence counter never leave their range and every
\* entry, the one the UDP thread holds included, points into the ring.
THEOREM TypeCorrect == Spec => []TypeOK
<1>1. IInv => TypeOK
    BY DEF IInv
<1> QED BY <1>1, Invariance, PTL

\* Whatever the interleaving of publisher and UDP thread, a NACK is answered
\* with the packet it asks for, until the ring has turned past that packet.
THEOREM AskedPacketResent == Spec => []AskedPacketIsResent
<1>1. IInv => AskedPacketIsResent
    <2> SUFFICES ASSUME IInv, nackPc = "send", ~stale, count - asked < BufLen
                 PROVE  buffer[pkt.payload].n = asked
        BY DEF AskedPacketIsResent
    <2>1. /\ asked \in 1 .. count
          /\ count \in Nat
          /\ pkt.payload = Behind(index, count - asked, BufLen)
        BY DEF IInv, HeldInv, TypeOK, LastSent
    <2>2. /\ count - asked \in 0 .. BufLen - 1
          /\ count - asked < count
        BY <2>1, ConstantsOK
    <2> QED BY <2>1, <2>2 DEF IInv, RingInv
<1> QED BY <1>1, Invariance, PTL

-----------------------------------------------------------------------------
(* Recent packets are kept *)

\* The packet an entry was asked for has the entry's number until the counter has
\* turned, and an entry is known to be freed only while the UDP thread uses it.
AskedInv ==
    /\ (nackPc = "found" /\ count - asked < SeqSpace) => pkt.seq = SeqOf(asked)
    /\ stale => nackPc \in {"found", "send"}

KeptInv ==
    /\ RecentPacketIsCached
    /\ FreedOnlyWhenOld
    /\ AskedInv

\* The packets between the newest and the one MinKept back have numbers of the last turn.
LEMMA MinKeptRange == MinKept \in Nat /\ MinKept < SeqSpace
<1>1. Capacity \in Nat \ {0} /\ SeqSpace \in Nat \ {0} /\ Capacity < SeqSpace
    BY ConstantsOK
<1>2. SeqSpace % Capacity \in 0 .. Capacity - 1
    BY <1>1, Division
<1> QED BY <1>1, <1>2 DEF MinKept

\* A packet's number stays what it is while no packet or one packet is produced.
LEMMA SeqOfKept ==
    ASSUME TypeOK, NEW m \in Int, m <= count, count - m < SeqSpace - 1,
           \/ UNCHANGED <<sequence, count>>
           \/ /\ count' = count + 1
              /\ sequence' = (IF sequence + 1 = SeqSpace THEN 0 ELSE sequence + 1)
    PROVE  SeqOf(m)' = SeqOf(m)
BY ConstantsOK DEF TypeOK, Seqs, SeqOf, Behind

LEMMA KeptInit == Init => KeptInv
BY DEF Init, KeptInv, RecentPacketIsCached, FreedOnlyWhenOld, AskedInv

\* A new packet leaves the cache as it is, and everything else one packet older.
LEMMA KeptEncode == IInv /\ KeptInv /\ Encode => KeptInv'
<1> SUFFICES ASSUME IInv, KeptInv, Encode PROVE KeptInv'
    OBVIOUS
<1>1. /\ TypeOK /\ count \in Nat /\ pubPc = "idle" /\ pubPc' = "cache"
      /\ count' = count + 1
      /\ sequence' = (IF sequence + 1 = SeqSpace THEN 0 ELSE sequence + 1)
      /\ UNCHANGED <<queue, nackPc, pkt, asked, stale>>
    BY DEF IInv, TypeOK, Encode, nackVars
<1>2. RecentPacketIsCached'
    <2> SUFFICES ASSUME NEW m \in 1 .. count, count - m < MinKept
                 PROVE  queue[Position(SeqOf(m)')].seq = SeqOf(m)'
        BY <1>1 DEF RecentPacketIsCached, Position
    <2>1. SeqOf(m)' = SeqOf(m)
        BY <1>1, MinKeptRange, SeqOfKept, ConstantsOK
    <2> QED BY <2>1, <1>1 DEF KeptInv, RecentPacketIsCached
<1>3. stale => asked \in 1 .. count
    <2>1. LastSent = count
        BY <1>1 DEF LastSent
    <2> QED BY <2>1 DEF IInv, HeldInv, KeptInv, AskedInv
<1>4. FreedOnlyWhenOld'
    BY <1>1, <1>3, MinKeptRange DEF KeptInv, FreedOnlyWhenOld
<1>5. AskedInv'
    <2>1. ASSUME nackPc = "found", count' - asked < SeqSpace PROVE pkt.seq = SeqOf(asked)'
        <3>1. asked \in 1 .. count
            BY <2>1, <1>1 DEF IInv, HeldInv, LastSent
        <3>2. SeqOf(asked)' = SeqOf(asked)
            BY <2>1, <1>1, <3>1 DEF SeqOf, TypeOK, Seqs, Behind
        <3>3. pkt.seq = SeqOf(asked)
            BY <2>1, <3>1, <1>1, ConstantsOK DEF KeptInv, AskedInv
        <3> QED BY <3>2, <3>3
    <2> QED BY <2>1, <1>1 DEF KeptInv, AskedInv, SeqOf
<1> QED BY <1>2, <1>4, <1>5 DEF KeptInv

\* The entry freed is that of a packet MinKept older, or of none.
LEMMA KeptCacheNack == IInv /\ KeptInv /\ CacheNack => KeptInv'
<1> SUFFICES ASSUME IInv, KeptInv, CacheNack PROVE KeptInv'
    OBVIOUS
<1> DEFINE seq == Behind(sequence, 1, SeqSpace)
<1>1. /\ TypeOK /\ count \in Nat /\ sequence \in Seqs /\ pubPc = "cache" /\ pubPc' = "protect"
      /\ queue' = [queue EXCEPT ![Position(seq)] = [seq |-> seq, payload |-> index]]
      /\ stale' = (stale \/ (nackPc = "found" /\ Position(pkt.seq) = Position(seq)))
      /\ UNCHANGED <<sequence, count, nackPc, pkt, asked>>
    BY DEF IInv, TypeOK, CacheNack, nackVars
<1>2. seq \in Seqs /\ Position(seq) \in 0 .. Capacity - 1
    BY <1>1, ConstantsOK, PositionInRange DEF Behind, Seqs
\* A packet that is less than MinKept older than the newest has another position.
<1>3. ASSUME NEW m \in 1 .. count, m # count, count - m < MinKept
      PROVE  Position(SeqOf(m)) # Position(seq)
    <2>1. count - m \in 1 .. MinKept - 1
        BY <1>3, <1>1, MinKeptRange
    <2> QED BY <2>1, <1>1, PositionsDiffer DEF SeqOf
<1>4. RecentPacketIsCached'
    <2> SUFFICES ASSUME NEW m \in 1 .. count, count - m < MinKept
                 PROVE  queue'[Position(SeqOf(m))].seq = SeqOf(m)
        BY <1>1 DEF RecentPacketIsCached, Position, SeqOf
    <2>1. CASE m = count
        <3>1. SeqOf(m) = seq
            BY <2>1, <1>1 DEF SeqOf
        <3>2. queue'[Position(seq)] = [seq |-> seq, payload |-> index]
            BY <1>1, <1>2 DEF TypeOK
        <3> QED BY <3>1, <3>2
    <2>2. CASE m # count
        <3>1. queue[Position(SeqOf(m))].seq = SeqOf(m)
            BY <2>2, <1>1, MinKeptRange DEF KeptInv, RecentPacketIsCached
        <3>2. Position(SeqOf(m)) \in 0 .. Capacity - 1
            <4>1. count - m < SeqSpace
                BY <1>1, MinKeptRange, ConstantsOK
            <4>2. SeqOf(m) \in Seqs
                BY <4>1, <1>1, SeqOfInRange
            <4> QED BY <4>2, PositionInRange
        <3>3. queue'[Position(SeqOf(m))] = queue[Position(SeqOf(m))]
            BY <2>2, <1>1, <1>3, <3>2 DEF TypeOK
        <3> QED BY <3>1, <3>3
    <2> QED BY <2>1, <2>2
<1>5. FreedOnlyWhenOld'
    <2>1. ASSUME nackPc = "found", Position(pkt.seq) = Position(seq), count - asked < MinKept
          PROVE  FALSE
        <3>1. asked \in 1 .. count /\ asked # count
            BY <2>1, <1>1 DEF IInv, HeldInv, LastSent
        <3>2. pkt.seq = SeqOf(asked)
            BY <2>1, <3>1, <1>1, MinKeptRange, ConstantsOK DEF KeptInv, AskedInv
        <3> QED BY <2>1, <3>1, <3>2, <1>3
    <2>2. asked \in Nat
        BY <1>1 DEF TypeOK
    <2>3. stale' => stale \/ (nackPc = "found" /\ Position(pkt.seq) = Position(seq))
        BY <1>1, Zenon
    <2>4. stale => count - asked >= MinKept
        BY DEF KeptInv, FreedOnlyWhenOld
    <2>5. stale' => count - asked >= MinKept
        BY <2>1, <2>2, <2>3, <2>4, <1>1, MinKeptRange
    <2> QED BY <2>5, <1>1 DEF FreedOnlyWhenOld
<1>6. AskedInv'
    BY <1>1 DEF KeptInv, AskedInv, SeqOf
<1> QED BY <1>4, <1>5, <1>6 DEF KeptInv

\* The entry found has the number of the packet it was asked for.
LEMMA KeptFetch == IInv /\ KeptInv /\ Fetch => KeptInv'
<1> SUFFICES ASSUME IInv, KeptInv, Fetch PROVE KeptInv'
    OBVIOUS
<1>1. /\ nackPc = "next" /\ UNCHANGED <<sequence, pubPc, count, queue, stale>>
    BY DEF Fetch, pubVars
<1>2. PICK w \in nacks :
        \/ pkt'.seq = w.seq /\ asked' = w.n /\ nackPc' = "found"
        \/ UNCHANGED <<pkt, asked, nackPc>>
    BY DEF Fetch
<1>3. ~stale
    BY <1>1 DEF KeptInv, AskedInv
<1>4. RecentPacketIsCached' /\ FreedOnlyWhenOld'
    BY <1>1, <1>3 DEF KeptInv, RecentPacketIsCached, FreedOnlyWhenOld, Position, SeqOf
<1>5. AskedInv'
    BY <1>1, <1>2, <1>3 DEF IInv, NackInv, AskedInv, SeqOf
<1> QED BY <1>4, <1>5 DEF KeptInv

LEMMA KeptStep == IInv /\ KeptInv /\ [Next]_vars => KeptInv'
<1> SUFFICES ASSUME IInv, KeptInv, [Next]_vars PROVE KeptInv'
    OBVIOUS
<1> USE DEF KeptInv, RecentPacketIsCached, FreedOnlyWhenOld, AskedInv, SeqOf, Position
<1>1. CASE Encode         BY <1>1, KeptEncode
<1>2. CASE CacheNack      BY <1>2, KeptCacheNack
<1>3. CASE Protect        BY <1>3 DEF Protect, nackVars
<1>4. CASE Send           BY <1>4 DEF Send, nackVars
<1>5. CASE RecvNack       BY <1>5 DEF RecvNack, pubVars
<1>6. CASE Fetch          BY <1>6, KeptFetch
<1>7. CASE EndOfNack      BY <1>7 DEF EndOfNack, pubVars
<1>8. CASE ProtectAgain   BY <1>8 DEF ProtectAgain, pubVars
<1>9. CASE SendAgain      BY <1>9 DEF SendAgain, pubVars
<1>10. CASE UNCHANGED vars
    BY <1>10 DEF vars
<1> QED BY <1>1, <1>2, <1>3, <1>4, <1>5, <1>6, <1>7, <1>8, <1>9, <1>10 DEF Next

LEMMA KeptInvariance == Spec => []KeptInv
BY KeptInit, KeptStep, Invariance, PTL DEF Spec

\* A packet that is among the last MinKept cached is found in the cache, whatever turn of
\* the sequence counter lies between it and the newest.
THEOREM RecentPacketCached == Spec => []RecentPacketIsCached
<1>1. KeptInv => RecentPacketIsCached
    BY DEF KeptInv
<1> QED BY <1>1, KeptInvariance, PTL

\* The publisher never frees the entry the UDP thread reads before MinKept more packets
\* were produced.
THEOREM FreedWhenOld == Spec => []FreedOnlyWhenOld
<1>1. KeptInv => FreedOnlyWhenOld
    BY DEF KeptInv
<1> QED BY <1>1, KeptInvariance, PTL
=============================================================================
