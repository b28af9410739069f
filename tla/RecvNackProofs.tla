--------------------------- MODULE RecvNackProofs ---------------------------
(***************************************************************************)
(* Proofs about RecvNack: nothing is forgotten, the list is in order, what *)
(* arrived is not on it, and what is due is asked for.                     *)
(*                                                                         *)
(* Numbers on the wire are remainders, and the list and the scan compare   *)
(* them by the shorter way round. What they conclude is true of packets as *)
(* long as all that are compared lie within half a turn; the invariant     *)
(* (Known, Ordered, Absent) names the newest packet E that the buffer has  *)
(* seen and says so of everything on the list. In a stream of less than    *)
(* half a turn that holds by itself. In a longer one it holds when packets *)
(* come in time (InTime): a packet that is still asked for has fewer than  *)
(* half a turn of packets after it.                                        *)
(*                                                                         *)
(* The loops of yang_recvnack_insert and yang_recvnack_get_nack_seqs are   *)
(* folds; what they do is proved by induction over their turns, with the   *)
(* lemmas on Place, Spliced and sequences of NackCodecProofs.              *)
(***************************************************************************)
EXTENDS RecvNack, NackCodecProofs

-----------------------------------------------------------------------------
(* Numbers and sequence numbers *)

\* A number is the multiple of the sequence space below it and its remainder.
LEMMA TurnedTo ==
    ASSUME NEW x \in Int, NEW q \in Int, NEW r \in Seqs, x = SeqSpace * q + r
    PROVE  x % SeqSpace = r
<1> DEFINE p == x \div SeqSpace
           s == x % SeqSpace
           k == q - p
           m == SeqSpace * k
<1>1. SeqSpace \in Nat \ {0} /\ r \in 0 .. SeqSpace - 1
    BY SeqSpaceOK DEF Seqs
<1>2. s \in 0 .. SeqSpace - 1 /\ p \in Int /\ x = SeqSpace * p + s
    BY <1>1
<1>3. m = SeqSpace * q - SeqSpace * p /\ k \in Int /\ m \in Int
    BY <1>1, <1>2
<1>4. m = s - r
    <2> DEFINE a == SeqSpace * q
               b == SeqSpace * p
    <2>1. a \in Int /\ b \in Int
        BY <1>1, <1>2
    <2> HIDE DEF a, b, m, s
    <2>2. x = a + r /\ x = b + s /\ m = a - b
        BY <1>2, <1>3 DEF a, b
    <2> QED BY <2>1, <2>2, <1>1, <1>2, <1>3
<1>5. /\ k <= -1 => m <= -SeqSpace
      /\ k = 0 => m = 0
      /\ k >= 1 => m >= SeqSpace
    <2> HIDE DEF k
    <2> QED BY <1>1, <1>3
<1> HIDE DEF k, m, s, p
<1>6. s = r
    BY <1>1, <1>2, <1>3, <1>4, <1>5
<1> QED BY <1>6 DEF s

\* The remainder of a sum is that of the sum with a remainder.
LEMMA TurnedSum ==
    ASSUME NEW x \in Int, NEW k \in Int
    PROVE  /\ ((x % SeqSpace) + k) % SeqSpace = (x + k) % SeqSpace
           /\ (k - (x % SeqSpace)) % SeqSpace = (k - x) % SeqSpace
<1> DEFINE p == x \div SeqSpace
           s == x % SeqSpace
<1>1. SeqSpace \in Nat \ {0}
    BY SeqSpaceOK
<1>2. s \in Int /\ p \in Int /\ x = SeqSpace * p + s
    BY <1>1
<1>3. ASSUME NEW y \in Int, NEW z \in Int, NEW t \in Int, y = z + SeqSpace * t
      PROVE  z % SeqSpace = y % SeqSpace
    <2> DEFINE q == y \div SeqSpace
               r == y % SeqSpace
    <2>1. r \in Seqs /\ q \in Int /\ y = SeqSpace * q + r
        BY <1>1 DEF Seqs
    <2>2. SeqSpace * (q - t) = SeqSpace * q - SeqSpace * t /\ q - t \in Int
        BY <1>1, <2>1
    <2>3. z = SeqSpace * (q - t) + r
        <3> DEFINE a == SeqSpace * q
                   b == SeqSpace * t
                   c == SeqSpace * (q - t)
        <3>1. a \in Int /\ b \in Int /\ r \in Int
            BY <1>1, <2>1 DEF Seqs
        <3>2. y = a + r /\ y = z + b /\ c = a - b
            BY <2>1, <2>2, <1>3
        <3> HIDE DEF a, b, c, r
        <3>3. z = c + r
            BY <3>1, <3>2
        <3> QED BY <3>3 DEF c
    <2> HIDE DEF q, r
    <2>4. z % SeqSpace = r
        BY <2>1, <2>2, <2>3, TurnedTo
    <2> QED BY <2>4 DEF r
<1>4. x + k = s + k + SeqSpace * p /\ s + k \in Int /\ x + k \in Int
    <2> DEFINE b == SeqSpace * p
    <2>1. b \in Int
        BY <1>1, <1>2
    <2> HIDE DEF b, s
    <2> QED BY <2>1, <1>2 DEF b
<1>5. k - x = k - s + SeqSpace * (-p) /\ k - s \in Int /\ k - x \in Int /\ -p \in Int
    <2> DEFINE b == SeqSpace * p
    <2>1. b \in Int /\ SeqSpace * (-p) = -b
        BY <1>1, <1>2
    <2> HIDE DEF b, s
    <2>2. x = b + s
        BY <1>2 DEF b
    <2> QED BY <2>1, <2>2, <1>2
<1> HIDE DEF s, p
<1>6. (s + k) % SeqSpace = (x + k) % SeqSpace
    BY <1>2, <1>3, <1>4
<1>7. (k - s) % SeqSpace = (k - x) % SeqSpace
    BY <1>3, <1>5
<1> QED BY <1>6, <1>7 DEF s

LEMMA TurnedLess ==
    ASSUME NEW x \in Int, -SeqSpace <= x, x < SeqSpace
    PROVE  x % SeqSpace = IF x >= 0 THEN x ELSE x + SeqSpace
<1>1. SeqSpace \in Nat \ {0} /\ SeqSpace * 0 = 0 /\ SeqSpace * (-1) = -SeqSpace
    BY SeqSpaceOK
<1>2. CASE x >= 0
    <2>1. x \in Seqs /\ x = SeqSpace * 0 + x
        BY <1>1, <1>2 DEF Seqs
    <2> QED BY <1>2, <2>1, TurnedTo
<1>3. CASE x < 0
    <2>1. x + SeqSpace \in Seqs /\ x = SeqSpace * (-1) + (x + SeqSpace)
        BY <1>1, <1>3 DEF Seqs
    <2>2. x % SeqSpace = x + SeqSpace
        <3>1. ASSUME NEW r \in Seqs, r = x + SeqSpace PROVE x % SeqSpace = r
            BY <2>1, <3>1, TurnedTo
        <3> QED BY <2>1, <3>1
    <2> QED BY <1>3, <2>2
<1> QED BY <1>2, <1>3

\* The number after a sequence number is that of the packet after it.
LEMMA SeqNumFacts ==
    ASSUME NEW a \in Int, NEW k \in Int
    PROVE  /\ SeqNum(a) \in Seqs
           /\ (SeqNum(a) + k) % SeqSpace = SeqNum(a + k)
<1>1. FirstSeq \in Int /\ FirstSeq + a \in Int /\ FirstSeq + a + k = FirstSeq + (a + k)
    BY ConstantsOK, SeqSpaceOK
<1>2. SeqNum(a) \in Seqs
    BY <1>1, Remainder DEF SeqNum
<1>3. (((FirstSeq + a) % SeqSpace) + k) % SeqSpace = (FirstSeq + a + k) % SeqSpace
    BY <1>1, TurnedSum
<1> QED BY <1>1, <1>2, <1>3 DEF SeqNum

LEMMA NextNumber ==
    ASSUME NEW a \in Int
    PROVE  Next16(SeqNum(a)) = SeqNum(a + 1)
BY SeqNumFacts DEF Next16

LEMMA Difference ==
    ASSUME NEW a \in Int, NEW b \in Int
    PROVE  (SeqNum(b) - SeqNum(a)) % SeqSpace = (b - a) % SeqSpace
<1> DEFINE x == FirstSeq + a
           y == FirstSeq + b
<1>1. x \in Int /\ y \in Int /\ y - x = b - a
    BY ConstantsOK, SeqSpaceOK
<1>2. SeqNum(a) = x % SeqSpace /\ SeqNum(b) = y % SeqSpace
    BY DEF SeqNum
<1> HIDE DEF x, y
<1>3. y % SeqSpace \in Int /\ x % SeqSpace \in Int
    BY <1>1, Remainder DEF Seqs
<1>4. ((y % SeqSpace) - (x % SeqSpace)) % SeqSpace = ((y % SeqSpace) - x) % SeqSpace
    BY <1>1, <1>3, TurnedSum
<1>5. ((y % SeqSpace) + (-x)) % SeqSpace = (y + (-x)) % SeqSpace
    BY <1>1, TurnedSum
<1>6. (y % SeqSpace) + (-x) = (y % SeqSpace) - x /\ y + (-x) = y - x
    BY <1>1, <1>3
<1> QED BY <1>1, <1>2, <1>4, <1>5, <1>6

\* The distance of two packets less than a turn apart: what is half a turn or more ahead counts
\* as behind.
LEMMA DistanceOf ==
    ASSUME NEW a \in Int, NEW b \in Int, -SeqSpace <= b - a, b - a < SeqSpace
    PROVE  Distance(SeqNum(a), SeqNum(b)) =
               IF 2 * (b - a) >= SeqSpace THEN b - a - SeqSpace
               ELSE IF 2 * (b - a) < -SeqSpace THEN b - a + SeqSpace
               ELSE b - a
<1> DEFINE d == (SeqNum(b) - SeqNum(a)) % SeqSpace
           e == b - a
<1>1. e \in Int /\ SeqSpace \in Nat \ {0} /\ -SeqSpace <= e /\ e < SeqSpace
    BY SeqSpaceOK
<1>2. d = e % SeqSpace
    BY Difference
<1>3. Distance(SeqNum(a), SeqNum(b)) = IF 2 * d >= SeqSpace THEN d - SeqSpace ELSE d
    BY DEF Distance
<1> HIDE DEF d, e
<1>4. d = IF e >= 0 THEN e ELSE e + SeqSpace
    BY <1>1, <1>2, TurnedLess
<1>5. Distance(SeqNum(a), SeqNum(b)) =
          IF 2 * e >= SeqSpace THEN e - SeqSpace
          ELSE IF 2 * e < -SeqSpace THEN e + SeqSpace ELSE e
    BY <1>1, <1>3, <1>4
<1> QED BY <1>5 DEF e

\* Packets less than a turn apart have different sequence numbers.
LEMMA SameNumber ==
    ASSUME NEW a \in Int, NEW b \in Int, -SeqSpace < b - a, b - a < SeqSpace,
           SeqNum(a) = SeqNum(b)
    PROVE  a = b
<1> DEFINE e == b - a
<1>1. e \in Int /\ SeqSpace \in Nat \ {0} /\ -SeqSpace < e /\ e < SeqSpace
    BY SeqSpaceOK
<1>2. SeqNum(b) - SeqNum(a) = 0
    BY SeqNumFacts DEF Seqs
<1>3. e % SeqSpace = 0 % SeqSpace
    BY <1>2, Difference
<1>4. e % SeqSpace = (IF e >= 0 THEN e ELSE e + SeqSpace) /\ 0 % SeqSpace = 0
    BY <1>1, TurnedLess
<1> HIDE DEF e
<1>5. e = 0
    BY <1>1, <1>3, <1>4
<1> QED BY <1>5 DEF e

-----------------------------------------------------------------------------
(* The list *)

\* The list without an element.
LEMMA RemovedFacts ==
    ASSUME NEW T, NEW sns \in Seq(T), NEW k \in 1 .. Len(sns)
    PROVE  /\ RemoveAt(sns, k) \in Seq(T)
           /\ Len(RemoveAt(sns, k)) = Len(sns) - 1
           /\ \A i \in 1 .. Len(sns) - 1 :
                 RemoveAt(sns, k)[i] = IF i < k THEN sns[i] ELSE sns[i + 1]
<1> DEFINE n == Len(sns)
           a == SubSeq(sns, 1, k - 1)
           c == SubSeq(sns, k + 1, n)
           d == a \o c
<1>1. n \in Nat /\ k \in 1 .. n /\ \A i \in 1 .. n : sns[i] \in T
    OBVIOUS
<1>2. a \in Seq(T) /\ Len(a) = k - 1 /\ \A i \in 1 .. k - 1 : a[i] = sns[i]
    <2>1. \A i \in 1 .. k - 1 : sns[i] \in T
        BY <1>1
    <2>2. /\ a \in Seq(T)
          /\ Len(a) = IF 1 <= k - 1 THEN k - 1 - 1 + 1 ELSE 0
          /\ \A i \in 1 .. k - 1 - 1 + 1 : a[i] = sns[1 + i - 1]
        BY <2>1, SubSeqProperties
    <2> HIDE DEF a, n
    <2>3. (IF 1 <= k - 1 THEN k - 1 - 1 + 1 ELSE 0) = k - 1 /\ k - 1 - 1 + 1 = k - 1
        BY <1>1
    <2>4. \A i \in 1 .. k - 1 : 1 + i - 1 = i
        OBVIOUS
    <2>5. \A i \in 1 .. k - 1 : a[i] = sns[1 + i - 1]
        BY <2>2, <2>3
    <2> QED BY <2>2, <2>3, <2>4, <2>5
<1>3. c \in Seq(T) /\ Len(c) = n - k /\ \A i \in 1 .. n - k : c[i] = sns[k + i]
    <2>1. \A i \in k + 1 .. n : sns[i] \in T
        BY <1>1
    <2>2. /\ c \in Seq(T)
          /\ Len(c) = IF k + 1 <= n THEN n - (k + 1) + 1 ELSE 0
          /\ \A i \in 1 .. n - (k + 1) + 1 : c[i] = sns[k + 1 + i - 1]
        BY <2>1, SubSeqProperties
    <2> HIDE DEF c, n
    <2>3. (IF k + 1 <= n THEN n - (k + 1) + 1 ELSE 0) = n - k /\ n - (k + 1) + 1 = n - k
        BY <1>1
    <2>4. \A i \in 1 .. n - k : k + 1 + i - 1 = k + i
        BY <1>1
    <2>5. \A i \in 1 .. n - k : c[i] = sns[k + 1 + i - 1]
        BY <2>2, <2>3
    <2> QED BY <2>2, <2>3, <2>4, <2>5
<1>4. RemoveAt(sns, k) = d
    BY DEF RemoveAt
<1> HIDE DEF a, c, n
<1>5. /\ d \in Seq(T)
      /\ Len(d) = Len(a) + Len(c)
      /\ \A i \in 1 .. Len(a) + Len(c) : d[i] = IF i <= Len(a) THEN a[i] ELSE c[i - Len(a)]
    BY <1>2, <1>3, ConcatProperties
<1> HIDE DEF d
<1>6. Len(d) = n - 1
    BY <1>1, <1>2, <1>3, <1>5
<1>7. ASSUME NEW i \in 1 .. n - 1 PROVE d[i] = IF i < k THEN sns[i] ELSE sns[i + 1]
    <2>1. i \in 1 .. Len(a) + Len(c)
        BY <1>1, <1>2, <1>3
    <2>2. CASE i < k
        <3>1. i \in 1 .. k - 1 /\ i <= Len(a)
            BY <1>1, <1>2, <2>2
        <3> QED BY <1>2, <1>5, <2>1, <2>2, <3>1
    <2>3. CASE ~(i < k)
        <3>1. /\ ~(i <= Len(a)) /\ i - Len(a) \in 1 .. n - k
              /\ k + (i - Len(a)) = i + 1
            BY <1>1, <1>2, <2>3
        <3>2. d[i] = c[i - Len(a)] /\ c[i - Len(a)] = sns[k + (i - Len(a))]
            BY <1>3, <1>5, <2>1, <3>1
        <3> QED BY <2>3, <3>1, <3>2
    <2> QED BY <2>2, <2>3
<1> QED BY <1>4, <1>5, <1>6, <1>7 DEF n

LEMMA NumbersFacts ==
    ASSUME NEW infos \in Seq(Info)
    PROVE  /\ Numbers(infos) \in Seq(Seqs)
           /\ Len(Numbers(infos)) = Len(infos)
           /\ \A i \in 1 .. Len(infos) : Numbers(infos)[i] = infos[i].sn /\ infos[i].sn \in Seqs
           /\ ToSet(Numbers(infos)) = {infos[i].sn : i \in 1 .. Len(infos)}
           /\ ToSet(Numbers(infos)) \subseteq Seqs
<1>1. ASSUME NEW i \in 1 .. Len(infos) PROVE infos[i].sn \in Seqs
    <2>1. infos[i] \in Info
        OBVIOUS
    <2> QED BY <2>1 DEF Info
<1>2. Numbers(infos) \in Seq(Seqs) /\ Len(Numbers(infos)) = Len(infos)
    BY <1>1 DEF Numbers
<1>3. \A i \in 1 .. Len(infos) : Numbers(infos)[i] = infos[i].sn
    BY DEF Numbers
<1>4. DOMAIN Numbers(infos) = 1 .. Len(infos)
    BY DEF Numbers
<1> QED BY <1>1, <1>2, <1>3, <1>4 DEF ToSet

\* A number newer than all in the list goes to its end.
LEMMA PlacedLast ==
    ASSUME NEW sns \in Seq(Seqs), NEW sn \in Seqs,
           \A i \in 1 .. Len(sns) : Distance(sns[i], sn) > 0
    PROVE  Place(sns, sn) = Len(sns)
<1> DEFINE n == Len(sns)
           Stops == {i \in 1 .. n - 1 :
                        \/ sn \in {sns[i], sns[i + 1]}
                        \/ Distance(sns[i], sn) > 0 /\ Distance(sn, sns[i + 1]) > 0}
           stop == CHOOSE i \in Stops : \A j \in Stops : i <= j
<1>1. n \in Nat /\ \A i \in 1 .. n : sns[i] \in Seqs
    OBVIOUS
<1>2. ASSUME NEW i \in 1 .. n PROVE sn # sns[i] /\ ~(Distance(sn, sns[i]) > 0)
    <2> DEFINE x == sns[i]
               d == (sn - x) % SeqSpace
               e == (x - sn) % SeqSpace
               w == SeqSpace
    <2>1. x \in 0 .. w - 1 /\ sn \in 0 .. w - 1 /\ w \in Nat /\ x \in Seqs
        BY <1>1, SeqSpaceOK DEF Seqs
    <2>2. /\ d = IF sn >= x THEN sn - x ELSE sn - x + w
          /\ e = IF x >= sn THEN x - sn ELSE x - sn + w
        BY <2>1, TurnedOnce
    <2>3. /\ Distance(x, sn) = IF 2 * d >= w THEN d - w ELSE d
          /\ Distance(sn, x) = IF 2 * e >= w THEN e - w ELSE e
          /\ Distance(x, sn) > 0
        BY DEF Distance
    <2> HIDE DEF x, d, e, w
    <2>4. sn # x /\ ~(Distance(sn, x) > 0)
        BY <2>1, <2>2, <2>3
    <2> QED BY <2>4 DEF x
<1>3. Stops = {}
    <2>1. ASSUME NEW i \in 1 .. n - 1
          PROVE  ~ (\/ sn \in {sns[i], sns[i + 1]}
                    \/ Distance(sns[i], sn) > 0 /\ Distance(sn, sns[i + 1]) > 0)
        <3>1. i \in 1 .. n /\ i + 1 \in 1 .. n
            BY <1>1
        <3> QED BY <1>2, <3>1
    <2> QED BY <2>1
<1>4. Place(sns, sn) =
        CASE n = 0                 -> 0
          [] Stops # {}            -> IF sn \in {sns[stop], sns[stop + 1]}
                                      THEN Duplicate ELSE stop
          [] Stops = {} /\ n > 0   -> IF sns[n] = sn THEN Duplicate
                                      ELSE IF Distance(sn, sns[n]) > 0 THEN n - 1 ELSE n
    BY DEF Place
<1>5. n > 0 => n \in 1 .. n
    BY <1>1
<1> HIDE DEF Stops, stop, n
<1>6. Place(sns, sn) = n
    BY <1>1, <1>2, <1>3, <1>4, <1>5
<1> QED BY <1>6 DEF n

\* What yang_recvnack_insert does for one number.
Listing(l, sn) ==
    IF Place(Numbers(l), sn) = Duplicate THEN l
    ELSE Spliced(l, Place(Numbers(l), sn), NewInfo(sn))

LEMMA ListingFacts ==
    ASSUME NEW l \in Seq(Info), NEW sn \in Seqs, now \in Nat
    PROVE  /\ Listing(l, sn) \in Seq(Info)
           /\ ToSet(Numbers(Listing(l, sn))) = ToSet(Numbers(l)) \cup {sn}
           /\ (\A i \in 1 .. Len(l) : Distance(l[i].sn, sn) > 0) =>
                 PutIn(Listing(l, sn), Info, l, Len(l), NewInfo(sn))
<1> DEFINE place == Place(Numbers(l), sn)
           new == Listing(l, sn)
<1>1. /\ Numbers(l) \in Seq(Seqs) /\ Len(Numbers(l)) = Len(l)
      /\ \A i \in 1 .. Len(l) : Numbers(l)[i] = l[i].sn
      /\ ToSet(Numbers(l)) = {l[i].sn : i \in 1 .. Len(l)}
    BY NumbersFacts
<1>2. NewInfo(sn) \in Info /\ NewInfo(sn).sn = sn
    BY DEF NewInfo, Info
<1>3. ASSUME place # Duplicate
      PROVE  place \in 0 .. Len(l) /\ PutIn(new, Info, l, place, NewInfo(sn))
    <2>1. place \in 0 .. Len(l)
        BY <1>1, <1>3, PlaceFacts
    <2>2. new = Spliced(l, place, NewInfo(sn))
        BY <1>3 DEF Listing
    <2> HIDE DEF place, new
    <2> QED BY <1>2, <2>1, <2>2, SplicedFacts
<1>4. new \in Seq(Info) /\ ToSet(Numbers(new)) = ToSet(Numbers(l)) \cup {sn}
    <2>1. CASE place = Duplicate
        <3>1. \E i \in 1 .. Len(l) : Numbers(l)[i] = sn
            BY <1>1, <2>1, PlaceFacts DEF Duplicate
        <3>2. new = l
            BY <2>1 DEF Listing
        <3>3. sn \in ToSet(Numbers(l))
            BY <1>1, <3>1
        <3> QED BY <3>2, <3>3
    <2>2. CASE place # Duplicate
        <3>1. /\ place \in 0 .. Len(l) /\ new \in Seq(Info) /\ Len(new) = Len(l) + 1
              /\ \A i \in 1 .. Len(l) + 1 :
                    new[i] = IF i <= place THEN l[i]
                             ELSE IF i = place + 1 THEN NewInfo(sn) ELSE l[i - 1]
            BY <1>3, <2>2 DEF PutIn
        <3> HIDE DEF place, new
        <3>2. ToSet(Numbers(new)) = {new[i].sn : i \in 1 .. Len(l) + 1}
            BY <3>1, NumbersFacts
        <3>3. ASSUME NEW i \in 1 .. Len(l) + 1 PROVE new[i].sn \in ToSet(Numbers(l)) \cup {sn}
            <4>1. CASE i <= place
                <5>1. i \in 1 .. Len(l) /\ new[i] = l[i]
                    BY <3>1, <4>1
                <5> QED BY <1>1, <5>1
            <4>2. CASE i = place + 1
                BY <1>2, <3>1, <4>2
            <4>3. CASE i > place + 1
                <5>1. i - 1 \in 1 .. Len(l) /\ new[i] = l[i - 1]
                    BY <3>1, <4>3
                <5> QED BY <1>1, <5>1
            <4> QED BY <3>1, <4>1, <4>2, <4>3
        <3>4. ASSUME NEW i \in 1 .. Len(l) PROVE l[i].sn \in ToSet(Numbers(new))
            <4>1. CASE i <= place
                <5>1. i \in 1 .. Len(l) + 1 /\ new[i] = l[i]
                    BY <3>1, <4>1
                <5> QED BY <3>2, <5>1
            <4>2. CASE i > place
                <5>1. i + 1 \in 1 .. Len(l) + 1 /\ new[i + 1] = l[i]
                    BY <3>1, <4>2
                <5> QED BY <3>2, <5>1
            <4> QED BY <3>1, <4>1, <4>2
        <3>5. sn \in ToSet(Numbers(new))
            <4>1. place + 1 \in 1 .. Len(l) + 1 /\ new[place + 1] = NewInfo(sn)
                BY <3>1
            <4> QED BY <1>2, <3>2, <4>1
        <3>6. ToSet(Numbers(new)) \subseteq ToSet(Numbers(l)) \cup {sn}
            BY <3>2, <3>3
        <3>7. ToSet(Numbers(l)) \cup {sn} \subseteq ToSet(Numbers(new))
            BY <1>1, <3>4, <3>5
        <3> QED BY <3>1, <3>6, <3>7
    <2> QED BY <2>1, <2>2
<1>5. ASSUME \A i \in 1 .. Len(l) : Distance(l[i].sn, sn) > 0
      PROVE  PutIn(new, Info, l, Len(l), NewInfo(sn))
    <2>1. place = Len(l)
        BY <1>1, <1>5, PlacedLast
    <2>2. place # Duplicate
        BY <2>1 DEF Duplicate
    <2> QED BY <1>3, <2>1, <2>2
<1> QED BY <1>4, <1>5

-----------------------------------------------------------------------------
(* The loop of yang_recvnack_insert *)

\* How many numbers a range has.
Gap(first, last) == IF Distance(first, last) > 0 THEN Distance(first, last) ELSE 0

LEMMA GapType ==
    ASSUME NEW first \in Seqs, NEW last \in Seqs
    PROVE  Gap(first, last) \in Nat /\ 1 .. Distance(first, last) = 1 .. Gap(first, last)
<1>1. Distance(first, last) \in Int
    BY DistanceType
<1> QED BY <1>1 DEF Gap

\* The list after the first k numbers.
LEMMA Inserting ==
    ASSUME NEW infos \in Seq(Info), NEW first \in Seqs, NEW last \in Seqs, now \in Nat
    PROVE  \E a : /\ a[0] = infos
                  /\ \A k \in 1 .. Gap(first, last) :
                        a[k] = Listing(a[k - 1], (first + (k - 1)) % SeqSpace)
                  /\ Inserted(infos, first, last) = a[Gap(first, last)]
<1> DEFINE n == Gap(first, last)
           seq == [k \in 1 .. Distance(first, last) |-> k - 1]
           Sets == SUBSET DOMAIN seq
           Put(l, k) == IF Place(Numbers(l), (first + k) % SeqSpace) = Duplicate THEN l
                        ELSE Spliced(l, Place(Numbers(l), (first + k) % SeqSpace),
                                     NewInfo((first + k) % SeqSpace))
           Iter == CHOOSE it : it = [s \in Sets |->
                       IF s = {} THEN infos ELSE Put(it[s \ {Max(s)}], seq[Max(s)])]
           step == [p \in Seq(Info) \X (1 .. n) |->
                       Listing(p[1], (first + (p[2] - 1)) % SeqSpace)]
           a == [k \in 0 .. n |-> Iter[1 .. k]]
<1>1. Inserted(infos, first, last) = Iter[DOMAIN seq]
    BY DEF Inserted, FoldLeft, MapThenFoldSet
<1>2. /\ n \in Nat /\ DOMAIN seq = 1 .. n /\ Sets = SUBSET (1 .. n)
      /\ \A k \in 1 .. n : seq[k] = k - 1
    BY GapType
<1>3. \A k \in 1 .. n : (first + (k - 1)) % SeqSpace \in Seqs
    <2>1. \A k \in 1 .. n : first + (k - 1) \in Int
        BY <1>2 DEF Seqs
    <2> HIDE DEF n
    <2> QED BY <2>1, Remainder
<1>4. step \in [Seq(Info) \X (1 .. n) -> Seq(Info)]
    <2>1. ASSUME NEW l \in Seq(Info), NEW k \in 1 .. n
          PROVE  Listing(l, (first + (k - 1)) % SeqSpace) \in Seq(Info)
        BY <1>3, ListingFacts
    <2> HIDE DEF n
    <2> QED BY <2>1
<1>5. PICK g : Iterates(g, n, Seq(Info), infos, step)
    <2> HIDE DEF n, Iter, step
    <2> QED BY <1>2, <1>4, Iteration
<1>6. ASSUME NEW s \in SUBSET (1 .. n), s # {}
      PROVE  Max(s) \in 1 .. n /\ seq[Max(s)] = Max(s) - 1
    <2> HIDE DEF n, seq
    <2>1. Max(s) \in 1 .. n
        BY <1>2, <1>6, MaxOf
    <2> QED BY <1>2, <2>1
<1>7. \A l, k : Put(l, k) = Listing(l, (first + k) % SeqSpace)
    BY DEF Listing
<1> HIDE DEF Put, seq, n
<1>8. g = [s \in Sets |-> IF s = {} THEN infos ELSE Put(g[s \ {Max(s)}], seq[Max(s)])]
    <2>1. ASSUME NEW s \in SUBSET (1 .. n), s # {}
          PROVE  g[s] = Put(g[s \ {Max(s)}], seq[Max(s)])
        <3>1. Max(s) \in 1 .. n /\ seq[Max(s)] = Max(s) - 1
            BY <1>6, <2>1
        <3>2. g[s \ {Max(s)}] \in Seq(Info)
            BY <1>5 DEF Iterates
        <3>3. step[<<g[s \ {Max(s)}], Max(s)>>] =
                  Listing(g[s \ {Max(s)}], (first + (Max(s) - 1)) % SeqSpace)
            BY <3>1, <3>2
        <3>4. g[s] = step[<<g[s \ {Max(s)}], Max(s)>>]
            <4> HIDE DEF step
            <4> QED BY <1>5, <2>1 DEF Iterates
        <3> HIDE DEF step
        <3> QED BY <1>7, <3>1, <3>3, <3>4
    <2>2. g \in [Sets -> Seq(Info)] /\ g[{}] = infos
        <3> HIDE DEF step, Sets
        <3> QED BY <1>2, <1>5 DEF Iterates
    <2> HIDE DEF step
    <2> QED BY <1>2, <2>1, <2>2
<1> HIDE DEF step
<1>9. Iter = [s \in Sets |->
                 IF s = {} THEN infos ELSE Put(Iter[s \ {Max(s)}], seq[Max(s)])]
    <2> HIDE DEF Sets
    <2> QED BY <1>8
<1> HIDE DEF Iter
<1>10. a[0] = infos
    <2>1. {} \in Sets /\ 1 .. 0 = {} /\ 0 \in 0 .. n
        BY <1>2
    <2> QED BY <1>9, <2>1
<1>11. ASSUME NEW k \in 1 .. n
       PROVE  a[k] = Listing(a[k - 1], (first + (k - 1)) % SeqSpace)
    <2>1. Max(1 .. k) = k /\ (1 .. k) \ {Max(1 .. k)} = 1 .. k - 1
        BY <1>2, MaxOfPrefix
    <2>2. k \in 1 .. k /\ \A i \in 1 .. k : i \in 1 .. n
        BY <1>2
    <2>3. 1 .. k \in Sets /\ 1 .. k # {}
        BY <1>2, <2>2
    <2>4. k \in 0 .. n /\ k - 1 \in 0 .. n /\ seq[k] = k - 1
        BY <1>2
    <2>5. Iter[1 .. k] = Put(Iter[1 .. k - 1], seq[k])
        <3> HIDE DEF Sets
        <3> QED BY <1>9, <2>1, <2>3
    <2> QED BY <1>7, <2>4, <2>5
<1>12. Inserted(infos, first, last) = a[n]
    <2>1. n \in 0 .. n
        BY <1>2
    <2> QED BY <1>1, <1>2, <2>1
<1> HIDE DEF a
<1> QED BY <1>10, <1>11, <1>12 DEF n

\* The numbers of a range are on the list behind it.
LEMMA InsertedFacts ==
    ASSUME NEW infos \in Seq(Info), NEW first \in Seqs, NEW last \in Seqs, now \in Nat
    PROVE  /\ Inserted(infos, first, last) \in Seq(Info)
           /\ ToSet(Numbers(Inserted(infos, first, last))) =
                 ToSet(Numbers(infos)) \cup
                 {(first + k) % SeqSpace : k \in 0 .. Gap(first, last) - 1}
           /\ Gap(first, last) = 0 => Inserted(infos, first, last) = infos
<1> DEFINE n == Gap(first, last)
           sn(k) == (first + k) % SeqSpace
<1>1. PICK a : /\ a[0] = infos
               /\ \A k \in 1 .. n : a[k] = Listing(a[k - 1], sn(k - 1))
               /\ Inserted(infos, first, last) = a[n]
    BY Inserting
<1>2. n \in Nat /\ \A k \in 0 .. n : sn(k) \in Seqs
    <2>1. n \in Nat
        BY GapType
    <2>2. \A k \in 0 .. n : first + k \in Int
        BY <2>1 DEF Seqs
    <2> HIDE DEF n
    <2> QED BY <2>1, <2>2, Remainder
<1> HIDE DEF n
<1> DEFINE Is(k) == /\ a[k] \in Seq(Info)
                    /\ ToSet(Numbers(a[k])) =
                          ToSet(Numbers(infos)) \cup {sn(i) : i \in 0 .. k - 1}
           S == {k \in 0 .. n : Is(k)}
<1>3. Is(0)
    <2>1. {sn(i) : i \in 0 .. 0 - 1} = {}
        OBVIOUS
    <2> HIDE DEF sn
    <2> QED BY <1>1, <2>1
<1>4. ASSUME NEW k \in 0 .. n - 1, Is(k) PROVE Is(k + 1)
    <2>1. k + 1 \in 1 .. n /\ k + 1 - 1 = k /\ k \in 0 .. n
        BY <1>2
    <2>2. a[k + 1] = Listing(a[k], sn(k)) /\ sn(k) \in Seqs
        BY <1>1, <1>2, <2>1
    <2> HIDE DEF sn
    <2>3. /\ a[k + 1] \in Seq(Info)
          /\ ToSet(Numbers(a[k + 1])) = ToSet(Numbers(a[k])) \cup {sn(k)}
        BY <1>4, <2>2, ListingFacts
    <2>4. {sn(i) : i \in 0 .. k + 1 - 1} = {sn(i) : i \in 0 .. k - 1} \cup {sn(k)}
        <3>1. 0 .. k + 1 - 1 = (0 .. k - 1) \cup {k}
            BY <1>2
        <3> QED BY <3>1
    <2> QED BY <1>4, <2>3, <2>4
<1> HIDE DEF Is
<1>5. n \in S
    <2>1. S \in SUBSET Nat /\ 0 \in S /\ (\A k \in 0 .. n - 1 : k \in S => k + 1 \in S)
          /\ n \in 0 .. n
        BY <1>2, <1>3, <1>4
    <2> HIDE DEF S
    <2> QED BY <1>2, <2>1, Induction
<1>6. Is(n)
    BY <1>5
<1> QED BY <1>1, <1>6 DEF Is, n

\* Numbers newer than all on the list, and than each other, go to its end.
LEMMA InsertedAtEnd ==
    ASSUME NEW infos \in Seq(Info), NEW first \in Seqs, NEW last \in Seqs, now \in Nat,
           \A k \in 0 .. Gap(first, last) - 1 :
              /\ \A i \in 1 .. Len(infos) :
                    Distance(infos[i].sn, (first + k) % SeqSpace) > 0
              /\ \A j \in 0 .. k - 1 :
                    Distance((first + j) % SeqSpace, (first + k) % SeqSpace) > 0
    PROVE  /\ Inserted(infos, first, last) \in Seq(Info)
           /\ Len(Inserted(infos, first, last)) = Len(infos) + Gap(first, last)
           /\ \A i \in 1 .. Len(infos) : Inserted(infos, first, last)[i] = infos[i]
           /\ \A i \in Len(infos) + 1 .. Len(infos) + Gap(first, last) :
                 Inserted(infos, first, last)[i] =
                     NewInfo((first + (i - Len(infos) - 1)) % SeqSpace)
<1> DEFINE n == Gap(first, last)
           m == Len(infos)
           sn(k) == (first + k) % SeqSpace
<1>1. PICK a : /\ a[0] = infos
               /\ \A k \in 1 .. n : a[k] = Listing(a[k - 1], sn(k - 1))
               /\ Inserted(infos, first, last) = a[n]
    BY Inserting
<1>2. n \in Nat /\ m \in Nat /\ \A k \in 0 .. n : sn(k) \in Seqs
    <2>1. n \in Nat
        BY GapType
    <2>2. \A k \in 0 .. n : first + k \in Int
        BY <2>1 DEF Seqs
    <2> HIDE DEF n
    <2> QED BY <2>1, <2>2, Remainder
<1>3. /\ \A k \in 0 .. n - 1 : \A i \in 1 .. m : Distance(infos[i].sn, sn(k)) > 0
      /\ \A k \in 0 .. n - 1 : \A j \in 0 .. k - 1 : Distance(sn(j), sn(k)) > 0
    OBVIOUS
<1> HIDE DEF n, m, sn
<1> DEFINE Is(k) == /\ a[k] \in Seq(Info)
                    /\ Len(a[k]) = m + k
                    /\ \A i \in 1 .. m : a[k][i] = infos[i]
                    /\ \A i \in m + 1 .. m + k : a[k][i] = NewInfo(sn(i - m - 1))
           S == {k \in 0 .. n : Is(k)}
<1>4. Is(0)
    BY <1>1, <1>2 DEF m
<1>5. ASSUME NEW k \in 0 .. n - 1, Is(k) PROVE Is(k + 1)
    <2>1. k + 1 \in 1 .. n /\ k + 1 - 1 = k /\ k \in 0 .. n /\ k \in Nat
        BY <1>2
    <2>2. a[k + 1] = Listing(a[k], sn(k)) /\ sn(k) \in Seqs
        BY <1>1, <1>2, <2>1
    <2>3. ASSUME NEW i \in 1 .. m + k PROVE Distance(a[k][i].sn, sn(k)) > 0
        <3>1. CASE i <= m
            <4>1. i \in 1 .. m
                BY <1>2, <3>1
            <4> QED BY <1>3, <1>5, <4>1
        <3>2. CASE i > m
            <4>1. i \in m + 1 .. m + k /\ i - m - 1 \in 0 .. k - 1
                BY <1>2, <2>1, <3>2
            <4>2. a[k][i].sn = sn(i - m - 1)
                <5>1. a[k][i] = NewInfo(sn(i - m - 1))
                    BY <1>5, <4>1
                <5> QED BY <5>1 DEF NewInfo
            <4> QED BY <1>3, <4>1, <4>2
        <3> QED BY <1>2, <2>1, <3>1, <3>2
    <2>4. PutIn(a[k + 1], Info, a[k], Len(a[k]), NewInfo(sn(k)))
        BY <1>5, <2>2, <2>3, ListingFacts
    <2>5. /\ a[k + 1] \in Seq(Info)
          /\ Len(a[k + 1]) = m + k + 1
          /\ \A i \in 1 .. m + k + 1 :
                a[k + 1][i] = IF i <= m + k THEN a[k][i]
                              ELSE IF i = m + k + 1 THEN NewInfo(sn(k)) ELSE a[k][i - 1]
        BY <1>5, <2>4 DEF PutIn
    <2>6. ASSUME NEW i \in 1 .. m PROVE a[k + 1][i] = infos[i]
        <3>1. i \in 1 .. m + k + 1 /\ i <= m + k
            BY <1>2, <2>1
        <3> QED BY <1>5, <2>5, <3>1
    <2>7. ASSUME NEW i \in m + 1 .. m + (k + 1) PROVE a[k + 1][i] = NewInfo(sn(i - m - 1))
        <3>1. CASE i <= m + k
            <4>1. i \in 1 .. m + k + 1 /\ i \in m + 1 .. m + k
                BY <1>2, <2>1, <3>1
            <4>2. a[k + 1][i] = a[k][i]
                BY <2>5, <3>1, <4>1
            <4> QED BY <1>5, <4>1, <4>2
        <3>2. CASE i > m + k
            <4>1. i = m + k + 1 /\ i \in 1 .. m + k + 1 /\ ~(i <= m + k) /\ i - m - 1 = k
                BY <1>2, <2>1, <3>2
            <4>2. a[k + 1][i] = NewInfo(sn(k))
                BY <2>5, <4>1
            <4> QED BY <4>1, <4>2
        <3> QED BY <1>2, <2>1, <3>1, <3>2
    <2>8. m + (k + 1) = m + k + 1
        BY <1>2, <2>1
    <2> QED BY <2>5, <2>6, <2>7, <2>8
<1> HIDE DEF Is
<1>6. n \in S
    <2>1. S \in SUBSET Nat /\ 0 \in S /\ (\A k \in 0 .. n - 1 : k \in S => k + 1 \in S)
          /\ n \in 0 .. n
        BY <1>2, <1>4, <1>5
    <2> HIDE DEF S
    <2> QED BY <1>2, <2>1, Induction
<1>7. Is(n)
    BY <1>6
<1> QED BY <1>1, <1>7 DEF Is, n, m, sn

\* They keep the list in order.
LEMMA InsertedLast ==
    ASSUME NEW infos \in Seq(Info), NEW first \in Seqs, NEW last \in Seqs, now \in Nat,
           \A k \in 0 .. Gap(first, last) - 1 :
              /\ \A i \in 1 .. Len(infos) :
                    Distance(infos[i].sn, (first + k) % SeqSpace) > 0
              /\ \A j \in 0 .. k - 1 :
                    Distance((first + j) % SeqSpace, (first + k) % SeqSpace) > 0,
           InSeqOrder(Numbers(infos))
    PROVE  InSeqOrder(Numbers(Inserted(infos, first, last)))
<1> DEFINE n == Gap(first, last)
           m == Len(infos)
           sn(k) == (first + k) % SeqSpace
           new == Inserted(infos, first, last)
<1>1. n \in Nat /\ m \in Nat
    BY GapType
<1>2. /\ \A k \in 0 .. n - 1 : \A i \in 1 .. m : Distance(infos[i].sn, sn(k)) > 0
      /\ \A k \in 0 .. n - 1 : \A j \in 0 .. k - 1 : Distance(sn(j), sn(k)) > 0
      /\ \A i, j \in 1 .. m : i < j => Distance(infos[i].sn, infos[j].sn) > 0
    BY NumbersFacts DEF InSeqOrder
<1>3. /\ new \in Seq(Info) /\ Len(new) = m + n
      /\ \A i \in 1 .. m : new[i] = infos[i]
      /\ \A i \in m + 1 .. m + n : new[i] = NewInfo(sn(i - m - 1))
    BY InsertedAtEnd
<1> HIDE DEF n, m, sn, new
<1>4. /\ \A i \in 1 .. m : new[i].sn = infos[i].sn
      /\ \A i \in m + 1 .. m + n : new[i].sn = sn(i - m - 1)
    <2>1. \A x : NewInfo(x).sn = x
        BY DEF NewInfo
    <2> QED BY <1>3, <2>1
<1>5. ASSUME NEW i \in 1 .. m + n, NEW j \in 1 .. m + n, i < j
      PROVE  Distance(new[i].sn, new[j].sn) > 0
    <2>1. CASE j <= m
        <3>1. i \in 1 .. m /\ j \in 1 .. m
            BY <1>1, <1>5, <2>1
        <3> QED BY <1>2, <1>4, <1>5, <3>1
    <2>2. CASE i <= m /\ j > m
        <3>1. i \in 1 .. m /\ j \in m + 1 .. m + n /\ j - m - 1 \in 0 .. n - 1
            BY <1>1, <2>2
        <3> QED BY <1>2, <1>4, <3>1
    <2>3. CASE i > m
        <3>1. /\ i \in m + 1 .. m + n /\ j \in m + 1 .. m + n
              /\ j - m - 1 \in 0 .. n - 1 /\ i - m - 1 \in 0 .. (j - m - 1) - 1
            BY <1>1, <1>5, <2>3
        <3> QED BY <1>2, <1>4, <3>1
    <2> QED BY <1>1, <2>1, <2>2, <2>3
<1>6. InSeqOrder(Numbers(new))
    BY <1>3, <1>5, NumbersFacts DEF InSeqOrder
<1> QED BY <1>6 DEF new

-----------------------------------------------------------------------------
(* The loop of yang_recvnack_get_nack_seqs *)

Bufs  == [begin : Seqs, end : Seqs, contexttialized : BOOLEAN]
Scans == [buf : Bufs, list : Seq(Info), request : Seq(Seqs), at : Nat \ {0}, stop : BOOLEAN]

\* What a scan that began with buffer b and list infos has left: a list of some of the numbers, in
\* their order, and a range that begins where it did or behind a number that was listed.
ScanLeft(b, infos, scan) ==
    /\ scan \in Scans
    /\ scan.buf.end = b.end /\ scan.buf.contexttialized = b.contexttialized
    /\ \/ scan.buf.begin = b.begin
       \/ \E sn \in ToSet(Numbers(infos)) : scan.buf.begin = Next16(sn)
    /\ Len(scan.list) <= Len(infos)
    /\ ToSet(Numbers(scan.list)) \subseteq ToSet(Numbers(infos))
    /\ InSeqOrder(Numbers(infos)) => InSeqOrder(Numbers(scan.list))

\* A list without an element has fewer numbers, in the same order.
LEMMA FewerNumbers ==
    ASSUME NEW infos \in Seq(Info), NEW k \in 1 .. Len(infos)
    PROVE  /\ RemoveAt(infos, k) \in Seq(Info)
           /\ Len(RemoveAt(infos, k)) = Len(infos) - 1
           /\ ToSet(Numbers(RemoveAt(infos, k))) \subseteq ToSet(Numbers(infos))
           /\ InSeqOrder(Numbers(infos)) => InSeqOrder(Numbers(RemoveAt(infos, k)))
           /\ ToSet(Numbers(infos)) \subseteq
                 ToSet(Numbers(RemoveAt(infos, k))) \cup {infos[k].sn}
           /\ InSeqOrder(Numbers(infos)) => infos[k].sn \notin ToSet(Numbers(RemoveAt(infos, k)))
<1> DEFINE new == RemoveAt(infos, k)
           n == Len(infos)
           At(i) == IF i < k THEN i ELSE i + 1
<1>1. /\ n \in Nat /\ new \in Seq(Info) /\ Len(new) = n - 1
      /\ \A i \in 1 .. n - 1 : new[i] = IF i < k THEN infos[i] ELSE infos[i + 1]
    BY RemovedFacts
<1>2. /\ \A i \in 1 .. n - 1 : At(i) \in 1 .. n /\ At(i) # k /\ new[i] = infos[At(i)]
      /\ \A i, j \in 1 .. n - 1 : i < j => At(i) < At(j)
    BY <1>1
<1>3. ASSUME NEW j \in 1 .. n, j # k PROVE \E i \in 1 .. n - 1 : At(i) = j
    <2>1. CASE j < k
        <3>1. j \in 1 .. n - 1 /\ At(j) = j
            BY <1>1, <2>1
        <3> QED BY <3>1
    <2>2. CASE j > k
        <3>1. j - 1 \in 1 .. n - 1 /\ At(j - 1) = j
            BY <1>1, <2>2
        <3> QED BY <3>1
    <2> QED BY <1>1, <1>3, <2>1, <2>2
<1>4. /\ ToSet(Numbers(infos)) = {infos[i].sn : i \in 1 .. n}
      /\ \A i \in 1 .. n : Numbers(infos)[i] = infos[i].sn
      /\ Len(Numbers(infos)) = n
    BY NumbersFacts
<1> HIDE DEF new, n, At
<1>5. /\ ToSet(Numbers(new)) = {new[i].sn : i \in 1 .. n - 1}
      /\ \A i \in 1 .. n - 1 : Numbers(new)[i] = new[i].sn
      /\ Len(Numbers(new)) = n - 1
    BY <1>1, NumbersFacts
<1>6. ToSet(Numbers(new)) \subseteq ToSet(Numbers(infos))
    BY <1>2, <1>4, <1>5
<1>7. ASSUME NEW j \in 1 .. n PROVE infos[j].sn \in ToSet(Numbers(new)) \cup {infos[k].sn}
    <2>1. CASE j = k
        BY <2>1
    <2>2. CASE j # k
        <3>1. PICK i \in 1 .. n - 1 : At(i) = j
            BY <1>3, <2>2
        <3>2. infos[j].sn = new[i].sn
            BY <1>2, <3>1
        <3> QED BY <1>5, <3>2
    <2> QED BY <2>1, <2>2
<1>8. ASSUME InSeqOrder(Numbers(infos))
      PROVE  InSeqOrder(Numbers(new)) /\ infos[k].sn \notin ToSet(Numbers(new))
    <2>1. \A i, j \in 1 .. n : i < j => Distance(infos[i].sn, infos[j].sn) > 0
        BY <1>4, <1>8 DEF InSeqOrder
    <2>2. \A i, j \in 1 .. n - 1 : i < j => Distance(new[i].sn, new[j].sn) > 0
        BY <1>2, <2>1
    <2>3. InSeqOrder(Numbers(new))
        BY <1>5, <2>2 DEF InSeqOrder
    <2>4. ASSUME NEW x \in Seqs PROVE ~(Distance(x, x) > 0)
        <3>1. x - x = 0 /\ 0 % SeqSpace = 0
            BY SeqSpaceOK, TurnedOnce DEF Seqs
        <3> QED BY <3>1, SeqSpaceOK DEF Distance
    <2>5. ASSUME NEW i \in 1 .. n - 1 PROVE new[i].sn # infos[k].sn
        <3>1. At(i) \in 1 .. n /\ At(i) # k /\ new[i] = infos[At(i)] /\ k \in 1 .. n
            BY <1>2 DEF n
        <3>2. infos[k].sn \in Seqs
            BY <3>1, NumbersFacts DEF n
        <3>3. At(i) < k \/ k < At(i)
            BY <1>1, <3>1
        <3> QED BY <2>1, <2>4, <3>1, <3>2, <3>3
    <2> QED BY <1>5, <2>3, <2>5
<1>9. ToSet(Numbers(infos)) \subseteq ToSet(Numbers(new)) \cup {infos[k].sn}
    BY <1>4, <1>7
<1> QED BY <1>1, <1>6, <1>8, <1>9 DEF new, n

\* A list of the same numbers.
LEMMA SameNumbers ==
    ASSUME NEW infos \in Seq(Info), NEW new \in Seq(Info), Len(new) = Len(infos),
           \A i \in 1 .. Len(infos) : new[i].sn = infos[i].sn
    PROVE  Numbers(new) = Numbers(infos)
BY DEF Numbers

\* A number that is asked for stays itself.
LEMMA AskedAgain ==
    ASSUME NEW r \in Info, now \in Nat
    PROVE  LET asked == [r EXCEPT !.req_count = @ + 1, !.pre_req_time = now]
           IN  asked \in Info /\ asked.sn = r.sn
<1> DEFINE a == [r EXCEPT !.req_count = @ + 1]
           b == [a EXCEPT !.pre_req_time = now]
<1>1. a \in Info /\ a.sn = r.sn
    BY DEF Info
<1>2. [r EXCEPT !.req_count = @ + 1, !.pre_req_time = now] = b
    OBVIOUS
<1> HIDE DEF a
<1>3. b \in Info /\ b.sn = a.sn
    BY <1>1 DEF Info
<1> QED BY <1>1, <1>2, <1>3

LEMMA TurnFacts ==
    ASSUME NEW scan \in Scans, NEW ignored, now \in Nat
    PROVE  ScanLeft(scan.buf, scan.list, Turn(scan, ignored))
<1> DEFINE new == Turn(scan, ignored)
           n == Len(scan.list)
           info == scan.list[scan.at]
           place == Place(scan.request, info.sn)
<1> SUFFICES ScanLeft(scan.buf, scan.list, new)
    OBVIOUS
<1>1. /\ scan.buf \in Bufs /\ scan.list \in Seq(Info) /\ scan.request \in Seq(Seqs)
      /\ scan.at \in Nat \ {0} /\ scan.stop \in BOOLEAN /\ n \in Nat
    BY DEF Scans
<1>2. ASSUME new \in Scans, new.buf = scan.buf, Len(new.list) = n,
             Numbers(new.list) = Numbers(scan.list)
      PROVE  ScanLeft(scan.buf, scan.list, new)
    <2> HIDE DEF new
    <2> QED BY <1>1, <1>2 DEF ScanLeft
<1>3. CASE scan.stop \/ scan.at > n
    <2>1. new = scan
        BY <1>3 DEF Turn
    <2> QED BY <1>2, <2>1
<1>4. CASE ~(scan.stop \/ scan.at > n)
    <2>1. scan.at \in 1 .. n
        BY <1>1, <1>4
    <2>2. info \in Info /\ info.sn \in Seqs /\ scan.at + 1 \in Nat \ {0}
        <3>1. info \in Info
            BY <1>1, <2>1
        <3> HIDE DEF info
        <3>2. info.sn \in Seqs
            BY <3>1 DEF Info
        <3> QED BY <1>1, <3>1, <3>2
    <2>3. CASE Expired(info)
        <3>1. new = [scan EXCEPT !.buf = Dropped(@, info.sn),
                                 !.list = RemoveAt(@, scan.at), !.at = @ + 1]
            BY <1>4, <2>3 DEF Turn
        <3>2. /\ RemoveAt(scan.list, scan.at) \in Seq(Info)
              /\ Len(RemoveAt(scan.list, scan.at)) = n - 1
              /\ ToSet(Numbers(RemoveAt(scan.list, scan.at))) \subseteq ToSet(Numbers(scan.list))
              /\ InSeqOrder(Numbers(scan.list)) =>
                    InSeqOrder(Numbers(RemoveAt(scan.list, scan.at)))
            BY <1>1, <2>1, FewerNumbers
        <3>3. Next16(info.sn) \in Seqs
            <4>1. info.sn + 1 \in Int
                BY <2>2 DEF Seqs
            <4> QED BY <4>1, Remainder DEF Next16
        <3>4. /\ Dropped(scan.buf, info.sn) \in Bufs
              /\ Dropped(scan.buf, info.sn).end = scan.buf.end
              /\ Dropped(scan.buf, info.sn).contexttialized = scan.buf.contexttialized
              /\ Dropped(scan.buf, info.sn).begin = Next16(info.sn)
            BY <1>1, <3>3 DEF Dropped, Bufs
        <3>5. info.sn \in ToSet(Numbers(scan.list))
            BY <1>1, <2>1, NumbersFacts
        <3> HIDE DEF new, info
        <3>6. /\ new.buf = Dropped(scan.buf, info.sn)
              /\ new.list = RemoveAt(scan.list, scan.at)
            BY <3>1 DEF Scans
        <3>7. new \in Scans
            BY <1>1, <2>2, <3>1, <3>2, <3>4 DEF Scans
        <3>8. Len(new.list) <= n
            BY <1>1, <3>2, <3>6
        <3>9. /\ new.buf.end = scan.buf.end
              /\ new.buf.contexttialized = scan.buf.contexttialized
              /\ \E sn \in ToSet(Numbers(scan.list)) : new.buf.begin = Next16(sn)
            BY <3>4, <3>5, <3>6
        <3>10. /\ ToSet(Numbers(new.list)) \subseteq ToSet(Numbers(scan.list))
               /\ InSeqOrder(Numbers(scan.list)) => InSeqOrder(Numbers(new.list))
            BY <3>2, <3>6
        <3> HIDE DEF n
        <3> QED BY <3>7, <3>8, <3>9, <3>10 DEF ScanLeft, n
    <2>4. CASE ~Expired(info) /\ now - info.generate_time < FirstInterval
        <3>1. new = [scan EXCEPT !.stop = TRUE]
            BY <1>4, <2>4 DEF Turn
        <3> HIDE DEF new
        <3>2. new \in Scans /\ new.buf = scan.buf /\ new.list = scan.list /\ Len(new.list) = n
            BY <3>1 DEF Scans
        <3> QED BY <1>2, <3>2
    <2>5. CASE /\ ~Expired(info) /\ ~(now - info.generate_time < FirstInterval)
               /\ now - info.pre_req_time >= RequestGap
        <3> DEFINE asked == [info EXCEPT !.req_count = @ + 1, !.pre_req_time = now]
                   more == IF place = Duplicate THEN scan.request
                           ELSE Spliced(scan.request, place, info.sn)
                   next == [scan.list EXCEPT ![scan.at] = asked]
        <3>1. new = [scan EXCEPT !.list[scan.at].req_count = @ + 1,
                                 !.list[scan.at].pre_req_time = now,
                                 !.request = IF place = Duplicate THEN @
                                             ELSE Spliced(@, place, info.sn),
                                 !.at = @ + 1]
            BY <1>4, <2>5 DEF Turn
        <3>2. asked \in Info /\ asked.sn = info.sn
            <4> HIDE DEF info
            <4> QED BY <2>2, AskedAgain
        <3>3. more \in Seq(Seqs)
            <4>1. more = Added(scan.request, info.sn)
                BY DEF Added
            <4> QED BY <1>1, <2>2, <4>1, AddedFacts
        <3>4. new = [scan EXCEPT !.list = next, !.request = more, !.at = @ + 1]
            <4>1. [scan.list EXCEPT ![scan.at].req_count = @ + 1,
                                    ![scan.at].pre_req_time = now] = next
                BY <1>1, <2>1
            <4> HIDE DEF info
            <4> QED BY <3>1, <4>1
        <3> HIDE DEF asked, more, info, new
        <3>5. next \in Seq(Info) /\ Len(next) = n
            BY <1>1, <2>1, <3>2
        <3>6. \A i \in 1 .. n : next[i].sn = scan.list[i].sn
            BY <1>1, <2>1, <3>2 DEF info
        <3>7. Numbers(next) = Numbers(scan.list)
            BY <1>1, <3>5, <3>6, SameNumbers
        <3> HIDE DEF next
        <3>8. new \in Scans /\ new.buf = scan.buf /\ new.list = next
            BY <1>1, <2>2, <3>3, <3>4, <3>5 DEF Scans
        <3>9. Len(new.list) = n /\ Numbers(new.list) = Numbers(scan.list)
            BY <3>5, <3>7, <3>8
        <3> QED BY <1>2, <3>8, <3>9
    <2>6. CASE /\ ~Expired(info) /\ ~(now - info.generate_time < FirstInterval)
               /\ ~(now - info.pre_req_time >= RequestGap)
        <3>1. new = [scan EXCEPT !.at = @ + 1]
            BY <1>4, <2>6 DEF Turn
        <3> HIDE DEF new
        <3>2. new \in Scans /\ new.buf = scan.buf /\ new.list = scan.list /\ Len(new.list) = n
            BY <2>2, <3>1 DEF Scans
        <3> QED BY <1>2, <3>2
    <2> QED BY <2>3, <2>4, <2>5, <2>6
<1> QED BY <1>3, <1>4

\* Where the loop starts.
Begun(b, infos) ==
    [buf |-> b, list |-> infos, request |-> <<>>, at |-> 1, stop |-> FALSE]

LEMMA Turning ==
    ASSUME NEW b \in Bufs, NEW infos \in Seq(Info), now \in Nat
    PROVE  \E a : /\ a[0] = Begun(b, infos)
                  /\ \A k \in 1 .. Len(infos) : a[k] = Turn(a[k - 1], k)
                  /\ GetNackSeqs(b, infos) = a[Len(infos)]
<1> DEFINE n == Len(infos)
           start == Begun(b, infos)
           seq == [i \in 1 .. n |-> i]
           Sets == SUBSET DOMAIN seq
           Iter == CHOOSE it : it = [s \in Sets |->
                       IF s = {} THEN start ELSE Turn(it[s \ {Max(s)}], seq[Max(s)])]
           step == [p \in Scans \X (1 .. n) |-> Turn(p[1], p[2])]
           a == [k \in 0 .. n |-> Iter[1 .. k]]
<1>1. GetNackSeqs(b, infos) = Iter[DOMAIN seq]
    BY DEF GetNackSeqs, Begun, FoldLeft, MapThenFoldSet
<1>2. /\ n \in Nat /\ DOMAIN seq = 1 .. n /\ Sets = SUBSET (1 .. n)
      /\ \A k \in 1 .. n : seq[k] = k
    OBVIOUS
<1>3. start \in Scans
    BY DEF Begun, Scans
<1>4. step \in [Scans \X (1 .. n) -> Scans]
    <2>1. ASSUME NEW scan \in Scans, NEW k \in 1 .. n PROVE Turn(scan, k) \in Scans
        BY TurnFacts DEF ScanLeft
    <2> HIDE DEF n
    <2> QED BY <2>1
<1>5. PICK g : Iterates(g, n, Scans, start, step)
    <2> HIDE DEF n, Iter, step, start
    <2> QED BY <1>2, <1>3, <1>4, Iteration
<1>6. ASSUME NEW s \in SUBSET (1 .. n), s # {}
      PROVE  Max(s) \in 1 .. n /\ seq[Max(s)] = Max(s)
    <2> HIDE DEF n, seq
    <2>1. Max(s) \in 1 .. n
        BY <1>2, <1>6, MaxOf
    <2> QED BY <1>2, <2>1
<1> HIDE DEF seq, n, start
<1>7. g = [s \in Sets |-> IF s = {} THEN start ELSE Turn(g[s \ {Max(s)}], seq[Max(s)])]
    <2>1. ASSUME NEW s \in SUBSET (1 .. n), s # {}
          PROVE  g[s] = Turn(g[s \ {Max(s)}], seq[Max(s)])
        <3>1. Max(s) \in 1 .. n /\ seq[Max(s)] = Max(s)
            BY <1>6, <2>1
        <3>2. g[s \ {Max(s)}] \in Scans
            BY <1>5 DEF Iterates
        <3>3. step[<<g[s \ {Max(s)}], Max(s)>>] = Turn(g[s \ {Max(s)}], Max(s))
            BY <3>1, <3>2
        <3>4. g[s] = step[<<g[s \ {Max(s)}], Max(s)>>]
            <4> HIDE DEF step
            <4> QED BY <1>5, <2>1 DEF Iterates
        <3> HIDE DEF step
        <3> QED BY <3>1, <3>3, <3>4
    <2>2. g \in [Sets -> Scans] /\ g[{}] = start
        <3> HIDE DEF step, Sets
        <3> QED BY <1>2, <1>5 DEF Iterates
    <2> HIDE DEF step
    <2> QED BY <1>2, <2>1, <2>2
<1> HIDE DEF step
<1>8. Iter = [s \in Sets |->
                 IF s = {} THEN start ELSE Turn(Iter[s \ {Max(s)}], seq[Max(s)])]
    <2> HIDE DEF Sets
    <2> QED BY <1>7
<1> HIDE DEF Iter
<1>9. a[0] = start
    <2>1. {} \in Sets /\ 1 .. 0 = {} /\ 0 \in 0 .. n
        BY <1>2
    <2> QED BY <1>8, <2>1
<1>10. ASSUME NEW k \in 1 .. n PROVE a[k] = Turn(a[k - 1], k)
    <2>1. Max(1 .. k) = k /\ (1 .. k) \ {Max(1 .. k)} = 1 .. k - 1
        BY <1>2, MaxOfPrefix
    <2>2. k \in 1 .. k /\ \A i \in 1 .. k : i \in 1 .. n
        BY <1>2
    <2>3. 1 .. k \in Sets /\ 1 .. k # {}
        BY <1>2, <2>2
    <2>4. k \in 0 .. n /\ k - 1 \in 0 .. n /\ seq[k] = k
        BY <1>2
    <2>5. Iter[1 .. k] = Turn(Iter[1 .. k - 1], seq[k])
        <3> HIDE DEF Sets
        <3> QED BY <1>8, <2>1, <2>3
    <2> QED BY <2>4, <2>5
<1>11. GetNackSeqs(b, infos) = a[n]
    <2>1. n \in 0 .. n
        BY <1>2
    <2> QED BY <1>1, <1>2, <2>1
<1> HIDE DEF a
<1> QED BY <1>9, <1>10, <1>11 DEF n, start

LEMMA GetFacts ==
    ASSUME NEW b \in Bufs, NEW infos \in Seq(Info), now \in Nat
    PROVE  ScanLeft(b, infos, GetNackSeqs(b, infos))
<1> DEFINE n == Len(infos)
<1>1. PICK a : /\ a[0] = Begun(b, infos)
               /\ \A k \in 1 .. n : a[k] = Turn(a[k - 1], k)
               /\ GetNackSeqs(b, infos) = a[n]
    BY Turning
<1>2. n \in Nat
    OBVIOUS
<1> DEFINE Is(k) == ScanLeft(b, infos, a[k])
           S == {k \in 0 .. n : Is(k)}
<1>3. Is(0)
    <2>1. Begun(b, infos) \in Scans
        BY DEF Begun, Scans
    <2> QED BY <1>1, <2>1 DEF ScanLeft, Begun
<1>4. ASSUME NEW k \in 0 .. n - 1, Is(k) PROVE Is(k + 1)
    <2>1. k + 1 \in 1 .. n /\ k + 1 - 1 = k
        BY <1>2
    <2>2. a[k + 1] = Turn(a[k], k + 1)
        BY <1>1, <2>1
    <2> DEFINE old == a[k]
               new == a[k + 1]
    <2>3. ScanLeft(old.buf, old.list, new) /\ ScanLeft(b, infos, old) /\ old \in Scans
        <3>1. old \in Scans
            BY <1>4 DEF ScanLeft
        <3> QED BY <1>4, <2>2, <3>1, TurnFacts
    <2> HIDE DEF old, new, n
    <2>4. old.list \in Seq(Info) /\ new.list \in Seq(Info)
        BY <2>3 DEF ScanLeft, Scans
    <2>5. Len(new.list) <= Len(infos)
        BY <2>3, <2>4 DEF ScanLeft
    <2>6. \/ new.buf.begin = b.begin
          \/ \E sn \in ToSet(Numbers(infos)) : new.buf.begin = Next16(sn)
        BY <2>3 DEF ScanLeft
    <2>7. ScanLeft(b, infos, new)
        BY <2>3, <2>5, <2>6 DEF ScanLeft
    <2> QED BY <2>7 DEF new
<1> HIDE DEF Is, n
<1>5. n \in S
    <2>1. S \in SUBSET Nat /\ 0 \in S /\ (\A k \in 0 .. n - 1 : k \in S => k + 1 \in S)
          /\ n \in 0 .. n
        BY <1>2, <1>3, <1>4
    <2> HIDE DEF S
    <2> QED BY <1>2, <2>1, Induction
<1> QED BY <1>1, <1>5 DEF Is

-----------------------------------------------------------------------------
(* The types *)

\* What yang_check_send_nacks leaves of a buffer and a list.
CheckLeft(b, infos) ==
    /\ buf' \in Bufs /\ list' \in Seq(Info) /\ request' \in Seq(Seqs) /\ preCheck' \in Nat
    /\ buf'.end = b.end /\ buf'.contexttialized = b.contexttialized
    /\ \/ buf'.begin = b.begin
       \/ \E sn \in ToSet(Numbers(infos)) : buf'.begin = Next16(sn)
    /\ Len(list') <= Len(infos)
    /\ ToSet(Numbers(list')) \subseteq ToSet(Numbers(infos))
    /\ InSeqOrder(Numbers(infos)) => InSeqOrder(Numbers(list'))

LEMMA CheckFacts ==
    ASSUME NEW b \in Bufs, NEW infos \in Seq(Info), now \in Nat, preCheck \in Nat,
           CheckSendNacks(b, infos)
    PROVE  CheckLeft(b, infos) /\ (infos = <<>> => buf' = b /\ list' = <<>>)
<1>1. CASE infos # <<>> /\ now - preCheck >= CheckInterval
    <2> DEFINE scan == GetNackSeqs(b, infos)
    <2>1. /\ buf' = scan.buf /\ list' = scan.list /\ request' = scan.request /\ preCheck' = now
        BY <1>1 DEF CheckSendNacks
    <2>2. ScanLeft(b, infos, scan)
        BY GetFacts
    <2> HIDE DEF scan
    <2>3. scan.buf \in Bufs /\ scan.list \in Seq(Info) /\ scan.request \in Seq(Seqs)
        BY <2>2 DEF ScanLeft, Scans
    <2> QED BY <1>1, <2>1, <2>2, <2>3 DEF ScanLeft, CheckLeft
<1>2. CASE ~(infos # <<>> /\ now - preCheck >= CheckInterval)
    <2>1. buf' = b /\ list' = infos /\ request' = <<>> /\ preCheck' = preCheck
        BY <1>2 DEF CheckSendNacks
    <2> QED BY <2>1 DEF CheckLeft
<1> QED BY <1>1, <1>2

\* A buffer stays one when one of its fields changes.
LEMMA SetBegin ==
    ASSUME NEW r \in Bufs, NEW x \in Seqs, NEW b, b = [r EXCEPT !.begin = x]
    PROVE  b \in Bufs /\ b.begin = x /\ b.end = r.end /\ b.contexttialized = r.contexttialized
BY DEF Bufs

LEMMA SetEnd ==
    ASSUME NEW r \in Bufs, NEW x \in Seqs, NEW b, b = [r EXCEPT !.end = x]
    PROVE  b \in Bufs /\ b.end = x /\ b.begin = r.begin /\ b.contexttialized = r.contexttialized
BY DEF Bufs

LEMMA SetContext ==
    ASSUME NEW r \in Bufs, NEW c \in BOOLEAN, NEW b, b = [r EXCEPT !.contexttialized = c]
    PROVE  b \in Bufs /\ b.contexttialized = c /\ b.begin = r.begin /\ b.end = r.end
BY DEF Bufs

LEMMA FlushedFacts ==
    ASSUME NEW r \in Bufs
    PROVE  Flushed(r) \in Bufs /\ ~Flushed(r).contexttialized
<1> DEFINE r1 == [r EXCEPT !.begin = 0]
           r2 == [r1 EXCEPT !.end = 0]
           r3 == [r2 EXCEPT !.contexttialized = FALSE]
<1>1. Flushed(r) = r3
    BY DEF Flushed
<1>2. 0 \in Seqs
    BY SeqSpaceOK DEF Seqs
<1>3. r1 \in Bufs
    BY <1>2, SetBegin
<1> HIDE DEF r1
<1>4. r2 \in Bufs
    BY <1>2, <1>3, SetEnd
<1> HIDE DEF r2
<1>5. r3 \in Bufs /\ r3.contexttialized = FALSE
    BY <1>4, SetContext
<1> QED BY <1>1, <1>5

\* The range of numbers to list, and the buffer behind it.
Updated(seq, up) ==
    /\ up.buf \in Bufs /\ up.first \in Seqs /\ up.last \in Seqs
    /\ up.buf.contexttialized
    /\ ~buf.contexttialized =>
          /\ up.first = 0 /\ up.last = 0
          /\ up.buf.begin = seq /\ up.buf.end = Next16(seq)
    /\ buf.contexttialized /\ Distance(buf.end, seq) >= 0 =>
          /\ up.first = buf.end /\ up.last = seq
          /\ up.buf.begin = buf.begin /\ up.buf.end = Next16(seq)
    /\ buf.contexttialized /\ Distance(buf.end, seq) < 0 =>
          /\ up.buf.end = buf.end
          /\ Distance(seq, buf.begin) > 0 =>
                up.first = seq /\ up.last = buf.begin /\ up.buf.begin = seq
          /\ ~(Distance(seq, buf.begin) > 0) =>
                up.first = 0 /\ up.last = 0 /\ up.buf = buf

LEMMA Update2Facts ==
    ASSUME NEW seq \in Seqs, buf \in Bufs
    PROVE  Updated(seq, Update2(seq))
<1> DEFINE up == Update2(seq)
<1> SUFFICES Updated(seq, up)
    OBVIOUS
<1>1. 0 \in Seqs
    BY SeqSpaceOK DEF Seqs
<1>2. Next16(seq) \in Seqs
    <2>1. seq + 1 \in Int
        BY DEF Seqs
    <2> QED BY <2>1, Remainder DEF Next16
<1>3. /\ buf.begin \in Seqs /\ buf.end \in Seqs /\ buf.contexttialized \in BOOLEAN
      /\ Distance(buf.end, seq) \in Int
    BY DistanceType DEF Bufs
<1>4. CASE ~buf.contexttialized
    <2> DEFINE b1 == [buf EXCEPT !.contexttialized = TRUE]
               b2 == [b1 EXCEPT !.begin = seq]
               b3 == [b2 EXCEPT !.end = Next16(seq)]
    <2>1. up = [buf |-> b3, first |-> 0, last |-> 0]
        BY <1>4 DEF Update2
    <2>2. b1 \in Bufs /\ b1.contexttialized = TRUE
        BY SetContext
    <2> HIDE DEF up, b1
    <2>3. b2 \in Bufs /\ b2.contexttialized = TRUE /\ b2.begin = seq
        BY <2>2, SetBegin
    <2> HIDE DEF b2
    <2>4. b3 \in Bufs /\ b3.contexttialized = TRUE /\ b3.begin = seq /\ b3.end = Next16(seq)
        BY <1>2, <2>3, SetEnd
    <2> HIDE DEF b3
    <2> QED BY <1>1, <1>4, <2>1, <2>4 DEF Updated
<1>5. CASE buf.contexttialized /\ Distance(buf.end, seq) >= 0
    <2> DEFINE b == [buf EXCEPT !.end = Next16(seq)]
    <2>1. ~(Distance(buf.end, seq) < 0)
        BY <1>3, <1>5
    <2>2. up = [buf |-> b, first |-> buf.end, last |-> seq]
        BY <1>5, <2>1 DEF Update2
    <2>3. /\ b \in Bufs /\ b.begin = buf.begin /\ b.end = Next16(seq)
          /\ b.contexttialized = buf.contexttialized
        BY <1>2, SetEnd
    <2> HIDE DEF up, b
    <2> QED BY <1>3, <1>5, <2>1, <2>2, <2>3 DEF Updated
<1>6. CASE /\ buf.contexttialized
           /\ Distance(buf.end, seq) < 0 /\ Distance(seq, buf.begin) > 0
    <2> DEFINE b == [buf EXCEPT !.begin = seq]
    <2>1. ~(Distance(buf.end, seq) >= 0)
        BY <1>3, <1>6
    <2>2. up = [buf |-> b, first |-> seq, last |-> buf.begin]
        BY <1>6, <2>1 DEF Update2
    <2>3. /\ b \in Bufs /\ b.begin = seq /\ b.end = buf.end
          /\ b.contexttialized = buf.contexttialized
        BY SetBegin
    <2> HIDE DEF up, b
    <2>4. up.buf = b /\ up.first = seq /\ up.last = buf.begin
        BY <2>2
    <2> QED BY <1>3, <1>6, <2>1, <2>3, <2>4 DEF Updated
<1>7. CASE /\ buf.contexttialized /\ ~(Distance(buf.end, seq) >= 0)
           /\ ~(Distance(seq, buf.begin) > 0)
    <2>1. up = [buf |-> buf, first |-> 0, last |-> 0]
        BY <1>7 DEF Update2
    <2> HIDE DEF up
    <2> QED BY <1>1, <1>7, <2>1 DEF Updated
<1> HIDE DEF up
<1>8. \/ Distance(buf.end, seq) >= 0
      \/ Distance(buf.end, seq) < 0 /\ ~(Distance(buf.end, seq) >= 0)
    BY <1>3
<1> QED BY <1>4, <1>5, <1>6, <1>7, <1>8

\* The element that OnListed takes off the list.
Found(n) ==
    CHOOSE k \in 1 .. Len(list) :
        /\ list[k].sn = SeqNum(n)
        /\ \A j \in 1 .. k - 1 : list[j].sn # SeqNum(n)

LEMMA FoundFacts ==
    ASSUME NEW n, list \in Seq(Info), SeqNum(n) \in Listed
    PROVE  Found(n) \in 1 .. Len(list) /\ list[Found(n)].sn = SeqNum(n)
<1> DEFINE T == {k \in 1 .. Len(list) : list[k].sn = SeqNum(n)}
<1>1. T \in SUBSET Nat /\ T # {}
    BY NumbersFacts DEF Listed
<1> HIDE DEF T
<1>2. PICK k \in T : \A j \in T : k <= j
    BY <1>1, Least
<1>3. \A j \in 1 .. k - 1 : list[j].sn # SeqNum(n)
    <2> SUFFICES ASSUME NEW j \in 1 .. k - 1, list[j].sn = SeqNum(n) PROVE FALSE
        OBVIOUS
    <2>1. k \in 1 .. Len(list)
        BY DEF T
    <2>2. j \in T
        BY <2>1 DEF T
    <2> QED BY <1>2, <2>1, <2>2
<1>4. k \in 1 .. Len(list) /\ list[k].sn = SeqNum(n)
    BY DEF T
<1> QED BY <1>3, <1>4 DEF Found

\* What a packet that is listed does to the list.
LEMMA OnListedFacts ==
    ASSUME NEW n, list \in Seq(Info), OnListed(n)
    PROVE  /\ SeqNum(n) \in Listed
           /\ list' \in Seq(Info) /\ Len(list') = Len(list) - 1
           /\ Listed' \subseteq Listed /\ Listed \subseteq Listed' \cup {SeqNum(n)}
           /\ InSeqOrder(Numbers(list)) =>
                 InSeqOrder(Numbers(list')) /\ SeqNum(n) \notin Listed'
           /\ request' = <<>>
           /\ UNCHANGED <<buf, preCheck, gone, base>>
<1>1. /\ SeqNum(n) \in Listed
      /\ list' = RemoveAt(list, Found(n))
      /\ request' = <<>>
      /\ UNCHANGED <<buf, preCheck, gone, base>>
    BY DEF OnListed, Found
<1>2. Found(n) \in 1 .. Len(list) /\ list[Found(n)].sn = SeqNum(n)
    BY <1>1, FoundFacts
<1> QED BY <1>1, <1>2, FewerNumbers DEF Listed

LEMMA RecvTypesInit == Init => TypeOK
BY ConstantsOK, SeqSpaceOK DEF Init, TypeOK, Bigger, Seqs

LEMMA RecvTypesStep == TypeOK /\ [Next]_vars => TypeOK'
<1> SUFFICES ASSUME TypeOK, [Next]_vars PROVE TypeOK'
    OBVIOUS
<1>1. /\ buf \in Bufs /\ list \in Seq(Info) /\ Len(list) < Bigger(MaxQueueSize, 1)
      /\ request \in Seq(Seqs) /\ preCheck \in Nat /\ nackInterval \in Nat /\ now \in Nat
      /\ base \in Nat /\ received \subseteq 1 .. MaxNumber /\ gone \subseteq Seqs
    BY DEF TypeOK, Bufs
<1>2. Info' = Info
    BY DEF Info
<1>3. MaxQueueSize \in Nat /\ MaxInterval \in Nat /\ Rtts \subseteq Nat /\ MaxNumber \in Nat
    BY ConstantsOK
<1>4. ASSUME NEW n \in 1 .. MaxNumber, OnNack(n) PROVE TypeOK'
    <2>1. /\ received' = received \cup {n} /\ received' \subseteq 1 .. MaxNumber
          /\ now' = now /\ nackInterval' = nackInterval
        BY <1>1, <1>4 DEF OnNack
    <2>2. CASE OnListed(n)
        <3>1. /\ list' \in Seq(Info) /\ Len(list') = Len(list) - 1 /\ request' = <<>>
              /\ UNCHANGED <<buf, preCheck, gone, base>>
            BY <1>1, <2>2, OnListedFacts
        <3>2. Len(list') < Bigger(MaxQueueSize, 1)
            BY <1>1, <1>3, <3>1 DEF Bigger
        <3> QED BY <1>1, <2>1, <3>1, <3>2 DEF TypeOK, Bufs
    <2>3. CASE OnUnlisted(n)
        <3> DEFINE up    == Update2(SeqNum(n))
                   more  == Inserted(list, up.first, up.last)
                   full  == Distance(up.first, up.last) > 0 /\ Len(more) >= MaxQueueSize
                   infos == IF full THEN <<>> ELSE more
                   b     == IF full THEN Flushed(up.buf) ELSE up.buf
        <3>1. /\ CheckSendNacks(b, infos)
              /\ gone' = gone \cup GivenUp(infos, list')
              /\ base' = IF ~buf.contexttialized \/ n < base THEN n ELSE base
            BY <2>3 DEF OnUnlisted
        <3>2. up.buf \in Bufs /\ up.first \in Seqs /\ up.last \in Seqs
            <4>1. SeqNum(n) \in Seqs
                BY SeqNumFacts
            <4> QED BY <1>1, <4>1, Update2Facts DEF Updated
        <3> HIDE DEF up
        <3>3. Flushed(up.buf) \in Bufs
            BY <3>2, FlushedFacts
        <3>4. more \in Seq(Info) /\ (Gap(up.first, up.last) = 0 => more = list)
            BY <1>1, <3>2, InsertedFacts
        <3> HIDE DEF more
        <3>5. infos \in Seq(Info) /\ Len(infos) < Bigger(MaxQueueSize, 1)
            <4>1. CASE full
                <5>1. infos = <<>>
                    BY <4>1
                <5>2. Len(infos) = 0 /\ infos \in Seq(Info)
                    <6> HIDE DEF infos
                    <6> QED BY <5>1
                <5> HIDE DEF infos
                <5> QED BY <1>3, <5>2 DEF Bigger
            <4>2. CASE ~full /\ Distance(up.first, up.last) > 0
                <5>1. infos = more /\ Len(more) \in Nat /\ ~(Len(more) >= MaxQueueSize)
                    BY <3>4, <4>2
                <5> QED BY <1>3, <3>4, <5>1 DEF Bigger
            <4>3. CASE ~full /\ ~(Distance(up.first, up.last) > 0)
                <5>1. infos = list
                    BY <3>4, <4>3 DEF Gap
                <5> QED BY <1>1, <5>1
            <4> QED BY <4>1, <4>2, <4>3
        <3>6. b \in Bufs
            BY <3>2, <3>3
        <3> HIDE DEF b, infos, full
        <3>7. CheckLeft(b, infos)
            BY <1>1, <3>1, <3>5, <3>6, CheckFacts
        <3>8. Len(list') < Bigger(MaxQueueSize, 1)
            <4>1. Len(list') <= Len(infos) /\ Len(list') \in Nat /\ Len(infos) \in Nat
                BY <3>5, <3>7 DEF CheckLeft
            <4>2. Bigger(MaxQueueSize, 1) \in Nat
                BY <1>3 DEF Bigger
            <4> QED BY <3>5, <4>1, <4>2
        <3>9. gone' \subseteq Seqs
            BY <1>1, <3>1, <3>5, NumbersFacts DEF GivenUp
        <3>10. base' \in Nat
            BY <1>1, <3>1
        <3> QED BY <1>1, <2>1, <3>7, <3>8, <3>9, <3>10 DEF CheckLeft, TypeOK, Bufs
    <2> QED BY <1>4, <2>2, <2>3 DEF OnNack
<1>5. CASE Arrive
    BY <1>4, <1>5 DEF Arrive
<1>6. CASE UpdateRtt
    <2>1. PICK rtt \in Rtts :
             nackInterval' = Smaller(MaxInterval,
                                     IF rtt > nackInterval
                                     THEN (8 * nackInterval + 2 * rtt) \div 10
                                     ELSE rtt)
        BY <1>6 DEF UpdateRtt
    <2>2. (8 * nackInterval + 2 * rtt) \div 10 \in Nat /\ rtt \in Nat
        BY <1>1, <1>3
    <2>3. nackInterval' \in Nat
        BY <1>3, <2>1, <2>2 DEF Smaller
    <2> QED BY <1>1, <1>6, <2>3 DEF UpdateRtt, TypeOK, Bufs
<1>7. CASE Tick
    <2>1. now' \in Nat
        BY <1>1, <1>7 DEF Tick
    <2> QED BY <1>1, <1>7, <2>1 DEF Tick, TypeOK, Bufs
<1>8. CASE UNCHANGED vars
    BY <1>1, <1>8 DEF vars, TypeOK, Bufs
<1> QED BY <1>5, <1>6, <1>7, <1>8 DEF Next

\* The list never holds max_queue_size numbers, and list, timers and the request are what the
\* code declares, for every way in which packets are lost, repeated and reordered.
THEOREM ListTypesHold == Spec => []TypeOK
BY RecvTypesInit, RecvTypesStep, PTL DEF Spec

-----------------------------------------------------------------------------
(* The invariant *)

\* The stream is shorter than half a turn of the numbers.
Short == 2 * MaxNumber <= SeqSpace

\* A packet that arrives is less than half a turn away from the newest that the buffer has seen.
Near == Short \/ 4 * Reorder <= SeqSpace

\* A number newer than all that were seen comes less than half a turn after every one listed.
Timely(n) ==
    buf.contexttialized /\ Distance(buf.end, SeqNum(n)) >= 0 =>
        \A sn \in Listed : Distance(sn, SeqNum(n)) > 0
InTime == \A n \in 1 .. MaxNumber : OnNack(n) => Timely(n)

\* No packet can have come before the oldest: what the buffer begins with is of this turn.
Recent == Short \/ \A m \in received : m < base + Reorder

\* The receiver has seen numbers up to E: each is accounted for, and is less than half a turn old
\* as long as it is on the list. What is on the list, and what the buffer begins with, are numbers
\* from base to E.
Known(E) ==
    /\ buf.end = SeqNum(E + 1)
    /\ base \in 1 .. E
    /\ \A m \in received : m - E <= Reorder
    /\ \A n \in base .. E :
          \/ n \in received
          \/ SeqNum(n) \in gone
          \/ SeqNum(n) \in Listed /\ 2 * (E - n) < SeqSpace
    /\ Recent =>
          /\ \E B \in base .. E : buf.begin = SeqNum(B)
          /\ \A sn \in Listed : \E m \in base .. E - 1 : sn = SeqNum(m)

RecvInv ==
    /\ ~buf.contexttialized => list = <<>>
    /\ buf.contexttialized => \E E \in received : Known(E)

\* A packet that arrives, as Arrive has it.
Delivered(n) ==
    /\ n \in 1 .. MaxNumber
    /\ n >= Newest - Reorder /\ n <= Newest + Reorder
    /\ OnNack(n)

LEMMA NewestFacts ==
    ASSUME TypeOK
    PROVE  /\ received = {} => Newest = 0
           /\ received # {} => Newest \in received
           /\ \A m \in received : m <= Newest
           /\ \A m \in received : m \in Nat /\ Newest \in received /\ Newest \in Nat
           /\ received \subseteq 1 .. MaxNumber /\ MaxNumber \in Nat
<1>1. received \in SUBSET (1 .. MaxNumber) /\ MaxNumber \in Nat
    BY ConstantsOK DEF TypeOK
<1>2. CASE received = {}
    BY <1>1, <1>2 DEF Newest
<1>3. CASE received # {}
    <2>1. \E n \in received : \A m \in received : m <= n
        BY <1>1, <1>3, MaxOf
    <2>2. Newest = CHOOSE n \in received : \A m \in received : m <= n
        BY <1>3 DEF Newest
    <2>3. Newest \in received /\ \A m \in received : m <= Newest
        BY <2>1, <2>2
    <2>4. Newest \in Nat /\ \A m \in received : m \in Nat
        BY <1>1, <2>3
    <2> QED BY <1>1, <1>3, <2>3, <2>4
<1> QED BY <1>2, <1>3

\* Half a turn, and how near a packet arrives.
LEMMA Half ==
    \E h \in Nat \ {0} : SeqSpace = 2 * h /\ SeqSpace \div 2 = h
<1>1. SeqSpace \in Nat \ {0} /\ SeqSpace % 2 = 0
    BY SeqSpaceOK
<1>2. SeqSpace = 2 * (SeqSpace \div 2) /\ SeqSpace \div 2 \in Nat \ {0}
    BY <1>1
<1> QED BY <1>2

LEMMA ArrivesNear ==
    ASSUME Near, TypeOK, NEW E \in received, \A m \in received : m - E <= Reorder,
           NEW n \in 1 .. MaxNumber, n >= Newest - Reorder, n <= Newest + Reorder
    PROVE  /\ E \in Nat \ {0}
           /\ -SeqSpace <= 2 * (n - (E + 1)) /\ 2 * (n - (E + 1)) < SeqSpace
           /\ Distance(SeqNum(E + 1), SeqNum(n)) = n - (E + 1)
           /\ n >= E - Reorder
<1>1. PICK h \in Nat \ {0} : SeqSpace = 2 * h
    BY Half
<1>2. /\ Newest \in received /\ E <= Newest /\ received \subseteq 1 .. MaxNumber
      /\ MaxNumber \in Nat /\ Reorder \in Nat
    BY NewestFacts, ConstantsOK
<1>3. Newest \in 1 .. MaxNumber /\ E \in 1 .. MaxNumber /\ Newest - E <= Reorder
    BY <1>2
<1>4. -SeqSpace <= 2 * (n - (E + 1)) /\ 2 * (n - (E + 1)) < SeqSpace
    BY <1>1, <1>2, <1>3 DEF Near, Short
<1>5. n - (E + 1) < SeqSpace /\ -SeqSpace <= n - (E + 1)
    BY <1>1, <1>3, <1>4
<1>6. Distance(SeqNum(E + 1), SeqNum(n)) = n - (E + 1)
    <2>1. E + 1 \in Int /\ n \in Int /\ ~(2 * (n - (E + 1)) >= SeqSpace)
          /\ ~(2 * (n - (E + 1)) < -SeqSpace)
        BY <1>1, <1>3, <1>4
    <2> QED BY <1>5, <2>1, DistanceOf
<1> QED BY <1>2, <1>3, <1>4, <1>6

\* The invariant before the list is checked, for a buffer b and a list infos: the check keeps it.
Accounted(E, b, infos) ==
    /\ b.end = SeqNum(E + 1)
    /\ base' \in 1 .. E
    /\ \A m \in received' : m - E <= Reorder
    /\ \A n \in base' .. E :
          \/ n \in received'
          \/ SeqNum(n) \in gone
          \/ SeqNum(n) \in ToSet(Numbers(infos)) /\ 2 * (E - n) < SeqSpace
    /\ Recent' =>
          /\ \E B \in base' .. E : b.begin = SeqNum(B)
          /\ \A sn \in ToSet(Numbers(infos)) : \E m \in base' .. E - 1 : sn = SeqNum(m)

LEMMA Checked ==
    ASSUME NEW E \in Nat, NEW b, NEW infos, Accounted(E, b, infos), CheckLeft(b, infos),
           gone' = gone \cup GivenUp(infos, list')
    PROVE  Known(E)'
<1>1. buf'.end = SeqNum(E + 1)
    BY DEF Accounted, CheckLeft
<1>2. ASSUME NEW n \in base' .. E
      PROVE  \/ n \in received'
             \/ SeqNum(n) \in gone'
             \/ SeqNum(n) \in Listed' /\ 2 * (E - n) < SeqSpace
    <2>1. CASE n \in received' \/ SeqNum(n) \in gone
        BY <2>1
    <2>2. CASE SeqNum(n) \in ToSet(Numbers(infos)) /\ 2 * (E - n) < SeqSpace
        BY <2>2 DEF GivenUp, Listed
    <2> QED BY <2>1, <2>2 DEF Accounted
<1>3. ASSUME Recent'
      PROVE  /\ \E B \in base' .. E : buf'.begin = SeqNum(B)
             /\ \A sn \in Listed' : \E m \in base' .. E - 1 : sn = SeqNum(m)
    <2>1. \A sn \in ToSet(Numbers(infos)) : \E m \in base' .. E - 1 : sn = SeqNum(m)
        BY <1>3 DEF Accounted
    <2>2. \A sn \in Listed' : \E m \in base' .. E - 1 : sn = SeqNum(m)
        BY <2>1 DEF CheckLeft, Listed
    <2>3. CASE buf'.begin = b.begin
        BY <1>3, <2>2, <2>3 DEF Accounted
    <2>4. ASSUME NEW sn \in ToSet(Numbers(infos)), buf'.begin = Next16(sn)
          PROVE  \E B \in base' .. E : buf'.begin = SeqNum(B)
        <3>1. PICK m \in base' .. E - 1 : sn = SeqNum(m)
            BY <2>1
        <3>2. base' \in Nat
            BY DEF Accounted
        <3>3. m \in Int /\ m + 1 \in base' .. E
            BY <3>2
        <3>4. buf'.begin = SeqNum(m + 1)
            BY <2>4, <3>1, <3>3, NextNumber
        <3> QED BY <3>3, <3>4
    <2> QED BY <2>2, <2>3, <2>4 DEF CheckLeft
<1> QED BY <1>1, <1>2, <1>3 DEF Accounted, Known

\* A packet that is on the list is accounted for when it leaves it.
LEMMA ListedStep ==
    ASSUME Near, TypeOK, NEW E \in received, Known(E), buf.contexttialized,
           NEW n, Delivered(n), Timely(n), OnListed(n)
    PROVE  n <= E /\ Known(E)' /\ buf' = buf
<1>1. /\ list \in Seq(Info) /\ received' = received \cup {n} /\ n \in 1 .. MaxNumber
      /\ \A m \in received : m - E <= Reorder
    BY DEF Delivered, OnNack, Known, TypeOK
<1>2. /\ E \in Nat \ {0} /\ n >= E - Reorder
      /\ -SeqSpace <= 2 * (n - (E + 1)) /\ 2 * (n - (E + 1)) < SeqSpace
      /\ Distance(SeqNum(E + 1), SeqNum(n)) = n - (E + 1)
    BY <1>1, ArrivesNear DEF Delivered
<1>3. /\ SeqNum(n) \in Listed /\ Listed' \subseteq Listed /\ Listed \subseteq Listed' \cup {SeqNum(n)}
      /\ UNCHANGED <<buf, gone, base>>
    BY <1>1, OnListedFacts
<1>4. n <= E
    <2> SUFFICES ASSUME n > E PROVE FALSE
        BY <1>1, <1>2
    <2>1. Distance(buf.end, SeqNum(n)) >= 0
        BY <1>1, <1>2 DEF Known
    <2>2. Distance(SeqNum(n), SeqNum(n)) > 0
        BY <1>3, <2>1 DEF Timely
    <2>3. n \in Int /\ n - n = 0 /\ SeqSpace \in Nat \ {0}
        BY <1>1, SeqSpaceOK
    <2>4. Distance(SeqNum(n), SeqNum(n)) = 0
        <3>1. -SeqSpace <= n - n /\ n - n < SeqSpace
            BY <2>3
        <3>2. ~(2 * (n - n) >= SeqSpace) /\ ~(2 * (n - n) < -SeqSpace)
            BY <2>3
        <3> QED BY <2>3, <3>1, <3>2, DistanceOf
    <2> QED BY <2>2, <2>4
<1>5. ASSUME NEW k \in base .. E
      PROVE  \/ k \in received'
             \/ SeqNum(k) \in gone'
             \/ SeqNum(k) \in Listed' /\ 2 * (E - k) < SeqSpace
    <2>1. CASE k \in received \/ SeqNum(k) \in gone
        BY <1>1, <1>3, <2>1
    <2>2. CASE SeqNum(k) \in Listed /\ 2 * (E - k) < SeqSpace /\ SeqNum(k) # SeqNum(n)
        BY <1>3, <2>2
    <2>3. CASE 2 * (E - k) < SeqSpace /\ SeqNum(k) = SeqNum(n)
        <3>1. k \in Int /\ n \in Int /\ SeqSpace \in Nat \ {0} /\ k <= E /\ E \in Int
            BY <1>1, <1>2, SeqSpaceOK DEF Known
        <3>2. -SeqSpace < n - k /\ n - k < SeqSpace
            BY <1>2, <1>4, <2>3, <3>1
        <3>3. k = n
            BY <2>3, <3>1, <3>2, SameNumber
        <3> QED BY <1>1, <3>3
    <2> QED BY <2>1, <2>2, <2>3 DEF Known
<1>6. Recent' => Recent
    BY <1>1, <1>3 DEF Recent
<1>7. \A m \in received' : m - E <= Reorder
    <2>1. Reorder \in Nat
        BY ConstantsOK
    <2>2. n - E <= Reorder
        BY <1>1, <1>2, <1>4, <2>1
    <2> QED BY <1>1, <2>2
<1>8. /\ buf'.end = SeqNum(E + 1) /\ base' \in 1 .. E
    BY <1>3 DEF Known
<1>9. ASSUME Recent'
      PROVE  /\ \E B \in base' .. E : buf'.begin = SeqNum(B)
             /\ \A sn \in Listed' : \E m \in base' .. E - 1 : sn = SeqNum(m)
    BY <1>3, <1>6, <1>9 DEF Known
<1>10. \A k \in base' .. E :
           \/ k \in received'
           \/ SeqNum(k) \in gone'
           \/ SeqNum(k) \in Listed' /\ 2 * (E - k) < SeqSpace
    BY <1>3, <1>5
<1> QED BY <1>3, <1>4, <1>7, <1>8, <1>9, <1>10 DEF Known

\* A packet that is not listed starts the context, or is newer than all seen, or older. What it
\* lists, and what the buffer is behind it, are these.
Opened(n, b, infos) ==
    /\ infos \in Seq(Info) /\ CheckSendNacks(b, infos) /\ CheckLeft(b, infos)
    /\ b.contexttialized
    /\ (infos = <<>> => buf' = b /\ list' = <<>>)
    /\ gone' = gone \cup GivenUp(infos, list')
    /\ base' = IF ~buf.contexttialized \/ n < base THEN n ELSE base
    /\ LET up == Update2(SeqNum(n))
       IN  b = up.buf /\ infos = Inserted(list, up.first, up.last)

LEMMA UnlistedFacts ==
    ASSUME TypeOK, NEW n \in 1 .. MaxNumber, OnUnlisted(n)
    PROVE  \/ buf'.contexttialized = FALSE /\ list' = <<>> /\ preCheck' = preCheck
           \/ \E b, infos : Opened(n, b, infos)
<1> DEFINE up    == Update2(SeqNum(n))
           more  == Inserted(list, up.first, up.last)
           full  == Distance(up.first, up.last) > 0 /\ Len(more) >= MaxQueueSize
           infos == IF full THEN <<>> ELSE more
           b     == IF full THEN Flushed(up.buf) ELSE up.buf
<1>1. /\ CheckSendNacks(b, infos)
      /\ gone' = gone \cup GivenUp(infos, list')
      /\ base' = IF ~buf.contexttialized \/ n < base THEN n ELSE base
    BY DEF OnUnlisted
<1>2. /\ buf \in Bufs /\ list \in Seq(Info) /\ now \in Nat /\ preCheck \in Nat
      /\ SeqNum(n) \in Seqs
    BY SeqNumFacts DEF TypeOK, Bufs
<1>3. /\ up.buf \in Bufs /\ up.first \in Seqs /\ up.last \in Seqs
      /\ up.buf.contexttialized
    BY <1>2, Update2Facts DEF Updated
<1> HIDE DEF up
<1>4. more \in Seq(Info)
    BY <1>2, <1>3, InsertedFacts
<1> HIDE DEF more
<1>5. CASE full
    <2>1. b = Flushed(up.buf) /\ infos = <<>>
        BY <1>5
    <2>2. Flushed(up.buf) \in Bufs /\ Flushed(up.buf).contexttialized = FALSE
        BY <1>3, FlushedFacts DEF Bufs
    <2>3. <<>> \in Seq(Info) /\ CheckSendNacks(Flushed(up.buf), <<>>)
        BY <1>1, <2>1
    <2>4. buf' = Flushed(up.buf) /\ list' = <<>> /\ preCheck' = preCheck
        BY <2>3 DEF CheckSendNacks
    <2> QED BY <2>2, <2>4
<1>6. CASE ~full
    <2>1. b = up.buf /\ infos = more
        BY <1>6
    <2>2. CheckSendNacks(up.buf, more)
        BY <1>1, <2>1
    <2>3. CheckLeft(up.buf, more) /\ (more = <<>> => buf' = up.buf /\ list' = <<>>)
        BY <1>2, <1>3, <1>4, <2>2, CheckFacts
    <2>4. gone' = gone \cup GivenUp(more, list')
        BY <1>1, <2>1
    <2> HIDE DEF b, infos, full
    <2>5. Opened(n, up.buf, more)
        BY <1>1, <1>3, <1>4, <2>2, <2>3, <2>4 DEF Opened, more, up
    <2> QED BY <2>5
<1> QED BY <1>5, <1>6

\* The numbers of a range of packets.
LEMMA RangeOf ==
    ASSUME NEW infos \in Seq(Info), now \in Nat, NEW a \in Int, NEW z \in Int,
           a <= z, 2 * (z - a) < SeqSpace
    PROVE  /\ ToSet(Numbers(Inserted(infos, SeqNum(a), SeqNum(z)))) =
                 ToSet(Numbers(infos)) \cup {SeqNum(m) : m \in a .. z - 1}
           /\ Gap(SeqNum(a), SeqNum(z)) = z - a
<1> DEFINE n == Gap(SeqNum(a), SeqNum(z))
           new == Inserted(infos, SeqNum(a), SeqNum(z))
<1>1. SeqSpace \in Nat \ {0} /\ SeqNum(a) \in Seqs /\ SeqNum(z) \in Seqs
    BY SeqSpaceOK, SeqNumFacts
<1>2. n = z - a
    <2>1. Distance(SeqNum(a), SeqNum(z)) = z - a
        <3>1. -SeqSpace <= z - a /\ z - a < SeqSpace
            BY <1>1
        <3>2. ~(2 * (z - a) >= SeqSpace) /\ ~(2 * (z - a) < -SeqSpace)
            BY <1>1
        <3> QED BY <3>1, <3>2, DistanceOf
    <2> QED BY <2>1 DEF Gap
<1>3. ToSet(Numbers(new)) =
          ToSet(Numbers(infos)) \cup {(SeqNum(a) + k) % SeqSpace : k \in 0 .. n - 1}
    BY <1>1, InsertedFacts
<1>4. {(SeqNum(a) + k) % SeqSpace : k \in 0 .. n - 1} = {SeqNum(m) : m \in a .. z - 1}
    <2>1. \A k \in 0 .. n - 1 : (SeqNum(a) + k) % SeqSpace = SeqNum(a + k)
        <3>1. \A k \in 0 .. n - 1 : k \in Int
            BY <1>2
        <3> HIDE DEF n
        <3> QED BY <3>1, SeqNumFacts
    <2>2. ASSUME NEW k \in 0 .. n - 1
          PROVE  (SeqNum(a) + k) % SeqSpace \in {SeqNum(m) : m \in a .. z - 1}
        <3>1. a + k \in a .. z - 1
            BY <1>2
        <3> QED BY <2>1, <3>1
    <2>3. ASSUME NEW m \in a .. z - 1
          PROVE  SeqNum(m) \in {(SeqNum(a) + k) % SeqSpace : k \in 0 .. n - 1}
        <3>1. m - a \in 0 .. n - 1 /\ a + (m - a) = m
            BY <1>2
        <3>2. (SeqNum(a) + (m - a)) % SeqSpace = SeqNum(m)
            BY <2>1, <3>1
        <3> QED BY <3>1, <3>2
    <2> HIDE DEF n
    <2> QED BY <2>2, <2>3
<1> QED BY <1>2, <1>3, <1>4

LEMMA NoRange ==
    ASSUME NEW infos \in Seq(Info), now \in Nat
    PROVE  Inserted(infos, 0, 0) = infos
<1>1. SeqSpace \in Nat \ {0} /\ 0 \in Seqs
    BY SeqSpaceOK DEF Seqs
<1>2. (0 - 0) % SeqSpace = 0
    BY <1>1, TurnedLess
<1>3. Gap(0, 0) = 0
    BY <1>1, <1>2 DEF Gap, Distance
<1> QED BY <1>1, <1>3, InsertedFacts

LEMMA OpenedFacts ==
    ASSUME TypeOK, NEW n, Delivered(n), NEW b, NEW infos, Opened(n, b, infos)
    PROVE  /\ n \in 1 .. MaxNumber /\ received' = received \cup {n} /\ n - n <= Reorder
           /\ buf \in Bufs /\ b \in Bufs /\ list \in Seq(Info) /\ now \in Nat
           /\ ~buf.contexttialized =>
                 infos = list /\ b.begin = SeqNum(n) /\ b.end = SeqNum(n + 1)
           /\ buf.contexttialized /\ Distance(buf.end, SeqNum(n)) >= 0 =>
                 /\ infos = Inserted(list, buf.end, SeqNum(n))
                 /\ b.begin = buf.begin /\ b.end = SeqNum(n + 1)
           /\ buf.contexttialized /\ Distance(buf.end, SeqNum(n)) < 0 =>
                 /\ b.end = buf.end
                 /\ Distance(SeqNum(n), buf.begin) > 0 =>
                       /\ infos = Inserted(list, SeqNum(n), buf.begin)
                       /\ b.begin = SeqNum(n)
                 /\ ~(Distance(SeqNum(n), buf.begin) > 0) => infos = list /\ b = buf
<1> DEFINE up == Update2(SeqNum(n))
<1>1. /\ n \in 1 .. MaxNumber /\ received' = received \cup {n}
      /\ b = up.buf /\ infos = Inserted(list, up.first, up.last)
    BY DEF Delivered, OnNack, Opened
<1>2. buf \in Bufs /\ list \in Seq(Info) /\ now \in Nat /\ n \in Int
    BY <1>1 DEF TypeOK, Bufs
<1>3. n - n <= Reorder
    <2>1. Reorder \in Nat
        BY ConstantsOK
    <2> QED BY <1>2, <2>1
<1>4. Updated(SeqNum(n), up) /\ Next16(SeqNum(n)) = SeqNum(n + 1)
    BY <1>2, SeqNumFacts, NextNumber, Update2Facts
<1>5. Inserted(list, 0, 0) = list
    BY <1>2, NoRange
<1> HIDE DEF up
<1> QED BY <1>1, <1>2, <1>3, <1>4, <1>5 DEF Updated

\* The first packet since the start, or since the list was thrown away.
LEMMA StartStep ==
    ASSUME TypeOK, RecvInv, ~buf.contexttialized,
           NEW n, Delivered(n), NEW b, NEW infos, Opened(n, b, infos)
    PROVE  Known(n)'
<1>1. /\ n \in 1 .. MaxNumber /\ received' = received \cup {n} /\ n - n <= Reorder
      /\ infos = <<>> /\ b.begin = SeqNum(n) /\ b.end = SeqNum(n + 1)
    BY OpenedFacts DEF RecvInv
<1>2. /\ base' = n /\ CheckLeft(b, infos) /\ gone' = gone \cup GivenUp(infos, list')
      /\ infos \in Seq(Info)
    BY DEF Opened
<1>3. ToSet(Numbers(infos)) = {}
    <2>1. 1 .. Len(infos) = {}
        BY <1>1
    <2>2. ToSet(Numbers(infos)) = {infos[i].sn : i \in 1 .. Len(infos)}
        BY <1>2, NumbersFacts
    <2> QED BY <2>1, <2>2
<1>4. n \in 1 .. n /\ n \in n .. n /\ n \in Nat /\ \A k \in n .. n : k = n
    BY <1>1
<1>5. \A m \in received' : m - n <= Reorder
    <2>1. n >= Newest - Reorder /\ Reorder \in Nat
        BY ConstantsOK DEF Delivered
    <2>2. ASSUME NEW m \in received PROVE m - n <= Reorder
        <3>1. m \in Int /\ Newest \in Int /\ m <= Newest
            BY NewestFacts
        <3>2. n \in Int
            BY <1>1
        <3> QED BY <2>1, <3>1, <3>2
    <2> QED BY <1>1, <2>2
<1>6. Accounted(n, b, infos)
    BY <1>1, <1>2, <1>3, <1>4, <1>5 DEF Accounted
<1> QED BY <1>2, <1>4, <1>6, Checked

\* A number less than half a turn old, and still listed, is less than half a turn older than a new
\* one that comes in time.
LEMMA StillNear ==
    ASSUME buf.contexttialized, NEW n \in Int, Timely(n), Distance(buf.end, SeqNum(n)) >= 0,
           NEW E \in Nat \ {0}, 2 * (n - (E + 1)) < SeqSpace,
           NEW k \in Int, k <= E, SeqNum(k) \in Listed, 2 * (E - k) < SeqSpace, n > E
    PROVE  2 * (n - k) < SeqSpace
<1>1. PICK h \in Nat \ {0} : SeqSpace = 2 * h
    BY Half
<1> SUFFICES ASSUME 2 * (n - k) >= SeqSpace PROVE FALSE
    BY <1>1
<1>2. Distance(SeqNum(k), SeqNum(n)) > 0
    BY DEF Timely
<1>3. n - k < SeqSpace /\ -SeqSpace <= n - k
    BY <1>1
<1>4. Distance(SeqNum(k), SeqNum(n)) = n - k - SeqSpace
    BY <1>3, DistanceOf
<1> QED BY <1>1, <1>2, <1>3, <1>4

\* A packet newer than all seen: the numbers between are listed.
LEMMA NewerStep ==
    ASSUME Near, TypeOK, buf.contexttialized, NEW E \in received, Known(E),
           NEW n, Delivered(n), n > E, Timely(n), NEW b, NEW infos, Opened(n, b, infos)
    PROVE  Known(n)'
<1>1. /\ n \in 1 .. MaxNumber /\ received' = received \cup {n} /\ n - n <= Reorder
      /\ list \in Seq(Info) /\ now \in Nat
      /\ \A m \in received : m - E <= Reorder
      /\ buf.end = SeqNum(E + 1) /\ base \in 1 .. E
    BY OpenedFacts DEF Known
<1>2. /\ E \in Nat \ {0}
      /\ -SeqSpace <= 2 * (n - (E + 1)) /\ 2 * (n - (E + 1)) < SeqSpace
      /\ Distance(SeqNum(E + 1), SeqNum(n)) = n - (E + 1)
    BY <1>1, ArrivesNear DEF Delivered
<1>3. PICK h \in Nat \ {0} : SeqSpace = 2 * h
    BY Half
<1>4. Distance(buf.end, SeqNum(n)) >= 0
    BY <1>1, <1>2
<1>5. /\ infos = Inserted(list, SeqNum(E + 1), SeqNum(n))
      /\ b.begin = buf.begin /\ b.end = SeqNum(n + 1)
    BY <1>1, <1>4, OpenedFacts
<1>6. ToSet(Numbers(infos)) = Listed \cup {SeqNum(m) : m \in E + 1 .. n - 1}
    <2>1. E + 1 \in Int /\ n \in Int /\ E + 1 <= n
        BY <1>1, <1>2
    <2> QED BY <1>1, <1>2, <1>5, <2>1, RangeOf DEF Listed
<1>7. /\ base' = base /\ CheckLeft(b, infos) /\ gone' = gone \cup GivenUp(infos, list')
      /\ infos \in Seq(Info)
    <2>1. ~(n < base)
        BY <1>1, <1>2
    <2> QED BY <2>1 DEF Opened
<1>8. ASSUME NEW k \in base .. E, SeqNum(k) \in Listed, 2 * (E - k) < SeqSpace
      PROVE  2 * (n - k) < SeqSpace
    <2>1. k \in Int /\ n \in Int /\ k <= E
        BY <1>1, <1>2
    <2> QED BY <1>2, <1>4, <1>8, <2>1, StillNear
<1>9. ASSUME NEW k \in base .. n
      PROVE  \/ k \in received'
             \/ SeqNum(k) \in gone
             \/ SeqNum(k) \in ToSet(Numbers(infos)) /\ 2 * (n - k) < SeqSpace
    <2>1. CASE k <= E
        <3>1. k \in base .. E
            BY <1>1, <1>2, <2>1
        <3>2. \/ k \in received
              \/ SeqNum(k) \in gone
              \/ SeqNum(k) \in Listed /\ 2 * (E - k) < SeqSpace
            BY <3>1 DEF Known
        <3> QED BY <1>1, <1>6, <1>8, <3>1, <3>2
    <2>2. CASE k = n
        BY <1>1, <2>2
    <2>3. CASE k > E /\ k # n
        <3>1. k \in E + 1 .. n - 1 /\ k \in Int
            BY <1>1, <1>2, <2>3
        <3>2. 2 * (n - k) < SeqSpace
            BY <1>1, <1>2, <1>3, <3>1
        <3> QED BY <1>6, <3>1, <3>2
    <2> QED BY <1>1, <1>2, <2>1, <2>2, <2>3
<1>10. ASSUME Recent'
       PROVE  /\ \E B \in base .. n : b.begin = SeqNum(B)
              /\ \A sn \in ToSet(Numbers(infos)) : \E m \in base .. n - 1 : sn = SeqNum(m)
    <2>1. Recent
        BY <1>1, <1>7, <1>10 DEF Recent
    <2>2. PICK B \in base .. E : buf.begin = SeqNum(B)
        BY <2>1 DEF Known
    <2>3. B \in base .. n
        BY <1>1, <1>2
    <2>4. ASSUME NEW sn \in Listed PROVE \E m \in base .. n - 1 : sn = SeqNum(m)
        <3>1. PICK m \in base .. E - 1 : sn = SeqNum(m)
            BY <2>1 DEF Known
        <3>2. m \in base .. n - 1
            BY <1>1, <1>2
        <3> QED BY <3>1, <3>2
    <2>5. ASSUME NEW m \in E + 1 .. n - 1 PROVE m \in base .. n - 1
        BY <1>1, <1>2
    <2> QED BY <1>5, <1>6, <2>2, <2>3, <2>4, <2>5
<1>11. \A m \in received' : m - n <= Reorder
    <2>1. ASSUME NEW m \in received PROVE m - n <= Reorder
        <3>1. m \in Int /\ n \in Int /\ Reorder \in Nat /\ m - E <= Reorder
            BY <1>1, ConstantsOK DEF TypeOK
        <3> QED BY <1>2, <3>1
    <2> QED BY <1>1, <2>1
<1>12. base \in 1 .. n /\ n \in Nat
    BY <1>1, <1>2
<1>13. Accounted(n, b, infos)
    BY <1>5, <1>7, <1>9, <1>10, <1>11, <1>12 DEF Accounted
<1> QED BY <1>7, <1>12, <1>13, Checked

\* A packet not newer than the newest: the range grows at its beginning, or does not.
LEMMA OlderStep ==
    ASSUME Near, TypeOK, buf.contexttialized, NEW E \in received, Known(E),
           NEW n, Delivered(n), n <= E, NEW b, NEW infos, Opened(n, b, infos)
    PROVE  Known(E)'
<1>1. /\ n \in 1 .. MaxNumber /\ received' = received \cup {n} /\ n - n <= Reorder
      /\ list \in Seq(Info) /\ now \in Nat
      /\ \A m \in received : m - E <= Reorder
      /\ buf.end = SeqNum(E + 1) /\ base \in 1 .. E
    BY OpenedFacts DEF Known
<1>2. /\ E \in Nat \ {0} /\ n \in Int /\ MaxNumber \in Nat /\ Reorder \in Nat
      /\ received \subseteq 1 .. MaxNumber
      /\ -SeqSpace <= 2 * (n - (E + 1))
      /\ Distance(SeqNum(E + 1), SeqNum(n)) = n - (E + 1)
    <2>1. /\ E \in Nat \ {0}
          /\ -SeqSpace <= 2 * (n - (E + 1))
          /\ Distance(SeqNum(E + 1), SeqNum(n)) = n - (E + 1)
        BY <1>1, ArrivesNear DEF Delivered
    <2>2. MaxNumber \in Nat /\ Reorder \in Nat /\ received \subseteq 1 .. MaxNumber
        BY NewestFacts, ConstantsOK
    <2> QED BY <1>1, <2>1, <2>2
<1>3. PICK h \in Nat \ {0} : SeqSpace = 2 * h
    BY Half
<1>4. buf.contexttialized /\ Distance(buf.end, SeqNum(n)) < 0
    BY <1>1, <1>2
<1>5. /\ b.end = buf.end
      /\ Distance(SeqNum(n), buf.begin) > 0 =>
            infos = Inserted(list, SeqNum(n), buf.begin) /\ b.begin = SeqNum(n)
      /\ ~(Distance(SeqNum(n), buf.begin) > 0) => infos = list /\ b = buf
    BY <1>4, OpenedFacts
<1>6. /\ CheckLeft(b, infos) /\ gone' = gone \cup GivenUp(infos, list')
      /\ base' = IF n < base THEN n ELSE base
    BY DEF Opened
<1>7. Listed \subseteq ToSet(Numbers(infos))
    <2>1. CASE Distance(SeqNum(n), buf.begin) > 0
        <3>1. buf.begin \in Seqs /\ SeqNum(n) \in Seqs
            BY <1>2, SeqNumFacts DEF TypeOK
        <3> QED BY <1>1, <1>5, <2>1, <3>1, InsertedFacts DEF Listed
    <2>2. CASE ~(Distance(SeqNum(n), buf.begin) > 0)
        BY <1>5, <2>2 DEF Listed
    <2> QED BY <2>1, <2>2
<1>8. base' \in 1 .. E /\ base' <= base /\ base' <= n
    BY <1>1, <1>2, <1>6
<1>9. \A m \in received' : m - E <= Reorder
    BY <1>1, <1>2
<1>10. Recent' => Recent
    <2> SUFFICES ASSUME Recent', ~Short PROVE Recent
        BY DEF Recent
    <2>1. CASE n < base
        <3>1. ASSUME NEW m \in received PROVE m < base + Reorder
            <4>1. m <= Newest /\ Newest \in received /\ m \in Int /\ Newest \in Int
                BY NewestFacts
            <4>2. n >= Newest - Reorder /\ base \in Int
                BY <1>1 DEF Delivered
            <4> QED BY <1>2, <2>1, <4>1, <4>2
        <3> QED BY <3>1 DEF Recent
    <2>2. CASE ~(n < base)
        BY <1>1, <1>6, <2>2 DEF Recent
    <2> QED BY <2>1, <2>2
\* What the buffer begins with, where it is known, and what is listed.
<1>11. ASSUME Recent, NEW B \in base .. E, buf.begin = SeqNum(B)
       PROVE  /\ n < B =>
                    /\ ToSet(Numbers(infos)) = Listed \cup {SeqNum(m) : m \in n .. B - 1}
                    /\ b.begin = SeqNum(n)
              /\ ~(n < B) => infos = list /\ b = buf
    <2>1. B \in Int
        BY <1>1, <1>2
    <2>2. 2 * (B - n) < SeqSpace
        BY <1>2, <1>3, <2>1
    <2>3. -SeqSpace <= 2 * (B - n)
        <3>1. n - base < h
            <4>1. CASE Short
                BY <1>1, <1>2, <1>3, <4>1 DEF Short
            <4>2. CASE ~Short
                <5>1. E < base + Reorder /\ 4 * Reorder <= SeqSpace
                    BY <1>11, <4>2 DEF Recent, Near
                <5> QED BY <1>1, <1>2, <1>3, <5>1
            <4> QED BY <4>1, <4>2
        <3> QED BY <1>1, <1>2, <1>3, <2>1, <3>1
    <2>4. Distance(SeqNum(n), buf.begin) = B - n
        <3>1. /\ -SeqSpace <= B - n /\ B - n < SeqSpace
              /\ ~(2 * (B - n) >= SeqSpace) /\ ~(2 * (B - n) < -SeqSpace)
            BY <1>2, <1>3, <2>1, <2>2, <2>3
        <3> QED BY <1>2, <1>11, <2>1, <3>1, DistanceOf
    <2>5. CASE n < B
        <3>1. Distance(SeqNum(n), buf.begin) > 0 /\ n <= B
            BY <1>2, <2>1, <2>4, <2>5
        <3>2. ToSet(Numbers(Inserted(list, SeqNum(n), SeqNum(B)))) =
                  ToSet(Numbers(list)) \cup {SeqNum(m) : m \in n .. B - 1}
            <4>1. list \in Seq(Info) /\ now \in Nat /\ n \in Int
                BY <1>1, <1>2
            <4> QED BY <2>1, <2>2, <3>1, <4>1, RangeOf
        <3> QED BY <1>5, <1>11, <2>5, <3>1, <3>2 DEF Listed
    <2>6. CASE ~(n < B)
        <3>1. ~(Distance(SeqNum(n), buf.begin) > 0)
            BY <1>2, <2>1, <2>4, <2>6
        <3> QED BY <1>5, <2>6, <3>1
    <2> QED BY <2>5, <2>6
<1>12. ASSUME n < base PROVE Recent
    <2>1. ASSUME NEW m \in received PROVE m < base + Reorder
        <3>1. m <= Newest /\ Newest \in received /\ m \in Int /\ Newest \in Int
            BY NewestFacts
        <3>2. n >= Newest - Reorder /\ base \in Int
            BY <1>1 DEF Delivered
        <3> QED BY <1>2, <1>12, <3>1, <3>2
    <2> QED BY <2>1 DEF Recent
<1>13. ASSUME NEW k \in base' .. E
       PROVE  \/ k \in received'
              \/ SeqNum(k) \in gone
              \/ SeqNum(k) \in ToSet(Numbers(infos)) /\ 2 * (E - k) < SeqSpace
    <2>1. CASE k >= base
        <3>1. k \in base .. E
            BY <1>1, <1>2, <1>8, <2>1
        <3>2. \/ k \in received
              \/ SeqNum(k) \in gone
              \/ SeqNum(k) \in Listed /\ 2 * (E - k) < SeqSpace
            BY <3>1 DEF Known
        <3> QED BY <1>1, <1>7, <3>2
    <2>2. CASE k = n
        BY <1>1, <2>2
    <2>3. CASE k < base /\ k # n
        <3>1. k \in Int /\ n < k /\ n < base /\ k <= E
            BY <1>1, <1>2, <1>6, <1>8, <2>3
        <3>2. PICK B \in base .. E : buf.begin = SeqNum(B)
            BY <1>12, <3>1 DEF Known
        <3>3. B \in Int /\ n < B /\ k \in n .. B - 1
            BY <1>1, <1>2, <2>3, <3>1
        <3>4. SeqNum(k) \in ToSet(Numbers(infos))
            BY <1>11, <1>12, <3>1, <3>2, <3>3
        <3>5. 2 * (E - k) < SeqSpace
            BY <1>2, <1>3, <3>1
        <3> QED BY <3>4, <3>5
    <2> QED BY <1>1, <1>2, <1>8, <2>1, <2>2, <2>3
<1>14. ASSUME Recent'
       PROVE  /\ \E B \in base' .. E : b.begin = SeqNum(B)
              /\ \A sn \in ToSet(Numbers(infos)) : \E m \in base' .. E - 1 : sn = SeqNum(m)
    <2>1. PICK B \in base .. E : buf.begin = SeqNum(B)
        BY <1>10, <1>14 DEF Known
    <2>2. B \in base' .. E /\ n \in base' .. E
        BY <1>1, <1>2, <1>8
    <2>3. ASSUME NEW sn \in Listed PROVE \E m \in base' .. E - 1 : sn = SeqNum(m)
        <3>1. PICK m \in base .. E - 1 : sn = SeqNum(m)
            BY <1>10, <1>14 DEF Known
        <3>2. m \in base' .. E - 1
            BY <1>1, <1>2, <1>8
        <3> QED BY <3>1, <3>2
    <2>4. \A m \in n .. B - 1 : m \in base' .. E - 1
        BY <1>2, <1>8, <2>2
    <2>5. \E x \in base' .. E : b.begin = SeqNum(x)
        BY <1>10, <1>11, <1>14, <2>1, <2>2
    <2>6. ASSUME NEW sn \in ToSet(Numbers(infos))
          PROVE  sn \in Listed \/ \E m \in n .. B - 1 : sn = SeqNum(m)
        BY <1>10, <1>11, <1>14, <2>1 DEF Listed
    <2> QED BY <2>3, <2>4, <2>5, <2>6
<1>15. Accounted(E, b, infos)
    BY <1>1, <1>5, <1>8, <1>9, <1>13, <1>14 DEF Accounted
<1> QED BY <1>2, <1>6, <1>15, Checked

LEMMA RecvInvInit == Init => RecvInv
BY DEF Init, RecvInv

\* Every way in which a packet can be taken keeps what is known of the stream.
LEMMA DeliveredStep ==
    ASSUME Near, TypeOK, RecvInv, NEW n, Delivered(n), Timely(n)
    PROVE  RecvInv'
<1>1. n \in 1 .. MaxNumber /\ received' = received \cup {n}
    BY DEF Delivered, OnNack
<1>2. CASE OnListed(n)
    <2>1. buf.contexttialized
        <3> SUFFICES ASSUME ~buf.contexttialized PROVE FALSE
            OBVIOUS
        <3>1. list = <<>> /\ list \in Seq(Info) /\ SeqNum(n) \in Listed
            BY <1>2 DEF RecvInv, OnListed, TypeOK
        <3>2. 1 .. Len(list) = {}
            BY <3>1
        <3>3. Listed = {list[i].sn : i \in 1 .. Len(list)}
            BY <3>1, NumbersFacts DEF Listed
        <3> QED BY <3>1, <3>2, <3>3
    <2>2. PICK E \in received : Known(E)
        BY <2>1 DEF RecvInv
    <2>3. Known(E)' /\ buf' = buf
        BY <1>2, <2>1, <2>2, ListedStep
    <2>4. E \in received'
        BY <1>1
    <2> QED BY <2>1, <2>3, <2>4 DEF RecvInv
<1>3. CASE OnUnlisted(n)
    <2>1. CASE buf'.contexttialized = FALSE /\ list' = <<>>
        BY <2>1 DEF RecvInv
    <2>2. ASSUME NEW b, NEW infos, Opened(n, b, infos) PROVE RecvInv'
        <3>1. buf'.contexttialized
            BY <2>2 DEF Opened, CheckLeft
        <3>2. \E E \in received' : Known(E)'
            <4>1. CASE ~buf.contexttialized
                <5>1. Known(n)'
                    BY <2>2, <4>1, StartStep
                <5> QED BY <1>1, <5>1
            <4>2. CASE buf.contexttialized
                <5>1. PICK E \in received : Known(E)
                    BY <4>2 DEF RecvInv
                <5>2. E \in Int /\ n \in Int
                    BY <1>1, NewestFacts
                <5>3. CASE n > E
                    <6>1. Known(n)'
                        BY <2>2, <4>2, <5>1, <5>3, NewerStep
                    <6> QED BY <1>1, <6>1
                <5>4. CASE n <= E
                    <6>1. Known(E)'
                        BY <2>2, <4>2, <5>1, <5>4, OlderStep
                    <6> QED BY <1>1, <6>1
                <5> QED BY <5>2, <5>3, <5>4
            <4> QED BY <4>1, <4>2
        <3> QED BY <3>1, <3>2 DEF RecvInv
    <2> QED BY <1>1, <1>3, <2>1, <2>2, UnlistedFacts
<1> QED BY <1>2, <1>3 DEF Delivered, OnNack

\* The other steps leave all of it alone.
LEMMA RecvInvSame ==
    ASSUME RecvInv, UNCHANGED <<buf, list, received, gone, base>>
    PROVE  RecvInv'
<1>1. \A E : Known(E) => Known(E)'
    BY DEF Known, Recent, Listed, Numbers
<1>2. ~buf'.contexttialized => list' = <<>>
    BY DEF RecvInv
<1>3. buf'.contexttialized => \E E \in received' : Known(E)'
    BY <1>1 DEF RecvInv
<1> QED BY <1>2, <1>3 DEF RecvInv

LEMMA RecvInvStep ==
    ASSUME Near, TypeOK, RecvInv, [Next]_vars, [InTime]_vars
    PROVE  RecvInv'
<1>1. ASSUME NEW n \in 1 .. MaxNumber,
             n >= Newest - Reorder, n <= Newest + Reorder, OnNack(n)
      PROVE  RecvInv'
    <2>1. CASE InTime
        <3>1. Timely(n) /\ Delivered(n)
            BY <1>1, <2>1 DEF InTime, Delivered
        <3> QED BY <3>1, DeliveredStep
    <2>2. CASE UNCHANGED vars
        BY <2>2, RecvInvSame DEF vars
    <2> QED BY <2>1, <2>2
<1>2. CASE Arrive
    BY <1>1, <1>2 DEF Arrive
<1>3. CASE UpdateRtt \/ Tick \/ UNCHANGED vars
    <2>1. UNCHANGED <<buf, list, received, gone, base>>
        BY <1>3 DEF UpdateRtt, Tick, vars
    <2> QED BY <2>1, RecvInvSame
<1> QED BY <1>2, <1>3 DEF Next

\* In a short stream every packet comes in time.
LEMMA ShortInTime ==
    ASSUME Short, TypeOK, RecvInv
    PROVE  InTime
<1> SUFFICES ASSUME NEW n \in 1 .. MaxNumber, buf.contexttialized,
                    Distance(buf.end, SeqNum(n)) >= 0, NEW sn \in Listed
             PROVE  Distance(sn, SeqNum(n)) > 0
    BY DEF InTime, Timely
<1>1. PICK E \in received : Known(E)
    BY DEF RecvInv
<1>2. /\ E \in Nat /\ n \in Int /\ E \in 1 .. MaxNumber /\ MaxNumber \in Nat
      /\ base \in 1 .. E
    <2>1. received \subseteq 1 .. MaxNumber /\ MaxNumber \in Nat
        BY NewestFacts
    <2>2. base \in 1 .. E
        BY <1>1 DEF Known
    <2> QED BY <2>1, <2>2
<1>3. PICK h \in Nat \ {0} : SeqSpace = 2 * h
    BY Half
<1>4. PICK m \in base .. E - 1 : sn = SeqNum(m)
    BY <1>1 DEF Known, Recent
<1>5. ASSUME NEW x \in 0 .. MaxNumber + 1, x # 0 \/ n # MaxNumber, x # MaxNumber + 1 \/ n # 0
      PROVE  Distance(SeqNum(x), SeqNum(n)) = n - x
    <2>1. x \in Int /\ n - x < h /\ x - n <= h
        BY <1>2, <1>3, <1>5 DEF Short
    <2>2. /\ -SeqSpace <= n - x /\ n - x < SeqSpace
          /\ ~(2 * (n - x) >= SeqSpace) /\ ~(2 * (n - x) < -SeqSpace)
        BY <1>2, <1>3, <2>1
    <2> QED BY <1>2, <2>1, <2>2, DistanceOf
<1>6. m \in Int /\ m \in 0 .. MaxNumber + 1 /\ m # 0 /\ E + 1 \in 0 .. MaxNumber + 1 /\ E + 1 # 0 /\ n # 0
    BY <1>2
<1>7. Distance(buf.end, SeqNum(n)) = n - (E + 1)
    <2>1. buf.end = SeqNum(E + 1)
        BY <1>1 DEF Known
    <2> QED BY <1>5, <1>6, <2>1
<1>8. Distance(sn, SeqNum(n)) = n - m
    BY <1>4, <1>5, <1>6
<1> QED BY <1>2, <1>6, <1>7, <1>8

\* The number of a packet less than half a turn from the newest.
LEMMA NumberOfFacts ==
    ASSUME TypeOK, NEW e \in Int, 2 * (Newest - e) < SeqSpace, 2 * (e - Newest) <= SeqSpace,
           received # {}
    PROVE  NumberOf(SeqNum(e)) = e
<1>1. PICK h \in Nat \ {0} : SeqSpace = 2 * h /\ SeqSpace \div 2 = h
    BY Half
<1> DEFINE lo == Newest - SeqSpace \div 2 + 1
           hi == Newest + SeqSpace \div 2
<1>2. Newest \in Int
    BY NewestFacts
<1>3. lo = Newest - h + 1 /\ hi = Newest + h
    BY <1>1
<1>4. e \in lo .. hi
    BY <1>1, <1>2
<1>5. ASSUME NEW x \in lo .. hi, SeqNum(x) = SeqNum(e) PROVE x = e
    <2>1. x \in Int /\ -SeqSpace < e - x /\ e - x < SeqSpace
        BY <1>1, <1>2, <1>4
    <2> QED BY <1>5, <2>1, SameNumber
<1>6. NumberOf(SeqNum(e)) = CHOOSE n \in lo .. hi : SeqNum(n) = SeqNum(e)
    BY DEF NumberOf
<1> HIDE DEF lo, hi
<1> QED BY <1>4, <1>5, <1>6

LEMMA MissingListed ==
    ASSUME Near, TypeOK, RecvInv
    PROVE  MissingIsListed
<1> SUFFICES ASSUME buf.contexttialized,
                    NEW n \in base .. NumberOf((buf.end - 1) % SeqSpace)
             PROVE  n \in received \/ SeqNum(n) \in Listed \cup gone
    BY DEF MissingIsListed
<1>1. PICK E \in received : Known(E)
    BY DEF RecvInv
<1>2. /\ Newest \in received /\ Newest \in Nat /\ E \in Nat /\ E <= Newest
      /\ received \subseteq 1 .. MaxNumber /\ MaxNumber \in Nat /\ Reorder \in Nat
    BY NewestFacts, ConstantsOK
<1>3. (buf.end - 1) % SeqSpace = SeqNum(E)
    <2>1. buf.end = SeqNum(E + 1) /\ E + 1 \in Int /\ E + 1 + (-1) = E
        BY <1>1, <1>2 DEF Known
    <2>2. (SeqNum(E + 1) + (-1)) % SeqSpace = SeqNum(E)
        BY <2>1, SeqNumFacts
    <2>3. SeqNum(E + 1) + (-1) = SeqNum(E + 1) - 1
        BY <2>1, SeqNumFacts DEF Seqs
    <2> QED BY <2>1, <2>2, <2>3
<1>4. NumberOf(SeqNum(E)) = E
    <2>1. Newest - E <= Reorder /\ Newest - E < MaxNumber
        <3>1. Newest - E <= Reorder
            BY <1>1, <1>2 DEF Known
        <3>2. Newest \in 1 .. MaxNumber /\ E \in 1 .. MaxNumber
            BY <1>2
        <3> QED BY <1>2, <3>1, <3>2
    <2>2. SeqSpace \in Nat \ {0}
        BY SeqSpaceOK
    <2>3. 2 * (Newest - E) < SeqSpace /\ 2 * (E - Newest) <= SeqSpace
        BY <1>2, <2>1, <2>2 DEF Near, Short
    <2> QED BY <1>2, <2>3, NumberOfFacts
<1>5. n \in base .. E
    BY <1>3, <1>4
<1> QED BY <1>1, <1>5 DEF Known

\* Nothing is forgotten in a stream shorter than half a turn of the sequence numbers, whatever is
\* lost, repeated, reordered or given up, and however often the list is thrown away.
THEOREM NothingForgotten ==
    ASSUME 2 * MaxNumber <= SeqSpace
    PROVE  Spec => []MissingIsListed
<1>1. Short /\ Near
    BY DEF Short, Near
<1>2. Init => RecvInv
    BY RecvInvInit
<1>3. TypeOK /\ RecvInv /\ [Next]_vars => RecvInv'
    <2> SUFFICES ASSUME TypeOK, RecvInv, [Next]_vars PROVE RecvInv'
        OBVIOUS
    <2>1. [InTime]_vars
        BY <1>1, ShortInTime
    <2> QED BY <1>1, <2>1, RecvInvStep
<1>4. TypeOK /\ RecvInv => MissingIsListed
    BY <1>1, MissingListed
<1> QED BY <1>2, <1>3, <1>4, ListTypesHold, PTL DEF Spec

\* Nothing is forgotten in a stream of any length, when packets are reordered by at most a quarter
\* of a turn and each new packet comes less than half a turn after the oldest one still asked for.
THEOREM NothingForgottenInTime ==
    ASSUME 4 * Reorder <= SeqSpace
    PROVE  Spec /\ [][InTime]_vars => []MissingIsListed
<1>1. Near
    BY DEF Near
<1>2. Init => RecvInv
    BY RecvInvInit
<1>3. TypeOK /\ RecvInv /\ [Next]_vars /\ [InTime]_vars => RecvInv'
    BY <1>1, RecvInvStep
<1>4. TypeOK /\ RecvInv => MissingIsListed
    BY <1>1, MissingListed
<1> QED BY <1>2, <1>3, <1>4, ListTypesHold, PTL DEF Spec

-----------------------------------------------------------------------------
(* The order of the list *)

\* A packet that is not listed is not before what the buffer begins with.
Behind(n) ==
    buf.contexttialized /\ SeqNum(n) \notin Listed =>
        \/ Distance(buf.end, SeqNum(n)) >= 0
        \/ ~(Distance(SeqNum(n), buf.begin) > 0)
NoneEarly == \A n \in 1 .. MaxNumber : OnNack(n) => Behind(n)

\* Where nothing is known of the stream, it goes on with a packet newer than all before.
FreshStart ==
    \A n \in 1 .. MaxNumber :
        OnNack(n) /\ ~buf.contexttialized => \A m \in received : m < n

\* The list is in order, and its numbers are less than half a turn older than the newest.
Ordered(E) ==
    /\ InSeqOrder(Numbers(list))
    /\ \A sn \in Listed : \E m \in 1 .. E - 1 : sn = SeqNum(m) /\ 2 * (E - m) < SeqSpace

\* No packet that arrived is listed.
Absent(E) ==
    /\ \A m \in received : m <= E
    /\ \A m \in 1 .. E - 1 : SeqNum(m) \in Listed /\ 2 * (E - m) < SeqSpace => m \notin received

LEMMA EmptyOrder ==
    ASSUME NEW infos, infos = <<>>
    PROVE  InSeqOrder(Numbers(infos)) /\ ToSet(Numbers(infos)) = {}
<1>1. infos \in Seq(Info) /\ Len(infos) = 0 /\ 1 .. 0 = {}
    OBVIOUS
<1>2. Len(Numbers(infos)) = 0 /\ ToSet(Numbers(infos)) = {infos[i].sn : i \in 1 .. 0}
    BY <1>1, NumbersFacts
<1> QED BY <1>1, <1>2 DEF InSeqOrder

LEMMA ListedOrder ==
    ASSUME TypeOK, NEW E \in Nat, Ordered(E), NEW n, n <= E, OnListed(n),
           received' = received \cup {n}
    PROVE  Ordered(E)' /\ (Absent(E) => Absent(E)')
<1>1. /\ Listed' \subseteq Listed /\ SeqNum(n) \notin Listed' /\ InSeqOrder(Numbers(list'))
    BY OnListedFacts DEF Ordered, TypeOK
<1>2. Ordered(E)'
    BY <1>1 DEF Ordered
<1>3. ASSUME Absent(E) PROVE Absent(E)'
    <2>1. \A m \in received' : m <= E
        BY <1>3 DEF Absent
    <2>2. ASSUME NEW m \in 1 .. E - 1, SeqNum(m) \in Listed', 2 * (E - m) < SeqSpace
          PROVE  m \notin received'
        BY <1>1, <1>3, <2>2 DEF Absent
    <2> QED BY <2>1, <2>2 DEF Absent
<1> QED BY <1>2, <1>3

LEMMA OlderOrder ==
    ASSUME TypeOK, buf.contexttialized, NEW E \in Nat, Ordered(E), NEW n, n <= E, Behind(n),
           SeqNum(n) \notin Listed, Distance(buf.end, SeqNum(n)) < 0,
           Delivered(n), NEW b, NEW infos, Opened(n, b, infos)
    PROVE  Ordered(E)' /\ (Absent(E) => Absent(E)')
<1>1. infos = list /\ received' = received \cup {n}
    <2>1. Distance(buf.end, SeqNum(n)) \in Int
        <3>1. buf.end \in Seqs /\ SeqNum(n) \in Seqs
            <4>1. n \in Int
                BY DEF Delivered
            <4> QED BY <4>1, SeqNumFacts DEF TypeOK
        <3> QED BY <3>1, DistanceType
    <2>2. ~(Distance(SeqNum(n), buf.begin) > 0)
        BY <2>1 DEF Behind
    <2> QED BY <2>2, OpenedFacts
<1>2. Listed' \subseteq Listed /\ InSeqOrder(Numbers(list'))
    BY <1>1 DEF Opened, CheckLeft, Ordered, Listed
<1>3. Ordered(E)'
    BY <1>2 DEF Ordered
<1>4. ASSUME Absent(E) PROVE Absent(E)'
    <2>1. \A m \in received' : m <= E
        BY <1>1, <1>4 DEF Absent
    <2>2. ASSUME NEW m \in 1 .. E - 1, SeqNum(m) \in Listed', 2 * (E - m) < SeqSpace
          PROVE  m \notin received'
        BY <1>1, <1>2, <1>4, <2>2 DEF Absent
    <2> QED BY <2>1, <2>2 DEF Absent
<1> QED BY <1>3, <1>4

\* What a newer packet lists is newer than all on the list.
LEMMA NewerListed ==
    ASSUME Near, TypeOK, buf.contexttialized, NEW E \in received, Known(E), Ordered(E),
           NEW n, Delivered(n), n > E, Timely(n), NEW b, NEW infos, Opened(n, b, infos)
    PROVE  /\ infos = Inserted(list, buf.end, SeqNum(n))
           /\ ToSet(Numbers(infos)) = Listed \cup {SeqNum(m) : m \in E + 1 .. n - 1}
           /\ \A sn \in Listed : \E m \in 1 .. E - 1 : sn = SeqNum(m) /\ 2 * (n - m) < SeqSpace
           /\ \A k \in 0 .. Gap(buf.end, SeqNum(n)) - 1 :
                 /\ \A i \in 1 .. Len(list) :
                       Distance(list[i].sn, (buf.end + k) % SeqSpace) > 0
                 /\ \A j \in 0 .. k - 1 :
                       Distance((buf.end + j) % SeqSpace, (buf.end + k) % SeqSpace) > 0
<1>1. /\ n \in 1 .. MaxNumber /\ received' = received \cup {n}
      /\ list \in Seq(Info) /\ now \in Nat
      /\ \A m \in received : m - E <= Reorder
      /\ buf.end = SeqNum(E + 1)
    BY OpenedFacts DEF Known
<1>2. /\ E \in Nat \ {0} /\ n \in Int
      /\ 2 * (n - (E + 1)) < SeqSpace
      /\ Distance(SeqNum(E + 1), SeqNum(n)) = n - (E + 1)
    BY <1>1, ArrivesNear DEF Delivered
<1>3. PICK h \in Nat \ {0} : SeqSpace = 2 * h
    BY Half
<1>4. Distance(buf.end, SeqNum(n)) >= 0
    BY <1>1, <1>2
<1>5. infos = Inserted(list, SeqNum(E + 1), SeqNum(n))
    BY <1>1, <1>4, OpenedFacts
<1>6. /\ ToSet(Numbers(infos)) = Listed \cup {SeqNum(m) : m \in E + 1 .. n - 1}
      /\ Gap(SeqNum(E + 1), SeqNum(n)) = n - (E + 1)
    <2>1. E + 1 \in Int /\ n \in Int /\ E + 1 <= n
        BY <1>1, <1>2
    <2> QED BY <1>1, <1>2, <1>5, <2>1, RangeOf DEF Listed
<1>7. \A sn \in Listed : \E m \in 1 .. E - 1 : sn = SeqNum(m) /\ 2 * (n - m) < SeqSpace
    <2>1. ASSUME NEW sn \in Listed, NEW m \in 1 .. E - 1, sn = SeqNum(m), 2 * (E - m) < SeqSpace
          PROVE  2 * (n - m) < SeqSpace
        <3>1. m \in Int /\ m <= E
            BY <1>2
        <3> QED BY <1>2, <1>4, <2>1, <3>1, StillNear
    <2> QED BY <2>1 DEF Ordered
<1>8. ASSUME NEW x \in Int, NEW y \in Int, x < y, 2 * (y - x) < SeqSpace
      PROVE  Distance(SeqNum(x), SeqNum(y)) > 0
    <2>1. /\ -SeqSpace <= y - x /\ y - x < SeqSpace
          /\ ~(2 * (y - x) >= SeqSpace) /\ ~(2 * (y - x) < -SeqSpace)
        BY <1>3, <1>8
    <2>2. Distance(SeqNum(x), SeqNum(y)) = y - x
        BY <2>1, DistanceOf
    <2> QED BY <1>8, <2>2
<1> DEFINE first == SeqNum(E + 1)
           last == SeqNum(n)
<1>9. ASSUME NEW k \in 0 .. Gap(first, last) - 1
      PROVE  /\ E + 1 + k \in E + 1 .. n - 1 /\ k \in Int
             /\ (first + k) % SeqSpace = SeqNum(E + 1 + k)
    <2>1. k \in 0 .. n - (E + 1) - 1
        BY <1>6
    <2>2. k \in Int /\ E + 1 + k \in E + 1 .. n - 1
        BY <1>2, <2>1
    <2> QED BY <1>2, <2>2, SeqNumFacts
<1>10. ASSUME NEW k \in 0 .. Gap(first, last) - 1, NEW i \in 1 .. Len(list)
      PROVE  Distance(list[i].sn, (first + k) % SeqSpace) > 0
    <2>1. list[i].sn \in Listed
        BY <1>1, NumbersFacts DEF Listed
    <2>2. PICK m \in 1 .. E - 1 : list[i].sn = SeqNum(m) /\ 2 * (n - m) < SeqSpace
        BY <1>7, <2>1
    <2> DEFINE y == E + 1 + k
    <2>3. m \in Int /\ y \in Int /\ m < y /\ 2 * (y - m) < SeqSpace
        BY <1>2, <1>3, <1>9, <2>2
    <2>4. (first + k) % SeqSpace = SeqNum(y)
        BY <1>9
    <2> HIDE DEF y
    <2>5. Distance(SeqNum(m), SeqNum(y)) > 0
        BY <1>8, <2>3
    <2> QED BY <2>2, <2>4, <2>5
<1>11. ASSUME NEW k \in 0 .. Gap(first, last) - 1, NEW j \in 0 .. k - 1
      PROVE  Distance((first + j) % SeqSpace, (first + k) % SeqSpace) > 0
    <2>1. Gap(first, last) \in Int
        BY <1>2, <1>6
    <2>2. j \in 0 .. Gap(first, last) - 1 /\ j < k
        BY <2>1
    <2>3. /\ E + 1 + j \in E + 1 .. n - 1 /\ E + 1 + k \in E + 1 .. n - 1
          /\ (first + j) % SeqSpace = SeqNum(E + 1 + j)
          /\ (first + k) % SeqSpace = SeqNum(E + 1 + k)
        BY <1>9, <2>2
    <2>4. /\ E + 1 + j \in Int /\ E + 1 + k \in Int /\ E + 1 + j < E + 1 + k
          /\ 2 * ((E + 1 + k) - (E + 1 + j)) < SeqSpace
        BY <1>2, <1>3, <2>1, <2>2, <2>3
    <2> QED BY <1>8, <2>3, <2>4
<1> QED BY <1>1, <1>5, <1>6, <1>7, <1>10, <1>11

\* What a newer packet lists goes to the end, in order.
LEMMA NewerOrder ==
    ASSUME Near, TypeOK, buf.contexttialized, NEW E \in received, Known(E), Ordered(E),
           NEW n, Delivered(n), n > E, Timely(n), NEW b, NEW infos, Opened(n, b, infos)
    PROVE  Ordered(n)' /\ (Absent(E) => Absent(n)')
<1>1. /\ n \in 1 .. MaxNumber /\ received' = received \cup {n}
      /\ list \in Seq(Info) /\ now \in Nat
      /\ \A m \in received : m - E <= Reorder
      /\ buf.end = SeqNum(E + 1)
    BY OpenedFacts DEF Known
<1>2. /\ E \in Nat \ {0} /\ n \in Int
      /\ 2 * (n - (E + 1)) < SeqSpace
      /\ Distance(SeqNum(E + 1), SeqNum(n)) = n - (E + 1)
    BY <1>1, ArrivesNear DEF Delivered
<1>3. PICK h \in Nat \ {0} : SeqSpace = 2 * h
    BY Half
<1>4. /\ infos = Inserted(list, buf.end, SeqNum(n))
      /\ ToSet(Numbers(infos)) = Listed \cup {SeqNum(m) : m \in E + 1 .. n - 1}
      /\ \A sn \in Listed : \E m \in 1 .. E - 1 : sn = SeqNum(m) /\ 2 * (n - m) < SeqSpace
      /\ \A k \in 0 .. Gap(buf.end, SeqNum(n)) - 1 :
            /\ \A i \in 1 .. Len(list) :
                  Distance(list[i].sn, (buf.end + k) % SeqSpace) > 0
            /\ \A j \in 0 .. k - 1 :
                  Distance((buf.end + j) % SeqSpace, (buf.end + k) % SeqSpace) > 0
    BY NewerListed
<1>5. InSeqOrder(Numbers(infos))
    <2>1. buf.end \in Seqs /\ SeqNum(n) \in Seqs
        BY <1>2, SeqNumFacts DEF TypeOK
    <2>2. InSeqOrder(Numbers(list))
        BY DEF Ordered
    <2> QED BY <1>1, <1>4, <2>1, <2>2, InsertedLast
<1>6. Listed' \subseteq ToSet(Numbers(infos)) /\ InSeqOrder(Numbers(list'))
    BY <1>5 DEF Opened, CheckLeft, Listed
<1>7. ASSUME NEW sn \in Listed'
      PROVE  \E m \in 1 .. n - 1 : sn = SeqNum(m) /\ 2 * (n - m) < SeqSpace
    <2>1. CASE sn \in Listed
        <3>1. PICK m \in 1 .. E - 1 : sn = SeqNum(m) /\ 2 * (n - m) < SeqSpace
            BY <1>4, <2>1
        <3>2. m \in 1 .. n - 1
            BY <1>2
        <3> QED BY <3>1, <3>2
    <2>2. ASSUME NEW m \in E + 1 .. n - 1, sn = SeqNum(m)
          PROVE  m \in 1 .. n - 1 /\ 2 * (n - m) < SeqSpace
        BY <1>2, <1>3
    <2> QED BY <1>4, <1>6, <2>1, <2>2
<1>8. Ordered(n)'
    BY <1>6, <1>7 DEF Ordered
<1>9. ASSUME Absent(E) PROVE Absent(n)'
    <2>1. \A m \in received : m <= E /\ m \in Int
        BY <1>9, NewestFacts DEF Absent
    <2>2. \A m \in received' : m <= n
        BY <1>1, <1>2, <2>1
    <2>3. ASSUME NEW m \in 1 .. n - 1, SeqNum(m) \in Listed', 2 * (n - m) < SeqSpace
          PROVE  m \notin received'
        <3>1. m \in Int /\ m # n
            BY <1>2
        <3>2. CASE m > E
            BY <1>1, <1>2, <2>1, <3>1, <3>2
        <3>3. CASE m <= E
            <4>1. SeqNum(m) \in Listed
                <5>1. ASSUME NEW k \in E + 1 .. n - 1, SeqNum(m) = SeqNum(k) PROVE FALSE
                    <6>1. k \in Int /\ -SeqSpace < k - m /\ k - m < SeqSpace /\ k # m
                        BY <1>2, <1>3, <2>3, <3>1, <3>3
                    <6> QED BY <3>1, <5>1, <6>1, SameNumber
                <5> QED BY <1>4, <1>6, <2>3, <5>1
            <4>2. m # E
                <5> SUFFICES ASSUME m = E PROVE FALSE
                    OBVIOUS
                <5>1. PICK k \in 1 .. E - 1 : SeqNum(m) = SeqNum(k) /\ 2 * (E - k) < SeqSpace
                    BY <4>1 DEF Ordered
                <5>2. k \in Int /\ -SeqSpace < k - m /\ k - m < SeqSpace /\ k # m
                    BY <1>2, <1>3, <5>1
                <5> QED BY <3>1, <5>1, <5>2, SameNumber
            <4>3. m \in 1 .. E - 1 /\ 2 * (E - m) < SeqSpace
                BY <1>2, <1>3, <2>3, <3>1, <3>3, <4>2
            <4>4. m \notin received
                BY <1>9, <4>1, <4>3 DEF Absent
            <4> QED BY <1>1, <3>1, <4>4
        <3> QED BY <1>2, <3>1, <3>2, <3>3
    <2> QED BY <2>2, <2>3 DEF Absent
<1> QED BY <1>8, <1>9

\* The invariant with the order of the list.
OrderInv ==
    /\ ~buf.contexttialized => list = <<>>
    /\ buf.contexttialized => \E E \in received : Known(E) /\ Ordered(E)

\* The invariant with the order of the list and its packets not arrived.
AbsentInv ==
    /\ ~buf.contexttialized => list = <<>>
    /\ buf.contexttialized => \E E \in received : Known(E) /\ Ordered(E) /\ Absent(E)

\* A packet in a stream of which nothing is known.
LEMMA StartOrder ==
    ASSUME TypeOK, ~buf.contexttialized, list = <<>>, NEW n, Delivered(n)
    PROVE  \/ buf'.contexttialized = FALSE /\ list' = <<>>
           \/ /\ buf'.contexttialized /\ n \in received' /\ Known(n)' /\ Ordered(n)'
              /\ (\A m \in received : m < n) => Absent(n)'
<1>1. n \in 1 .. MaxNumber /\ received' = received \cup {n}
    BY DEF Delivered, OnNack
<1>2. OnUnlisted(n)
    <2>1. Listed = {}
        BY EmptyOrder DEF Listed
    <2> QED BY <2>1 DEF Delivered, OnNack, OnListed
<1>3. RecvInv
    BY DEF RecvInv
<1>4. ASSUME NEW b, NEW infos, Opened(n, b, infos)
      PROVE  /\ buf'.contexttialized /\ n \in received' /\ Known(n)' /\ Ordered(n)'
             /\ (\A m \in received : m < n) => Absent(n)'
    <2>1. Known(n)'
        BY <1>3, <1>4, StartStep
    <2>2. buf'.contexttialized
        BY <1>4 DEF Opened, CheckLeft
    <2>3. list' = <<>>
        <3>1. infos = <<>>
            BY <1>4, OpenedFacts
        <3> QED BY <1>4, <3>1 DEF Opened
    <2>4. InSeqOrder(Numbers(list')) /\ Listed' = {}
        BY <2>3, EmptyOrder DEF Listed
    <2>5. Ordered(n)'
        BY <2>4 DEF Ordered
    <2>6. ASSUME \A m \in received : m < n PROVE Absent(n)'
        <3>1. n \in Int /\ \A m \in received : m \in Int
            BY <1>1, NewestFacts
        <3>2. \A m \in received' : m <= n
            BY <1>1, <2>6, <3>1
        <3> QED BY <2>4, <3>2 DEF Absent
    <2> QED BY <1>1, <2>1, <2>2, <2>5, <2>6
<1> QED BY <1>1, <1>2, <1>4, UnlistedFacts

\* A packet in a stream that is known up to E.
LEMMA GoneOnOrder ==
    ASSUME Near, TypeOK, buf.contexttialized, NEW E \in received, Known(E), Ordered(E),
           NEW n, Delivered(n), Timely(n), Behind(n)
    PROVE  \/ buf'.contexttialized = FALSE /\ list' = <<>>
           \/ /\ buf'.contexttialized
              /\ \E F \in received' : Known(F)' /\ Ordered(F)' /\ (Absent(E) => Absent(F)')
<1>1. /\ n \in 1 .. MaxNumber /\ received' = received \cup {n} /\ E \in Nat /\ n \in Int
      /\ buf.end = SeqNum(E + 1)
    <2>1. n \in 1 .. MaxNumber /\ received' = received \cup {n}
        BY DEF Delivered, OnNack
    <2>2. E \in Nat
        BY NewestFacts
    <2> QED BY <2>1, <2>2 DEF Known
<1>2. CASE OnListed(n)
    <2>1. n <= E /\ Known(E)' /\ buf' = buf
        BY <1>2, ListedStep
    <2>2. Ordered(E)' /\ (Absent(E) => Absent(E)')
        BY <1>1, <1>2, <2>1, ListedOrder
    <2> QED BY <1>1, <2>1, <2>2
<1>3. CASE OnUnlisted(n)
    <2>1. ASSUME NEW b, NEW infos, Opened(n, b, infos)
          PROVE  /\ buf'.contexttialized
                 /\ \E F \in received' : Known(F)' /\ Ordered(F)' /\ (Absent(E) => Absent(F)')
        <3>1. buf'.contexttialized
            BY <2>1 DEF Opened, CheckLeft
        <3>2. CASE n > E
            <4>1. Known(n)'
                BY <2>1, <3>2, NewerStep
            <4>2. Ordered(n)' /\ (Absent(E) => Absent(n)')
                BY <2>1, <3>2, NewerOrder
            <4> QED BY <1>1, <3>1, <4>1, <4>2
        <3>3. CASE n <= E
            <4>1. Known(E)'
                BY <2>1, <3>3, OlderStep
            <4>2. Distance(buf.end, SeqNum(n)) < 0
                <5>1. \A m \in received : m - E <= Reorder
                    BY DEF Known
                <5>2. Distance(SeqNum(E + 1), SeqNum(n)) = n - (E + 1)
                    BY <1>1, <5>1, ArrivesNear DEF Delivered
                <5> QED BY <1>1, <3>3, <5>2
            <4>3. SeqNum(n) \notin Listed
                BY <1>3 DEF OnUnlisted
            <4>4. Ordered(E)' /\ (Absent(E) => Absent(E)')
                BY <1>1, <2>1, <3>3, <4>2, <4>3, OlderOrder
            <4> QED BY <1>1, <3>1, <4>1, <4>4
        <3> QED BY <1>1, <3>2, <3>3
    <2> QED BY <1>1, <1>3, <2>1, UnlistedFacts
<1> QED BY <1>2, <1>3 DEF Delivered, OnNack

LEMMA OrderSame ==
    ASSUME UNCHANGED <<buf, list, received, gone, base>>
    PROVE  (OrderInv => OrderInv') /\ (AbsentInv => AbsentInv')
<1>1. \A E : /\ Known(E) => Known(E)'
             /\ Ordered(E) => Ordered(E)'
             /\ Absent(E) => Absent(E)'
    BY DEF Known, Recent, Ordered, Absent, Listed, Numbers
<1>2. ASSUME OrderInv PROVE OrderInv'
    <2>1. ~buf'.contexttialized => list' = <<>>
        BY <1>2 DEF OrderInv
    <2>2. buf'.contexttialized => \E E \in received' : Known(E)' /\ Ordered(E)'
        BY <1>1, <1>2 DEF OrderInv
    <2> QED BY <2>1, <2>2 DEF OrderInv
<1>3. ASSUME AbsentInv PROVE AbsentInv'
    <2>1. ~buf'.contexttialized => list' = <<>>
        BY <1>3 DEF AbsentInv
    <2>2. buf'.contexttialized => \E E \in received' : Known(E)' /\ Ordered(E)' /\ Absent(E)'
        BY <1>1, <1>3 DEF AbsentInv
    <2> QED BY <2>1, <2>2 DEF AbsentInv
<1> QED BY <1>2, <1>3

LEMMA OrderInvStep ==
    ASSUME Near, TypeOK, OrderInv, [Next]_vars, [InTime]_vars, [NoneEarly]_vars
    PROVE  OrderInv'
<1>1. ASSUME NEW n \in 1 .. MaxNumber,
             n >= Newest - Reorder, n <= Newest + Reorder, OnNack(n), Timely(n), Behind(n)
      PROVE  OrderInv'
    <2>1. Delivered(n)
        BY <1>1 DEF Delivered
    <2>2. CASE ~buf.contexttialized
        BY <2>1, <2>2, StartOrder DEF OrderInv
    <2>3. CASE buf.contexttialized
        <3>1. PICK E \in received : Known(E) /\ Ordered(E)
            BY <2>3 DEF OrderInv
        <3> QED BY <1>1, <2>1, <2>3, <3>1, GoneOnOrder DEF OrderInv
    <2> QED BY <2>2, <2>3
<1>2. CASE UNCHANGED vars
    BY <1>2, OrderSame DEF vars
<1>3. CASE Arrive /\ InTime /\ NoneEarly
    BY <1>1, <1>3 DEF Arrive, InTime, NoneEarly
<1>4. CASE UpdateRtt \/ Tick
    <2>1. UNCHANGED <<buf, list, received, gone, base>>
        BY <1>4 DEF UpdateRtt, Tick
    <2> QED BY <2>1, OrderSame
<1> QED BY <1>2, <1>3, <1>4 DEF Next

LEMMA AbsentInvStep ==
    ASSUME Near, TypeOK, AbsentInv, [Next]_vars, [InTime]_vars, [NoneEarly]_vars,
           [FreshStart]_vars
    PROVE  AbsentInv'
<1>1. ASSUME NEW n \in 1 .. MaxNumber,
             n >= Newest - Reorder, n <= Newest + Reorder, OnNack(n), Timely(n), Behind(n),
             ~buf.contexttialized => \A m \in received : m < n
      PROVE  AbsentInv'
    <2>1. Delivered(n)
        BY <1>1 DEF Delivered
    <2>2. CASE ~buf.contexttialized
        BY <1>1, <2>1, <2>2, StartOrder DEF AbsentInv
    <2>3. CASE buf.contexttialized
        <3>1. PICK E \in received : Known(E) /\ Ordered(E) /\ Absent(E)
            BY <2>3 DEF AbsentInv
        <3> QED BY <1>1, <2>1, <2>3, <3>1, GoneOnOrder DEF AbsentInv
    <2> QED BY <2>2, <2>3
<1>2. CASE UNCHANGED vars
    BY <1>2, OrderSame DEF vars
<1>3. CASE Arrive /\ InTime /\ NoneEarly /\ FreshStart
    BY <1>1, <1>3 DEF Arrive, InTime, NoneEarly, FreshStart
<1>4. CASE UpdateRtt \/ Tick
    <2>1. UNCHANGED <<buf, list, received, gone, base>>
        BY <1>4 DEF UpdateRtt, Tick
    <2> QED BY <2>1, OrderSame
<1> QED BY <1>2, <1>3, <1>4 DEF Next

LEMMA OrderListed ==
    ASSUME OrderInv
    PROVE  ListInSeqOrder
<1>1. CASE ~buf.contexttialized
    BY <1>1, EmptyOrder DEF OrderInv, ListInSeqOrder
<1>2. CASE buf.contexttialized
    BY <1>2 DEF OrderInv, Ordered, ListInSeqOrder
<1> QED BY <1>1, <1>2

LEMMA AbsentListed ==
    ASSUME TypeOK, AbsentInv
    PROVE  ListedIsMissing
<1>1. CASE ~buf.contexttialized
    <2>1. Listed = {}
        BY <1>1, EmptyOrder DEF AbsentInv, Listed
    <2> QED BY <2>1 DEF ListedIsMissing
<1>2. CASE buf.contexttialized
    <2>1. PICK E \in received : Ordered(E) /\ Absent(E)
        BY <1>2 DEF AbsentInv
    <2>2. Newest = E /\ E \in Nat
        <3>1. Newest \in received /\ Newest \in Nat /\ E \in Nat /\ E <= Newest
            BY NewestFacts
        <3>2. Newest <= E
            BY <2>1, <3>1 DEF Absent
        <3> QED BY <3>1, <3>2
    <2>3. ASSUME NEW sn \in Listed PROVE NumberOf(sn) \notin received
        <3>1. PICK m \in 1 .. E - 1 : sn = SeqNum(m) /\ 2 * (E - m) < SeqSpace
            BY <2>1 DEF Ordered
        <3>2. m \in Int /\ 2 * (Newest - m) < SeqSpace /\ 2 * (m - Newest) <= SeqSpace
            <4>1. SeqSpace \in Nat \ {0}
                BY SeqSpaceOK
            <4> QED BY <2>2, <3>1, <4>1
        <3>3. NumberOf(sn) = m
            BY <3>1, <3>2, NumberOfFacts
        <3> QED BY <2>1, <3>1, <3>3 DEF Absent
    <2> QED BY <2>3 DEF ListedIsMissing
<1> QED BY <1>1, <1>2

\* In a stream shorter than half a turn the list of missing packets is in the order its declaration
\* promises, as long as no packet opens a range before the oldest number that the buffer knows.
THEOREM ShortListInOrder ==
    ASSUME 2 * MaxNumber <= SeqSpace
    PROVE  Spec /\ [][NoneEarly]_vars => []ListInSeqOrder
<1>1. Short /\ Near
    BY DEF Short, Near
<1>2. Init => OrderInv
    BY DEF Init, OrderInv
<1>3. TypeOK /\ OrderInv /\ [Next]_vars /\ [NoneEarly]_vars => OrderInv'
    <2> SUFFICES ASSUME TypeOK, OrderInv, [Next]_vars, [NoneEarly]_vars PROVE OrderInv'
        OBVIOUS
    <2>1. RecvInv
        BY DEF OrderInv, RecvInv
    <2>2. [InTime]_vars
        BY <1>1, <2>1, ShortInTime
    <2> QED BY <1>1, <2>2, OrderInvStep
<1>4. OrderInv => ListInSeqOrder
    BY OrderListed
<1> QED BY <1>2, <1>3, <1>4, ListTypesHold, PTL DEF Spec

\* The same of a stream of any length whose packets come in time.
THEOREM ListInOrder ==
    ASSUME 4 * Reorder <= SeqSpace
    PROVE  Spec /\ [][InTime /\ NoneEarly]_vars => []ListInSeqOrder
<1>1. Near
    BY DEF Near
<1>2. Init => OrderInv
    BY DEF Init, OrderInv
<1>3. TypeOK /\ OrderInv /\ [Next]_vars /\ [InTime /\ NoneEarly]_vars => OrderInv'
    BY <1>1, OrderInvStep
<1>4. OrderInv => ListInSeqOrder
    BY OrderListed
<1> QED BY <1>2, <1>3, <1>4, ListTypesHold, PTL DEF Spec

\* In a stream shorter than half a turn nothing that arrived is asked for, as long as no packet
\* opens a range before the oldest number known, and the stream goes on with a newer packet
\* whenever the list was thrown away.
THEOREM ShortListedMissing ==
    ASSUME 2 * MaxNumber <= SeqSpace
    PROVE  Spec /\ [][NoneEarly /\ FreshStart]_vars => []ListedIsMissing
<1>1. Short /\ Near
    BY DEF Short, Near
<1>2. Init => AbsentInv
    BY DEF Init, AbsentInv
<1>3. TypeOK /\ AbsentInv /\ [Next]_vars /\ [NoneEarly /\ FreshStart]_vars => AbsentInv'
    <2> SUFFICES ASSUME TypeOK, AbsentInv, [Next]_vars, [NoneEarly /\ FreshStart]_vars
                 PROVE  AbsentInv'
        OBVIOUS
    <2>1. RecvInv
        BY DEF AbsentInv, RecvInv
    <2>2. [InTime]_vars
        BY <1>1, <2>1, ShortInTime
    <2> QED BY <1>1, <2>2, AbsentInvStep
<1>4. TypeOK /\ AbsentInv => ListedIsMissing
    BY AbsentListed
<1> QED BY <1>2, <1>3, <1>4, ListTypesHold, PTL DEF Spec

\* The same of a stream of any length whose packets come in time.
THEOREM ListedMissing ==
    ASSUME 4 * Reorder <= SeqSpace
    PROVE  Spec /\ [][InTime /\ NoneEarly /\ FreshStart]_vars => []ListedIsMissing
<1>1. Near
    BY DEF Near
<1>2. Init => AbsentInv
    BY DEF Init, AbsentInv
<1>3. TypeOK /\ AbsentInv /\ [Next]_vars /\ [InTime /\ NoneEarly /\ FreshStart]_vars
         => AbsentInv'
    BY <1>1, AbsentInvStep
<1>4. TypeOK /\ AbsentInv => ListedIsMissing
    BY AbsentListed
<1> QED BY <1>2, <1>3, <1>4, ListTypesHold, PTL DEF Spec

-----------------------------------------------------------------------------
(* What is asked for *)

\* Nothing on the list has to be given up.
NoneExpired == \A i \in 1 .. Len(list) : ~Expired(list[i])

\* The numbers of a list were put on it in its order.
Aged(infos) ==
    /\ \A i, j \in 1 .. Len(infos) : i <= j => infos[i].generate_time <= infos[j].generate_time
    /\ \A i \in 1 .. Len(infos) : infos[i].generate_time <= now

Due(info) ==
    /\ ~Expired(info)
    /\ now - info.generate_time >= FirstInterval
    /\ now - info.pre_req_time >= RequestGap

\* What the scan of a list without expired numbers has done after k turns: all that were due have
\* been asked for, and it has only stopped at a young one.
Asked(infos, k, scan) ==
    /\ scan \in Scans /\ Len(scan.list) = Len(infos)
    /\ \A i \in 1 .. Len(infos) :
          /\ scan.list[i].sn = infos[i].sn
          /\ scan.list[i].generate_time = infos[i].generate_time
    /\ \A i \in k + 1 .. Len(infos) : scan.list[i] = infos[i]
    /\ ~scan.stop => scan.at = k + 1
    /\ scan.stop => \E p \in 1 .. k : now - infos[p].generate_time < FirstInterval
    /\ \A i \in 1 .. k : Due(infos[i]) => infos[i].sn \in ToSet(scan.request)

LEMMA AskedOnce ==
    ASSUME NEW r \in Info, now \in Nat
    PROVE  LET asked == [r EXCEPT !.req_count = @ + 1, !.pre_req_time = now]
           IN  asked \in Info /\ asked.sn = r.sn /\ asked.generate_time = r.generate_time
<1> DEFINE a == [r EXCEPT !.req_count = @ + 1]
           b == [a EXCEPT !.pre_req_time = now]
<1>1. a \in Info /\ a.sn = r.sn /\ a.generate_time = r.generate_time
    BY DEF Info
<1>2. [r EXCEPT !.req_count = @ + 1, !.pre_req_time = now] = b
    OBVIOUS
<1> HIDE DEF a
<1>3. b \in Info /\ b.sn = a.sn /\ b.generate_time = a.generate_time
    BY <1>1 DEF Info
<1> QED BY <1>1, <1>2, <1>3

LEMMA AskedTurn ==
    ASSUME NEW infos \in Seq(Info), now \in Nat, Aged(infos),
           \A i \in 1 .. Len(infos) : ~Expired(infos[i]),
           NEW k \in 0 .. Len(infos) - 1, NEW scan, Asked(infos, k, scan)
    PROVE  Asked(infos, k + 1, Turn(scan, k + 1))
<1> DEFINE new == Turn(scan, k + 1)
           n == Len(infos)
           info == infos[k + 1]
<1> SUFFICES Asked(infos, k + 1, new)
    OBVIOUS
<1>1. /\ n \in Nat /\ k \in Nat /\ k + 1 \in 1 .. n /\ FirstInterval \in Nat
      /\ \A i \in 1 .. n : infos[i].generate_time \in Nat
    <2>1. \A i \in 1 .. n : infos[i] \in Info
        OBVIOUS
    <2>2. FirstInterval \in Nat
        BY ConstantsOK
    <2> QED BY <2>1, <2>2 DEF Info
<1>2. /\ scan \in Scans /\ Len(scan.list) = n
      /\ \A i \in 1 .. n :
            scan.list[i].sn = infos[i].sn /\ scan.list[i].generate_time = infos[i].generate_time
      /\ \A i \in k + 1 .. n : scan.list[i] = infos[i]
      /\ ~scan.stop => scan.at = k + 1
      /\ scan.stop => \E p \in 1 .. k : now - infos[p].generate_time < FirstInterval
      /\ \A i \in 1 .. k : Due(infos[i]) => infos[i].sn \in ToSet(scan.request)
    BY DEF Asked
<1>3. /\ scan.buf \in Bufs /\ scan.list \in Seq(Info) /\ scan.request \in Seq(Seqs)
      /\ scan.at \in Nat \ {0} /\ scan.stop \in BOOLEAN
    BY <1>2 DEF Scans
<1>4. info \in Info /\ info.sn \in Seqs /\ ~Expired(info)
    <2>1. info \in Info /\ ~Expired(info)
        BY <1>1
    <2> HIDE DEF info
    <2> QED BY <2>1 DEF Info
\* A turn that changes neither the list nor, unless it is not due, the number's place in it.
<1>5. ASSUME new \in Scans, new.list = scan.list, new.request = scan.request, ~Due(info),
             ~new.stop => new.at = k + 2,
             new.stop => \E p \in 1 .. k + 1 : now - infos[p].generate_time < FirstInterval
      PROVE  Asked(infos, k + 1, new)
    <2>1. \A i \in 1 .. k + 1 : Due(infos[i]) => infos[i].sn \in ToSet(new.request)
        <3>1. \A i \in 1 .. k + 1 : i = k + 1 \/ i \in 1 .. k
            BY <1>1
        <3> HIDE DEF new
        <3> QED BY <1>2, <1>5, <3>1
    <2>2. \A i \in k + 1 + 1 .. n : i \in k + 1 .. n
        BY <1>1
    <2>3. k + 1 + 1 = k + 2
        BY <1>1
    <2> HIDE DEF new, info
    <2> QED BY <1>2, <1>5, <2>1, <2>2, <2>3 DEF Asked
<1>6. CASE scan.stop
    <2>1. new = scan
        BY <1>6 DEF Turn
    <2>2. PICK p \in 1 .. k : now - infos[p].generate_time < FirstInterval
        BY <1>2, <1>6
    <2>3. p \in 1 .. n /\ p <= k + 1 /\ p \in 1 .. k + 1
        BY <1>1
    <2>4. infos[p].generate_time <= info.generate_time
        BY <1>1, <2>3 DEF Aged
    <2>5. ~(now - info.generate_time >= FirstInterval)
        <3>1. infos[p].generate_time \in Nat /\ info.generate_time \in Nat
            BY <1>1, <2>3
        <3> HIDE DEF info
        <3> QED BY <1>1, <2>2, <2>4, <3>1
    <2>6. ~Due(info)
        BY <2>5 DEF Due
    <2> HIDE DEF new, info
    <2> QED BY <1>2, <1>5, <1>6, <2>1, <2>2, <2>3, <2>6
<1>7. ASSUME ~scan.stop
      PROVE  scan.at = k + 1 /\ scan.list[scan.at] = info /\ ~(scan.stop \/ scan.at > n)
    <2>1. scan.at = k + 1 /\ k + 1 \in k + 1 .. n
        BY <1>1, <1>2, <1>7
    <2> QED BY <1>1, <1>2, <1>7, <2>1
<1>8. CASE ~scan.stop /\ now - info.generate_time < FirstInterval
    <2>1. new = [scan EXCEPT !.stop = TRUE]
        BY <1>2, <1>4, <1>7, <1>8 DEF Turn
    <2> HIDE DEF new
    <2>2. /\ new \in Scans /\ new.list = scan.list /\ new.request = scan.request /\ new.stop
        BY <1>2, <2>1 DEF Scans
    <2>3. ~Due(info)
        <3>1. info.generate_time \in Nat
            BY <1>1
        <3> HIDE DEF info
        <3> QED BY <1>1, <1>8, <3>1 DEF Due
    <2>4. k + 1 \in 1 .. k + 1
        BY <1>1
    <2> QED BY <1>5, <1>8, <2>2, <2>3, <2>4
<1>9. CASE /\ ~scan.stop /\ ~(now - info.generate_time < FirstInterval)
           /\ ~(now - info.pre_req_time >= RequestGap)
    <2>1. new = [scan EXCEPT !.at = @ + 1]
        BY <1>2, <1>4, <1>7, <1>9 DEF Turn
    <2> HIDE DEF new
    <2>2. scan.at + 1 = k + 2 /\ scan.at + 1 \in Nat \ {0}
        BY <1>1, <1>7, <1>9
    <2>3. /\ new \in Scans /\ new.list = scan.list /\ new.request = scan.request
          /\ new.stop = scan.stop /\ new.at = k + 2
        BY <1>2, <2>1, <2>2 DEF Scans
    <2>4. ~Due(info)
        BY <1>9 DEF Due
    <2> QED BY <1>5, <1>9, <2>3, <2>4
<1>10. CASE /\ ~scan.stop /\ ~(now - info.generate_time < FirstInterval)
            /\ now - info.pre_req_time >= RequestGap
    <2> DEFINE asked == [info EXCEPT !.req_count = @ + 1, !.pre_req_time = now]
               next == [scan.list EXCEPT ![k + 1] = asked]
               more == Added(scan.request, info.sn)
    <2>1. scan.list \in Seq(Info) /\ k + 1 \in 1 .. Len(scan.list) /\ scan.list[k + 1] = info
        BY <1>1, <1>2, <1>3, <1>7, <1>10
    <2>2. new = [scan EXCEPT !.list = next, !.request = more, !.at = @ + 1]
        <3>1. new = [scan EXCEPT !.list[scan.at].req_count = @ + 1,
                                 !.list[scan.at].pre_req_time = now,
                                 !.request = more,
                                 !.at = @ + 1]
            BY <1>2, <1>4, <1>7, <1>10 DEF Turn, Added
        <3>2. [scan.list EXCEPT ![scan.at].req_count = @ + 1,
                                ![scan.at].pre_req_time = now] = next
            BY <1>7, <1>10, <2>1
        <3> HIDE DEF info, more
        <3> QED BY <3>1, <3>2
    <2>3. asked \in Info /\ asked.sn = info.sn /\ asked.generate_time = info.generate_time
        <3> HIDE DEF info
        <3> QED BY <1>4, AskedOnce
    <2>4. more \in Seq(Seqs) /\ ToSet(more) = ToSet(scan.request) \cup {info.sn}
        BY <1>3, <1>4, AddedFacts
    <2>5. scan.at + 1 = k + 1 + 1 /\ scan.at + 1 \in Nat \ {0}
        BY <1>1, <1>7, <1>10
    <2> HIDE DEF asked, more, info, new
    <2>6. /\ next \in Seq(Info) /\ Len(next) = n
          /\ \A i \in 1 .. n : next[i] = IF i = k + 1 THEN asked ELSE scan.list[i]
        BY <1>2, <2>1, <2>3
    <2> HIDE DEF next
    <2>7. /\ new \in Scans /\ new.list = next /\ new.request = more
          /\ new.stop = scan.stop /\ new.at = k + 1 + 1
        BY <1>2, <2>2, <2>4, <2>5, <2>6 DEF Scans
    <2>8. ASSUME NEW i \in 1 .. n
          PROVE  new.list[i].sn = infos[i].sn /\ new.list[i].generate_time = infos[i].generate_time
        BY <1>2, <2>3, <2>6, <2>7 DEF info
    <2>9. \A i \in k + 1 + 1 .. n : new.list[i] = infos[i]
        <3>1. \A i \in k + 1 + 1 .. n : i \in k + 1 .. n /\ i \in 1 .. n /\ i # k + 1
            BY <1>1
        <3> QED BY <1>2, <2>6, <2>7, <3>1
    <2>10. \A i \in 1 .. k + 1 : Due(infos[i]) => infos[i].sn \in ToSet(new.request)
        <3>1. \A i \in 1 .. k + 1 : i = k + 1 \/ i \in 1 .. k
            BY <1>1
        <3> QED BY <1>2, <2>4, <2>7, <3>1 DEF info
    <2> HIDE DEF n
    <2> QED BY <1>10, <2>6, <2>7, <2>8, <2>9, <2>10 DEF Asked, n
<1> QED BY <1>6, <1>8, <1>9, <1>10

LEMMA AskedAll ==
    ASSUME NEW b \in Bufs, NEW infos \in Seq(Info), now \in Nat, Aged(infos),
           \A i \in 1 .. Len(infos) : ~Expired(infos[i])
    PROVE  Asked(infos, Len(infos), GetNackSeqs(b, infos))
<1> DEFINE n == Len(infos)
<1>1. PICK a : /\ a[0] = Begun(b, infos)
               /\ \A k \in 1 .. n : a[k] = Turn(a[k - 1], k)
               /\ GetNackSeqs(b, infos) = a[n]
    BY Turning
<1>2. n \in Nat
    OBVIOUS
<1> DEFINE Is(k) == Asked(infos, k, a[k])
           S == {k \in 0 .. n : Is(k)}
<1>3. Is(0)
    <2>1. Begun(b, infos) \in Scans
        BY DEF Begun, Scans
    <2> QED BY <1>1, <2>1 DEF Asked, Begun
<1>4. ASSUME NEW k \in 0 .. n - 1, Is(k) PROVE Is(k + 1)
    <2>1. k + 1 \in 1 .. n /\ k + 1 - 1 = k
        BY <1>2
    <2>2. a[k + 1] = Turn(a[k], k + 1)
        BY <1>1, <2>1
    <2> QED BY <1>4, <2>2, AskedTurn
<1> HIDE DEF Is, n
<1>5. n \in S
    <2>1. S \in SUBSET Nat /\ 0 \in S /\ (\A k \in 0 .. n - 1 : k \in S => k + 1 \in S)
          /\ n \in 0 .. n
        BY <1>2, <1>3, <1>4
    <2> HIDE DEF S
    <2> QED BY <1>2, <2>1, Induction
<1> QED BY <1>1, <1>5 DEF Is, n

\* A list that has grown at its end.
Longer(infos) ==
    /\ infos \in Seq(Info) /\ Len(list) <= Len(infos)
    /\ \A i \in 1 .. Len(list) : infos[i] = list[i]
    /\ \A i \in Len(list) + 1 .. Len(infos) :
          infos[i].generate_time = now /\ ~Expired(infos[i])

LEMMA LongerAged ==
    ASSUME TypeOK, Aged(list), NoneExpired, NEW infos, Longer(infos)
    PROVE  Aged(infos) /\ \A i \in 1 .. Len(infos) : ~Expired(infos[i])
<1>1. /\ list \in Seq(Info) /\ infos \in Seq(Info) /\ now \in Nat
      /\ Len(list) \in Nat /\ Len(infos) \in Nat /\ Len(list) <= Len(infos)
    BY DEF TypeOK, Longer
<1>2. \A i \in 1 .. Len(infos) : i \in 1 .. Len(list) \/ i \in Len(list) + 1 .. Len(infos)
    BY <1>1
<1>3. ASSUME NEW i \in 1 .. Len(infos)
      PROVE  infos[i].generate_time <= now /\ ~Expired(infos[i])
    <2>1. CASE i \in 1 .. Len(list)
        <3>1. infos[i] = list[i]
            BY <2>1 DEF Longer
        <3> QED BY <2>1, <3>1 DEF Aged, NoneExpired
    <2>2. CASE i \in Len(list) + 1 .. Len(infos)
        <3>1. infos[i].generate_time = now /\ ~Expired(infos[i])
            BY <2>2 DEF Longer
        <3> QED BY <1>1, <3>1
    <2> QED BY <1>2, <2>1, <2>2
<1>4. ASSUME NEW i \in 1 .. Len(infos), NEW j \in 1 .. Len(infos), i <= j
      PROVE  infos[i].generate_time <= infos[j].generate_time
    <2>1. CASE j \in 1 .. Len(list)
        <3>1. i \in 1 .. Len(list) /\ infos[i] = list[i] /\ infos[j] = list[j]
            <4>1. i \in 1 .. Len(list)
                BY <1>1, <1>4, <2>1
            <4> QED BY <2>1, <4>1 DEF Longer
        <3> QED BY <1>4, <2>1, <3>1 DEF Aged
    <2>2. CASE j \in Len(list) + 1 .. Len(infos)
        <3>1. infos[j].generate_time = now
            BY <2>2 DEF Longer
        <3> QED BY <1>3, <3>1
    <2> QED BY <1>2, <2>1, <2>2
<1> QED BY <1>3, <1>4 DEF Aged

\* What a packet that is not listed makes of the list before it is checked, when none comes early.
LEMMA OpenedLonger ==
    ASSUME Near, TypeOK, OrderInv, NEW n, Delivered(n), Timely(n), Behind(n),
           SeqNum(n) \notin Listed, NEW b, NEW infos, Opened(n, b, infos)
    PROVE  Longer(infos)
<1>1. /\ list \in Seq(Info) /\ now \in Nat /\ n \in 1 .. MaxNumber /\ buf \in Bufs
      /\ MaxAliveTime \in Nat /\ MaxReqCount \in Nat
    <2>1. MaxAliveTime \in Nat /\ MaxReqCount \in Nat
        BY ConstantsOK
    <2> QED BY <2>1, OpenedFacts
<1>2. ASSUME infos = list PROVE Longer(infos)
    <2>1. Len(list) \in Nat
        BY <1>1
    <2> QED BY <1>1, <1>2, <2>1 DEF Longer
<1>3. CASE ~buf.contexttialized
    BY <1>2, <1>3, OpenedFacts
<1>4. CASE buf.contexttialized
    <2>1. PICK E \in received : Known(E) /\ Ordered(E)
        BY <1>4 DEF OrderInv
    <2>2. E \in Nat /\ n \in Int
        BY <1>1, NewestFacts
    <2>3. /\ Distance(buf.end, SeqNum(n)) = n - (E + 1)
          /\ buf.end \in Seqs /\ SeqNum(n) \in Seqs
        <3>1. buf.end = SeqNum(E + 1) /\ \A m \in received : m - E <= Reorder
            BY <2>1 DEF Known
        <3>2. Distance(SeqNum(E + 1), SeqNum(n)) = n - (E + 1)
            BY <1>1, <3>1, ArrivesNear DEF Delivered
        <3> QED BY <2>2, <3>1, <3>2, SeqNumFacts
    <2>4. CASE n <= E
        <3>1. Distance(buf.end, SeqNum(n)) < 0 /\ ~(Distance(buf.end, SeqNum(n)) >= 0)
            BY <2>2, <2>3, <2>4
        <3>2. ~(Distance(SeqNum(n), buf.begin) > 0)
            BY <1>4, <3>1 DEF Behind
        <3> QED BY <1>2, <1>4, <3>1, <3>2, OpenedFacts
    <2>5. CASE n > E
        <3> DEFINE gap == Gap(buf.end, SeqNum(n))
                   m == Len(list)
        <3>1. /\ infos = Inserted(list, buf.end, SeqNum(n))
              /\ \A k \in 0 .. gap - 1 :
                    /\ \A i \in 1 .. Len(list) :
                          Distance(list[i].sn, (buf.end + k) % SeqSpace) > 0
                    /\ \A j \in 0 .. k - 1 :
                          Distance((buf.end + j) % SeqSpace, (buf.end + k) % SeqSpace) > 0
            BY <1>4, <2>1, <2>5, NewerListed
        <3>2. gap \in Nat /\ m \in Nat
            BY <1>1, <2>3, GapType
        <3>3. /\ infos \in Seq(Info) /\ Len(infos) = m + gap
              /\ \A i \in 1 .. m : infos[i] = list[i]
              /\ \A i \in m + 1 .. m + gap :
                    infos[i] = NewInfo((buf.end + (i - m - 1)) % SeqSpace)
            BY <1>1, <2>3, <3>1, InsertedAtEnd
        <3> HIDE DEF gap
        <3>4. \A x : NewInfo(x).generate_time = now /\ ~Expired(NewInfo(x))
            BY <1>1 DEF NewInfo, Expired
        <3>5. \A i \in m + 1 .. Len(infos) : infos[i].generate_time = now /\ ~Expired(infos[i])
            BY <3>3, <3>4
        <3>6. m <= Len(infos)
            BY <3>2, <3>3
        <3> QED BY <3>3, <3>5, <3>6 DEF Longer
    <2> QED BY <2>2, <2>4, <2>5
<1> QED BY <1>3, <1>4

\* The check of a list without expired numbers.
LEMMA CheckedDue ==
    ASSUME TypeOK, NEW b \in Bufs, NEW infos \in Seq(Info), Aged(infos), now' = now,
           \A i \in 1 .. Len(infos) : ~Expired(infos[i]), CheckSendNacks(b, infos)
    PROVE  /\ Aged(list)'
           /\ preCheck' # preCheck =>
                 \A i \in 1 .. Len(infos) : Due(infos[i]) => infos[i].sn \in ToSet(request')
<1>1. CASE infos # <<>> /\ now - preCheck >= CheckInterval
    <2> DEFINE scan == GetNackSeqs(b, infos)
    <2>1. list' = scan.list /\ request' = scan.request
        BY <1>1 DEF CheckSendNacks
    <2>2. Asked(infos, Len(infos), scan)
        BY AskedAll DEF TypeOK
    <2> HIDE DEF scan
    <2>3. /\ Len(list') = Len(infos)
          /\ \A i \in 1 .. Len(infos) : list'[i].generate_time = infos[i].generate_time
          /\ \A i \in 1 .. Len(infos) : Due(infos[i]) => infos[i].sn \in ToSet(request')
        BY <2>1, <2>2 DEF Asked
    <2>4. Aged(list)'
        BY <2>3 DEF Aged
    <2> QED BY <2>3, <2>4
<1>2. CASE ~(infos # <<>> /\ now - preCheck >= CheckInterval)
    <2>1. list' = infos /\ preCheck' = preCheck
        BY <1>2 DEF CheckSendNacks
    <2>2. Aged(list)'
        BY <2>1 DEF Aged
    <2> QED BY <2>1, <2>2
<1> QED BY <1>1, <1>2

LEMMA ShorterAged ==
    ASSUME list \in Seq(Info), Aged(list), NEW n, OnListed(n), now' = now
    PROVE  Aged(list)'
<1> DEFINE k == Found(n)
           m == Len(list)
           At(i) == IF i < k THEN i ELSE i + 1
<1>1. k \in 1 .. m /\ m \in Nat /\ list' = RemoveAt(list, k)
    <2>1. SeqNum(n) \in Listed /\ list' = RemoveAt(list, k)
        BY DEF OnListed, Found
    <2> QED BY <2>1, FoundFacts
<1> HIDE DEF k
<1>2. /\ Len(list') = m - 1
      /\ \A i \in 1 .. m - 1 : list'[i] = IF i < k THEN list[i] ELSE list[i + 1]
    BY <1>1, RemovedFacts
<1> HIDE DEF m
<1>3. /\ \A i \in 1 .. m - 1 : At(i) \in 1 .. m /\ list'[i] = list[At(i)]
      /\ \A i, j \in 1 .. m - 1 : i <= j => At(i) <= At(j)
    BY <1>1, <1>2
<1> HIDE DEF At
<1>4. /\ \A i, j \in 1 .. m : i <= j => list[i].generate_time <= list[j].generate_time
      /\ \A i \in 1 .. m : list[i].generate_time <= now
    BY DEF Aged, m
<1>5. /\ \A i, j \in 1 .. m - 1 : i <= j => list'[i].generate_time <= list'[j].generate_time
      /\ \A i \in 1 .. m - 1 : list'[i].generate_time <= now
    BY <1>3, <1>4
<1> QED BY <1>2, <1>5 DEF Aged

LEMMA DueStep ==
    ASSUME Near, TypeOK, OrderInv, Aged(list), NoneExpired,
           [Next]_vars, [InTime]_vars, [NoneEarly]_vars
    PROVE  /\ Aged(list)'
           /\ preCheck' # preCheck =>
                 \A i \in 1 .. Len(list) : Due(list[i]) => list[i].sn \in ToSet(request')
<1>1. list \in Seq(Info) /\ now \in Nat
    BY DEF TypeOK
<1>2. ASSUME list' = list, now' \in Nat, now <= now', preCheck' = preCheck
      PROVE  Aged(list)'
    <2>1. \A i \in 1 .. Len(list) : list[i].generate_time \in Nat
        <3>1. \A i \in 1 .. Len(list) : list[i] \in Info
            BY <1>1
        <3> QED BY <3>1 DEF Info
    <2>2. \A i \in 1 .. Len(list) : list[i].generate_time <= now'
        BY <1>1, <1>2, <2>1 DEF Aged
    <2> QED BY <1>2, <2>2 DEF Aged
<1>3. CASE UpdateRtt \/ Tick \/ UNCHANGED vars
    <2>1. list' = list /\ preCheck' = preCheck /\ (now' = now \/ now' = now + 1)
        BY <1>3 DEF UpdateRtt, Tick, vars
    <2>2. now' \in Nat /\ now <= now'
        BY <1>1, <2>1
    <2> QED BY <1>2, <2>1, <2>2
<1>4. ASSUME NEW n \in 1 .. MaxNumber,
             n >= Newest - Reorder, n <= Newest + Reorder, OnNack(n), Timely(n), Behind(n)
      PROVE  /\ Aged(list)'
             /\ preCheck' # preCheck =>
                   \A i \in 1 .. Len(list) : Due(list[i]) => list[i].sn \in ToSet(request')
    <2>1. Delivered(n) /\ now' = now
        BY <1>4 DEF Delivered, OnNack
    <2>2. CASE OnListed(n)
        <3>1. preCheck' = preCheck
            BY <2>2 DEF OnListed
        <3> QED BY <1>1, <2>1, <2>2, <3>1, ShorterAged
    <2>3. CASE OnUnlisted(n)
        <3>1. CASE list' = <<>> /\ preCheck' = preCheck
            BY <3>1 DEF Aged
        <3>2. ASSUME NEW b, NEW infos, Opened(n, b, infos)
              PROVE  /\ Aged(list)'
                     /\ preCheck' # preCheck =>
                           \A i \in 1 .. Len(list) : Due(list[i]) => list[i].sn \in ToSet(request')
            <4>1. Longer(infos)
                <5>1. SeqNum(n) \notin Listed
                    BY <2>3 DEF OnUnlisted
                <5> QED BY <1>4, <2>1, <3>2, <5>1, OpenedLonger
            <4>2. Aged(infos) /\ \A i \in 1 .. Len(infos) : ~Expired(infos[i])
                BY <4>1, LongerAged
            <4>3. infos \in Seq(Info) /\ CheckSendNacks(b, infos) /\ b \in Bufs
                BY <2>1, <3>2, OpenedFacts DEF Opened
            <4>4. /\ Aged(list)'
                  /\ preCheck' # preCheck =>
                        \A i \in 1 .. Len(infos) : Due(infos[i]) => infos[i].sn \in ToSet(request')
                BY <2>1, <4>2, <4>3, CheckedDue
            <4>5. \A i \in 1 .. Len(list) : i \in 1 .. Len(infos) /\ infos[i] = list[i]
                <5>1. Len(list) \in Nat /\ Len(infos) \in Nat /\ Len(list) <= Len(infos)
                    BY <1>1, <4>1, <4>3 DEF Longer
                <5> QED BY <4>1, <5>1 DEF Longer
            <4> QED BY <4>4, <4>5
        <3> QED BY <2>3, <3>1, <3>2, UnlistedFacts
    <2> QED BY <1>4, <2>2, <2>3 DEF OnNack
<1>5. CASE Arrive /\ InTime /\ NoneEarly
    BY <1>4, <1>5 DEF Arrive, InTime, NoneEarly
<1> QED BY <1>3, <1>5 DEF Next

\* What DueIsAsked says of a step.
AskStep ==
    preCheck' # preCheck =>
        \A info \in ToSet(list) :
            (/\ ~Expired(info)
             /\ now - info.generate_time >= FirstInterval
             /\ now - info.pre_req_time >= RequestGap
             /\ info.sn \in ToSet(Numbers(list')))
                => info.sn \in ToSet(request')

LEMMA AskedStep ==
    ASSUME Near, TypeOK, OrderInv, Aged(list), NoneExpired,
           [Next]_vars, [InTime]_vars, [NoneEarly]_vars
    PROVE  OrderInv' /\ Aged(list)' /\ [AskStep]_vars
<1>1. OrderInv'
    BY OrderInvStep
<1>2. /\ Aged(list)'
      /\ preCheck' # preCheck =>
            \A i \in 1 .. Len(list) : Due(list[i]) => list[i].sn \in ToSet(request')
    BY DueStep
<1>3. ASSUME preCheck' # preCheck, NEW info \in ToSet(list), Due(info)
      PROVE  info.sn \in ToSet(request')
    <2>1. list \in Seq(Info) /\ DOMAIN list = 1 .. Len(list)
        BY DEF TypeOK
    <2>2. PICK i \in 1 .. Len(list) : info = list[i]
        BY <2>1 DEF ToSet
    <2> QED BY <1>2, <1>3, <2>2
<1>4. AskStep
    BY <1>3 DEF AskStep, Due
<1> QED BY <1>1, <1>2, <1>4

\* In a stream shorter than half a turn the scan may stop at the first number that is still young,
\* because the numbers were listed in the order of the list: when no packet comes early and nothing
\* has to be given up, every number that is due is asked for whenever the list is checked.
THEOREM ShortAllDueAsked ==
    ASSUME 2 * MaxNumber <= SeqSpace
    PROVE  Spec /\ [][NoneEarly]_vars /\ []NoneExpired => DueIsAsked
<1>1. Short /\ Near
    BY DEF Short, Near
<1>2. Init => OrderInv /\ Aged(list)
    BY DEF Init, OrderInv, Aged
<1>3. TypeOK /\ OrderInv /\ Aged(list) /\ NoneExpired /\ [Next]_vars /\ [NoneEarly]_vars
      => OrderInv' /\ Aged(list)' /\ [AskStep]_vars
    <2> SUFFICES ASSUME TypeOK, OrderInv, Aged(list), NoneExpired, [Next]_vars, [NoneEarly]_vars
                 PROVE  OrderInv' /\ Aged(list)' /\ [AskStep]_vars
        OBVIOUS
    <2>1. RecvInv
        BY DEF OrderInv, RecvInv
    <2>2. [InTime]_vars
        BY <1>1, <2>1, ShortInTime
    <2> QED BY <1>1, <2>2, AskedStep
<1>4. DueIsAsked <=> [][AskStep]_vars
    BY DEF DueIsAsked, AskStep
<1> QED BY <1>2, <1>3, <1>4, ListTypesHold, PTL DEF Spec

\* The same of a stream of any length whose packets come in time.
THEOREM AllDueAsked ==
    ASSUME 4 * Reorder <= SeqSpace
    PROVE  Spec /\ [][InTime /\ NoneEarly]_vars /\ []NoneExpired => DueIsAsked
<1>1. Near
    BY DEF Near
<1>2. Init => OrderInv /\ Aged(list)
    BY DEF Init, OrderInv, Aged
<1>3. /\ TypeOK /\ OrderInv /\ Aged(list) /\ NoneExpired
      /\ [Next]_vars /\ [InTime /\ NoneEarly]_vars
      => OrderInv' /\ Aged(list)' /\ [AskStep]_vars
    BY <1>1, AskedStep
<1>4. DueIsAsked <=> [][AskStep]_vars
    BY DEF DueIsAsked, AskStep
<1> QED BY <1>2, <1>3, <1>4, ListTypesHold, PTL DEF Spec
=============================================================================
