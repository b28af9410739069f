-------------------------- MODULE NackCodecProofs --------------------------
(***************************************************************************)
(* Proofs about NackCodec, for every sequence space, every width of the    *)
(* mask and every number of lost packets in a NACK.                        *)
(*                                                                         *)
(* The loops of the codec are folds. The first part proves, by an          *)
(* induction over sets of numbers, that a fold passes from each position   *)
(* to the next, the second what each loop does at one position, and the    *)
(* last puts encoder and decoder together.                                 *)
(***************************************************************************)
EXTENDS NackCodec, SequenceTheorems, WellFoundedInduction, TLAPS

-----------------------------------------------------------------------------
(* Induction *)

LEMMA Least ==
    ASSUME NEW T \in SUBSET Nat, T # {}
    PROVE  \E x \in T : \A y \in T : x <= y
<1> DEFINE R == {ss \in Nat \X Nat : ss[1] < ss[2]}
<1>1. IsWellFoundedOn(R, Nat)
    BY NatLessThanWellFounded DEF OpToRel
<1>2. PICK x \in T : \A y \in T : ~ (<<y, x>> \in R)
    BY <1>1, WFMin
<1>3. ASSUME NEW y \in T PROVE x <= y
    <2>1. <<y, x>> \notin R /\ <<y, x>> \in Nat \X Nat
        BY <1>2
    <2> QED BY <2>1
<1> QED BY <1>3

\* A set that holds 0 and, with a number below n, the next one, holds 0 .. n.
LEMMA Induction ==
    ASSUME NEW n \in Nat, NEW S \in SUBSET Nat, 0 \in S,
           \A k \in 0 .. n - 1 : k \in S => k + 1 \in S
    PROVE  0 .. n \subseteq S
<1> DEFINE T == 0 .. n \ S
<1> SUFFICES ASSUME T # {} PROVE FALSE
    OBVIOUS
<1>1. T \in SUBSET Nat
    OBVIOUS
<1> HIDE DEF T
<1>2. PICK x \in T : \A y \in T : x <= y
    BY <1>1, Least
<1>3. x - 1 \in 0 .. n - 1
    BY <1>2 DEF T
<1>4. x - 1 \notin T /\ x \in Nat
    BY <1>1, <1>2, <1>3
<1>5. x - 1 \in S /\ x \notin S
    BY <1>2, <1>3, <1>4 DEF T
<1>6. x - 1 + 1 \in S
    BY <1>3, <1>5
<1> QED BY <1>4, <1>5, <1>6

-----------------------------------------------------------------------------
(* Folds: a fold goes through the positions of a sequence from the first   *)
(* to the last                                                             *)

LEMMA MaxOf ==
    ASSUME NEW n \in Nat, NEW s \in SUBSET (1 .. n), s # {}
    PROVE  Max(s) \in s /\ \A y \in s : y <= Max(s)
<1> DEFINE T == {n - y : y \in s}
<1>1. T \in SUBSET Nat /\ T # {}
    <2>1. \A y \in s : n - y \in Nat
        OBVIOUS
    <2> QED BY <2>1
<1> HIDE DEF T
<1>2. PICK x \in T : \A y \in T : x <= y
    BY <1>1, Least
<1>3. PICK m \in s : x = n - m
    BY <1>2 DEF T
<1>4. ASSUME NEW y \in s PROVE m >= y
    <2>1. n - y \in T
        BY DEF T
    <2>2. n - m <= n - y
        BY <2>1, <1>2, <1>3
    <2> QED BY <2>2
<1>5. \A y \in s : m >= y
    BY <1>4
<1>6. Max(s) \in s /\ \A y \in s : Max(s) >= y
    BY <1>5 DEF Max
<1> QED BY <1>6

LEMMA MaxOfPrefix ==
    ASSUME NEW n \in Nat \ {0}
    PROVE  Max(1 .. n) = n /\ (1 .. n) \ {Max(1 .. n)} = 1 .. n - 1
<1>1. 1 .. n \in SUBSET (1 .. n) /\ n \in 1 .. n
    OBVIOUS
<1>2. Max(1 .. n) \in 1 .. n /\ \A y \in 1 .. n : y <= Max(1 .. n)
    BY <1>1, MaxOf
<1>3. Max(1 .. n) = n
    BY <1>1, <1>2
<1> QED BY <1>3

\* What a fold goes through: its value for each set of positions.
Iterates(g, n, T, start, step) ==
    /\ g \in [SUBSET (1 .. n) -> T]
    /\ \A s \in SUBSET (1 .. n) :
          g[s] = IF s = {} THEN start ELSE step[<<g[s \ {Max(s)}], Max(s)>>]

\* The function over sets of positions that the folds are defined with exists.
LEMMA Iteration ==
    ASSUME NEW n \in Nat, NEW T, NEW start \in T, NEW step \in [T \X (1 .. n) -> T]
    PROVE  \E g : Iterates(g, n, T, start, step)
<1> DEFINE Good(k, g) ==
               \A s \in SUBSET (1 .. k) :
                  g[s] = IF s = {} THEN start ELSE step[<<g[s \ {Max(s)}], Max(s)>>]
           S == {k \in 0 .. n : \E g \in [SUBSET (1 .. k) -> T] : Good(k, g)}
<1>1. 0 \in S
    <2> DEFINE g == [s \in SUBSET (1 .. 0) |-> start]
    <2>1. g \in [SUBSET (1 .. 0) -> T]
        OBVIOUS
    <2>2. Good(0, g)
        <3>1. SUBSET (1 .. 0) = {{}}
            OBVIOUS
        <3> QED BY <3>1
    <2>3. 0 \in 0 .. n
        OBVIOUS
    <2> HIDE DEF g, Good
    <2> QED BY <2>1, <2>2, <2>3
<1>2. ASSUME NEW k \in 0 .. n - 1, k \in S PROVE k + 1 \in S
    <2>1. PICK g \in [SUBSET (1 .. k) -> T] : Good(k, g)
        BY <1>2
    <2> DEFINE h == [s \in SUBSET (1 .. k + 1) |->
                        IF k + 1 \in s THEN step[<<g[s \ {k + 1}], k + 1>>] ELSE g[s]]
    <2>2. ASSUME NEW s \in SUBSET (1 .. k + 1), k + 1 \in s
          PROVE  /\ s \ {k + 1} \in SUBSET (1 .. k)
                 /\ Max(s) = k + 1
                 /\ h[s] \in T
                 /\ h[s] = step[<<h[s \ {Max(s)}], Max(s)>>]
        <3>1. s \ {k + 1} \in SUBSET (1 .. k) /\ s \ {k + 1} \in SUBSET (1 .. k + 1)
            BY <2>2
        <3>2. Max(s) = k + 1
            <4> HIDE DEF h, Good
            <4>1. k + 1 \in Nat /\ s # {}
                BY <2>2
            <4>2. Max(s) \in s /\ \A y \in s : y <= Max(s)
                BY <4>1, MaxOf
            <4>3. Max(s) \in 1 .. k + 1 /\ k + 1 <= Max(s)
                BY <2>2, <4>2
            <4> QED BY <4>3
        <3>3. h[s] = step[<<g[s \ {k + 1}], k + 1>>] /\ h[s \ {k + 1}] = g[s \ {k + 1}]
            BY <2>2, <3>1
        <3>4. g[s \ {k + 1}] \in T /\ k + 1 \in 1 .. n
            BY <3>1
        <3>5. h[s] \in T
            BY <3>3, <3>4
        <3> HIDE DEF h
        <3> QED BY <3>1, <3>2, <3>3, <3>5
    <2>3. ASSUME NEW s \in SUBSET (1 .. k + 1), k + 1 \notin s
          PROVE  /\ s \in SUBSET (1 .. k)
                 /\ h[s] = g[s]
                 /\ s # {} => h[s \ {Max(s)}] = g[s \ {Max(s)}]
        <3>1. s \in SUBSET (1 .. k)
            BY <2>3
        <3>2. s \ {Max(s)} \in SUBSET (1 .. k + 1) /\ k + 1 \notin s \ {Max(s)}
            BY <2>3
        <3> QED BY <2>3, <3>1, <3>2
    <2>4. h \in [SUBSET (1 .. k + 1) -> T]
        BY <2>2, <2>3
    <2>5. Good(k + 1, h)
        <3> SUFFICES ASSUME NEW s \in SUBSET (1 .. k + 1)
                     PROVE  h[s] = IF s = {} THEN start
                                   ELSE step[<<h[s \ {Max(s)}], Max(s)>>]
            OBVIOUS
        <3>1. CASE k + 1 \in s
            <4> HIDE DEF h
            <4> QED BY <2>2, <3>1
        <3>2. CASE k + 1 \notin s
            <4>1. s \in SUBSET (1 .. k) /\ h[s] = g[s]
                  /\ (s # {} => h[s \ {Max(s)}] = g[s \ {Max(s)}])
                BY <2>3, <3>2
            <4>2. g[s] = IF s = {} THEN start ELSE step[<<g[s \ {Max(s)}], Max(s)>>]
                BY <2>1, <4>1
            <4> HIDE DEF h
            <4> QED BY <4>1, <4>2
        <3> QED BY <3>1, <3>2
    <2> HIDE DEF h, Good
    <2> QED BY <2>4, <2>5
<1>3. n \in S
    <2>1. S \in SUBSET Nat /\ n \in 0 .. n
        OBVIOUS
    <2> HIDE DEF S
    <2> QED BY <1>1, <1>2, <2>1, Induction
<1>4. PICK g \in [SUBSET (1 .. n) -> T] : Good(n, g)
    BY <1>3
<1>5. Iterates(g, n, T, start, step)
    BY <1>4 DEF Iterates
<1> HIDE DEF Good
<1> QED BY <1>5

-----------------------------------------------------------------------------
(* A number put into a sorted list *)

LEMMA Remainder ==
    ASSUME NEW x \in Int
    PROVE  x % SeqSpace \in Seqs
BY SeqSpaceOK DEF Seqs

LEMMA DistanceType ==
    ASSUME NEW a \in Seqs, NEW b \in Seqs
    PROVE  Distance(a, b) \in Int
BY SeqSpaceOK DEF Distance, Seqs

\* The list new is the list sns with sn after its first k elements.
PutIn(new, T, sns, k, sn) ==
    /\ new \in Seq(T)
    /\ Len(new) = Len(sns) + 1
    /\ \A i \in 1 .. Len(sns) + 1 :
          new[i] = IF i <= k THEN sns[i] ELSE IF i = k + 1 THEN sn ELSE sns[i - 1]

\* A list stays one when an element is put into it, and gets that element.
LEMMA SplicedFacts ==
    ASSUME NEW T, NEW sns \in Seq(T), NEW k \in 0 .. Len(sns), NEW sn \in T
    PROVE  PutIn(Spliced(sns, k, sn), T, sns, k, sn)
<1> DEFINE a == SubSeq(sns, 1, k)
           b == <<sn>>
           c == SubSeq(sns, k + 1, Len(sns))
<1>1. a \in Seq(T) /\ Len(a) = k /\ \A i \in 1 .. k : a[i] = sns[i]
    <2>1. \A i \in 1 .. k : sns[i] \in T
        OBVIOUS
    <2>2. /\ a \in Seq(T)
          /\ Len(a) = IF 1 <= k THEN k - 1 + 1 ELSE 0
          /\ \A i \in 1 .. k - 1 + 1 : a[i] = sns[1 + i - 1]
        BY <2>1, SubSeqProperties
    <2> HIDE DEF a
    <2>3. (IF 1 <= k THEN k - 1 + 1 ELSE 0) = k /\ k - 1 + 1 = k
        OBVIOUS
    <2>4. \A i \in 1 .. k : 1 + i - 1 = i
        OBVIOUS
    <2>5. \A i \in 1 .. k : a[i] = sns[1 + i - 1]
        BY <2>2, <2>3
    <2> QED BY <2>2, <2>3, <2>4, <2>5
<1>2. b \in Seq(T) /\ Len(b) = 1 /\ b[1] = sn
    OBVIOUS
<1>3. c \in Seq(T) /\ Len(c) = Len(sns) - k /\ \A i \in 1 .. Len(sns) - k : c[i] = sns[k + i]
    <2>1. \A i \in k + 1 .. Len(sns) : sns[i] \in T
        OBVIOUS
    <2>2. /\ c \in Seq(T)
          /\ Len(c) = IF k + 1 <= Len(sns) THEN Len(sns) - (k + 1) + 1 ELSE 0
          /\ \A i \in 1 .. Len(sns) - (k + 1) + 1 : c[i] = sns[k + 1 + i - 1]
        BY <2>1, SubSeqProperties
    <2> HIDE DEF c
    <2> DEFINE m == Len(sns) - k
    <2>3. /\ m \in Nat /\ Len(sns) - (k + 1) + 1 = m
          /\ (IF k + 1 <= Len(sns) THEN Len(sns) - (k + 1) + 1 ELSE 0) = m
        OBVIOUS
    <2> HIDE DEF m
    <2>4. \A i \in 1 .. m : k + 1 + i - 1 = k + i
        BY <2>3
    <2>5. \A i \in 1 .. m : c[i] = sns[k + 1 + i - 1]
        BY <2>2, <2>3
    <2>6. c \in Seq(T) /\ Len(c) = m /\ \A i \in 1 .. m : c[i] = sns[k + i]
        BY <2>2, <2>3, <2>4, <2>5
    <2> QED BY <2>6 DEF m
<1>4. /\ a \o b \in Seq(T)
      /\ Len(a \o b) = k + 1
      /\ \A i \in 1 .. k + 1 : (a \o b)[i] = IF i <= k THEN sns[i] ELSE sn
    <2> HIDE DEF a, b, c
    <2>1. /\ a \o b \in Seq(T)
          /\ Len(a \o b) = Len(a) + Len(b)
          /\ \A i \in 1 .. Len(a) + Len(b) :
                (a \o b)[i] = IF i <= Len(a) THEN a[i] ELSE b[i - Len(a)]
        BY <1>1, <1>2, ConcatProperties
    <2> QED BY <1>1, <1>2, <2>1
<1>5. Spliced(sns, k, sn) = (a \o b) \o c
    BY DEF Spliced
<1> DEFINE d == a \o b
<1> HIDE DEF a, b, c, d
<1>6. /\ d \in Seq(T) /\ Len(d) = k + 1
      /\ \A i \in 1 .. k + 1 : d[i] = IF i <= k THEN sns[i] ELSE sn
    BY <1>4 DEF d
<1>7. /\ d \o c \in Seq(T)
      /\ Len(d \o c) = Len(d) + Len(c)
      /\ \A i \in 1 .. Len(d) + Len(c) :
            (d \o c)[i] = IF i <= Len(d) THEN d[i] ELSE c[i - Len(d)]
    BY <1>6, <1>3, ConcatProperties
<1> DEFINE e == d \o c
<1>8. Spliced(sns, k, sn) = e
    BY <1>5 DEF d
<1>9. /\ e \in Seq(T) /\ Len(e) = Len(sns) + 1
      /\ \A i \in 1 .. Len(sns) + 1 :
            e[i] = IF i <= k + 1 THEN d[i] ELSE c[i - (k + 1)]
    BY <1>3, <1>6, <1>7
<1> HIDE DEF e
<1>10. ASSUME NEW i \in 1 .. Len(sns) + 1
       PROVE  e[i] = IF i <= k THEN sns[i] ELSE IF i = k + 1 THEN sn ELSE sns[i - 1]
    <2>1. CASE i <= k + 1
        BY <1>6, <1>9, <2>1
    <2>2. CASE i > k + 1
        <3>1. i - (k + 1) \in 1 .. Len(sns) - k /\ k + (i - (k + 1)) = i - 1
            BY <2>2
        <3>2. c[i - (k + 1)] = sns[i - 1]
            BY <1>3, <3>1
        <3> QED BY <1>9, <2>2, <3>2
    <2> QED BY <2>1, <2>2
<1> QED BY <1>8, <1>9, <1>10 DEF PutIn

\* Where a number is put: in the list, or nowhere because it is there already.
\* Before the first element it is put only when the list has no other.
LEMMA PlaceFacts ==
    ASSUME NEW sns \in Seq(Seqs), NEW sn \in Seqs
    PROVE  \/ Place(sns, sn) = Duplicate /\ \E i \in 1 .. Len(sns) : sns[i] = sn
           \/ /\ Place(sns, sn) \in 0 .. Len(sns)
              /\ Place(sns, sn) = 0 =>
                    Len(sns) = 0 \/ (Len(sns) = 1 /\ Distance(sn, sns[1]) > 0)
<1> DEFINE n == Len(sns)
           Stops == {i \in 1 .. n - 1 :
                        \/ sn \in {sns[i], sns[i + 1]}
                        \/ Distance(sns[i], sn) > 0 /\ Distance(sn, sns[i + 1]) > 0}
           stop == CHOOSE i \in Stops : \A j \in Stops : i <= j
<1>1. Place(sns, sn) =
        CASE n = 0                 -> 0
          [] Stops # {}            -> IF sn \in {sns[stop], sns[stop + 1]}
                                      THEN Duplicate ELSE stop
          [] Stops = {} /\ n > 0   -> IF sns[n] = sn THEN Duplicate
                                      ELSE IF Distance(sn, sns[n]) > 0 THEN n - 1 ELSE n
    BY DEF Place
<1>2. n \in Nat /\ Stops \in SUBSET (1 .. n - 1)
    OBVIOUS
<1> HIDE DEF Stops
<1>3. Stops # {} => stop \in Stops
    <2> SUFFICES ASSUME Stops # {} PROVE stop \in Stops
        OBVIOUS
    <2>1. Stops \in SUBSET Nat
        BY <1>2
    <2>2. \E x \in Stops : \A y \in Stops : x <= y
        BY <2>1, Least
    <2> QED BY <2>2
<1> HIDE DEF stop
<1>4. CASE n = 0
    BY <1>1, <1>2, <1>4
<1>5. CASE n > 0 /\ Stops # {}
    <2>1. Place(sns, sn) = IF sn \in {sns[stop], sns[stop + 1]} THEN Duplicate ELSE stop
        BY <1>1, <1>2, <1>5
    <2>2. stop \in 1 .. n - 1 /\ stop \in 1 .. n /\ stop + 1 \in 1 .. n
        <3>1. stop \in 1 .. n - 1
            BY <1>2, <1>3, <1>5
        <3> HIDE DEF n
        <3> QED BY <1>2, <3>1
    <2>3. CASE sn \in {sns[stop], sns[stop + 1]}
        BY <2>1, <2>2, <2>3
    <2>4. CASE sn \notin {sns[stop], sns[stop + 1]}
        BY <2>1, <2>2, <2>4
    <2> QED BY <2>3, <2>4
<1>6. CASE n > 0 /\ Stops = {}
    <2>1. Place(sns, sn) = IF sns[n] = sn THEN Duplicate
                           ELSE IF Distance(sn, sns[n]) > 0 THEN n - 1 ELSE n
        BY <1>1, <1>2, <1>6
    <2> QED BY <2>1, <1>2, <1>6
<1> QED BY <1>2, <1>4, <1>5, <1>6

\* What yang_rtcpNack_addSn does to a list: it gets the number, and the first
\* element stays the first unless the number comes before it.
LEMMA AddedFacts ==
    ASSUME NEW sns \in Seq(Seqs), NEW sn \in Seqs
    PROVE  /\ Added(sns, sn) \in Seq(Seqs)
           /\ Added(sns, sn) # <<>>
           /\ ToSet(Added(sns, sn)) = ToSet(sns) \cup {sn}
           /\ sns = <<>> => Added(sns, sn)[1] = sn
           /\ sns # <<>> /\ ~(Distance(sn, sns[1]) > 0) => Added(sns, sn)[1] = sns[1]
<1> DEFINE place == Place(sns, sn)
<1>1. CASE place = Duplicate
    <2>1. \E i \in 1 .. Len(sns) : sns[i] = sn
        BY <1>1, PlaceFacts DEF Duplicate
    <2>2. Added(sns, sn) = sns
        BY <1>1 DEF Added
    <2>3. sn \in ToSet(sns) /\ sns # <<>>
        BY <2>1 DEF ToSet
    <2> QED BY <2>2, <2>3
<1>2. CASE place # Duplicate
    <2>1. /\ place \in 0 .. Len(sns)
          /\ place = 0 => Len(sns) = 0 \/ (Len(sns) = 1 /\ Distance(sn, sns[1]) > 0)
        BY <1>2, PlaceFacts
    <2> DEFINE new == Spliced(sns, place, sn)
    <2>2. Added(sns, sn) = new
        BY <1>2 DEF Added
    <2> HIDE DEF place
    <2>3. /\ new \in Seq(Seqs)
          /\ Len(new) = Len(sns) + 1
          /\ \A i \in 1 .. Len(sns) + 1 :
                new[i] = IF i <= place THEN sns[i]
                         ELSE IF i = place + 1 THEN sn ELSE sns[i - 1]
        BY <2>1, SplicedFacts DEF PutIn
    <2> HIDE DEF new
    <2>4. ToSet(new) = ToSet(sns) \cup {sn}
        <3>1. DOMAIN new = 1 .. Len(sns) + 1 /\ DOMAIN sns = 1 .. Len(sns)
            BY <2>3
        <3>2. ASSUME NEW i \in 1 .. Len(sns) + 1 PROVE new[i] \in ToSet(sns) \cup {sn}
            <4>1. CASE i <= place
                BY <2>1, <2>3, <3>1, <4>1 DEF ToSet
            <4>2. CASE i = place + 1
                BY <2>1, <2>3, <4>2
            <4>3. CASE i > place + 1
                <5>1. i - 1 \in 1 .. Len(sns) /\ new[i] = sns[i - 1]
                    BY <2>1, <2>3, <4>3
                <5> QED BY <3>1, <5>1 DEF ToSet
            <4> QED BY <2>1, <4>1, <4>2, <4>3
        <3>3. ASSUME NEW i \in 1 .. Len(sns) PROVE sns[i] \in ToSet(new)
            <4>1. CASE i <= place
                BY <2>3, <3>1, <4>1 DEF ToSet
            <4>2. CASE i > place
                <5>1. i + 1 \in 1 .. Len(sns) + 1 /\ new[i + 1] = sns[i]
                    BY <2>1, <2>3, <4>2
                <5> QED BY <3>1, <5>1 DEF ToSet
            <4> QED BY <2>1, <4>1, <4>2
        <3>4. sn \in ToSet(new)
            <4>1. place + 1 \in 1 .. Len(sns) + 1 /\ new[place + 1] = sn
                BY <2>1, <2>3
            <4> QED BY <3>1, <4>1 DEF ToSet
        <3> QED BY <3>1, <3>2, <3>3, <3>4 DEF ToSet
    <2>5. sns = <<>> => new[1] = sn
        BY <2>1, <2>3
    <2>6. sns # <<>> /\ ~(Distance(sn, sns[1]) > 0) => new[1] = sns[1]
        <3> SUFFICES ASSUME sns # <<>>, ~(Distance(sn, sns[1]) > 0)
                     PROVE  new[1] = sns[1]
            OBVIOUS
        <3>1. Len(sns) >= 1 /\ place # 0
            BY <2>1
        <3> QED BY <2>1, <2>3, <3>1
    <2>7. new # <<>>
        BY <2>3
    <2> QED BY <2>2, <2>3, <2>4, <2>5, <2>6, <2>7
<1> QED BY <1>1, <1>2

-----------------------------------------------------------------------------
(* The encoder: what is true of the scan after its first k numbers *)

Chunk == [in_use : BOOLEAN, pid : Seqs, blp : SUBSET (1 .. BlpBits)]
Scan  == [done : Seq(Chunk), chunk : Chunk]
Start == [done |-> <<>>, chunk |-> NoChunk]

\* The chunks of a scan, the one that is still open included.
ChunksOf(scan) == ToSet(scan.done) \cup (IF scan.chunk.in_use THEN {scan.chunk} ELSE {})

\* A number of the list that the receiver of the chunks will know of.
Carried(cs, x) == \E c \in cs : x = c.pid \/ x - c.pid \in c.blp

\* A number that is left out, as LeftOutBetweenChunks says.
LeftOut(cs, sns, i) ==
    \E c \in cs, j \in 1 .. i - 1 :
        /\ sns[j] = c.pid
        /\ \/ sns[i] < c.pid
           \/ sns[i] - c.pid > BlpBits /\ sns[i - 1] - c.pid \in c.blp \cup {0}

\* The chunk holds numbers of the first k only.
From(c, sns, k) ==
    /\ \E j \in 1 .. k : sns[j] = c.pid
    /\ \A b \in c.blp : \E j \in 1 .. k : sns[j] = c.pid + b

\* The numbers of a NACK in the order they were lost, at most half a turn apart.
Ahead(sns, i) == (sns[i] - sns[1]) % SeqSpace
Rising(sns) ==
    /\ \A i \in 1 .. Len(sns) : Ahead(sns, i) \in 0 .. Window
    /\ \A i, j \in 1 .. Len(sns) : i < j => Ahead(sns, i) < Ahead(sns, j)

Scanned(sns, k, scan) ==
    /\ scan \in Scan
    /\ \A c \in ChunksOf(scan) : From(c, sns, k)
    /\ \A i \in 1 .. k : Carried(ChunksOf(scan), sns[i]) \/ LeftOut(ChunksOf(scan), sns, i)
    /\ scan.chunk.in_use =>
          /\ k >= 1
          /\ sns[k] - scan.chunk.pid \in scan.chunk.blp \cup {0} \/ sns[k] < scan.chunk.pid
    /\ k = 0 => scan = Start
    /\ k >= 1 =>
          \/ scan.done # <<>> /\ scan.done[1].pid = sns[1]
          \/ scan.done = <<>> /\ scan.chunk.in_use /\ scan.chunk.pid = sns[1]

\* The scan's fold, position by position.
LEMMA PackedType ==
    ASSUME NEW scan \in Scan, NEW sn \in Seqs
    PROVE  Packed(scan, sn) \in Scan
<1> DEFINE chunk == scan.chunk
           offset == sn - chunk.pid
           opened == [in_use |-> TRUE, pid |-> sn, blp |-> {}]
<1>1. chunk \in Chunk /\ scan.done \in Seq(Chunk) /\ offset \in Int
    BY DEF Scan, Chunk, Seqs
<1>2. opened \in Chunk /\ NoChunk \in Chunk
    BY SeqSpaceOK DEF Chunk, NoChunk, Seqs
<1>3. CASE ~chunk.in_use
    <2>1. Packed(scan, sn) = [scan EXCEPT !.chunk = opened]
        BY <1>3 DEF Packed
    <2> QED BY <1>1, <1>2, <2>1 DEF Scan
<1>4. CASE chunk.in_use /\ offset < 1
    BY <1>4 DEF Packed
<1>5. CASE chunk.in_use /\ ~(offset < 1) /\ offset > BlpBits
    <2>1. Packed(scan, sn) = [done |-> Append(scan.done, chunk), chunk |-> NoChunk]
        BY <1>5 DEF Packed
    <2>2. Append(scan.done, chunk) \in Seq(Chunk)
        BY <1>1
    <2> QED BY <1>2, <2>1, <2>2 DEF Scan
<1>6. CASE chunk.in_use /\ ~(offset < 1) /\ ~(offset > BlpBits)
    <2>1. Packed(scan, sn) = [scan EXCEPT !.chunk.blp = @ \cup {offset}]
        BY <1>6 DEF Packed
    <2>2. offset \in 1 .. BlpBits
        BY <1>1, <1>6, CodecOK
    <2> HIDE DEF chunk, offset
    <2>3. [scan EXCEPT !.chunk.blp = @ \cup {offset}] \in Scan
        BY <1>1, <2>2 DEF Scan, Chunk
    <2> QED BY <2>1, <2>3
<1> QED BY <1>3, <1>4, <1>5, <1>6

LEMMA Scanning ==
    ASSUME NEW sns \in Seq(Seqs)
    PROVE  \E a : /\ a[0] = Start
                  /\ \A k \in 1 .. Len(sns) : a[k] = Packed(a[k - 1], sns[k])
                  /\ FoldLeft(Packed, Start, sns) = a[Len(sns)]
<1> DEFINE n == Len(sns)
           Sets == SUBSET DOMAIN sns
           Iter == CHOOSE it : it = [s \in Sets |->
                       IF s = {} THEN Start ELSE Packed(it[s \ {Max(s)}], sns[Max(s)])]
           step == [p \in Scan \X (1 .. n) |-> Packed(p[1], sns[p[2]])]
           a == [k \in 0 .. n |-> Iter[1 .. k]]
<1>1. FoldLeft(Packed, Start, sns) = Iter[DOMAIN sns]
    BY DEF FoldLeft, MapThenFoldSet
<1>2. n \in Nat /\ DOMAIN sns = 1 .. n /\ \A i \in 1 .. n : sns[i] \in Seqs
    OBVIOUS
<1>3. Start \in Scan
    BY SeqSpaceOK DEF Start, Scan, Chunk, NoChunk, Seqs
<1>4. step \in [Scan \X (1 .. n) -> Scan]
    BY <1>2, PackedType
<1>5. PICK g : Iterates(g, n, Scan, Start, step)
    <2>1. n \in Nat
        BY <1>2
    <2> HIDE DEF n, Iter, step
    <2> QED BY <2>1, <1>3, <1>4, Iteration
<1>6. g = [s \in Sets |-> IF s = {} THEN Start ELSE Packed(g[s \ {Max(s)}], sns[Max(s)])]
    <2>1. ASSUME NEW s \in SUBSET (1 .. n), s # {}
          PROVE  g[s] = Packed(g[s \ {Max(s)}], sns[Max(s)])
        <3>1. Max(s) \in 1 .. n
            BY <2>1, <1>2, MaxOf
        <3>2. g[s \ {Max(s)}] \in Scan
            BY <1>5 DEF Iterates
        <3>3. step[<<g[s \ {Max(s)}], Max(s)>>] = Packed(g[s \ {Max(s)}], sns[Max(s)])
            BY <3>1, <3>2
        <3> HIDE DEF step
        <3> QED BY <1>5, <2>1, <3>3 DEF Iterates
    <2> HIDE DEF step
    <2> QED BY <1>2, <1>5, <2>1 DEF Iterates
<1> HIDE DEF step
<1>7. Iter = [s \in Sets |->
                 IF s = {} THEN Start ELSE Packed(Iter[s \ {Max(s)}], sns[Max(s)])]
    BY <1>6
<1> HIDE DEF Iter
<1>8. a[0] = Start
    <2>1. {} \in Sets /\ 1 .. 0 = {} /\ 0 \in 0 .. n
        BY <1>2
    <2> QED BY <1>7, <2>1
<1>9. ASSUME NEW k \in 1 .. n PROVE a[k] = Packed(a[k - 1], sns[k])
    <2>1. Max(1 .. k) = k /\ (1 .. k) \ {Max(1 .. k)} = 1 .. k - 1
        BY MaxOfPrefix
    <2>2. 1 .. k \in Sets /\ 1 .. k # {} /\ k \in 0 .. n /\ k - 1 \in 0 .. n
        <3> HIDE DEF n
        <3>1. k \in 1 .. k /\ \A i \in 1 .. k : i \in 1 .. n
            BY <1>2
        <3>2. 1 .. k \in Sets
            BY <1>2, <3>1
        <3>3. k \in 0 .. n /\ k - 1 \in 0 .. n
            BY <1>2
        <3> QED BY <3>1, <3>2, <3>3
    <2>3. Iter[1 .. k] = Packed(Iter[(1 .. k) \ {Max(1 .. k)}], sns[Max(1 .. k)])
        BY <1>7, <2>2
    <2> QED BY <2>1, <2>2, <2>3
<1>10. FoldLeft(Packed, Start, sns) = a[n]
    <2>1. n \in 0 .. n
        BY <1>2
    <2> QED BY <1>1, <1>2, <2>1
<1> HIDE DEF a
<1> QED BY <1>8, <1>9, <1>10

\* A difference of two sequence numbers, turned at most once.
LEMMA TurnedOnce ==
    ASSUME NEW a \in Seqs, NEW x \in Seqs
    PROVE  (x - a) % SeqSpace = IF x >= a THEN x - a ELSE x - a + SeqSpace
<1> DEFINE q == (x - a) \div SeqSpace
           r == (x - a) % SeqSpace
           m == SeqSpace * q
<1>1. SeqSpace \in Nat \ {0} /\ a \in 0 .. SeqSpace - 1 /\ x \in 0 .. SeqSpace - 1
    BY SeqSpaceOK DEF Seqs
<1>2. r \in 0 .. SeqSpace - 1 /\ q \in Int /\ x - a = m + r
    BY <1>1
<1>3. /\ q <= -2 => m <= -2 * SeqSpace
      /\ q = -1 => m = -SeqSpace
      /\ q = 0 => m = 0
      /\ q >= 1 => m >= SeqSpace
    BY <1>1, <1>2
<1>4. m \in Int
    BY <1>1, <1>2
<1> HIDE DEF q, r, m
<1>5. r = IF x >= a THEN x - a ELSE x - a + SeqSpace
    BY <1>1, <1>2, <1>3, <1>4
<1> QED BY <1>5 DEF r

\* A list that rises does not come back behind a number it turned past.
LEMMA NoReturn ==
    ASSUME NEW sns \in Seq(Seqs), Rising(sns),
           NEW k \in 2 .. Len(sns), NEW j \in 1 .. k - 1, sns[k - 1] < sns[j]
    PROVE  sns[k] < sns[j]
<1>1. /\ sns[1] \in Seqs /\ sns[j] \in Seqs /\ sns[k - 1] \in Seqs /\ sns[k] \in Seqs
      /\ j \in 1 .. Len(sns) /\ k - 1 \in 1 .. Len(sns) /\ k \in 1 .. Len(sns)
    OBVIOUS
<1>2. j # k - 1
    BY <1>1 DEF Seqs
<1>3. j < k - 1 /\ k - 1 < k
    BY <1>2
<1>4. /\ Ahead(sns, j) < Ahead(sns, k - 1) /\ Ahead(sns, k - 1) < Ahead(sns, k)
      /\ Ahead(sns, k) \in 0 .. Window
    BY <1>1, <1>3 DEF Rising
<1>5. \A i \in {j, k - 1, k} :
         Ahead(sns, i) = IF sns[i] >= sns[1] THEN sns[i] - sns[1]
                         ELSE sns[i] - sns[1] + SeqSpace
    BY <1>1, TurnedOnce DEF Ahead
<1> DEFINE a == sns[1]
           x == sns[j]
           y == sns[k - 1]
           z == sns[k]
           w == SeqSpace
<1>6. /\ a \in 0 .. w - 1 /\ x \in 0 .. w - 1 /\ y \in 0 .. w - 1 /\ z \in 0 .. w - 1
      /\ w \in Nat /\ y < x
    BY <1>1, SeqSpaceOK DEF Seqs
<1>7. /\ (IF x >= a THEN x - a ELSE x - a + w) < (IF y >= a THEN y - a ELSE y - a + w)
      /\ (IF y >= a THEN y - a ELSE y - a + w) < (IF z >= a THEN z - a ELSE z - a + w)
    BY <1>4, <1>5
<1> HIDE DEF a, x, y, z, w
<1>8. z < x
    BY <1>6, <1>7
<1> QED BY <1>8 DEF x, z

\* Chunks that keep their number and lose nothing from their mask.
Grown(cs, ds) == \A c \in cs : \E d \in ds : d.pid = c.pid /\ c.blp \subseteq d.blp

LEMMA GrownKeeps ==
    ASSUME NEW cs, NEW ds, Grown(cs, ds)
    PROVE  /\ \A x : Carried(cs, x) => Carried(ds, x)
           /\ \A sns, i : LeftOut(cs, sns, i) => LeftOut(ds, sns, i)
<1>1. ASSUME NEW x, Carried(cs, x) PROVE Carried(ds, x)
    <2>1. PICK c \in cs : x = c.pid \/ x - c.pid \in c.blp
        BY <1>1 DEF Carried
    <2>2. PICK d \in ds : d.pid = c.pid /\ c.blp \subseteq d.blp
        BY DEF Grown
    <2> QED BY <2>1, <2>2 DEF Carried
<1>2. ASSUME NEW sns, NEW i, LeftOut(cs, sns, i) PROVE LeftOut(ds, sns, i)
    <2>1. PICK c \in cs, j \in 1 .. i - 1 :
             /\ sns[j] = c.pid
             /\ \/ sns[i] < c.pid
                \/ sns[i] - c.pid > BlpBits /\ sns[i - 1] - c.pid \in c.blp \cup {0}
        BY <1>2 DEF LeftOut
    <2>2. PICK d \in ds : d.pid = c.pid /\ c.blp \subseteq d.blp
        BY DEF Grown
    <2> QED BY <2>1, <2>2 DEF LeftOut
<1> QED BY <1>1, <1>2

\* What is true of the scan before a number is true after it.
LEMMA ScanStep ==
    ASSUME NEW sns \in Seq(Seqs), Rising(sns), NEW k \in 1 .. Len(sns),
           NEW scan, Scanned(sns, k - 1, scan)
    PROVE  Scanned(sns, k, Packed(scan, sns[k]))
<1> DEFINE chunk == scan.chunk
           sn == sns[k]
           offset == sn - chunk.pid
           cs == ChunksOf(scan)
           new == Packed(scan, sn)
           ds == ChunksOf(new)
<1>1. /\ scan \in Scan /\ sn \in Seqs /\ new \in Scan
      /\ chunk \in Chunk /\ scan.done \in Seq(Chunk) /\ offset \in Int
    <2>1. scan \in Scan /\ sn \in Seqs
        BY DEF Scanned
    <2>2. new \in Scan
        BY <2>1, PackedType
    <2>3. chunk \in Chunk /\ scan.done \in Seq(Chunk)
        BY <2>1 DEF Scan
    <2>4. offset \in Int
        BY <2>1, <2>3 DEF Chunk, Seqs
    <2> QED BY <2>1, <2>2, <2>3, <2>4
<1> SUFFICES Scanned(sns, k, new)
    OBVIOUS
<1>2. /\ \A c \in cs : From(c, sns, k)
      /\ \A i \in 1 .. k - 1 : Carried(cs, sns[i]) \/ LeftOut(cs, sns, i)
    <2>1. 1 .. k - 1 \subseteq 1 .. k
        OBVIOUS
    <2> QED BY <2>1 DEF Scanned, From
\* It is enough to say how the chunks change and what becomes of the number.
<1>3. ASSUME Grown(cs, ds),
             \A d \in ds : d \notin cs => From(d, sns, k),
             Carried(ds, sn) \/ LeftOut(ds, sns, k),
             new.chunk.in_use =>
                 sn - new.chunk.pid \in new.chunk.blp \cup {0} \/ sn < new.chunk.pid,
             \/ new.done # <<>> /\ new.done[1].pid = sns[1]
             \/ new.done = <<>> /\ new.chunk.in_use /\ new.chunk.pid = sns[1]
      PROVE  Scanned(sns, k, new)
    <2>1. \A d \in ds : From(d, sns, k)
        BY <1>2, <1>3
    <2>2. ASSUME NEW i \in 1 .. k PROVE Carried(ds, sns[i]) \/ LeftOut(ds, sns, i)
        <3>1. CASE i = k
            BY <1>3, <3>1
        <3>2. CASE i # k
            <4>1. i \in 1 .. k - 1
                BY <3>2
            <4> HIDE DEF cs, ds
            <4> QED BY <4>1, <1>2, <1>3, GrownKeeps
        <3> QED BY <3>1, <3>2
    <2>3. k >= 1 /\ k # 0
        OBVIOUS
    <2> HIDE DEF new
    <2> QED BY <1>1, <1>3, <2>1, <2>2, <2>3 DEF Scanned
<1>4. CASE ~chunk.in_use
    <2> DEFINE opened == [in_use |-> TRUE, pid |-> sn, blp |-> {}]
    <2>1. new = [scan EXCEPT !.chunk = opened]
        BY <1>4 DEF Packed
    <2>2. new.done = scan.done /\ new.chunk = opened
        BY <1>1, <2>1 DEF Scan
    <2> HIDE DEF new, chunk
    <2>3. cs = ToSet(scan.done) /\ ds = ToSet(scan.done) \cup {opened}
        BY <1>4, <2>2 DEF ChunksOf, chunk
    <2> HIDE DEF cs, ds
    <2>4. Grown(cs, ds)
        BY <2>3 DEF Grown
    <2>5. From(opened, sns, k)
        <3>1. k \in 1 .. k
            OBVIOUS
        <3> QED BY <3>1 DEF From
    <2>6. Carried(ds, sn)
        <3>1. opened \in ds /\ opened.pid = sn
            BY <2>3
        <3> QED BY <3>1 DEF Carried
    <2>7. sn - new.chunk.pid = 0
        BY <1>1, <2>2 DEF Seqs
    <2>8. \/ new.done # <<>> /\ new.done[1].pid = sns[1]
          \/ new.done = <<>> /\ new.chunk.in_use /\ new.chunk.pid = sns[1]
        <3>1. CASE k = 1
            <4>1. scan = Start
                BY <3>1 DEF Scanned
            <4> QED BY <3>1, <4>1, <2>2 DEF Start
        <3>2. CASE k # 1
            <4>1. k - 1 >= 1
                BY <3>2
            <4> QED BY <4>1, <2>2, <1>4 DEF Scanned, chunk
        <3> QED BY <3>1, <3>2
    <2> QED BY <1>3, <2>2, <2>3, <2>4, <2>5, <2>6, <2>7, <2>8
<1>5. ASSUME chunk.in_use
      PROVE  /\ chunk \in cs /\ k - 1 >= 1
             /\ From(chunk, sns, k - 1)
             /\ sns[k - 1] - chunk.pid \in chunk.blp \cup {0} \/ sns[k - 1] < chunk.pid
    <2>1. chunk \in cs
        BY <1>5 DEF ChunksOf
    <2> QED BY <1>5, <2>1 DEF Scanned
<1>6. CASE chunk.in_use /\ offset < 1
    <2>1. new = scan
        BY <1>6 DEF Packed
    <2>2. Grown(cs, ds)
        BY <2>1 DEF Grown
    <2>3. sn = chunk.pid \/ sn < chunk.pid
        BY <1>1, <1>6 DEF Chunk, Seqs
    <2>4. PICK j \in 1 .. k - 1 : sns[j] = chunk.pid
        BY <1>5, <1>6 DEF From
    <2>5. Carried(cs, sn) \/ LeftOut(cs, sns, k)
        <3> HIDE DEF cs, chunk
        <3>1. CASE sn = chunk.pid
            BY <1>5, <1>6, <3>1 DEF Carried
        <3>2. CASE sn < chunk.pid
            BY <1>5, <1>6, <2>4, <3>2 DEF LeftOut
        <3> QED BY <2>3, <3>1, <3>2
    <2>6. sn = chunk.pid => sn - chunk.pid = 0
        BY <1>1 DEF Chunk, Seqs
    <2>7. \/ scan.done # <<>> /\ scan.done[1].pid = sns[1]
          \/ scan.done = <<>> /\ scan.chunk.in_use /\ scan.chunk.pid = sns[1]
        BY <1>5, <1>6 DEF Scanned
    <2> QED BY <1>3, <2>1, <2>2, <2>3, <2>5, <2>6, <2>7
<1>7. CASE chunk.in_use /\ ~(offset < 1) /\ offset > BlpBits
    <2>1. new = [done |-> Append(scan.done, chunk), chunk |-> NoChunk]
        BY <1>7 DEF Packed
    <2>2. new.done = Append(scan.done, chunk) /\ new.chunk = NoChunk
        BY <2>1
    <2> HIDE DEF new
    <2>3. ds = cs
        <3>1. ds = ToSet(Append(scan.done, chunk))
            BY <2>2 DEF ChunksOf, NoChunk
        <3>2. cs = ToSet(scan.done) \cup {chunk}
            BY <1>7 DEF ChunksOf
        <3> DEFINE t == Append(scan.done, chunk)
                   n == Len(scan.done)
        <3>3. /\ DOMAIN scan.done = 1 .. n /\ DOMAIN t = 1 .. n + 1 /\ n \in Nat
              /\ \A i \in 1 .. n : t[i] = scan.done[i]
              /\ t[n + 1] = chunk
            BY <1>1
        <3> HIDE DEF t, n
        <3>4. ToSet(t) = ToSet(scan.done) \cup {chunk}
            <4>1. \A i \in 1 .. n + 1 : i \in 1 .. n \/ i = n + 1
                BY <3>3
            <4>2. n + 1 \in 1 .. n + 1 /\ \A i \in 1 .. n : i \in 1 .. n + 1
                BY <3>3
            <4> QED BY <3>3, <4>1, <4>2 DEF ToSet
        <3> QED BY <3>1, <3>2, <3>4 DEF t
    <2>4. Grown(cs, ds)
        BY <2>3 DEF Grown
    <2>5. PICK j \in 1 .. k - 1 : sns[j] = chunk.pid
        BY <1>5, <1>7 DEF From
    <2>6. ~(sns[k - 1] < chunk.pid)
        <3> SUFFICES ASSUME sns[k - 1] < chunk.pid PROVE FALSE
            OBVIOUS
        <3>1. k \in 2 .. Len(sns)
            BY <1>5, <1>7
        <3>2. sns[k] < sns[j]
            BY <2>5, <3>1, NoReturn
        <3> QED BY <1>1, <1>7, <2>5, <3>2 DEF Chunk, Seqs
    <2>7. LeftOut(ds, sns, k)
        <3> HIDE DEF cs, ds, chunk
        <3> QED BY <1>5, <1>7, <2>3, <2>5, <2>6 DEF LeftOut, chunk
    <2>8. ~new.chunk.in_use
        BY <2>2 DEF NoChunk
    <2>9. new.done # <<>> /\ new.done[1].pid = sns[1]
        <3>1. /\ new.done # <<>>
              /\ scan.done = <<>> => new.done[1] = chunk
              /\ scan.done # <<>> => new.done[1] = scan.done[1]
            BY <1>1, <2>2
        <3> QED BY <1>5, <1>7, <3>1 DEF Scanned
    <2> QED BY <1>3, <2>3, <2>4, <2>7, <2>8, <2>9
<1>8. CASE chunk.in_use /\ ~(offset < 1) /\ ~(offset > BlpBits)
    <2> DEFINE wider == [chunk EXCEPT !.blp = @ \cup {offset}]
    <2>1. new = [scan EXCEPT !.chunk = wider]
        BY <1>8 DEF Packed
    <2>2. new.done = scan.done /\ new.chunk = wider
        BY <1>1, <2>1 DEF Scan
    <2>3. wider.in_use /\ wider.pid = chunk.pid /\ wider.blp = chunk.blp \cup {offset}
        BY <1>1, <1>8 DEF Chunk
    <2> HIDE DEF new, wider
    <2>4. cs = ToSet(scan.done) \cup {chunk} /\ ds = ToSet(scan.done) \cup {wider}
        BY <1>8, <2>2, <2>3 DEF ChunksOf
    <2> HIDE DEF cs, ds
    <2>5. Grown(cs, ds)
        BY <2>3, <2>4 DEF Grown
    <2>6. From(wider, sns, k)
        <3>1. From(chunk, sns, k)
            BY <1>2, <2>4
        <3>2. sns[k] = wider.pid + offset /\ k \in 1 .. k
            BY <1>1, <2>3 DEF Chunk, Seqs
        <3> QED BY <2>3, <3>1, <3>2 DEF From
    <2>7. Carried(ds, sn)
        BY <2>3, <2>4 DEF Carried
    <2>8. sn - new.chunk.pid \in new.chunk.blp
        BY <2>2, <2>3
    <2>9. \/ new.done # <<>> /\ new.done[1].pid = sns[1]
          \/ new.done = <<>> /\ new.chunk.in_use /\ new.chunk.pid = sns[1]
        BY <1>5, <1>8, <2>2, <2>3 DEF Scanned
    <2> QED BY <1>3, <2>2, <2>4, <2>5, <2>6, <2>7, <2>8, <2>9
<1> QED BY <1>4, <1>6, <1>7, <1>8

\* What the encoder makes of a list of numbers: every chunk holds numbers of
\* the list only, the first one starts with the first number, and what no
\* chunk holds was left out between two of them.
LEMMA EncodedFacts ==
    ASSUME NEW sns \in Seq(Seqs), sns # <<>>, Rising(sns)
    PROVE  /\ Encoded(sns) \in Seq(Chunk)
           /\ Encoded(sns) # <<>>
           /\ Encoded(sns)[1].pid = sns[1]
           /\ \A c \in ToSet(Encoded(sns)) : From(c, sns, Len(sns))
           /\ \A i \in 1 .. Len(sns) : \/ Carried(ToSet(Encoded(sns)), sns[i])
                                       \/ LeftOut(ToSet(Encoded(sns)), sns, i)
<1> DEFINE n == Len(sns)
<1>1. n \in Nat \ {0}
    OBVIOUS
<1>2. PICK a : /\ a[0] = Start
               /\ \A k \in 1 .. n : a[k] = Packed(a[k - 1], sns[k])
               /\ FoldLeft(Packed, Start, sns) = a[n]
    BY Scanning
<1> DEFINE S == {k \in 0 .. n : Scanned(sns, k, a[k])}
<1>3. 0 \in S
    <2>1. Start \in Scan /\ ChunksOf(Start) = {} /\ ~Start.chunk.in_use
        BY SeqSpaceOK DEF Start, Scan, Chunk, NoChunk, Seqs, ChunksOf, ToSet
    <2>2. Scanned(sns, 0, Start)
        BY <2>1 DEF Scanned
    <2> QED BY <1>1, <1>2, <2>2
<1>4. ASSUME NEW k \in 0 .. n - 1, k \in S PROVE k + 1 \in S
    <2>1. k + 1 \in 1 .. n /\ k + 1 - 1 = k /\ k + 1 \in 0 .. n
        BY <1>1
    <2>2. a[k + 1] = Packed(a[k], sns[k + 1])
        BY <1>2, <2>1
    <2>3. Scanned(sns, k + 1 - 1, a[k])
        BY <1>4, <2>1
    <2>4. Scanned(sns, k + 1, Packed(a[k], sns[k + 1]))
        BY <2>1, <2>3, ScanStep
    <2> QED BY <2>1, <2>2, <2>4
<1>5. Scanned(sns, n, a[n])
    <2>1. S \in SUBSET Nat /\ n \in Nat /\ n \in 0 .. n
        BY <1>1
    <2> HIDE DEF S, n
    <2>2. 0 .. n \subseteq S
        BY <1>3, <1>4, <2>1, Induction
    <2> QED BY <2>1, <2>2 DEF S
<1> DEFINE scan == a[n]
<1>6. Encoded(sns) = IF scan.chunk.in_use THEN Append(scan.done, scan.chunk) ELSE scan.done
    BY <1>2 DEF Encoded, Start
<1>7. scan.done \in Seq(Chunk) /\ scan.chunk \in Chunk
    BY <1>5 DEF Scanned, Scan
<1> HIDE DEF scan
<1>8. /\ Encoded(sns) \in Seq(Chunk)
      /\ ToSet(Encoded(sns)) = ChunksOf(scan)
      /\ scan.done # <<>> => Encoded(sns) # <<>> /\ Encoded(sns)[1] = scan.done[1]
      /\ scan.done = <<>> /\ scan.chunk.in_use =>
            Encoded(sns) # <<>> /\ Encoded(sns)[1] = scan.chunk
    <2>1. CASE ~scan.chunk.in_use
        BY <1>6, <1>7, <2>1 DEF ChunksOf
    <2>2. CASE scan.chunk.in_use
        <3> DEFINE t == Append(scan.done, scan.chunk)
                   m == Len(scan.done)
        <3>1. Encoded(sns) = t
            BY <1>6, <2>2
        <3>2. /\ DOMAIN scan.done = 1 .. m /\ DOMAIN t = 1 .. m + 1 /\ m \in Nat
              /\ \A i \in 1 .. m : t[i] = scan.done[i]
              /\ t[m + 1] = scan.chunk
              /\ t \in Seq(Chunk)
              /\ t # <<>>
              /\ scan.done # <<>> => t[1] = scan.done[1]
              /\ scan.done = <<>> => t[1] = scan.chunk
            BY <1>7
        <3> HIDE DEF t, m
        <3>3. ToSet(t) = ToSet(scan.done) \cup {scan.chunk}
            <4>1. \A i \in 1 .. m + 1 : i \in 1 .. m \/ i = m + 1
                BY <3>2
            <4>2. m + 1 \in 1 .. m + 1 /\ \A i \in 1 .. m : i \in 1 .. m + 1
                BY <3>2
            <4> QED BY <3>2, <4>1, <4>2 DEF ToSet
        <3> QED BY <3>1, <3>2, <3>3, <2>2 DEF ChunksOf
    <2> QED BY <2>1, <2>2
<1>9. Scanned(sns, n, scan) /\ n >= 1
    BY <1>1, <1>5 DEF scan
<1>10. Encoded(sns) # <<>> /\ Encoded(sns)[1].pid = sns[1]
    BY <1>8, <1>9 DEF Scanned
<1>11. /\ \A c \in ChunksOf(scan) : From(c, sns, n)
       /\ \A i \in 1 .. n : Carried(ChunksOf(scan), sns[i]) \/ LeftOut(ChunksOf(scan), sns, i)
    BY <1>9 DEF Scanned
<1> QED BY <1>8, <1>10, <1>11

-----------------------------------------------------------------------------
(* The decoder *)

\* The numbers a chunk asks for.
Asks(c) == {c.pid} \cup {(c.pid + i) % SeqSpace : i \in c.blp}

\* None of the numbers comes before h.
Foremost(h, xs) == \A x \in xs : ~(Distance(x, h) > 0)

\* Position k of the mask, as Unpacked has it.
BitAt(chunk, l, k) == IF k \in chunk.blp THEN Added(l, (chunk.pid + k) % SeqSpace) ELSE l

LEMMA AsksType ==
    ASSUME NEW c \in Chunk
    PROVE  /\ c.pid \in Seqs
           /\ \A i \in 1 .. BlpBits : (c.pid + i) % SeqSpace \in Seqs
           /\ Asks(c) \subseteq Seqs
<1>1. c.pid \in Seqs /\ c.blp \subseteq 1 .. BlpBits
    BY DEF Chunk
<1>2. \A i \in 1 .. BlpBits : c.pid + i \in Int
    BY <1>1, CodecOK DEF Seqs
<1>3. \A i \in 1 .. BlpBits : (c.pid + i) % SeqSpace \in Seqs
    BY <1>2, Remainder
<1> QED BY <1>1, <1>3 DEF Asks

LEMMA Unpacking ==
    ASSUME NEW sns \in Seq(Seqs), NEW chunk \in Chunk
    PROVE  \E a : /\ a[0] = Added(sns, chunk.pid)
                  /\ \A k \in 1 .. BlpBits : a[k] = BitAt(chunk, a[k - 1], k)
                  /\ Unpacked(sns, chunk) = a[BlpBits]
<1> DEFINE first == Added(sns, chunk.pid)
           seq == [i \in 1 .. BlpBits |-> i]
           Sets == SUBSET DOMAIN seq
           Iter == CHOOSE it : it = [s \in Sets |->
                       IF s = {} THEN first
                       ELSE IF seq[Max(s)] \in chunk.blp
                            THEN Added(it[s \ {Max(s)}],
                                       (chunk.pid + seq[Max(s)]) % SeqSpace)
                            ELSE it[s \ {Max(s)}]]
           step == [p \in Seq(Seqs) \X (1 .. BlpBits) |-> BitAt(chunk, p[1], p[2])]
           a == [k \in 0 .. BlpBits |-> Iter[1 .. k]]
<1>1. Unpacked(sns, chunk) = Iter[DOMAIN seq]
    BY DEF Unpacked, FoldLeft, MapThenFoldSet
<1>2. BlpBits \in Nat /\ DOMAIN seq = 1 .. BlpBits /\ Sets = SUBSET (1 .. BlpBits)
    BY CodecOK
<1>3. first \in Seq(Seqs)
    BY AsksType, AddedFacts
<1>4. step \in [Seq(Seqs) \X (1 .. BlpBits) -> Seq(Seqs)]
    <2>1. ASSUME NEW l \in Seq(Seqs), NEW k \in 1 .. BlpBits
          PROVE  BitAt(chunk, l, k) \in Seq(Seqs)
        BY AsksType, AddedFacts DEF BitAt
    <2> QED BY <2>1
<1>5. PICK g : Iterates(g, BlpBits, Seq(Seqs), first, step)
    <2> HIDE DEF first, Iter, step
    <2> QED BY <1>2, <1>3, <1>4, Iteration
<1>6. ASSUME NEW s \in SUBSET (1 .. BlpBits), s # {}
      PROVE  Max(s) \in 1 .. BlpBits /\ seq[Max(s)] = Max(s)
    <2>1. Max(s) \in 1 .. BlpBits
        BY <1>2, <1>6, MaxOf
    <2> QED BY <2>1
<1>7. g = [s \in Sets |->
              IF s = {} THEN first
              ELSE IF seq[Max(s)] \in chunk.blp
                   THEN Added(g[s \ {Max(s)}], (chunk.pid + seq[Max(s)]) % SeqSpace)
                   ELSE g[s \ {Max(s)}]]
    <2>1. ASSUME NEW s \in SUBSET (1 .. BlpBits), s # {}
          PROVE  g[s] = IF seq[Max(s)] \in chunk.blp
                        THEN Added(g[s \ {Max(s)}], (chunk.pid + seq[Max(s)]) % SeqSpace)
                        ELSE g[s \ {Max(s)}]
        <3>1. Max(s) \in 1 .. BlpBits /\ seq[Max(s)] = Max(s)
            BY <1>6, <2>1
        <3>2. g[s \ {Max(s)}] \in Seq(Seqs)
            BY <1>5 DEF Iterates
        <3>3. step[<<g[s \ {Max(s)}], Max(s)>>] = BitAt(chunk, g[s \ {Max(s)}], Max(s))
            BY <3>1, <3>2
        <3>4. g[s] = step[<<g[s \ {Max(s)}], Max(s)>>]
            <4> HIDE DEF step, first
            <4> QED BY <1>5, <2>1 DEF Iterates
        <3> HIDE DEF step, seq
        <3> QED BY <3>1, <3>3, <3>4 DEF BitAt
    <2>2. g \in [Sets -> Seq(Seqs)] /\ g[{}] = first
        <3> HIDE DEF step, first, Sets
        <3> QED BY <1>2, <1>5 DEF Iterates
    <2> HIDE DEF step, first, seq
    <2> QED BY <1>2, <2>1, <2>2
<1> HIDE DEF step
<1>8. Iter = [s \in Sets |->
                 IF s = {} THEN first
                 ELSE IF seq[Max(s)] \in chunk.blp
                      THEN Added(Iter[s \ {Max(s)}], (chunk.pid + seq[Max(s)]) % SeqSpace)
                      ELSE Iter[s \ {Max(s)}]]
    <2> HIDE DEF first, seq, Sets
    <2> QED BY <1>7
<1> HIDE DEF Iter, first
<1>9. a[0] = first
    <2>1. {} \in Sets /\ 1 .. 0 = {} /\ 0 \in 0 .. BlpBits
        BY <1>2
    <2> QED BY <1>8, <2>1
<1>10. ASSUME NEW k \in 1 .. BlpBits PROVE a[k] = BitAt(chunk, a[k - 1], k)
    <2>1. Max(1 .. k) = k /\ (1 .. k) \ {Max(1 .. k)} = 1 .. k - 1
        BY MaxOfPrefix
    <2>2. k \in 1 .. k /\ \A i \in 1 .. k : i \in 1 .. BlpBits
        BY <1>2
    <2>3. 1 .. k \in Sets /\ 1 .. k # {}
        BY <1>2, <2>2
    <2>4. k \in 0 .. BlpBits /\ k - 1 \in 0 .. BlpBits /\ seq[k] = k
        BY <1>2
    <2>5. Iter[1 .. k] = IF seq[k] \in chunk.blp
                         THEN Added(Iter[1 .. k - 1], (chunk.pid + seq[k]) % SeqSpace)
                         ELSE Iter[1 .. k - 1]
        <3> HIDE DEF seq, Sets
        <3> QED BY <1>8, <2>1, <2>3
    <2> HIDE DEF seq
    <2> QED BY <2>4, <2>5 DEF BitAt
<1>11. Unpacked(sns, chunk) = a[BlpBits]
    <2>1. BlpBits \in 0 .. BlpBits
        BY <1>2
    <2> HIDE DEF seq
    <2> QED BY <1>1, <1>2, <2>1
<1> HIDE DEF a
<1> QED BY <1>9, <1>10, <1>11 DEF first

\* A chunk adds what it asks for to the list, behind the first number if that
\* number comes before all it asks for.
LEMMA UnpackedFacts ==
    ASSUME NEW sns \in Seq(Seqs), NEW c \in Chunk
    PROVE  /\ Unpacked(sns, c) \in Seq(Seqs)
           /\ Unpacked(sns, c) # <<>>
           /\ ToSet(Unpacked(sns, c)) = ToSet(sns) \cup Asks(c)
           /\ \A h \in Seqs :
                 (IF sns = <<>> THEN c.pid = h ELSE sns[1] = h) /\ Foremost(h, Asks(c))
                 => Unpacked(sns, c)[1] = h
<1>1. PICK a : /\ a[0] = Added(sns, c.pid)
               /\ \A k \in 1 .. BlpBits : a[k] = BitAt(c, a[k - 1], k)
               /\ Unpacked(sns, c) = a[BlpBits]
    BY Unpacking
<1> DEFINE Behind(h) == /\ IF sns = <<>> THEN c.pid = h ELSE sns[1] = h
                        /\ Foremost(h, Asks(c))
           Upto(k) == {c.pid} \cup {(c.pid + i) % SeqSpace : i \in c.blp \cap (1 .. k)}
           Good(k) == /\ a[k] \in Seq(Seqs)
                      /\ a[k] # <<>>
                      /\ ToSet(a[k]) = ToSet(sns) \cup Upto(k)
                      /\ \A h \in Seqs : Behind(h) => a[k][1] = h
           S == {k \in 0 .. BlpBits : Good(k)}
<1>2. BlpBits \in Nat /\ c.pid \in Seqs /\ c.blp \subseteq 1 .. BlpBits
    BY CodecOK DEF Chunk
<1>3. 0 \in S
    <2>1. /\ a[0] \in Seq(Seqs) /\ a[0] # <<>>
          /\ ToSet(a[0]) = ToSet(sns) \cup {c.pid}
          /\ sns = <<>> => a[0][1] = c.pid
          /\ sns # <<>> /\ ~(Distance(c.pid, sns[1]) > 0) => a[0][1] = sns[1]
        <3>1. a[0] = Added(sns, c.pid)
            BY <1>1
        <3> DEFINE l == Added(sns, c.pid)
        <3>2. /\ l \in Seq(Seqs)
              /\ l # <<>>
              /\ ToSet(l) = ToSet(sns) \cup {c.pid}
              /\ sns = <<>> => l[1] = c.pid
              /\ sns # <<>> /\ ~(Distance(c.pid, sns[1]) > 0) => l[1] = sns[1]
            BY <1>2, AddedFacts
        <3> HIDE DEF l
        <3>3. a[0] = l
            BY <3>1 DEF l
        <3> QED BY <3>2, <3>3
    <2>2. Upto(0) = {c.pid}
        BY <1>2
    <2>3. ASSUME NEW h \in Seqs, Behind(h) PROVE a[0][1] = h
        <3>1. ~(Distance(c.pid, h) > 0)
            BY <2>3 DEF Asks, Foremost
        <3> QED BY <2>1, <2>3, <3>1
    <2> HIDE DEF Upto, Behind
    <2> QED BY <1>2, <2>1, <2>2, <2>3
<1>4. ASSUME NEW k \in 0 .. BlpBits - 1, k \in S PROVE k + 1 \in S
    <2>1. k + 1 \in 1 .. BlpBits /\ k + 1 - 1 = k /\ k + 1 \in 0 .. BlpBits
        BY <1>2
    <2>2. a[k + 1] = BitAt(c, a[k], k + 1)
        BY <1>1, <2>1
    <2>3. Good(k)
        BY <1>4
    <2>4. CASE k + 1 \in c.blp
        <3> DEFINE x == (c.pid + (k + 1)) % SeqSpace
        <3>1. x \in Seqs /\ x \in Asks(c)
            BY <2>1, <2>4, AsksType DEF Asks
        <3>2. a[k + 1] = Added(a[k], x)
            BY <2>2, <2>4 DEF BitAt
        <3>3. Upto(k + 1) = Upto(k) \cup {x}
            <4>1. c.blp \cap (1 .. k + 1) = (c.blp \cap (1 .. k)) \cup {k + 1}
                BY <2>1, <2>4
            <4> QED BY <4>1
        <3> HIDE DEF x, Upto
        <3>4. /\ a[k + 1] \in Seq(Seqs) /\ a[k + 1] # <<>>
              /\ ToSet(a[k + 1]) = ToSet(a[k]) \cup {x}
              /\ ~(Distance(x, a[k][1]) > 0) => a[k + 1][1] = a[k][1]
            <4> DEFINE old == a[k]
            <4>1. old \in Seq(Seqs) /\ old # <<>>
                BY <2>3
            <4> HIDE DEF old
            <4> DEFINE l == Added(old, x)
            <4>2. /\ l \in Seq(Seqs)
                  /\ l # <<>>
                  /\ ToSet(l) = ToSet(old) \cup {x}
                  /\ old # <<>> /\ ~(Distance(x, old[1]) > 0) => l[1] = old[1]
                BY <3>1, <4>1, AddedFacts
            <4> HIDE DEF l
            <4>3. a[k + 1] = l
                BY <3>2 DEF l, old
            <4> QED BY <4>1, <4>2, <4>3 DEF old
        <3>5. ASSUME NEW h \in Seqs, Behind(h) PROVE a[k + 1][1] = h
            <4>1. a[k][1] = h
                BY <2>3, <3>5
            <4>2. ~(Distance(x, h) > 0)
                BY <3>1, <3>5 DEF Foremost
            <4> QED BY <3>4, <4>1, <4>2
        <3> HIDE DEF Behind
        <3> QED BY <2>1, <2>3, <3>3, <3>4, <3>5
    <2>5. CASE k + 1 \notin c.blp
        <3>1. a[k + 1] = a[k]
            BY <2>2, <2>5 DEF BitAt
        <3>2. c.blp \cap (1 .. k + 1) = c.blp \cap (1 .. k)
            BY <2>1, <2>5
        <3>3. Upto(k + 1) = Upto(k)
            BY <3>2
        <3> HIDE DEF Upto, Behind
        <3> QED BY <2>1, <2>3, <3>1, <3>3
    <2> QED BY <2>4, <2>5
<1>5. Good(BlpBits)
    <2>1. S \in SUBSET Nat /\ BlpBits \in 0 .. BlpBits
        BY <1>2
    <2> HIDE DEF S
    <2>2. 0 .. BlpBits \subseteq S
        BY <1>2, <1>3, <1>4, <2>1, Induction
    <2> QED BY <2>1, <2>2 DEF S
<1>6. Upto(BlpBits) = Asks(c)
    <2>1. c.blp \cap (1 .. BlpBits) = c.blp
        BY <1>2
    <2> QED BY <2>1 DEF Asks
<1> HIDE DEF Upto
<1> QED BY <1>1, <1>5, <1>6

LEMMA Decoding ==
    ASSUME NEW cs \in Seq(Chunk)
    PROVE  \E a : /\ a[0] = <<>>
                  /\ \A k \in 1 .. Len(cs) : a[k] = Unpacked(a[k - 1], cs[k])
                  /\ Decoded(cs) = a[Len(cs)]
<1> DEFINE n == Len(cs)
           Sets == SUBSET DOMAIN cs
           Iter == CHOOSE it : it = [s \in Sets |->
                       IF s = {} THEN <<>> ELSE Unpacked(it[s \ {Max(s)}], cs[Max(s)])]
           step == [p \in Seq(Seqs) \X (1 .. n) |-> Unpacked(p[1], cs[p[2]])]
           a == [k \in 0 .. n |-> Iter[1 .. k]]
<1>1. Decoded(cs) = Iter[DOMAIN cs]
    BY DEF Decoded, FoldLeft, MapThenFoldSet
<1>2. n \in Nat /\ DOMAIN cs = 1 .. n /\ \A i \in 1 .. n : cs[i] \in Chunk
    OBVIOUS
<1>3. <<>> \in Seq(Seqs)
    OBVIOUS
<1>4. step \in [Seq(Seqs) \X (1 .. n) -> Seq(Seqs)]
    BY <1>2, UnpackedFacts
<1>5. PICK g : Iterates(g, n, Seq(Seqs), <<>>, step)
    <2>1. n \in Nat
        BY <1>2
    <2> HIDE DEF n, Iter, step
    <2> QED BY <2>1, <1>3, <1>4, Iteration
<1>6. g = [s \in Sets |-> IF s = {} THEN <<>> ELSE Unpacked(g[s \ {Max(s)}], cs[Max(s)])]
    <2>1. ASSUME NEW s \in SUBSET (1 .. n), s # {}
          PROVE  g[s] = Unpacked(g[s \ {Max(s)}], cs[Max(s)])
        <3>1. Max(s) \in 1 .. n
            BY <2>1, <1>2, MaxOf
        <3>2. g[s \ {Max(s)}] \in Seq(Seqs)
            BY <1>5 DEF Iterates
        <3>3. step[<<g[s \ {Max(s)}], Max(s)>>] = Unpacked(g[s \ {Max(s)}], cs[Max(s)])
            BY <3>1, <3>2
        <3> HIDE DEF step
        <3> QED BY <1>5, <2>1, <3>3 DEF Iterates
    <2> HIDE DEF step
    <2> QED BY <1>2, <1>5, <2>1 DEF Iterates
<1> HIDE DEF step
<1>7. Iter = [s \in Sets |->
                 IF s = {} THEN <<>> ELSE Unpacked(Iter[s \ {Max(s)}], cs[Max(s)])]
    BY <1>6
<1> HIDE DEF Iter
<1>8. a[0] = <<>>
    <2>1. {} \in Sets /\ 1 .. 0 = {} /\ 0 \in 0 .. n
        BY <1>2
    <2> QED BY <1>7, <2>1
<1>9. ASSUME NEW k \in 1 .. n PROVE a[k] = Unpacked(a[k - 1], cs[k])
    <2>1. Max(1 .. k) = k /\ (1 .. k) \ {Max(1 .. k)} = 1 .. k - 1
        BY MaxOfPrefix
    <2>2. 1 .. k \in Sets /\ 1 .. k # {} /\ k \in 0 .. n /\ k - 1 \in 0 .. n
        <3> HIDE DEF n
        <3>1. k \in 1 .. k /\ \A i \in 1 .. k : i \in 1 .. n
            BY <1>2
        <3>2. 1 .. k \in Sets
            BY <1>2, <3>1
        <3>3. k \in 0 .. n /\ k - 1 \in 0 .. n
            BY <1>2
        <3> QED BY <3>1, <3>2, <3>3
    <2>3. Iter[1 .. k] = Unpacked(Iter[(1 .. k) \ {Max(1 .. k)}], cs[Max(1 .. k)])
        BY <1>7, <2>2
    <2> QED BY <2>1, <2>2, <2>3
<1>10. Decoded(cs) = a[n]
    <2>1. n \in 0 .. n
        BY <1>2
    <2> QED BY <1>1, <1>2, <2>1
<1> HIDE DEF a
<1> QED BY <1>8, <1>9, <1>10

\* The decoder collects what the chunks ask for, and puts the first chunk's
\* number first if it comes before everything else.
LEMMA DecodedFacts ==
    ASSUME NEW cs \in Seq(Chunk)
    PROVE  /\ Decoded(cs) \in Seq(Seqs)
           /\ ToSet(Decoded(cs)) = UNION {Asks(c) : c \in ToSet(cs)}
           /\ \A h \in Seqs :
                 cs # <<>> /\ cs[1].pid = h /\ (\A c \in ToSet(cs) : Foremost(h, Asks(c)))
                 => Decoded(cs) # <<>> /\ Decoded(cs)[1] = h
<1> DEFINE n == Len(cs)
<1>1. n \in Nat /\ \A k \in 1 .. n : cs[k] \in Chunk
    OBVIOUS
<1>2. PICK a : /\ a[0] = <<>>
               /\ \A k \in 1 .. n : a[k] = Unpacked(a[k - 1], cs[k])
               /\ Decoded(cs) = a[n]
    BY Decoding
<1> DEFINE Behind(h) == /\ cs # <<>> /\ cs[1].pid = h
                        /\ \A c \in ToSet(cs) : Foremost(h, Asks(c))
           Upto(k) == UNION {Asks(cs[i]) : i \in 1 .. k}
           Good(k) == /\ a[k] \in Seq(Seqs)
                      /\ IF k = 0 THEN a[k] = <<>> ELSE a[k] # <<>>
                      /\ ToSet(a[k]) = Upto(k)
                      /\ \A h \in Seqs : k # 0 /\ Behind(h) => a[k][1] = h
           S == {k \in 0 .. n : Good(k)}
<1>3. 0 \in S
    <2>2. a[0] = <<>> /\ <<>> \in Seq(Seqs) /\ 0 \in 0 .. n
        BY <1>1, <1>2
    <2> HIDE DEF Upto, Behind
    <2>3. a[0] \in Seq(Seqs)
        BY <2>2
    <2>4. ToSet(a[0]) = {}
        BY <2>2 DEF ToSet
    <2>5. Upto(0) = {}
        BY DEF Upto
    <2>6. Good(0)
        BY <2>2, <2>3, <2>4, <2>5
    <2> HIDE DEF Good
    <2> QED BY <2>2, <2>6
<1>4. ASSUME NEW k \in 0 .. n - 1, k \in S PROVE k + 1 \in S
    <2>1. k + 1 \in 1 .. n /\ k + 1 - 1 = k /\ k + 1 \in 0 .. n /\ k + 1 > 0 /\ k + 1 # 0
        BY <1>1
    <2> DEFINE c == cs[k + 1]
    <2>2. c \in Chunk /\ a[k + 1] = Unpacked(a[k], c) /\ c \in ToSet(cs)
        BY <1>1, <1>2, <2>1 DEF ToSet
    <2>3. Good(k)
        BY <1>4
    <2>4. Upto(k + 1) = Upto(k) \cup Asks(c)
        <3>1. 1 .. k + 1 = (1 .. k) \cup {k + 1}
            BY <2>1
        <3> QED BY <3>1
    <2>5. k = 0 => c = cs[1]
        OBVIOUS
    <2> HIDE DEF c, Upto
    <2>6. /\ a[k + 1] \in Seq(Seqs) /\ a[k + 1] # <<>>
          /\ ToSet(a[k + 1]) = ToSet(a[k]) \cup Asks(c)
          /\ \A h \in Seqs :
                (IF a[k] = <<>> THEN c.pid = h ELSE a[k][1] = h) /\ Foremost(h, Asks(c))
                => a[k + 1][1] = h
        <3>1. a[k] \in Seq(Seqs)
            BY <2>3
        <3> QED BY <2>2, <3>1, UnpackedFacts
    <2>7. ASSUME NEW h \in Seqs, Behind(h) PROVE a[k + 1][1] = h
        <3>1. Foremost(h, Asks(c))
            BY <2>2, <2>7
        <3>2. IF a[k] = <<>> THEN c.pid = h ELSE a[k][1] = h
            <4>1. CASE k = 0
                BY <2>3, <2>5, <2>7, <4>1
            <4>2. CASE k # 0
                <5>1. k > 0 /\ a[k] # <<>>
                    BY <2>3, <4>2
                <5> QED BY <2>3, <2>7, <5>1
            <4> QED BY <4>1, <4>2
        <3> QED BY <2>6, <3>1, <3>2
    <2> HIDE DEF Behind
    <2> QED BY <2>1, <2>3, <2>4, <2>6, <2>7
<1>5. Good(n)
    <2>1. S \in SUBSET Nat /\ n \in 0 .. n /\ n \in Nat
        BY <1>1
    <2> HIDE DEF S, n
    <2>2. 0 .. n \subseteq S
        BY <1>3, <1>4, <2>1, Induction
    <2> QED BY <2>1, <2>2 DEF S
<1>6. Upto(n) = UNION {Asks(c) : c \in ToSet(cs)}
    BY DEF ToSet
<1>7. ASSUME NEW h \in Seqs, Behind(h) PROVE n > 0
    BY <1>7
<1> HIDE DEF Upto
<1> QED BY <1>1, <1>2, <1>5, <1>6, <1>7

-----------------------------------------------------------------------------
(* The list of the receiver: numbers are put at its end *)

\* Among numbers at most a window ahead of one, the distance is an order.
LEMMA AheadOrders ==
    ASSUME NEW h \in Seqs, NEW x \in Seqs, NEW y \in Seqs,
           (x - h) % SeqSpace \in 0 .. Window, (y - h) % SeqSpace \in 0 .. Window
    PROVE  Distance(x, y) > 0 <=> (x - h) % SeqSpace < (y - h) % SeqSpace
<1> DEFINE w == SeqSpace
           u == (x - h) % SeqSpace
           v == (y - h) % SeqSpace
           d == (y - x) % SeqSpace
<1>1. /\ h \in 0 .. w - 1 /\ x \in 0 .. w - 1 /\ y \in 0 .. w - 1
      /\ w \in Nat /\ Window \in Nat /\ 2 * Window < w
      /\ u \in 0 .. Window /\ v \in 0 .. Window
    BY SeqSpaceOK, CodecOK DEF Seqs
<1>2. /\ u = IF x >= h THEN x - h ELSE x - h + w
      /\ v = IF y >= h THEN y - h ELSE y - h + w
      /\ d = IF y >= x THEN y - x ELSE y - x + w
    BY TurnedOnce
<1>3. Distance(x, y) = IF 2 * d >= w THEN d - w ELSE d
    BY DEF Distance
<1> HIDE DEF w, u, v, d
<1>4. Distance(x, y) > 0 <=> u < v
    BY <1>1, <1>2, <1>3
<1> QED BY <1>4 DEF u, v

\* A number newer than all in the list, and not too far from the first, goes to
\* the end.
LEMMA AddedLast ==
    ASSUME NEW sns \in Seq(Seqs), Rising(sns), NEW sn \in Seqs,
           sns # <<>> => /\ Distance(Last(sns), sn) > 0
                         /\ Distance(Head(sns), sn) \in 1 .. Window
    PROVE  /\ Added(sns, sn) \in Seq(Seqs)
           /\ Len(Added(sns, sn)) = Len(sns) + 1
           /\ Rising(Added(sns, sn))
<1> DEFINE n == Len(sns)
           A(i) == Ahead(sns, i)
           new == Added(sns, sn)
<1>1. n \in Nat /\ Window \in Nat /\ \A i \in 1 .. n : sns[i] \in Seqs /\ A(i) \in 0 .. Window
    BY CodecOK DEF Rising
<1>2. ASSUME n > 0
      PROVE  /\ (sn - sns[1]) % SeqSpace \in 0 .. Window
             /\ \A i \in 1 .. n : A(i) < (sn - sns[1]) % SeqSpace
    <2> DEFINE b == (sn - sns[1]) % SeqSpace
    <2>1. sns # <<>> /\ Last(sns) = sns[n] /\ Head(sns) = sns[1] /\ 1 \in 1 .. n /\ n \in 1 .. n
        BY <1>1, <1>2 DEF Last
    <2>2. Distance(sns[n], sn) > 0 /\ Distance(sns[1], sn) \in 1 .. Window
        BY <2>1
    <2>3. b \in 0 .. Window
        <3>1. b \in Seqs /\ Distance(sns[1], sn) = IF 2 * b >= SeqSpace THEN b - SeqSpace ELSE b
            <4>1. sns[1] \in Seqs /\ sn - sns[1] \in Int
                BY <1>1, <2>1 DEF Seqs
            <4> QED BY <4>1, Remainder DEF Distance
        <3> HIDE DEF b
        <3> QED BY <2>2, <3>1, SeqSpaceOK, CodecOK DEF Seqs
    <2>4. A(n) < b
        BY <1>1, <2>1, <2>2, <2>3, AheadOrders DEF Ahead
    <2>5. ASSUME NEW i \in 1 .. n PROVE A(i) < b
        <3>1. CASE i = n
            BY <2>4, <3>1
        <3>2. CASE i # n
            <4>1. i < n
                BY <3>2, <1>1
            <4>2. A(i) < A(n)
                BY <4>1, <2>1 DEF Rising
            <4>3. A(i) \in Int /\ A(n) \in Int /\ b \in Int
                BY <1>1, <2>1, <2>3
            <4> HIDE DEF A, b
            <4> QED BY <2>4, <4>2, <4>3
        <3> QED BY <3>1, <3>2
    <2> QED BY <2>3, <2>5
<1>3. ASSUME NEW i \in 1 .. n
      PROVE  sn # sns[i] /\ ~(Distance(sn, sns[i]) > 0)
    <2>1. n > 0 /\ 1 \in 1 .. n
        BY <1>1
    <2> DEFINE b == (sn - sns[1]) % SeqSpace
    <2>2. b \in 0 .. Window /\ A(i) < b /\ A(i) \in 0 .. Window
        BY <1>1, <1>2, <2>1
    <2>3. Distance(sn, sns[i]) > 0 <=> b < A(i)
        BY <1>1, <2>1, <2>2, AheadOrders DEF Ahead
    <2>4. sn = sns[i] => A(i) = b
        BY DEF Ahead
    <2> HIDE DEF A, b
    <2> QED BY <2>2, <2>3, <2>4
<1>4. Place(sns, sn) = n
    <2> DEFINE Stops == {i \in 1 .. n - 1 :
                            \/ sn \in {sns[i], sns[i + 1]}
                            \/ Distance(sns[i], sn) > 0 /\ Distance(sn, sns[i + 1]) > 0}
    <2>1. ASSUME NEW i \in 1 .. n - 1
          PROVE  ~ (\/ sn \in {sns[i], sns[i + 1]}
                    \/ Distance(sns[i], sn) > 0 /\ Distance(sn, sns[i + 1]) > 0)
        <3>1. i \in 1 .. n /\ i + 1 \in 1 .. n
            BY <1>1
        <3> QED BY <1>3, <3>1
    <2>2. Stops = {}
        BY <2>1
    <2>3. CASE n = 0
        BY <2>3 DEF Place
    <2>4. CASE n > 0
        <3>1. n \in 1 .. n /\ n # 0
            BY <1>1, <2>4
        <3>2. sn # sns[n] /\ ~(Distance(sn, sns[n]) > 0)
            BY <1>3, <3>1
        <3> DEFINE stop == CHOOSE i \in Stops : \A j \in Stops : i <= j
        <3>3. Place(sns, sn) =
                CASE n = 0                 -> 0
                  [] Stops # {}            -> IF sn \in {sns[stop], sns[stop + 1]}
                                              THEN Duplicate ELSE stop
                  [] Stops = {} /\ n > 0   -> IF sns[n] = sn THEN Duplicate
                                              ELSE IF Distance(sn, sns[n]) > 0 THEN n - 1 ELSE n
            BY DEF Place
        <3> HIDE DEF Stops, stop, n
        <3> QED BY <2>2, <2>4, <3>1, <3>2, <3>3
    <2> QED BY <1>1, <2>3, <2>4
<1>5. new = Spliced(sns, n, sn)
    <2>1. n # Duplicate
        BY <1>1 DEF Duplicate
    <2> QED BY <1>4, <2>1 DEF Added
<1>6. /\ new \in Seq(Seqs)
      /\ Len(new) = n + 1
      /\ \A i \in 1 .. n : new[i] = sns[i]
      /\ new[n + 1] = sn
    <2>1. n \in 0 .. n
        BY <1>1
    <2>2. /\ new \in Seq(Seqs)
          /\ Len(new) = n + 1
          /\ \A i \in 1 .. n + 1 :
                new[i] = IF i <= n THEN sns[i] ELSE IF i = n + 1 THEN sn ELSE sns[i - 1]
        <3>1. n \in 0 .. Len(sns)
            BY <1>1
        <3>2. PutIn(new, Seqs, sns, n, sn)
            <4> HIDE DEF n, new
            <4> QED BY <1>5, <3>1, SplicedFacts
        <3> HIDE DEF new
        <3> QED BY <3>2 DEF PutIn
    <2> HIDE DEF new, n
    <2>3. n + 1 \in 1 .. n + 1 /\ ~(n + 1 <= n) /\ \A i \in 1 .. n : i \in 1 .. n + 1 /\ i <= n
        BY <1>1
    <2> QED BY <2>2, <2>3
<1> HIDE DEF new
<1>7. Rising(new)
    <2>1. CASE n = 0
        <3>1. Ahead(new, 1) = 0 /\ Len(new) = 1
            <4> HIDE DEF n
            <4>1. Len(new) = 1 /\ new[1] = sn
                BY <1>6, <2>1
            <4>2. sn - sn = 0 /\ 0 % SeqSpace = 0
                BY SeqSpaceOK DEF Seqs
            <4> QED BY <4>1, <4>2 DEF Ahead
        <3>2. \A i \in 1 .. Len(new) : i = 1
            BY <3>1
        <3>3. 0 \in 0 .. Window /\ \A i, j \in 1 .. Len(new) : ~(i < j)
            BY <1>1, <3>2
        <3> QED BY <3>1, <3>2, <3>3 DEF Rising
    <2>2. CASE n > 0
        <3>1. 1 \in 1 .. n /\ new[1] = sns[1]
            BY <1>1, <1>6, <2>2
        <3>2. /\ \A i \in 1 .. n : Ahead(new, i) = A(i)
              /\ Ahead(new, n + 1) = (sn - sns[1]) % SeqSpace
            BY <1>6, <3>1 DEF Ahead
        <3> DEFINE b == (sn - sns[1]) % SeqSpace
        <3>3. b \in 0 .. Window /\ \A i \in 1 .. n : A(i) < b
            BY <1>2, <2>2
        <3>4. \A i \in 1 .. n + 1 : i \in 1 .. n \/ i = n + 1
            BY <1>1
        <3>5. \A i, j \in 1 .. n : i < j => A(i) < A(j)
            BY DEF Rising
        <3> HIDE DEF A, b
        <3>6. \A i \in 1 .. n + 1 : Ahead(new, i) \in 0 .. Window
            BY <1>1, <3>2, <3>3, <3>4 DEF b
        <3>7. ASSUME NEW i \in 1 .. n + 1, NEW j \in 1 .. n + 1, i < j
              PROVE  Ahead(new, i) < Ahead(new, j)
            <4>1. i \in 1 .. n
                BY <1>1, <3>7
            <4>2. CASE j \in 1 .. n
                BY <3>2, <3>5, <3>7, <4>1, <4>2
            <4>3. CASE j = n + 1
                BY <3>2, <3>3, <4>1, <4>3 DEF b
            <4> QED BY <3>4, <4>2, <4>3
        <3>8. Len(new) = n + 1
            BY <1>6
        <3> HIDE DEF n
        <3> QED BY <3>6, <3>7, <3>8 DEF Rising
    <2> QED BY <1>1, <2>1, <2>2
<1> QED BY <1>6, <1>7 DEF new

-----------------------------------------------------------------------------
(* The invariant *)

CodecInv ==
    /\ nacks \in Seq(Seqs) /\ Len(nacks) <= MaxSns
    /\ Rising(nacks)
    /\ pc \in {"add", "sent", "done"}
    /\ pc # "add" => nacks # <<>> /\ chunks = Encoded(nacks)
    /\ pc = "done" => decoded = Decoded(chunks)

LEMMA CodecInitInv == CodecInit => CodecInv
<1> SUFFICES ASSUME CodecInit PROVE CodecInv
    OBVIOUS
<1>1. nacks = <<>> /\ pc = "add" /\ MaxSns \in Nat
    BY CodecOK DEF CodecInit
<1>2. Len(nacks) = 0 /\ nacks \in Seq(Seqs)
    BY <1>1
<1>3. Rising(nacks)
    BY <1>2 DEF Rising
<1> QED BY <1>1, <1>2, <1>3 DEF CodecInv

LEMMA CodecStepInv == CodecInv /\ [CodecNext]_codecVars => CodecInv'
<1> SUFFICES ASSUME CodecInv, [CodecNext]_codecVars PROVE CodecInv'
    OBVIOUS
<1>1. CASE AddSn
    <2>1. PICK sn \in Seqs :
             /\ nacks # <<>> => /\ Distance(Last(nacks), sn) > 0
                                /\ Distance(Head(nacks), sn) \in 1 .. Window
             /\ nacks' = Added(nacks, sn)
        BY <1>1 DEF AddSn
    <2>2. /\ Added(nacks, sn) \in Seq(Seqs)
          /\ Len(Added(nacks, sn)) = Len(nacks) + 1
          /\ Rising(Added(nacks, sn))
        BY <2>1, AddedLast DEF CodecInv
    <2>3. Len(nacks) < MaxSns /\ Len(nacks) \in Nat /\ MaxSns \in Nat
        BY <1>1, CodecOK DEF AddSn, CodecInv
    <2>4. Len(nacks') <= MaxSns
        BY <2>1, <2>2, <2>3
    <2>5. pc = "add" /\ pc' = pc
        BY <1>1 DEF AddSn
    <2> QED BY <2>1, <2>2, <2>4, <2>5 DEF CodecInv
<1>2. CASE Encode
    BY <1>2 DEF Encode, CodecInv
<1>3. CASE Decode
    BY <1>3 DEF Decode, CodecInv
<1>4. CASE UNCHANGED codecVars
    BY <1>4 DEF codecVars, CodecInv
<1> QED BY <1>1, <1>2, <1>3, <1>4 DEF CodecNext

LEMMA CodecInvariance == CodecSpec => []CodecInv
BY CodecInitInv, CodecStepInv, PTL DEF CodecSpec

\* What the chunks ask for is in the list, and the mask does not turn.
LEMMA AsksOfTheList ==
    ASSUME NEW sns \in Seq(Seqs), NEW c \in Chunk, From(c, sns, Len(sns))
    PROVE  /\ Asks(c) \subseteq ToSet(sns)
           /\ \A x \in ToSet(sns) : x - c.pid \in c.blp => x \in Asks(c)
<1>1. /\ c.pid \in Seqs /\ c.blp \subseteq 1 .. BlpBits /\ SeqSpace \in Nat \ {0}
      /\ DOMAIN sns = 1 .. Len(sns)
    BY SeqSpaceOK DEF Chunk
<1>2. \A s \in Seqs : s % SeqSpace = s
    BY <1>1 DEF Seqs
<1>3. ASSUME NEW b \in c.blp PROVE (c.pid + b) % SeqSpace \in ToSet(sns)
    <2>1. PICK j \in 1 .. Len(sns) : sns[j] = c.pid + b
        BY DEF From
    <2>2. sns[j] \in Seqs /\ sns[j] \in ToSet(sns)
        BY <1>1 DEF ToSet
    <2> QED BY <1>2, <2>1, <2>2
<1>4. c.pid \in ToSet(sns)
    BY <1>1 DEF From, ToSet
<1>5. ASSUME NEW x \in ToSet(sns), x - c.pid \in c.blp PROVE x \in Asks(c)
    <2>1. x \in Seqs
        BY <1>1 DEF ToSet
    <2>2. c.pid + (x - c.pid) = x
        BY <1>1, <2>1 DEF Seqs
    <2>3. (c.pid + (x - c.pid)) % SeqSpace = x
        BY <1>2, <2>1, <2>2
    <2> QED BY <1>5, <2>3 DEF Asks
<1> QED BY <1>3, <1>4, <1>5 DEF Asks

\* What the invariant says of the lists once the NACK went across.
LEMMA Across ==
    ASSUME CodecInv, pc = "done"
    PROVE  /\ nacks \in Seq(Seqs) /\ nacks # <<>> /\ Rising(nacks)
           /\ chunks = Encoded(nacks) /\ decoded = Decoded(chunks)
           /\ chunks \in Seq(Chunk) /\ chunks # <<>> /\ chunks[1].pid = nacks[1]
           /\ \A c \in ToSet(chunks) : c \in Chunk /\ From(c, nacks, Len(nacks))
           /\ ToSet(decoded) = UNION {Asks(c) : c \in ToSet(chunks)}
<1>1. /\ nacks \in Seq(Seqs) /\ nacks # <<>> /\ Rising(nacks)
      /\ chunks = Encoded(nacks) /\ decoded = Decoded(chunks)
    BY DEF CodecInv
<1>2. /\ chunks \in Seq(Chunk) /\ chunks # <<>> /\ chunks[1].pid = nacks[1]
      /\ \A c \in ToSet(chunks) : From(c, nacks, Len(nacks))
    BY <1>1, EncodedFacts
<1>3. \A c \in ToSet(chunks) : c \in Chunk
    BY <1>2 DEF ToSet
<1>4. ToSet(decoded) = UNION {Asks(c) : c \in ToSet(chunks)}
    BY <1>1, <1>2, DecodedFacts
<1> QED BY <1>1, <1>2, <1>3, <1>4

\* The numbers the sender reads out of a NACK are numbers the receiver put into
\* it (yang_encode_rtcpNack, yang_decode_rtcpNack), wherever the counter turns
\* and whatever lies between them.
THEOREM OnlyMissingAsked == CodecSpec => []OnlyTheMissing
<1>1. CodecInv => OnlyTheMissing
    <2> SUFFICES ASSUME CodecInv, pc = "done", NEW x \in ToSet(decoded)
                 PROVE  x \in ToSet(nacks)
        BY DEF OnlyTheMissing
    <2>1. PICK c \in ToSet(chunks) : x \in Asks(c)
        BY Across
    <2> QED BY <2>1, Across, AsksOfTheList
<1> QED BY <1>1, CodecInvariance, PTL

\* The first number the sender reads is the oldest one the receiver misses.
THEOREM OldestAsked == CodecSpec => []OldestIsCarried
<1>1. CodecInv => OldestIsCarried
    <2> SUFFICES ASSUME CodecInv, pc = "done"
                 PROVE  Head(decoded) = Head(nacks)
        BY DEF OldestIsCarried
    <2> DEFINE h == nacks[1]
    <2>1. /\ nacks \in Seq(Seqs) /\ Len(nacks) \in Nat /\ 1 \in 1 .. Len(nacks)
          /\ h \in Seqs /\ DOMAIN nacks = 1 .. Len(nacks) /\ Head(nacks) = h
        BY Across
    <2>2. ASSUME NEW x \in ToSet(nacks) PROVE ~(Distance(x, h) > 0)
        <3>1. PICK i \in 1 .. Len(nacks) : x = nacks[i]
            BY <2>1 DEF ToSet
        <3>2. x \in Seqs /\ (x - h) % SeqSpace \in 0 .. Window
            BY <2>1, <3>1, Across DEF Rising, Ahead
        <3>3. (h - h) % SeqSpace = 0 /\ 0 \in 0 .. Window
            BY <2>1, SeqSpaceOK, CodecOK DEF Seqs
        <3>4. Distance(x, h) > 0 <=> (x - h) % SeqSpace < 0
            BY <2>1, <3>2, <3>3, AheadOrders
        <3> QED BY <3>2, <3>4, CodecOK
    <2>3. \A c \in ToSet(chunks) : Foremost(h, Asks(c))
        BY <2>2, Across, AsksOfTheList DEF Foremost
    <2>4. decoded \in Seq(Seqs) /\ decoded # <<>> /\ decoded[1] = h
        BY <2>1, <2>3, Across, DecodedFacts
    <2> QED BY <2>1, <2>4
<1> QED BY <1>1, CodecInvariance, PTL

\* What a NACK leaves out comes right behind the end of one of its chunks: the
\* number that closed the chunk, or one the counter turned before.
THEOREM LeftOutOnlyBetween == CodecSpec => []LeftOutBetweenChunks
<1>1. CodecInv => LeftOutBetweenChunks
    <2> SUFFICES ASSUME CodecInv, pc = "done", NEW i \in 1 .. Len(nacks)
                 PROVE  nacks[i] \in ToSet(decoded) \/ LeftOut(ToSet(chunks), nacks, i)
        BY DEF LeftOutBetweenChunks, LeftOut
    <2>1. Carried(ToSet(chunks), nacks[i]) \/ LeftOut(ToSet(chunks), nacks, i)
        BY Across, EncodedFacts
    <2>2. ASSUME Carried(ToSet(chunks), nacks[i]) PROVE nacks[i] \in ToSet(decoded)
        <3>1. nacks[i] \in ToSet(nacks)
            BY Across DEF ToSet
        <3>2. PICK c \in ToSet(chunks) : nacks[i] = c.pid \/ nacks[i] - c.pid \in c.blp
            BY <2>2 DEF Carried
        <3>3. nacks[i] \in Asks(c)
            <4>1. CASE nacks[i] = c.pid
                BY <4>1 DEF Asks
            <4>2. CASE nacks[i] - c.pid \in c.blp
                BY <3>1, <4>2, Across, AsksOfTheList
            <4> QED BY <3>2, <4>1, <4>2
        <3> QED BY <3>3, Across
    <2> QED BY <2>1, <2>2
<1> QED BY <1>1, CodecInvariance, PTL
=============================================================================
