--------------------------- MODULE NetServerProofs ---------------------------
(***************************************************************************)
(* The slots of a NetServer, proved for any number of them, of connections,*)
(* of messages and of timeouts: no slot is lost or held twice, no late     *)
(* close or silent socket is ever in use, and a pass of the main loop over *)
(* m_vecUsedSocket sees every socket once although it erases on its way.   *)
(***************************************************************************)
EXTENDS NetServer, SequenceTheorems, FiniteSetTheorems, TLAPS

(* How often a slot stands in a vector, or in the acceptor's queue.        *)
Places(seq, s) == {i \in DOMAIN seq : seq[i] = s}
Occurrences(seq, s) == Cardinality(Places(seq, s))

One(cond) == IF cond THEN 1 ELSE 0

(* OnUpdateRecived holds the socket it has just erased.                    *)
InHand(s) == mainPc \in {"disconnect", "clear", "accept"} /\ pSocket = s

(* The invariant, part by part.  A slot's descriptor follows its place:    *)
(* closed with the acceptor, open from the accept to Disconnect.           *)
DescriptorOfPlace ==
    \A s \in Slots :
        /\ s \in ToSet(acceptOps) => sock[s] = "closed"
        /\ IsReady("accepted", s) \/ InUse(s) \/ (mainPc = "disconnect" /\ pSocket = s) =>
              sock[s] = "open"

(* A descriptor is shut down exactly while its one HandleClose is to come. *)
ShutIsClosing ==
    \A s \in Slots :
        ready[<<"closing", s>>] + One(closeTimer[s]) = One(sock[s] = "shut")

(* Run has put a slot in use in a receiving stage, and it has a read.      *)
UsedIsReceiving ==
    \A s \in Slots : InUse(s) => stage[s] = "RUN"

(* What a pass has seen and what is left of the vector are, together, the  *)
(* vector it began with.                                                   *)
PassOrder ==
    /\ mainPc = "update" => nIndex = 1 /\ visited = <<>>
    /\ mainPc # "update" =>
          /\ nIndex \in 1 .. Len(vecUsed) + 1
          /\ before = visited \o SubSeq(vecUsed, nIndex, Len(vecUsed))
    /\ mainPc \in {"disconnect", "clear", "accept"} => visited # <<>>

ServerInv ==
    /\ ServerTypeOK
    /\ SlotsConserved
    /\ DescriptorOfPlace
    /\ ShutIsClosing
    /\ UsedIsReceiving
    /\ NeverDeaf
    /\ PassOrder

----------------------------------------------------------------------------
(* Occurrences in a sequence.                                              *)

LEMMA PlacesFinite ==
    ASSUME NEW q \in Seq(Slots), NEW s
    PROVE  /\ IsFiniteSet(Places(q, s))
           /\ Occurrences(q, s) \in Nat
           /\ s \in ToSet(q) <=> Occurrences(q, s) > 0
<1>1. Len(q) \in Nat /\ DOMAIN q = 1 .. Len(q)
    BY LenProperties
<1>2. IsFiniteSet(1 .. Len(q))
    BY <1>1, FS_Interval
<1>3. Places(q, s) \in SUBSET (1 .. Len(q))
    BY <1>1 DEF Places
<1>4. IsFiniteSet(Places(q, s))
    BY <1>2, <1>3, FS_Subset
<1>5. Occurrences(q, s) \in Nat
    BY <1>4, FS_CardinalityType DEF Occurrences
<1>6. Occurrences(q, s) = 0 <=> Places(q, s) = {}
    BY <1>4, FS_EmptySet DEF Occurrences
<1>7. s \in ToSet(q) <=> Places(q, s) # {}
    BY DEF ToSet, Places
<1> QED
    BY <1>4, <1>5, <1>6, <1>7

LEMMA PlacesOfConcat ==
    ASSUME NEW q \in Seq(Slots), NEW r \in Seq(Slots), NEW s
    PROVE  Occurrences(q \o r, s) = Occurrences(q, s) + Occurrences(r, s)
<1> DEFINE n == Len(q)
           A == Places(q, s)
           B == Places(r, s)
           C == {i \in n + 1 .. n + Len(r) : r[i - n] = s}
           f == [i \in B |-> i + n]
<1>1. /\ n \in Nat /\ DOMAIN q = 1 .. n
      /\ Len(r) \in Nat /\ DOMAIN r = 1 .. Len(r)
    BY LenProperties
<1>2. /\ q \o r \in Seq(Slots)
      /\ Len(q \o r) = n + Len(r)
      /\ \A i \in 1 .. n + Len(r) :
            (q \o r)[i] = IF i <= n THEN q[i] ELSE r[i - n]
    BY ConcatProperties
<1>3. DOMAIN (q \o r) = 1 .. n + Len(r)
    BY <1>2, LenProperties
<1>4. Places(q \o r, s) = A \cup C
    BY <1>1, <1>2, <1>3 DEF Places
<1>5. A \cap C = {}
    BY <1>1 DEF Places
<1>6. IsFiniteSet(A) /\ IsFiniteSet(B)
    BY PlacesFinite
<1>7. f \in Bijection(B, C)
    <2>1. \A i \in B : i \in 1 .. Len(r) /\ r[i] = s /\ i + n \in C
        BY <1>1 DEF Places
    <2>2. f \in [B -> C]
        BY <2>1
    <2>3. ASSUME NEW a \in B, NEW b \in B, f[a] = f[b]
          PROVE  a = b
        BY <1>1, <2>1, <2>3
    <2>4. ASSUME NEW c \in C
          PROVE  \E b \in B : f[b] = c
        <3>1. c - n \in B
            BY <1>1 DEF Places
        <3>2. f[c - n] = c
            BY <1>1, <3>1
        <3> QED
            BY <3>1, <3>2
    <2> QED
        BY <2>2, <2>3, <2>4 DEF Bijection, Injection, Surjection, IsInjective
<1>8. IsFiniteSet(C) /\ Cardinality(C) = Cardinality(B)
    <2>1. ExistsBijection(B, C)
        BY <1>7 DEF ExistsBijection
    <2> HIDE DEF A, B, C, f, n
    <2> QED
        BY <2>1, <1>6, FS_Bijection
<1>9. Cardinality(A \cup C) = Cardinality(A) + Cardinality(C) - Cardinality(A \cap C)
    <2> HIDE DEF A, B, C, f, n
    <2> QED
        BY <1>6, <1>8, FS_Union
<1>10. Cardinality(A \cap C) = 0
    BY <1>5, FS_EmptySet
<1>11. Cardinality(A) \in Nat /\ Cardinality(C) \in Nat
    BY <1>6, <1>8, FS_CardinalityType
<1> QED
    BY <1>4, <1>8, <1>9, <1>10, <1>11 DEF Occurrences

LEMMA PlacesOfOne ==
    ASSUME NEW t \in Slots, NEW s
    PROVE  <<t>> \in Seq(Slots) /\ Occurrences(<<t>>, s) = One(t = s)
<1>1. CASE t = s
    <2>1. Places(<<t>>, s) = {1}
        BY <1>1 DEF Places
    <2>2. Cardinality({1}) = 1
        BY ONLY FS_Singleton
    <2> QED
        BY <1>1, <2>1, <2>2 DEF Occurrences, One
<1>2. CASE t # s
    <2>1. Places(<<t>>, s) = {}
        BY <1>2 DEF Places
    <2> QED
        BY <1>2, <2>1, FS_EmptySet DEF Occurrences, One
<1> QED
    BY <1>1, <1>2

LEMMA PlacesOfNone ==
    ASSUME NEW s
    PROVE  Occurrences(<<>>, s) = 0
<1>1. Places(<<>>, s) = {}
    BY DEF Places
<1> QED
    BY <1>1, FS_EmptySet DEF Occurrences

LEMMA PlacesOfAppend ==
    ASSUME NEW q \in Seq(Slots), NEW t \in Slots, NEW s
    PROVE  /\ Append(q, t) \in Seq(Slots)
           /\ Occurrences(Append(q, t), s) = Occurrences(q, s) + One(t = s)
<1>1. Append(q, t) = q \o <<t>> /\ Append(q, t) \in Seq(Slots)
    BY AppendIsConcat, AppendProperties
<1>2. <<t>> \in Seq(Slots) /\ Occurrences(<<t>>, s) = One(t = s)
    BY PlacesOfOne
<1>3. Occurrences(q \o <<t>>, s) = Occurrences(q, s) + Occurrences(<<t>>, s)
    BY <1>2, PlacesOfConcat
<1> QED
    BY <1>1, <1>2, <1>3

LEMMA PlacesOfTail ==
    ASSUME NEW q \in Seq(Slots), q # <<>>, NEW s
    PROVE  /\ Head(q) \in Slots
           /\ Tail(q) \in Seq(Slots)
           /\ Occurrences(q, s) = Occurrences(Tail(q), s) + One(Head(q) = s)
<1>1. Head(q) \in Slots /\ Tail(q) \in Seq(Slots)
    BY HeadTailProperties
<1>2. q = <<Head(q)>> \o Tail(q)
    <2>1. /\ Len(q) \in Nat \ {0} /\ Len(Tail(q)) = Len(q) - 1
          /\ \A i \in 1 .. Len(Tail(q)) : Tail(q)[i] = q[i + 1]
          /\ Head(q) = q[1]
        BY HeadTailProperties, LenProperties, EmptySeq
    <2>2. /\ <<Head(q)>> \in Seq(Slots) /\ Len(<<Head(q)>>) = 1
          /\ <<Head(q)>>[1] = Head(q)
        BY <1>1
    <2> DEFINE r == <<Head(q)>> \o Tail(q)
    <2>3. /\ r \in Seq(Slots)
          /\ Len(r) = 1 + Len(Tail(q))
          /\ \A i \in 1 .. 1 + Len(Tail(q)) :
                r[i] = IF i <= 1 THEN <<Head(q)>>[i] ELSE Tail(q)[i - 1]
        BY <1>1, <2>2, ConcatProperties
    <2>4. \A i \in 1 .. Len(q) : r[i] = q[i]
        <3> SUFFICES ASSUME NEW i \in 1 .. Len(q) PROVE r[i] = q[i]
            OBVIOUS
        <3>1. CASE i = 1
            BY <2>1, <2>2, <2>3, <3>1
        <3>2. CASE i # 1
            <4>1. i - 1 \in 1 .. Len(Tail(q)) /\ i \in 1 .. 1 + Len(Tail(q)) /\ ~(i <= 1)
                BY <2>1, <3>2
            <4>2. r[i] = Tail(q)[i - 1] /\ Tail(q)[i - 1] = q[(i - 1) + 1]
                BY <2>1, <2>3, <4>1
            <4>3. (i - 1) + 1 = i
                OBVIOUS
            <4> QED
                BY <4>2, <4>3
        <3> QED
            BY <3>1, <3>2
    <2>5. Len(r) = Len(q)
        BY <2>1, <2>3
    <2> HIDE DEF r
    <2>6. r = q
        BY <2>3, <2>4, <2>5, SeqEqual
    <2> QED
        BY <2>6 DEF r
<1>3. Occurrences(q, s) = Occurrences(<<Head(q)>>, s) + Occurrences(Tail(q), s)
    <2> DEFINE h == <<Head(q)>>
               t == Tail(q)
    <2>1. h \in Seq(Slots) /\ t \in Seq(Slots) /\ q = h \o t
        BY <1>1, <1>2
    <2> HIDE DEF h, t
    <2>2. Occurrences(h \o t, s) = Occurrences(h, s) + Occurrences(t, s)
        BY <2>1, PlacesOfConcat
    <2> QED
        BY <2>1, <2>2 DEF h, t
<1>4. Occurrences(<<Head(q)>>, s) = One(Head(q) = s)
    BY <1>1, PlacesOfOne
<1>5. Occurrences(Tail(q), s) \in Nat /\ One(Head(q) = s) \in Nat
    BY <1>1, PlacesFinite DEF One
<1> QED
    BY <1>1, <1>3, <1>4, <1>5

LEMMA RemovedOne ==
    ASSUME NEW q \in Seq(Slots), NEW i \in 1 .. Len(q)
    PROVE  /\ q[i] \in Slots
           /\ RemoveAt(q, i) \in Seq(Slots)
           /\ Len(RemoveAt(q, i)) = Len(q) - 1
           /\ SubSeq(RemoveAt(q, i), i, Len(q) - 1) = SubSeq(q, i + 1, Len(q))
           /\ SubSeq(q, i, Len(q)) = <<q[i]>> \o SubSeq(q, i + 1, Len(q))
           /\ q = SubSeq(q, 1, i - 1) \o SubSeq(q, i, Len(q))
<1> DEFINE n == Len(q)
           a == SubSeq(q, 1, i - 1)
           b == SubSeq(q, i + 1, n)
           c == SubSeq(q, i, n)
           m == i - 1
           k == i + 1
<1>1. /\ n \in Nat /\ i \in 1 .. n /\ i \in Int /\ n \in Int
      /\ \A j \in 1 .. n : q[j] \in Slots
    BY LenProperties, ElementOfSeq
<1>2. m \in 0 .. n /\ m \in Int /\ k \in 2 .. n + 1 /\ k \in Int /\ m + 1 = i /\ i + 1 = k
    BY <1>1
<1>3. a \in Seq(Slots) /\ Len(a) = m
    <2>1. \A j \in 1 .. m : q[j] \in Slots
        BY <1>1, <1>2
    <2>2. 1 \in Int
        OBVIOUS
    <2>3. /\ SubSeq(q, 1, m) \in Seq(Slots)
          /\ Len(SubSeq(q, 1, m)) = IF 1 <= m THEN m - 1 + 1 ELSE 0
        BY ONLY <1>2, <2>1, <2>2, SubSeqProperties
    <2> QED
        BY <1>2, <2>3
<1>4. b \in Seq(Slots) /\ Len(b) = n - i
    <2>1. \A j \in k .. n : q[j] \in Slots
        BY <1>1, <1>2
    <2>2. /\ SubSeq(q, k, n) \in Seq(Slots)
          /\ Len(SubSeq(q, k, n)) = IF k <= n THEN n - k + 1 ELSE 0
        BY ONLY <1>1, <1>2, <2>1, SubSeqProperties
    <2> QED
        BY <1>1, <1>2, <2>2
<1>5. c \in Seq(Slots)
    <2>1. \A j \in i .. n : q[j] \in Slots
        BY <1>1, <1>2
    <2>2. SubSeq(q, i, n) \in Seq(Slots)
        BY ONLY <1>1, <2>1, SubSeqProperties
    <2> QED
        BY <2>2
<1>6. RemoveAt(q, i) = a \o b
    BY DEF RemoveAt
<1>7. a \o b \in Seq(Slots) /\ Len(a \o b) = n - 1
    <2> HIDE DEF a, b, n, m
    <2>1. a \o b \in Seq(Slots) /\ Len(a \o b) = Len(a) + Len(b)
        BY <1>3, <1>4, ConcatProperties
    <2> QED
        BY <1>1, <1>2, <1>3, <1>4, <2>1
<1>8. SubSeq(a \o b, i, n - 1) = b
    <2>1. CASE i = n
        <3>1. SubSeq(a \o b, i, n - 1) = <<>>
            BY <1>1, <2>1, SubSeqEmpty
        <3>2. SubSeq(q, k, n) = <<>>
            BY <1>1, <1>2, <2>1, SubSeqEmpty
        <3> QED
            BY <3>1, <3>2
    <2>2. CASE i # n
        <3> HIDE DEF a, b
        <3>1. /\ i \in Len(a) + 1 .. Len(a) + Len(b)
              /\ n - 1 \in Len(a) + 1 .. Len(a) + Len(b)
              /\ i - Len(a) = 1 /\ n - 1 - Len(a) = Len(b)
            BY <1>1, <1>2, <1>3, <1>4, <2>2
        <3>2. SubSeq(a \o b, i, n - 1) = SubSeq(b, i - Len(a), n - 1 - Len(a))
            BY <1>3, <1>4, <3>1, SubSeqOfConcat2
        <3>3. SubSeq(b, 1, Len(b)) = b
            BY <1>4, SubSeqFull
        <3> QED
            BY <3>1, <3>2, <3>3
    <2> QED
        BY <2>1, <2>2
<1>9. c = <<q[i]>> \o b
    <2>1. n \in i .. n
        BY <1>1
    <2> QED
        BY ONLY <1>1, <2>1, SubSeqRecursiveFirst
<1>10. q = a \o c
    <2>1. SubSeq(q, 1, m) \o SubSeq(q, m + 1, n) = SubSeq(q, 1, n)
        <3>1. 1 \in 1 .. n + 1 /\ m \in 1 - 1 .. n /\ n \in m .. n
            BY <1>1, <1>2
        <3> QED
            BY ONLY <3>1, ConcatAdjacentSubSeq, q \in Seq(Slots)
    <2>2. SubSeq(q, 1, n) = q
        BY SubSeqFull
    <2> QED
        BY <1>2, <2>1, <2>2
<1> QED
    BY <1>1, <1>2, <1>6, <1>7, <1>8, <1>9, <1>10

LEMMA PlacesOfRemoved ==
    ASSUME NEW q \in Seq(Slots), NEW i \in 1 .. Len(q), NEW s
    PROVE  Occurrences(q, s) = Occurrences(RemoveAt(q, i), s) + One(q[i] = s)
<1> DEFINE n == Len(q)
           a == SubSeq(q, 1, i - 1)
           b == SubSeq(q, i + 1, n)
           c == SubSeq(q, i, n)
           x == <<q[i]>>
<1>1. /\ n \in Nat /\ i \in Int /\ i - 1 \in Int /\ i + 1 \in Int /\ n \in Int /\ 1 \in Int
      /\ \A j \in 1 .. n : q[j] \in Slots
    BY LenProperties, ElementOfSeq
<1>2. a \in Seq(Slots) /\ b \in Seq(Slots) /\ q[i] \in Slots
    <2>1. \A j \in 1 .. i - 1 : q[j] \in Slots
        BY <1>1
    <2>2. \A j \in i + 1 .. n : q[j] \in Slots
        BY <1>1
    <2>3. SubSeq(q, 1, i - 1) \in Seq(Slots)
        BY ONLY <1>1, <2>1, SubSeqProperties
    <2>4. SubSeq(q, i + 1, n) \in Seq(Slots)
        BY ONLY <1>1, <2>2, SubSeqProperties
    <2> QED
        BY <1>1, <2>3, <2>4
<1>3. x \in Seq(Slots) /\ Occurrences(x, s) = One(q[i] = s) /\ One(q[i] = s) \in Nat
    BY <1>2, PlacesOfOne DEF One
<1>4. q = a \o c /\ c = x \o b /\ RemoveAt(q, i) = a \o b
    BY RemovedOne DEF RemoveAt
<1> HIDE DEF a, b, c, n, x
<1>5. c \in Seq(Slots) /\ Occurrences(c, s) = Occurrences(x, s) + Occurrences(b, s)
    BY <1>2, <1>3, <1>4, ConcatProperties, PlacesOfConcat
<1>6. Occurrences(a \o c, s) = Occurrences(a, s) + Occurrences(c, s)
    BY <1>2, <1>5, PlacesOfConcat
<1>7. Occurrences(a \o b, s) = Occurrences(a, s) + Occurrences(b, s)
    BY <1>2, PlacesOfConcat
<1>8. Occurrences(a, s) \in Nat /\ Occurrences(b, s) \in Nat
    BY <1>2, PlacesFinite
<1>9. Occurrences(a \o c, s) = Occurrences(a \o b, s) + One(q[i] = s)
    BY <1>3, <1>5, <1>6, <1>7, <1>8
<1> QED
    BY <1>4, <1>9

(* HandleStart gives the acceptor every slot once.                         *)
LEMMA PlacesOfAll ==
    /\ SetToSeq(Slots) \in Seq(Slots)
    /\ \A s \in Slots : Occurrences(SetToSeq(Slots), s) = 1
<1> DEFINE n == Cardinality(Slots)
           q == SetToSeq(Slots)
<1>1. IsFiniteSet(Slots)
    BY ServerAssumption
<1>2. n \in Nat /\ ExistsBijection(1 .. n, Slots)
    BY <1>1, FS_CardinalityType
<1>3. \E f \in [1 .. n -> Slots] : IsInjective(f)
    BY <1>2 DEF ExistsBijection, Bijection, Injection
<1>4. q \in [1 .. n -> Slots] /\ IsInjective(q)
    BY <1>3 DEF SetToSeq
<1>5. IsFiniteSet(1 .. n) /\ Cardinality(1 .. n) = n
    BY <1>2, FS_Interval
<1>6. q \in Injection(1 .. n, Slots)
    BY <1>4 DEF Injection
<1> HIDE DEF q
<1>7. q \in Surjection(1 .. n, Slots)
    <2>1. Cardinality(1 .. n) = Cardinality(Slots) <=> q \in Surjection(1 .. n, Slots)
        BY ONLY <1>1, <1>6, FS_Injection
    <2> QED
        BY <1>5, <2>1
<1>8. q \in Seq(Slots)
    BY <1>2, <1>4
<1>9. ASSUME NEW s \in Slots
      PROVE  Occurrences(q, s) = 1
    <2>1. PICK i \in 1 .. n : q[i] = s
        BY <1>7 DEF Surjection
    <2>2. Places(q, s) = {i}
        BY <1>4, <2>1 DEF Places, IsInjective
    <2>3. Cardinality({i}) = 1
        BY ONLY FS_Singleton
    <2> QED
        BY <2>2, <2>3 DEF Occurrences
<1> QED
    BY <1>8, <1>9 DEF q

----------------------------------------------------------------------------
(* What the helpers of the module do to the handlers that are ready.       *)

Readies == [Kinds \X Slots -> Nat]

LEMMA PostedIs ==
    ASSUME NEW r \in Readies, NEW kind \in Kinds, NEW s \in Slots, NEW n \in Int,
           r[<<kind, s>>] + n >= 0
    PROVE  /\ Posted(r, kind, s, n) \in Readies
           /\ Posted(r, kind, s, n)[<<kind, s>>] = r[<<kind, s>>] + n
           /\ \A k \in Kinds, t \in Slots :
                 k # kind \/ t # s => Posted(r, kind, s, n)[<<k, t>>] = r[<<k, t>>]
<1>1. <<kind, s>> \in Kinds \X Slots
    OBVIOUS
<1>2. \A k \in Kinds, t \in Slots :
         <<k, t>> \in Kinds \X Slots /\ (k # kind \/ t # s => <<k, t>> # <<kind, s>>)
    OBVIOUS
<1>3. r[<<kind, s>>] + n \in Nat
    BY <1>1 DEF Readies
<1> QED
    BY <1>1, <1>2, <1>3 DEF Posted, Readies

LEMMA PostedMore ==
    ASSUME NEW r \in Readies, NEW kind \in Kinds, NEW s \in Slots, NEW n \in Nat
    PROVE  /\ Posted(r, kind, s, n) \in Readies
           /\ Posted(r, kind, s, n)[<<kind, s>>] = r[<<kind, s>>] + n
           /\ \A k \in Kinds, t \in Slots :
                 /\ r[<<k, t>>] \in Nat
                 /\ Posted(r, kind, s, n)[<<k, t>>] >= r[<<k, t>>]
                 /\ k # kind \/ t # s => Posted(r, kind, s, n)[<<k, t>>] = r[<<k, t>>]
<1>1. \A k \in Kinds, t \in Slots : <<k, t>> \in Kinds \X Slots /\ r[<<k, t>>] \in Nat
    BY DEF Readies
<1>2. n \in Int /\ r[<<kind, s>>] + n >= 0
    BY <1>1
<1>3. /\ Posted(r, kind, s, n) \in Readies
      /\ Posted(r, kind, s, n)[<<kind, s>>] = r[<<kind, s>>] + n
      /\ \A k \in Kinds, t \in Slots :
            k # kind \/ t # s => Posted(r, kind, s, n)[<<k, t>>] = r[<<k, t>>]
    BY <1>2, PostedIs
<1> QED
    BY <1>1, <1>3

(* The usual case: one handler of a kind more. *)
OneMore(q, r, kind, s) ==
    /\ q \in Readies
    /\ q[<<kind, s>>] = r[<<kind, s>>] + 1
    /\ \A k \in Kinds, t \in Slots : k # kind \/ t # s => q[<<k, t>>] = r[<<k, t>>]

LEMMA PostedOne ==
    ASSUME NEW r \in Readies, NEW kind \in Kinds, NEW s \in Slots
    PROVE  OneMore(Posted(r, kind, s, 1), r, kind, s)
<1>1. 1 \in Nat
    OBVIOUS
<1> QED
    BY <1>1, PostedMore DEF OneMore

LEMMA TakenIs ==
    ASSUME ready \in Readies, NEW kind \in Kinds, NEW s \in Slots, IsReady(kind, s)
    PROVE  /\ Taken(kind, s) \in Readies
           /\ Taken(kind, s)[<<kind, s>>] = ready[<<kind, s>>] - 1
           /\ \A k \in Kinds, t \in Slots :
                 /\ ready[<<k, t>>] \in Nat
                 /\ Taken(kind, s)[<<k, t>>] \in Nat
                 /\ Taken(kind, s)[<<k, t>>] <= ready[<<k, t>>]
                 /\ k # kind \/ t # s => Taken(kind, s)[<<k, t>>] = ready[<<k, t>>]
<1>1. \A k \in Kinds, t \in Slots : <<k, t>> \in Kinds \X Slots /\ ready[<<k, t>>] \in Nat
    BY DEF Readies
<1>2. -1 \in Int /\ ready[<<kind, s>>] + (-1) >= 0
    BY <1>1 DEF IsReady
<1>3. /\ Posted(ready, kind, s, -1) \in Readies
      /\ Posted(ready, kind, s, -1)[<<kind, s>>] = ready[<<kind, s>>] + (-1)
      /\ \A k \in Kinds, t \in Slots :
            k # kind \/ t # s => Posted(ready, kind, s, -1)[<<k, t>>] = ready[<<k, t>>]
    BY <1>2, PostedIs
<1>4. Taken(kind, s) = Posted(ready, kind, s, -1)
    BY DEF Taken
<1>5. Taken(kind, s)[<<kind, s>>] = ready[<<kind, s>>] - 1
    BY <1>1, <1>3, <1>4
<1>6. \A k \in Kinds, t \in Slots : Taken(kind, s)[<<k, t>>] \in Nat
    BY <1>3, <1>4 DEF Readies
<1>7. \A k \in Kinds, t \in Slots :
         k # kind \/ t # s => Taken(kind, s)[<<k, t>>] = ready[<<k, t>>]
    BY <1>3, <1>4
<1>8. ASSUME NEW k \in Kinds, NEW t \in Slots
      PROVE  Taken(kind, s)[<<k, t>>] <= ready[<<k, t>>]
    <2>1. ready[<<k, t>>] \in Nat
        BY <1>1
    <2>2. CASE k = kind /\ t = s
        BY <1>5, <2>1, <2>2
    <2>3. CASE k # kind \/ t # s
        BY <1>7, <2>1, <2>3
    <2> QED
        BY <2>2, <2>3
<1> QED
    BY <1>1, <1>3, <1>4, <1>5, <1>6, <1>7, <1>8

(* StartRead leaves the slot with a read pending, or one that has failed.  *)
LEMMA StartReadIs ==
    ASSUME sock \in [Slots -> {"closed", "open", "shut"}],
           reading \in [Slots -> Nat],
           rxTimer \in [Slots -> BOOLEAN],
           NEW r \in Readies, NEW s \in Slots, StartRead(s, r)
    PROVE  /\ ready' \in Readies
           /\ reading' \in [Slots -> Nat]
           /\ rxTimer' \in [Slots -> BOOLEAN]
           /\ \A k \in Kinds, t \in Slots :
                 /\ ready'[<<k, t>>] >= r[<<k, t>>]
                 /\ k # "failed" => ready'[<<k, t>>] = r[<<k, t>>]
           /\ \A t \in Slots : reading'[t] >= reading[t]
           /\ reading'[s] > 0 \/ ready'[<<"failed", s>>] > 0
<1>1. rxTimer' \in [Slots -> BOOLEAN]
    BY DEF StartRead
<1>2. \A k \in Kinds, t \in Slots : r[<<k, t>>] \in Nat
    BY DEF Readies
<1>3. "failed" \in Kinds /\ 1 \in Nat
    BY DEF Kinds
<1>4. CASE sock[s] = "closed"
    <2>1. ready' = Posted(r, "failed", s, 1) /\ reading' = reading
        BY <1>4 DEF StartRead
    <2>2. /\ Posted(r, "failed", s, 1) \in Readies
          /\ Posted(r, "failed", s, 1)[<<"failed", s>>] = r[<<"failed", s>>] + 1
          /\ \A k \in Kinds, t \in Slots :
                /\ r[<<k, t>>] \in Nat
                /\ Posted(r, "failed", s, 1)[<<k, t>>] >= r[<<k, t>>]
                /\ k # "failed" \/ t # s =>
                      Posted(r, "failed", s, 1)[<<k, t>>] = r[<<k, t>>]
        <3>1. OneMore(Posted(r, "failed", s, 1), r, "failed", s)
            BY <1>3, PostedOne
        <3>2. \A k \in Kinds, t \in Slots : r[<<k, t>>] \in Nat
            BY DEF Readies
        <3> QED
            BY <3>1, <3>2 DEF OneMore
    <2> QED
        BY <1>1, <1>2, <1>3, <2>1, <2>2
<1>5. CASE sock[s] # "closed"
    <2>1. ready' = r /\ reading' = [reading EXCEPT ![s] = reading[s] + 1]
        BY <1>5 DEF StartRead
    <2> QED
        BY <1>1, <1>2, <2>1
<1> QED
    BY <1>4, <1>5

(* SetAccept puts the slot in the acceptor's queue, or refuses it.         *)
LEMMA SetAcceptIs ==
    ASSUME acceptOps \in Seq(Slots), NEW r \in Readies, NEW s \in Slots, SetAccept(s, r)
    PROVE  /\ acceptOps' \in Seq(Slots)
           /\ ready' \in Readies
           /\ \A k \in Kinds \ {"refused"}, t \in Slots : ready'[<<k, t>>] = r[<<k, t>>]
           /\ \A t \in Slots :
                 /\ Occurrences(acceptOps', t) + ready'[<<"refused", t>>]
                       = Occurrences(acceptOps, t) + r[<<"refused", t>>] + One(s = t)
                 /\ t \in ToSet(acceptOps') =>
                       t \in ToSet(acceptOps) \/ (t = s /\ sock[s] = "closed")
<1>1. \A k \in Kinds, t \in Slots : r[<<k, t>>] \in Nat
    BY DEF Readies
<1>2. "refused" \in Kinds /\ 1 \in Nat
    BY DEF Kinds
<1>3. \A t \in Slots : Occurrences(acceptOps, t) \in Nat /\ One(s = t) \in Nat
    BY PlacesFinite DEF One
<1>4. CASE sock[s] = "closed"
    <2>1. acceptOps' = Append(acceptOps, s) /\ ready' = r
        BY <1>4 DEF SetAccept
    <2>2. acceptOps' \in Seq(Slots)
        BY <2>1, PlacesOfAppend
    <2>3. ASSUME NEW t \in Slots
          PROVE  Occurrences(acceptOps', t) = Occurrences(acceptOps, t) + One(s = t)
        BY <2>1, PlacesOfAppend
    <2>4. ASSUME NEW t \in Slots, t \in ToSet(acceptOps'), t # s
          PROVE  t \in ToSet(acceptOps)
        <3>1. One(s = t) = 0
            BY <2>4 DEF One
        <3>2. Occurrences(acceptOps', t) = Occurrences(acceptOps, t)
            BY <1>3, <2>3, <3>1
        <3>3. Occurrences(acceptOps', t) > 0
            BY <2>2, <2>4, PlacesFinite
        <3> QED
            BY <3>2, <3>3, PlacesFinite
    <2>5. ASSUME NEW t \in Slots
          PROVE  Occurrences(acceptOps', t) + ready'[<<"refused", t>>]
                    = Occurrences(acceptOps, t) + r[<<"refused", t>>] + One(s = t)
        BY <1>1, <1>2, <1>3, <2>1, <2>3
    <2> QED
        BY <1>4, <2>1, <2>2, <2>4, <2>5
<1>5. CASE sock[s] # "closed"
    <2>1. acceptOps' = acceptOps /\ ready' = Posted(r, "refused", s, 1)
        BY <1>5 DEF SetAccept
    <2>6. OneMore(Posted(r, "refused", s, 1), r, "refused", s)
        BY <1>2, PostedOne
    <2>2. /\ Posted(r, "refused", s, 1) \in Readies
          /\ Posted(r, "refused", s, 1)[<<"refused", s>>] = r[<<"refused", s>>] + 1
          /\ \A k \in Kinds, t \in Slots :
                k # "refused" \/ t # s =>
                      Posted(r, "refused", s, 1)[<<k, t>>] = r[<<k, t>>]
        BY <2>6 DEF OneMore
    <2>3. ASSUME NEW t \in Slots
          PROVE  ready'[<<"refused", t>>] = r[<<"refused", t>>] + One(s = t)
        BY <1>1, <1>2, <2>1, <2>2 DEF One
    <2>4. ASSUME NEW t \in Slots
          PROVE  Occurrences(acceptOps', t) + ready'[<<"refused", t>>]
                    = Occurrences(acceptOps, t) + r[<<"refused", t>>] + One(s = t)
        BY <1>1, <1>2, <1>3, <2>1, <2>3
    <2> QED
        BY <2>1, <2>2, <2>4
<1> QED
    BY <1>4, <1>5

(* Close aborts the reads that are pending: each of them will fail.        *)
LEMMA CloseIs ==
    ASSUME sock \in [Slots -> {"closed", "open", "shut"}],
           reading \in [Slots -> Nat],
           NEW r \in Readies, NEW s \in Slots, Close(s, r)
    PROVE  /\ ready' \in Readies
           /\ reading' \in [Slots -> Nat]
           /\ sock' \in [Slots -> {"closed", "open", "shut"}]
           /\ sock'[s] = "closed"
           /\ \A t \in Slots : t # s => sock'[t] = sock[t]
           /\ \A k \in Kinds, t \in Slots :
                 /\ ready'[<<k, t>>] >= r[<<k, t>>]
                 /\ k # "failed" => ready'[<<k, t>>] = r[<<k, t>>]
           /\ \A t \in Slots :
                 reading[t] > 0 => reading'[t] > 0 \/ ready'[<<"failed", t>>] > 0
<1>1. \A k \in Kinds, t \in Slots : r[<<k, t>>] \in Nat
    BY DEF Readies
<1>2. "failed" \in Kinds /\ reading[s] \in Nat
    BY DEF Kinds
<1>3. /\ sock' = [sock EXCEPT ![s] = "closed"]
      /\ reading' = [reading EXCEPT ![s] = 0]
      /\ ready' = Posted(r, "failed", s, reading[s])
    BY DEF Close
<1>4. /\ Posted(r, "failed", s, reading[s]) \in Readies
      /\ Posted(r, "failed", s, reading[s])[<<"failed", s>>] = r[<<"failed", s>>] + reading[s]
      /\ \A k \in Kinds, t \in Slots :
            /\ Posted(r, "failed", s, reading[s])[<<k, t>>] >= r[<<k, t>>]
            /\ k # "failed" \/ t # s =>
                  Posted(r, "failed", s, reading[s])[<<k, t>>] = r[<<k, t>>]
    BY <1>2, PostedMore
<1>5. ASSUME NEW t \in Slots, reading[t] > 0
      PROVE  reading'[t] > 0 \/ ready'[<<"failed", t>>] > 0
    <2>1. CASE t = s
        BY <1>1, <1>2, <1>3, <1>4, <1>5, <2>1
    <2>2. CASE t # s
        BY <1>3, <1>5, <2>2
    <2> QED
        BY <2>1, <2>2
<1>6. /\ sock' \in [Slots -> {"closed", "open", "shut"}]
      /\ reading' \in [Slots -> Nat]
      /\ sock'[s] = "closed"
      /\ \A t \in Slots : t # s => sock'[t] = sock[t]
    BY <1>3
<1>7. \A k \in Kinds, t \in Slots : k # "failed" => ready'[<<k, t>>] = r[<<k, t>>]
    BY <1>3, <1>4
<1> QED
    BY <1>3, <1>4, <1>5, <1>6, <1>7

(* The same for the handlers that are ready now. *)
LEMMA CloseNow ==
    ASSUME ServerTypeOK, NEW s \in Slots, Close(s, ready)
    PROVE  /\ \A k \in Kinds, t \in Slots :
                 /\ ready'[<<k, t>>] >= ready[<<k, t>>]
                 /\ k # "failed" => ready'[<<k, t>>] = ready[<<k, t>>]
           /\ \A t \in Slots :
                 reading[t] > 0 => reading'[t] > 0 \/ ready'[<<"failed", t>>] > 0
<1>1. /\ sock \in [Slots -> {"closed", "open", "shut"}] /\ reading \in [Slots -> Nat]
      /\ ready \in Readies
    BY DEF ServerTypeOK, Readies
<1> QED
    BY <1>1, CloseIs

----------------------------------------------------------------------------
(* The initial states.                                                     *)

LEMMA InitInv == ServerInit => ServerInv
<1> SUFFICES ASSUME ServerInit PROVE ServerInv
    OBVIOUS
<1> USE DEF ServerInit
<1>1. ServerTypeOK
    <2>1. {vecAccept, vecUsed, before, visited} \subseteq Seq(Slots)
        BY EmptySeq
    <2>2. acceptOps \in Seq(Slots)
        BY PlacesOfAll
    <2>3. /\ platform \in Platforms
          /\ sock \in [Slots -> {"closed", "open", "shut"}]
          /\ reading \in [Slots -> Nat]
          /\ rxTimer \in [Slots -> BOOLEAN]
          /\ closeTimer \in [Slots -> BOOLEAN]
        OBVIOUS
    <2>4. /\ ready \in [Kinds \X Slots -> Nat]
          /\ bExit \in [Slots -> BOOLEAN]
          /\ stage \in [Slots -> {"NULL", "RUN"}]
          /\ inbox \in [Slots -> Nat]
        OBVIOUS
    <2>5. nConns \in 0 .. MaxConns /\ nMsgs \in 0 .. MaxMsgs /\ nTimeouts \in 0 .. MaxTimeouts
        BY ServerAssumption
    <2>6. /\ mainPc \in {"update", "visit", "disconnect", "clear", "accept"}
          /\ nIndex \in Nat /\ aborted \in BOOLEAN
        OBVIOUS
    <2> QED
        BY ONLY <2>1, <2>2, <2>3, <2>4, <2>5, <2>6 DEF ServerTypeOK
<1>2. \A s \in Slots : ~InUse(s)
    BY DEF InUse, ToSet
<1>3. ASSUME NEW s \in Slots
      PROVE  Copies(s) = 1
    <2>1. Occurrences(acceptOps, s) = 1 /\ Occurrences(<<>>, s) = 0
        BY PlacesOfAll, PlacesOfNone
    <2>2. ready[<<"accepted", s>>] = 0 /\ ready[<<"refused", s>>] = 0
        BY DEF Kinds
    <2> QED
        BY <2>1, <2>2 DEF Copies, Occurrences, Places
<1>4. DescriptorOfPlace
    BY <1>2 DEF DescriptorOfPlace, IsReady, Kinds
<1>5. ShutIsClosing
    BY DEF ShutIsClosing, One, Kinds
<1>6. UsedIsReceiving /\ NeverDeaf
    BY <1>2 DEF UsedIsReceiving, NeverDeaf
<1>7. PassOrder
    BY DEF PassOrder
<1> QED
    BY <1>1, <1>3, <1>4, <1>5, <1>6, <1>7 DEF ServerInv, SlotsConserved

----------------------------------------------------------------------------
(* A slot has one place.                                                   *)

LEMMA CopiesSum ==
    ASSUME NEW s \in Slots
    PROVE  Copies(s) = Occurrences(acceptOps, s) + ready[<<"accepted", s>>]
                         + ready[<<"refused", s>>] + Occurrences(vecAccept, s)
                         + Occurrences(vecUsed, s) + One(InHand(s))
BY DEF Copies, Occurrences, Places, One, InHand

(* The places that the other parts of the invariant tell apart.            *)
PlacesApart ==
    \A s \in Slots :
        /\ s \in ToSet(acceptOps) => ~IsReady("accepted", s) /\ ~InUse(s) /\ ~InHand(s)
        /\ IsReady("accepted", s) => ~InUse(s) /\ ~InHand(s)
        /\ InUse(s) => ~InHand(s)

LEMMA OnePlace == ServerTypeOK /\ SlotsConserved => PlacesApart
<1> SUFFICES ASSUME ServerTypeOK, SlotsConserved, NEW s \in Slots
             PROVE  /\ s \in ToSet(acceptOps) =>
                          ~IsReady("accepted", s) /\ ~InUse(s) /\ ~InHand(s)
                    /\ IsReady("accepted", s) => ~InUse(s) /\ ~InHand(s)
                    /\ InUse(s) => ~InHand(s)
    BY DEF PlacesApart
<1> DEFINE a == Occurrences(acceptOps, s)
           b == ready[<<"accepted", s>>]
           c == ready[<<"refused", s>>]
           d == Occurrences(vecAccept, s)
           e == Occurrences(vecUsed, s)
           f == One(InHand(s))
<1>1. acceptOps \in Seq(Slots) /\ vecAccept \in Seq(Slots) /\ vecUsed \in Seq(Slots)
    BY DEF ServerTypeOK
<1>2. /\ a \in Nat /\ (s \in ToSet(acceptOps) <=> a > 0)
      /\ d \in Nat /\ (s \in ToSet(vecAccept) <=> d > 0)
      /\ e \in Nat /\ (s \in ToSet(vecUsed) <=> e > 0)
    BY <1>1, PlacesFinite
<1>3. b \in Nat /\ c \in Nat /\ (IsReady("accepted", s) <=> b > 0)
    BY DEF ServerTypeOK, Kinds, IsReady
<1>4. f \in Nat /\ (InHand(s) => f = 1)
    BY DEF One
<1>5. a + b + c + d + e + f = 1
    BY CopiesSum DEF SlotsConserved
<1>6. InUse(s) <=> d > 0 \/ e > 0
    BY <1>2 DEF InUse
<1> HIDE DEF a, b, c, d, e, f
<1> QED
    BY <1>2, <1>3, <1>4, <1>5, <1>6

(* The socket OnUpdateRecived holds, and the one it looks at.              *)
LEMMA HandIsSlot ==
    ASSUME ServerTypeOK, PassOrder, mainPc \in {"disconnect", "clear", "accept"}
    PROVE  pSocket \in Slots /\ InHand(pSocket)
<1>1. visited \in Seq(Slots) /\ visited # <<>>
    BY DEF ServerTypeOK, PassOrder
<1>2. Len(visited) \in 1 .. Len(visited)
    BY <1>1, LenProperties, EmptySeq
<1>3. visited[Len(visited)] \in Slots
    BY <1>1, <1>2, ElementOfSeq
<1> QED
    BY <1>3 DEF pSocket, InHand

LEMMA VisitedIsUsed ==
    ASSUME ServerTypeOK, PassOrder, NEW s, Visiting(s)
    PROVE  /\ s \in Slots /\ InUse(s)
           /\ nIndex \in 1 .. Len(vecUsed)
           /\ visited' \in Seq(Slots) /\ visited' # <<>> /\ visited'[Len(visited')] = s
<1>1. vecUsed \in Seq(Slots) /\ visited \in Seq(Slots)
    BY DEF ServerTypeOK
<1>2. mainPc = "visit" /\ nIndex <= Len(vecUsed) /\ s = vecUsed[nIndex] /\ visited' = Append(visited, s)
    BY DEF Visiting
<1>3. nIndex \in 1 .. Len(vecUsed)
    BY <1>1, <1>2, LenProperties DEF PassOrder
<1>4. s \in Slots
    BY <1>1, <1>2, <1>3, ElementOfSeq
<1>5. s \in ToSet(vecUsed)
    <2>1. DOMAIN vecUsed = 1 .. Len(vecUsed)
        BY <1>1, LenProperties
    <2> QED
        BY <1>2, <1>3, <2>1 DEF ToSet
<1>6. /\ Append(visited, s) \in Seq(Slots) /\ Append(visited, s) # <<>>
      /\ Len(Append(visited, s)) = Len(visited) + 1
      /\ Append(visited, s)[Len(visited) + 1] = s
    BY <1>1, <1>4, AppendProperties
<1> QED
    BY <1>2, <1>3, <1>4, <1>5, <1>6 DEF InUse

----------------------------------------------------------------------------
(* Types are kept.                                                         *)

LEMMA TypeStep == ServerTypeOK /\ PassOrder /\ ServerNext => ServerTypeOK'
<1> SUFFICES ASSUME ServerTypeOK, PassOrder, ServerNext
             PROVE  ServerTypeOK'
    OBVIOUS
<1> USE DEF ServerTypeOK, osVars, timers, slotVars, passVars, boundVars
<1>1. /\ ready \in Readies
      /\ vecAccept \in Seq(Slots) /\ vecUsed \in Seq(Slots)
      /\ before \in Seq(Slots) /\ visited \in Seq(Slots)
    BY DEF Readies
<1>2. MaxConns \in Nat /\ MaxMsgs \in Nat /\ MaxTimeouts \in Nat
    BY ServerAssumption
<1>3. SUFFICES
        /\ sock' \in [Slots -> {"closed", "open", "shut"}]
        /\ acceptOps' \in Seq(Slots)
        /\ reading' \in [Slots -> Nat]
        /\ rxTimer' \in [Slots -> BOOLEAN]
        /\ closeTimer' \in [Slots -> BOOLEAN]
        /\ ready' \in Readies
        /\ bExit' \in [Slots -> BOOLEAN]
        /\ stage' \in [Slots -> {"NULL", "RUN"}]
        /\ inbox' \in [Slots -> Nat]
        /\ vecAccept' \in Seq(Slots) /\ vecUsed' \in Seq(Slots)
        /\ before' \in Seq(Slots) /\ visited' \in Seq(Slots)
        /\ mainPc' \in {"update", "visit", "disconnect", "clear", "accept"}
        /\ nIndex' \in Nat
        /\ nConns' \in 0 .. MaxConns
        /\ nMsgs' \in 0 .. MaxMsgs
        /\ nTimeouts' \in 0 .. MaxTimeouts
        /\ aborted' \in BOOLEAN
        /\ platform' \in Platforms
    BY <1>3 DEF Readies
<1>4. CASE Connect
    <2>1. Head(acceptOps) \in Slots /\ Tail(acceptOps) \in Seq(Slots)
        BY <1>4, HeadTailProperties DEF Connect
    <2>2. Posted(ready, "accepted", Head(acceptOps), 1) \in Readies
        BY <1>1, <2>1, PostedMore DEF Kinds
    <2>3. sock' \in [Slots -> {"closed", "open", "shut"}] /\ nConns' \in 0 .. MaxConns
        BY <1>2, <1>4, <2>1 DEF Connect
    <2>4. acceptOps' \in Seq(Slots) /\ ready' \in Readies
        BY <1>4, <2>1, <2>2 DEF Connect
    <2> QED
        BY <1>1, <1>4, <2>3, <2>4 DEF Connect
<1>5. CASE \E s \in Slots : DataArrives(s)
    <2>1. PICK s \in Slots : DataArrives(s)
        BY <1>5
    <2>2. Posted(ready, "data", s, 1) \in Readies
        BY <1>1, PostedMore DEF Kinds
    <2>3. reading[s] - 1 \in Nat
        BY <2>1 DEF DataArrives
    <2> QED
        BY <1>1, <1>2, <2>1, <2>2, <2>3 DEF DataArrives
<1>6. CASE \E s \in Slots : ReadEnds(s)
    <2>1. PICK s \in Slots : ReadEnds(s)
        BY <1>6
    <2>2. Posted(ready, "failed", s, 1) \in Readies
        BY <1>1, PostedMore DEF Kinds
    <2>3. reading[s] - 1 \in Nat
        BY <2>1 DEF ReadEnds
    <2> QED
        BY <1>1, <1>2, <2>1, <2>2, <2>3 DEF ReadEnds
<1>7. CASE \E s \in Slots : RxTimerExpires(s)
    <2>1. PICK s \in Slots : RxTimerExpires(s)
        BY <1>7
    <2>2. Posted(ready, "waited", s, 1) \in Readies
        BY <1>1, PostedMore DEF Kinds
    <2> QED
        BY <1>1, <1>2, <2>1, <2>2 DEF RxTimerExpires
<1>8. CASE \E s \in Slots : CloseTimerExpires(s)
    <2>1. PICK s \in Slots : CloseTimerExpires(s)
        BY <1>8
    <2>2. Posted(ready, "closing", s, 1) \in Readies
        BY <1>1, PostedMore DEF Kinds
    <2> QED
        BY <1>1, <1>2, <2>1, <2>2 DEF CloseTimerExpires
<1>9. CASE \E s \in Slots : HandleAcceptFailed(s)
    <2>1. PICK s \in Slots : HandleAcceptFailed(s)
        BY <1>9
    <2>2. Taken("refused", s) \in Readies
        BY <1>1, <2>1, TakenIs DEF Kinds, HandleAcceptFailed
    <2>3. ready' \in Readies /\ acceptOps' \in Seq(Slots)
        BY <2>1, <2>2, SetAcceptIs DEF HandleAcceptFailed
    <2> QED
        BY <1>1, <1>2, <2>1, <2>3 DEF HandleAcceptFailed
<1>10. CASE \E s \in Slots : HandleAccept(s)
    <2>1. PICK s \in Slots : HandleAccept(s)
        BY <1>10
    <2>2. Taken("accepted", s) \in Readies
        BY <1>1, <2>1, TakenIs DEF Kinds, HandleAccept
    <2>3. /\ ready' \in Readies /\ reading' \in [Slots -> Nat]
          /\ rxTimer' \in [Slots -> BOOLEAN]
        BY <2>1, <2>2, StartReadIs DEF HandleAccept
    <2>4. Append(vecAccept, s) \in Seq(Slots)
        BY <1>1, PlacesOfAppend
    <2> QED
        BY <1>1, <1>2, <2>1, <2>3, <2>4 DEF HandleAccept
<1>11. CASE \E s \in Slots : RecvFailed(s)
    <2>1. PICK s \in Slots : RecvFailed(s)
        BY <1>11
    <2>2. Taken("failed", s) \in Readies
        BY <1>1, <2>1, TakenIs DEF Kinds, RecvFailed
    <2> QED
        BY <1>1, <1>2, <2>1, <2>2 DEF RecvFailed
<1>12. CASE \E s \in Slots : RecvMsg(s)
    <2>1. PICK s \in Slots : RecvMsg(s)
        BY <1>12
    <2>2. Taken("data", s) \in Readies
        BY <1>1, <2>1, TakenIs DEF Kinds, RecvMsg
    <2>3. Posted(Taken("data", s), "storing", s, 1) \in Readies
        BY <2>2, PostedMore DEF Kinds
    <2>4. ready' \in Readies /\ aborted' \in BOOLEAN
        BY <2>1, <2>2, <2>3 DEF RecvMsg
    <2> QED
        BY <1>1, <1>2, <2>1, <2>4 DEF RecvMsg
<1>13. CASE \E s \in Slots : RecvStore(s)
    <2>1. PICK s \in Slots : RecvStore(s)
        BY <1>13
    <2>2. Taken("storing", s) \in Readies
        BY <1>1, <2>1, TakenIs DEF Kinds, RecvStore
    <2>3. /\ ready' \in Readies /\ reading' \in [Slots -> Nat]
          /\ rxTimer' \in [Slots -> BOOLEAN]
        BY <2>1, <2>2, StartReadIs DEF RecvStore
    <2>4. inbox' = [inbox EXCEPT ![s] = inbox[s] + 1] /\ inbox[s] + 1 \in Nat
        BY <2>1 DEF RecvStore
    <2>5. inbox' \in [Slots -> Nat] /\ stage' \in [Slots -> {"NULL", "RUN"}]
        BY <2>1, <2>4 DEF RecvStore
    <2> QED
        BY <1>1, <1>2, <2>1, <2>3, <2>5 DEF RecvStore
<1>14. CASE \E s \in Slots : HandleWait(s)
    <2>1. PICK s \in Slots : HandleWait(s)
        BY <1>14
    <2>2. Taken("waited", s) \in Readies
        BY <1>1, <2>1, TakenIs DEF Kinds, HandleWait
    <2> QED
        BY <1>1, <1>2, <2>1, <2>2 DEF HandleWait
<1>15. CASE \E s \in Slots : HandleClose(s)
    <2>1. PICK s \in Slots : HandleClose(s)
        BY <1>15
    <2>2. Taken("closing", s) \in Readies
        BY <1>1, <2>1, TakenIs DEF Kinds, HandleClose
    <2>3. /\ ready' \in Readies /\ reading' \in [Slots -> Nat]
          /\ sock' \in [Slots -> {"closed", "open", "shut"}]
        BY <2>1, <2>2, CloseIs DEF HandleClose
    <2> QED
        BY <1>1, <1>2, <2>1, <2>3 DEF HandleClose
<1>16. CASE OnUpdateAccept
    <2>1. vecUsed \o vecAccept \in Seq(Slots) /\ <<>> \in Seq(Slots)
        BY <1>1, ConcatProperties, EmptySeq
    <2> QED
        BY <1>1, <1>2, <1>16, <2>1 DEF OnUpdateAccept
<1>17. CASE \E s \in Slots : VisitExit(s)
    <2>1. PICK s \in Slots : VisitExit(s)
        BY <1>17
    <2>2. nIndex \in 1 .. Len(vecUsed) /\ visited' \in Seq(Slots)
        BY <2>1, VisitedIsUsed DEF VisitExit
    <2>3. RemoveAt(vecUsed, nIndex) \in Seq(Slots)
        BY <1>1, <2>2, RemovedOne
    <2> QED
        BY <1>1, <1>2, <2>1, <2>2, <2>3 DEF VisitExit
<1>18. CASE \E s \in Slots : VisitMessage(s)
    <2>1. PICK s \in Slots : VisitMessage(s)
        BY <1>18
    <2>2. visited' \in Seq(Slots)
        BY <2>1, VisitedIsUsed DEF VisitMessage
    <2>3. bExit' \in [Slots -> BOOLEAN]
        BY <2>1 DEF VisitMessage
    <2>4. inbox[s] - 1 \in Nat /\ inbox' = [inbox EXCEPT ![s] = inbox[s] - 1]
        BY <2>1 DEF VisitMessage
    <2> QED
        BY <1>1, <1>2, <2>1, <2>2, <2>3, <2>4 DEF VisitMessage
<1>19. CASE \E s \in Slots : VisitNothing(s)
    <2>1. PICK s \in Slots : VisitNothing(s)
        BY <1>19
    <2>2. visited' \in Seq(Slots)
        BY <2>1, VisitedIsUsed DEF VisitNothing
    <2> QED
        BY <1>1, <1>2, <2>1, <2>2 DEF VisitNothing
<1>20. CASE PassEnds
    BY <1>1, <1>2, <1>20, EmptySeq DEF PassEnds
<1>21. CASE Disconnect
    <2>1. pSocket \in Slots
        BY <1>21, HandIsSlot DEF Disconnect
    <2>2. CASE platform = "win32"
        <3>1. Close(pSocket, ready) /\ UNCHANGED closeTimer
            BY <1>21, <2>2 DEF Disconnect
        <3>2. /\ ready' \in Readies /\ reading' \in [Slots -> Nat]
              /\ sock' \in [Slots -> {"closed", "open", "shut"}]
            BY <1>1, <2>1, <3>1, CloseIs
        <3> QED
            BY <1>1, <1>2, <1>21, <3>1, <3>2 DEF Disconnect
    <2>3. CASE platform # "win32"
        BY <1>1, <1>2, <1>21, <2>1, <2>3 DEF Disconnect
    <2> QED
        BY <2>2, <2>3
<1>22. CASE Clear
    <2>1. pSocket \in Slots
        BY <1>22, HandIsSlot DEF Clear
    <2> QED
        BY <1>1, <1>2, <1>22, <2>1 DEF Clear
<1>23. CASE Reaccept
    <2>1. pSocket \in Slots
        BY <1>23, HandIsSlot DEF Reaccept
    <2>2. ready' \in Readies /\ acceptOps' \in Seq(Slots)
        BY <1>1, <1>23, <2>1, SetAcceptIs DEF Reaccept
    <2> QED
        BY <1>1, <1>2, <1>23, <2>2 DEF Reaccept
<1> QED
    BY <1>4, <1>5, <1>6, <1>7, <1>8, <1>9, <1>10, <1>11, <1>12, <1>13, <1>14, <1>15, <1>16,
       <1>17, <1>18, <1>19, <1>20, <1>21, <1>22, <1>23
       DEF ServerNext, OsNext, Handler, Update

----------------------------------------------------------------------------
(* A pass over m_vecUsedSocket.                                            *)

LEMMA OthersLeavePass ==
    ASSUME OsNext \/ \E s \in Slots : Handler(s)
    PROVE  UNCHANGED <<passVars, vecUsed, platform>>
BY DEF OsNext, Handler, Connect, DataArrives, ReadEnds, RxTimerExpires, CloseTimerExpires,
       HandleAcceptFailed, HandleAccept, RecvFailed, RecvMsg, RecvStore, HandleWait,
       HandleClose, passVars, boundVars

LEMMA PassStep == ServerTypeOK /\ PassOrder /\ ServerNext => PassOrder'
<1> SUFFICES ASSUME ServerTypeOK, PassOrder, ServerNext
             PROVE  PassOrder'
    OBVIOUS
<1> USE DEF passVars
<1>1. vecAccept \in Seq(Slots) /\ vecUsed \in Seq(Slots) /\ visited \in Seq(Slots)
    BY DEF ServerTypeOK
<1>2. CASE OsNext \/ \E s \in Slots : Handler(s)
    <2>1. UNCHANGED <<mainPc, nIndex, before, visited, vecUsed>>
        BY <1>2, OthersLeavePass
    <2> QED
        BY <2>1 DEF PassOrder
<1>3. CASE OnUpdateAccept
    <2>1. /\ mainPc' = "visit" /\ nIndex' = 1 /\ visited' = <<>>
          /\ before' = vecUsed' /\ vecUsed' = vecUsed \o vecAccept
        BY <1>3 DEF OnUpdateAccept, PassOrder
    <2>2. vecUsed' \in Seq(Slots)
        BY <1>1, <2>1, ConcatProperties
    <2>3. SubSeq(vecUsed', 1, Len(vecUsed')) = vecUsed' /\ <<>> \o vecUsed' = vecUsed'
        BY <2>2, SubSeqFull, ConcatEmptySeq
    <2>4. Len(vecUsed') \in Nat
        BY <2>2, LenProperties
    <2> QED
        BY <2>1, <2>3, <2>4 DEF PassOrder
<1>4. ASSUME NEW s \in Slots, Visiting(s)
      PROVE  /\ before = visited' \o SubSeq(vecUsed, nIndex + 1, Len(vecUsed))
             /\ nIndex \in 1 .. Len(vecUsed) /\ s = vecUsed[nIndex]
             /\ visited' # <<>>
    <2>1. /\ s = vecUsed[nIndex] /\ visited' = Append(visited, s) /\ mainPc = "visit"
          /\ nIndex \in 1 .. Len(vecUsed) /\ visited' # <<>>
        BY <1>4, VisitedIsUsed DEF Visiting
    <2> DEFINE b == SubSeq(vecUsed, nIndex + 1, Len(vecUsed))
    <2>2. SubSeq(vecUsed, nIndex, Len(vecUsed)) = <<s>> \o b
        BY <1>1, <2>1, RemovedOne
    <2>3. before = visited \o (<<s>> \o b)
        BY <2>1, <2>2 DEF PassOrder
    <2>4. b \in Seq(Slots)
        <3>1. /\ nIndex + 1 \in Int /\ Len(vecUsed) \in Int
              /\ \A j \in nIndex + 1 .. Len(vecUsed) : vecUsed[j] \in Slots
            BY <1>1, <2>1, LenProperties, ElementOfSeq
        <3>2. SubSeq(vecUsed, nIndex + 1, Len(vecUsed)) \in Seq(Slots)
            BY ONLY <3>1, SubSeqProperties
        <3> QED
            BY <3>2
    <2>5. <<s>> \in Seq(Slots) /\ visited' = visited \o <<s>>
        BY <1>1, <2>1, AppendIsConcat
    <2> HIDE DEF b
    <2>6. (visited \o <<s>>) \o b = visited \o (<<s>> \o b)
        BY <1>1, <2>4, <2>5, ConcatAssociative
    <2> QED
        BY <2>1, <2>3, <2>5, <2>6 DEF b
<1>5. CASE \E s \in Slots : VisitExit(s)
    <2>1. PICK s \in Slots : VisitExit(s)
        BY <1>5
    <2>2. /\ Visiting(s) /\ vecUsed' = RemoveAt(vecUsed, nIndex)
          /\ mainPc' = "disconnect" /\ nIndex' = nIndex /\ before' = before
        BY <2>1 DEF VisitExit
    <2>3. /\ before = visited' \o SubSeq(vecUsed, nIndex + 1, Len(vecUsed))
          /\ nIndex \in 1 .. Len(vecUsed) /\ visited' # <<>>
        BY <1>4, <2>2
    <2>4. /\ Len(vecUsed') = Len(vecUsed) - 1
          /\ SubSeq(vecUsed', nIndex, Len(vecUsed) - 1) = SubSeq(vecUsed, nIndex + 1, Len(vecUsed))
        BY <1>1, <2>2, <2>3, RemovedOne
    <2>5. Len(vecUsed) \in Nat
        BY <1>1, LenProperties
    <2>6. nIndex' \in 1 .. Len(vecUsed') + 1
        BY <2>2, <2>3, <2>4, <2>5
    <2>7. before' = visited' \o SubSeq(vecUsed', nIndex', Len(vecUsed'))
        BY <2>2, <2>3, <2>4
    <2> QED
        BY <2>2, <2>3, <2>6, <2>7 DEF PassOrder
<1>6. CASE \E s \in Slots : VisitMessage(s) \/ VisitNothing(s)
    <2>1. PICK s \in Slots : VisitMessage(s) \/ VisitNothing(s)
        BY <1>6
    <2>2. /\ Visiting(s) /\ vecUsed' = vecUsed /\ mainPc = "visit"
          /\ mainPc' = mainPc /\ nIndex' = nIndex + 1 /\ before' = before
        BY <2>1 DEF VisitMessage, VisitNothing, Visiting
    <2>3. /\ before = visited' \o SubSeq(vecUsed, nIndex + 1, Len(vecUsed))
          /\ nIndex \in 1 .. Len(vecUsed)
        BY <1>4, <2>2
    <2>4. nIndex' \in 1 .. Len(vecUsed') + 1
        BY <2>2, <2>3
    <2> QED
        BY <2>2, <2>3, <2>4 DEF PassOrder
<1>7. CASE PassEnds
    BY <1>7 DEF PassEnds, PassOrder
<1>8. CASE Disconnect \/ Clear \/ Reaccept
    <2>1. /\ UNCHANGED <<nIndex, before, visited, vecUsed>>
          /\ mainPc \in {"disconnect", "clear", "accept"}
          /\ mainPc' \in {"clear", "accept", "visit"}
        BY <1>8 DEF Disconnect, Clear, Reaccept
    <2> QED
        BY <2>1 DEF PassOrder
<1> QED
    BY <1>2, <1>3, <1>5, <1>6, <1>7, <1>8 DEF ServerNext, Update

LEMMA PassSeesAll == ServerTypeOK /\ PassOrder => EachVisitedOnce
<1> SUFFICES ASSUME ServerTypeOK, PassOrder, mainPc = "visit", nIndex > Len(vecUsed)
             PROVE  visited = before
    BY DEF EachVisitedOnce
<1>1. vecUsed \in Seq(Slots) /\ visited \in Seq(Slots)
    BY DEF ServerTypeOK
<1>2. /\ nIndex \in 1 .. Len(vecUsed) + 1
      /\ before = visited \o SubSeq(vecUsed, nIndex, Len(vecUsed))
    BY DEF PassOrder
<1>3. Len(vecUsed) \in Int /\ nIndex \in Int /\ Len(vecUsed) < nIndex
    BY <1>1, <1>2, LenProperties
<1>4. SubSeq(vecUsed, nIndex, Len(vecUsed)) = <<>>
    BY ONLY <1>3, SubSeqEmpty
<1>5. visited \o <<>> = visited
    BY <1>1, ConcatEmptySeq
<1> QED
    BY <1>2, <1>4, <1>5

----------------------------------------------------------------------------
(* What each step does to the handlers that are ready.                     *)

Raises(kind, s) ==
    /\ ready'[<<kind, s>>] = ready[<<kind, s>>] + 1
    /\ \A k \in Kinds, t \in Slots : k # kind \/ t # s => ready'[<<k, t>>] = ready[<<k, t>>]

Lowers(kind, s) ==
    /\ ready'[<<kind, s>>] = ready[<<kind, s>>] - 1
    /\ \A k \in Kinds, t \in Slots : k # kind \/ t # s => ready'[<<k, t>>] = ready[<<k, t>>]

LEMMA PostedRaises ==
    ASSUME ready \in Readies, NEW kind \in Kinds, NEW s \in Slots,
           ready' = Posted(ready, kind, s, 1)
    PROVE  Raises(kind, s)
<1>1. /\ Posted(ready, kind, s, 1)[<<kind, s>>] = ready[<<kind, s>>] + 1
      /\ \A k \in Kinds, t \in Slots :
            k # kind \/ t # s => Posted(ready, kind, s, 1)[<<k, t>>] = ready[<<k, t>>]
    BY PostedMore
<1> QED
    BY <1>1 DEF Raises

LEMMA TakenLowers ==
    ASSUME ready \in Readies, NEW kind \in Kinds, NEW s \in Slots, IsReady(kind, s),
           ready' = Taken(kind, s)
    PROVE  Lowers(kind, s)
<1>1. /\ Taken(kind, s)[<<kind, s>>] = ready[<<kind, s>>] - 1
      /\ \A k \in Kinds, t \in Slots :
            k # kind \/ t # s => Taken(kind, s)[<<k, t>>] = ready[<<k, t>>]
    BY TakenIs
<1> QED
    BY <1>1 DEF Lowers

LEMMA OsRaises ==
    ASSUME ServerTypeOK, NEW s \in Slots
    PROVE  /\ DataArrives(s) => Raises("data", s)
           /\ ReadEnds(s) => Raises("failed", s)
           /\ RxTimerExpires(s) => Raises("waited", s)
           /\ CloseTimerExpires(s) => Raises("closing", s)
<1>1. ready \in Readies
    BY DEF ServerTypeOK, Readies
<1> QED
    BY <1>1, PostedRaises
       DEF Kinds, DataArrives, ReadEnds, RxTimerExpires, CloseTimerExpires

LEMMA HandlersLower ==
    ASSUME ServerTypeOK, NEW s \in Slots
    PROVE  /\ RecvFailed(s) => Lowers("failed", s)
           /\ HandleWait(s) => Lowers("waited", s)
<1>1. ready \in Readies
    BY DEF ServerTypeOK, Readies
<1> QED
    BY <1>1, TakenLowers DEF Kinds, RecvFailed, HandleWait

(* The three handlers that do something else with what is ready.           *)
LEMMA RecvMsgMoves ==
    ASSUME ServerTypeOK, NEW s \in Slots, RecvMsg(s)
    PROVE  /\ \A k \in Kinds \ {"data", "storing"}, t \in Slots : ready'[<<k, t>>] = ready[<<k, t>>]
           /\ \A k \in Kinds, t \in Slots : t # s => ready'[<<k, t>>] = ready[<<k, t>>]
           /\ stage[s] # "NULL" => ready'[<<"storing", s>>] > 0
<1>1. ready \in Readies /\ IsReady("data", s)
    BY DEF ServerTypeOK, Readies, RecvMsg
<1>2. "data" \in Kinds /\ "storing" \in Kinds
    BY DEF Kinds
<1> DEFINE r == Taken("data", s)
<1>3. /\ r \in Readies
      /\ \A k \in Kinds, t \in Slots :
            k # "data" \/ t # s => r[<<k, t>>] = ready[<<k, t>>]
      /\ r[<<"storing", s>>] \in Nat
    BY <1>1, <1>2, TakenIs
<1>4. ready' = IF stage[s] = "NULL" THEN r ELSE Posted(r, "storing", s, 1)
    BY DEF RecvMsg
<1> HIDE DEF r
<1>8. OneMore(Posted(r, "storing", s, 1), r, "storing", s)
    BY <1>2, <1>3, PostedOne
<1>5. /\ Posted(r, "storing", s, 1)[<<"storing", s>>] = r[<<"storing", s>>] + 1
      /\ \A k \in Kinds, t \in Slots :
            k # "storing" \/ t # s => Posted(r, "storing", s, 1)[<<k, t>>] = r[<<k, t>>]
    BY <1>8 DEF OneMore
<1>6. CASE stage[s] = "NULL"
    BY <1>3, <1>4, <1>6
<1>7. CASE stage[s] # "NULL"
    BY <1>2, <1>3, <1>4, <1>5, <1>7
<1> QED
    BY <1>6, <1>7

LEMMA RecvStoreMoves ==
    ASSUME ServerTypeOK, NEW s \in Slots, RecvStore(s)
    PROVE  /\ \A k \in Kinds \ {"failed", "storing"}, t \in Slots :
                 ready'[<<k, t>>] = ready[<<k, t>>]
           /\ \A k \in Kinds, t \in Slots : t # s => ready'[<<k, t>>] >= ready[<<k, t>>]
           /\ \A t \in Slots : reading'[t] >= reading[t]
           /\ reading'[s] > 0 \/ ready'[<<"failed", s>>] > 0
<1>1. ready \in Readies /\ IsReady("storing", s)
    BY DEF ServerTypeOK, Readies, RecvStore
<1>2. "storing" \in Kinds
    BY DEF Kinds
<1> DEFINE r == Taken("storing", s)
<1>3. /\ r \in Readies
      /\ \A k \in Kinds, t \in Slots :
            k # "storing" \/ t # s => r[<<k, t>>] = ready[<<k, t>>]
    BY <1>1, <1>2, TakenIs
<1>4. StartRead(s, r)
    BY DEF RecvStore
<1> HIDE DEF r
<1>5. /\ \A k \in Kinds, t \in Slots :
            /\ ready'[<<k, t>>] >= r[<<k, t>>]
            /\ k # "failed" => ready'[<<k, t>>] = r[<<k, t>>]
      /\ \A t \in Slots : reading'[t] >= reading[t]
      /\ reading'[s] > 0 \/ ready'[<<"failed", s>>] > 0
    BY <1>3, <1>4, StartReadIs DEF ServerTypeOK
<1> QED
    BY <1>3, <1>5

LEMMA HandleAcceptMoves ==
    ASSUME ServerTypeOK, NEW s \in Slots, HandleAccept(s)
    PROVE  /\ ready'[<<"accepted", s>>] = ready[<<"accepted", s>>] - 1
           /\ \A k \in Kinds \ {"failed"}, t \in Slots :
                 k # "accepted" \/ t # s => ready'[<<k, t>>] = ready[<<k, t>>]
           /\ \A t \in Slots : ready'[<<"failed", t>>] >= ready[<<"failed", t>>]
           /\ \A t \in Slots : reading'[t] >= reading[t]
           /\ reading'[s] > 0 \/ ready'[<<"failed", s>>] > 0
<1>1. ready \in Readies /\ IsReady("accepted", s)
    BY DEF ServerTypeOK, Readies, HandleAccept
<1>2. "accepted" \in Kinds /\ "failed" \in Kinds
    BY DEF Kinds
<1> DEFINE r == Taken("accepted", s)
<1>3. /\ r \in Readies
      /\ r[<<"accepted", s>>] = ready[<<"accepted", s>>] - 1
      /\ \A k \in Kinds, t \in Slots :
            k # "accepted" \/ t # s => r[<<k, t>>] = ready[<<k, t>>]
    BY <1>1, <1>2, TakenIs
<1>4. StartRead(s, r)
    BY DEF HandleAccept
<1> HIDE DEF r
<1>5. /\ \A k \in Kinds, t \in Slots :
            /\ ready'[<<k, t>>] >= r[<<k, t>>]
            /\ k # "failed" => ready'[<<k, t>>] = r[<<k, t>>]
      /\ \A t \in Slots : reading'[t] >= reading[t]
      /\ reading'[s] > 0 \/ ready'[<<"failed", s>>] > 0
    BY <1>3, <1>4, StartReadIs DEF ServerTypeOK
<1> QED
    BY <1>2, <1>3, <1>5

LEMMA HandleCloseMoves ==
    ASSUME ServerTypeOK, NEW s \in Slots, HandleClose(s)
    PROVE  /\ ready'[<<"closing", s>>] = ready[<<"closing", s>>] - 1
           /\ \A k \in Kinds \ {"failed"}, t \in Slots :
                 k # "closing" \/ t # s => ready'[<<k, t>>] = ready[<<k, t>>]
           /\ \A t \in Slots : ready'[<<"failed", t>>] >= ready[<<"failed", t>>]
           /\ sock'[s] = "closed"
           /\ \A t \in Slots : t # s => sock'[t] = sock[t]
           /\ \A t \in Slots :
                 reading[t] > 0 => reading'[t] > 0 \/ ready'[<<"failed", t>>] > 0
<1>1. ready \in Readies /\ IsReady("closing", s)
    BY DEF ServerTypeOK, Readies, HandleClose
<1>2. "closing" \in Kinds /\ "failed" \in Kinds
    BY DEF Kinds
<1> DEFINE r == Taken("closing", s)
<1>3. /\ r \in Readies
      /\ r[<<"closing", s>>] = ready[<<"closing", s>>] - 1
      /\ \A k \in Kinds, t \in Slots :
            k # "closing" \/ t # s => r[<<k, t>>] = ready[<<k, t>>]
    BY <1>1, <1>2, TakenIs
<1>4. Close(s, r)
    BY DEF HandleClose
<1> HIDE DEF r
<1>5. /\ sock'[s] = "closed"
      /\ \A t \in Slots : t # s => sock'[t] = sock[t]
      /\ \A k \in Kinds, t \in Slots :
            /\ ready'[<<k, t>>] >= r[<<k, t>>]
            /\ k # "failed" => ready'[<<k, t>>] = r[<<k, t>>]
      /\ \A t \in Slots :
            reading[t] > 0 => reading'[t] > 0 \/ ready'[<<"failed", t>>] > 0
    BY <1>3, <1>4, CloseIs DEF ServerTypeOK
<1> QED
    BY <1>2, <1>3, <1>5

LEMMA HandleAcceptFailedMoves ==
    ASSUME ServerTypeOK, NEW s \in Slots, HandleAcceptFailed(s)
    PROVE  /\ \A k \in Kinds \ {"refused"}, t \in Slots : ready'[<<k, t>>] = ready[<<k, t>>]
           /\ \A t \in Slots :
                 /\ Occurrences(acceptOps', t) + ready'[<<"refused", t>>]
                       = Occurrences(acceptOps, t) + ready[<<"refused", t>>]
                 /\ t \in ToSet(acceptOps') =>
                       t \in ToSet(acceptOps) \/ (t = s /\ sock[s] = "closed")
<1>1. ready \in Readies /\ IsReady("refused", s) /\ acceptOps \in Seq(Slots)
    BY DEF ServerTypeOK, Readies, HandleAcceptFailed
<1>2. "refused" \in Kinds
    BY DEF Kinds
<1> DEFINE r == Taken("refused", s)
<1>3. /\ r \in Readies
      /\ r[<<"refused", s>>] = ready[<<"refused", s>>] - 1
      /\ \A k \in Kinds, t \in Slots :
            k # "refused" \/ t # s => r[<<k, t>>] = ready[<<k, t>>]
    BY <1>1, <1>2, TakenIs
<1>4. SetAccept(s, r)
    BY DEF HandleAcceptFailed
<1> HIDE DEF r
<1>5. /\ \A k \in Kinds \ {"refused"}, t \in Slots : ready'[<<k, t>>] = r[<<k, t>>]
      /\ \A t \in Slots :
            /\ Occurrences(acceptOps', t) + ready'[<<"refused", t>>]
                  = Occurrences(acceptOps, t) + r[<<"refused", t>>] + One(s = t)
            /\ t \in ToSet(acceptOps') =>
                  t \in ToSet(acceptOps) \/ (t = s /\ sock[s] = "closed")
    BY <1>1, <1>3, <1>4, SetAcceptIs
<1>6. ASSUME NEW t \in Slots
      PROVE  Occurrences(acceptOps', t) + ready'[<<"refused", t>>]
                = Occurrences(acceptOps, t) + ready[<<"refused", t>>]
    <2>1. /\ Occurrences(acceptOps, t) \in Nat
          /\ ready[<<"refused", t>>] \in Nat
        BY <1>1, <1>2, PlacesFinite DEF Readies
    <2>2. CASE t = s
        <3>1. r[<<"refused", t>>] = ready[<<"refused", t>>] - 1 /\ One(s = t) = 1
            BY <1>3, <2>2 DEF One
        <3>2. Occurrences(acceptOps', t) + ready'[<<"refused", t>>]
                 = Occurrences(acceptOps, t) + r[<<"refused", t>>] + One(s = t)
            BY <1>5
        <3> QED
            BY <2>1, <3>1, <3>2
    <2>3. CASE t # s
        <3>1. r[<<"refused", t>>] = ready[<<"refused", t>>] /\ One(s = t) = 0
            BY <1>2, <1>3, <2>3 DEF One
        <3>2. Occurrences(acceptOps', t) + ready'[<<"refused", t>>]
                 = Occurrences(acceptOps, t) + r[<<"refused", t>>] + One(s = t)
            BY <1>5
        <3> QED
            BY <2>1, <3>1, <3>2
    <2> QED
        BY <2>2, <2>3
<1> QED
    BY <1>3, <1>5, <1>6

----------------------------------------------------------------------------
(* No slot is lost, none is held twice.                                    *)

LEMMA CopiesStep ==
    ServerTypeOK /\ PassOrder /\ SlotsConserved /\ ServerNext => SlotsConserved'
<1> SUFFICES ASSUME ServerTypeOK, PassOrder, SlotsConserved, ServerNext, NEW t \in Slots
             PROVE  (Copies(t))' = 1
    BY DEF SlotsConserved
<1> DEFINE a == Occurrences(acceptOps, t)
           b == ready[<<"accepted", t>>]
           c == ready[<<"refused", t>>]
           d == Occurrences(vecAccept, t)
           e == Occurrences(vecUsed, t)
           f == One(InHand(t))
<1>1. /\ ready \in Readies
      /\ acceptOps \in Seq(Slots) /\ vecAccept \in Seq(Slots) /\ vecUsed \in Seq(Slots)
      /\ "accepted" \in Kinds /\ "refused" \in Kinds
      /\ <<"accepted", t>> \in Kinds \X Slots /\ <<"refused", t>> \in Kinds \X Slots
    BY DEF ServerTypeOK, Readies, Kinds
<1>2. a + b + c + d + e + f = 1
    BY CopiesSum DEF SlotsConserved
<1>3. (Copies(t))' = a' + b' + c' + d' + e' + f'
    BY DEF Copies, Occurrences, Places, One, InHand
<1>4. a \in Nat /\ b \in Nat /\ c \in Nat /\ d \in Nat /\ e \in Nat /\ f \in Nat
    BY <1>1, PlacesFinite DEF Readies, One
<1>5. CASE \E s \in Slots : \/ DataArrives(s) \/ ReadEnds(s) \/ RxTimerExpires(s)
                            \/ CloseTimerExpires(s) \/ RecvFailed(s) \/ RecvMsg(s)
                            \/ RecvStore(s) \/ HandleWait(s) \/ HandleClose(s)
    <2>1. PICK s \in Slots : \/ DataArrives(s) \/ ReadEnds(s) \/ RxTimerExpires(s)
                             \/ CloseTimerExpires(s) \/ RecvFailed(s) \/ RecvMsg(s)
                             \/ RecvStore(s) \/ HandleWait(s) \/ HandleClose(s)
        BY <1>5
    <2>2. UNCHANGED <<acceptOps, vecAccept, vecUsed, mainPc, visited>>
        BY <2>1 DEF DataArrives, ReadEnds, RxTimerExpires, CloseTimerExpires, RecvFailed,
                    RecvMsg, RecvStore, HandleWait, HandleClose, passVars, osVars
    <2>3. b' = b /\ c' = c
        <3>1. CASE DataArrives(s) \/ ReadEnds(s) \/ RxTimerExpires(s) \/ CloseTimerExpires(s)
            <4>1. PICK k \in {"data", "failed", "waited", "closing"} : Raises(k, s)
                BY <3>1, OsRaises
            <4>2. k # "accepted" /\ k # "refused"
                BY ONLY k \in {"data", "failed", "waited", "closing"}
            <4>3. /\ ready'[<<"accepted", t>>] = ready[<<"accepted", t>>]
                  /\ ready'[<<"refused", t>>] = ready[<<"refused", t>>]
                BY <1>1, <4>1, <4>2 DEF Raises
            <4> QED
                BY <4>3
        <3>2. CASE RecvFailed(s) \/ HandleWait(s)
            <4>1. Lowers("failed", s) \/ Lowers("waited", s)
                BY <3>2, HandlersLower
            <4> QED
                BY <1>1, <4>1 DEF Lowers
        <3>3. CASE RecvMsg(s)
            BY <1>1, <3>3, RecvMsgMoves
        <3>4. CASE RecvStore(s)
            BY <1>1, <3>4, RecvStoreMoves
        <3>5. CASE HandleClose(s)
            BY <1>1, <3>5, HandleCloseMoves
        <3> QED
            BY <2>1, <3>1, <3>2, <3>3, <3>4, <3>5
    <2>4. a' = a /\ d' = d /\ e' = e /\ f' = f
        BY <2>2 DEF InHand, pSocket
    <2> QED
        BY <1>2, <1>3, <2>3, <2>4
<1>6. CASE Connect
    <2> DEFINE h == Head(acceptOps)
    <2>1. /\ acceptOps # <<>> /\ acceptOps' = Tail(acceptOps)
          /\ ready' = Posted(ready, "accepted", h, 1)
          /\ UNCHANGED <<vecAccept, vecUsed, mainPc, visited>>
        BY <1>6 DEF Connect, passVars
    <2>2. h \in Slots /\ a = a' + One(h = t)
        BY <1>1, <2>1, PlacesOfTail
    <2>3. Raises("accepted", h)
        BY <1>1, <2>1, <2>2, PostedRaises
    <2>4. c' = c /\ b' = b + One(h = t)
        <3>1. c' = c
            BY <1>1, <2>3 DEF Raises
        <3>2. CASE h = t
            BY <1>4, <2>3, <3>1, <3>2 DEF Raises, One
        <3>3. CASE h # t
            BY <1>1, <1>4, <2>3, <3>1, <3>3 DEF Raises, One
        <3> QED
            BY <3>2, <3>3
    <2>5. d' = d /\ e' = e /\ f' = f
        BY <2>1 DEF InHand, pSocket
    <2>6. a' \in Nat /\ One(h = t) \in Nat
        <3>1. Tail(acceptOps) \in Seq(Slots)
            BY <1>1, <2>1, PlacesOfTail
        <3> QED
            BY <2>1, <3>1, PlacesFinite DEF One
    <2> QED
        BY <1>2, <1>3, <1>4, <2>2, <2>4, <2>5, <2>6
<1>7. CASE \E s \in Slots : HandleAcceptFailed(s)
    <2>1. PICK s \in Slots : HandleAcceptFailed(s)
        BY <1>7
    <2>2. UNCHANGED <<vecAccept, vecUsed, mainPc, visited>>
        BY <2>1 DEF HandleAcceptFailed, passVars
    <2>3. b' = b /\ a' + c' = a + c
        BY <1>1, <2>1, HandleAcceptFailedMoves
    <2>4. d' = d /\ e' = e /\ f' = f
        BY <2>2 DEF InHand, pSocket
    <2>5. a' \in Nat /\ c' \in Nat
        <3>1. acceptOps' \in Seq(Slots) /\ ready' \in Readies
            BY TypeStep DEF ServerTypeOK, Readies
        <3> QED
            BY <1>1, <3>1, PlacesFinite DEF Readies
    <2> QED
        BY <1>2, <1>3, <1>4, <2>3, <2>4, <2>5
<1>8. CASE \E s \in Slots : HandleAccept(s)
    <2>1. PICK s \in Slots : HandleAccept(s)
        BY <1>8
    <2>2. /\ UNCHANGED <<acceptOps, vecUsed, mainPc, visited>>
          /\ vecAccept' = Append(vecAccept, s)
        BY <2>1 DEF HandleAccept, passVars
    <2>3. c' = c /\ b' = b - One(s = t)
        <3>1. /\ ready'[<<"accepted", s>>] = ready[<<"accepted", s>>] - 1
              /\ \A k \in Kinds \ {"failed"}, u \in Slots :
                    k # "accepted" \/ u # s => ready'[<<k, u>>] = ready[<<k, u>>]
            BY <2>1, HandleAcceptMoves
        <3>2. c' = c
            BY <1>1, <3>1
        <3>3. CASE s = t
            BY <1>4, <3>1, <3>2, <3>3 DEF One
        <3>4. CASE s # t
            <4>1. b' = b
                BY <1>1, <3>1, <3>4
            <4>2. One(s = t) = 0
                BY <3>4 DEF One
            <4> QED
                BY ONLY <1>4, <3>2, <4>1, <4>2
        <3> QED
            BY <3>3, <3>4
    <2>4. d' = d + One(s = t) /\ One(s = t) \in Nat
        BY <1>1, <2>2, PlacesOfAppend DEF One
    <2>5. a' = a /\ e' = e /\ f' = f
        BY <2>2 DEF InHand, pSocket
    <2> QED
        BY <1>2, <1>3, <1>4, <2>3, <2>4, <2>5
<1>9. CASE OnUpdateAccept
    <2>1. /\ vecUsed' = vecUsed \o vecAccept /\ vecAccept' = <<>>
          /\ UNCHANGED <<acceptOps, ready>>
          /\ mainPc = "update" /\ mainPc' = "visit"
        BY <1>9 DEF OnUpdateAccept, osVars
    <2>2. e' = e + d /\ d' = 0
        BY <1>1, <2>1, PlacesOfConcat, PlacesOfNone
    <2>3. a' = a /\ b' = b /\ c' = c /\ f' = 0 /\ f = 0
        BY <2>1 DEF InHand, One
    <2> QED
        BY <1>2, <1>3, <1>4, <2>2, <2>3
<1>10. CASE \E s \in Slots : VisitExit(s)
    <2>1. PICK s \in Slots : VisitExit(s)
        BY <1>10
    <2>2. /\ vecUsed' = RemoveAt(vecUsed, nIndex) /\ s = vecUsed[nIndex]
          /\ UNCHANGED <<acceptOps, ready, vecAccept>>
          /\ mainPc = "visit" /\ mainPc' = "disconnect" /\ Visiting(s)
        BY <2>1 DEF VisitExit, Visiting, osVars
    <2>3. nIndex \in 1 .. Len(vecUsed) /\ visited'[Len(visited')] = s
        BY <2>2, VisitedIsUsed
    <2>4. e = e' + One(s = t)
        BY <1>1, <2>2, <2>3, PlacesOfRemoved
    <2>5. f = 0 /\ f' = One(s = t) /\ f' \in Nat
        BY <2>2, <2>3 DEF InHand, pSocket, One
    <2>6. e' \in Nat
        <3>1. RemoveAt(vecUsed, nIndex) \in Seq(Slots)
            BY <1>1, <2>3, RemovedOne
        <3> QED
            BY <2>2, <3>1, PlacesFinite
    <2>7. a' = a /\ b' = b /\ c' = c /\ d' = d
        BY <2>2
    <2> QED
        BY <1>2, <1>3, <1>4, <2>4, <2>5, <2>6, <2>7
<1>11. CASE (\E s \in Slots : VisitMessage(s) \/ VisitNothing(s)) \/ PassEnds
    <2>1. /\ UNCHANGED <<acceptOps, ready, vecAccept, vecUsed>>
          /\ mainPc = "visit" /\ mainPc' \in {"visit", "update"}
        BY <1>11 DEF VisitMessage, VisitNothing, PassEnds, Visiting, osVars
    <2>2. a' = a /\ b' = b /\ c' = c /\ d' = d /\ e' = e
        BY <2>1
    <2>3. f = 0 /\ f' = 0
        BY <2>1 DEF InHand, One
    <2> QED
        BY <1>2, <1>3, <2>2, <2>3
<1>12. CASE Disconnect \/ Clear
    <2>1. /\ UNCHANGED <<acceptOps, vecAccept, vecUsed, visited>>
          /\ mainPc \in {"disconnect", "clear"} /\ mainPc' \in {"clear", "accept"}
        BY <1>12 DEF Disconnect, Clear, osVars
    <2>2. b' = b /\ c' = c
        <3>1. CASE ready' = ready
            BY <3>1
        <3>2. CASE ready' # ready
            <4>1. Disconnect /\ Close(pSocket, ready)
                BY <1>12, <3>2 DEF Disconnect, Clear
            <4>2. pSocket \in Slots
                BY <2>1, HandIsSlot
            <4>3. \A k \in Kinds, u \in Slots : k # "failed" => ready'[<<k, u>>] = ready[<<k, u>>]
                BY <4>1, <4>2, CloseNow
            <4> QED
                BY <1>1, <4>3
        <3> QED
            BY <3>1, <3>2
    <2>3. a' = a /\ d' = d /\ e' = e
        BY <2>1
    <2>4. f' = f
        BY <2>1 DEF InHand, pSocket, One
    <2> QED
        BY <1>2, <1>3, <2>2, <2>3, <2>4
<1>13. CASE Reaccept
    <2> DEFINE p == pSocket
    <2>1. /\ UNCHANGED <<vecAccept, vecUsed, visited>>
          /\ mainPc = "accept" /\ mainPc' = "visit" /\ SetAccept(p, ready)
        BY <1>13 DEF Reaccept
    <2>2. p \in Slots /\ f = One(p = t) /\ f' = 0
        BY <2>1, HandIsSlot DEF InHand, One
    <2>3. b' = b /\ a' + c' = a + c + One(p = t)
        BY <1>1, <2>1, <2>2, SetAcceptIs
    <2>4. d' = d /\ e' = e
        BY <2>1
    <2>5. a' \in Nat /\ c' \in Nat
        <3>1. acceptOps' \in Seq(Slots) /\ ready' \in Readies
            BY TypeStep DEF ServerTypeOK, Readies
        <3> QED
            BY <1>1, <3>1, PlacesFinite DEF Readies
    <2> QED
        BY <1>2, <1>3, <1>4, <2>2, <2>3, <2>4, <2>5
<1> QED
    BY <1>5, <1>6, <1>7, <1>8, <1>9, <1>10, <1>11, <1>12, <1>13
       DEF ServerNext, OsNext, Handler, Update

----------------------------------------------------------------------------
(* Descriptors and their late close.                                       *)

(* The steps that leave the descriptors and the close timers alone.        *)
Peaceful ==
    \/ \E s \in Slots : \/ DataArrives(s) \/ ReadEnds(s) \/ RxTimerExpires(s)
                        \/ HandleAcceptFailed(s) \/ HandleAccept(s) \/ RecvFailed(s)
                        \/ RecvMsg(s) \/ RecvStore(s) \/ HandleWait(s)
                        \/ VisitExit(s) \/ VisitMessage(s) \/ VisitNothing(s)
    \/ OnUpdateAccept \/ PassEnds \/ Clear \/ Reaccept

LEMMA PeacefulSteps ==
    ASSUME ServerTypeOK, PassOrder, Peaceful
    PROVE  /\ UNCHANGED <<sock, closeTimer>>
           /\ \A t \in Slots : ready'[<<"closing", t>>] = ready[<<"closing", t>>]
<1> USE DEF osVars, timers
<1>1. "closing" \in Kinds /\ ready \in Readies /\ acceptOps \in Seq(Slots)
    BY DEF Kinds, ServerTypeOK, Readies
<1>2. UNCHANGED <<sock, closeTimer>>
    BY DEF Peaceful, DataArrives, ReadEnds, RxTimerExpires, HandleAcceptFailed, HandleAccept,
           RecvFailed, RecvMsg, RecvStore, HandleWait, VisitExit, VisitMessage, VisitNothing,
           OnUpdateAccept, PassEnds, Clear, Reaccept
<1>3. CASE \E s \in Slots : DataArrives(s) \/ ReadEnds(s) \/ RxTimerExpires(s)
    <2>1. PICK s \in Slots, k \in {"data", "failed", "waited"} : Raises(k, s)
        BY <1>3, OsRaises
    <2> QED
        BY <1>1, <1>2, <2>1 DEF Raises
<1>4. CASE \E s \in Slots : RecvFailed(s) \/ HandleWait(s)
    <2>1. PICK s \in Slots, k \in {"failed", "waited"} : Lowers(k, s)
        BY <1>4, HandlersLower
    <2> QED
        BY <1>1, <1>2, <2>1 DEF Lowers
<1>5. CASE \E s \in Slots : HandleAcceptFailed(s)
    BY <1>1, <1>2, <1>5, HandleAcceptFailedMoves
<1>6. CASE \E s \in Slots : HandleAccept(s)
    BY <1>1, <1>2, <1>6, HandleAcceptMoves
<1>7. CASE \E s \in Slots : RecvMsg(s)
    BY <1>1, <1>2, <1>7, RecvMsgMoves
<1>8. CASE \E s \in Slots : RecvStore(s)
    BY <1>1, <1>2, <1>8, RecvStoreMoves
<1>9. CASE \/ \E s \in Slots : VisitExit(s) \/ VisitMessage(s) \/ VisitNothing(s)
           \/ OnUpdateAccept \/ PassEnds \/ Clear
    <2>1. ready' = ready
        BY <1>9 DEF VisitExit, VisitMessage, VisitNothing, OnUpdateAccept, PassEnds, Clear
    <2> QED
        BY <1>2, <2>1
<1>10. CASE Reaccept
    <2>1. pSocket \in Slots /\ SetAccept(pSocket, ready)
        BY <1>10, HandIsSlot DEF Reaccept
    <2>2. \A k \in Kinds \ {"refused"}, t \in Slots : ready'[<<k, t>>] = ready[<<k, t>>]
        BY <1>1, <2>1, SetAcceptIs
    <2> QED
        BY <1>1, <1>2, <2>2
<1> QED
    BY <1>3, <1>4, <1>5, <1>6, <1>7, <1>8, <1>9, <1>10 DEF Peaceful

(* The first of the acceptor's queue is in it.                             *)
LEMMA HeadIsIn ==
    ASSUME ServerTypeOK, acceptOps # <<>>
    PROVE  /\ Head(acceptOps) \in Slots /\ Head(acceptOps) \in ToSet(acceptOps)
           /\ \A t \in Slots : t \in ToSet(Tail(acceptOps)) => t \in ToSet(acceptOps)
<1>1. acceptOps \in Seq(Slots)
    BY DEF ServerTypeOK
<1>2. /\ Head(acceptOps) \in Slots /\ Head(acceptOps) = acceptOps[1]
      /\ Len(acceptOps) \in Nat \ {0} /\ DOMAIN acceptOps = 1 .. Len(acceptOps)
    BY <1>1, HeadTailProperties, LenProperties, EmptySeq
<1>3. /\ Tail(acceptOps) \in Seq(Slots)
      /\ Len(Tail(acceptOps)) = Len(acceptOps) - 1
      /\ \A i \in 1 .. Len(Tail(acceptOps)) : Tail(acceptOps)[i] = acceptOps[i + 1]
    BY <1>1, HeadTailProperties
<1>4. DOMAIN Tail(acceptOps) = 1 .. Len(acceptOps) - 1
    BY <1>3, LenProperties
<1> QED
    BY <1>2, <1>3, <1>4 DEF ToSet

LEMMA ShutStep ==
    ServerTypeOK /\ PassOrder /\ DescriptorOfPlace /\ ShutIsClosing /\ ServerNext
      => ShutIsClosing'
<1> SUFFICES ASSUME ServerTypeOK, PassOrder, DescriptorOfPlace, ShutIsClosing, ServerNext,
                    NEW t \in Slots
             PROVE  ready'[<<"closing", t>>] + One(closeTimer'[t]) = One(sock'[t] = "shut")
    BY DEF ShutIsClosing
<1>1. /\ ready[<<"closing", t>>] + One(closeTimer[t]) = One(sock[t] = "shut")
      /\ ready[<<"closing", t>>] \in Nat /\ closeTimer[t] \in BOOLEAN
    BY DEF ShutIsClosing, ServerTypeOK, Kinds
<1>2. "closing" \in Kinds /\ ready \in Readies
    BY DEF Kinds, ServerTypeOK, Readies
<1>3. CASE Peaceful
    <2>1. /\ sock'[t] = sock[t] /\ closeTimer'[t] = closeTimer[t]
          /\ ready'[<<"closing", t>>] = ready[<<"closing", t>>]
        BY <1>3, PeacefulSteps
    <2> QED
        BY <1>1, <2>1
<1>4. CASE Connect
    <2> DEFINE h == Head(acceptOps)
    <2>1. /\ acceptOps # <<>> /\ closeTimer' = closeTimer
          /\ sock' = [sock EXCEPT ![h] = "open"]
          /\ ready' = Posted(ready, "accepted", h, 1)
        BY <1>4 DEF Connect, timers
    <2>2. h \in Slots /\ sock[h] = "closed"
        BY <2>1, HeadIsIn DEF DescriptorOfPlace
    <2>3. Raises("accepted", h)
        BY <1>2, <2>1, <2>2, PostedRaises DEF Kinds
    <2>4. ready'[<<"closing", t>>] = ready[<<"closing", t>>]
        BY <1>2, <2>3 DEF Raises
    <2>5. sock'[t] = "shut" <=> sock[t] = "shut"
        BY <2>1, <2>2 DEF ServerTypeOK
    <2> QED
        BY <1>1, <2>1, <2>4, <2>5 DEF One
<1>5. CASE \E s \in Slots : CloseTimerExpires(s)
    <2>1. PICK s \in Slots : CloseTimerExpires(s)
        BY <1>5
    <2>2. /\ closeTimer[s] /\ closeTimer' = [closeTimer EXCEPT ![s] = FALSE] /\ sock' = sock
          /\ Raises("closing", s)
        BY <2>1, OsRaises DEF CloseTimerExpires, osVars
    <2>3. CASE t = s
        <3>1. closeTimer[t] = TRUE /\ closeTimer'[t] = FALSE
            BY <1>1, <2>2, <2>3 DEF ServerTypeOK
        <3>2. ready'[<<"closing", t>>] = ready[<<"closing", t>>] + 1
            BY <2>2, <2>3 DEF Raises
        <3> QED
            BY <1>1, <2>2, <3>1, <3>2 DEF One
    <2>4. CASE t # s
        <3>1. closeTimer'[t] = closeTimer[t]
            BY <2>2, <2>4 DEF ServerTypeOK
        <3>2. ready'[<<"closing", t>>] = ready[<<"closing", t>>]
            BY <1>2, <2>2, <2>4 DEF Raises
        <3> QED
            BY <1>1, <2>2, <3>1, <3>2
    <2> QED
        BY <2>3, <2>4
<1>6. CASE \E s \in Slots : HandleClose(s)
    <2>1. PICK s \in Slots : HandleClose(s)
        BY <1>6
    <2>2. /\ closeTimer' = closeTimer /\ ready[<<"closing", s>>] > 0
          /\ ready'[<<"closing", s>>] = ready[<<"closing", s>>] - 1
          /\ sock'[s] = "closed"
          /\ t # s => sock'[t] = sock[t] /\ ready'[<<"closing", t>>] = ready[<<"closing", t>>]
        BY <1>2, <2>1, HandleCloseMoves DEF HandleClose, IsReady, timers
    <2>3. CASE t = s
        BY <1>1, <2>2, <2>3 DEF One
    <2>4. CASE t # s
        BY <1>1, <2>2, <2>4
    <2> QED
        BY <2>3, <2>4
<1>7. CASE Disconnect
    <2> DEFINE p == pSocket
    <2>1. p \in Slots /\ sock[p] = "open"
        BY <1>7, HandIsSlot DEF Disconnect, DescriptorOfPlace
    <2>2. CASE platform = "win32"
        <3>1. Close(p, ready) /\ closeTimer' = closeTimer
            BY <1>7, <2>2 DEF Disconnect
        <3>2. /\ ready'[<<"closing", t>>] = ready[<<"closing", t>>]
              /\ sock'[p] = "closed" /\ (t # p => sock'[t] = sock[t])
            BY <1>2, <2>1, <3>1, CloseIs DEF ServerTypeOK
        <3>3. sock'[t] = "shut" <=> sock[t] = "shut"
            BY <2>1, <3>2
        <3> QED
            BY <1>1, <3>1, <3>2, <3>3 DEF One
    <2>3. CASE platform # "win32"
        <3>1. /\ sock' = [sock EXCEPT ![p] = "shut"]
              /\ closeTimer' = [closeTimer EXCEPT ![p] = TRUE]
              /\ ready' = ready
            BY <1>7, <2>3 DEF Disconnect
        <3>2. CASE t = p
            <4>1. sock'[t] = "shut" /\ closeTimer'[t] = TRUE
                BY <2>1, <3>1, <3>2 DEF ServerTypeOK
            <4>2. ready[<<"closing", t>>] = 0
                BY <1>1, <2>1, <3>2 DEF One
            <4> QED
                BY <3>1, <4>1, <4>2 DEF One
        <3>3. CASE t # p
            <4>1. sock'[t] = sock[t] /\ closeTimer'[t] = closeTimer[t]
                BY <3>1, <3>3 DEF ServerTypeOK
            <4> QED
                BY <1>1, <3>1, <4>1
        <3> QED
            BY <3>2, <3>3
    <2> QED
        BY <2>2, <2>3
<1> QED
    BY <1>3, <1>4, <1>5, <1>6, <1>7 DEF Peaceful, ServerNext, OsNext, Handler, Update

----------------------------------------------------------------------------
(* A slot comes into use by HandleAccept alone.                            *)

LEMMA UseBegins ==
    ASSUME ServerTypeOK, PassOrder, ServerNext, NEW t \in Slots, (InUse(t))'
    PROVE  InUse(t) \/ HandleAccept(t)
<1>1. vecAccept \in Seq(Slots) /\ vecUsed \in Seq(Slots)
    BY DEF ServerTypeOK
<1>2. CASE UNCHANGED <<vecAccept, vecUsed>>
    BY <1>2 DEF InUse
<1>3. CASE \E s \in Slots : HandleAccept(s)
    <2>1. PICK s \in Slots : HandleAccept(s)
        BY <1>3
    <2>2. vecAccept' = Append(vecAccept, s) /\ vecUsed' = vecUsed
        BY <2>1 DEF HandleAccept
    <2>3. CASE s = t
        BY <2>1, <2>3
    <2>4. CASE s # t
        <3>1. /\ vecAccept' \in Seq(Slots)
              /\ Occurrences(vecAccept', t) = Occurrences(vecAccept, t) + One(s = t)
            BY <1>1, <2>2, PlacesOfAppend
        <3>2. One(s = t) = 0 /\ Occurrences(vecAccept, t) \in Nat
            BY <1>1, <2>4, PlacesFinite DEF One
        <3>3. t \in ToSet(vecAccept') => t \in ToSet(vecAccept)
            BY <1>1, <3>1, <3>2, PlacesFinite
        <3> QED
            BY <2>2, <3>3 DEF InUse
    <2> QED
        BY <2>3, <2>4
<1>4. CASE OnUpdateAccept
    <2>1. vecUsed' = vecUsed \o vecAccept /\ vecAccept' = <<>>
        BY <1>4 DEF OnUpdateAccept
    <2>2. t \notin ToSet(vecAccept')
        BY <2>1 DEF ToSet
    <2>3. t \in ToSet(vecUsed')
        BY <2>2 DEF InUse
    <2>4. /\ vecUsed' \in Seq(Slots)
          /\ Occurrences(vecUsed', t) = Occurrences(vecUsed, t) + Occurrences(vecAccept, t)
        BY <1>1, <2>1, ConcatProperties, PlacesOfConcat
    <2>5. Occurrences(vecUsed, t) > 0 \/ Occurrences(vecAccept, t) > 0
        <3>1. Occurrences(vecUsed, t) \in Nat /\ Occurrences(vecAccept, t) \in Nat
            BY <1>1, PlacesFinite
        <3>2. Occurrences(vecUsed', t) > 0
            BY <2>3, <2>4, PlacesFinite
        <3> QED
            BY <2>4, <3>1, <3>2
    <2> QED
        BY <1>1, <2>5, PlacesFinite DEF InUse
<1>5. CASE \E s \in Slots : VisitExit(s)
    <2>1. PICK s \in Slots : VisitExit(s)
        BY <1>5
    <2>2. vecUsed' = RemoveAt(vecUsed, nIndex) /\ vecAccept' = vecAccept /\ Visiting(s)
        BY <2>1 DEF VisitExit
    <2>3. nIndex \in 1 .. Len(vecUsed)
        BY <2>2, VisitedIsUsed
    <2>4. /\ vecUsed' \in Seq(Slots)
          /\ Occurrences(vecUsed, t) = Occurrences(vecUsed', t) + One(vecUsed[nIndex] = t)
        <3>1. RemoveAt(vecUsed, nIndex) \in Seq(Slots)
            BY <1>1, <2>3, RemovedOne
        <3>2. Occurrences(vecUsed, t) = Occurrences(RemoveAt(vecUsed, nIndex), t)
                                           + One(vecUsed[nIndex] = t)
            BY <1>1, <2>3, PlacesOfRemoved
        <3> QED
            BY <2>2, <3>1, <3>2
    <2>5. t \in ToSet(vecUsed') => t \in ToSet(vecUsed)
        <3>1. /\ Occurrences(vecUsed, t) \in Nat /\ Occurrences(vecUsed', t) \in Nat
              /\ One(vecUsed[nIndex] = t) \in Nat
            BY <1>1, <2>4, PlacesFinite DEF One
        <3>2. Occurrences(vecUsed', t) > 0 => Occurrences(vecUsed, t) > 0
            BY <2>4, <3>1
        <3> QED
            BY <1>1, <2>4, <3>2, PlacesFinite
    <2> QED
        BY <2>2, <2>5 DEF InUse
<1> QED
    BY <1>2, <1>3, <1>4, <1>5
       DEF ServerNext, OsNext, Handler, Update, Connect, DataArrives, ReadEnds, RxTimerExpires,
           CloseTimerExpires, HandleAcceptFailed, RecvFailed, RecvMsg, RecvStore, HandleWait,
           HandleClose, VisitMessage, VisitNothing, PassEnds, Disconnect, Clear, Reaccept

(* Steps that leave a slot's place with the acceptor and with HandleAccept. *)
LEMMA AcceptPlaces ==
    ASSUME ServerTypeOK, PassOrder, ServerNext, NEW t \in Slots, ~Connect
    PROVE  /\ ready'[<<"accepted", t>>] > 0 => IsReady("accepted", t)
           /\ t \in ToSet(acceptOps') => t \in ToSet(acceptOps) \/ sock[t] = "closed"
<1>1. /\ ready \in Readies /\ acceptOps \in Seq(Slots) /\ "accepted" \in Kinds
      /\ ready[<<"accepted", t>>] \in Nat
    BY DEF ServerTypeOK, Readies, Kinds
<1> USE DEF IsReady, osVars
<1>2. CASE \E s \in Slots : \/ DataArrives(s) \/ ReadEnds(s) \/ RxTimerExpires(s)
                            \/ CloseTimerExpires(s)
    <2>1. PICK s \in Slots, k \in {"data", "failed", "waited", "closing"} :
             Raises(k, s) /\ acceptOps' = acceptOps
        BY <1>2, OsRaises DEF DataArrives, ReadEnds, RxTimerExpires, CloseTimerExpires
    <2> QED
        BY <1>1, <2>1 DEF Raises
<1>3. CASE \E s \in Slots : RecvFailed(s) \/ HandleWait(s)
    <2>1. PICK s \in Slots, k \in {"failed", "waited"} : Lowers(k, s) /\ acceptOps' = acceptOps
        BY <1>3, HandlersLower DEF RecvFailed, HandleWait
    <2> QED
        BY <1>1, <2>1 DEF Lowers
<1>4. CASE \E s \in Slots : HandleAcceptFailed(s)
    <2>1. PICK s \in Slots : HandleAcceptFailed(s)
        BY <1>4
    <2>2. /\ ready'[<<"accepted", t>>] = ready[<<"accepted", t>>]
          /\ t \in ToSet(acceptOps') => t \in ToSet(acceptOps) \/ (t = s /\ sock[s] = "closed")
        BY <1>1, <2>1, HandleAcceptFailedMoves
    <2> QED
        BY <2>2
<1>5. CASE \E s \in Slots : HandleAccept(s)
    <2>1. PICK s \in Slots : HandleAccept(s)
        BY <1>5
    <2>2. /\ ready'[<<"accepted", s>>] = ready[<<"accepted", s>>] - 1
          /\ t # s => ready'[<<"accepted", t>>] = ready[<<"accepted", t>>]
          /\ acceptOps' = acceptOps /\ IsReady("accepted", s)
        BY <1>1, <2>1, HandleAcceptMoves DEF HandleAccept
    <2> QED
        BY <2>2
<1>6. CASE \E s \in Slots : RecvMsg(s)
    BY <1>1, <1>6, RecvMsgMoves DEF RecvMsg
<1>7. CASE \E s \in Slots : RecvStore(s)
    BY <1>1, <1>7, RecvStoreMoves DEF RecvStore
<1>8. CASE \E s \in Slots : HandleClose(s)
    BY <1>1, <1>8, HandleCloseMoves DEF HandleClose
<1>9. CASE \/ \E s \in Slots : VisitExit(s) \/ VisitMessage(s) \/ VisitNothing(s)
           \/ OnUpdateAccept \/ PassEnds \/ Clear
    <2>1. ready' = ready /\ acceptOps' = acceptOps
        BY <1>9 DEF VisitExit, VisitMessage, VisitNothing, OnUpdateAccept, PassEnds, Clear
    <2> QED
        BY <2>1
<1>10. CASE Disconnect
    <2>1. acceptOps' = acceptOps /\ pSocket \in Slots
        BY <1>10, HandIsSlot DEF Disconnect
    <2>2. CASE ready' = ready
        BY <2>1, <2>2
    <2>3. CASE ready' # ready
        <3>1. Close(pSocket, ready)
            BY <1>10, <2>3 DEF Disconnect
        <3>2. ready'[<<"accepted", t>>] = ready[<<"accepted", t>>]
            BY <1>1, <2>1, <3>1, CloseIs DEF ServerTypeOK
        <3> QED
            BY <2>1, <3>2
    <2> QED
        BY <2>2, <2>3
<1>11. CASE Reaccept
    <2>1. pSocket \in Slots /\ SetAccept(pSocket, ready)
        BY <1>11, HandIsSlot DEF Reaccept
    <2>2. /\ \A k \in Kinds \ {"refused"}, u \in Slots : ready'[<<k, u>>] = ready[<<k, u>>]
          /\ \A u \in Slots :
                /\ Occurrences(acceptOps', u) + ready'[<<"refused", u>>]
                      = Occurrences(acceptOps, u) + ready[<<"refused", u>>] + One(pSocket = u)
                /\ u \in ToSet(acceptOps') =>
                      u \in ToSet(acceptOps) \/ (u = pSocket /\ sock[pSocket] = "closed")
        BY <1>1, <2>1, SetAcceptIs
    <2>3. ready'[<<"accepted", t>>] = ready[<<"accepted", t>>]
        BY <1>1, <2>2
    <2>4. t \in ToSet(acceptOps') => t \in ToSet(acceptOps) \/ sock[t] = "closed"
        BY <2>2
    <2> QED
        BY <2>3, <2>4
<1> QED
    BY <1>2, <1>3, <1>4, <1>5, <1>6, <1>7, <1>8, <1>9, <1>10, <1>11
       DEF ServerNext, OsNext, Handler, Update

(* The places in which a slot's descriptor has to be open.                 *)
Engaged(s) == IsReady("accepted", s) \/ InUse(s) \/ (mainPc = "disconnect" /\ pSocket = s)

LEMMA EngagedBegins ==
    ASSUME ServerTypeOK, PassOrder, ServerNext, ~Connect, NEW t \in Slots, (Engaged(t))'
    PROVE  Engaged(t)
<1>1. CASE (InUse(t))'
    BY <1>1, UseBegins DEF Engaged, HandleAccept
<1>2. CASE (IsReady("accepted", t))'
    BY <1>2, AcceptPlaces DEF Engaged, IsReady
<1>3. CASE mainPc' = "disconnect" /\ pSocket' = t
    <2>1. CASE OsNext \/ \E s \in Slots : Handler(s)
        <3>1. UNCHANGED <<mainPc, visited>>
            BY <2>1, OthersLeavePass DEF passVars
        <3> QED
            BY <1>3, <3>1 DEF Engaged, pSocket
    <2>2. CASE Update
        <3>1. PICK s \in Slots : VisitExit(s)
            BY <1>3, <2>2 DEF Update, OnUpdateAccept, VisitMessage, VisitNothing, Visiting,
                              PassEnds, Disconnect, Clear, Reaccept
        <3>2. InUse(s) /\ pSocket' = s
            BY <3>1, VisitedIsUsed DEF VisitExit, pSocket
        <3> QED
            BY <1>3, <3>2 DEF Engaged
    <2> QED
        BY <2>1, <2>2 DEF ServerNext
<1> QED
    BY <1>1, <1>2, <1>3 DEF Engaged

LEMMA DescriptorStep ==
    ASSUME ServerTypeOK, PassOrder, DescriptorOfPlace, ShutIsClosing, PlacesApart,
           ServerNext, PlacesApart'
    PROVE  DescriptorOfPlace'
<1> SUFFICES ASSUME NEW t \in Slots
             PROVE  /\ t \in ToSet(acceptOps') => sock'[t] = "closed"
                    /\ (Engaged(t))' => sock'[t] = "open"
    BY DEF DescriptorOfPlace, Engaged, InUse, IsReady, pSocket
<1>1. /\ t \in ToSet(acceptOps) => sock[t] = "closed"
      /\ Engaged(t) => sock[t] = "open"
    BY DEF DescriptorOfPlace, Engaged
<1>2. ready \in Readies /\ "accepted" \in Kinds
    BY DEF ServerTypeOK, Readies, Kinds
<1>3. CASE Connect
    <2> DEFINE h == Head(acceptOps)
    <2>1. /\ acceptOps # <<>> /\ acceptOps' = Tail(acceptOps)
          /\ sock' = [sock EXCEPT ![h] = "open"]
          /\ ready' = Posted(ready, "accepted", h, 1)
          /\ UNCHANGED <<vecAccept, vecUsed, mainPc, visited>>
        BY <1>3 DEF Connect, passVars
    <2>2. h \in Slots /\ (t \in ToSet(acceptOps') => t \in ToSet(acceptOps))
        BY <2>1, HeadIsIn
    <2>3. Raises("accepted", h)
        BY <1>2, <2>1, <2>2, PostedRaises
    <2>4. CASE t = h
        <3>1. ready'[<<"accepted", t>>] = ready[<<"accepted", t>>] + 1
            BY <2>3, <2>4 DEF Raises
        <3>2. ready[<<"accepted", t>>] \in Nat
            BY DEF ServerTypeOK, Kinds
        <3>3. (IsReady("accepted", t))'
            BY <3>1, <3>2 DEF IsReady
        <3>4. t \notin ToSet(acceptOps')
            BY <3>3 DEF PlacesApart
        <3>5. sock'[t] = "open"
            BY <2>1, <2>4 DEF ServerTypeOK
        <3> QED
            BY <3>4, <3>5
    <2>5. CASE t # h
        <3>1. sock'[t] = sock[t] /\ ready'[<<"accepted", t>>] = ready[<<"accepted", t>>]
            BY <1>2, <2>1, <2>3, <2>5 DEF ServerTypeOK, Raises
        <3>2. (Engaged(t))' => Engaged(t)
            BY <2>1, <3>1 DEF Engaged, InUse, IsReady, pSocket
        <3> QED
            BY <1>1, <2>2, <3>1, <3>2
    <2> QED
        BY <2>4, <2>5
<1>4. CASE ~Connect
    <2>1. (Engaged(t))' => Engaged(t)
        BY <1>4, EngagedBegins
    <2>2. t \in ToSet(acceptOps') => t \in ToSet(acceptOps) \/ sock[t] = "closed"
        BY <1>4, AcceptPlaces
    <2>3. CASE sock'[t] = sock[t]
        BY <1>1, <2>1, <2>2, <2>3
    <2>4. CASE \E s \in Slots : HandleClose(s)
        <3>1. PICK s \in Slots : HandleClose(s)
            BY <2>4
        <3>2. /\ ready[<<"closing", s>>] > 0 /\ sock'[s] = "closed"
              /\ t # s => sock'[t] = sock[t]
            BY <3>1, HandleCloseMoves DEF HandleClose, IsReady
        <3>3. sock[s] = "shut"
            <4>1. ready[<<"closing", s>>] + One(closeTimer[s]) = One(sock[s] = "shut")
                BY DEF ShutIsClosing
            <4>2. ready[<<"closing", s>>] \in Nat /\ One(closeTimer[s]) \in Nat
                BY DEF ServerTypeOK, Kinds, One
            <4> QED
                BY <3>2, <4>1, <4>2 DEF One
        <3>4. CASE t = s
            BY <1>1, <2>1, <3>2, <3>3, <3>4
        <3>5. CASE t # s
            BY <2>3, <3>2, <3>5
        <3> QED
            BY <3>4, <3>5
    <2>5. CASE Disconnect
        <3> DEFINE p == pSocket
        <3>1. p \in Slots /\ mainPc' = "clear" /\ UNCHANGED <<acceptOps, visited>>
            BY <2>5, HandIsSlot DEF Disconnect
        <3>2. t # p => sock'[t] = sock[t]
            <4>1. CASE platform = "win32"
                <5>1. Close(p, ready)
                    BY <2>5, <4>1 DEF Disconnect
                <5> QED
                    BY <1>2, <3>1, <5>1, CloseIs DEF ServerTypeOK
            <4>2. CASE platform # "win32"
                <5>1. sock' = [sock EXCEPT ![p] = "shut"]
                    BY <2>5, <4>2 DEF Disconnect
                <5> QED
                    BY <3>1, <5>1 DEF ServerTypeOK
            <4> QED
                BY <4>1, <4>2
        <3>3. CASE t = p
            <4>1. (InHand(t))' /\ InHand(t)
                BY <2>5, <3>1, <3>3 DEF InHand, pSocket, Disconnect
            <4>2. ~(Engaged(t))'
                BY <3>1, <4>1 DEF PlacesApart, Engaged
            <4>3. t \notin ToSet(acceptOps')
                BY <3>1, <4>1 DEF PlacesApart
            <4> QED
                BY <4>2, <4>3
        <3>4. CASE t # p
            BY <2>3, <3>2, <3>4
        <3> QED
            BY <3>3, <3>4
    <2>6. sock'[t] = sock[t] \/ (\E s \in Slots : HandleClose(s)) \/ Disconnect
        <3>1. CASE Peaceful
            BY <3>1, PeacefulSteps
        <3>2. CASE \E s \in Slots : CloseTimerExpires(s)
            BY <3>2 DEF CloseTimerExpires, osVars
        <3> QED
            BY <1>4, <3>1, <3>2 DEF Peaceful, ServerNext, OsNext, Handler, Update
    <2> QED
        BY <2>3, <2>4, <2>5, <2>6
<1> QED
    BY <1>3, <1>4

----------------------------------------------------------------------------
(* A slot in use goes on hearing its peer.                                 *)

LEMMA ReceivingStep ==
    ASSUME ServerTypeOK, PassOrder, UsedIsReceiving, PlacesApart, ServerNext, PlacesApart'
    PROVE  UsedIsReceiving'
<1> SUFFICES ASSUME NEW t \in Slots, (InUse(t))'
             PROVE  stage'[t] = "RUN"
    BY DEF UsedIsReceiving, InUse
<1> USE DEF slotVars
<1>1. InUse(t) \/ HandleAccept(t)
    BY UseBegins
<1>2. CASE HandleAccept(t)
    BY <1>2 DEF HandleAccept, ServerTypeOK
<1>3. CASE InUse(t) /\ ~HandleAccept(t)
    <2>1. stage[t] = "RUN"
        BY <1>3 DEF UsedIsReceiving
    <2>2. CASE stage' = stage
        BY <2>1, <2>2
    <2>3. CASE \E s \in Slots : HandleAccept(s) \/ RecvStore(s)
        BY <2>1, <2>3 DEF HandleAccept, RecvStore, ServerTypeOK
    <2>4. CASE Clear
        <3>1. mainPc = "clear" /\ stage' = [stage EXCEPT ![pSocket] = "NULL"]
            BY <2>4 DEF Clear
        <3>2. t # pSocket
            BY <1>3, <3>1 DEF PlacesApart, InHand
        <3> QED
            BY <2>1, <3>1, <3>2 DEF ServerTypeOK
    <2> QED
        BY <2>2, <2>3, <2>4
           DEF ServerNext, OsNext, Handler, Update, Connect, DataArrives, ReadEnds,
               RxTimerExpires, CloseTimerExpires, HandleAcceptFailed, RecvFailed, RecvMsg,
               HandleWait, HandleClose, OnUpdateAccept, VisitExit, VisitMessage, VisitNothing,
               PassEnds, Disconnect, Reaccept
<1> QED
    BY <1>1, <1>2, <1>3

(* A read is pending, or a RecvMsg is ready.                               *)
Hears(s) ==
    reading[s] > 0 \/ \E kind \in {"data", "failed", "storing"} : IsReady(kind, s)

LEMMA HearsOn ==
    ASSUME ServerTypeOK, PassOrder, ServerNext, NEW t \in Slots,
           Hears(t), stage[t] = "RUN", ~RecvFailed(t)
    PROVE  (Hears(t))'
<1>1. /\ ready \in Readies /\ acceptOps \in Seq(Slots) /\ reading \in [Slots -> Nat]
      /\ {"data", "failed", "storing"} \subseteq Kinds
      /\ \A k \in Kinds : ready[<<k, t>>] \in Nat
    BY DEF ServerTypeOK, Readies, Kinds
<1> USE DEF Hears, IsReady, osVars
<1>2. CASE \E s \in Slots : DataArrives(s) \/ ReadEnds(s)
    <2>1. PICK s \in Slots, k \in {"data", "failed"} :
             Raises(k, s) /\ reading' = [reading EXCEPT ![s] = reading[s] - 1]
        BY <1>2, OsRaises DEF DataArrives, ReadEnds
    <2>2. CASE t = s
        <3>1. ready'[<<k, t>>] = ready[<<k, t>>] + 1 /\ ready[<<k, t>>] \in Nat
            BY <1>1, <2>1, <2>2 DEF Raises
        <3> QED
            BY <3>1
    <2>3. CASE t # s
        BY <1>1, <2>1, <2>3 DEF Raises
    <2> QED
        BY <2>2, <2>3
<1>3. CASE \E s \in Slots : RxTimerExpires(s) \/ CloseTimerExpires(s)
    <2>1. PICK s \in Slots, k \in {"waited", "closing"} : Raises(k, s) /\ reading' = reading
        BY <1>3, OsRaises DEF RxTimerExpires, CloseTimerExpires
    <2> QED
        BY <1>1, <2>1 DEF Raises
<1>4. CASE \E s \in Slots : RecvFailed(s)
    <2>1. PICK s \in Slots : RecvFailed(s)
        BY <1>4
    <2>2. Lowers("failed", s) /\ reading' = reading /\ t # s
        BY <2>1, HandlersLower DEF RecvFailed
    <2> QED
        BY <1>1, <2>2 DEF Lowers
<1>5. CASE \E s \in Slots : HandleWait(s)
    <2>1. PICK s \in Slots : Lowers("waited", s) /\ reading' = reading
        BY <1>5, HandlersLower DEF HandleWait
    <2> QED
        BY <1>1, <2>1 DEF Lowers
<1>6. CASE \E s \in Slots : HandleAcceptFailed(s)
    BY <1>1, <1>6, HandleAcceptFailedMoves DEF HandleAcceptFailed
<1>7. CASE \E s \in Slots : HandleAccept(s)
    <2>1. PICK s \in Slots : HandleAccept(s)
        BY <1>7
    <2>2. /\ \A k \in {"data", "storing"} : ready'[<<k, t>>] = ready[<<k, t>>]
          /\ ready'[<<"failed", t>>] >= ready[<<"failed", t>>]
          /\ reading'[t] >= reading[t]
        BY <1>1, <2>1, HandleAcceptMoves
    <2>3. reading' \in [Slots -> Nat] /\ ready' \in [Kinds \X Slots -> Nat]
        BY TypeStep DEF ServerTypeOK
    <2> QED
        BY <1>1, <2>2, <2>3
<1>8. CASE \E s \in Slots : RecvMsg(s)
    <2>1. PICK s \in Slots : RecvMsg(s)
        BY <1>8
    <2>2. reading' = reading
        BY <2>1 DEF RecvMsg
    <2>3. CASE t = s
        BY <2>1, <2>3, RecvMsgMoves
    <2>4. CASE t # s
        BY <1>1, <2>1, <2>2, <2>4, RecvMsgMoves
    <2> QED
        BY <2>3, <2>4
<1>9. CASE \E s \in Slots : RecvStore(s)
    <2>1. PICK s \in Slots : RecvStore(s)
        BY <1>9
    <2>2. CASE t = s
        BY <2>1, <2>2, RecvStoreMoves
    <2>3. CASE t # s
        <3>1. /\ \A k \in {"data", "failed", "storing"} : ready'[<<k, t>>] >= ready[<<k, t>>]
              /\ reading'[t] >= reading[t]
            BY <1>1, <2>1, <2>3, RecvStoreMoves
        <3>2. reading' \in [Slots -> Nat] /\ ready' \in [Kinds \X Slots -> Nat]
            BY TypeStep DEF ServerTypeOK
        <3> QED
            BY <1>1, <3>1, <3>2
    <2> QED
        BY <2>2, <2>3
<1>10. CASE (\E s \in Slots : HandleClose(s)) \/ (Disconnect /\ ready' # ready)
    <2>1. /\ \A k \in {"data", "storing"} : ready'[<<k, t>>] = ready[<<k, t>>]
          /\ ready'[<<"failed", t>>] >= ready[<<"failed", t>>]
          /\ reading[t] > 0 => reading'[t] > 0 \/ ready'[<<"failed", t>>] > 0
        <3>1. CASE \E s \in Slots : HandleClose(s)
            BY <1>1, <3>1, HandleCloseMoves
        <3>2. CASE Disconnect /\ ready' # ready
            <4>1. pSocket \in Slots /\ Close(pSocket, ready)
                BY <3>2, HandIsSlot DEF Disconnect
            <4> QED
                BY <1>1, <4>1, CloseNow
        <3> QED
            BY <1>10, <3>1, <3>2
    <2>2. ready' \in [Kinds \X Slots -> Nat]
        BY TypeStep DEF ServerTypeOK
    <2> QED
        BY <1>1, <2>1, <2>2
<1>11. CASE Connect
    <2> DEFINE h == Head(acceptOps)
    <2>1. /\ acceptOps # <<>> /\ reading' = reading
          /\ ready' = Posted(ready, "accepted", h, 1)
        BY <1>11 DEF Connect
    <2>2. h \in Slots
        BY <2>1, HeadIsIn
    <2>3. Raises("accepted", h)
        BY <1>1, <2>1, <2>2, PostedRaises DEF Kinds
    <2> QED
        BY <1>1, <2>1, <2>3 DEF Raises
<1>12. CASE Reaccept
    <2>1. pSocket \in Slots /\ SetAccept(pSocket, ready) /\ reading' = reading
        BY <1>12, HandIsSlot DEF Reaccept
    <2>2. \A k \in Kinds \ {"refused"}, u \in Slots : ready'[<<k, u>>] = ready[<<k, u>>]
        BY <1>1, <2>1, SetAcceptIs
    <2>3. \A k \in {"data", "failed", "storing"} : ready'[<<k, t>>] = ready[<<k, t>>]
        BY <1>1, <2>2
    <2> QED
        BY <2>1, <2>3
<1>13. CASE \/ \E s \in Slots : VisitExit(s) \/ VisitMessage(s) \/ VisitNothing(s)
            \/ OnUpdateAccept \/ PassEnds \/ Clear \/ (Disconnect /\ ready' = ready)
    <2>1. CASE reading' = reading /\ ready' = ready
        BY <2>1
    <2>2. CASE Disconnect /\ ready' = ready /\ reading' # reading
        <3>1. pSocket \in Slots /\ Close(pSocket, ready)
            BY <2>2, HandIsSlot DEF Disconnect
        <3>2. reading[t] > 0 => reading'[t] > 0 \/ ready'[<<"failed", t>>] > 0
            BY <1>1, <3>1, CloseIs DEF ServerTypeOK
        <3> QED
            BY <2>2, <3>2
    <2> QED
        BY <1>13, <2>1, <2>2
           DEF VisitExit, VisitMessage, VisitNothing, OnUpdateAccept, PassEnds, Clear
<1> QED
    BY <1>2, <1>3, <1>4, <1>5, <1>6, <1>7, <1>8, <1>9, <1>10, <1>11, <1>12, <1>13
       DEF ServerNext, OsNext, Handler, Update

LEMMA HearingStep ==
    /\ ServerTypeOK /\ PassOrder /\ UsedIsReceiving /\ NeverDeaf /\ PlacesApart /\ ServerNext
      => NeverDeaf'
<1> SUFFICES ASSUME ServerTypeOK, PassOrder, UsedIsReceiving, NeverDeaf, PlacesApart,
                    ServerNext, NEW t \in Slots, (InUse(t))', ~bExit'[t]
             PROVE  (Hears(t))'
    BY DEF NeverDeaf, Hears
<1>1. InUse(t) \/ HandleAccept(t)
    BY UseBegins
<1>2. CASE HandleAccept(t)
    <2>1. reading'[t] > 0 \/ ready'[<<"failed", t>>] > 0
        BY <1>2, HandleAcceptMoves
    <2> QED
        BY <2>1 DEF Hears, IsReady
<1>3. CASE InUse(t)
    <2>1. ~RecvFailed(t)
        BY DEF RecvFailed, ServerTypeOK
    <2>2. ~bExit[t]
        <3>1. CASE bExit' = bExit
            BY <3>1
        <3>2. CASE Clear
            <4>1. mainPc = "clear" /\ bExit' = [bExit EXCEPT ![pSocket] = FALSE]
                BY <3>2 DEF Clear
            <4>2. t # pSocket
                BY <1>3, <4>1 DEF PlacesApart, InHand
            <4> QED
                BY <4>1, <4>2 DEF ServerTypeOK
        <3>3. CASE \E s \in Slots : RecvFailed(s) \/ HandleWait(s) \/ VisitMessage(s)
            BY <3>3 DEF RecvFailed, HandleWait, VisitMessage, ServerTypeOK
        <3> QED
            BY <3>1, <3>2, <3>3
               DEF ServerNext, OsNext, Handler, Update, Connect, DataArrives, ReadEnds,
                   RxTimerExpires, CloseTimerExpires, HandleAcceptFailed, HandleAccept,
                   RecvMsg, RecvStore, HandleClose, OnUpdateAccept, VisitExit, VisitNothing,
                   PassEnds, Disconnect, Reaccept, slotVars
    <2>3. Hears(t) /\ stage[t] = "RUN"
        BY <1>3, <2>2 DEF NeverDeaf, Hears, UsedIsReceiving
    <2> QED
        BY <2>1, <2>3, HearsOn
<1> QED
    BY <1>1, <1>2, <1>3

----------------------------------------------------------------------------
(* The invariant, and what follows from it.                                *)

LEMMA NextInv == ServerInv /\ [ServerNext]_serverVars => ServerInv'
<1>1. ASSUME ServerInv, ServerNext
      PROVE  ServerInv'
    <2>1. /\ ServerTypeOK /\ SlotsConserved /\ DescriptorOfPlace /\ ShutIsClosing
          /\ UsedIsReceiving /\ NeverDeaf /\ PassOrder
        BY <1>1 DEF ServerInv
    <2>2. ServerTypeOK' /\ PassOrder'
        BY <1>1, <2>1, TypeStep, PassStep
    <2>3. SlotsConserved'
        BY <1>1, <2>1, CopiesStep
    <2>4. PlacesApart
        BY <2>1, OnePlace
    <2>5. PlacesApart'
        BY <2>2, <2>3, OnePlace, PTL
    <2>6. ShutIsClosing'
        BY <1>1, <2>1, ShutStep
    <2>7. DescriptorOfPlace'
        BY <1>1, <2>1, <2>4, <2>5, DescriptorStep
    <2>8. UsedIsReceiving'
        BY <1>1, <2>1, <2>4, <2>5, ReceivingStep
    <2>9. NeverDeaf'
        BY <1>1, <2>1, <2>4, HearingStep
    <2> QED
        BY <2>2, <2>3, <2>6, <2>7, <2>8, <2>9 DEF ServerInv
<1>2. ASSUME ServerInv, UNCHANGED serverVars
      PROVE  ServerInv'
    <2> USE DEF serverVars, osVars, timers, slotVars, passVars, boundVars
    <2>1. ServerTypeOK'
        BY <1>2 DEF ServerInv, ServerTypeOK
    <2>4. SlotsConserved'
        <3> SUFFICES ASSUME NEW s \in Slots PROVE (Copies(s))' = 1
            BY DEF SlotsConserved
        <3>1. Copies(s) = 1
            BY <1>2 DEF ServerInv, SlotsConserved
        <3> QED
            BY <1>2, <3>1 DEF Copies, pSocket
    <2>2. DescriptorOfPlace' /\ ShutIsClosing'
        BY <1>2 DEF ServerInv, DescriptorOfPlace, ShutIsClosing, InUse, IsReady, pSocket
    <2>3. UsedIsReceiving' /\ NeverDeaf' /\ PassOrder'
        BY <1>2 DEF ServerInv, UsedIsReceiving, NeverDeaf, PassOrder, InUse, IsReady
    <2> QED
        BY <2>1, <2>2, <2>3, <2>4 DEF ServerInv
<1> QED
    BY <1>1, <1>2

(* The invariant holds of every execution: the places of the slots, their  *)
(* descriptors, the reads in flight and the order of a pass.               *)
THEOREM ServerInvariant == ServerSpec => []ServerInv
<1>1. ServerInit => ServerInv
    BY InitInv
<1>2. ServerInv /\ [ServerNext]_serverVars => ServerInv'
    BY NextInv
<1> QED
    BY <1>1, <1>2, PTL DEF ServerSpec

(* Every variable of the server keeps its type.                            *)
THEOREM ServerTypeCorrect == ServerSpec => []ServerTypeOK
<1>1. ServerInv => ServerTypeOK
    BY DEF ServerInv
<1> QED
    BY <1>1, ServerInvariant, PTL

(* Between the acceptor, its handlers, m_vecAcceptSocket, m_vecUsedSocket  *)
(* and OnUpdateRecived no slot is lost or held twice.                      *)
THEOREM NoSlotIsLost == ServerSpec => []SlotsConserved
<1>1. ServerInv => SlotsConserved
    BY DEF ServerInv
<1> QED
    BY <1>1, ServerInvariant, PTL

(* The HandleClose of a connection that has ended, a second late, never    *)
(* closes the connection that has its slot after it.                       *)
THEOREM CloseIsNeverLate == ServerSpec => []NoLateClose
<1>1. ServerInv => NoLateClose
    <2> SUFFICES ASSUME ServerInv, NEW s \in Slots, InUse(s)
                 PROVE  sock[s] = "open" /\ ~closeTimer[s] /\ ~IsReady("closing", s)
        BY DEF NoLateClose
    <2>1. sock[s] = "open"
        BY DEF ServerInv, DescriptorOfPlace
    <2>2. /\ ready[<<"closing", s>>] + One(closeTimer[s]) = One(sock[s] = "shut")
          /\ ready[<<"closing", s>>] \in Nat /\ closeTimer[s] \in BOOLEAN
        BY DEF ServerInv, ShutIsClosing, ServerTypeOK, Kinds
    <2> QED
        BY <2>1, <2>2 DEF One, IsReady
<1> QED
    BY <1>1, ServerInvariant, PTL

(* A slot in use that is not about to be dropped has a read pending or a   *)
(* RecvMsg to come: RecvMsg never ends without the next read.              *)
THEOREM NoSlotGoesDeaf == ServerSpec => []NeverDeaf
<1>1. ServerInv => NeverDeaf
    BY DEF ServerInv
<1> QED
    BY <1>1, ServerInvariant, PTL

(* OnUpdateRecived, which erases from the vector it walks, looks at every  *)
(* socket of it once and in order.                                         *)
THEOREM PassVisitsAll == ServerSpec => []EachVisitedOnce
<1>1. ServerInv => EachVisitedOnce
    BY PassSeesAll DEF ServerInv
<1> QED
    BY <1>1, ServerInvariant, PTL

=============================================================================
