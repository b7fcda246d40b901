--------------------------- MODULE DatabaseProofs ---------------------------
(***************************************************************************)
(* The access to the database, proved for any number of statements, rows   *)
(* and records.  First the two threads of a DbSession and the one          *)
(* connection between them: the answers keep the order of the requests, no *)
(* select is dropped and no rows reach two readers until the threads have  *)
(* crossed (DbInv), so that they implement StatementService.  Then the rows*)
(* of an answer: a DbRecordSet names no record that was freed, and its end *)
(* frees each of them once (RecordSetInv).                                 *)
(***************************************************************************)
EXTENDS DbSession, DbRecordSet, SequenceTheorems, FiniteSetTheorems, WellFoundedInduction, TLAPS

IsSelect(id) == stmts[id].kind = "select"
IsCallback(id) == stmts[id].mode = "callback"

(* What is in the pipeline was executed, and by ExecuteAsyncSQL; what goes *)
(* on to fetch rows has a callback.                                        *)
PipelineIds == \A i \in DOMAIN Pipeline : Pipeline[i] \in DOMAIN stmts

ModesKept ==
    /\ worker.pc \in {"store", "read"} => IsCallback(worker.id)
    /\ main.pc = "store" => stmts[main.id].mode = "sync"

(* Rows wait on the connection only for the thread that is about to store  *)
(* them, and a select of the worker has it to itself until they are.       *)
ConnectionHeld ==
    /\ waiting # NoRows =>
        \/ worker.pc = "store" /\ waiting = worker.id /\ IsSelect(worker.id)
        \/ main.pc = "store" /\ waiting = main.id /\ IsSelect(main.id)
    /\ worker.pc = "store" /\ IsSelect(worker.id) =>
        waiting = worker.id /\ main.pc = "free"

(* The rows fetched are of statements executed, for statements with a      *)
(* callback, and not those that still wait.                                *)
RowsFresh ==
    \A i \in DOMAIN Fetched :
        /\ Fetched[i].rows \in DOMAIN stmts
        /\ Fetched[i].id \in DOMAIN stmts
        /\ IsCallback(Fetched[i].id)
        /\ Fetched[i].rows # waiting

(* A synchronous statement returns once. *)
SyncsFresh ==
    \A a \in syncs : a.id \in DOMAIN stmts /\ (main.pc = "store" => a.id # main.id)

DbInv ==
    /\ DbTypeOK
    /\ AnswersInOrder /\ PipelineIds
    /\ ModesKept
    /\ ~crossed => ConnectionHeld /\ RowsFresh /\ SyncsFresh
    /\ SelectKept
    /\ RowsReachOneReader

-----------------------------------------------------------------------------
(* Sequences.                                                              *)

Increasing(s) == \A i, j \in DOMAIN s : i < j => s[i] < s[j]

(* Moving the head of one sequence to the end of another does not change   *)
(* the two one after the other.                                            *)
LEMMA MoveHead ==
    ASSUME NEW S, NEW s \in Seq(S), NEW t \in Seq(S), t # <<>>
    PROVE  Append(s, Head(t)) \o Tail(t) = s \o t
  <1>1. Head(t) \in S /\ Tail(t) \in Seq(S) /\ Len(Tail(t)) = Len(t) - 1
        /\ Len(t) \in Nat \ {0} /\ Len(s) \in Nat
        /\ \A i \in 1 .. Len(t) - 1 : Tail(t)[i] = t[i + 1]
    BY HeadTailProperties, EmptySeq, LenProperties
  <1>2. Head(t) = t[1]
    BY <1>1
  <1>3. /\ Append(s, Head(t)) \in Seq(S)
        /\ Len(Append(s, Head(t))) = Len(s) + 1
        /\ \A i \in 1 .. Len(s) : Append(s, Head(t))[i] = s[i]
        /\ Append(s, Head(t))[Len(s) + 1] = Head(t)
    BY <1>1, AppendProperties
  <1> DEFINE a == Append(s, Head(t))
             l == a \o Tail(t)
  <1> HIDE DEF a
  <1>4. /\ l \in Seq(S) /\ Len(l) = Len(s) + Len(t)
        /\ \A i \in 1 .. Len(s) + Len(t) :
              l[i] = IF i <= Len(s) + 1 THEN a[i] ELSE Tail(t)[i - (Len(s) + 1)]
    <2>1. a \in Seq(S) /\ Len(a) = Len(s) + 1
      BY <1>3 DEF a
    <2>2. Len(a) + Len(Tail(t)) = Len(s) + Len(t)
      BY <1>1, <2>1
    <2>3. \A i \in 1 .. Len(a) + Len(Tail(t)) :
              l[i] = IF i <= Len(a) THEN a[i] ELSE Tail(t)[i - Len(a)]
      BY <1>1, <2>1, ConcatProperties
    <2>4. l \in Seq(S) /\ Len(l) = Len(a) + Len(Tail(t))
      BY <1>1, <2>1, ConcatProperties
    <2> QED
      BY <2>1, <2>2, <2>3, <2>4
  <1> HIDE DEF l
  <1>5. /\ s \o t \in Seq(S) /\ Len(s \o t) = Len(s) + Len(t)
        /\ \A i \in 1 .. Len(s) + Len(t) :
              (s \o t)[i] = IF i <= Len(s) THEN s[i] ELSE t[i - Len(s)]
    BY ConcatProperties
  <1>6. ASSUME NEW i \in 1 .. Len(s) + Len(t) PROVE l[i] = (s \o t)[i]
    <2>1. CASE i <= Len(s)
      BY <1>1, <1>3, <1>4, <1>5, <2>1 DEF a
    <2>2. CASE i = Len(s) + 1
      <3>1. l[i] = Head(t)
        BY <1>1, <1>3, <1>4, <2>2 DEF a
      <3>2. (s \o t)[i] = t[1]
        BY <1>1, <1>5, <2>2
      <3> QED
        BY <1>2, <3>1, <3>2
    <2>3. CASE i > Len(s) + 1
      <3>1. l[i] = Tail(t)[i - (Len(s) + 1)]
        BY <1>1, <1>4, <2>3
      <3>2. i - (Len(s) + 1) \in 1 .. Len(t) - 1
        BY <1>1, <2>3
      <3>3. Tail(t)[i - (Len(s) + 1)] = t[i - Len(s)]
        <4>1. (i - (Len(s) + 1)) + 1 = i - Len(s)
          BY <1>1
        <4> QED
          BY <1>1, <3>2, <4>1
      <3>4. (s \o t)[i] = t[i - Len(s)]
        BY <1>1, <1>5, <2>3
      <3> QED
        BY <3>1, <3>3, <3>4
    <2> QED
      <3>1. i <= Len(s) \/ i = Len(s) + 1 \/ i > Len(s) + 1
        BY <1>1
      <3> QED
        BY <2>1, <2>2, <2>3, <3>1
  <1>7. l = s \o t
    BY <1>4, <1>5, <1>6, SeqEqual
  <1> QED
    BY <1>7 DEF l, a

(* A larger number at the end keeps a sequence increasing. *)
LEMMA IncreasingAppend ==
    ASSUME NEW s \in Seq(Nat), NEW x \in Nat,
           Increasing(s), \A i \in DOMAIN s : s[i] < x
    PROVE  Increasing(Append(s, x))
  <1> DEFINE t == Append(s, x)
  <1>1. /\ Len(s) \in Nat /\ DOMAIN s = 1 .. Len(s)
        /\ t \in Seq(Nat) /\ Len(t) = Len(s) + 1
        /\ \A i \in 1 .. Len(s) : t[i] = s[i]
        /\ t[Len(s) + 1] = x
    BY AppendProperties, LenProperties
  <1>2. DOMAIN t = 1 .. Len(s) + 1
    BY <1>1, LenProperties
  <1> HIDE DEF t
  <1>3. ASSUME NEW i \in DOMAIN t, NEW j \in DOMAIN t, i < j
        PROVE  t[i] < t[j]
    <2>1. i \in DOMAIN s /\ t[i] = s[i]
      BY <1>1, <1>2, <1>3
    <2>2. CASE j = Len(s) + 1
      BY <1>1, <2>1, <2>2
    <2>3. CASE j # Len(s) + 1
      <3>1. j \in DOMAIN s /\ t[j] = s[j]
        BY <1>1, <1>2, <2>3
      <3> QED
        BY <1>3, <2>1, <3>1 DEF Increasing
    <2> QED
      BY <2>2, <2>3
  <1>4. Increasing(t)
    BY <1>3 DEF Increasing
  <1> QED
    BY <1>4 DEF t

(* An increasing sequence without one of its members is increasing, and   *)
(* the members are otherwise the same.                                     *)
LEMMA DropOne ==
    ASSUME NEW a \in Seq(Nat), NEW x \in Nat, NEW b \in Seq(Nat)
    PROVE  /\ a \o b \in Seq(Nat)
           /\ Increasing((a \o <<x>>) \o b) => Increasing(a \o b)
           /\ \A i \in DOMAIN (a \o b) : (a \o b)[i] \in ToSet((a \o <<x>>) \o b)
           /\ ToSet((a \o <<x>>) \o b) \subseteq ToSet(a \o b) \cup {x}
  <1> DEFINE ax == a \o <<x>>
             l == ax \o b
             m == a \o b
             up(i) == IF i <= Len(a) THEN i ELSE i + 1
  <1>1. Len(a) \in Nat /\ Len(b) \in Nat
    BY LenProperties
  <1>2. ax \in Seq(Nat) /\ Len(ax) = Len(a) + 1
        /\ \A i \in 1 .. Len(a) + 1 : ax[i] = IF i <= Len(a) THEN a[i] ELSE x
    <2>1. <<x>> \in Seq(Nat) /\ Len(<<x>>) = 1 /\ <<x>>[1] = x
      OBVIOUS
    <2>2. \A i \in 1 .. Len(a) + 1 : ax[i] = IF i <= Len(a) THEN a[i] ELSE <<x>>[i - Len(a)]
      BY <2>1, ConcatProperties
    <2>3. \A i \in 1 .. Len(a) + 1 : i > Len(a) => i - Len(a) = 1
      BY <1>1
    <2> QED
      BY <1>1, <2>1, <2>2, <2>3, ConcatProperties, SMTT(30)
  <1> HIDE DEF ax
  <1>3. /\ l \in Seq(Nat) /\ Len(l) = Len(a) + 1 + Len(b)
        /\ \A i \in 1 .. Len(a) + 1 + Len(b) :
              l[i] = IF i <= Len(a) + 1 THEN ax[i] ELSE b[i - (Len(a) + 1)]
    <2>1. /\ l \in Seq(Nat) /\ Len(l) = Len(ax) + Len(b)
          /\ \A i \in 1 .. Len(ax) + Len(b) :
                l[i] = IF i <= Len(ax) THEN ax[i] ELSE b[i - Len(ax)]
      BY <1>2, ConcatProperties
    <2> HIDE DEF l
    <2> QED
      BY <1>2, <2>1
  <1>4. /\ m \in Seq(Nat) /\ Len(m) = Len(a) + Len(b)
        /\ \A i \in 1 .. Len(a) + Len(b) : m[i] = IF i <= Len(a) THEN a[i] ELSE b[i - Len(a)]
    BY ConcatProperties
  <1>5. DOMAIN l = 1 .. Len(a) + 1 + Len(b) /\ DOMAIN m = 1 .. Len(a) + Len(b)
    BY <1>3, <1>4, LenProperties
  <1> HIDE DEF l, m
  <1>6. ASSUME NEW i \in DOMAIN m, NEW k, k = up(i)
        PROVE  k \in DOMAIN l /\ l[k] = m[i]
    <2>1. CASE i <= Len(a)
      <3>1. i \in 1 .. Len(a) /\ i \in 1 .. Len(a) + 1 + Len(b) /\ i <= Len(a) + 1
            /\ i \in 1 .. Len(a) + 1 /\ i \in 1 .. Len(a) + Len(b) /\ k = i
        BY <1>1, <1>5, <1>6, <2>1
      <3>2. l[k] = ax[i] /\ ax[i] = a[i] /\ m[i] = a[i]
        BY <1>2, <1>3, <1>4, <2>1, <3>1
      <3> QED
        BY <1>5, <3>1, <3>2
    <2>2. CASE i > Len(a)
      <3>1. k \in DOMAIN l /\ k = i + 1 /\ k > Len(a) + 1
        BY <1>1, <1>5, <1>6, <2>2
      <3>2. l[k] = b[k - (Len(a) + 1)]
        BY <1>1, <1>3, <1>5, <3>1, SMTT(30)
      <3>3. k - (Len(a) + 1) = i - Len(a)
        BY <1>1, <1>5, <3>1
      <3>4. m[i] = b[i - Len(a)]
        BY <1>1, <1>4, <1>5, <2>2
      <3> QED
        BY <3>1, <3>2, <3>3, <3>4
    <2> QED
      BY <1>1, <1>5, <2>1, <2>2
  <1>7. ASSUME NEW j \in DOMAIN l, j # Len(a) + 1
        PROVE  \E i \in DOMAIN m : up(i) = j
    <2>1. CASE j <= Len(a)
      BY <1>1, <1>5, <2>1
    <2>2. CASE j > Len(a)
      <3>1. j - 1 \in DOMAIN m /\ up(j - 1) = j
        BY <1>1, <1>5, <1>7, <2>2
      <3> QED
        BY <3>1
    <2> QED
      BY <1>1, <1>5, <2>1, <2>2
  <1>8. \A i, j \in DOMAIN m : i < j => up(i) < up(j)
    BY <1>1, <1>5
  <1>13. \A i \in DOMAIN m : up(i) \in DOMAIN l /\ l[up(i)] = m[i]
    BY <1>6
  <1>9. l[Len(a) + 1] = x
    BY <1>1, <1>2, <1>3
  <1> HIDE DEF up
  <1>10. Increasing(l) => Increasing(m)
    BY <1>8, <1>13 DEF Increasing
  <1>11. \A i \in DOMAIN m : m[i] \in ToSet(l)
    BY <1>13 DEF ToSet
  <1>12. ToSet(l) \subseteq ToSet(m) \cup {x}
    <2> SUFFICES ASSUME NEW j \in DOMAIN l PROVE l[j] \in ToSet(m) \cup {x}
      BY DEF ToSet
    <2>1. CASE j = Len(a) + 1
      BY <1>9, <2>1
    <2>2. CASE j # Len(a) + 1
      <3>1. PICK i \in DOMAIN m : up(i) = j
        BY <1>7, <2>2
      <3>2. l[j] = m[i]
        BY <1>13, <3>1
      <3> QED
        BY <3>2 DEF ToSet
    <2> QED
      BY <2>1, <2>2
  <1> QED
    BY <1>4, <1>10, <1>11, <1>12 DEF l, m, ax

(* What is left without the element at one place. *)
LEMMA RemoveAtIs ==
    ASSUME NEW S, NEW vec \in Seq(S), NEW k \in 1 .. Len(vec)
    PROVE  /\ RemoveAt(vec, k) \in Seq(S)
           /\ Len(RemoveAt(vec, k)) = Len(vec) - 1
           /\ \A i \in 1 .. Len(vec) - 1 :
                 RemoveAt(vec, k)[i] = IF i < k THEN vec[i] ELSE vec[i + 1]
  <1> DEFINE front == SubSeq(vec, 1, k - 1)
             back  == SubSeq(vec, k + 1, Len(vec))
  <1>1. front \in Seq(S) /\ Len(front) = k - 1 /\ \A i \in 1 .. k - 1 : front[i] = vec[i]
    OBVIOUS
  <1>2. /\ back \in Seq(S) /\ Len(back) = Len(vec) - k
        /\ \A i \in 1 .. Len(vec) - k : back[i] = vec[k + i]
    OBVIOUS
  <1> HIDE DEF front, back
  <1>3. RemoveAt(vec, k) = front \o back
    BY DEF RemoveAt, front, back
  <1>4. front \in Seq(S) /\ back \in Seq(S)
    BY <1>1, <1>2
  <1>5. front \o back \in Seq(S) /\ Len(front \o back) = Len(front) + Len(back)
    BY <1>4, ConcatProperties
  <1>6. ASSUME NEW i \in 1 .. Len(vec) - 1
        PROVE  (front \o back)[i] = IF i < k THEN vec[i] ELSE vec[i + 1]
    <2>1. CASE i < k
      BY <2>1, <1>1, <1>2
    <2>2. CASE ~(i < k)
      <3>1. (front \o back)[i] = back[i - (k - 1)]
        BY <2>2, <1>1, <1>2
      <3>2. i - (k - 1) \in 1 .. Len(vec) - k
        BY <2>2
      <3>3. back[i - (k - 1)] = vec[k + (i - (k - 1))]
        BY <3>2, <1>2
      <3>4. k + (i - (k - 1)) = i + 1
        OBVIOUS
      <3> QED  BY <2>2, <3>1, <3>3, <3>4
    <2> QED  BY <2>1, <2>2
  <1> QED  BY <1>1, <1>2, <1>3, <1>5, <1>6

(* The head of a sequence with another behind it. *)
LEMMA ConcatHead ==
    ASSUME NEW S, NEW s \in Seq(S), NEW t \in Seq(S), s # <<>>
    PROVE  s \o t \in Seq(S) /\ s \o t # <<>> /\ Head(s \o t) = Head(s) /\ Tail(s \o t) = Tail(s) \o t
  <1> DEFINE l == s \o t
             m == Tail(s) \o t
  <1>1. /\ Tail(s) \in Seq(S) /\ Len(Tail(s)) = Len(s) - 1 /\ Len(s) \in Nat \ {0} /\ Len(t) \in Nat
        /\ \A i \in 1 .. Len(s) - 1 : Tail(s)[i] = s[i + 1]
    BY HeadTailProperties, EmptySeq, LenProperties
  <1>2. /\ l \in Seq(S) /\ Len(l) = Len(s) + Len(t)
        /\ \A i \in 1 .. Len(s) + Len(t) : l[i] = IF i <= Len(s) THEN s[i] ELSE t[i - Len(s)]
    BY ConcatProperties
  <1>3. /\ m \in Seq(S) /\ Len(m) = Len(Tail(s)) + Len(t)
        /\ \A i \in 1 .. Len(Tail(s)) + Len(t) :
              m[i] = IF i <= Len(Tail(s)) THEN Tail(s)[i] ELSE t[i - Len(Tail(s))]
    BY <1>1, ConcatProperties
  <1> HIDE DEF l, m
  <1>4. l # <<>>
    BY <1>1, <1>2, EmptySeq
  <1>5. Head(l) = Head(s)
    <2>1. 1 \in 1 .. Len(s) + Len(t) /\ 1 <= Len(s)
      BY <1>1
    <2>2. Head(l) = l[1] /\ Head(s) = s[1]
      BY <1>2, <1>4
    <2> QED
      BY <1>2, <2>1, <2>2
  <1>6. /\ Tail(l) \in Seq(S) /\ Len(Tail(l)) = Len(l) - 1
        /\ \A i \in 1 .. Len(l) - 1 : Tail(l)[i] = l[i + 1]
    BY <1>2, <1>4, HeadTailProperties
  <1>7. ASSUME NEW i \in 1 .. Len(l) - 1 PROVE Tail(l)[i] = m[i]
    <2>1. i + 1 \in 1 .. Len(s) + Len(t) /\ i \in 1 .. Len(Tail(s)) + Len(t) /\ i \in Nat
      BY <1>1, <1>2
    <2>2. CASE i <= Len(s) - 1
      <3>1. i + 1 <= Len(s) /\ i <= Len(Tail(s)) /\ i \in 1 .. Len(s) - 1
        BY <1>1, <2>1, <2>2
      <3> QED
        BY <1>1, <1>2, <1>3, <1>6, <2>1, <3>1
    <2>3. CASE ~(i <= Len(s) - 1)
      <3>1. ~(i + 1 <= Len(s)) /\ ~(i <= Len(Tail(s))) /\ (i + 1) - Len(s) = i - Len(Tail(s))
        BY <1>1, <2>1, <2>3
      <3>2. l[i + 1] = t[(i + 1) - Len(s)]
        BY <1>2, <2>1, <3>1
      <3>3. m[i] = t[i - Len(Tail(s))]
        BY <1>3, <2>1, <3>1
      <3> QED
        BY <1>6, <3>1, <3>2, <3>3
    <2> QED
      BY <2>2, <2>3
  <1>8. Len(Tail(l)) = Len(m)
    BY <1>1, <1>2, <1>3, <1>6
  <1>9. Tail(l) = m
    BY <1>3, <1>6, <1>7, <1>8, SeqEqual
  <1> QED
    BY <1>2, <1>4, <1>5, <1>9 DEF l, m

(* Taking one element out of the middle leaves what was around it. *)
LEMMA AroundOne ==
    ASSUME NEW a \in Seq(Nat), NEW one \in Seq(Nat), NEW b \in Seq(Nat), Len(one) = 1
    PROVE  /\ Len(a) + 1 \in 1 .. Len((a \o one) \o b)
           /\ ((a \o one) \o b)[Len(a) + 1] = one[1]
           /\ a \o b = RemoveAt((a \o one) \o b, Len(a) + 1)
  <1> DEFINE ax == a \o one
             ab == a \o b
             l == ax \o b
             i == Len(a) + 1
             rest == RemoveAt(l, i)
  <1>1. Len(a) \in Nat /\ Len(b) \in Nat
    BY LenProperties
  <1>2. /\ ax \in Seq(Nat) /\ Len(ax) = Len(a) + Len(one)
        /\ \A k \in 1 .. Len(a) + Len(one) : ax[k] = IF k <= Len(a) THEN a[k] ELSE one[k - Len(a)]
    BY ConcatProperties
  <1>3. /\ ab \in Seq(Nat) /\ Len(ab) = Len(a) + Len(b)
        /\ \A k \in 1 .. Len(a) + Len(b) : ab[k] = IF k <= Len(a) THEN a[k] ELSE b[k - Len(a)]
    BY ConcatProperties
  <1> HIDE DEF ax, ab
  <1>4. l \in Seq(Nat) /\ Len(l) = Len(ax) + Len(b)
        /\ \A k \in 1 .. Len(ax) + Len(b) : l[k] = IF k <= Len(ax) THEN ax[k] ELSE b[k - Len(ax)]
    <2>1. ax \in Seq(Nat)
      BY <1>2
    <2> QED
      BY <2>1, ConcatProperties
  <1> HIDE DEF l
  <1>5. Len(ax) = Len(a) + 1 /\ Len(l) = Len(a) + 1 + Len(b) /\ i \in 1 .. Len(l)
    BY <1>1, <1>2, <1>4
  <1>6. l[i] = one[1]
    <2>1. i \in 1 .. Len(a) + Len(one) /\ i \in 1 .. Len(ax) + Len(b) /\ i <= Len(ax)
          /\ ~(i <= Len(a)) /\ i - Len(a) = 1
      BY <1>1, <1>2, <1>5
    <2> QED
      BY <1>2, <1>4, <2>1
  <1>7. /\ rest \in Seq(Nat) /\ Len(rest) = Len(l) - 1
        /\ \A k \in 1 .. Len(l) - 1 : rest[k] = IF k < i THEN l[k] ELSE l[k + 1]
    BY <1>4, <1>5, RemoveAtIs
  <1> HIDE DEF rest
  <1>8. ASSUME NEW k \in 1 .. Len(l) - 1 PROVE rest[k] = ab[k]
    <2>1. k \in Nat /\ k \in 1 .. Len(a) + Len(b)
      BY <1>1, <1>5
    <2>2. CASE k <= Len(a)
      <3>1. k < i /\ k <= Len(ax) /\ k \in 1 .. Len(a) + Len(one) /\ k \in 1 .. Len(ax) + Len(b)
        BY <1>1, <1>2, <1>5, <2>1, <2>2
      <3>2. rest[k] = l[k] /\ l[k] = ax[k] /\ ax[k] = a[k] /\ ab[k] = a[k]
        BY <1>2, <1>3, <1>4, <1>7, <2>1, <2>2, <3>1
      <3> QED
        BY <3>2
    <2>3. CASE ~(k <= Len(a))
      <3>1. ~(k < i) /\ ~(k + 1 <= Len(ax)) /\ k + 1 \in 1 .. Len(ax) + Len(b)
            /\ (k + 1) - Len(ax) = k - Len(a)
        BY <1>1, <1>2, <1>5, <2>1, <2>3
      <3>2. rest[k] = l[k + 1]
        BY <1>7, <3>1
      <3>3. l[k + 1] = b[(k + 1) - Len(ax)]
        BY <1>4, <3>1
      <3>4. ab[k] = b[k - Len(a)]
        BY <1>3, <2>1, <2>3
      <3> QED
        BY <3>1, <3>2, <3>3, <3>4
    <2> QED
      BY <2>2, <2>3
  <1>9. rest = ab
    <2>1. Len(rest) = Len(ab) /\ Len(rest) = Len(l) - 1
      BY <1>1, <1>3, <1>5, <1>7
    <2> QED
      BY <1>3, <1>7, <1>8, <2>1, SeqEqual
  <1> QED
    BY <1>5, <1>6, <1>9 DEF rest, ab, l, ax

-----------------------------------------------------------------------------
(* The statements and the two queues.                                      *)

(* The ids of a sequence of answers. *)
LEMMA IdsProperties ==
    ASSUME NEW s \in Seq(Record)
    PROVE  /\ Ids(s) \in Seq(Nat) /\ Len(Ids(s)) = Len(s)
           /\ \A i \in 1 .. Len(s) : Ids(s)[i] = s[i].id
  <1>1. Len(s) \in Nat /\ DOMAIN s = 1 .. Len(s)
    BY LenProperties
  <1>2. \A i \in 1 .. Len(s) : s[i].id \in Nat
    <2> TAKE i \in 1 .. Len(s)
    <2>1. s[i] \in Record
      BY ElementOfSeq
    <2> QED
      BY <2>1, DbAssumption DEF Record, DbAssumption
  <1>3. Ids(s) \in [1 .. Len(s) -> Nat]
    BY <1>1, <1>2 DEF Ids
  <1>4. Ids(s) \in Seq(Nat)
    BY <1>1, <1>3, SeqDef
  <1>5. DOMAIN Ids(s) = 1 .. Len(s) /\ DOMAIN Ids(s) = 1 .. Len(Ids(s)) /\ Len(Ids(s)) \in Nat
    BY <1>3, <1>4, LenProperties
  <1> QED
    BY <1>1, <1>4, <1>5 DEF Ids

LEMMA IdsAppend ==
    ASSUME NEW s \in Seq(Record), NEW a \in Record
    PROVE  Ids(Append(s, a)) = Append(Ids(s), a.id)
  <1> DEFINE sa == Append(s, a)
             l == Append(Ids(s), a.id)
  <1>1. a.id \in Nat
    BY DbAssumption DEF Record, DbAssumption
  <1>2. /\ sa \in Seq(Record) /\ Len(sa) = Len(s) + 1 /\ Len(s) \in Nat
        /\ \A i \in 1 .. Len(s) : sa[i] = s[i]
        /\ sa[Len(s) + 1] = a
    BY AppendProperties, LenProperties
  <1>3. /\ Ids(s) \in Seq(Nat) /\ Len(Ids(s)) = Len(s)
        /\ \A i \in 1 .. Len(s) : Ids(s)[i] = s[i].id
    BY IdsProperties
  <1>4. /\ l \in Seq(Nat) /\ Len(l) = Len(Ids(s)) + 1
        /\ \A i \in 1 .. Len(Ids(s)) : l[i] = Ids(s)[i]
        /\ l[Len(Ids(s)) + 1] = a.id
    BY <1>1, <1>3, AppendProperties
  <1> HIDE DEF sa, l
  <1>5. /\ Ids(sa) \in Seq(Nat) /\ Len(Ids(sa)) = Len(sa)
        /\ \A i \in 1 .. Len(sa) : Ids(sa)[i] = sa[i].id
    BY <1>2, IdsProperties
  <1>6. ASSUME NEW i \in 1 .. Len(Ids(sa)) PROVE Ids(sa)[i] = l[i]
    <2>1. CASE i = Len(s) + 1
      BY <1>2, <1>3, <1>4, <1>5, <2>1
    <2>2. CASE i # Len(s) + 1
      <3>1. i \in 1 .. Len(s) /\ i \in 1 .. Len(sa) /\ i \in 1 .. Len(Ids(s))
        BY <1>2, <1>3, <1>5, <2>2
      <3> QED
        BY <1>2, <1>3, <1>4, <1>5, <3>1
    <2> QED
      BY <2>1, <2>2
  <1>7. Ids(sa) = l
    BY <1>2, <1>3, <1>4, <1>5, <1>6, SeqEqual
  <1> QED
    BY <1>7 DEF sa, l

(* So of what is behind the first. *)
LEMMA IdsOfTail ==
    ASSUME NEW s \in Seq(Record), s # <<>>
    PROVE  /\ Ids(s) # <<>>
           /\ Head(Ids(s)) = Head(s).id
           /\ Tail(Ids(s)) = Ids(Tail(s))
  <1>1. /\ Ids(s) \in Seq(Nat) /\ Len(Ids(s)) = Len(s)
        /\ \A i \in 1 .. Len(s) : Ids(s)[i] = s[i].id
    BY IdsProperties
  <1>2. Len(s) \in Nat \ {0}
    BY EmptySeq
  <1>3. Ids(s) # <<>>
    BY <1>1, <1>2, EmptySeq
  <1>4. Head(Ids(s)) = Head(s).id
    <2>1. Head(Ids(s)) = Ids(s)[1] /\ Head(s) = s[1]
      BY <1>1, <1>3
    <2> QED
      BY <1>1, <1>2, <2>1
  <1>5. Tail(s) \in Seq(Record) /\ Len(Tail(s)) = Len(s) - 1
        /\ \A i \in 1 .. Len(s) - 1 : Tail(s)[i] = s[i + 1]
    BY HeadTailProperties
  <1>6. /\ Tail(Ids(s)) \in Seq(Nat) /\ Len(Tail(Ids(s))) = Len(s) - 1
        /\ \A i \in 1 .. Len(s) - 1 : Tail(Ids(s))[i] = Ids(s)[i + 1]
    BY <1>1, <1>3, HeadTailProperties
  <1>7. /\ Ids(Tail(s)) \in Seq(Nat) /\ Len(Ids(Tail(s))) = Len(s) - 1
        /\ \A i \in 1 .. Len(s) - 1 : Ids(Tail(s))[i] = Tail(s)[i].id
    BY <1>5, IdsProperties
  <1>8. ASSUME NEW i \in 1 .. Len(s) - 1 PROVE Tail(Ids(s))[i] = Ids(Tail(s))[i]
    <2>1. i + 1 \in 1 .. Len(s)
      BY <1>2
    <2>2. Tail(Ids(s))[i] = s[i + 1].id
      BY <1>1, <1>6, <2>1
    <2>3. Ids(Tail(s))[i] = s[i + 1].id
      BY <1>5, <1>7
    <2> QED
      BY <2>2, <2>3
  <1>9. Tail(Ids(s)) = Ids(Tail(s))
    BY <1>6, <1>7, <1>8, SeqEqual
  <1> QED
    BY <1>3, <1>4, <1>9

Taken == Ids(answers) \o Ids(results)

(* The parts of the pipeline are sequences of numbers. *)
LEMMA PipelineType ==
    ASSUME DbTypeOK
    PROVE  /\ Ids(answers) \in Seq(Nat) /\ Ids(results) \in Seq(Nat)
           /\ Taken \in Seq(Nat) /\ InHand \in Seq(Nat) /\ requests \in Seq(Nat)
           /\ Pipeline \in Seq(Nat)
           /\ Pipeline = (Taken \o InHand) \o requests
           /\ Len(stmts) \in Nat /\ DOMAIN stmts = 1 .. Len(stmts)
           /\ worker.id \in Nat
  <1>1. Ids(answers) \in Seq(Nat) /\ Ids(results) \in Seq(Nat)
    BY IdsProperties DEF DbTypeOK
  <1>2. Len(stmts) \in Nat /\ DOMAIN stmts = 1 .. Len(stmts)
    BY LenProperties DEF DbTypeOK
  <1>3. requests \in Seq(Nat)
    <2>1. requests \in Seq(DOMAIN stmts) /\ DOMAIN stmts \subseteq Nat
      BY <1>2 DEF DbTypeOK
    <2> QED
      BY <2>1, SeqMonotonic
  <1>4. worker.id \in Nat
    BY DbAssumption DEF DbTypeOK, Rows, DbAssumption
  <1>5. InHand \in Seq(Nat)
    BY <1>4, EmptySeq DEF InHand
  <1>6. Taken \in Seq(Nat)
    BY <1>1, ConcatProperties DEF Taken
  <1>7. Pipeline = (Taken \o InHand) \o requests
    BY DEF Pipeline, Taken
  <1>8. Taken \o InHand \in Seq(Nat)
    BY <1>5, <1>6, ConcatProperties
  <1>9. Pipeline \in Seq(Nat)
    BY <1>3, <1>7, <1>8, ConcatProperties
  <1> QED
    BY <1>1, <1>2, <1>3, <1>4, <1>5, <1>6, <1>7, <1>9

(* A statement, once executed, does not change. *)
LEMMA StmtsKept ==
    ASSUME DbTypeOK, NEW s, stmts' = Append(stmts, s), s \in [kind : Kinds, mode : Modes]
    PROVE  /\ Len(stmts') = Len(stmts) + 1 /\ DOMAIN stmts' = 1 .. Len(stmts) + 1
           /\ stmts' \in Seq([kind : Kinds, mode : Modes])
           /\ \A id \in DOMAIN stmts : stmts'[id] = stmts[id]
           /\ stmts'[Len(stmts) + 1] = s
           /\ DOMAIN stmts \subseteq DOMAIN stmts'
           /\ Len(stmts) \in Nat /\ DOMAIN stmts = 1 .. Len(stmts)
  <1>1. stmts \in Seq([kind : Kinds, mode : Modes])
    BY DEF DbTypeOK
  <1>2. Len(stmts) \in Nat /\ DOMAIN stmts = 1 .. Len(stmts)
    BY <1>1, LenProperties
  <1>3. /\ stmts' \in Seq([kind : Kinds, mode : Modes])
        /\ Len(stmts') = Len(stmts) + 1
        /\ \A id \in 1 .. Len(stmts) : stmts'[id] = stmts[id]
        /\ stmts'[Len(stmts) + 1] = s
    BY <1>1, AppendProperties
  <1>4. DOMAIN stmts' = 1 .. Len(stmts')
    BY <1>3, LenProperties
  <1> QED
    BY <1>2, <1>3, <1>4

(* The worker lets go of a statement that gives no rows. *)
Drops ==
    /\ worker.pc # "idle" /\ worker' = Idle
    /\ UNCHANGED <<stmts, requests, results, answers>>

LEMMA PipelineDrop ==
    ASSUME DbTypeOK, Drops
    PROVE  /\ Pipeline = (Taken \o <<worker.id>>) \o requests
           /\ Pipeline' = Taken \o requests
  <1>1. InHand = <<worker.id>>
    BY DEF Drops, InHand
  <1>2. InHand' = <<>> /\ Taken' = Taken /\ requests' = requests
    BY DEF Drops, InHand, Idle, Taken
  <1>3. Pipeline' = (Taken' \o InHand') \o requests'
    BY DEF Pipeline, Taken
  <1>4. Taken \o <<>> = Taken
    BY PipelineType, ConcatEmptySeq
  <1> QED
    BY <1>1, <1>2, <1>3, <1>4, PipelineType

LEMMA PipelineSame ==
    ASSUME DbTypeOK, UNCHANGED <<requests, results, answers>>,
           worker'.id = worker.id, worker'.pc = "idle" <=> worker.pc = "idle"
    PROVE  Pipeline' = Pipeline
  <1>1. InHand' = InHand
    BY DEF InHand
  <1> QED
    BY <1>1 DEF Pipeline

LEMMA PipelineExecute ==
    ASSUME DbTypeOK, requests' = Append(requests, Len(stmts) + 1),
           UNCHANGED <<results, answers, worker>>
    PROVE  Pipeline' = Append(Pipeline, Len(stmts) + 1)
  <1> DEFINE n == Len(stmts) + 1
             p == Taken \o InHand
  <1>1. p \in Seq(Nat) /\ n \in Nat /\ requests \in Seq(Nat) /\ <<n>> \in Seq(Nat)
    BY PipelineType, ConcatProperties
  <1>2. Pipeline' = p \o Append(requests, n)
    BY DEF Pipeline, Taken, InHand
  <1> HIDE DEF p, n
  <1>3. Append(requests, n) = requests \o <<n>>
    BY <1>1, AppendIsConcat
  <1>4. p \o requests \in Seq(Nat)
    BY <1>1, ConcatProperties
  <1>5. Append(p \o requests, n) = (p \o requests) \o <<n>>
    BY <1>1, <1>4, AppendIsConcat
  <1>6. (p \o requests) \o <<n>> = p \o (requests \o <<n>>)
    BY <1>1, ConcatAssociative, SMTT(30)
  <1>7. Pipeline = p \o requests
    BY PipelineType DEF p
  <1> QED
    BY <1>2, <1>3, <1>5, <1>6, <1>7 DEF n

LEMMA PipelinePop ==
    ASSUME DbTypeOK, WorkerPop
    PROVE  Pipeline' = Pipeline
  <1>1. InHand = <<>> /\ InHand' = <<Head(requests)>> /\ Taken' = Taken
        /\ requests' = Tail(requests) /\ requests # <<>>
    BY DEF WorkerPop, InHand, Idle, Taken
  <1>2. Head(requests) \in Nat
    BY <1>1, PipelineType, HeadTailProperties
  <1>3. Taken \o <<Head(requests)>> = Append(Taken, Head(requests))
    BY <1>2, PipelineType, AppendIsConcat
  <1>4. Taken \o <<>> = Taken
    BY PipelineType, ConcatEmptySeq
  <1>5. Pipeline' = (Taken' \o InHand') \o requests'
    BY DEF Pipeline, Taken
  <1>6. Append(Taken, Head(requests)) \o Tail(requests) = Taken \o requests
    BY <1>1, PipelineType, MoveHead
  <1> QED
    BY <1>1, <1>3, <1>4, <1>5, <1>6, PipelineType

LEMMA PipelineRead ==
    ASSUME DbTypeOK, worker.pc # "idle", worker' = Idle, NEW r \in Rows,
           results' = Append(results, Answer(worker.id, r)),
           UNCHANGED <<stmts, requests, answers>>
    PROVE  Pipeline' = Pipeline
  <1> DEFINE A == Ids(answers)
             R == Ids(results)
             i == worker.id
  <1>1. A \in Seq(Nat) /\ R \in Seq(Nat) /\ i \in Nat /\ <<i>> \in Seq(Nat)
    BY PipelineType
  <1>2. Answer(i, r) \in Record /\ Answer(i, r).id = i
    BY PipelineType, DbAssumption DEF DbTypeOK, Answer, Record, Rows, DbAssumption
  <1>3. Ids(results') = Append(R, i)
    BY <1>2, IdsAppend DEF DbTypeOK
  <1>4. InHand' = <<>> /\ InHand = <<i>>
    BY DEF InHand, Idle
  <1>5. Pipeline' = ((A \o Append(R, i)) \o <<>>) \o requests
    BY <1>3, <1>4 DEF Pipeline
  <1>6. Pipeline = ((A \o R) \o <<i>>) \o requests
    BY <1>4 DEF Pipeline
  <1> HIDE DEF A, R, i
  <1>7. Append(R, i) = R \o <<i>>
    BY <1>1, AppendIsConcat
  <1>8. A \o (R \o <<i>>) = (A \o R) \o <<i>>
    BY <1>1, ConcatAssociative
  <1>9. R \o <<i>> \in Seq(Nat)
    BY <1>1, ConcatProperties
  <1>10. A \o (R \o <<i>>) \in Seq(Nat)
    BY <1>1, <1>9, ConcatProperties
  <1>11. (A \o (R \o <<i>>)) \o <<>> = A \o (R \o <<i>>)
    BY <1>10, ConcatEmptySeq
  <1> QED
    BY <1>5, <1>6, <1>7, <1>8, <1>11

(* Update moves the answer from one queue to the other. *)
LEMMA UpdateMoves ==
    ASSUME DbTypeOK, Update
    PROVE  /\ answers' \in Seq(Record) /\ results' \in Seq(Record)
           /\ answers' \o results' = answers \o results
           /\ Pipeline' = Pipeline
           /\ \A i \in DOMAIN results' : results'[i].rows # NoRows
  <1>1. answers \in Seq(Record) /\ results \in Seq(Record) /\ results # <<>>
    BY DEF DbTypeOK, Update
  <1>2. answers' = Append(answers, Head(results)) /\ results' = Tail(results)
    BY DEF Update
  <1>3. answers' \o results' = answers \o results
    BY <1>1, <1>2, MoveHead
  <1>4. Head(results) \in Record /\ Tail(results) \in Seq(Record)
        /\ Len(Tail(results)) = Len(results) - 1
        /\ \A i \in 1 .. Len(Tail(results)) : Tail(results)[i] = results[i + 1]
    BY <1>1, HeadTailProperties
  <1>5. answers' \in Seq(Record)
    BY <1>1, <1>2, <1>4, AppendProperties
  <1>6. /\ Ids(results) # <<>>
        /\ Head(Ids(results)) = Head(results).id
        /\ Tail(Ids(results)) = Ids(Tail(results))
    BY <1>1, IdsOfTail
  <1>7. Taken' = Taken
    <2>1. Ids(answers') = Append(Ids(answers), Head(Ids(results)))
      BY <1>1, <1>2, <1>4, <1>6, IdsAppend
    <2>2. Append(Ids(answers), Head(Ids(results))) \o Tail(Ids(results))
            = Ids(answers) \o Ids(results)
      BY <1>6, PipelineType, MoveHead
    <2>3. Ids(results') = Tail(Ids(results))
      BY <1>2, <1>6
    <2> QED
      BY <2>1, <2>2, <2>3 DEF Taken
  <1>8. InHand' = InHand /\ requests' = requests
    BY DEF Update, InHand
  <1>9. Pipeline' = (Taken' \o InHand') \o requests'
    BY DEF Pipeline, Taken
  <1>10. ASSUME NEW i \in DOMAIN results' PROVE results'[i].rows # NoRows
    <2>1. Len(results) \in Nat /\ DOMAIN results = 1 .. Len(results)
          /\ DOMAIN results' = 1 .. Len(results')
      BY <1>1, <1>2, <1>4, LenProperties
    <2>2. i \in 1 .. Len(results) - 1 /\ i + 1 \in DOMAIN results
      BY <1>2, <1>4, <2>1
    <2>3. results'[i] = results[i + 1]
      BY <1>2, <1>4, <2>2
    <2> QED
      BY <2>2, <2>3 DEF DbTypeOK
  <1> QED
    BY <1>2, <1>3, <1>4, <1>5, <1>7, <1>8, <1>9, <1>10, PipelineType

(* What is fetched is in the order of the pipeline. *)
LEMMA FetchedType ==
    ASSUME DbTypeOK
    PROVE  /\ Fetched \in Seq(Record)
           /\ answers \o results \in Seq(Record)
           /\ Ids(answers \o results) = Taken
  <1>1. answers \in Seq(Record) /\ results \in Seq(Record)
    BY DEF DbTypeOK
  <1>2. /\ answers \o results \in Seq(Record)
        /\ Len(answers \o results) = Len(answers) + Len(results)
        /\ \A i \in 1 .. Len(answers) + Len(results) :
              (answers \o results)[i]
                = IF i <= Len(answers) THEN answers[i] ELSE results[i - Len(answers)]
    BY <1>1, ConcatProperties
  <1>3. worker.pc = "read" => Answer(worker.id, worker.rows) \in Record
    BY LenProperties DEF DbTypeOK, Answer, Record, Rows
  <1>4. Fetched \in Seq(Record)
    <2>1. CASE worker.pc = "read"
      <3>1. <<Answer(worker.id, worker.rows)>> \in Seq(Record)
        BY <1>3, <2>1
      <3> QED
        BY <1>2, <2>1, <3>1, ConcatProperties DEF Fetched
    <2>2. CASE worker.pc # "read"
      BY <1>2, <2>2, ConcatEmptySeq DEF Fetched
    <2> QED
      BY <2>1, <2>2
  <1>5. Ids(answers \o results) = Taken
    <2> DEFINE l == answers \o results
    <2>1. l \in Seq(Record) /\ Len(l) = Len(answers) + Len(results)
          /\ Len(answers) \in Nat /\ Len(results) \in Nat
      BY <1>1, <1>2, LenProperties
    <2>2. \A i \in 1 .. Len(l) :
             l[i] = IF i <= Len(answers) THEN answers[i] ELSE results[i - Len(answers)]
      BY <1>2
    <2> HIDE DEF l
    <2>3. /\ Ids(l) \in Seq(Nat) /\ Len(Ids(l)) = Len(l)
          /\ \A i \in 1 .. Len(l) : Ids(l)[i] = l[i].id
      BY <2>1, IdsProperties
    <2>4. /\ Ids(answers) \in Seq(Nat) /\ Len(Ids(answers)) = Len(answers)
          /\ \A i \in 1 .. Len(answers) : Ids(answers)[i] = answers[i].id
      BY <1>1, IdsProperties
    <2>5. /\ Ids(results) \in Seq(Nat) /\ Len(Ids(results)) = Len(results)
          /\ \A i \in 1 .. Len(results) : Ids(results)[i] = results[i].id
      BY <1>1, IdsProperties
    <2>6. /\ Taken \in Seq(Nat) /\ Len(Taken) = Len(answers) + Len(results)
          /\ \A i \in 1 .. Len(l) :
               Taken[i] = IF i <= Len(answers) THEN Ids(answers)[i]
                                               ELSE Ids(results)[i - Len(answers)]
      <3>1. /\ Taken \in Seq(Nat) /\ Len(Taken) = Len(Ids(answers)) + Len(Ids(results))
            /\ \A i \in 1 .. Len(Ids(answers)) + Len(Ids(results)) :
                 Taken[i] = IF i <= Len(Ids(answers)) THEN Ids(answers)[i]
                                            ELSE Ids(results)[i - Len(Ids(answers))]
        <4> DEFINE A == Ids(answers)
                   R == Ids(results)
        <4>1. A \in Seq(Nat) /\ R \in Seq(Nat)
          BY <2>4, <2>5
        <4>2. Taken = A \o R
          BY DEF Taken
        <4> HIDE DEF A, R
        <4>3. /\ Taken \in Seq(Nat) /\ Len(Taken) = Len(A) + Len(R)
              /\ \A i \in 1 .. Len(A) + Len(R) :
                   Taken[i] = IF i <= Len(A) THEN A[i] ELSE R[i - Len(A)]
          BY <4>1, <4>2, ConcatProperties
        <4> QED
          BY <4>3 DEF A, R
      <3> QED
        BY <2>1, <2>4, <2>5, <3>1
    <2>7. ASSUME NEW i \in 1 .. Len(Ids(l)) PROVE Ids(l)[i] = Taken[i]
      <3>1. CASE i <= Len(answers)
        <4>1. i \in 1 .. Len(answers) /\ i \in 1 .. Len(l)
          BY <2>1, <2>3, <3>1
        <4> QED
          BY <2>2, <2>3, <2>4, <2>6, <3>1, <4>1
      <3>2. CASE ~(i <= Len(answers))
        <4> DEFINE k == i - Len(answers)
        <4>1. k \in 1 .. Len(results) /\ i \in 1 .. Len(l)
          BY <2>1, <2>3, <3>2
        <4>2. l[i] = results[k] /\ Taken[i] = Ids(results)[k]
          BY <2>2, <2>6, <3>2, <4>1
        <4> HIDE DEF k
        <4> QED
          BY <2>3, <2>5, <4>1, <4>2
      <3> QED
        BY <3>1, <3>2
    <2>8. Ids(l) = Taken
      BY <2>1, <2>3, <2>6, <2>7, SeqEqual
    <2> QED
      BY <2>8 DEF l
  <1> QED
    BY <1>2, <1>4, <1>5

-----------------------------------------------------------------------------
(* The answer that Update is to take is the first behind those taken. *)

LEMMA FetchedHead ==
    ASSUME DbTypeOK, results # <<>>, NEW k, k = Len(answers) + 1
    PROVE  k \in DOMAIN Fetched /\ Fetched[k] = Head(results)
  <1>1. answers \in Seq(Record) /\ results \in Seq(Record)
    BY DEF DbTypeOK
  <1>2. Len(answers) \in Nat /\ Len(results) \in Nat \ {0} /\ Head(results) = results[1]
    BY <1>1, EmptySeq, LenProperties
  <1> DEFINE l == answers \o results
             t == IF worker.pc = "read" THEN <<Answer(worker.id, worker.rows)>> ELSE <<>>
  <1>3. t \in Seq(Record)
    <2>1. CASE worker.pc = "read"
      <3>1. Answer(worker.id, worker.rows) \in Record
        BY <2>1, LenProperties DEF DbTypeOK, Answer, Record, Rows
      <3> QED
        BY <2>1, <3>1
    <2> QED
      BY <2>1
  <1>4. /\ l \in Seq(Record) /\ Len(l) = Len(answers) + Len(results)
        /\ \A i \in 1 .. Len(answers) + Len(results) :
              l[i] = IF i <= Len(answers) THEN answers[i] ELSE results[i - Len(answers)]
    BY <1>1, ConcatProperties
  <1>5. Fetched = l \o t
    BY DEF Fetched
  <1> HIDE DEF l, t
  <1>6. /\ l \o t \in Seq(Record) /\ Len(l \o t) = Len(l) + Len(t) /\ Len(t) \in Nat
        /\ \A i \in 1 .. Len(l) + Len(t) : (l \o t)[i] = IF i <= Len(l) THEN l[i] ELSE t[i - Len(l)]
    <2>1. Len(t) \in Nat
      BY <1>3, LenProperties
    <2>2. l \in Seq(Record) /\ t \in Seq(Record)
      BY <1>3, <1>4
    <2>3. /\ l \o t \in Seq(Record) /\ Len(l \o t) = Len(l) + Len(t)
          /\ \A i \in 1 .. Len(l) + Len(t) : (l \o t)[i] = IF i <= Len(l) THEN l[i] ELSE t[i - Len(l)]
      BY <2>2, ConcatProperties
    <2> QED
      BY <2>1, <2>3
  <1>7. k \in 1 .. Len(l) + Len(t) /\ k <= Len(l) /\ k \in 1 .. Len(answers) + Len(results)
        /\ ~(k <= Len(answers)) /\ k - Len(answers) = 1
    BY <1>2, <1>4, <1>6
  <1>8. DOMAIN (l \o t) = 1 .. Len(l) + Len(t)
    BY <1>6, LenProperties
  <1>9. (l \o t)[k] = results[1]
    BY <1>4, <1>6, <1>7
  <1> QED
    BY <1>2, <1>5, <1>7, <1>8, <1>9

(* Every step keeps the invariant.                                         *)

LEMMA TypeStep ==
    ASSUME DbTypeOK, [DbNext]_dbVars
    PROVE  DbTypeOK'
  <1> USE DbAssumption DEF DbAssumption
  <1>0. /\ stmts \in Seq([kind : Kinds, mode : Modes]) /\ Len(stmts) <= MaxStmts
        /\ requests \in Seq(DOMAIN stmts)
        /\ results \in Seq(Record) /\ answers \in Seq(Record)
        /\ \A i \in DOMAIN results : results[i].rows # NoRows
        /\ worker \in [pc : {"idle", "query", "store", "read"}, id : Rows, rows : Rows]
        /\ worker.pc # "idle" => worker.id \in DOMAIN stmts
        /\ worker.pc = "read" => worker.rows # NoRows
        /\ main \in [pc : {"free", "store"}, id : Rows]
        /\ main.pc = "store" => main.id \in DOMAIN stmts
        /\ waiting \in Rows
        /\ crossed \in BOOLEAN
        /\ syncs \subseteq Record
        /\ Len(stmts) \in Nat /\ DOMAIN stmts = 1 .. Len(stmts)
    BY LenProperties DEF DbTypeOK
  <1>1. ASSUME NEW kind \in Kinds, NEW mode \in Modes, ExecuteAsyncSQL(kind, mode)
        PROVE  DbTypeOK'
    <2>1. /\ Len(stmts') = Len(stmts) + 1 /\ DOMAIN stmts' = 1 .. Len(stmts) + 1
          /\ stmts' \in Seq([kind : Kinds, mode : Modes])
      BY <1>1, StmtsKept DEF ExecuteAsyncSQL
    <2>2. requests \in Seq(DOMAIN stmts')
      BY <1>0, <2>1, SeqMonotonic
    <2>3. requests' \in Seq(DOMAIN stmts')
      BY <1>0, <1>1, <2>1, <2>2, AppendProperties DEF ExecuteAsyncSQL
    <2> QED
      BY <1>0, <1>1, <2>1, <2>3 DEF ExecuteAsyncSQL, DbTypeOK
  <1>2. ASSUME NEW kind \in Kinds, ExecuteRsyncSQL(kind)
        PROVE  DbTypeOK'
    <2>1. /\ Len(stmts') = Len(stmts) + 1 /\ DOMAIN stmts' = 1 .. Len(stmts) + 1
          /\ stmts' \in Seq([kind : Kinds, mode : Modes])
      BY <1>2, StmtsKept DEF ExecuteRsyncSQL, Modes
    <2>2. requests' \in Seq(DOMAIN stmts')
      BY <1>0, <1>2, <2>1, SeqMonotonic DEF ExecuteRsyncSQL
    <2>3. Len(stmts') \in 1 .. MaxStmts
      BY <1>0, <1>2, <2>1 DEF ExecuteRsyncSQL
    <2>4. waiting' \in Rows /\ syncs' \subseteq Record
          /\ (main' = main \/ main' = [pc |-> "store", id |-> Len(stmts')])
      BY <1>0, <1>2, <2>3, SMTT(30) DEF ExecuteRsyncSQL, RowsOf, NoRows, Rows, Record, Answer
    <2>5. crossed' \in BOOLEAN
      BY <1>2 DEF ExecuteRsyncSQL
    <2>6. /\ main' \in [pc : {"free", "store"}, id : Rows]
          /\ main'.pc = "store" => main'.id \in DOMAIN stmts'
      BY <1>0, <2>1, <2>3, <2>4 DEF Rows
    <2>7. UNCHANGED <<results, answers, worker>>
      BY <1>2 DEF ExecuteRsyncSQL
    <2>8. worker.pc # "idle" => worker.id \in DOMAIN stmts'
      BY <1>0, <2>1
    <2> QED
      BY <1>0, <2>1, <2>2, <2>3, <2>4, <2>5, <2>6, <2>7, <2>8 DEF DbTypeOK
  <1>3. CASE RsyncStore
    <2>1. PICK r \in Rows : syncs' = syncs \cup {Answer(main.id, r)}
      BY <1>3 DEF RsyncStore
    <2>2. Answer(main.id, r) \in Record
      BY <1>0, <1>3 DEF RsyncStore, Answer, Record, Rows
    <2> QED
      BY <1>0, <1>3, <2>1, <2>2 DEF RsyncStore, DbTypeOK, Free, NoRows, Rows
  <1>4. CASE Update
    <2>1. answers' \in Seq(Record) /\ results' \in Seq(Record)
          /\ \A i \in DOMAIN results' : results'[i].rows # NoRows
      BY <1>4, UpdateMoves
    <2> QED
      BY <1>0, <1>4, <2>1 DEF Update, DbTypeOK
  <1>5. CASE WorkerPop
    <2>1. Head(requests) \in DOMAIN stmts /\ Tail(requests) \in Seq(DOMAIN stmts)
      BY <1>0, <1>5, HeadTailProperties DEF WorkerPop
    <2>2. worker' = [pc |-> "query", id |-> Head(requests), rows |-> NoRows]
      BY <1>5 DEF WorkerPop, Idle
    <2>3. Head(requests) \in Rows /\ NoRows \in Rows
      BY <1>0, <2>1 DEF NoRows, Rows
    <2>4. /\ worker' \in [pc : {"idle", "query", "store", "read"}, id : Rows, rows : Rows]
          /\ worker'.id \in DOMAIN stmts /\ worker'.pc = "query"
      BY <2>1, <2>2, <2>3
    <2>5. /\ requests' = Tail(requests)
          /\ UNCHANGED <<stmts, results, main, waiting, crossed, answers, syncs>>
      BY <1>5 DEF WorkerPop
    <2> QED
      BY <1>0, <2>1, <2>4, <2>5 DEF DbTypeOK
  <1>6. CASE WorkerQuery
    <2>1. worker.pc = "query" /\ worker.id \in DOMAIN stmts
      BY <1>0, <1>6 DEF WorkerQuery
    <2>2. \/ worker' = Idle /\ waiting' = waiting
          \/ worker' = [worker EXCEPT !.pc = "store"]
             /\ waiting' = RowsOf(stmts[worker.id].kind, worker.id)
      BY <1>6 DEF WorkerQuery
    <2>3. waiting' \in Rows
      BY <1>0, <2>1, <2>2 DEF RowsOf, NoRows, Rows
    <2>4. /\ worker' \in [pc : {"idle", "query", "store", "read"}, id : Rows, rows : Rows]
          /\ worker'.pc # "idle" => worker'.id \in DOMAIN stmts
          /\ worker'.pc # "read"
      <3>1. CASE worker' = Idle
        <4>1. worker' = [pc |-> "idle", id |-> 0, rows |-> 0]
          BY <3>1 DEF Idle, NoRows
        <4>2. 0 \in Rows
          BY DEF Rows
        <4> QED
          BY <4>1, <4>2
      <3>2. CASE worker' = [worker EXCEPT !.pc = "store"]
        BY <1>0, <2>1, <3>2
      <3> QED
        BY <2>2, <3>1, <3>2
    <2> QED
      BY <1>0, <1>6, <2>3, <2>4 DEF WorkerQuery, DbTypeOK
  <1>7. CASE WorkerStore
    <2>1. PICK r \in Rows :
             worker' = IF r = NoRows THEN Idle ELSE [worker EXCEPT !.pc = "read", !.rows = r]
      BY <1>7 DEF WorkerStore
    <2>2. /\ worker' \in [pc : {"idle", "query", "store", "read"}, id : Rows, rows : Rows]
          /\ worker'.pc # "idle" => worker'.id \in DOMAIN stmts
          /\ worker'.pc = "read" => worker'.rows # NoRows
      BY <1>0, <1>7, <2>1 DEF WorkerStore, Idle, NoRows, Rows
    <2>3. crossed' \in BOOLEAN
      BY <1>0, <1>7 DEF WorkerStore
    <2> QED
      BY <1>0, <1>7, <2>2, <2>3 DEF WorkerStore, DbTypeOK, NoRows, Rows
  <1>8. CASE WorkerRead
    <2>1. PICK r \in 0 .. Len(stmts) :
             results' = IF r = NoRows THEN results ELSE Append(results, Answer(worker.id, r))
      BY <1>8 DEF WorkerRead
    <2>2. r # NoRows => Answer(worker.id, r) \in Record /\ Answer(worker.id, r).rows # NoRows
      BY <1>0, <1>8 DEF WorkerRead, Answer, Record, Rows
    <2>3. results' \in Seq(Record) /\ \A i \in DOMAIN results' : results'[i].rows # NoRows
      <3>1. CASE r = NoRows
        BY <1>0, <2>1, <3>1
      <3>2. CASE r # NoRows
        <4> DEFINE a == Answer(worker.id, r)
        <4>1. a \in Record /\ a.rows # NoRows /\ results' = Append(results, a)
          BY <2>1, <2>2, <3>2
        <4> HIDE DEF a
        <4>2. /\ results' \in Seq(Record) /\ Len(results') = Len(results) + 1
              /\ \A i \in 1 .. Len(results) : results'[i] = results[i]
              /\ results'[Len(results) + 1] = a
          BY <1>0, <4>1, AppendProperties
        <4>3. DOMAIN results' = 1 .. Len(results) + 1 /\ DOMAIN results = 1 .. Len(results)
              /\ Len(results) \in Nat
          BY <1>0, <4>2, LenProperties
        <4>4. ASSUME NEW i \in DOMAIN results' PROVE results'[i].rows # NoRows
          <5>1. CASE i = Len(results) + 1
            BY <4>1, <4>2, <5>1
          <5>2. CASE i # Len(results) + 1
            <6>1. i \in DOMAIN results /\ results'[i] = results[i]
              BY <4>2, <4>3, <5>2
            <6> QED
              BY <1>0, <6>1
          <5> QED
            BY <5>1, <5>2
        <4> QED
          BY <4>2, <4>4
      <3> QED
        BY <3>1, <3>2
    <2> QED
      BY <1>0, <1>8, <2>3 DEF WorkerRead, DbTypeOK, Idle, NoRows, Rows
  <1>9. CASE UNCHANGED dbVars
    BY <1>0, <1>9 DEF dbVars, DbTypeOK
  <1>10. CASE WorkerSleep
    BY <1>9, <1>10 DEF WorkerSleep
  <1> QED
    BY <1>1, <1>2, <1>3, <1>4, <1>5, <1>6, <1>7, <1>8, <1>9, <1>10
       DEF DbNext, MainNext, WorkerNext

(* The worker lets a statement go without rows only after a crossing, or   *)
(* when it has none to give.                                               *)
LEMMA DropsKeepSelects ==
    ASSUME DbInv, Drops, ~crossed',
           WorkerQuery \/ WorkerStore \/ WorkerRead
    PROVE  ~WantsRows(worker.id)
  <1> SUFFICES ASSUME WantsRows(worker.id) PROVE FALSE
    OBVIOUS
  <1>0. DbTypeOK /\ ModesKept /\ crossed \in BOOLEAN
    BY DEF DbInv, DbTypeOK
  <1>1. stmts[worker.id].kind = "select" /\ stmts[worker.id].mode = "callback"
    BY DEF WantsRows
  <1>2. worker' = Idle
    BY DEF Drops
  <1>3. CASE WorkerQuery
    <2>1. ~crossed /\ worker.pc = "query" /\ main.pc = "free"
      BY <1>3 DEF WorkerQuery
    <2>2. waiting = NoRows
      BY <2>1 DEF DbInv, ConnectionHeld
    <2>3. PICK ok \in BOOLEAN :
             /\ QueryMayGo(stmts[worker.id].kind, crossed, ok)
             /\ IF ok /\ stmts[worker.id].mode = "callback"
                THEN worker' = [worker EXCEPT !.pc = "store"]
                ELSE worker' = Idle
      BY <1>3 DEF WorkerQuery
    <2>4. ok
      BY <1>1, <2>1, <2>2, <2>3 DEF QueryMayGo
    <2>5. worker'.pc = "store"
      BY <1>0, <1>1, <2>3, <2>4 DEF DbTypeOK
    <2> QED
      BY <1>2, <2>5 DEF Idle
  <1>4. CASE WorkerStore
    <2>1. worker.pc = "store" /\ ~crossed
      BY <1>0, <1>4 DEF WorkerStore
    <2>2. waiting = worker.id
      BY <1>1, <2>1 DEF DbInv, ConnectionHeld, IsSelect
    <2>3. worker.id \in DOMAIN stmts /\ worker.id # 0
      BY <1>0, <2>1, PipelineType DEF DbTypeOK
    <2>4. PICK r \in Rows :
             /\ StoreMayGive(r, crossed')
             /\ worker' = IF r = NoRows THEN Idle ELSE [worker EXCEPT !.pc = "read", !.rows = r]
      BY <1>4 DEF WorkerStore
    <2>5. r = worker.id
      BY <2>2, <2>4 DEF StoreMayGive
    <2>6. worker'.pc = "read"
      BY <1>0, <2>3, <2>4, <2>5 DEF NoRows, DbTypeOK
    <2> QED
      BY <1>2, <2>6 DEF Idle
  <1>5. CASE WorkerRead
    <2>1. worker.pc = "read" /\ ~crossed
      BY <1>5 DEF WorkerRead
    <2>2. worker.rows # NoRows
      BY <1>0, <2>1 DEF DbTypeOK
    <2>3. results' = Append(results, Answer(worker.id, worker.rows))
      BY <1>5, <2>1, <2>2 DEF WorkerRead
    <2>4. Answer(worker.id, worker.rows) \in Record
      BY <1>0, <2>1, LenProperties DEF DbTypeOK, Answer, Record, Rows
    <2>5. results' # results
      <3>1. Len(results') = Len(results) + 1 /\ Len(results) \in Nat
        BY <1>0, <2>3, <2>4, AppendProperties, LenProperties DEF DbTypeOK
      <3> QED
        BY <3>1
    <2> QED
      BY <2>5 DEF Drops
  <1> QED
    BY <1>3, <1>4, <1>5

(* What a step does to the pipeline. *)
LEMMA PipelineStep ==
    ASSUME DbInv, [DbNext]_dbVars
    PROVE  \/ /\ Pipeline' = Pipeline
              /\ \/ stmts' = stmts
                 \/ \E s \in [kind : Kinds, mode : {"sync"}] : stmts' = Append(stmts, s)
           \/ /\ Pipeline' = Append(Pipeline, Len(stmts) + 1)
              /\ \E s \in [kind : Kinds, mode : Modes] : stmts' = Append(stmts, s)
           \/ /\ Drops
              /\ crossed' \/ ~WantsRows(worker.id)
  <1>0. DbTypeOK /\ DbTypeOK'
    BY TypeStep DEF DbInv
  <1>1. ASSUME NEW kind \in Kinds, NEW mode \in Modes \ {"sync"}, ExecuteAsyncSQL(kind, mode)
        PROVE  /\ Pipeline' = Append(Pipeline, Len(stmts) + 1)
               /\ \E s \in [kind : Kinds, mode : Modes] : stmts' = Append(stmts, s)
    <2>1. Len(stmts') = Len(stmts) + 1
      BY <1>0, <1>1, StmtsKept DEF ExecuteAsyncSQL
    <2>2. Pipeline' = Append(Pipeline, Len(stmts) + 1)
      BY <1>0, <1>1, <2>1, PipelineExecute DEF ExecuteAsyncSQL
    <2> QED
      BY <1>1, <2>2 DEF ExecuteAsyncSQL
  <1>2. ASSUME NEW kind \in Kinds, ExecuteRsyncSQL(kind)
        PROVE  /\ Pipeline' = Pipeline
               /\ \E s \in [kind : Kinds, mode : {"sync"}] : stmts' = Append(stmts, s)
    BY <1>0, <1>2, PipelineSame DEF ExecuteRsyncSQL
  <1>3. CASE RsyncStore
    BY <1>0, <1>3, PipelineSame DEF RsyncStore
  <1>4. CASE Update
    BY <1>0, <1>4, UpdateMoves DEF Update
  <1>5. CASE WorkerPop
    BY <1>0, <1>5, PipelinePop DEF WorkerPop
  <1>6. CASE WorkerQuery
    <2>1. CASE worker' = Idle
      <3>1. Drops
        BY <1>6, <2>1 DEF WorkerQuery, Drops
      <3> QED
        BY <1>6, <3>1, DropsKeepSelects
    <2>2. CASE worker' = [worker EXCEPT !.pc = "store"]
      <3>1. worker'.id = worker.id /\ worker'.pc = "store"
        BY <1>0, <2>2 DEF DbTypeOK
      <3> QED
        BY <1>0, <1>6, <3>1, PipelineSame DEF WorkerQuery
    <2> QED
      BY <1>6, <2>1, <2>2 DEF WorkerQuery
  <1>7. CASE WorkerStore
    <2>1. CASE worker' = Idle
      <3>1. Drops
        BY <1>7, <2>1 DEF WorkerStore, Drops
      <3> QED
        BY <1>7, <3>1, DropsKeepSelects
    <2>2. CASE worker' # Idle
      <3>1. worker'.id = worker.id /\ worker'.pc = "read"
        BY <1>0, <1>7, <2>2 DEF DbTypeOK, WorkerStore
      <3> QED
        BY <1>0, <1>7, <3>1, PipelineSame DEF WorkerStore
    <2> QED
      BY <2>1, <2>2
  <1>8. CASE WorkerRead
    <2>0. worker' = Idle /\ worker.pc = "read" /\ UNCHANGED <<stmts, requests, answers>>
      BY <1>8 DEF WorkerRead
    <2>1. PICK r \in 0 .. Len(stmts) :
             results' = IF r = NoRows THEN results ELSE Append(results, Answer(worker.id, r))
      BY <1>8 DEF WorkerRead
    <2>2. CASE results' = results
      <3>1. Drops
        BY <2>0, <2>2 DEF Drops
      <3> QED
        BY <1>8, <3>1, DropsKeepSelects
    <2>3. CASE results' # results
      <3>1. r \in Rows
        BY <1>0, PipelineType, DbAssumption DEF DbTypeOK, Rows, DbAssumption
      <3>2. Pipeline' = Pipeline
        BY <1>0, <2>0, <2>1, <2>3, <3>1, PipelineRead
      <3> QED
        BY <2>0, <3>2
    <2> QED
      BY <2>2, <2>3
  <1>9. CASE UNCHANGED dbVars
    BY <1>0, <1>9, PipelineSame DEF dbVars
  <1>10. CASE WorkerSleep
    BY <1>9, <1>10 DEF WorkerSleep
  <1> QED
    BY <1>1, <1>2, <1>3, <1>4, <1>5, <1>6, <1>7, <1>8, <1>9, <1>10
       DEF DbNext, MainNext, WorkerNext

(* The order of the pipeline, and that every select with a callback stays  *)
(* in it.                                                                  *)
LEMMA OrderStep ==
    ASSUME DbInv, [DbNext]_dbVars
    PROVE  AnswersInOrder' /\ PipelineIds' /\ SelectKept'
  <1>0. /\ DbTypeOK /\ AnswersInOrder /\ PipelineIds /\ SelectKept
        /\ crossed => crossed'
        /\ crossed \in BOOLEAN
    <2>1. crossed => crossed'
      BY DEF DbNext, MainNext, WorkerNext, ExecuteAsyncSQL, ExecuteRsyncSQL, RsyncStore, Update,
             WorkerSleep, WorkerPop, WorkerQuery, WorkerStore, WorkerRead, dbVars
    <2> QED
      BY <2>1 DEF DbInv, DbTypeOK
  <1>1. /\ Pipeline \in Seq(Nat) /\ Len(stmts) \in Nat /\ DOMAIN stmts = 1 .. Len(stmts)
        /\ Increasing(Pipeline)
        /\ Len(Pipeline) \in Nat /\ DOMAIN Pipeline = 1 .. Len(Pipeline)
    <2>1. Increasing(Pipeline)
      BY <1>0 DEF AnswersInOrder, Increasing
    <2> QED
      BY <1>0, <2>1, PipelineType, LenProperties
  <1>2. ASSUME NEW s \in [kind : Kinds, mode : Modes], stmts' = Append(stmts, s)
        PROVE  /\ DOMAIN stmts' = 1 .. Len(stmts) + 1
               /\ \A id \in DOMAIN stmts : stmts'[id] = stmts[id]
               /\ stmts'[Len(stmts) + 1] = s
    BY <1>0, <1>2, StmtsKept
  <1>3. CASE /\ Pipeline' = Pipeline
             /\ \/ stmts' = stmts
                \/ \E s \in [kind : Kinds, mode : {"sync"}] : stmts' = Append(stmts, s)
    <2>1. AnswersInOrder'
      BY <1>0, <1>3 DEF AnswersInOrder
    <2>2. CASE stmts' = stmts
      BY <1>0, <1>3, <2>1, <2>2 DEF PipelineIds, SelectKept, WantsRows
    <2>3. ASSUME NEW s \in [kind : Kinds, mode : {"sync"}], stmts' = Append(stmts, s)
          PROVE  PipelineIds' /\ SelectKept'
      <3>1. s \in [kind : Kinds, mode : Modes] /\ s.mode = "sync"
        BY DEF Modes
      <3>2. /\ DOMAIN stmts' = 1 .. Len(stmts) + 1
            /\ \A id \in DOMAIN stmts : stmts'[id] = stmts[id]
            /\ stmts'[Len(stmts) + 1] = s
        BY <1>2, <2>3, <3>1
      <3>3. \A id \in DOMAIN stmts' : id \in DOMAIN stmts \/ id = Len(stmts) + 1
        BY <1>1, <3>2
      <3>4. PipelineIds'
        BY <1>0, <1>1, <1>3, <3>2 DEF PipelineIds
      <3>5. ASSUME NEW id \in DOMAIN stmts', WantsRows(id)'
            PROVE  (crossed \/ id \in ToSet(Pipeline))'
        <4>1. id # Len(stmts) + 1
          BY <3>1, <3>2, <3>5 DEF WantsRows
        <4>2. id \in DOMAIN stmts /\ WantsRows(id)
          BY <3>2, <3>3, <3>5, <4>1 DEF WantsRows
        <4> QED
          BY <1>0, <1>3, <4>2 DEF SelectKept
      <3> QED
        BY <3>4, <3>5 DEF SelectKept
    <2> QED
      BY <1>3, <2>1, <2>2, <2>3
  <1>4. CASE /\ Pipeline' = Append(Pipeline, Len(stmts) + 1)
             /\ \E s \in [kind : Kinds, mode : Modes] : stmts' = Append(stmts, s)
    <2>1. PICK s \in [kind : Kinds, mode : Modes] : stmts' = Append(stmts, s)
      BY <1>4
    <2>2. /\ DOMAIN stmts' = 1 .. Len(stmts) + 1
          /\ \A id \in DOMAIN stmts : stmts'[id] = stmts[id]
      BY <1>2, <2>1
    <2> DEFINE n == Len(stmts) + 1
               p == Append(Pipeline, n)
    <2>3. /\ p \in Seq(Nat) /\ Len(p) = Len(Pipeline) + 1
          /\ \A i \in 1 .. Len(Pipeline) : p[i] = Pipeline[i]
          /\ p[Len(Pipeline) + 1] = n
          /\ DOMAIN p = 1 .. Len(Pipeline) + 1
      <3>1. n \in Nat
        BY <1>1
      <3>2. /\ p \in Seq(Nat) /\ Len(p) = Len(Pipeline) + 1
            /\ \A i \in 1 .. Len(Pipeline) : p[i] = Pipeline[i]
            /\ p[Len(Pipeline) + 1] = n
        BY <1>1, <3>1, AppendProperties
      <3> QED
        BY <3>2, LenProperties
    <2>4. \A i \in DOMAIN Pipeline : Pipeline[i] \in 1 .. Len(stmts)
      BY <1>0, <1>1 DEF PipelineIds
    <2>5. Increasing(p)
      <3>1. \A i \in DOMAIN Pipeline : Pipeline[i] < n
        BY <1>1, <2>4
      <3> QED
        BY <1>1, <3>1, IncreasingAppend
    <2> HIDE DEF p
    <2>6. AnswersInOrder'
      <3>1. Pipeline' = p
        BY <1>4 DEF p
      <3> QED
        BY <2>5, <3>1 DEF AnswersInOrder, Increasing
    <2>7. ASSUME NEW i \in DOMAIN p PROVE p[i] \in 1 .. Len(stmts) + 1
      <3>1. CASE i = Len(Pipeline) + 1
        BY <1>1, <2>3, <3>1
      <3>2. CASE i # Len(Pipeline) + 1
        <4>1. i \in DOMAIN Pipeline /\ p[i] = Pipeline[i]
          BY <1>1, <2>3, <3>2
        <4> QED
          BY <1>1, <2>4, <4>1
      <3> QED
        BY <3>1, <3>2
    <2>8. PipelineIds'
      <3>1. Pipeline' = p
        BY <1>4 DEF p
      <3> QED
        BY <2>2, <2>7, <3>1 DEF PipelineIds
    <2>9. ToSet(Pipeline) \cup {n} \subseteq ToSet(p)
      <3>1. Len(Pipeline) + 1 \in DOMAIN p
        BY <1>1, <2>3
      <3>2. n \in ToSet(p)
        BY <2>3, <3>1 DEF ToSet
      <3>3. ASSUME NEW i \in DOMAIN Pipeline PROVE Pipeline[i] \in ToSet(p)
        <4>1. i \in DOMAIN p /\ p[i] = Pipeline[i]
          BY <1>1, <2>3
        <4> QED
          BY <4>1 DEF ToSet
      <3> QED
        BY <3>2, <3>3 DEF ToSet
    <2>10. ASSUME NEW id \in DOMAIN stmts', WantsRows(id)'
           PROVE  (crossed \/ id \in ToSet(Pipeline))'
      <3>0. Pipeline' = p
        BY <1>4 DEF p
      <3>1. CASE id = n
        BY <2>9, <3>0, <3>1
      <3>2. CASE id # n
        <4>1. id \in DOMAIN stmts
          BY <1>1, <2>2, <3>2
        <4>2. WantsRows(id)
          BY <2>2, <2>10, <4>1 DEF WantsRows
        <4> QED
          BY <1>0, <2>9, <3>0, <4>1, <4>2 DEF SelectKept
      <3> QED
        BY <3>1, <3>2
    <2> QED
      BY <2>6, <2>8, <2>10 DEF SelectKept
  <1>5. CASE Drops /\ (crossed' \/ ~WantsRows(worker.id))
    <2> DEFINE l == (Taken \o <<worker.id>>) \o requests
               m == Taken \o requests
    <2>1. Pipeline = l /\ Pipeline' = m
      BY <1>0, <1>5, PipelineDrop
    <2>2. /\ m \in Seq(Nat)
          /\ Increasing(l) => Increasing(m)
          /\ \A i \in DOMAIN m : m[i] \in ToSet(l)
          /\ ToSet(l) \subseteq ToSet(m) \cup {worker.id}
      BY <1>0, PipelineType, DropOne
    <2> HIDE DEF l, m
    <2>3. stmts' = stmts
      BY <1>5 DEF Drops
    <2>4. AnswersInOrder'
      BY <1>1, <2>1, <2>2 DEF AnswersInOrder, Increasing
    <2>5. PipelineIds'
      <3>1. \A x \in ToSet(l) : x \in DOMAIN stmts
        BY <1>0, <2>1 DEF PipelineIds, ToSet
      <3> QED
        BY <2>1, <2>2, <2>3, <3>1 DEF PipelineIds
    <2>6. SelectKept'
      BY <1>0, <1>5, <2>1, <2>2, <2>3 DEF SelectKept, WantsRows
    <2> QED
      BY <2>4, <2>5, <2>6
  <1> QED
    BY <1>3, <1>4, <1>5, PipelineStep

LEMMA StmtsGrow ==
    ASSUME DbInv, [DbNext]_dbVars
    PROVE  /\ Len(stmts) \in Nat /\ DOMAIN stmts = 1 .. Len(stmts)
           /\ DOMAIN stmts \subseteq DOMAIN stmts'
           /\ \A id \in DOMAIN stmts : stmts'[id] = stmts[id]
           /\ crossed => crossed'
           /\ crossed \in BOOLEAN
  <1>1. DbTypeOK
    BY DEF DbInv
  <1>2. crossed => crossed'
    BY DEF DbNext, MainNext, WorkerNext, ExecuteAsyncSQL, ExecuteRsyncSQL, RsyncStore, Update,
           WorkerSleep, WorkerPop, WorkerQuery, WorkerStore, WorkerRead, dbVars
  <1>3. stmts' = stmts \/ \E s \in [kind : Kinds, mode : Modes] : stmts' = Append(stmts, s)
    <2>1. \A s \in [kind : Kinds, mode : {"sync"}] : s \in [kind : Kinds, mode : Modes]
      BY DEF Modes
    <2> QED
      BY <2>1, PipelineStep DEF Drops
  <1>4. DOMAIN stmts \subseteq DOMAIN stmts' /\ \A id \in DOMAIN stmts : stmts'[id] = stmts[id]
    BY <1>1, <1>3, StmtsKept
  <1> QED
    BY <1>1, <1>2, <1>4, PipelineType DEF DbTypeOK

LEMMA ModesStep ==
    ASSUME DbInv, [DbNext]_dbVars
    PROVE  ModesKept'
  <1>0. /\ DbTypeOK /\ ModesKept
        /\ worker.pc # "idle" => worker.id \in DOMAIN stmts
        /\ main.pc = "store" => main.id \in DOMAIN stmts
        /\ \A id \in DOMAIN stmts : stmts'[id] = stmts[id]
        /\ Len(stmts) \in Nat /\ DOMAIN stmts = 1 .. Len(stmts)
    BY StmtsGrow DEF DbInv, DbTypeOK
  <1>1. CASE UNCHANGED <<worker, main>>
    BY <1>0, <1>1 DEF ModesKept, IsCallback
  <1>2. ASSUME NEW kind \in Kinds, ExecuteRsyncSQL(kind)
        PROVE  ModesKept'
    <2>1. \/ main' = main
          \/ main' = [pc |-> "store", id |-> Len(stmts')]
      BY <1>2 DEF ExecuteRsyncSQL
    <2>2. Len(stmts') = Len(stmts) + 1 /\ stmts'[Len(stmts) + 1].mode = "sync"
      <3> DEFINE s == [kind |-> kind, mode |-> "sync"]
      <3>1. s \in [kind : Kinds, mode : Modes] /\ stmts' = Append(stmts, s) /\ s.mode = "sync"
        BY <1>2 DEF ExecuteRsyncSQL, Modes
      <3> HIDE DEF s
      <3> QED
        BY <1>0, <3>1, StmtsKept
    <2>3. worker' = worker
      BY <1>2 DEF ExecuteRsyncSQL
    <2> QED
      BY <1>0, <2>1, <2>2, <2>3 DEF ModesKept, IsCallback
  <1>3. CASE RsyncStore
    BY <1>0, <1>3 DEF RsyncStore, ModesKept, IsCallback, Free
  <1>4. CASE WorkerPop
    BY <1>0, <1>4 DEF WorkerPop, ModesKept, IsCallback, Idle
  <1>5. CASE WorkerQuery
    <2>1. worker.pc = "query"
      BY <1>5 DEF WorkerQuery
    <2>2. \/ worker' = Idle
          \/ worker' = [worker EXCEPT !.pc = "store"] /\ stmts[worker.id].mode = "callback"
      BY <1>5 DEF WorkerQuery
    <2>3. worker'.pc \in {"store", "read"} => worker'.id = worker.id /\ IsCallback(worker.id)
      BY <1>0, <2>2 DEF Idle, IsCallback, DbTypeOK
    <2> QED
      BY <1>0, <1>5, <2>3 DEF WorkerQuery, ModesKept, IsCallback
  <1>6. CASE WorkerStore
    <2>1. worker.pc = "store"
      BY <1>6 DEF WorkerStore
    <2>2. worker' = Idle \/ worker'.id = worker.id
      BY <1>0, <1>6 DEF WorkerStore, DbTypeOK
    <2>3. worker'.pc \in {"store", "read"} => worker'.id = worker.id
      BY <2>2 DEF Idle
    <2> QED
      BY <1>0, <1>6, <2>1, <2>3 DEF WorkerStore, ModesKept, IsCallback
  <1>7. CASE WorkerRead
    BY <1>0, <1>7 DEF WorkerRead, ModesKept, IsCallback, Idle
  <1> QED
    BY <1>1, <1>2, <1>3, <1>4, <1>5, <1>6, <1>7
       DEF DbNext, MainNext, WorkerNext, ExecuteAsyncSQL, Update, WorkerSleep, dbVars

(* Until the threads cross, rows wait only for the one about to fetch them.*)
LEMMA ConnectionStep ==
    ASSUME DbInv, [DbNext]_dbVars, ~crossed'
    PROVE  ConnectionHeld'
  <1>0. /\ DbTypeOK /\ ModesKept /\ ConnectionHeld /\ ~crossed
        /\ worker.pc # "idle" => worker.id \in DOMAIN stmts
        /\ main.pc = "store" => main.id \in DOMAIN stmts
        /\ \A id \in DOMAIN stmts : stmts'[id] = stmts[id]
        /\ Len(stmts) \in Nat /\ DOMAIN stmts = 1 .. Len(stmts)
        /\ main.pc \in {"free", "store"}
    BY StmtsGrow DEF DbInv, DbTypeOK
  <1>1. CASE UNCHANGED <<worker, main, waiting>>
    BY <1>0, <1>1 DEF ConnectionHeld, IsSelect
  <1>2. ASSUME NEW kind \in Kinds, ExecuteRsyncSQL(kind)
        PROVE  ConnectionHeld'
    <2>0. main.pc = "free" /\ worker' = worker /\ ~(worker.pc = "read")
      BY <1>0, <1>2 DEF ExecuteRsyncSQL
    <2>1. PICK ok \in BOOLEAN :
             /\ QueryMayGo(kind, FALSE, ok)
             /\ IF ok THEN /\ waiting' = RowsOf(kind, Len(stmts'))
                           /\ main' = [pc |-> "store", id |-> Len(stmts')]
                      ELSE UNCHANGED <<waiting, main>>
      BY <1>2, <2>0 DEF ExecuteRsyncSQL, QueryMayGo
    <2>2. CASE ~ok
      BY <1>0, <2>0, <2>1, <2>2 DEF ConnectionHeld, IsSelect
    <2>3. CASE ok
      <3>1. waiting = NoRows
        BY <2>1, <2>3 DEF QueryMayGo
      <3>2. ~(worker.pc = "store" /\ IsSelect(worker.id))
        <4>1. worker.pc # "idle" => worker.id # 0
          BY <1>0
        <4> QED
          BY <1>0, <3>1, <4>1 DEF ConnectionHeld, NoRows
      <3>3. Len(stmts') = Len(stmts) + 1 /\ stmts'[Len(stmts')].kind = kind
        <4> DEFINE s == [kind |-> kind, mode |-> "sync"]
        <4>1. s \in [kind : Kinds, mode : Modes] /\ stmts' = Append(stmts, s) /\ s.kind = kind
          BY <1>2 DEF ExecuteRsyncSQL, Modes
        <4> HIDE DEF s
        <4> QED
          BY <1>0, <4>1, StmtsKept
      <3>4. ~(worker'.pc = "store" /\ IsSelect(worker.id)')
        BY <1>0, <2>0, <3>2 DEF IsSelect
      <3>5. main'.pc = "store" /\ main'.id = Len(stmts')
        BY <2>1, <2>3
      <3>6. waiting' # NoRows => waiting' = main'.id /\ IsSelect(main.id)'
        BY <2>1, <2>3, <3>3, <3>5 DEF RowsOf, IsSelect
      <3> QED
        BY <3>4, <3>5, <3>6 DEF ConnectionHeld
    <2> QED
      BY <2>2, <2>3
  <1>3. CASE RsyncStore
    <2>1. main.pc = "store" /\ waiting' = NoRows /\ worker' = worker /\ stmts' = stmts
      BY <1>3 DEF RsyncStore
    <2>2. ~(worker.pc = "store" /\ IsSelect(worker.id))
      BY <1>0, <2>1 DEF ConnectionHeld
    <2> QED
      BY <2>1, <2>2 DEF ConnectionHeld, IsSelect
  <1>4. CASE WorkerPop
    <2>1. worker.pc = "idle" /\ worker'.pc = "query" /\ UNCHANGED <<main, waiting, stmts>>
      BY <1>4 DEF WorkerPop, Idle
    <2> QED
      BY <1>0, <2>1 DEF ConnectionHeld, IsSelect
  <1>5. CASE WorkerQuery
    <2>1. worker.pc = "query" /\ main.pc = "free" /\ UNCHANGED <<main, stmts>>
      BY <1>5 DEF WorkerQuery
    <2>2. \/ worker' = Idle /\ waiting' = waiting
          \/ /\ worker' = [worker EXCEPT !.pc = "store"]
             /\ waiting' = RowsOf(stmts[worker.id].kind, worker.id)
      BY <1>5 DEF WorkerQuery
    <2>3. CASE worker' = Idle /\ waiting' = waiting
      BY <1>0, <2>1, <2>3 DEF ConnectionHeld, IsSelect, Idle
    <2>4. CASE /\ worker' = [worker EXCEPT !.pc = "store"]
               /\ waiting' = RowsOf(stmts[worker.id].kind, worker.id)
      <3>1. worker'.pc = "store" /\ worker'.id = worker.id
        BY <1>0, <2>4 DEF DbTypeOK
      <3> QED
        BY <2>1, <2>4, <3>1 DEF ConnectionHeld, IsSelect, RowsOf
    <2> QED
      BY <2>2, <2>3, <2>4
  <1>6. CASE WorkerStore
    <2>1. waiting' = NoRows /\ stmts' = stmts
      BY <1>6 DEF WorkerStore
    <2>2. worker'.pc # "store"
      BY <1>0, <1>6 DEF WorkerStore, Idle, DbTypeOK
    <2> QED
      BY <2>1, <2>2 DEF ConnectionHeld
  <1>7. CASE WorkerRead
    <2>1. worker.pc = "read" /\ worker'.pc = "idle" /\ UNCHANGED <<main, waiting, stmts>>
      BY <1>7 DEF WorkerRead, Idle
    <2> QED
      BY <1>0, <2>1 DEF ConnectionHeld, IsSelect
  <1> QED
    BY <1>1, <1>2, <1>3, <1>4, <1>5, <1>6, <1>7
       DEF DbNext, MainNext, WorkerNext, ExecuteAsyncSQL, Update, WorkerSleep, dbVars

(* What has been fetched is for statements before the one in hand. *)
LEMMA FetchedBefore ==
    ASSUME DbInv, worker.pc \in {"query", "store"}
    PROVE  /\ Fetched = answers \o results
           /\ \A i \in DOMAIN Fetched : Fetched[i].id < worker.id
  <1>0. DbTypeOK /\ AnswersInOrder
    BY DEF DbInv
  <1>1. Fetched = answers \o results
    BY <1>0, FetchedType, ConcatEmptySeq DEF Fetched
  <1>2. /\ Fetched \in Seq(Record) /\ Ids(Fetched) = Taken
        /\ DOMAIN Fetched = 1 .. Len(Fetched) /\ Len(Fetched) \in Nat
    BY <1>0, <1>1, FetchedType, LenProperties
  <1>3. /\ Taken \in Seq(Nat) /\ Len(Taken) = Len(Fetched)
        /\ \A i \in 1 .. Len(Fetched) : Taken[i] = Fetched[i].id
    BY <1>2, IdsProperties
  <1> DEFINE h == <<worker.id>>
             t == Taken \o h
  <1>4. InHand = h
    BY DEF InHand
  <1>5. h \in Seq(Nat) /\ Len(h) = 1 /\ h[1] = worker.id
    BY <1>0, PipelineType
  <1>6. Pipeline = t \o requests /\ requests \in Seq(Nat)
    BY <1>0, <1>4, PipelineType
  <1> HIDE DEF h
  <1>7. /\ t \in Seq(Nat) /\ Len(t) = Len(Taken) + 1
        /\ \A i \in 1 .. Len(Taken) + 1 :
              t[i] = IF i <= Len(Taken) THEN Taken[i] ELSE h[i - Len(Taken)]
    <2>1. /\ t \in Seq(Nat) /\ Len(t) = Len(Taken) + Len(h)
          /\ \A i \in 1 .. Len(Taken) + Len(h) :
                t[i] = IF i <= Len(Taken) THEN Taken[i] ELSE h[i - Len(Taken)]
      <3>1. Taken \in Seq(Nat) /\ h \in Seq(Nat)
        BY <1>3, <1>5
      <3> QED
        BY <3>1, ConcatProperties
    <2> HIDE DEF t
    <2> QED
      BY <1>2, <1>3, <1>5, <2>1
  <1> HIDE DEF t
  <1>8. ASSUME NEW k, k = Len(Taken) + 1 PROVE t[k] = worker.id
    <2>1. k \in 1 .. Len(Taken) + 1 /\ ~(k <= Len(Taken)) /\ k - Len(Taken) = 1
      BY <1>2, <1>3, <1>8
    <2> QED
      BY <1>5, <1>7, <2>1
  <1>9. /\ Pipeline \in Seq(Nat) /\ Len(Pipeline) = Len(t) + Len(requests)
        /\ \A i \in 1 .. Len(t) + Len(requests) :
              Pipeline[i] = IF i <= Len(t) THEN t[i] ELSE requests[i - Len(t)]
        /\ Len(requests) \in Nat
        /\ DOMAIN Pipeline = 1 .. Len(Pipeline)
    <2>1. /\ Pipeline \in Seq(Nat) /\ Len(Pipeline) = Len(t) + Len(requests)
          /\ \A i \in 1 .. Len(t) + Len(requests) :
                Pipeline[i] = IF i <= Len(t) THEN t[i] ELSE requests[i - Len(t)]
      BY <1>6, <1>7, ConcatProperties
    <2> QED
      BY <1>6, <2>1, LenProperties
  <1>10. ASSUME NEW i \in DOMAIN Fetched PROVE Fetched[i].id < worker.id
    <2> DEFINE k == Len(Taken) + 1
    <2>1. i \in 1 .. Len(Taken) /\ i < k /\ k = Len(t) /\ k \in Nat
      BY <1>2, <1>3, <1>7
    <2>2. i \in DOMAIN Pipeline /\ k \in DOMAIN Pipeline
      BY <1>9, <2>1
    <2>3. Pipeline[k] = worker.id
      BY <1>8, <1>9, <2>1, <2>2
    <2>4. Pipeline[i] = Fetched[i].id
      <3>1. i \in 1 .. Len(t) + Len(requests) /\ i <= Len(t)
            /\ i \in 1 .. Len(Taken) + 1 /\ i <= Len(Taken)
        <4>1. Len(t) = Len(Taken) + 1 /\ Len(Taken) \in Nat /\ Len(requests) \in Nat
          BY <1>2, <1>3, <1>7, <1>9
        <4> QED
          BY <2>1, <4>1
      <3>2. Pipeline[i] = t[i] /\ t[i] = Taken[i]
        BY <1>7, <1>9, <3>1
      <3> QED
        BY <1>2, <1>3, <3>2
    <2> HIDE DEF k
    <2>5. Pipeline[i] < Pipeline[k]
      BY <1>0, <2>1, <2>2 DEF AnswersInOrder
    <2> QED
      BY <2>3, <2>4, <2>5
  <1> QED
    BY <1>1, <1>10

(* What the worker fetches.  Until the threads cross, the sequence of what *)
(* has been fetched only grows, by the rows that waited.                   *)
FetchesWaiting ==
    /\ WorkerStore /\ waiting # NoRows
    /\ Fetched' = Append(Fetched, Answer(worker.id, waiting))

LEMMA FetchedStep ==
    ASSUME DbInv, [DbNext]_dbVars, ~crossed'
    PROVE  Fetched' = Fetched \/ FetchesWaiting
  <1>0. DbTypeOK /\ ~crossed /\ answers \o results \in Seq(Record)
    BY StmtsGrow, FetchedType DEF DbInv
  <1>1. CASE UNCHANGED <<answers, results, worker>>
    BY <1>1 DEF Fetched
  <1>2. CASE Update
    <2>1. answers' \o results' = answers \o results /\ worker' = worker
      BY <1>0, <1>2, UpdateMoves DEF Update
    <2> QED
      BY <2>1 DEF Fetched
  <1>3. CASE WorkerPop
    <2>1. worker.pc = "idle" /\ worker'.pc = "query" /\ UNCHANGED <<answers, results>>
      BY <1>3 DEF WorkerPop, Idle
    <2> QED
      BY <2>1 DEF Fetched
  <1>4. CASE WorkerQuery
    <2>1. worker.pc = "query" /\ UNCHANGED <<answers, results>>
          /\ (worker' = Idle \/ worker' = [worker EXCEPT !.pc = "store"])
      BY <1>4 DEF WorkerQuery
    <2>2. worker'.pc # "read"
      BY <1>0, <2>1 DEF Idle, DbTypeOK
    <2> QED
      BY <2>1, <2>2 DEF Fetched
  <1>5. CASE WorkerStore
    <2>1. worker.pc = "store" /\ UNCHANGED <<answers, results>>
      BY <1>5 DEF WorkerStore
    <2>2. worker' = IF waiting = NoRows THEN Idle
                    ELSE [worker EXCEPT !.pc = "read", !.rows = waiting]
      BY <1>5 DEF WorkerStore, StoreMayGive
    <2>3. Fetched = answers \o results
      BY <2>1, FetchedBefore
    <2>4. CASE waiting = NoRows
      <3>1. worker'.pc # "read"
        BY <2>2, <2>4 DEF Idle
      <3>2. Fetched' = (answers \o results) \o <<>>
        BY <2>1, <3>1 DEF Fetched
      <3> QED
        BY <1>0, <2>3, <3>2, ConcatEmptySeq
    <2>5. CASE waiting # NoRows
      <3>1. worker'.pc = "read" /\ worker'.id = worker.id /\ worker'.rows = waiting
        BY <1>0, <2>2, <2>5 DEF DbTypeOK
      <3>2. Fetched' = (answers \o results) \o <<Answer(worker.id, waiting)>>
        BY <2>1, <3>1 DEF Fetched
      <3>3. Answer(worker.id, waiting) \in Record
        BY <1>0, <2>1, <2>5, LenProperties DEF DbTypeOK, Answer, Record, Rows
      <3>4. Fetched' = Append(Fetched, Answer(worker.id, waiting))
        BY <1>0, <2>3, <3>2, <3>3, AppendIsConcat
      <3> QED
        BY <1>5, <2>5, <3>4 DEF FetchesWaiting
    <2> QED
      BY <2>4, <2>5
  <1>6. CASE WorkerRead
    <2>1. /\ worker.pc = "read" /\ worker'.pc # "read" /\ UNCHANGED answers
          /\ worker.rows # NoRows
      BY <1>0, <1>6 DEF WorkerRead, Idle, DbTypeOK
    <2> DEFINE a == Answer(worker.id, worker.rows)
    <2>2. results' = Append(results, a)
      BY <1>0, <1>6, <2>1 DEF WorkerRead
    <2>3. a \in Record
      BY <1>0, <2>1, LenProperties DEF DbTypeOK, Answer, Record, Rows
    <2>4. Fetched = (answers \o results) \o <<a>>
      BY <2>1 DEF Fetched
    <2>5. Fetched' = (answers \o results') \o <<>>
      BY <2>1 DEF Fetched
    <2> HIDE DEF a
    <2>6. answers \in Seq(Record) /\ results \in Seq(Record) /\ <<a>> \in Seq(Record)
      BY <1>0, <2>3 DEF DbTypeOK
    <2>7. results' = results \o <<a>>
      BY <2>2, <2>3, <2>6, AppendIsConcat
    <2>8. answers \o (results \o <<a>>) = (answers \o results) \o <<a>>
      BY <2>6, ConcatAssociative
    <2>9. (answers \o results) \o <<a>> \in Seq(Record)
      BY <1>0, <2>6, ConcatProperties
    <2>10. ((answers \o results) \o <<a>>) \o <<>> = (answers \o results) \o <<a>>
      BY <2>9, ConcatEmptySeq
    <2> QED
      BY <2>4, <2>5, <2>7, <2>8, <2>10
  <1> QED
    BY <1>1, <1>2, <1>3, <1>4, <1>5, <1>6
       DEF DbNext, MainNext, WorkerNext, ExecuteAsyncSQL, ExecuteRsyncSQL, RsyncStore,
           WorkerSleep, dbVars

(* A synchronous statement returns once, and with its own rows or none. *)
LEMMA SyncsStep ==
    ASSUME DbInv, [DbNext]_dbVars, ~crossed'
    PROVE  /\ SyncsFresh'
           /\ \A a \in syncs' : a.rows \in {NoRows, a.id}
           /\ \A a \in syncs' : a \in syncs \/ a.rows \in {NoRows, waiting}
  <1>0. /\ DbTypeOK /\ ConnectionHeld /\ SyncsFresh /\ ~crossed
        /\ \A a \in syncs : a.rows \in {NoRows, a.id}
        /\ main.pc = "store" => main.id \in DOMAIN stmts
        /\ DOMAIN stmts \subseteq DOMAIN stmts'
        /\ Len(stmts) \in Nat /\ DOMAIN stmts = 1 .. Len(stmts)
    BY StmtsGrow DEF DbInv, DbTypeOK, RowsReachOneReader
  <1>1. CASE UNCHANGED <<syncs, main>>
    BY <1>0, <1>1 DEF SyncsFresh
  <1>2. ASSUME NEW kind \in Kinds, ExecuteRsyncSQL(kind)
        PROVE  /\ SyncsFresh'
               /\ \A a \in syncs' : a.rows \in {NoRows, a.id}
               /\ \A a \in syncs' : a \in syncs \/ a.rows \in {NoRows, waiting}
    <2>1. \/ syncs' = syncs /\ main' = [pc |-> "store", id |-> Len(stmts')]
          \/ syncs' = syncs \cup {Answer(Len(stmts'), NoRows)} /\ main' = main
      BY <1>2 DEF ExecuteRsyncSQL
    <2>2. main.pc = "free" /\ Len(stmts') = Len(stmts) + 1 /\ Len(stmts') \in DOMAIN stmts'
      <3> DEFINE s == [kind |-> kind, mode |-> "sync"]
      <3>1. s \in [kind : Kinds, mode : Modes] /\ stmts' = Append(stmts, s)
        BY <1>2 DEF ExecuteRsyncSQL, Modes
      <3> HIDE DEF s
      <3>2. main.pc = "free"
        BY <1>2 DEF ExecuteRsyncSQL
      <3> QED
        BY <1>0, <3>1, <3>2, StmtsKept
    <2>3. \A a \in syncs : a.id # Len(stmts) + 1
      BY <1>0 DEF SyncsFresh
    <2>4. Answer(Len(stmts'), NoRows).id = Len(stmts') /\ Answer(Len(stmts'), NoRows).rows = NoRows
      BY DEF Answer
    <2> QED
      BY <1>0, <2>1, <2>2, <2>3, <2>4 DEF SyncsFresh
  <1>3. CASE RsyncStore
    <2>1. main.pc = "store" /\ main'.pc = "free" /\ stmts' = stmts
          /\ syncs' = syncs \cup {Answer(main.id, waiting)}
      BY <1>0, <1>3 DEF RsyncStore, Free, StoreMayGive
    <2>2. waiting \in {NoRows, main.id}
      BY <1>0, <2>1 DEF ConnectionHeld
    <2>3. Answer(main.id, waiting).id = main.id /\ Answer(main.id, waiting).rows = waiting
      BY DEF Answer
    <2> QED
      BY <1>0, <2>1, <2>2, <2>3 DEF SyncsFresh
  <1> QED
    BY <1>1, <1>2, <1>3
       DEF DbNext, MainNext, WorkerNext, ExecuteAsyncSQL, Update,
           WorkerSleep, WorkerPop, WorkerQuery, WorkerStore, WorkerRead, dbVars

(* Where the rows that wait come from. *)
LEMMA WaitingStep ==
    ASSUME DbInv, [DbNext]_dbVars
    PROVE  \/ waiting' = waiting \/ waiting' = NoRows
           \/ waiting' = Len(stmts) + 1
           \/ /\ worker.pc = "query" /\ waiting' = worker.id
              /\ IsSelect(worker.id) /\ IsCallback(worker.id)
  <1>0. DbTypeOK
    BY DEF DbInv
  <1>1. ASSUME NEW kind \in Kinds, ExecuteRsyncSQL(kind)
        PROVE  waiting' \in {waiting, NoRows, Len(stmts) + 1}
    <2> DEFINE s == [kind |-> kind, mode |-> "sync"]
    <2>1. s \in [kind : Kinds, mode : Modes] /\ stmts' = Append(stmts, s)
      BY <1>1 DEF ExecuteRsyncSQL, Modes
    <2> HIDE DEF s
    <2>2. Len(stmts') = Len(stmts) + 1
      BY <1>0, <2>1, StmtsKept
    <2> QED
      BY <1>1, <2>2 DEF ExecuteRsyncSQL, RowsOf
  <1>2. CASE WorkerQuery
    BY <1>2 DEF WorkerQuery, RowsOf, IsSelect, IsCallback
  <1> QED
    BY <1>1, <1>2
       DEF DbNext, MainNext, WorkerNext, ExecuteAsyncSQL, RsyncStore, Update,
           WorkerSleep, WorkerPop, WorkerStore, WorkerRead, dbVars

(* Until the threads cross, no rows are fetched twice, and a select gets   *)
(* its own.                                                                *)
LEMMA RowsStep ==
    ASSUME DbInv, [DbNext]_dbVars
    PROVE  (~crossed => RowsFresh)' /\ RowsReachOneReader'
  <1> SUFFICES ASSUME ~crossed'
               PROVE  RowsFresh' /\ RowsReachOneReader'
    BY DEF RowsReachOneReader
  <1> DEFINE Own(a) == IF stmts[a.id].kind = "select"
                       THEN a.rows = a.id
                       ELSE /\ stmts[a.rows].mode = "sync"
                            /\ Answer(a.rows, a.rows) \notin syncs
             Good(a) == /\ a.rows \in DOMAIN stmts /\ a.id \in DOMAIN stmts
                        /\ IsCallback(a.id)
  <1>0. /\ DbTypeOK /\ ModesKept /\ ConnectionHeld /\ RowsFresh /\ SyncsFresh /\ ~crossed
        /\ RowsReachOneReader
        /\ DOMAIN stmts \subseteq DOMAIN stmts'
        /\ \A id \in DOMAIN stmts : stmts'[id] = stmts[id]
        /\ Len(stmts) \in Nat /\ DOMAIN stmts = 1 .. Len(stmts)
    BY StmtsGrow DEF DbInv
  <1>1. \A i \in DOMAIN Fetched :
           Good(Fetched[i]) /\ Own(Fetched[i]) /\ Fetched[i].rows # waiting
    BY <1>0 DEF RowsFresh, RowsReachOneReader
  <1>2. ASSUME NEW a \in Record, Good(a), Own(a), a.rows # waiting
        PROVE  (Good(a) /\ Own(a))'
    <2>1. Good(a)'
      BY <1>0, <1>2 DEF IsCallback
    <2>2. CASE stmts[a.id].kind = "select"
      BY <1>0, <1>2, <2>1, <2>2
    <2>3. CASE stmts[a.id].kind # "select"
      <3>1. stmts'[a.rows].mode = "sync" /\ stmts'[a.id].kind # "select"
        BY <1>0, <1>2, <2>3
      <3>2. Answer(a.rows, a.rows) \notin syncs'
        <4> DEFINE b == Answer(a.rows, a.rows)
        <4>1. b.rows = a.rows /\ a.rows # NoRows /\ b \notin syncs
          BY <1>0, <1>2, <2>3 DEF Answer, NoRows
        <4> HIDE DEF b
        <4>2. b \notin syncs'
          BY <1>2, <4>1, SyncsStep
        <4> QED
          BY <4>2 DEF b
      <3> QED
        BY <2>1, <3>1, <3>2
    <2> QED
      BY <2>2, <2>3
  <1>3. /\ Fetched \in Seq(Record)
        /\ DOMAIN Fetched = 1 .. Len(Fetched) /\ Len(Fetched) \in Nat
        /\ \A i \in DOMAIN Fetched : Fetched[i] \in Record
    <2>1. Fetched \in Seq(Record)
      BY <1>0, FetchedType
    <2> QED
      BY <2>1, LenProperties, ElementOfSeq
  <1>4. \A i, j \in DOMAIN Fetched : i # j => Fetched[i].rows # Fetched[j].rows
    BY <1>0 DEF RowsReachOneReader
  <1>5. ASSUME NEW i \in DOMAIN Fetched
        PROVE  Fetched[i].rows # waiting'
    <2> DEFINE a == Fetched[i]
    <2>1. Good(a) /\ Own(a) /\ a.rows # waiting /\ a.rows # NoRows /\ a.rows # Len(stmts) + 1
      BY <1>0, <1>1 DEF NoRows
    <2>2. CASE /\ worker.pc = "query" /\ waiting' = worker.id
               /\ IsSelect(worker.id) /\ IsCallback(worker.id)
      <3>1. a.id < worker.id /\ a.id \in Nat /\ worker.id \in Nat
        BY <1>0, <2>1, <2>2, FetchedBefore, PipelineType
           DEF DbInv
      <3>2. stmts[worker.id].mode # "sync"
        BY <2>2 DEF IsCallback
      <3>3. a.rows # worker.id
        BY <2>1, <3>1, <3>2
      <3> QED
        BY <2>2, <3>3
    <2> QED
      BY <2>1, <2>2, WaitingStep
  <1>6. CASE Fetched' = Fetched
    <2>1. \A i \in DOMAIN Fetched' : Fetched'[i] = Fetched[i] /\ i \in DOMAIN Fetched
      BY <1>6
    <2>2. ASSUME NEW i \in DOMAIN Fetched PROVE (Good(Fetched[i]) /\ Own(Fetched[i]))'
      <3>1. PICK a \in Record : a = Fetched[i]
        BY <1>3
      <3>2. (Good(a) /\ Own(a))'
        BY <1>1, <1>2, <3>1
      <3>3. Fetched'[i] = a
        BY <1>6, <3>1
      <3> QED
        BY <3>2, <3>3 DEF IsCallback
    <2>3. RowsFresh'
      BY <1>5, <2>1, <2>2, <1>6 DEF RowsFresh
    <2>4. RowsReachOneReader'
      BY <1>4, <1>6, <2>1, <2>2, SyncsStep DEF RowsReachOneReader
    <2> QED
      BY <2>3, <2>4
  <1>7. CASE FetchesWaiting
    <2> DEFINE b == Answer(worker.id, waiting)
    <2>1. /\ worker.pc = "store" /\ waiting # NoRows /\ waiting' = NoRows
          /\ stmts' = stmts /\ syncs' = syncs
          /\ Fetched' = Append(Fetched, b)
      BY <1>7 DEF FetchesWaiting, WorkerStore
    <2>2. b.id = worker.id /\ b.rows = waiting
      BY DEF Answer
    <2>3. /\ worker.id \in DOMAIN stmts
          /\ main.pc = "store" => main.id \in DOMAIN stmts
      BY <1>0, <2>1 DEF DbTypeOK
    <2>4. \/ waiting = worker.id /\ IsSelect(worker.id)
          \/ main.pc = "store" /\ waiting = main.id
      BY <1>0, <2>1 DEF ConnectionHeld
    <2>5. waiting \in DOMAIN stmts
      BY <2>3, <2>4
    <2>6. b \in Record
      BY <1>0, <2>3, <2>5 DEF Answer, Record, Rows, DbTypeOK
    <2> HIDE DEF b
    <2>7. Good(b)
      BY <1>0, <2>1, <2>2, <2>3, <2>5 DEF ModesKept
    <2>8. Own(b)
      <3>1. CASE stmts[worker.id].kind = "select"
        <4>1. waiting = worker.id
          BY <1>0, <2>1, <3>1 DEF ConnectionHeld, IsSelect
        <4> QED
          BY <2>2, <3>1, <4>1
      <3>2. CASE stmts[worker.id].kind # "select"
        <4>1. main.pc = "store" /\ waiting = main.id
          BY <2>4, <3>2 DEF IsSelect
        <4>2. stmts[waiting].mode = "sync"
          BY <1>0, <4>1 DEF ModesKept
        <4>3. Answer(waiting, waiting) \notin syncs
          <5>1. Answer(waiting, waiting).id = waiting
            BY DEF Answer
          <5> QED
            BY <1>0, <4>1, <5>1 DEF SyncsFresh
        <4> QED
          BY <2>2, <3>2, <4>2, <4>3
      <3> QED
        BY <3>1, <3>2
    <2>9. /\ Fetched' \in Seq(Record) /\ DOMAIN Fetched' = 1 .. Len(Fetched) + 1
          /\ \A i \in 1 .. Len(Fetched) : Fetched'[i] = Fetched[i]
          /\ Fetched'[Len(Fetched) + 1] = b
      <3>1. /\ Fetched' \in Seq(Record) /\ Len(Fetched') = Len(Fetched) + 1
            /\ \A i \in 1 .. Len(Fetched) : Fetched'[i] = Fetched[i]
            /\ Fetched'[Len(Fetched) + 1] = b
        BY <1>3, <2>1, <2>6, AppendProperties
      <3> QED
        BY <3>1, LenProperties
    <2>10. ASSUME NEW i \in DOMAIN Fetched'
           PROVE  /\ (Good(Fetched[i]) /\ Own(Fetched[i]))'
                  /\ Fetched'[i].rows # NoRows
                  /\ i # Len(Fetched) + 1 =>
                       /\ i \in DOMAIN Fetched /\ Fetched'[i] = Fetched[i]
                       /\ Fetched'[i].rows # waiting
      <3>1. CASE i = Len(Fetched) + 1
        BY <2>1, <2>2, <2>7, <2>8, <2>9, <3>1 DEF IsCallback
      <3>2. CASE i # Len(Fetched) + 1
        <4>1. i \in DOMAIN Fetched /\ Fetched'[i] = Fetched[i]
          BY <1>3, <2>9, <3>2
        <4>2. Good(Fetched[i]) /\ Own(Fetched[i]) /\ Fetched[i].rows # waiting
          BY <1>1, <4>1
        <4>3. Fetched[i].rows # NoRows
          BY <1>0, <4>2 DEF NoRows
        <4> QED
          BY <2>1, <4>1, <4>2, <4>3 DEF IsCallback
      <3> QED
        BY <3>1, <3>2
    <2>11. RowsFresh'
      BY <2>1, <2>10 DEF RowsFresh
    <2>12. ASSUME NEW i \in DOMAIN Fetched', NEW j \in DOMAIN Fetched', i # j
           PROVE  Fetched'[i].rows # Fetched'[j].rows
      <3>1. CASE i = Len(Fetched) + 1
        BY <2>2, <2>9, <2>10, <2>12, <3>1
      <3>2. CASE j = Len(Fetched) + 1
        BY <2>2, <2>9, <2>10, <2>12, <3>2
      <3>3. CASE i # Len(Fetched) + 1 /\ j # Len(Fetched) + 1
        BY <1>4, <2>10, <2>12, <3>3
      <3> QED
        BY <3>1, <3>2, <3>3
    <2>13. RowsReachOneReader'
      BY <2>10, <2>12, SyncsStep DEF RowsReachOneReader
    <2> QED
      BY <2>11, <2>13
  <1> QED
    BY <1>6, <1>7, FetchedStep

(* The invariant holds when the connection is opened. *)
LEMMA DbInvInit == DbInit => DbInv
  <1> SUFFICES ASSUME DbInit PROVE DbInv
    OBVIOUS
  <1>1. /\ stmts = <<>> /\ requests = <<>> /\ results = <<>> /\ answers = <<>>
        /\ worker = [pc |-> "idle", id |-> 0, rows |-> 0]
        /\ main = [pc |-> "free", id |-> 0]
        /\ waiting = 0 /\ crossed = FALSE /\ syncs = {}
    BY DEF DbInit, Idle, Free, NoRows
  <1>2. 0 \in Rows /\ MaxStmts \in Nat
    BY DbAssumption DEF Rows, DbAssumption
  <1>3. DbTypeOK
    <2>1. /\ stmts \in Seq([kind : Kinds, mode : Modes]) /\ Len(stmts) <= MaxStmts
          /\ requests \in Seq(DOMAIN stmts)
          /\ results \in Seq(Record) /\ answers \in Seq(Record)
      BY <1>1, <1>2, EmptySeq
    <2>2. \A i \in DOMAIN results : results[i].rows # NoRows
      BY <1>1
    <2>3. /\ worker \in [pc : {"idle", "query", "store", "read"}, id : Rows, rows : Rows]
          /\ main \in [pc : {"free", "store"}, id : Rows]
          /\ worker.pc = "idle" /\ main.pc = "free"
          /\ waiting \in Rows /\ crossed \in BOOLEAN /\ syncs \subseteq Record
      BY <1>1, <1>2
    <2> QED
      BY <2>1, <2>2, <2>3 DEF DbTypeOK
  <1>4. Pipeline = <<>>
    <2>1. Ids(answers) = <<>> /\ Ids(results) = <<>>
      BY <1>1 DEF Ids
    <2>2. <<>> \o <<>> = <<>>
      BY EmptySeq, ConcatEmptySeq
    <2> QED
      BY <1>1, <2>1, <2>2 DEF Pipeline, InHand
  <1>5. Fetched = <<>>
    <2>1. <<>> \o <<>> = <<>>
      BY EmptySeq, ConcatEmptySeq
    <2> QED
      BY <1>1, <2>1 DEF Fetched
  <1> QED
    BY <1>1, <1>3, <1>4, <1>5
       DEF DbInv, AnswersInOrder, PipelineIds, ModesKept, ConnectionHeld, RowsFresh,
           SyncsFresh, SelectKept, RowsReachOneReader, NoRows

LEMMA DbInvStep ==
    DbInv /\ [DbNext]_dbVars => DbInv'
  <1> SUFFICES ASSUME DbInv, [DbNext]_dbVars PROVE DbInv'
    OBVIOUS
  <1>1. DbTypeOK'
    BY TypeStep DEF DbInv
  <1>2. AnswersInOrder' /\ PipelineIds' /\ SelectKept'
    BY OrderStep
  <1>3. ModesKept'
    BY ModesStep
  <1>4. ~crossed' => ConnectionHeld'
    BY ConnectionStep
  <1>5. ~crossed' => SyncsFresh'
    BY SyncsStep
  <1>6. (~crossed => RowsFresh)' /\ RowsReachOneReader'
    BY RowsStep
  <1> QED
    BY <1>1, <1>2, <1>3, <1>4, <1>5, <1>6 DEF DbInv

LEMMA DbInvariant == DbSpec => []DbInv
  BY DbInvInit, DbInvStep, PTL DEF DbSpec

-----------------------------------------------------------------------------
(* The theorems.                                                           *)

(* The two queues and the worker between them answer statements with a     *)
(* callback in the order they were queued and none twice, however the      *)
(* threads meet on the connection.                                         *)
THEOREM AnswersKeepOrder == DbSpec => []AnswersInOrder
  <1>1. DbInv => AnswersInOrder
    BY DEF DbInv
  <1> QED
    BY <1>1, DbInvariant, PTL

(* Until the threads cross on the connection, no statement finds the rows  *)
(* of another waiting, so no valid select with a callback is refused.      *)
THEOREM SelectsAreKept == DbSpec => []SelectKept
  <1>1. DbInv => SelectKept
    BY DEF DbInv
  <1> QED
    BY <1>1, DbInvariant, PTL

(* Until then the rows of a statement have one reader, its own, but for a  *)
(* synchronous select that an update with a callback robs.                 *)
THEOREM RowsHaveOneReader == DbSpec => []RowsReachOneReader
  <1>1. DbInv => RowsReachOneReader
    BY DEF DbInv
  <1> QED
    BY <1>1, DbInvariant, PTL

-----------------------------------------------------------------------------
(* The service that the two threads make.                                  *)

(* The queue of the service: its parts, and what a step does to it. *)

LEMMA QueuedType ==
    ASSUME DbTypeOK
    PROVE  /\ Ids(results) \in Seq(Nat) /\ InHand \in Seq(Nat) /\ requests \in Seq(Nat)
           /\ Ids(results) \o InHand \in Seq(Nat)
           /\ Queued = (Ids(results) \o InHand) \o requests
           /\ Queued \in Seq(Nat)
  <1>1. Ids(results) \in Seq(Nat) /\ InHand \in Seq(Nat) /\ requests \in Seq(Nat)
    BY PipelineType
  <1>2. Ids(results) \o InHand \in Seq(Nat)
    BY <1>1, ConcatProperties
  <1>3. Queued = (Ids(results) \o InHand) \o requests
    BY DEF Queued
  <1> QED
    BY <1>1, <1>2, <1>3, ConcatProperties


LEMMA QueuedExecute ==
    ASSUME DbTypeOK, requests' = Append(requests, Len(stmts) + 1),
           UNCHANGED <<results, worker>>
    PROVE  Queued' = Append(Queued, Len(stmts) + 1)
  <1> DEFINE n == Len(stmts) + 1
             p == Ids(results) \o InHand
  <1>1. p \in Seq(Nat) /\ n \in Nat /\ requests \in Seq(Nat) /\ <<n>> \in Seq(Nat)
    BY QueuedType, PipelineType
  <1>2. Queued' = p \o Append(requests, n)
    BY DEF Queued, InHand
  <1>3. Queued = p \o requests
    BY QueuedType
  <1> HIDE DEF p, n
  <1>4. Append(requests, n) = requests \o <<n>>
    BY <1>1, AppendIsConcat
  <1>5. p \o requests \in Seq(Nat)
    BY <1>1, ConcatProperties
  <1>6. Append(p \o requests, n) = (p \o requests) \o <<n>>
    BY <1>1, <1>5, AppendIsConcat
  <1>7. (p \o requests) \o <<n>> = p \o (requests \o <<n>>)
    BY <1>1, ConcatAssociative, SMTT(30)
  <1> QED
    BY <1>2, <1>3, <1>4, <1>6, <1>7 DEF n


LEMMA QueuedSame ==
    ASSUME UNCHANGED <<requests, results>>, worker'.id = worker.id,
           worker'.pc = "idle" <=> worker.pc = "idle"
    PROVE  Queued' = Queued
  <1>1. InHand' = InHand
    BY DEF InHand
  <1> QED
    BY <1>1 DEF Queued


LEMMA QueuedPop ==
    ASSUME DbTypeOK, WorkerPop
    PROVE  Queued' = Queued
  <1> DEFINE R == Ids(results)
             x == Head(requests)
  <1>1. InHand = <<>> /\ InHand' = <<x>> /\ Ids(results)' = R
        /\ requests' = Tail(requests) /\ requests # <<>>
    BY DEF WorkerPop, InHand, Idle
  <1>2. R \in Seq(Nat) /\ requests \in Seq(Nat) /\ x \in Nat
    BY <1>1, QueuedType, HeadTailProperties
  <1>3. Queued' = (R \o <<x>>) \o Tail(requests)
    BY <1>1 DEF Queued
  <1>4. Queued = (R \o <<>>) \o requests
    BY <1>1 DEF Queued
  <1>5. R \o <<x>> = Append(R, x)
    BY <1>2, AppendIsConcat
  <1>6. R \o <<>> = R
    BY <1>2, ConcatEmptySeq
  <1>7. Append(R, x) \o Tail(requests) = R \o requests
    BY <1>1, <1>2, MoveHead
  <1> QED
    BY <1>3, <1>4, <1>5, <1>6, <1>7


LEMMA QueuedRead ==
    ASSUME DbTypeOK, worker.pc # "idle", worker' = Idle, NEW r \in Rows,
           results' = Append(results, Answer(worker.id, r)), requests' = requests
    PROVE  Queued' = Queued
  <1> DEFINE R == Ids(results)
             i == worker.id
  <1>1. R \in Seq(Nat) /\ i \in Nat
    BY PipelineType
  <1>2. Answer(i, r) \in Record /\ Answer(i, r).id = i
    BY PipelineType, DbAssumption DEF DbTypeOK, Answer, Record, Rows, DbAssumption
  <1>3. Ids(results') = Append(R, i)
    BY <1>2, IdsAppend DEF DbTypeOK
  <1>4. InHand' = <<>> /\ InHand = <<i>>
    BY DEF InHand, Idle
  <1>5. Queued' = (Append(R, i) \o <<>>) \o requests
    BY <1>3, <1>4 DEF Queued
  <1>6. Queued = (R \o <<i>>) \o requests
    BY <1>4 DEF Queued
  <1> HIDE DEF R, i
  <1>7. Append(R, i) = R \o <<i>>
    BY <1>1, AppendIsConcat
  <1>8. Append(R, i) \in Seq(Nat)
    BY <1>1, AppendProperties
  <1>9. Append(R, i) \o <<>> = Append(R, i)
    BY <1>8, ConcatEmptySeq
  <1> QED
    BY <1>5, <1>6, <1>7, <1>9


LEMMA QueuedUpdate ==
    ASSUME DbTypeOK, Update
    PROVE  /\ Queued # <<>> /\ Head(Queued) = Head(results).id
           /\ Queued' = Tail(Queued)
  <1>1. results \in Seq(Record) /\ results # <<>>
    BY DEF DbTypeOK, Update
  <1>2. results' = Tail(results) /\ InHand' = InHand /\ requests' = requests
    BY DEF Update, InHand
  <1>3. /\ Ids(results) # <<>>
        /\ Head(Ids(results)) = Head(results).id
        /\ Tail(Ids(results)) = Ids(Tail(results))
    BY <1>1, IdsOfTail
  <1>4. Queued = (Ids(results) \o InHand) \o requests
        /\ Ids(results) \in Seq(Nat) /\ InHand \in Seq(Nat) /\ requests \in Seq(Nat)
    BY QueuedType
  <1> DEFINE R == Ids(results)
             p == R \o InHand
  <1>5. p \in Seq(Nat) /\ p # <<>> /\ Head(p) = Head(R) /\ Tail(p) = Tail(R) \o InHand
    BY <1>3, <1>4, ConcatHead
  <1>6. Queued' = (Tail(R) \o InHand) \o requests
    BY <1>2, <1>3 DEF Queued
  <1>7. Queued = p \o requests
    BY <1>4
  <1> HIDE DEF p, R
  <1>8. p \o requests # <<>> /\ Head(p \o requests) = Head(p)
        /\ Tail(p \o requests) = Tail(p) \o requests
    BY <1>4, <1>5, ConcatHead
  <1>9. Head(R) = Head(results).id
    BY <1>3 DEF R
  <1> QED
    BY <1>5, <1>6, <1>7, <1>8, <1>9

(* What the worker lets go of leaves the middle of the queue. *)
LEMMA QueuedDrop ==
    ASSUME DbTypeOK, Drops, NEW i \in Nat, i = Len(Ids(results)) + 1
    PROVE  /\ i \in 1 .. Len(Queued) /\ Queued[i] = worker.id
           /\ Queued' = RemoveAt(Queued, i)
  <1>1. /\ Ids(results) \in Seq(Nat) /\ InHand \in Seq(Nat) /\ requests \in Seq(Nat)
        /\ Queued = (Ids(results) \o InHand) \o requests /\ Queued \in Seq(Nat)
    BY QueuedType
  <1>2. InHand = <<worker.id>> /\ InHand' = <<>> /\ UNCHANGED <<requests, results>>
    BY DEF Drops, InHand, Idle
  <1>3. Len(InHand) = 1 /\ InHand[1] = worker.id
    BY <1>2
  <1>4. Queued' = (Ids(results) \o <<>>) \o requests
    BY <1>2 DEF Queued
  <1>5. Ids(results) \o <<>> = Ids(results)
    BY <1>1, ConcatEmptySeq
  <1>6. Queued' = Ids(results) \o requests
    BY <1>4, <1>5
  <1> DEFINE R == Ids(results)
             H == InHand
             q == Queued
  <1>7. /\ R \in Seq(Nat) /\ H \in Seq(Nat) /\ Len(H) = 1 /\ requests \in Seq(Nat)
        /\ q \in Seq(Nat) /\ q = (R \o H) \o requests /\ i \in Nat /\ i = Len(R) + 1
    BY <1>1, <1>3
  <1> HIDE DEF R, H, q
  <1>8. /\ Len(R) + 1 \in 1 .. Len((R \o H) \o requests)
        /\ ((R \o H) \o requests)[Len(R) + 1] = H[1]
        /\ R \o requests = RemoveAt((R \o H) \o requests, Len(R) + 1)
    BY <1>7, AroundOne
  <1> QED
    BY <1>3, <1>6, <1>7, <1>8 DEF R, H, q

(* A step of the service, or none. *)
Serves == [Service!ServiceNext]_(Service!serviceVars)

(* A statement is owed its rows for as long as it is there. *)
LEMMA OwedGrows ==
    ASSUME DbTypeOK, NEW s \in [kind : Kinds, mode : Modes], stmts' = Append(stmts, s)
    PROVE  /\ Len(stmts)' = Len(stmts) + 1
           /\ Owed' = IF s.kind = "select" /\ s.mode = "callback"
                      THEN Owed \cup {Len(stmts) + 1} ELSE Owed
  <1>1. /\ Len(stmts') = Len(stmts) + 1 /\ DOMAIN stmts' = 1 .. Len(stmts) + 1
        /\ \A id \in DOMAIN stmts : stmts'[id] = stmts[id]
        /\ stmts'[Len(stmts) + 1] = s
        /\ Len(stmts) \in Nat /\ DOMAIN stmts = 1 .. Len(stmts)
    BY StmtsKept
  <1> DEFINE n == Len(stmts) + 1
             asked(id, list) == list[id].kind = "select" /\ list[id].mode = "callback"
  <1>2. DOMAIN stmts' = DOMAIN stmts \cup {n}
    BY <1>1
  <1>3. \A id \in DOMAIN stmts : asked(id, stmts') <=> asked(id, stmts)
    BY <1>1
  <1>4. asked(n, stmts') <=> s.kind = "select" /\ s.mode = "callback"
    BY <1>1
  <1>5. Owed = {id \in DOMAIN stmts : asked(id, stmts)}
    BY DEF Owed, WantsRows
  <1>6. Owed' = {id \in DOMAIN stmts' : asked(id, stmts')}
    BY DEF Owed, WantsRows
  <1> HIDE DEF n, asked
  <1>7. CASE s.kind = "select" /\ s.mode = "callback"
    BY <1>2, <1>3, <1>4, <1>5, <1>6, <1>7 DEF n
  <1>8. CASE ~(s.kind = "select" /\ s.mode = "callback")
    BY <1>2, <1>3, <1>4, <1>5, <1>6, <1>8
  <1> QED
    BY <1>1, <1>7, <1>8 DEF n


LEMMA OwedSame == ASSUME stmts' = stmts PROVE Owed' = Owed /\ Len(stmts)' = Len(stmts)
  BY DEF Owed, WantsRows

(* ExecuteAsyncSQL queues, ExecuteRsyncSQL goes past the queue. *)
LEMMA ExecuteServes ==
    ASSUME DbTypeOK, NEW kind \in Kinds, NEW mode \in Modes,
           (mode # "sync" /\ ExecuteAsyncSQL(kind, mode)) \/ (mode = "sync" /\ ExecuteRsyncSQL(kind))
    PROVE  Serves
  <1> DEFINE s == [kind |-> kind, mode |-> mode]
  <1>1. s \in [kind : Kinds, mode : Modes] /\ stmts' = Append(stmts, s)
        /\ s.kind = kind /\ s.mode = mode
    BY DEF ExecuteAsyncSQL, ExecuteRsyncSQL
  <1> HIDE DEF s
  <1>2. Len(stmts)' = Len(stmts) + 1
        /\ Owed' = IF kind = "select" /\ mode = "callback" THEN Owed \cup {Len(stmts) + 1} ELSE Owed
    BY <1>1, OwedGrows
  <1>3. CASE mode # "sync" /\ ExecuteAsyncSQL(kind, mode)
    <2>1. Queued' = Append(Queued, Len(stmts) + 1)
      BY <1>2, <1>3, QueuedExecute DEF ExecuteAsyncSQL
    <2>2. answers' = answers /\ crossed' = crossed
      BY <1>3 DEF ExecuteAsyncSQL
    <2>3. Owed' \in {Owed, Owed \cup {Len(stmts)'}}
      BY <1>2
    <2> QED
      BY <1>2, <2>1, <2>2, <2>3 DEF Serves, Service!ServiceNext, Service!Queue
  <1>4. CASE mode = "sync" /\ ExecuteRsyncSQL(kind)
    <2>1. Queued' = Queued
      BY <1>4, QueuedSame DEF ExecuteRsyncSQL
    <2>2. answers' = answers /\ crossed' \in {crossed, TRUE}
      BY <1>4 DEF ExecuteRsyncSQL, DbTypeOK
    <2>3. Owed' = Owed
      BY <1>2, <1>4
    <2> QED
      BY <1>2, <2>1, <2>2, <2>3 DEF Serves, Service!ServiceNext, Service!Execute
  <1> QED
    BY <1>3, <1>4

(* A callback gets the rows of its own select. *)
LEMMA UpdateServes ==
    ASSUME DbInv, Update
    PROVE  Serves
  <1>0. DbTypeOK /\ RowsReachOneReader
    BY DEF DbInv
  <1>1. /\ Queued # <<>> /\ Head(Queued) = Head(results).id
        /\ Queued' = Tail(Queued)
    BY <1>0, QueuedUpdate
  <1>2. results \in Seq(Record) /\ results # <<>> /\ answers \in Seq(Record)
    BY <1>0 DEF DbTypeOK, Update
  <1>3. Head(results) = results[1] /\ Head(results) \in Record
        /\ 1 \in DOMAIN results
    <2>1. Len(results) \in Nat \ {0} /\ DOMAIN results = 1 .. Len(results)
      BY <1>2, EmptySeq, LenProperties
    <2> QED
      BY <1>2, <2>1, HeadTailProperties
  <1>4. Head(results).rows \in 1 .. MaxStmts
    <2>1. Head(results).rows \in 0 .. MaxStmts
      BY <1>3 DEF Record, Rows
    <2>2. Head(results).rows # 0
      BY <1>0, <1>3 DEF DbTypeOK, NoRows
    <2> QED
      BY <2>1, <2>2, DbAssumption DEF DbAssumption
  <1>5. Head(results) = [id |-> Head(results).id, rows |-> Head(results).rows]
    BY <1>3 DEF Record
  <1>6. ASSUME Head(results).id \in Owed, ~crossed PROVE Head(results).rows = Head(results).id
    <2> DEFINE k == Len(answers) + 1
    <2>1. k \in DOMAIN Fetched /\ Fetched[k] = Head(results)
      BY <1>0, <1>2, <1>3, FetchedHead
    <2>2. stmts[Head(results).id].kind = "select"
      BY <1>6 DEF Owed, WantsRows
    <2> HIDE DEF k
    <2> QED
      BY <1>0, <1>6, <2>1, <2>2 DEF RowsReachOneReader
  <1>7. answers' = Append(answers, Head(results)) /\ crossed' = crossed /\ stmts' = stmts
    BY DEF Update
  <1>8. Owed' = Owed /\ Len(stmts)' = Len(stmts)
    BY <1>7, OwedSame
  <1>9. crossed \in BOOLEAN
    BY <1>0 DEF DbTypeOK
  <1> DEFINE r == Head(results).rows
  <1>10. r \in 1 .. MaxStmts /\ (Head(Queued) \in Owed => crossed \/ r = Head(Queued))
    BY <1>1, <1>4, <1>6
  <1>11. answers' = Append(answers, [id |-> Head(Queued), rows |-> r])
    BY <1>1, <1>5, <1>7
  <1> HIDE DEF r
  <1>12. Service!CallBack
    BY <1>1, <1>7, <1>8, <1>10, <1>11 DEF Service!CallBack
  <1> QED
    BY <1>12 DEF Serves, Service!ServiceNext

(* The worker gives up what it owes nothing, unless the threads cross. *)
LEMMA DropServes ==
    ASSUME DbInv, Drops, crossed' \/ ~WantsRows(worker.id), crossed' \in {crossed, TRUE}
    PROVE  Serves
  <1> DEFINE i == Len(Ids(results)) + 1
  <1>0. DbTypeOK /\ i \in Nat
    <2>1. Len(Ids(results)) \in Nat
      BY QueuedType, LenProperties DEF DbInv
    <2> QED
      BY <2>1 DEF DbInv
  <1>1. /\ i \in 1 .. Len(Queued) /\ Queued[i] = worker.id
        /\ Queued' = RemoveAt(Queued, i)
    BY <1>0, QueuedDrop
  <1>2. stmts' = stmts /\ answers' = answers
    BY DEF Drops
  <1>3. Owed' = Owed /\ Len(stmts)' = Len(stmts)
    BY <1>2, OwedSame
  <1>4. Queued[i] \in Owed => crossed'
    BY <1>1 DEF Owed
  <1> HIDE DEF i
  <1>5. Service!RemoveAt(Queued, i) = RemoveAt(Queued, i)
    BY DEF Service!RemoveAt, RemoveAt
  <1>6. Service!GiveUp
    BY <1>1, <1>2, <1>3, <1>4, <1>5 DEF Service!GiveUp
  <1> QED
    BY <1>6 DEF Serves, Service!ServiceNext

(* A step that keeps the queue, the statements and the callbacks. *)
LEMMA RestServes ==
    ASSUME Queued' = Queued, stmts' = stmts, answers' = answers, crossed' \in {crossed, TRUE}
    PROVE  Serves
  <1>1. Owed' = Owed /\ Len(stmts)' = Len(stmts)
    BY OwedSame
  <1>2. CASE crossed' = crossed
    BY <1>1, <1>2 DEF Serves, Service!serviceVars
  <1>3. CASE crossed' = TRUE
    BY <1>1, <1>3 DEF Serves, Service!ServiceNext, Service!Fail
  <1> QED
    BY <1>2, <1>3

(* The worker keeps the queue as it is, or gives its statement up. *)

LEMMA WorkerServes ==
    ASSUME DbInv, WorkerQuery \/ WorkerStore \/ WorkerRead
    PROVE  Serves
  <1>0. DbTypeOK /\ DbTypeOK'
    <2>1. [DbNext]_dbVars
      BY DEF DbNext, WorkerNext
    <2> QED
      BY <2>1, TypeStep DEF DbInv
  <1>1. stmts' = stmts /\ requests' = requests /\ answers' = answers
    BY DEF WorkerQuery, WorkerStore, WorkerRead
  <1>2. crossed' \in {crossed, TRUE}
    BY <1>0 DEF WorkerQuery, WorkerStore, WorkerRead, DbTypeOK
  <1>3. CASE Drops
    <2>1. crossed' \/ ~WantsRows(worker.id)
      BY <1>3, DropsKeepSelects
    <2> QED
      BY <1>2, <1>3, <2>1, DropServes
  <1>4. CASE ~Drops
    <2>1. Queued' = Queued
      <3>1. CASE WorkerQuery
        <4>1. worker' # Idle
          BY <1>4, <3>1 DEF WorkerQuery, Drops
        <4>2. worker' = [worker EXCEPT !.pc = "store"] /\ worker.pc = "query"
          BY <3>1, <4>1 DEF WorkerQuery
        <4>3. worker'.id = worker.id /\ worker'.pc = "store"
          BY <1>0, <4>2 DEF DbTypeOK
        <4> QED
          BY <3>1, <4>2, <4>3, QueuedSame DEF WorkerQuery
      <3>2. CASE WorkerStore
        <4>1. worker' # Idle /\ worker.pc = "store"
          BY <1>4, <3>2 DEF WorkerStore, Drops
        <4>2. worker'.id = worker.id /\ worker'.pc = "read"
          BY <1>0, <3>2, <4>1 DEF DbTypeOK, WorkerStore
        <4> QED
          BY <3>2, <4>1, <4>2, QueuedSame DEF WorkerStore
      <3>3. CASE WorkerRead
        <4>1. worker' = Idle /\ worker.pc = "read"
          BY <3>3 DEF WorkerRead
        <4>2. PICK r \in 0 .. Len(stmts) :
                 results' = IF r = NoRows THEN results ELSE Append(results, Answer(worker.id, r))
          BY <3>3 DEF WorkerRead
        <4>3. results' # results
          BY <1>1, <1>4, <4>1 DEF Drops
        <4>4. r \in Rows
          BY <1>0, PipelineType, DbAssumption DEF DbTypeOK, Rows, DbAssumption
        <4> QED
          BY <1>0, <1>1, <4>1, <4>2, <4>3, <4>4, QueuedRead
      <3> QED
        BY <3>1, <3>2, <3>3
    <2> QED
      BY <1>1, <1>2, <2>1, RestServes
  <1> QED
    BY <1>3, <1>4

(* Two threads with their queues implement StatementService: callbacks     *)
(* come in the order of the statements, each at most once and even after a *)
(* crossing; until then no valid select is given up and each gets its own  *)
(* rows.                                                                   *)
THEOREM ServiceKept == DbSpec => KeepsService
  <1>1. DbInit => Service!ServiceInit
    <2> SUFFICES ASSUME DbInit PROVE Service!ServiceInit
      OBVIOUS
    <2>1. stmts = <<>> /\ requests = <<>> /\ results = <<>> /\ answers = <<>>
          /\ crossed = FALSE /\ InHand = <<>>
      BY DEF DbInit, Idle, InHand
    <2>2. Len(stmts) = 0 /\ DOMAIN stmts = {}
      BY <2>1
    <2>3. Owed = {}
      BY <2>2 DEF Owed
    <2>4. Ids(results) = <<>>
      BY <2>1 DEF Ids
    <2>5. Queued = <<>>
      <3>1. <<>> \in Seq(Nat)
        OBVIOUS
      <3> QED
        BY <2>1, <2>4, <3>1, ConcatEmptySeq DEF Queued
    <2> QED
      BY <2>1, <2>2, <2>3, <2>5 DEF Service!ServiceInit
  <1>2. DbInv /\ [DbNext]_dbVars => [Service!ServiceNext]_(Service!serviceVars)
    <2> SUFFICES ASSUME DbInv, [DbNext]_dbVars PROVE Serves
      BY DEF Serves
    <2>0. DbTypeOK
      BY DEF DbInv
    <2>1. ASSUME NEW kind \in Kinds, NEW mode \in Modes \ {"sync"}, ExecuteAsyncSQL(kind, mode)
          PROVE  Serves
      BY <2>0, <2>1, ExecuteServes
    <2>2. ASSUME NEW kind \in Kinds, ExecuteRsyncSQL(kind)
          PROVE  Serves
      <3>1. "sync" \in Modes
        BY DEF Modes
      <3> QED
        BY <2>0, <2>2, <3>1, ExecuteServes
    <2>3. CASE RsyncStore
      BY <2>0, <2>3, QueuedSame, RestServes DEF RsyncStore, DbTypeOK
    <2>4. CASE Update
      BY <2>4, UpdateServes
    <2>5. CASE WorkerPop
      BY <2>0, <2>5, QueuedPop, RestServes DEF WorkerPop
    <2>6. CASE WorkerQuery \/ WorkerStore \/ WorkerRead
      BY <2>6, WorkerServes
    <2>7. CASE UNCHANGED dbVars
      BY <2>0, <2>7, QueuedSame, RestServes DEF dbVars
    <2>8. CASE WorkerSleep
      BY <2>7, <2>8 DEF WorkerSleep
    <2> QED
      BY <2>1, <2>2, <2>3, <2>4, <2>5, <2>6, <2>7, <2>8 DEF DbNext, MainNext, WorkerNext
  <1> QED
    BY <1>1, <1>2, DbInvariant, PTL DEF DbSpec, KeepsService, Service!ServiceSpec

-----------------------------------------------------------------------------
(* The rows of an answer and their set.                                   *)

(* Only the records of S stand at two places of a vector.                  *)
Apart(vec, S) == \A i, j \in DOMAIN vec : i # j /\ vec[i] = vec[j] => vec[i] \in S

(* Before the set there are no records, and after it no vector. *)
SetHolds ==
    /\ set = "none" => record = <<>>
    /\ set = "gone" => m_vecRecord = <<>>

(* Until the set is gone, it holds all that is left of what it was made of. *)
RowsHeld ==
    set \in {"live", "ending"} =>
        \A r \in DOMAIN record : Live(r) /\ record[r].key # NoKey => r \in Members

RecordSetInv ==
    /\ RecordSetTypeOK /\ m_vecRecord \in Seq(Nat)
    /\ MembersAreLive
    /\ ReleasedOnce
    /\ Apart(m_vecRecord, twice)
    /\ SetHolds
    /\ RowsHeld

-----------------------------------------------------------------------------
(* A set of natural numbers has a least element. *)
LEMMA LeastNatural ==
    ASSUME NEW I \in SUBSET Nat, I # {}
    PROVE  Min(I) \in I
  <1> DEFINE R == {p \in Nat \X Nat : p[1] < p[2]}
  <1>1. IsWellFoundedOn(R, Nat)
    BY NatLessThanWellFounded DEF OpToRel
  <1> HIDE DEF R
  <1>2. \E k \in I : \A y \in I : ~(<<y, k>> \in R)
    BY <1>1, WFMin
  <1>3. ASSUME NEW k \in I, NEW y \in I, ~(<<y, k>> \in R)
        PROVE  k <= y
    <2>1. y \in Nat /\ k \in Nat
      OBVIOUS
    <2>2. ~(y < k)
      BY <1>3, <2>1 DEF R
    <2> QED  BY <2>1, <2>2
  <1>4. PICK k \in I : \A y \in I : k <= y
    BY <1>2, <1>3
  <1>5. \E x \in I : \A y \in I : x =< y
    BY <1>4
  <1> QED  BY <1>5 DEF Min

(* The first place of a value that a sequence holds. *)
LEMMA FirstPlace ==
    ASSUME NEW S, NEW vec \in Seq(S), NEW r, r \in Range(vec)
    PROVE  \E k \in 1 .. Len(vec) : vec[k] = r /\ Without(vec, r) = RemoveAt(vec, k)
  <1> DEFINE I == {i \in 1 .. Len(vec) : vec[i] = r}
  <1>1. \E i \in 1 .. Len(vec) : vec[i] = r
    BY DEF Range
  <1>2. I \in SUBSET Nat /\ I # {}
    BY <1>1
  <1>4. Min(I) \in I
    BY <1>2, LeastNatural
  <1>5. SelectInSeq(vec, LAMBDA v : v = r) = Min(I)
    BY <1>2 DEF SelectInSeq
  <1>6. Without(vec, r) = RemoveAt(vec, Min(I))
    BY <1>1, <1>5 DEF Without, RemoveFirst
  <1> QED  BY <1>4, <1>6

(* ~DbRecord takes the record away from one place of the vector and keeps  *)
(* all the others, so that it is still there only if it stood there twice. *)
LEMMA WithoutIs ==
    ASSUME NEW vec \in Seq(Nat), NEW r, NEW S, Apart(vec, S)
    PROVE  /\ Without(vec, r) \in Seq(Nat)
           /\ Range(Without(vec, r)) \subseteq Range(vec)
           /\ Range(vec) \ {r} \subseteq Range(Without(vec, r))
           /\ Apart(Without(vec, r), S)
           /\ r \in Range(Without(vec, r)) => r \in S
  <1> DEFINE W == Without(vec, r)
  <1>1. CASE r \notin Range(vec)
    <2>1. W = vec
      BY <1>1 DEF Without, RemoveFirst, Range
    <2> QED  BY <1>1, <2>1
  <1>2. CASE r \in Range(vec)
    <2>1. PICK k \in 1 .. Len(vec) : vec[k] = r /\ W = RemoveAt(vec, k)
      BY <1>2, FirstPlace
    <2> HIDE DEF W
    <2> DEFINE Old(i) == IF i < k THEN i ELSE i + 1
    <2>2. /\ W \in Seq(Nat) /\ Len(W) = Len(vec) - 1
          /\ \A i \in 1 .. Len(vec) - 1 : W[i] = vec[Old(i)]
      BY <2>1, RemoveAtIs
    <2>3. /\ DOMAIN W = 1 .. Len(vec) - 1 /\ DOMAIN vec = 1 .. Len(vec)
          /\ Len(vec) \in Nat /\ k \in 1 .. Len(vec)
      BY <2>2
    <2>4. ASSUME NEW i \in DOMAIN W
          PROVE  Old(i) \in DOMAIN vec /\ Old(i) # k /\ W[i] = vec[Old(i)]
      <3>1. i \in 1 .. Len(vec) - 1
        BY <2>3
      <3>2. W[i] = vec[Old(i)]
        BY <2>2, <3>1
      <3>3. Old(i) \in 1 .. Len(vec) /\ Old(i) # k
        BY <2>3, <3>1
      <3> QED  BY <2>3, <3>2, <3>3
    <2>5. ASSUME NEW i \in DOMAIN W, NEW j \in DOMAIN W, i # j
          PROVE  Old(i) # Old(j)
      BY <2>3, <2>5
    <2>6. ASSUME NEW n \in DOMAIN vec, n # k
          PROVE  \E i \in DOMAIN W : Old(i) = n
      <3>1. CASE n < k
        <4>1. n \in DOMAIN W
          BY <2>3, <3>1
        <4> QED  BY <4>1, <3>1
      <3>2. CASE ~(n < k)
        <4>1. n - 1 \in DOMAIN W /\ Old(n - 1) = n
          BY <2>3, <2>6, <3>2
        <4> QED  BY <4>1
      <3> QED  BY <3>1, <3>2
    <2> HIDE DEF Old
    <2>7. Range(W) \subseteq Range(vec)
      BY <2>4 DEF Range
    <2>8. Range(vec) \ {r} \subseteq Range(W)
      <3> SUFFICES ASSUME NEW x \in Range(vec), x # r PROVE x \in Range(W)
        OBVIOUS
      <3>1. PICK n \in DOMAIN vec : vec[n] = x
        BY DEF Range
      <3>2. n # k
        BY <2>1, <3>1
      <3>3. PICK i \in DOMAIN W : Old(i) = n
        BY <2>6, <3>2
      <3>4. W[i] = x
        BY <2>4, <3>1, <3>3
      <3> QED  BY <3>4 DEF Range
    <2>9. Apart(W, S)
      BY <2>4, <2>5 DEF Apart
    <2>10. r \in Range(W) => r \in S
      <3> SUFFICES ASSUME NEW i \in DOMAIN W, W[i] = r PROVE r \in S
        BY DEF Range
      <3>1. Old(i) \in DOMAIN vec /\ Old(i) # k /\ vec[Old(i)] = r
        BY <2>4
      <3> QED  BY <2>1, <2>3, <3>1 DEF Apart
    <2> QED  BY <2>2, <2>7, <2>8, <2>9, <2>10 DEF W
  <1> QED  BY <1>1, <1>2

-----------------------------------------------------------------------------
(* The set and its records.                                                *)

(* The callback's set is made of the rows of its query, each in one place. *)
LEMMA CreateKeeps ==
    ASSUME RecordSetInv, NEW keyed \in BOOLEAN, Create(SetToSeq(table), keyed)
    PROVE  RecordSetInv'
  <1> DEFINE rows == SetToSeq(table)
             n == Cardinality(table)
             DbRecord == [state : {"live", "freed"}, key : Keys \cup {NoKey}, changed : SUBSET Fields]
             made == [i \in 1 .. Len(rows) |-> [state |-> "live", key |-> rows[i], changed |-> {}]]
             all == [i \in 1 .. Len(rows) |-> i]
  <1>1. table \subseteq Keys
    BY DEF RecordSetInv, RecordSetTypeOK
  <1>2. IsFiniteSet(table)
    BY <1>1, RecordSetAssumption, FS_Subset DEF RecordSetAssumption
  <1>3. n \in Nat /\ ExistsBijection(1 .. n, table)
    BY <1>2, FS_CardinalityType
  <1>4. \E f \in [1 .. n -> table] : IsInjective(f)
    BY <1>3 DEF ExistsBijection, Bijection, Injection
  <1>5. rows \in [1 .. n -> table]
    BY <1>4 DEF SetToSeq
  <1>6. Len(rows) = n /\ rows \in Seq(table)
    BY <1>3, <1>5
  <1> HIDE DEF rows, n
  <1>7. made \in Seq(DbRecord)
    <2>1. \A i \in 1 .. n : [state |-> "live", key |-> rows[i], changed |-> {}] \in DbRecord
      BY <1>1, <1>5
    <2> QED  BY <1>3, <1>6, <2>1, IsASeq
  <1>8. all \in Seq(Nat) /\ DOMAIN all = 1 .. n /\ Range(all) = 1 .. n /\ \A i \in 1 .. n : all[i] = i
    <2>1. \A i \in 1 .. n : i \in Nat
      OBVIOUS
    <2>2. all \in Seq(Nat)
      BY <1>3, <1>6, <2>1, IsASeq
    <2> QED  BY <1>6, <2>2 DEF Range
  <1>9. DOMAIN made = 1 .. n /\ \A i \in 1 .. n : made[i].state = "live"
    BY <1>6
  <1>10. record' = made /\ m_vecRecord' = all
    BY DEF Create, rows
  <1>11. Members' = 1 .. n /\ \A r \in 1 .. n : Live(r)'
    BY <1>8, <1>9, <1>10 DEF Members, Live
  <1>12. /\ set = "none" /\ set' = "live" /\ aborted = None /\ aborted' = aborted
         /\ m_nKeyIndex' \in {0, Invalid} /\ table' = table /\ twice' = twice
         /\ m_bOpen' = m_bOpen /\ hasCrossed' = hasCrossed
         /\ m_nCursor' = MoveTo(all, 0)
    BY <1>10 DEF Create, Running
  <1>13. twice = {}
    BY <1>12 DEF RecordSetInv, RecordSetTypeOK, SetHolds
  <1>14. m_nCursor' \in -1 .. MaxLen
    <2>1. MaxLen \in Nat
      BY RecordSetAssumption DEF RecordSetAssumption
    <2>2. -1 \in -1 .. MaxLen /\ 0 \in -1 .. MaxLen
      BY ONLY <2>1
    <2>3. Len(all) \in Nat /\ (all # <<>> => Len(all) # 0)
      BY <1>8
    <2>4. MoveTo(all, 0) \in {-1, 0}
      <3>1. CASE all = <<>>
        BY <3>1 DEF MoveTo
      <3>2. CASE all # <<>>
        BY <1>3, <1>6, <2>3, <3>2 DEF MoveTo
      <3> QED  BY <3>1, <3>2
    <2> QED  BY <1>12, <2>2, <2>4
  <1> HIDE DEF made, all
  <1>15. RecordSetTypeOK'
    BY <1>1, <1>7, <1>9, <1>10, <1>11, <1>12, <1>13, <1>14 DEF RecordSetInv, RecordSetTypeOK, DbRecord
  <1>16. MembersAreLive' /\ Apart(m_vecRecord, twice)'
    BY <1>8, <1>10, <1>11 DEF MembersAreLive, Apart
  <1>17. ReleasedOnce' /\ SetHolds' /\ RowsHeld'
    BY <1>9, <1>10, <1>11, <1>12 DEF ReleasedOnce, SetHolds, RowsHeld, None
  <1> QED  BY <1>8, <1>10, <1>15, <1>16, <1>17 DEF RecordSetInv

(* A record of the set or of the caller is gone, and from one place of the *)
(* vector.                                                                 *)
LEMMA ReleaseKeeps ==
    ASSUME RecordSetInv, NEW r \in DOMAIN record, Live(r), set # "none",
           record' = [record EXCEPT ![r].state = "freed"],
           m_vecRecord' \in Seq(Nat), Members' \subseteq Members,
           Members \ {r} \subseteq Members',
           Apart(m_vecRecord, twice)', r \in Members' => r \in twice,
           UNCHANGED <<m_bOpen, hasCrossed, set, m_nCursor, m_nKeyIndex, twice>>,
           table' \subseteq Keys,
           set = "gone" => m_vecRecord' = <<>>,
           aborted' \in {None, "KeyName", "SetGone"}
    PROVE  RecordSetInv'
  <1> USE DEF RecordSetInv
  <1> DEFINE DbRecord == [state : {"live", "freed"}, key : Keys \cup {NoKey}, changed : SUBSET Fields]
             freed == [record[r] EXCEPT !.state = "freed"]
  <1>0. record \in Seq(DbRecord) /\ r \in 1 .. Len(record) /\ record[r] \in DbRecord
    <2>1. record \in Seq(DbRecord)
      BY DEF RecordSetTypeOK
    <2> HIDE DEF DbRecord
    <2> QED  BY <2>1, ElementOfSeq
  <1>7. freed \in DbRecord /\ freed.state = "freed" /\ freed.key = record[r].key
    BY <1>0
  <1>8. record' = [record EXCEPT ![r] = freed]
    OBVIOUS
  <1> HIDE DEF DbRecord, freed
  <1>1. /\ DOMAIN record' = DOMAIN record
        /\ record'[r].state = "freed" /\ record'[r].key = record[r].key
        /\ \A q \in DOMAIN record : q # r => record'[q] = record[q]
    BY <1>0, <1>7, <1>8
  <1>2. \A q \in DOMAIN record : Live(q)' <=> Live(q) /\ q # r
    BY <1>1 DEF Live
  <1>3. RecordSetTypeOK'
    <2>1. record' \in Seq(DbRecord)
      <3>1. [record EXCEPT ![r] = freed] \in Seq(DbRecord)
        BY ONLY <1>0, <1>7, ExceptSeq
      <3> QED  BY <3>1, <1>8
    <2> QED  BY <1>1, <2>1 DEF RecordSetTypeOK, DbRecord
  <1>4. MembersAreLive'
    BY <1>1, <1>2 DEF MembersAreLive, RecordSetTypeOK
  <1>5. ReleasedOnce'
    BY <1>1, <1>2 DEF ReleasedOnce, None
  <1>6. SetHolds' /\ RowsHeld'
    BY <1>1, <1>2 DEF SetHolds, RowsHeld
  <1> QED  BY <1>3, <1>4, <1>5, <1>6

(* Records keep their state and their key, and the vector its places. *)
LEMMA EditKeeps ==
    ASSUME RecordSetInv, RecordSetTypeOK', set = "live", set' \in {"live", "ending"},
           DOMAIN record' = DOMAIN record,
           \A r \in DOMAIN record : record'[r].state = record[r].state /\ record'[r].key = record[r].key,
           m_vecRecord' = m_vecRecord, twice' = twice, aborted' # "DoubleFree"
    PROVE  RecordSetInv'
  <1>1. \A r : Live(r)' <=> Live(r)
    BY DEF Live
  <1>2. Members' = Members
    BY DEF Members
  <1>3. MembersAreLive' /\ ReleasedOnce'
    BY <1>1, <1>2 DEF RecordSetInv, MembersAreLive, ReleasedOnce
  <1>4. SetHolds' /\ RowsHeld'
    BY <1>1, <1>2 DEF RecordSetInv, SetHolds, RowsHeld
  <1> QED  BY <1>3, <1>4 DEF RecordSetInv, Apart

LEMMA CursorInRange ==
    ASSUME RecordSetTypeOK, m_vecRecord \in Seq(Nat), NEW n \in 0 .. MaxLen
    PROVE  MoveTo(m_vecRecord, n) \in -1 .. MaxLen
  <1>1. Len(m_vecRecord) \in Nat /\ MaxLen \in Nat
    <2>1. MaxLen \in Nat
      BY RecordSetAssumption DEF RecordSetAssumption
    <2> QED  BY <2>1, LenProperties
  <1>2. CASE m_vecRecord = <<>>
    BY <1>1, <1>2 DEF MoveTo
  <1>3. CASE m_vecRecord # <<>> /\ n >= Len(m_vecRecord)
    <2>1. MoveTo(m_vecRecord, n) = Len(m_vecRecord) - 1
      BY <1>3 DEF MoveTo
    <2> QED  BY <1>1, <1>3, <2>1
  <1>4. CASE m_vecRecord # <<>> /\ ~(n >= Len(m_vecRecord))
    <2>1. MoveTo(m_vecRecord, n) = n
      BY <1>4 DEF MoveTo
    <2> QED  BY <1>1, <2>1
  <1> QED  BY <1>2, <1>3, <1>4

(* The type of a record, and what Update of one can end in. *)
LEMMA UpdateEnds == \A r : UpdateRecord(r) \in {None, "KeyName"}
  BY DEF UpdateRecord

(* What the caller does to the records, the cursor and the session. *)
LEMMA MoveKeeps ==
    ASSUME RecordSetInv, NEW n \in 0 .. MaxLen, Move(n)
    PROVE  RecordSetInv'
  <1>1. RecordSetTypeOK /\ m_vecRecord \in Seq(Nat)
    BY DEF RecordSetInv
  <1>2. m_nCursor' \in -1 .. MaxLen
    BY <1>1, CursorInRange DEF Move
  <1>3. RecordSetTypeOK'
    BY <1>1, <1>2 DEF RecordSetTypeOK, Move, Members
  <1>4. set = "live" /\ aborted = None
    BY DEF Move, Usable, Running
  <1> QED  BY <1>3, <1>4, EditKeeps DEF Move, None

LEMMA SetFieldKeeps ==
    ASSUME RecordSetInv, NEW r \in DOMAIN record, NEW f \in Fields, SetField(r, f)
    PROVE  RecordSetInv'
  <1> DEFINE DbRecord == [state : {"live", "freed"}, key : Keys \cup {NoKey}, changed : SUBSET Fields]
             edited == [record[r] EXCEPT !.changed = record[r].changed \cup {f}]
  <1>1. record \in Seq(DbRecord)
    BY DEF RecordSetInv, RecordSetTypeOK
  <1>2. r \in 1 .. Len(record) /\ record[r] \in DbRecord
    <2> HIDE DEF DbRecord
    <2> QED  BY <1>1, ElementOfSeq
  <1>3. edited \in DbRecord /\ edited.state = record[r].state /\ edited.key = record[r].key
    BY <1>2
  <1>4. record' = [record EXCEPT ![r] = edited]
    BY DEF SetField
  <1> HIDE DEF DbRecord, edited
  <1>5. [record EXCEPT ![r] = edited] \in Seq(DbRecord)
    BY ONLY <1>1, <1>2, <1>3, ExceptSeq
  <1>6. /\ DOMAIN record' = DOMAIN record
        /\ \A q \in DOMAIN record : record'[q].state = record[q].state /\ record'[q].key = record[q].key
    BY <1>1, <1>3, <1>4
  <1>7. RecordSetTypeOK'
    BY <1>4, <1>5, <1>6 DEF RecordSetInv, RecordSetTypeOK, SetField, Members, DbRecord
  <1>8. set = "live" /\ aborted = None
    BY DEF SetField, Usable, Running
  <1> QED  BY <1>6, <1>7, <1>8, EditKeeps DEF SetField, None

LEMMA ClsEditFlagKeeps ==
    ASSUME RecordSetInv, ClsEditFlag
    PROVE  RecordSetInv'
  <1> DEFINE DbRecord == [state : {"live", "freed"}, key : Keys \cup {NoKey}, changed : SUBSET Fields]
             Cleared(r) == IF r \in Members THEN [record[r] EXCEPT !.changed = {}] ELSE record[r]
  <1>1. record \in Seq(DbRecord)
    BY DEF RecordSetInv, RecordSetTypeOK
  <1>2. Len(record) \in Nat /\ DOMAIN record = 1 .. Len(record)
        /\ \A r \in 1 .. Len(record) : record[r] \in DbRecord
    <2> HIDE DEF DbRecord
    <2> QED  BY <1>1, ElementOfSeq, LenProperties
  <1>3. \A r \in 1 .. Len(record) :
            Cleared(r) \in DbRecord /\ Cleared(r).state = record[r].state /\ Cleared(r).key = record[r].key
    BY <1>2
  <1>4. record' = [r \in 1 .. Len(record) |-> Cleared(r)]
    BY <1>2 DEF ClsEditFlag
  <1> HIDE DEF DbRecord, Cleared
  <1>5. [r \in 1 .. Len(record) |-> Cleared(r)] \in Seq(DbRecord)
    BY <1>2, <1>3, IsASeq
  <1>6. /\ DOMAIN record' = DOMAIN record
        /\ \A q \in DOMAIN record : record'[q].state = record[q].state /\ record'[q].key = record[q].key
    BY <1>2, <1>3, <1>4
  <1>7. RecordSetTypeOK'
    BY <1>4, <1>5, <1>6 DEF RecordSetInv, RecordSetTypeOK, ClsEditFlag, Members, DbRecord
  <1>8. set = "live" /\ aborted = None
    BY DEF ClsEditFlag, Usable, Running
  <1> QED  BY <1>6, <1>7, <1>8, EditKeeps DEF ClsEditFlag, None

LEMMA RecordUpdateKeeps ==
    ASSUME RecordSetInv, NEW r, RecordUpdate(r)
    PROVE  RecordSetInv'
  <1>1. aborted' \in {None, "KeyName"} /\ set = "live"
    BY UpdateEnds DEF RecordUpdate, Usable
  <1>2. RecordSetTypeOK'
    BY <1>1 DEF RecordSetInv, RecordSetTypeOK, RecordUpdate, Members
  <1> QED  BY <1>1, <1>2, EditKeeps DEF RecordUpdate, None

LEMMA ReleaseSetKeeps ==
    ASSUME RecordSetInv, ReleaseSet
    PROVE  RecordSetInv'
  <1>1. set = "live" /\ set' = "ending" /\ aborted = None
    BY DEF ReleaseSet, Usable, Running
  <1>2. RecordSetTypeOK'
    BY <1>1 DEF RecordSetInv, RecordSetTypeOK, ReleaseSet, Members
  <1> QED  BY <1>1, <1>2, EditKeeps DEF ReleaseSet, None

LEMMA DestructorEndsKeeps ==
    ASSUME RecordSetInv, DestructorEnds
    PROVE  RecordSetInv'
  <1> USE DEF DestructorEnds
  <1>1. set = "ending" /\ set' = "gone" /\ aborted = None /\ m_vecRecord = <<>> /\ m_vecRecord' = <<>>
    BY DEF Running
  <1>2. RecordSetTypeOK'
    <2>1. MaxLen \in Nat
      BY RecordSetAssumption DEF RecordSetAssumption
    <2>2. 0 \in -1 .. MaxLen
      BY ONLY <2>1
    <2> QED  BY <2>2 DEF RecordSetInv, RecordSetTypeOK, Members
  <1>3. Members = {} /\ Members' = {}
    BY <1>1 DEF Members, Range
  <1>4. \A r : Live(r)' <=> Live(r)
    BY DEF Live
  <1>5. \A r \in DOMAIN record : Live(r) => record[r].key = NoKey
    BY <1>1, <1>3 DEF RecordSetInv, RowsHeld
  <1>6. MembersAreLive' /\ ReleasedOnce' /\ SetHolds' /\ RowsHeld'
    BY <1>1, <1>3, <1>4, <1>5 DEF MembersAreLive, ReleasedOnce, SetHolds, RowsHeld, None
  <1> QED  BY <1>1, <1>2, <1>6 DEF RecordSetInv, Apart

LEMMA SessionChangesKeeps ==
    ASSUME RecordSetInv, SessionChanges \/ UNCHANGED setVars
    PROVE  RecordSetInv'
  <1>1. UNCHANGED <<table, set, m_vecRecord, m_nCursor, m_nKeyIndex, record, twice, aborted>>
        /\ m_bOpen' \in BOOLEAN /\ hasCrossed' \in BOOLEAN
    BY DEF SessionChanges, setVars, RecordSetInv, RecordSetTypeOK
  <1>2. RecordSetTypeOK' /\ m_vecRecord' \in Seq(Nat)
    BY <1>1 DEF RecordSetInv, RecordSetTypeOK, Members
  <1>3. MembersAreLive' /\ ReleasedOnce' /\ SetHolds' /\ RowsHeld' /\ Apart(m_vecRecord, twice)'
    BY <1>1 DEF RecordSetInv, MembersAreLive, ReleasedOnce, SetHolds, RowsHeld, Apart, Members, Live
  <1> QED  BY <1>2, <1>3 DEF RecordSetInv

LEMMA MakeDefRecordKeeps ==
    ASSUME RecordSetInv, MakeDefRecord
    PROVE  RecordSetInv'
  <1> DEFINE DbRecord == [state : {"live", "freed"}, key : Keys \cup {NoKey}, changed : SUBSET Fields]
             new == [state |-> "live", key |-> NoKey, changed |-> {}]
             n == Len(record)
  <1>1. record \in Seq(DbRecord) /\ new \in DbRecord
    BY DEF RecordSetInv, RecordSetTypeOK
  <1>2. new.key = NoKey
    OBVIOUS
  <1>3. record' = Append(record, new)
    BY DEF MakeDefRecord
  <1> HIDE DEF DbRecord, new
  <1>4. n \in Nat /\ DOMAIN record = 1 .. n
    BY <1>1, LenProperties
  <1>5. /\ Append(record, new) \in Seq(DbRecord)
        /\ DOMAIN Append(record, new) = 1 .. n + 1
        /\ \A r \in 1 .. n : Append(record, new)[r] = record[r]
        /\ Append(record, new)[n + 1] = new
    BY ONLY <1>1, AppendProperties, LenProperties
  <1>6. /\ record' \in Seq(DbRecord)
        /\ DOMAIN record \subseteq DOMAIN record'
        /\ \A r \in DOMAIN record : record'[r] = record[r]
        /\ \A r \in DOMAIN record' : r \in DOMAIN record \/ record'[r].key = NoKey
    BY <1>2, <1>3, <1>4, <1>5
  <1>7. \A r \in DOMAIN record : Live(r)' <=> Live(r)
    BY <1>6 DEF Live
  <1>8. set = "live" /\ set' = "live" /\ aborted = None
    BY DEF MakeDefRecord, Usable, Running
  <1>9. Members' = Members /\ Members \subseteq DOMAIN record
    BY DEF MakeDefRecord, Members, RecordSetInv, RecordSetTypeOK
  <1>10. RecordSetTypeOK'
    BY <1>6, <1>9 DEF RecordSetInv, RecordSetTypeOK, MakeDefRecord, DbRecord
  <1>11. MembersAreLive'
    BY <1>7, <1>9 DEF RecordSetInv, MembersAreLive, MakeDefRecord
  <1>12. ReleasedOnce' /\ SetHolds'
    BY <1>8 DEF ReleasedOnce, SetHolds, MakeDefRecord, None
  <1>13. RowsHeld'
    BY <1>6, <1>7, <1>8, <1>9 DEF RecordSetInv, RowsHeld
  <1> QED  BY <1>10, <1>11, <1>12, <1>13 DEF RecordSetInv, Apart, MakeDefRecord

(* A record that goes to the end of the vector stands in it twice if it    *)
(* was there.                                                              *)
LEMMA AppendIs ==
    ASSUME NEW vec \in Seq(Nat), NEW r \in Nat, NEW S, Apart(vec, S)
    PROVE  /\ Append(vec, r) \in Seq(Nat)
           /\ Range(Append(vec, r)) = Range(vec) \cup {r}
           /\ Apart(Append(vec, r), IF r \in Range(vec) THEN S \cup {r} ELSE S)
  <1> DEFINE A == Append(vec, r)
             T == IF r \in Range(vec) THEN S \cup {r} ELSE S
  <1>1. Len(vec) \in Nat /\ DOMAIN vec = 1 .. Len(vec)
    BY LenProperties
  <1>2. /\ A \in Seq(Nat) /\ DOMAIN A = 1 .. Len(vec) + 1
        /\ \A i \in 1 .. Len(vec) : A[i] = vec[i]
        /\ A[Len(vec) + 1] = r
    BY AppendProperties, LenProperties
  <1> HIDE DEF A
  <1>3. /\ DOMAIN vec \subseteq DOMAIN A /\ \A i \in DOMAIN vec : A[i] = vec[i]
        /\ \A i \in DOMAIN A : i \in DOMAIN vec \/ i = Len(vec) + 1
        /\ Len(vec) + 1 \in DOMAIN A
    BY <1>1, <1>2
  <1>4. Range(A) = Range(vec) \cup {r}
    BY <1>2, <1>3 DEF Range
  <1>5. Apart(A, T)
    <2> SUFFICES ASSUME NEW i \in DOMAIN A, NEW j \in DOMAIN A, i # j, A[i] = A[j]
                 PROVE  A[i] \in T
      BY DEF Apart
    <2>1. CASE i \in DOMAIN vec /\ j \in DOMAIN vec
      <3>1. vec[i] \in S
        BY <1>3, <2>1 DEF Apart
      <3> QED  BY <1>3, <2>1, <3>1
    <2>2. CASE i = Len(vec) + 1 /\ j \in DOMAIN vec
      <3>1. r \in Range(vec)
        BY <1>2, <1>3, <2>2 DEF Range
      <3> QED  BY <1>2, <2>2, <3>1
    <2>3. CASE j = Len(vec) + 1 /\ i \in DOMAIN vec
      <3>1. r \in Range(vec)
        BY <1>2, <1>3, <2>3 DEF Range
      <3> QED  BY <1>2, <2>3, <3>1
    <2> QED  BY <1>3, <2>1, <2>2, <2>3
  <1> QED  BY <1>2, <1>4, <1>5 DEF A

LEMMA InsertRecordKeeps ==
    ASSUME RecordSetInv, NEW r \in DOMAIN record, InsertRecord(r)
    PROVE  RecordSetInv'
  <1>1. set = "live" /\ set' = "live" /\ aborted = None /\ aborted' = aborted /\ record' = record /\ Live(r)
    BY DEF InsertRecord, Usable, Running
  <1>2. r \in Nat /\ m_vecRecord \in Seq(Nat) /\ Apart(m_vecRecord, twice)
        /\ twice \subseteq DOMAIN record /\ Members \subseteq DOMAIN record
    <2>1. DOMAIN record = 1 .. Len(record)
      BY LenProperties DEF RecordSetInv, RecordSetTypeOK
    <2>2. Len(record) \in Nat
      BY LenProperties DEF RecordSetInv, RecordSetTypeOK
    <2> QED  BY <2>1, <2>2 DEF RecordSetInv, RecordSetTypeOK
  <1>3. \/ m_vecRecord' = m_vecRecord /\ twice' = twice
        \/ m_vecRecord' = Append(m_vecRecord, r) /\ twice' = IF r \in Members THEN twice \cup {r} ELSE twice
    BY DEF InsertRecord
  <1>4. /\ m_vecRecord' \in Seq(Nat)
        /\ Members \subseteq Members' /\ Members' \subseteq Members \cup {r}
        /\ Apart(m_vecRecord, twice)'
        /\ twice \subseteq twice' /\ twice' \subseteq DOMAIN record
    <2>1. CASE m_vecRecord' = m_vecRecord /\ twice' = twice
      BY <1>2, <2>1 DEF Members, Apart
    <2>2. CASE m_vecRecord' = Append(m_vecRecord, r) /\ twice' = IF r \in Members THEN twice \cup {r} ELSE twice
      <3>1. /\ Append(m_vecRecord, r) \in Seq(Nat)
            /\ Range(Append(m_vecRecord, r)) = Members \cup {r}
            /\ Apart(Append(m_vecRecord, r), IF r \in Members THEN twice \cup {r} ELSE twice)
        BY <1>2, AppendIs DEF Members
      <3>2. Members' = Members \cup {r} /\ Apart(m_vecRecord, twice)'
        BY <2>2, <3>1 DEF Members, Apart
      <3> QED  BY <1>2, <2>2, <3>1, <3>2
    <2> QED  BY <1>3, <2>1, <2>2
  <1>5. \A q : Live(q)' <=> Live(q)
    BY <1>1 DEF Live
  <1>6. RecordSetTypeOK'
    BY <1>1, <1>2, <1>4 DEF RecordSetInv, RecordSetTypeOK, InsertRecord
  <1>7. MembersAreLive' /\ RowsHeld'
    BY <1>1, <1>4, <1>5 DEF RecordSetInv, MembersAreLive, RowsHeld
  <1>8. ReleasedOnce' /\ SetHolds'
    BY <1>1 DEF ReleasedOnce, SetHolds, None
  <1> QED  BY <1>4, <1>6, <1>7, <1>8 DEF RecordSetInv

(* The vector of the set, after ~DbRecord. *)
LEMMA WithoutKeeps ==
    ASSUME RecordSetInv, NEW r
    PROVE  /\ Without(m_vecRecord, r) \in Seq(Nat)
           /\ Range(Without(m_vecRecord, r)) \subseteq Members
           /\ Members \ {r} \subseteq Range(Without(m_vecRecord, r))
           /\ Apart(Without(m_vecRecord, r), twice)
           /\ r \in Range(Without(m_vecRecord, r)) => r \in twice
  <1>1. m_vecRecord \in Seq(Nat) /\ Apart(m_vecRecord, twice)
    BY DEF RecordSetInv
  <1> QED  BY <1>1, WithoutIs DEF Members

LEMMA DeleteRecordKeeps ==
    ASSUME RecordSetInv, NEW r \in DOMAIN record, NEW archive \in BOOLEAN, DeleteRecord(r, archive)
    PROVE  RecordSetInv'
  <1>1. /\ set = "live" /\ set' = "live" /\ aborted = None /\ aborted' \in {None, "KeyName"} /\ Live(r)
        /\ UNCHANGED <<m_bOpen, hasCrossed, set, m_nCursor, m_nKeyIndex, twice>>
    BY DEF DeleteRecord, Usable, Running
  <1>2. table' \subseteq Keys
    BY DEF RecordSetInv, RecordSetTypeOK, DeleteRecord
  <1>3. CASE record' = record /\ m_vecRecord' = m_vecRecord
    <2>1. RecordSetTypeOK'
      BY <1>1, <1>2, <1>3 DEF RecordSetInv, RecordSetTypeOK, Members
    <2> QED  BY <1>1, <1>3, <2>1, EditKeeps DEF None
  <1>4. CASE ~(record' = record /\ m_vecRecord' = m_vecRecord)
    <2> DEFINE once == Without(m_vecRecord, r)
               both == Without(once, r)
    <2>1. record' = [record EXCEPT ![r].state = "freed"] /\ m_vecRecord' = both
      BY <1>4 DEF DeleteRecord
    <2>2. /\ once \in Seq(Nat) /\ Range(once) \subseteq Members
          /\ Members \ {r} \subseteq Range(once) /\ Apart(once, twice)
          /\ r \in Range(once) => r \in twice
      BY WithoutKeeps
    <2> HIDE DEF once
    <2>3. /\ both \in Seq(Nat) /\ Range(both) \subseteq Range(once)
          /\ Range(once) \ {r} \subseteq Range(both) /\ Apart(both, twice)
          /\ r \in Range(both) => r \in twice
      BY <2>2, WithoutIs
    <2> HIDE DEF both
    <2>4. /\ m_vecRecord' \in Seq(Nat) /\ Members' \subseteq Members
          /\ Members \ {r} \subseteq Members' /\ Apart(m_vecRecord, twice)'
          /\ r \in Members' => r \in twice
      <3>1. Members' = Range(both)
        BY <2>1 DEF Members
      <3>2. Apart(m_vecRecord, twice)'
        BY <1>1, <2>1, <2>3 DEF Apart
      <3> QED  BY <2>1, <2>2, <2>3, <3>1, <3>2
    <2> QED  BY <1>1, <1>2, <2>1, <2>4, ReleaseKeeps
  <1> QED  BY <1>3, <1>4

(* A record is released into the set it came from. *)
LEMMA LeaveKeeps ==
    ASSUME RecordSetInv, NEW r \in DOMAIN record, Live(r), set \in {"live", "ending"},
           record' = [record EXCEPT ![r].state = "freed"], m_vecRecord' = Without(m_vecRecord, r),
           aborted' = UpdateRecord(r),
           UNCHANGED <<m_bOpen, hasCrossed, table, set, m_nCursor, m_nKeyIndex, twice>>
    PROVE  RecordSetInv'
  <1> DEFINE left == Without(m_vecRecord, r)
  <1>1. /\ left \in Seq(Nat) /\ Range(left) \subseteq Members
        /\ Members \ {r} \subseteq Range(left) /\ Apart(left, twice)
        /\ r \in Range(left) => r \in twice
    BY WithoutKeeps
  <1>2. m_vecRecord' = left
    OBVIOUS
  <1> HIDE DEF left
  <1>3. Members' = Range(left)
    BY <1>2 DEF Members
  <1>4. Apart(m_vecRecord, twice)'
    BY <1>1, <1>2 DEF Apart
  <1>5. aborted' \in {None, "KeyName", "SetGone"} /\ table' \subseteq Keys
    BY UpdateEnds DEF RecordSetInv, RecordSetTypeOK
  <1> QED  BY <1>1, <1>2, <1>3, <1>4, <1>5, ReleaseKeeps

LEMMA ReleaseRecordKeeps ==
    ASSUME RecordSetInv, NEW r \in DOMAIN record, ReleaseRecord(r)
    PROVE  RecordSetInv'
  <1>1. /\ Live(r) /\ record' = [record EXCEPT ![r].state = "freed"]
        /\ UNCHANGED <<m_bOpen, hasCrossed, table, set, m_nCursor, m_nKeyIndex, twice>>
        /\ set \in {"live", "gone"}
    BY DEF ReleaseRecord
  <1>2. CASE set = "gone"
    <2>1. m_vecRecord' = m_vecRecord /\ m_vecRecord = <<>> /\ aborted' = "SetGone"
      BY <1>2 DEF ReleaseRecord, RecordSetInv, SetHolds
    <2>2. Members = {} /\ Members' = {}
      BY <2>1 DEF Members, Range
    <2>3. m_vecRecord' \in Seq(Nat) /\ Apart(m_vecRecord, twice)' /\ table' \subseteq Keys
      BY <1>1, <2>1 DEF RecordSetInv, Apart, RecordSetTypeOK
    <2> QED  BY <1>1, <1>2, <2>1, <2>2, <2>3, ReleaseKeeps
  <1>3. CASE set = "live"
    <2>1. m_vecRecord' = Without(m_vecRecord, r) /\ aborted' = UpdateRecord(r)
      BY <1>3 DEF ReleaseRecord
    <2> QED  BY <1>1, <1>3, <2>1, LeaveKeeps
  <1> QED  BY <1>1, <1>2, <1>3

(* A round of the loop of ~DbRecordSet frees a record that is there, or    *)
(* one that was inserted twice.                                            *)
LEMMA DestructorStepKeeps ==
    ASSUME RecordSetInv, DestructorStep
    PROVE  RecordSetInv'
  <1> DEFINE r == Last(m_vecRecord)
  <1>1. /\ set = "ending" /\ m_vecRecord # <<>> /\ aborted = None
        /\ UNCHANGED <<m_bOpen, hasCrossed, table, set, m_nCursor, m_nKeyIndex, twice>>
    BY DEF DestructorStep, Running
  <1>2. r \in Members /\ r \in DOMAIN record
    <2>1. m_vecRecord \in Seq(Nat)
      BY DEF RecordSetInv
    <2>2. Len(m_vecRecord) \in DOMAIN m_vecRecord
      BY <1>1, <2>1
    <2>3. r \in Members
      BY <2>2 DEF Last, Members, Range
    <2> QED  BY <2>3 DEF RecordSetInv, RecordSetTypeOK
  <1>3. \/ /\ Live(r) /\ record' = [record EXCEPT ![r].state = "freed"]
           /\ m_vecRecord' = Without(m_vecRecord, r) /\ aborted' = UpdateRecord(r)
        \/ ~Live(r) /\ aborted' = "DoubleFree" /\ UNCHANGED <<record, m_vecRecord>>
    BY DEF DestructorStep
  <1> HIDE DEF r
  <1>4. CASE Live(r)
    BY <1>1, <1>2, <1>3, <1>4, LeaveKeeps
  <1>5. CASE ~Live(r)
    <2>1. twice # {}
      BY <1>2, <1>5 DEF RecordSetInv, MembersAreLive
    <2>2. UNCHANGED <<record, m_vecRecord, Members>> /\ aborted' = "DoubleFree"
      BY <1>3, <1>5 DEF Members
    <2>3. \A q : Live(q)' <=> Live(q)
      BY <2>2 DEF Live
    <2>4. RecordSetTypeOK'
      BY <1>1, <2>2 DEF RecordSetInv, RecordSetTypeOK
    <2>5. MembersAreLive' /\ ReleasedOnce' /\ SetHolds' /\ RowsHeld'
      BY <1>1, <2>1, <2>2, <2>3 DEF RecordSetInv, MembersAreLive, ReleasedOnce, SetHolds, RowsHeld
    <2>6. Apart(m_vecRecord, twice)' /\ m_vecRecord' \in Seq(Nat)
      BY <1>1, <2>2 DEF RecordSetInv, Apart
    <2> QED  BY <2>4, <2>5, <2>6 DEF RecordSetInv
  <1> QED  BY <1>4, <1>5

-----------------------------------------------------------------------------
LEMMA RecordSetInitInv == RecordSetInit => RecordSetInv
  <1> SUFFICES ASSUME RecordSetInit PROVE RecordSetInv
    OBVIOUS
  <1>1. MaxLen \in Nat
    BY RecordSetAssumption DEF RecordSetAssumption
  <1>2. 0 \in -1 .. MaxLen
    BY ONLY <1>1
  <1>3. m_vecRecord = <<>> /\ record = <<>> /\ twice = {} /\ set = "none" /\ aborted = None
    BY DEF RecordSetInit
  <1>4. Members = {}
    BY <1>3 DEF Members, Range
  <1>5. RecordSetTypeOK
    <2>1. record \in Seq([state : {"live", "freed"}, key : Keys \cup {NoKey}, changed : SUBSET Fields])
      BY <1>3, EmptySeq
    <2>2. Members \subseteq DOMAIN record /\ twice \subseteq DOMAIN record
      BY <1>3, <1>4
    <2>3. m_nCursor \in -1 .. MaxLen /\ m_nKeyIndex \in {0, Invalid}
      BY <1>2 DEF RecordSetInit
    <2>4. table \subseteq Keys /\ m_bOpen \in BOOLEAN /\ hasCrossed \in BOOLEAN
      BY DEF RecordSetInit
    <2> QED  BY <1>3, <2>1, <2>2, <2>3, <2>4 DEF RecordSetTypeOK
  <1>6. MembersAreLive /\ ReleasedOnce /\ SetHolds /\ RowsHeld
    BY <1>3, <1>4 DEF MembersAreLive, ReleasedOnce, SetHolds, RowsHeld, None
  <1> QED  BY <1>3, <1>5, <1>6 DEF RecordSetInv, Apart

LEMMA RecordSetStepInv == RecordSetInv /\ [RecordSetNext]_setVars => RecordSetInv'
  <1> SUFFICES ASSUME RecordSetInv, [RecordSetNext]_setVars PROVE RecordSetInv'
    OBVIOUS
  <1>1. CASE UNCHANGED setVars
    BY <1>1, SessionChangesKeeps
  <1>2. CASE \E keyed \in BOOLEAN : Create(SetToSeq(table), keyed)
    BY <1>2, CreateKeeps
  <1>3. CASE \E n \in 0 .. MaxLen : Move(n)
    BY <1>3, MoveKeeps
  <1>4. CASE \E r \in DOMAIN record : \E f \in Fields : SetField(r, f)
    BY <1>4, SetFieldKeeps
  <1>5. CASE \E r \in DOMAIN record : RecordUpdate(r)
    BY <1>5, RecordUpdateKeeps
  <1>6. CASE \E r \in DOMAIN record : InsertRecord(r)
    BY <1>6, InsertRecordKeeps
  <1>7. CASE \E r \in DOMAIN record : ReleaseRecord(r)
    BY <1>7, ReleaseRecordKeeps
  <1>8. CASE \E r \in DOMAIN record : \E archive \in BOOLEAN : DeleteRecord(r, archive)
    BY <1>8, DeleteRecordKeeps
  <1>9. CASE ClsEditFlag \/ MakeDefRecord \/ ReleaseSet
    BY <1>9, ClsEditFlagKeeps, MakeDefRecordKeeps, ReleaseSetKeeps
  <1>10. CASE DestructorStep \/ DestructorEnds \/ SessionChanges
    BY <1>10, DestructorStepKeeps, DestructorEndsKeeps, SessionChangesKeeps
  <1> QED
    BY <1>1, <1>2, <1>3, <1>4, <1>5, <1>6, <1>7, <1>8, <1>9, <1>10 DEF RecordSetNext

(* The inductive invariant of a set and its records holds in every state,  *)
(* for any table and any number of records.                                *)
THEOREM RecordSetInvariant == RecordSetSpec => []RecordSetInv
  <1> QED  BY RecordSetInitInv, RecordSetStepInv, PTL DEF RecordSetSpec

(* Whatever a callback does with its rows, m_vecRecord names records that  *)
(* are there, but for one that InsertRecord was given a second time.       *)
THEOREM MembersStayLive == RecordSetSpec => []MembersAreLive
  <1>1. RecordSetInv => MembersAreLive
    BY DEF RecordSetInv
  <1> QED  BY RecordSetInvariant, <1>1, PTL

(* ~DbRecordSet releases no record twice and leaves none of its query      *)
(* behind.                                                                 *)
THEOREM RecordsReleasedOnce == RecordSetSpec => []ReleasedOnce
  <1>1. RecordSetInv => ReleasedOnce
    BY DEF RecordSetInv
  <1> QED  BY RecordSetInvariant, <1>1, PTL

-----------------------------------------------------------------------------
(* The cursor of a set.                                                    *)

(* The place of the cursor, when there is a record under it. *)
LEMMA CursorAt ==
    ASSUME RecordSetInv, Current # Nobody
    PROVE  /\ m_vecRecord \in Seq(Nat)
           /\ m_nCursor + 1 \in 1 .. Len(m_vecRecord)
           /\ Current = m_vecRecord[m_nCursor + 1]
  <1>1. m_vecRecord \in Seq(Nat)
    BY DEF RecordSetInv
  <1>2. DOMAIN m_vecRecord = 1 .. Len(m_vecRecord)
    BY <1>1, LenProperties
  <1> QED  BY <1>1, <1>2 DEF Current

(* A vector that is the same up to the cursor has the same record there. *)
LEMMA CursorRests ==
    ASSUME RecordSetInv, Current # Nobody, NEW w \in Seq(Nat),
           m_vecRecord' = w, m_nCursor' = m_nCursor,
           m_nCursor + 1 <= Len(w), w[m_nCursor + 1] = m_vecRecord[m_nCursor + 1]
    PROVE  Current' = Current
  <1> DEFINE c == m_nCursor + 1
  <1>1. c \in 1 .. Len(m_vecRecord) /\ Current = m_vecRecord[c] /\ m_vecRecord \in Seq(Nat)
    BY CursorAt
  <1>2. Len(m_vecRecord) \in Nat /\ Len(w) \in Nat /\ DOMAIN w = 1 .. Len(w)
    BY <1>1, LenProperties
  <1>3. c <= Len(w)
    OBVIOUS
  <1>4. c \in DOMAIN w
    <2> HIDE DEF c
    <2> QED  BY <1>1, <1>2, <1>3
  <1>5. Current' = w[c]
    BY <1>4 DEF Current
  <1> QED  BY <1>1, <1>5

(* A record that goes leaves those in front of its first place where they  *)
(* were.                                                                   *)
LEMMA WithoutBehind ==
    ASSUME NEW vec \in Seq(Nat), NEW r, NEW n \in 1 .. Len(vec), \A i \in 1 .. n : vec[i] # r
    PROVE  /\ Without(vec, r) \in Seq(Nat)
           /\ n \in 1 .. Len(Without(vec, r))
           /\ \A i \in 1 .. n : Without(vec, r)[i] = vec[i]
  <1> DEFINE W == Without(vec, r)
  <1>1. CASE r \notin Range(vec)
    <2>1. W = vec
      BY <1>1 DEF Without, RemoveFirst, Range
    <2> QED  BY <2>1
  <1>2. CASE r \in Range(vec)
    <2>1. PICK k \in 1 .. Len(vec) : vec[k] = r /\ W = RemoveAt(vec, k)
      BY <1>2, FirstPlace
    <2> HIDE DEF W
    <2>2. /\ W \in Seq(Nat) /\ Len(W) = Len(vec) - 1
          /\ \A i \in 1 .. Len(vec) - 1 : W[i] = vec[IF i < k THEN i ELSE i + 1]
      BY <2>1, RemoveAtIs
    <2>3. Len(vec) \in Nat
      BY LenProperties
    <2>4. ~(k <= n)
      BY <2>1, <2>3
    <2>5. n <= Len(vec) - 1
      BY <2>3, <2>4
    <2>6. ASSUME NEW i \in 1 .. n PROVE W[i] = vec[i]
      <3>1. i \in 1 .. Len(vec) - 1 /\ i < k
        BY <2>3, <2>4, <2>5
      <3> QED  BY <2>2, <3>1
    <2>7. n \in 1 .. Len(W)
      BY <2>2, <2>3, <2>5
    <2> QED  BY <2>2, <2>6, <2>7 DEF W
  <1> QED  BY <1>1, <1>2

(* A record that is freed and leaves the vector, from one place or from    *)
(* two, was at the cursor or before it, or the cursor keeps its record.    *)
LEMMA CursorOutlives ==
    ASSUME RecordSetInv, Current # Nobody, NEW r \in DOMAIN record, Live(r),
           record' = [record EXCEPT ![r].state = "freed"], m_nCursor' = m_nCursor,
           \/ m_vecRecord' = m_vecRecord
           \/ m_vecRecord' = Without(m_vecRecord, r)
           \/ m_vecRecord' = Without(Without(m_vecRecord, r), r)
    PROVE  Current' = Current \/ \E q \in UpToCursor : Live(q) /\ ~Live(q)'
  <1> DEFINE n == m_nCursor + 1
             once == Without(m_vecRecord, r)
             both == Without(once, r)
  <1>1. n \in 1 .. Len(m_vecRecord) /\ m_vecRecord \in Seq(Nat)
    BY CursorAt
  <1>2. ~Live(r)'
    <2> DEFINE DbRecord == [state : {"live", "freed"}, key : Keys \cup {NoKey}, changed : SUBSET Fields]
    <2>1. record \in Seq(DbRecord)
      BY DEF RecordSetInv, RecordSetTypeOK
    <2>2. record[r] \in DbRecord
      <3> HIDE DEF DbRecord
      <3> QED  BY <2>1, LenProperties
    <2>3. record'[r].state = "freed"
      <3>1. record'[r] = [record[r] EXCEPT !.state = "freed"]
        <4> HIDE DEF DbRecord
        <4> QED  BY <2>1
      <3> QED  BY <2>2, <3>1
    <2>4. record'[r].state # "live"
      BY <2>3
    <2> QED  BY <2>4 DEF Live
  <1>3. CASE r \in UpToCursor
    BY <1>2, <1>3
  <1>4. CASE r \notin UpToCursor
    <2>1. \A i \in 1 .. n : m_vecRecord[i] # r
      BY <1>4 DEF UpToCursor
    <2> HIDE DEF n
    <2>2. /\ once \in Seq(Nat) /\ n \in 1 .. Len(once)
          /\ \A i \in 1 .. n : once[i] = m_vecRecord[i]
      BY <1>1, <2>1, WithoutBehind
    <2> HIDE DEF once
    <2>3. \A i \in 1 .. n : once[i] # r
      BY <2>1, <2>2
    <2>4. /\ both \in Seq(Nat) /\ n \in 1 .. Len(both)
          /\ \A i \in 1 .. n : both[i] = once[i]
      BY <2>2, <2>3, WithoutBehind
    <2> HIDE DEF both
    <2>5. n \in 1 .. n
      BY <1>1, LenProperties
    <2>6. CASE m_vecRecord' = m_vecRecord
      BY <2>6 DEF Current
    <2>7. CASE m_vecRecord' = once
      <3>1. n <= Len(once) /\ once[n] = m_vecRecord[n]
        BY <2>2, <2>5, LenProperties
      <3> QED  BY <2>2, <2>7, <3>1, CursorRests DEF n
    <2>8. CASE m_vecRecord' = both
      <3>1. n <= Len(both) /\ both[n] = m_vecRecord[n]
        BY <2>2, <2>4, <2>5, LenProperties
      <3> QED  BY <2>4, <2>8, <3>1, CursorRests DEF n
    <2> QED  BY <2>6, <2>7, <2>8 DEF once, both
  <1> QED  BY <1>3, <1>4

(* A record that is pushed goes behind the cursor. *)
LEMMA InsertKeepsCursor ==
    ASSUME RecordSetInv, Current # Nobody, NEW r \in DOMAIN record, InsertRecord(r)
    PROVE  Current' = Current
  <1> DEFINE n == m_nCursor + 1
  <1>1. n \in 1 .. Len(m_vecRecord) /\ m_vecRecord \in Seq(Nat)
    BY CursorAt
  <1>2. m_nCursor' = m_nCursor /\ m_vecRecord' \in {m_vecRecord, Append(m_vecRecord, r)}
    BY DEF InsertRecord
  <1>3. CASE m_vecRecord' = m_vecRecord
    BY <1>2, <1>3 DEF Current
  <1>4. CASE m_vecRecord' = Append(m_vecRecord, r)
    <2>1. r \in Nat
      <3>1. DOMAIN record = 1 .. Len(record) /\ Len(record) \in Nat
        BY LenProperties DEF RecordSetInv, RecordSetTypeOK
      <3> QED  BY <3>1
    <2> DEFINE w == Append(m_vecRecord, r)
    <2>2. Len(m_vecRecord) \in Nat
      BY <1>1, LenProperties
    <2> HIDE DEF n
    <2>3. w \in Seq(Nat) /\ Len(w) = Len(m_vecRecord) + 1
          /\ \A i \in 1 .. Len(m_vecRecord) : w[i] = m_vecRecord[i]
      BY <1>1, <2>1, AppendProperties
    <2> HIDE DEF w
    <2>4. n <= Len(w) /\ w[n] = m_vecRecord[n]
      BY <1>1, <2>2, <2>3
    <2>5. m_vecRecord' = w
      BY <1>4 DEF w
    <2> QED  BY <1>2, <2>3, <2>4, <2>5, CursorRests DEF n
  <1> QED  BY <1>2, <1>3, <1>4

(* GetRecord gives the record a caller has moved to, whatever it inserts,  *)
(* makes, deletes or releases behind it, for any number of records.        *)
THEOREM CursorKept == RecordSetSpec => CursorStays
  <1> DEFINE Kept == \/ Current' = Current
                     \/ \E n \in 0 .. MaxLen : Move(n)
                     \/ \E r \in UpToCursor : Live(r) /\ ~Live(r)'
  <1>1. ASSUME RecordSetInv, [RecordSetNext]_setVars, Current # Nobody PROVE Kept
    <2>1. CASE UNCHANGED <<m_vecRecord, m_nCursor>>
      BY <2>1 DEF Current
    <2>2. CASE \E keyed \in BOOLEAN : Create(SetToSeq(table), keyed)
      <3>1. record = <<>>
        <4>1. set = "none"
          BY <2>2 DEF Create
        <4> QED  BY <1>1, <4>1 DEF RecordSetInv, SetHolds
      <3>2. m_vecRecord[m_nCursor + 1] \in Members
        BY <1>1, CursorAt DEF Members, Range
      <3>3. Members \subseteq DOMAIN record
        BY <1>1 DEF RecordSetInv, RecordSetTypeOK
      <3> QED  BY <3>1, <3>2, <3>3
    <2>3. CASE \E n \in 0 .. MaxLen : Move(n)
      BY <2>3
    <2>4. CASE \E r \in DOMAIN record : InsertRecord(r)
      BY <1>1, <2>4, InsertKeepsCursor
    <2>5. CASE \E r \in DOMAIN record : ReleaseRecord(r)
      <3>1. PICK r \in DOMAIN record : ReleaseRecord(r)
        BY <2>5
      <3>2. /\ Live(r) /\ record' = [record EXCEPT ![r].state = "freed"] /\ m_nCursor' = m_nCursor
            /\ m_vecRecord' = m_vecRecord \/ m_vecRecord' = Without(m_vecRecord, r)
        BY <3>1 DEF ReleaseRecord
      <3> QED  BY <1>1, <3>2, CursorOutlives
    <2>6. CASE \E r \in DOMAIN record : \E archive \in BOOLEAN : DeleteRecord(r, archive)
      <3>1. PICK r \in DOMAIN record : \E archive \in BOOLEAN : DeleteRecord(r, archive)
        BY <2>6
      <3>2. /\ Live(r) /\ m_nCursor' = m_nCursor
            /\ \/ m_vecRecord' = m_vecRecord
               \/ /\ record' = [record EXCEPT ![r].state = "freed"]
                  /\ m_vecRecord' = Without(Without(m_vecRecord, r), r)
        BY <3>1 DEF DeleteRecord
      <3>3. CASE m_vecRecord' = m_vecRecord
        BY <3>2, <3>3, <2>1
      <3> QED  BY <1>1, <3>2, <3>3, CursorOutlives
    <2>7. CASE DestructorStep
      <3> DEFINE r == Last(m_vecRecord)
      <3>1. m_nCursor' = m_nCursor
            /\ \/ /\ Live(r) /\ record' = [record EXCEPT ![r].state = "freed"]
                  /\ m_vecRecord' = Without(m_vecRecord, r)
               \/ m_vecRecord' = m_vecRecord
        BY <2>7 DEF DestructorStep
      <3> HIDE DEF r
      <3>2. CASE m_vecRecord' = m_vecRecord
        BY <3>1, <3>2, <2>1
      <3>3. CASE m_vecRecord' # m_vecRecord
        <4>1. r \in DOMAIN record
          BY <3>1, <3>3 DEF Live
        <4> QED  BY <1>1, <3>1, <3>3, <4>1, CursorOutlives
      <3> QED  BY <3>2, <3>3
    <2>8. CASE DestructorEnds
      <3>1. m_vecRecord = <<>>
        BY <2>8 DEF DestructorEnds
      <3> QED  BY <1>1, <3>1, CursorAt
    <2> QED
      BY <1>1, <2>1, <2>2, <2>3, <2>4, <2>5, <2>6, <2>7, <2>8
         DEF RecordSetNext, setVars, SetField, RecordUpdate, ClsEditFlag, MakeDefRecord,
             ReleaseSet, SessionChanges
  <1>2. RecordSetInv /\ [RecordSetNext]_setVars => [Current # Nobody => Kept]_setVars
    BY <1>1
  <1> QED  BY <1>2, RecordSetInvariant, PTL DEF RecordSetSpec, CursorStays

=============================================================================
