--------------------------- MODULE UtilitiesProofs ---------------------------
(***************************************************************************)
(* The four data structures that MCUtilities checks, which share nothing.  *)
(* The pool of sessions (ObjPool): objects are kept apart by their blocks  *)
(* and marks and no block is lost, for any size of the slices and any      *)
(* number of objects.  The pool of small blocks (MemoryPool): for any      *)
(* sizes, any number of chunks and any order of malloc and free, each free *)
(* block is on the chain of its pool once.  The reader of tables           *)
(* (ResourceBuffer): of any table, the columns read from a row are its     *)
(* flagged ones, in order.  The digest (Md5Digest): of any message, cut    *)
(* into any pieces, for blocks of any size.                                *)
(***************************************************************************)
EXTENDS ObjPool, MemoryPool, ResourceBuffer, Md5Digest, SequenceTheorems, FiniteSetTheorems,
        WellFoundedInduction, TLAPS

PoolTypeOK ==
    /\ m_staMemSlices \in 0 .. MaxSlices
    /\ m_staBlocks \in Seq(Block)
    /\ m_setUsingBlocks \subseteq Block
    /\ info \in [Block -> [bUsing : BOOLEAN, nMark : Nat]]
    /\ objects \subseteq [block : Block, mark : Nat, lives : BOOLEAN]
    /\ poolDead \in BOOLEAN

\* A block on the stack is in no caller's hands, and lies there once; a block
\* that is in no caller's hands lies there.
StackIsFree ==
    /\ \A i \in 1 .. Len(m_staBlocks) : m_staBlocks[i] \notin m_setUsingBlocks /\ m_staBlocks[i][1] =< m_staMemSlices
    /\ \A i, j \in 1 .. Len(m_staBlocks) : m_staBlocks[i] = m_staBlocks[j] => i = j
    /\ \A b \in m_setUsingBlocks : b[1] =< m_staMemSlices
    /\ \A b \in Block : b[1] =< m_staMemSlices => b \in m_setUsingBlocks \/ \E i \in 1 .. Len(m_staBlocks) : m_staBlocks[i] = b

\* The mark of a block is that of its last object, the block is in use as long
\* as that one lives, and each object there had a mark of its own.
MarksCount ==
    /\ s_setBlocks = m_setUsingBlocks
    /\ \A b \in Block : info[b].bUsing <=> b \in m_setUsingBlocks
    /\ \A o \in objects :
          /\ o.mark =< info[o.block].nMark /\ o.mark # 0
          /\ o.lives => o.block \in m_setUsingBlocks /\ o.mark = info[o.block].nMark
          /\ ~o.lives => o.block \notin m_setUsingBlocks \/ o.mark < info[o.block].nMark
    /\ \A o, p \in objects : o.block = p.block /\ o.mark = p.mark => o = p
    /\ \A b \in m_setUsingBlocks : \E o \in objects : o.block = b /\ o.lives

PoolInv == PoolTypeOK /\ (~poolDead => StackIsFree /\ MarksCount)

-----------------------------------------------------------------------------
(* The blocks of a new slice are blocks, each once, and of that slice.          *)
LEMMA EnlargedProperties ==
    ASSUME m_staMemSlices \in Nat, m_staMemSlices < MaxSlices
    PROVE  /\ Enlarged \in Seq(Block) /\ Len(Enlarged) = BlockNumPerSlice
           /\ \A i \in 1 .. BlockNumPerSlice : Enlarged[i] = <<m_staMemSlices + 1, i - 1>>
           /\ \A i \in 1 .. BlockNumPerSlice : Enlarged[i][1] = m_staMemSlices + 1
           /\ \A i, j \in 1 .. BlockNumPerSlice : Enlarged[i] = Enlarged[j] => i = j
           /\ \A b \in Block : b[1] = m_staMemSlices + 1 => \E i \in 1 .. BlockNumPerSlice : Enlarged[i] = b
  <1> USE PoolAssumption
  <1>1. \A i \in 1 .. BlockNumPerSlice : <<m_staMemSlices + 1, i - 1>> \in Block
    BY DEF Block
  <1>2. Enlarged \in [1 .. BlockNumPerSlice -> Block]
    BY <1>1 DEF Enlarged
  <1>3. Enlarged \in Seq(Block) /\ Len(Enlarged) = BlockNumPerSlice
    BY <1>2, SeqDef, LenProperties
  <1>4. \A i \in 1 .. BlockNumPerSlice : Enlarged[i] = <<m_staMemSlices + 1, i - 1>>
    BY DEF Enlarged
  <1>5. \A i, j \in 1 .. BlockNumPerSlice : <<m_staMemSlices + 1, i - 1>> = <<m_staMemSlices + 1, j - 1>> => i = j
    OBVIOUS
  <1>6. ASSUME NEW b \in Block, b[1] = m_staMemSlices + 1
        PROVE  \E i \in 1 .. BlockNumPerSlice : Enlarged[i] = b
    <2>1. b = <<b[1], b[2]>> /\ b[2] \in 0 .. BlockNumPerSlice - 1
      BY DEF Block
    <2>2. b[2] + 1 \in 1 .. BlockNumPerSlice /\ (b[2] + 1) - 1 = b[2]
      BY <2>1
    <2>3. Enlarged[b[2] + 1] = <<m_staMemSlices + 1, (b[2] + 1) - 1>>
      BY <1>4, <2>2
    <2> QED
      BY <1>6, <2>1, <2>2, <2>3
  <1> QED
    BY <1>3, <1>4, <1>5, <1>6

(* The first state has the invariant. *)
LEMMA PoolInvInit == PoolInit => PoolInv
  <1> SUFFICES ASSUME PoolInit PROVE PoolInv
    OBVIOUS
  <1>1. m_staBlocks \in Seq(Block) /\ Len(m_staBlocks) = 0
    BY EmptySeq DEF PoolInit
  <1>2. PoolTypeOK
    <2>1. info \in [Block -> [bUsing : BOOLEAN, nMark : Nat]]
      BY DEF PoolInit
    <2>2. m_staMemSlices \in 0 .. MaxSlices
      BY PoolAssumption DEF PoolInit
    <2>3. objects = {} /\ m_setUsingBlocks = {} /\ poolDead \in BOOLEAN
      BY DEF PoolInit
    <2> QED
      BY <1>1, <2>1, <2>2, <2>3 DEF PoolTypeOK
  <1>3. StackIsFree /\ MarksCount
    <2>1. \A b \in Block : ~(b[1] =< 0)
      BY DEF Block
    <2>2. StackIsFree
      BY <1>1, <2>1 DEF PoolInit, StackIsFree
    <2>3. MarksCount
      BY DEF PoolInit, MarksCount
    <2> QED
      BY <2>2, <2>3
  <1> QED
    BY <1>2, <1>3 DEF PoolInv

(* A block taken from the stack, or from a new slice, has no living object.     *)
LEMMA CreateObjKeeps ==
    ASSUME PoolInv, CreateObj
    PROVE  PoolInv'
  <1> DEFINE grow == m_staBlocks = <<>>
             blocks == IF grow THEN Enlarged ELSE m_staBlocks
             b == blocks[Len(blocks)]
             made == [block |-> b, mark |-> info'[b].nMark, lives |-> TRUE]
  <1> USE PoolAssumption
  <1>1. /\ ~poolDead /\ poolDead' = FALSE
        /\ grow => m_staMemSlices < MaxSlices
        /\ m_staMemSlices' = m_staMemSlices + (IF grow THEN 1 ELSE 0)
        /\ m_staBlocks' = SubSeq(blocks, 1, Len(blocks) - 1)
        /\ m_setUsingBlocks' = m_setUsingBlocks \union {b}
        /\ s_setBlocks' = s_setBlocks \union {b}
        /\ info' = [info EXCEPT ![b] = [bUsing |-> TRUE, nMark |-> @.nMark + 1]]
        /\ objects' = objects \union {made}
    BY DEF CreateObj, Marked, PoolInv, PoolTypeOK
  <1>2. PoolTypeOK /\ StackIsFree /\ MarksCount
    BY <1>1 DEF PoolInv
  <1>3. /\ blocks \in Seq(Block) /\ Len(blocks) \in Nat \ {0}
        /\ \A i \in 1 .. Len(blocks) : blocks[i] \notin m_setUsingBlocks /\ blocks[i][1] =< m_staMemSlices'
        /\ \A i, j \in 1 .. Len(blocks) : blocks[i] = blocks[j] => i = j
        /\ \A c \in Block : c[1] =< m_staMemSlices' => c \in m_setUsingBlocks \/ \E i \in 1 .. Len(blocks) : blocks[i] = c
    <2>1. CASE grow
      <3>1. m_staMemSlices \in Nat /\ m_staMemSlices < MaxSlices
        BY <1>1, <1>2, <2>1 DEF PoolTypeOK
      <3>2. blocks = Enlarged /\ m_staMemSlices' = m_staMemSlices + 1
        BY <1>1, <2>1
      <3>3. \A c \in m_setUsingBlocks : c[1] # m_staMemSlices + 1
        BY <1>2, <3>1 DEF StackIsFree, PoolTypeOK, Block
      <3>4. ASSUME NEW c \in Block, c[1] =< m_staMemSlices + 1
            PROVE  c \in m_setUsingBlocks \/ \E i \in 1 .. BlockNumPerSlice : Enlarged[i] = c
        <4>1. c[1] \in Nat /\ (c[1] = m_staMemSlices + 1 \/ c[1] =< m_staMemSlices)
          BY <3>1, <3>4 DEF Block
        <4>2. Len(m_staBlocks) = 0
          BY <2>1, EmptySeq
        <4>3. CASE c[1] = m_staMemSlices + 1
          BY <3>1, <4>3, EnlargedProperties
        <4>4. CASE c[1] =< m_staMemSlices
          BY <1>2, <4>2, <4>4 DEF StackIsFree
        <4> QED
          BY <4>1, <4>3, <4>4
      <3> QED
        BY <3>1, <3>2, <3>3, <3>4, EnlargedProperties
    <2>2. CASE ~grow
      <3>1. blocks = m_staBlocks /\ m_staMemSlices' = m_staMemSlices
        BY <1>1, <1>2, <2>2 DEF PoolTypeOK
      <3>2. Len(m_staBlocks) \in Nat \ {0}
        BY <1>2, <2>2, EmptySeq DEF PoolTypeOK
      <3> QED
        BY <1>2, <3>1, <3>2 DEF StackIsFree, PoolTypeOK
    <2> QED
      BY <2>1, <2>2
  <1>4. b \in Block /\ b \notin m_setUsingBlocks /\ b[1] =< m_staMemSlices'
    BY <1>3, ElementOfSeq
  <1>5. /\ m_staBlocks' \in Seq(Block) /\ Len(m_staBlocks') = Len(blocks) - 1
        /\ \A i \in 1 .. Len(blocks) - 1 : m_staBlocks'[i] = blocks[i]
    BY <1>1, <1>3, SubSeqProperties, ElementOfSeq
  <1>6. info[b].nMark \in Nat /\ info'[b] = [bUsing |-> TRUE, nMark |-> info[b].nMark + 1]
        /\ info' \in [Block -> [bUsing : BOOLEAN, nMark : Nat]]
        /\ \A c \in Block : c # b => info'[c] = info[c]
    <2>1. info \in [Block -> [bUsing : BOOLEAN, nMark : Nat]]
      BY <1>2 DEF PoolTypeOK
    <2>2. info[b] \in [bUsing : BOOLEAN, nMark : Nat] /\ info[b].nMark \in Nat
      BY <1>4, <2>1
    <2> HIDE DEF b
    <2>3. info' = [info EXCEPT ![b] = [bUsing |-> TRUE, nMark |-> info[b].nMark + 1]]
      BY <1>1
    <2>4. [bUsing |-> TRUE, nMark |-> info[b].nMark + 1] \in [bUsing : BOOLEAN, nMark : Nat]
      BY <2>2
    <2> QED
      BY <1>4, <2>1, <2>2, <2>3, <2>4
  <1>7. PoolTypeOK'
    <2>1. made \in [block : Block, mark : Nat, lives : BOOLEAN]
      BY <1>4, <1>6
    <2>2. m_staMemSlices' \in 0 .. MaxSlices
      BY <1>1, <1>2 DEF PoolTypeOK
    <2> QED
      BY <1>1, <1>2, <1>4, <1>5, <1>6, <2>1, <2>2 DEF PoolTypeOK
  <1>8. StackIsFree'
    <2>1. \A i \in 1 .. Len(blocks) - 1 : i \in 1 .. Len(blocks) /\ blocks[i] # b
      BY <1>3
    <2>2. m_staMemSlices =< m_staMemSlices'
      BY <1>1, <1>2 DEF PoolTypeOK
    <2>3. \A c \in m_setUsingBlocks' : c[1] =< m_staMemSlices'
      BY <1>1, <1>2, <1>4, <2>2 DEF StackIsFree, PoolTypeOK, Block
    <2>4. \A i \in 1 .. Len(m_staBlocks') :
             /\ i \in 1 .. Len(blocks) /\ m_staBlocks'[i] = blocks[i] /\ blocks[i] # b
             /\ blocks[i] \notin m_setUsingBlocks /\ blocks[i][1] =< m_staMemSlices'
      BY <1>3, <1>5, <2>1
    <2>5. \A i, j \in 1 .. Len(m_staBlocks') : m_staBlocks'[i] = m_staBlocks'[j] => i = j
      BY <1>3, <2>4
    <2>6. ASSUME NEW c \in Block, c[1] =< m_staMemSlices'
          PROVE  c \in m_setUsingBlocks' \/ \E i \in 1 .. Len(m_staBlocks') : m_staBlocks'[i] = c
      <3>1. CASE c \in m_setUsingBlocks \/ c = b
        BY <1>1, <3>1
      <3>2. CASE c \notin m_setUsingBlocks /\ c # b
        <4>1. PICK i \in 1 .. Len(blocks) : blocks[i] = c
          BY <1>3, <2>6, <3>2
        <4>2. i # Len(blocks)
          BY <3>2, <4>1
        <4> HIDE DEF blocks, b
        <4>3. i \in 1 .. Len(blocks) - 1 /\ i \in 1 .. Len(m_staBlocks')
          BY <1>3, <1>5, <4>2
        <4> QED
          BY <1>5, <4>1, <4>3
      <3> QED
        BY <3>1, <3>2
    <2> HIDE DEF blocks, b
    <2> QED
      BY <1>1, <2>3, <2>4, <2>5, <2>6 DEF StackIsFree
  <1>9. MarksCount'
    <2>1. \A o \in objects : o.block \in Block /\ o.mark \in Nat
      BY <1>2 DEF PoolTypeOK
    <2>2. \A o \in objects : o.mark # 0 /\ (o.block = b => ~o.lives /\ o.mark =< info[b].nMark)
      BY <1>2, <1>4 DEF MarksCount
    <2>3. \A c \in Block : info'[c].bUsing <=> c \in m_setUsingBlocks'
      BY <1>1, <1>2, <1>6 DEF MarksCount
    <2>4. ASSUME NEW o \in objects
          PROVE  /\ o.mark =< info'[o.block].nMark /\ o.mark # 0
                 /\ o.lives => o.block \in m_setUsingBlocks' /\ o.mark = info'[o.block].nMark
                 /\ ~o.lives => o.block \notin m_setUsingBlocks' \/ o.mark < info'[o.block].nMark
      <3>1. CASE o.block = b
        BY <1>6, <2>1, <2>2, <3>1
      <3>2. CASE o.block # b
        BY <1>1, <1>2, <1>6, <2>1, <3>2 DEF MarksCount
      <3> QED
        BY <3>1, <3>2
    <2>5. made.block = b /\ made.mark = info'[b].nMark /\ made.lives /\ made \in objects'
      BY <1>1
    <2>6. made.mark # 0 /\ \A o \in objects : o.block = b => o.mark # made.mark
      BY <1>6, <2>1, <2>2, <2>5
    <2> HIDE DEF made, b
    <2>7. \A o, q \in objects' : o.block = q.block /\ o.mark = q.mark => o = q
      BY <1>1, <1>2, <2>5, <2>6 DEF MarksCount
    <2>8. ASSUME NEW c \in m_setUsingBlocks' PROVE \E o \in objects' : o.block = c /\ o.lives
      BY <1>1, <1>2, <2>5, <2>8 DEF MarksCount
    <2>9. s_setBlocks' = m_setUsingBlocks'
      BY <1>1, <1>2 DEF MarksCount
    <2>10. ASSUME NEW o \in objects'
           PROVE  /\ o.mark =< info'[o.block].nMark /\ o.mark # 0
                  /\ o.lives => o.block \in m_setUsingBlocks' /\ o.mark = info'[o.block].nMark
                  /\ ~o.lives => o.block \notin m_setUsingBlocks' \/ o.mark < info'[o.block].nMark
      <3>1. CASE o \in objects
        BY <2>4, <3>1
      <3>2. CASE o = made
        BY <1>1, <1>6, <2>5, <2>6, <3>2
      <3> QED
        BY <1>1, <3>1, <3>2
    <2> QED
      BY <2>3, <2>7, <2>8, <2>9, <2>10 DEF MarksCount
  <1> QED
    BY <1>7, <1>8, <1>9 DEF PoolInv

(* What lives in a block that is given back is the one object of its mark.      *)
LEMMA DestroyObjKeeps ==
    ASSUME PoolInv, NEW b \in Block, DestroyObj(b)
    PROVE  PoolInv'
  <1> DEFINE After(q) == IF q \in Lives(b) THEN [q EXCEPT !.lives = FALSE] ELSE q
  <1>2. PoolTypeOK /\ StackIsFree /\ MarksCount
    BY DEF PoolInv, DestroyObj
  <1>1. /\ ~poolDead /\ poolDead' = poolDead /\ m_staMemSlices' = m_staMemSlices
        /\ b \in m_setUsingBlocks
        /\ m_staBlocks' = Append(m_staBlocks, b)
        /\ m_setUsingBlocks' = m_setUsingBlocks \ {b}
        /\ info' = [info EXCEPT ![b].bUsing = FALSE]
        /\ s_setBlocks' = s_setBlocks \ {b}
        /\ objects' = {After(q) : q \in objects}
    BY <1>2 DEF DestroyObj, Die, MarksCount
  <1>3. \A q \in objects : q.block \in Block /\ q.mark \in Nat
    BY <1>2 DEF PoolTypeOK
  <1>4. /\ m_staBlocks' \in Seq(Block) /\ Len(m_staBlocks') = Len(m_staBlocks) + 1 /\ Len(m_staBlocks) \in Nat
        /\ \A i \in 1 .. Len(m_staBlocks) : m_staBlocks'[i] = m_staBlocks[i]
        /\ m_staBlocks'[Len(m_staBlocks) + 1] = b
    BY <1>1, <1>2, AppendProperties, LenProperties DEF PoolTypeOK
  <1>5. /\ info' \in [Block -> [bUsing : BOOLEAN, nMark : Nat]]
        /\ \A c \in Block : info'[c].nMark = info[c].nMark
        /\ \A c \in Block : info'[c].bUsing <=> info[c].bUsing /\ c # b
    BY <1>1, <1>2 DEF PoolTypeOK
  <1>6. ASSUME NEW q \in objects
        PROVE  /\ After(q).block = q.block /\ After(q).mark = q.mark
               /\ After(q) \in [block : Block, mark : Nat, lives : BOOLEAN]
               /\ After(q).lives <=> q.lives /\ q.block # b
    <2>1. q \in [block : Block, mark : Nat, lives : BOOLEAN]
      BY <1>2 DEF PoolTypeOK
    <2>2. q \in Lives(b) <=> q.block = b /\ q.lives
      BY DEF Lives
    <2> QED
      BY <2>1, <2>2
  <1> HIDE DEF After
  <1>7. PoolTypeOK'
    BY <1>1, <1>2, <1>4, <1>5, <1>6 DEF PoolTypeOK
  <1>8. StackIsFree'
    <2>1. \A i \in 1 .. Len(m_staBlocks) + 1 : i \in 1 .. Len(m_staBlocks) \/ i = Len(m_staBlocks) + 1
      BY <1>4
    <2>2. \A i \in 1 .. Len(m_staBlocks) : m_staBlocks[i] # b
      BY <1>1, <1>2 DEF StackIsFree
    <2>3. Len(m_staBlocks) + 1 \in 1 .. Len(m_staBlocks') /\ \A i \in 1 .. Len(m_staBlocks) : i \in 1 .. Len(m_staBlocks')
      BY <1>4
    <2>4. \A c \in Block : c[1] =< m_staMemSlices' =>
              c \in m_setUsingBlocks' \/ \E i \in 1 .. Len(m_staBlocks') : m_staBlocks'[i] = c
      BY <1>1, <1>2, <1>4, <2>3 DEF StackIsFree
    <2>5. \A c \in m_setUsingBlocks' : c[1] =< m_staMemSlices'
      BY <1>1, <1>2 DEF StackIsFree
    <2>6. \A i \in 1 .. Len(m_staBlocks') : m_staBlocks'[i] \notin m_setUsingBlocks' /\ m_staBlocks'[i][1] =< m_staMemSlices'
      BY <1>1, <1>2, <1>4, <2>1 DEF StackIsFree
    <2>7. \A i, j \in 1 .. Len(m_staBlocks') : m_staBlocks'[i] = m_staBlocks'[j] => i = j
      BY <1>1, <1>2, <1>4, <2>1, <2>2 DEF StackIsFree
    <2> QED
      BY <2>4, <2>5, <2>6, <2>7 DEF StackIsFree
  <1>9. MarksCount'
    <2>1. ASSUME NEW q \in objects
          PROVE  /\ After(q).mark =< info'[After(q).block].nMark /\ After(q).mark # 0
                 /\ After(q).lives => /\ After(q).block \in m_setUsingBlocks'
                                      /\ After(q).mark = info'[After(q).block].nMark
                 /\ ~After(q).lives => \/ After(q).block \notin m_setUsingBlocks'
                                       \/ After(q).mark < info'[After(q).block].nMark
      BY <1>1, <1>2, <1>3, <1>5, <1>6 DEF MarksCount
    <2>2. ASSUME NEW o \in objects', NEW q \in objects', o.block = q.block, o.mark = q.mark PROVE o = q
      <3>1. PICK o1 \in objects, q1 \in objects : o = After(o1) /\ q = After(q1)
        BY <1>1
      <3>2. o1.block = q1.block /\ o1.mark = q1.mark
        BY <1>6, <2>2, <3>1
      <3> QED
        BY <1>2, <3>1, <3>2 DEF MarksCount
    <2>3. ASSUME NEW c \in m_setUsingBlocks' PROVE \E o \in objects' : o.block = c /\ o.lives
      <3>1. PICK q \in objects : q.block = c /\ q.lives
        BY <1>1, <1>2 DEF MarksCount
      <3>2. After(q) \in objects' /\ After(q).block = c /\ After(q).lives
        BY <1>1, <1>6, <3>1
      <3> QED
        BY <3>2
    <2>4. \A c \in Block : info'[c].bUsing <=> c \in m_setUsingBlocks'
      BY <1>1, <1>2, <1>5 DEF MarksCount
    <2>5. s_setBlocks' = m_setUsingBlocks'
      BY <1>1, <1>2 DEF MarksCount
    <2> QED
      BY <1>1, <2>1, <2>2, <2>3, <2>4, <2>5 DEF MarksCount
  <1> QED
    BY <1>1, <1>7, <1>8, <1>9 DEF PoolInv

(* The end of the pool: nothing is promised of it any more.                     *)
LEMMA PoolDestructorKeeps ==
    ASSUME PoolInv, PoolDestructor
    PROVE  PoolInv'
  <1>1. objects' \subseteq [block : Block, mark : Nat, lives : BOOLEAN]
    BY DEF PoolInv, PoolTypeOK, PoolDestructor, Die
  <1>2. m_staBlocks' \in Seq(Block)
    BY EmptySeq DEF PoolDestructor
  <1> QED
    BY <1>1, <1>2, PoolAssumption DEF PoolInv, PoolTypeOK, PoolDestructor

(* Every step of the pool keeps its invariant. *)
LEMMA PoolInvStep == PoolInv /\ [PoolNext]_poolVars => PoolInv'
  <1> SUFFICES ASSUME PoolInv, [PoolNext]_poolVars PROVE PoolInv'
    OBVIOUS
  <1>1. CASE UNCHANGED poolVars
    BY <1>1 DEF poolVars, PoolInv, PoolTypeOK, StackIsFree, MarksCount
  <1>2. CASE PoolNext
    <2>1. \A o \in objects : o.block \in Block
      BY DEF PoolInv, PoolTypeOK
    <2> QED
      BY <1>2, <2>1, CreateObjKeeps, DestroyObjKeeps, PoolDestructorKeeps DEF PoolNext
  <1> QED
    BY <1>1, <1>2

(* The inductive invariant holds in every reachable state.                      *)
THEOREM PoolInvariant == PoolSpec => []PoolInv
  BY PoolInvInit, PoolInvStep, PTL DEF PoolSpec

(* ObjPool.h:58, 294: whatever pointers objects are destroyed by, objects of    *)
(* a block have different marks, a block in use is that of one living object,   *)
(* and every other block is on the stack once.                                  *)
THEOREM KeptApart == PoolSpec => []ObjectsApart
  <1>1. ASSUME PoolTypeOK, StackIsFree, MarksCount
        PROVE  /\ m_setUsingBlocks = {o.block : o \in {p \in objects : p.lives}}
               /\ \A o, p \in objects : o.block = p.block /\ o.lives /\ p.lives => o = p
    BY <1>1 DEF MarksCount
  <1>2. ASSUME PoolTypeOK, StackIsFree
        PROVE  /\ {m_staBlocks[i] : i \in DOMAIN m_staBlocks} = Made \ m_setUsingBlocks
               /\ \A i, j \in DOMAIN m_staBlocks : m_staBlocks[i] = m_staBlocks[j] => i = j
    <2>1. DOMAIN m_staBlocks = 1 .. Len(m_staBlocks)
      BY <1>2, LenProperties DEF PoolTypeOK
    <2>2. \A b \in Block : b \in Made <=> b[1] =< m_staMemSlices
      BY <1>2, PoolAssumption DEF Block, Made, PoolTypeOK
    <2>3. Made \subseteq Block
      BY <1>2, PoolAssumption DEF Block, Made, PoolTypeOK
    <2>4. \A i \in 1 .. Len(m_staBlocks) : m_staBlocks[i] \in Block
      BY <1>2, ElementOfSeq DEF PoolTypeOK
    <2> QED
      BY <1>2, <2>1, <2>2, <2>3, <2>4 DEF StackIsFree
  <1>3. ASSUME PoolTypeOK, MarksCount
        PROVE  \A o \in objects : o.mark # 0 /\ \A p \in objects : o.block = p.block /\ o.mark = p.mark => o = p
    BY <1>3 DEF MarksCount
  <1>4. PoolInv => ObjectsApart
    BY <1>1, <1>2, <1>3 DEF PoolInv, ObjectsApart
  <1> QED
    BY <1>4, PoolInvariant, PTL

-----------------------------------------------------------------------------
(***************************************************************************)
(* The pool of small blocks.  Its chains are pointers; a chain is a        *)
(* function from 1 .. n to the blocks, each free block once.               *)
(***************************************************************************)
IsChain(free, head, link, n, chain) ==
    /\ chain \in [1 .. n -> free]
    /\ \A j, k \in 1 .. n : chain[j] = chain[k] => j = k
    /\ \A b \in free : \E k \in 1 .. n : chain[k] = b
    /\ head = IF n = 0 THEN NULL ELSE chain[1]
    /\ \A k \in 1 .. n : link[chain[k]] = IF k = n THEN NULL ELSE chain[k + 1]

Chained(free, head, link) == \E n \in Nat : \E chain : IsChain(free, head, link, n, chain)

MemTypeOK ==
    /\ m_pMallocChunk \in [Pools -> 0 .. MaxChunks]
    /\ m_pBlockHead \in [Pools -> Blocks \cup {NULL}]
    /\ next \in [Blocks -> Blocks \cup {NULL}]
    /\ held \subseteq [block : Blocks \cup HeapBlocks, size : Sizes]
    /\ heap \subseteq HeapBlocks

\* What a caller holds comes from a chunk that was made, or from the heap, and
\* nobody else holds it.
HeldOnce ==
    /\ \A a \in held :
          /\ a.block \in Blocks => /\ a.block[2] =< m_pMallocChunk[PoolOf(a.block)]
                                   /\ a.size + WordSize =< BlockSize(PoolOf(a.block))
          /\ a.block \notin Blocks => a.block \in heap
    /\ \A a, b \in held : a # b => a.block # b.block

MemInv ==
    /\ MemTypeOK
    /\ HeldOnce
    /\ \A i \in Pools : Chained(FreeOf(i), m_pBlockHead[i], next)

-----------------------------------------------------------------------------
(* A chunk has a block at least.                                                *)
LEMMA BlockCountType == \A i \in Pools : BlockCount(i) \in Nat /\ BlockCount(i) >= 1
  <1> SUFFICES ASSUME NEW i \in Pools PROVE BlockCount(i) \in Nat /\ BlockCount(i) >= 1
    OBVIOUS
  <1>1. i \in 0 .. 15 /\ ChunkSize \in Nat /\ 16 * (i + 1) =< ChunkSize
    BY MemoryAssumption DEF CHUNK_POOL_SIZE, BlockSize, BLOCK_MIN_SIZE
  <1>2. BlockCount(i) = ChunkSize \div (16 * (i + 1))
    BY DEF BlockCount, BlockSize, BLOCK_MIN_SIZE
  <1>3. \/ i = 0 \/ i = 1 \/ i = 2 \/ i = 3 \/ i = 4 \/ i = 5 \/ i = 6 \/ i = 7
        \/ i = 8 \/ i = 9 \/ i = 10 \/ i = 11 \/ i = 12 \/ i = 13 \/ i = 14 \/ i = 15
    BY <1>1
  <1> QED
    BY <1>1, <1>2, <1>3

LEMMA BlockIs ==
    /\ \A i, c, b : b \in BlocksOfChunk(i, c) <=> \E k \in 1 .. BlockCount(i) : b = <<i, c, k>>
    /\ \A b : b \in Blocks <=> \E i \in Pools : \E c \in 1 .. MaxChunks : b \in BlocksOfChunk(i, c)
    /\ \A i, c, b : b \in BlocksOfChunk(i, c) => PoolOf(b) = i /\ b[2] = c
    /\ \A b \in Blocks : PoolOf(b) \in Pools
  <1>1. \A i, c, b : b \in BlocksOfChunk(i, c) <=> \E k \in 1 .. BlockCount(i) : b = <<i, c, k>>
    BY DEF BlocksOfChunk
  <1>2. \A b : b \in Blocks <=> \E i \in Pools : \E c \in 1 .. MaxChunks : b \in BlocksOfChunk(i, c)
    BY DEF Blocks
  <1>3. ASSUME NEW i, NEW c, NEW b, b \in BlocksOfChunk(i, c)
        PROVE  PoolOf(b) = i /\ b[2] = c
    <2>1. PICK k \in 1 .. BlockCount(i) : b = <<i, c, k>>
      BY <1>1, <1>3
    <2> QED
      BY <2>1 DEF PoolOf
  <1> QED
    BY <1>1, <1>2, <1>3

LEMMA NoBlock == NULL \notin Blocks /\ \A b \in HeapBlocks : b \notin Blocks
  <1>1. NULL \notin Blocks
    <2> SUFFICES ASSUME NULL \in Blocks PROVE FALSE
      OBVIOUS
    <2>1. PICK i, c, k : NULL = <<i, c, k>>
      BY BlockIs
    <2>2. Len(NULL) = 0
      BY DEF NULL
    <2>3. Len(<<i, c, k>>) = 3
      OBVIOUS
    <2> QED
      BY <2>1, <2>2, <2>3
  <1>2. \A b \in HeapBlocks : b \notin Blocks
    <2> SUFFICES ASSUME NEW b \in HeapBlocks, b \in Blocks PROVE FALSE
      OBVIOUS
    <2>1. PICK id : b = <<16, id, 0>>
      BY DEF HeapBlocks, CHUNK_POOL_SIZE
    <2>2. b[1] = 16
      BY <2>1
    <2>3. b[1] \in Pools
      BY BlockIs DEF PoolOf
    <2> QED
      BY <2>2, <2>3, MemoryAssumption DEF CHUNK_POOL_SIZE
  <1> QED
    BY <1>1, <1>2

LEMMA FreeIs ==
    \A i, b : b \in FreeOf(i)
        <=> (\E c \in 1 .. m_pMallocChunk[i] : b \in BlocksOfChunk(i, c)) /\ \A a \in held : a.block # b
  BY DEF FreeOf

LEMMA FreeAreBlocks ==
    ASSUME MemTypeOK, NEW i \in Pools
    PROVE  FreeOf(i) \subseteq Blocks /\ \A b \in FreeOf(i) : PoolOf(b) = i /\ b # NULL
  <1>1. m_pMallocChunk[i] \in 0 .. MaxChunks /\ MaxChunks \in Nat
    BY MemoryAssumption DEF MemTypeOK
  <1>2. \A c \in 1 .. m_pMallocChunk[i] : c \in 1 .. MaxChunks
    BY <1>1
  <1>3. FreeOf(i) \subseteq Blocks
    BY <1>2, FreeIs, BlockIs
  <1> QED
    BY <1>3, FreeIs, BlockIs, NoBlock

(* The first block is taken from a chain, a block put in front of it, and a     *)
(* chain stays while its blocks point where they did.                           *)
LEMMA ChainPop ==
    ASSUME NEW free \in SUBSET Blocks, NEW link \in [Blocks -> Blocks \cup {NULL}], NEW head, head # NULL,
           Chained(free, head, link)
    PROVE  head \in free /\ Chained(free \ {head}, link[head], [link EXCEPT ![head] = NULL])
  <1>n. PICK n \in Nat : \E chain : IsChain(free, head, link, n, chain)
    BY DEF Chained
  <1>1. PICK chain : IsChain(free, head, link, n, chain)
    BY <1>n
  <1>2. n >= 1 /\ head = chain[1] /\ 1 \in 1 .. n
    BY <1>1 DEF IsChain
  <1>3. /\ chain \in [1 .. n -> free]
        /\ \A j, k \in 1 .. n : chain[j] = chain[k] => j = k
        /\ \A b \in free : \E k \in 1 .. n : chain[k] = b
        /\ \A k \in 1 .. n : link[chain[k]] = IF k = n THEN NULL ELSE chain[k + 1]
    BY <1>1 DEF IsChain
  <1>4. head \in free
    BY <1>2, <1>3
  <1> DEFINE new == [k \in 1 .. n - 1 |-> chain[k + 1]]
             cut == [link EXCEPT ![head] = NULL]
  <1>5. \A k \in 1 .. n - 1 : k + 1 \in 1 .. n /\ k + 1 # 1 /\ k \in 1 .. n /\ (k = n - 1 <=> k + 1 = n)
    BY <1>2
  <1>6. \A k \in 1 .. n - 1 : new[k] = chain[k + 1] /\ new[k] # head /\ new[k] \in free
    BY <1>2, <1>3, <1>5
  <1>7. new \in [1 .. n - 1 -> free \ {head}]
    BY <1>6
  <1>8. \A j, k \in 1 .. n - 1 : new[j] = new[k] => j = k
    <2> TAKE j, k \in 1 .. n - 1
    <2>1. new[j] = new[k] => j + 1 = k + 1
      BY <1>3, <1>5, <1>6
    <2> QED
      BY <2>1
  <1>9. \A b \in free \ {head} : \E k \in 1 .. n - 1 : new[k] = b
    <2> TAKE b \in free \ {head}
    <2>1. PICK k \in 1 .. n : chain[k] = b
      BY <1>3
    <2>2. k - 1 \in 1 .. n - 1 /\ (k - 1) + 1 = k
      BY <1>2, <2>1
    <2> QED
      BY <1>6, <2>1, <2>2
  <1>10. link[head] = IF n - 1 = 0 THEN NULL ELSE new[1]
    <2>1. CASE n = 1
      BY <1>2, <1>3, <2>1
    <2>2. CASE n # 1
      <3>1. 1 \in 1 .. n - 1 /\ 1 + 1 = 2 /\ n - 1 # 0
        BY <1>2, <2>2
      <3> QED
        BY <1>2, <1>3, <1>6, <2>2, <3>1
    <2> QED
      BY <2>1, <2>2
  <1>11. \A k \in 1 .. n - 1 : cut[new[k]] = IF k = n - 1 THEN NULL ELSE new[k + 1]
    <2> TAKE k \in 1 .. n - 1
    <2>1. cut[new[k]] = link[chain[k + 1]]
      BY <1>6
    <2>2. link[chain[k + 1]] = IF k + 1 = n THEN NULL ELSE chain[(k + 1) + 1]
      BY <1>3, <1>5
    <2>3. k # n - 1 => k + 1 \in 1 .. n - 1
      BY <1>2
    <2> QED
      BY <1>5, <1>6, <2>1, <2>2, <2>3
  <1>12. n - 1 \in Nat
    BY <1>2
  <1> HIDE DEF new, cut
  <1>13. IsChain(free \ {head}, link[head], cut, n - 1, new)
    BY <1>7, <1>8, <1>9, <1>10, <1>11 DEF IsChain
  <1> QED
    BY <1>4, <1>12, <1>13 DEF Chained, cut

LEMMA ChainPush ==
    ASSUME NEW free \in SUBSET Blocks, NEW link \in [Blocks -> Blocks \cup {NULL}], NEW head,
           NEW b \in Blocks \ free, Chained(free, head, link)
    PROVE  Chained(free \cup {b}, b, [link EXCEPT ![b] = head])
  <1>n. PICK n \in Nat : \E chain : IsChain(free, head, link, n, chain)
    BY DEF Chained
  <1>1. PICK chain : IsChain(free, head, link, n, chain)
    BY <1>n
  <1>2. /\ chain \in [1 .. n -> free]
        /\ \A j, k \in 1 .. n : chain[j] = chain[k] => j = k
        /\ \A x \in free : \E k \in 1 .. n : chain[k] = x
        /\ head = IF n = 0 THEN NULL ELSE chain[1]
        /\ \A k \in 1 .. n : link[chain[k]] = IF k = n THEN NULL ELSE chain[k + 1]
    BY <1>1 DEF IsChain
  <1> DEFINE new == [k \in 1 .. n + 1 |-> IF k = 1 THEN b ELSE chain[k - 1]]
             tied == [link EXCEPT ![b] = head]
  <1>3. /\ 1 \in 1 .. n + 1 /\ n + 1 # 0
        /\ \A k \in 1 .. n + 1 : k = 1 \/ (k # 1 /\ k - 1 \in 1 .. n /\ (k - 1) + 1 = k /\ (k = n + 1 <=> k - 1 = n))
        /\ \A k \in 1 .. n : k + 1 \in 1 .. n + 1 /\ k + 1 # 1 /\ (k + 1) - 1 = k
    OBVIOUS
  <1>4. new[1] = b /\ \A k \in 1 .. n + 1 : k # 1 => new[k] = chain[k - 1] /\ new[k] \in free /\ new[k] # b
    BY <1>2, <1>3
  <1>5. new \in [1 .. n + 1 -> free \cup {b}]
    BY <1>2, <1>3
  <1>6. \A j, k \in 1 .. n + 1 : new[j] = new[k] => j = k
    <2> TAKE j, k \in 1 .. n + 1
    <2>1. CASE j = 1 \/ k = 1
      BY <1>4, <2>1
    <2>2. CASE j # 1 /\ k # 1
      <3>1. new[j] = new[k] => j - 1 = k - 1
        BY <1>2, <1>3, <1>4, <2>2
      <3> QED
        BY <3>1
    <2> QED
      BY <2>1, <2>2
  <1>7. \A x \in free \cup {b} : \E k \in 1 .. n + 1 : new[k] = x
    <2> TAKE x \in free \cup {b}
    <2>1. CASE x = b
      BY <1>3, <1>4, <2>1
    <2>2. CASE x \in free
      <3>1. PICK k \in 1 .. n : chain[k] = x
        BY <1>2, <2>2
      <3>2. k + 1 \in 1 .. n + 1 /\ new[k + 1] = x
        BY <1>3, <1>4, <3>1
      <3> QED
        BY <3>2
    <2> QED
      BY <2>1, <2>2
  <1>8. \A k \in 1 .. n + 1 : tied[new[k]] = IF k = n + 1 THEN NULL ELSE new[k + 1]
    <2> TAKE k \in 1 .. n + 1
    <2>1. CASE k = 1
      <3>1. tied[new[k]] = head
        BY <1>4, <2>1
      <3>2. CASE n = 0
        BY <1>2, <2>1, <3>1, <3>2
      <3>3. CASE n # 0
        <4>1. k + 1 \in 1 .. n + 1 /\ k + 1 # 1 /\ (k + 1) - 1 = 1 /\ k # n + 1
          BY <2>1, <3>3
        <4> QED
          BY <1>2, <1>4, <3>1, <3>3, <4>1
      <3> QED
        BY <3>2, <3>3
    <2>2. CASE k # 1
      <3>1. tied[new[k]] = link[chain[k - 1]]
        BY <1>4, <2>2
      <3>2. k - 1 \in 1 .. n /\ (k - 1) + 1 = k /\ (k = n + 1 <=> k - 1 = n)
        BY <1>3, <2>2
      <3>3. link[chain[k - 1]] = IF k - 1 = n THEN NULL ELSE chain[k]
        BY <1>2, <3>2
      <3>4. k # n + 1 => k + 1 \in 1 .. n + 1 /\ k + 1 # 1 /\ (k + 1) - 1 = k
        BY <2>2
      <3> QED
        BY <1>4, <3>1, <3>2, <3>3, <3>4
    <2> QED
      BY <2>1, <2>2
  <1> HIDE DEF new, tied
  <1>9. IsChain(free \cup {b}, b, tied, n + 1, new)
    BY <1>3, <1>4, <1>5, <1>6, <1>7, <1>8 DEF IsChain
  <1>10. n + 1 \in Nat
    OBVIOUS
  <1> QED
    BY <1>9, <1>10 DEF Chained, tied

LEMMA ChainStays ==
    ASSUME NEW free, NEW link, NEW other, NEW head, Chained(free, head, link), \A b \in free : other[b] = link[b]
    PROVE  Chained(free, head, other)
  <1>n. PICK n \in Nat : \E chain : IsChain(free, head, link, n, chain)
    BY DEF Chained
  <1>1. PICK chain : IsChain(free, head, link, n, chain)
    BY <1>n
  <1>2. IsChain(free, head, other, n, chain)
    BY <1>1 DEF IsChain
  <1> QED
    BY <1>2 DEF Chained

-----------------------------------------------------------------------------
LEMMA MemInvInit == MemInit => MemInv
  <1> SUFFICES ASSUME MemInit PROVE MemInv
    OBVIOUS
  <1>1. MemTypeOK
    <2>1. 0 \in 0 .. MaxChunks
      BY MemoryAssumption
    <2> QED
      BY <2>1 DEF MemInit, MemTypeOK
  <1>2. HeldOnce
    BY DEF MemInit, HeldOnce
  <1>3. ASSUME NEW i \in Pools PROVE Chained(FreeOf(i), m_pBlockHead[i], next)
    <2>1. m_pMallocChunk[i] = 0 /\ m_pBlockHead[i] = NULL
      BY <1>3 DEF MemInit
    <2>2. \A b : b \notin FreeOf(i)
      BY <2>1, FreeIs
    <2> DEFINE none == [k \in 1 .. 0 |-> NULL]
    <2>3. none \in [1 .. 0 -> FreeOf(i)] /\ \A k \in 1 .. 0 : FALSE
      OBVIOUS
    <2> HIDE DEF none
    <2>4. IsChain(FreeOf(i), m_pBlockHead[i], next, 0, none)
      BY <2>1, <2>2, <2>3 DEF IsChain
    <2> QED
      BY <2>4 DEF Chained
  <1> QED
    BY <1>1, <1>2, <1>3 DEF MemInv

(* A block of a pool that has free ones is the first of its chain.              *)
LEMMA MallocFreeKeeps ==
    ASSUME MemInv, NEW size \in Sizes, NEW i \in Pools, ChunkMalloc(i, size), m_pBlockHead[i] # NULL,
           size + WordSize =< BlockSize(i)
    PROVE  MemInv'
  <1> DEFINE b == m_pBlockHead[i]
             new == [block |-> b, size |-> size]
  <1>t. MemTypeOK /\ HeldOnce /\ \A j \in Pools : Chained(FreeOf(j), m_pBlockHead[j], next)
    BY DEF MemInv
  <1>s. /\ m_pMallocChunk' = [m_pMallocChunk EXCEPT ![i] = @]
        /\ m_pBlockHead' = [m_pBlockHead EXCEPT ![i] = next[b]]
        /\ next' = [next EXCEPT ![b] = NULL]
        /\ held' = held \cup {new}
        /\ heap' = heap
    BY DEF ChunkMalloc
  <1>f. FreeOf(i) \in SUBSET Blocks /\ \A x \in FreeOf(i) : PoolOf(x) = i
    BY <1>t, FreeAreBlocks
  <1>n. next \in [Blocks -> Blocks \cup {NULL}]
    BY <1>t DEF MemTypeOK
  <1>m. m_pMallocChunk' = m_pMallocChunk
    BY <1>s, <1>t DEF MemTypeOK
  <1>p. b \in FreeOf(i) /\ Chained(FreeOf(i) \ {b}, next[b], [next EXCEPT ![b] = NULL])
    <2> HIDE DEF b
    <2>1. b # NULL /\ Chained(FreeOf(i), b, next)
      BY <1>t DEF b
    <2> QED
      BY <1>f, <1>n, <2>1, ChainPop
  <1> HIDE DEF b
  <1>b. b \in Blocks /\ PoolOf(b) = i /\ b[2] =< m_pMallocChunk[i] /\ \A a \in held : a.block # b
    <2>1. PICK c \in 1 .. m_pMallocChunk[i] : b \in BlocksOfChunk(i, c)
      BY <1>p, FreeIs
    <2>2. b[2] = c
      BY <2>1, BlockIs
    <2>3. m_pMallocChunk[i] \in Nat
      BY <1>t DEF MemTypeOK
    <2> QED
      BY <1>p, <1>f, <2>1, <2>2, <2>3, FreeIs
  <1>1. MemTypeOK'
    <2>1. next[b] \in Blocks \cup {NULL}
      BY <1>b, <1>n
    <2>2. m_pBlockHead' \in [Pools -> Blocks \cup {NULL}]
      BY <1>t, <1>s, <2>1 DEF MemTypeOK
    <2>3. next' \in [Blocks -> Blocks \cup {NULL}]
      BY <1>n, <1>s
    <2>4. new \in [block : Blocks \cup HeapBlocks, size : Sizes]
      BY <1>b
    <2> HIDE DEF new
    <2> QED
      BY <1>t, <1>s, <1>m, <2>2, <2>3, <2>4 DEF MemTypeOK
  <1>2. HeldOnce'
    <2>1. new.block = b /\ new.size = size
      OBVIOUS
    <2> HIDE DEF new
    <2>2. \A a \in held' : a = new \/ a \in held
      BY <1>s
    <2>3. ASSUME NEW a \in held'
          PROVE  /\ a.block \in Blocks => /\ a.block[2] =< m_pMallocChunk[PoolOf(a.block)]
                                          /\ a.size + WordSize =< BlockSize(PoolOf(a.block))
                 /\ a.block \notin Blocks => a.block \in heap
      BY <1>t, <1>b, <2>1, <2>2 DEF HeldOnce
    <2>4. \A x, y \in held' : x # y => x.block # y.block
      BY <1>t, <1>b, <2>1, <2>2 DEF HeldOnce
    <2> QED
      BY <1>s, <1>m, <2>3, <2>4 DEF HeldOnce
  <1>3. ASSUME NEW j \in Pools PROVE Chained(FreeOf(j)', m_pBlockHead'[j], next')
    <2>1. \A x : x \in FreeOf(j)' <=> x \in FreeOf(j) /\ x # b
      <3>1. \A x : x \in FreeOf(j)'
              <=> (\E c \in 1 .. m_pMallocChunk'[j] : x \in BlocksOfChunk(j, c)) /\ \A a \in held' : a.block # x
        BY DEF FreeOf
      <3>2. new.block = b
        OBVIOUS
      <3> HIDE DEF new
      <3> QED
        BY <1>s, <1>m, <3>1, <3>2, FreeIs
    <2>2. CASE j = i
      <3>1. FreeOf(j)' = FreeOf(i) \ {b}
        BY <2>1, <2>2
      <3>2. m_pBlockHead'[j] = next[b]
        BY <1>s, <1>t, <2>2 DEF MemTypeOK
      <3> QED
        BY <1>p, <1>s, <3>1, <3>2
    <2>3. CASE j # i
      <3>1. b \notin FreeOf(j)
        BY <1>t, <1>b, <1>3, <2>3, FreeAreBlocks
      <3>2. FreeOf(j)' = FreeOf(j)
        BY <2>1, <3>1
      <3>3. m_pBlockHead'[j] = m_pBlockHead[j]
        BY <1>s, <1>t, <2>3 DEF MemTypeOK
      <3>4. \A x \in FreeOf(j) : next'[x] = next[x]
        <4>1. FreeOf(j) \subseteq Blocks
          BY <1>t, FreeAreBlocks
        <4> QED
          BY <1>s, <1>n, <3>1, <4>1
      <3>5. Chained(FreeOf(j), m_pBlockHead[j], next)
        BY <1>t
      <3>6. Chained(FreeOf(j), m_pBlockHead[j], next')
        BY <3>4, <3>5, ChainStays
      <3> QED
        BY <3>2, <3>3, <3>6
    <2> QED
      BY <2>2, <2>3
  <1> QED
    BY <1>1, <1>2, <1>3 DEF MemInv

(* Of a pool that has none, it is the first of a new chunk.                     *)
LEMMA MallocChunkKeeps ==
    ASSUME MemInv, NEW size \in Sizes, NEW i \in Pools, ChunkMalloc(i, size), m_pBlockHead[i] = NULL,
           size + WordSize =< BlockSize(i)
    PROVE  MemInv'
  <1> DEFINE c == m_pMallocChunk[i] + 1
             b == <<i, c, 1>>
             N == BlockCount(i)
             filled == InitializeChunk(i, c)
             new == [block |-> b, size |-> size]
             chain == [k \in 1 .. N - 1 |-> <<i, c, k + 1>>]
  <1>t. MemTypeOK /\ HeldOnce /\ \A j \in Pools : Chained(FreeOf(j), m_pBlockHead[j], next)
    BY DEF MemInv
  <1>s. /\ c =< MaxChunks
        /\ m_pMallocChunk' = [m_pMallocChunk EXCEPT ![i] = c]
        /\ m_pBlockHead' = [m_pBlockHead EXCEPT ![i] = filled[b]]
        /\ next' = [filled EXCEPT ![b] = NULL]
        /\ held' = held \cup {new}
        /\ heap' = heap
    BY DEF ChunkMalloc
  <1>n. next \in [Blocks -> Blocks \cup {NULL}]
    BY <1>t DEF MemTypeOK
  <1>c. m_pMallocChunk[i] \in Nat /\ c \in 1 .. MaxChunks /\ c \in Nat
    BY <1>t, <1>s, MemoryAssumption DEF MemTypeOK
  <1>N. N \in Nat /\ N >= 1
    BY BlockCountType
  <1>k. \A k \in 1 .. N : <<i, c, k>> \in BlocksOfChunk(i, c) /\ <<i, c, k>> \in Blocks
    BY <1>c, BlockIs
  <1>b. b \in BlocksOfChunk(i, c) /\ b \in Blocks /\ PoolOf(b) = i /\ b[2] = c
    <2>1. 1 \in 1 .. N
      BY <1>N
    <2>2. b \in BlocksOfChunk(i, c) /\ b \in Blocks
      BY <1>k, <2>1
    <2> HIDE DEF b
    <2> QED
      BY <2>2, BlockIs
  <1>f. filled = [x \in Blocks |-> IF x \in BlocksOfChunk(i, c) /\ x[3] < N THEN <<i, c, x[3] + 1>>
                                   ELSE IF x \in BlocksOfChunk(i, c) THEN NULL ELSE next[x]]
    BY DEF InitializeChunk
  <1> HIDE DEF filled, N
  <1>l. /\ \A k \in 1 .. N : filled[<<i, c, k>>] = IF k = N THEN NULL ELSE <<i, c, k + 1>>
        /\ \A x \in Blocks : x \notin BlocksOfChunk(i, c) => filled[x] = next[x]
    <2>1. \A k \in 1 .. N : filled[<<i, c, k>>] = IF k = N THEN NULL ELSE <<i, c, k + 1>>
      <3> TAKE k \in 1 .. N
      <3> DEFINE x == <<i, c, k>>
      <3>1. x \in Blocks /\ x \in BlocksOfChunk(i, c) /\ x[3] = k
        BY <1>k
      <3> HIDE DEF x
      <3>2. filled[x] = IF k < N THEN <<i, c, k + 1>> ELSE NULL
        BY <1>f, <3>1
      <3>3. k < N <=> k # N
        BY <1>N
      <3> QED
        BY <3>2, <3>3 DEF x
    <2>2. \A x \in Blocks : x \notin BlocksOfChunk(i, c) => filled[x] = next[x]
      BY <1>f
    <2> QED
      BY <2>1, <2>2
  <1>y. filled \in [Blocks -> Blocks \cup {NULL}]
    <2>1. \A x \in Blocks : filled[x] \in Blocks \cup {NULL}
      <3> TAKE x \in Blocks
      <3>1. CASE x \in BlocksOfChunk(i, c)
        <4>1. PICK k \in 1 .. N : x = <<i, c, k>>
          BY <3>1, BlockIs DEF N
        <4>2. k # N => k + 1 \in 1 .. N
          BY <1>N
        <4>3. filled[x] = IF k = N THEN NULL ELSE <<i, c, k + 1>>
          BY <1>l, <4>1
        <4> QED
          BY <1>k, <4>2, <4>3
      <3>2. CASE x \notin BlocksOfChunk(i, c)
        BY <1>l, <1>n, <3>2
      <3> QED
        BY <3>1, <3>2
    <2> QED
      BY <1>f, <2>1
  <1>h. \A a \in held : a.block # b
    <2> SUFFICES ASSUME NEW a \in held, a.block = b PROVE FALSE
      OBVIOUS
    <2>1. a.block[2] =< m_pMallocChunk[i]
      BY <1>t, <1>b DEF HeldOnce
    <2>2. a.block[2] = m_pMallocChunk[i] + 1
      BY <1>b
    <2> QED
      BY <1>c, <2>1, <2>2
  <1>1. MemTypeOK'
    <2>1. m_pMallocChunk' \in [Pools -> 0 .. MaxChunks]
      <3>1. c \in 0 .. MaxChunks
        BY <1>c
      <3> HIDE DEF c
      <3> QED
        BY <1>t, <1>s, <3>1 DEF MemTypeOK
    <2> HIDE DEF b, c
    <2>2. filled[b] \in Blocks \cup {NULL}
      BY <1>b, <1>y
    <2>3. m_pBlockHead' \in [Pools -> Blocks \cup {NULL}]
      BY <1>t, <1>s, <2>2 DEF MemTypeOK
    <2>4. next' \in [Blocks -> Blocks \cup {NULL}]
      BY <1>y, <1>s
    <2>5. new \in [block : Blocks \cup HeapBlocks, size : Sizes]
      BY <1>b
    <2> HIDE DEF new
    <2> QED
      BY <1>t, <1>s, <2>1, <2>3, <2>4, <2>5 DEF MemTypeOK
  <1>g. \A j \in Pools : m_pMallocChunk'[j] = IF j = i THEN c ELSE m_pMallocChunk[j]
    BY <1>s, <1>t DEF MemTypeOK
  <1>2. HeldOnce'
    <2>1. new.block = b /\ new.size = size
      OBVIOUS
    <2> HIDE DEF new, b
    <2>2. \A a \in held' : a = new \/ a \in held
      BY <1>s
    <2>3. ASSUME NEW a \in held', a.block \in Blocks
          PROVE  a.block[2] =< m_pMallocChunk'[PoolOf(a.block)] /\ a.size + WordSize =< BlockSize(PoolOf(a.block))
      <3>1. CASE a = new
        BY <1>b, <1>c, <1>g, <2>1, <3>1
      <3>2. CASE a \in held
        <4>1. /\ a.block[2] =< m_pMallocChunk[PoolOf(a.block)]
              /\ a.size + WordSize =< BlockSize(PoolOf(a.block))
          BY <1>t, <2>3, <3>2 DEF HeldOnce
        <4>2. a.block[2] \in Nat
          <5>1. PICK j \in Pools, d \in 1 .. MaxChunks : a.block \in BlocksOfChunk(j, d)
            BY <2>3, BlockIs
          <5>2. a.block[2] = d
            BY <5>1, BlockIs
          <5> QED
            BY <5>2, MemoryAssumption
        <4>3. PoolOf(a.block) \in Pools
          BY <2>3, BlockIs
        <4> QED
          BY <1>c, <1>g, <4>1, <4>2, <4>3
      <3> QED
        BY <2>2, <3>1, <3>2
    <2>4. \A a \in held' : a.block \notin Blocks => a.block \in heap
      BY <1>t, <1>b, <2>1, <2>2 DEF HeldOnce
    <2>5. \A x, y \in held' : x # y => x.block # y.block
      BY <1>t, <1>h, <2>1, <2>2 DEF HeldOnce
    <2> QED
      BY <1>s, <2>3, <2>4, <2>5 DEF HeldOnce
  <1>3. ASSUME NEW j \in Pools PROVE Chained(FreeOf(j)', m_pBlockHead'[j], next')
    <2>1. \A x : x \in FreeOf(j)'
            <=> (\E d \in 1 .. m_pMallocChunk'[j] : x \in BlocksOfChunk(j, d)) /\ \A a \in held' : a.block # x
      BY DEF FreeOf
    <2>2. \A x : (\A a \in held' : a.block # x) <=> (\A a \in held : a.block # x) /\ x # b
      <3>1. new.block = b
        OBVIOUS
      <3> HIDE DEF new
      <3> QED
        BY <1>s, <3>1
    <2>3. CASE j = i
      <3>1. PICK n \in Nat : \E old : IsChain(FreeOf(i), NULL, next, n, old)
        BY <1>t DEF Chained
      <3>2. PICK old : IsChain(FreeOf(i), NULL, next, n, old)
        BY <3>1
      <3>3. n = 0
        <4> SUFFICES ASSUME n # 0 PROVE FALSE
          OBVIOUS
        <4>1. old[1] = NULL /\ old[1] \in FreeOf(i)
          BY <3>2 DEF IsChain
        <4> QED
          BY <1>t, <4>1, FreeAreBlocks
      <3>4. \A x : x \notin FreeOf(i)
        BY <3>2, <3>3 DEF IsChain
      <3>5. \A x : (\E d \in 1 .. m_pMallocChunk[i] : x \in BlocksOfChunk(i, d)) => \E a \in held : a.block = x
        BY <3>4, FreeIs
      <3>6. \A x : x \in FreeOf(i)' <=> x \in BlocksOfChunk(i, c) /\ x # b
        <4> TAKE x
        <4>1. ASSUME x \in FreeOf(i)'
              PROVE  x \in BlocksOfChunk(i, c) /\ x # b
          <5>1. PICK d \in 1 .. m_pMallocChunk'[i] : x \in BlocksOfChunk(i, d)
            BY <2>1, <2>3, <4>1
          <5>2. (\A a \in held : a.block # x) /\ x # b
            BY <2>1, <2>2, <2>3, <4>1
          <5>3. ~(d \in 1 .. m_pMallocChunk[i])
            BY <3>5, <5>1, <5>2
          <5>4. d = c
            BY <1>c, <1>g, <5>1, <5>3
          <5> QED
            BY <5>1, <5>2, <5>4
        <4>2. ASSUME x \in BlocksOfChunk(i, c), x # b
              PROVE  x \in FreeOf(i)'
          <5>1. c \in 1 .. m_pMallocChunk'[i]
            BY <1>c, <1>g
          <5>2. \A a \in held : a.block # x
            <6> SUFFICES ASSUME NEW a \in held, a.block = x PROVE FALSE
              OBVIOUS
            <6>1. x \in Blocks /\ PoolOf(x) = i /\ x[2] = c
              BY <1>c, <4>2, BlockIs
            <6>2. x[2] =< m_pMallocChunk[i]
              BY <1>t, <6>1 DEF HeldOnce
            <6> QED
              BY <1>c, <6>1, <6>2
          <5> HIDE DEF c, b
          <5> QED
            BY <2>1, <2>2, <2>3, <4>2, <5>1, <5>2
        <4> QED
          BY <4>1, <4>2
      <3>7. \A k \in 1 .. N - 1 : k + 1 \in 1 .. N /\ k + 1 # 1 /\ chain[k] = <<i, c, k + 1>>
        BY <1>N
      <3>8. \A k \in 1 .. N - 1 : chain[k] \in BlocksOfChunk(i, c) /\ chain[k] # b
        BY <1>k, <3>7
      <3>9. chain \in [1 .. N - 1 -> FreeOf(i)']
        BY <3>6, <3>8
      <3>10. \A m, k \in 1 .. N - 1 : chain[m] = chain[k] => m = k
        <4> TAKE m, k \in 1 .. N - 1
        <4>1. chain[m] = chain[k] => m + 1 = k + 1
          BY <3>7
        <4> QED
          BY <4>1
      <3>11. \A x \in FreeOf(i)' : \E k \in 1 .. N - 1 : chain[k] = x
        <4> TAKE x \in FreeOf(i)'
        <4>1. PICK k \in 1 .. N : x = <<i, c, k>>
          BY <3>6, BlockIs DEF N
        <4>2. k # 1
          BY <3>6, <4>1
        <4>3. k - 1 \in 1 .. N - 1 /\ (k - 1) + 1 = k
          BY <1>N, <4>2
        <4> QED
          BY <3>7, <4>1, <4>3
      <3>12. m_pBlockHead'[i] = filled[b]
        BY <1>s, <1>t DEF MemTypeOK
      <3>13. filled[b] = IF N - 1 = 0 THEN NULL ELSE chain[1]
        <4>1. 1 \in 1 .. N /\ (N # 1 => 1 \in 1 .. N - 1 /\ 1 + 1 = 2)
          BY <1>N
        <4>2. filled[b] = IF 1 = N THEN NULL ELSE <<i, c, 1 + 1>>
          BY <1>l, <4>1
        <4> QED
          BY <1>N, <3>7, <4>1, <4>2
      <3>14. \A k \in 1 .. N - 1 : next'[chain[k]] = IF k = N - 1 THEN NULL ELSE chain[k + 1]
        <4> TAKE k \in 1 .. N - 1
        <4>1. chain[k] \in Blocks /\ chain[k] # b
          BY <1>k, <3>7, <3>8
        <4>2. next'[chain[k]] = filled[chain[k]]
          <5> HIDE DEF chain, b
          <5> QED
            BY <1>s, <1>y, <4>1
        <4>3. filled[chain[k]] = IF k + 1 = N THEN NULL ELSE <<i, c, (k + 1) + 1>>
          BY <1>l, <3>7
        <4>4. k # N - 1 => k + 1 \in 1 .. N - 1 /\ k + 1 # N
          BY <1>N
        <4>5. k = N - 1 => k + 1 = N
          BY <1>N
        <4> QED
          BY <3>7, <4>2, <4>3, <4>4, <4>5
      <3>15. N - 1 \in Nat
        BY <1>N
      <3> HIDE DEF chain
      <3>16. IsChain(FreeOf(i)', m_pBlockHead'[i], next', N - 1, chain)
        BY <3>9, <3>10, <3>11, <3>12, <3>13, <3>14 DEF IsChain
      <3> QED
        BY <2>3, <3>15, <3>16 DEF Chained
    <2>4. CASE j # i
      <3>1. \A x : x \in FreeOf(j) => PoolOf(x) = j /\ x \in Blocks
        BY <1>t, FreeAreBlocks
      <3>2. m_pMallocChunk'[j] = m_pMallocChunk[j]
        BY <1>g, <2>4
      <3>3. \A x : (\E d \in 1 .. m_pMallocChunk[j] : x \in BlocksOfChunk(j, d)) => PoolOf(x) = j
        BY BlockIs
      <3>4. \A x : x \in FreeOf(j)' <=> x \in FreeOf(j)
        <4> HIDE DEF b
        <4> QED
          BY <1>b, <2>1, <2>2, <2>4, <3>2, <3>3, FreeIs
      <3>5. FreeOf(j)' = FreeOf(j)
        BY <3>4
      <3>6. m_pBlockHead'[j] = m_pBlockHead[j]
        BY <1>s, <1>t, <2>4 DEF MemTypeOK
      <3>7. \A x \in FreeOf(j) : next'[x] = next[x]
        <4> TAKE x \in FreeOf(j)
        <4>1. x \in Blocks /\ PoolOf(x) = j
          BY <3>1
        <4>2. x \notin BlocksOfChunk(i, c) /\ x # b
          BY <1>b, <2>4, <4>1, BlockIs
        <4> HIDE DEF b, c
        <4> QED
          BY <1>l, <1>s, <1>y, <4>1, <4>2
      <3>8. Chained(FreeOf(j), m_pBlockHead[j], next)
        BY <1>t
      <3>9. Chained(FreeOf(j), m_pBlockHead[j], next')
        BY <3>7, <3>8, ChainStays
      <3> QED
        BY <3>5, <3>6, <3>9
    <2> QED
      BY <2>3, <2>4
  <1> QED
    BY <1>1, <1>2, <1>3 DEF MemInv

(* A request fits in a block of the pool its index names, and a block goes back *)
(* to the pool it came from.                                                    *)
LEMMA IndexFits ==
    /\ \A size \in Nat : GET_CHUNKPOOL_INDEX(size) \in Nat /\ size + WordSize =< BlockSize(GET_CHUNKPOOL_INDEX(size))
    /\ \A i \in Pools : GET_CHUNKPOOL_INDEX(BlockSize(i) - WordSize) = i
  <1>1. ASSUME NEW size \in Nat
        PROVE  GET_CHUNKPOOL_INDEX(size) \in Nat /\ size + WordSize =< BlockSize(GET_CHUNKPOOL_INDEX(size))
    BY DEF GET_CHUNKPOOL_INDEX, WordSize, BLOCK_MIN_SIZE, BlockSize
  <1>2. ASSUME NEW i \in Pools PROVE GET_CHUNKPOOL_INDEX(BlockSize(i) - WordSize) = i
    <2>1. i \in Nat
      BY MemoryAssumption DEF CHUNK_POOL_SIZE
    <2> QED
      BY <2>1 DEF GET_CHUNKPOOL_INDEX, WordSize, BLOCK_MIN_SIZE, BlockSize
  <1> QED
    BY <1>1, <1>2

LEMMA MallocBlockKeeps ==
    ASSUME MemInv, NEW size \in Sizes, MallocBlock(size) PROVE MemInv'
  <1> DEFINE i == GET_CHUNKPOOL_INDEX(size)
  <1>1. i \in Pools /\ size + WordSize =< BlockSize(i) /\ ChunkMalloc(i, size)
    BY MemoryAssumption, IndexFits DEF MallocBlock
  <1> HIDE DEF i
  <1> QED
    BY <1>1, MallocFreeKeeps, MallocChunkKeeps

(* The heap takes no part in the chains.                                        *)
LEMMA MallocHeapKeeps ==
    ASSUME MemInv, NEW size \in Sizes, MallocHeap(size) PROVE MemInv'
  <1>1. PICK p \in HeapBlocks \ heap : /\ heap' = heap \cup {p}
                                       /\ held' = held \cup {[block |-> p, size |-> size]}
    BY DEF MallocHeap
  <1> DEFINE new == [block |-> p, size |-> size]
  <1>2. held' = held \cup {new} /\ new.block = p /\ new.size = size
    BY <1>1
  <1>3. UNCHANGED <<m_pMallocChunk, m_pBlockHead, next>>
    BY DEF MallocHeap
  <1>4. new \in [block : Blocks \cup HeapBlocks, size : Sizes]
    OBVIOUS
  <1> HIDE DEF new
  <1>t. MemTypeOK /\ HeldOnce /\ \A j \in Pools : Chained(FreeOf(j), m_pBlockHead[j], next)
    BY DEF MemInv
  <1>n. p \notin Blocks
    BY NoBlock
  <1>5. MemTypeOK'
    BY <1>1, <1>2, <1>3, <1>4, <1>t DEF MemTypeOK
  <1>6. HeldOnce'
    <2>1. \A a \in held' : a = new \/ a \in held
      BY <1>2
    <2>2. \A a \in held : a.block # p
      BY <1>t, <1>n DEF HeldOnce
    <2>3. \A a \in held' : a.block \in Blocks => /\ a.block[2] =< m_pMallocChunk[PoolOf(a.block)]
                                                 /\ a.size + WordSize =< BlockSize(PoolOf(a.block))
      BY <1>2, <1>n, <1>t, <2>1 DEF HeldOnce
    <2>4. \A a \in held' : a.block \notin Blocks => a.block \in heap'
      BY <1>1, <1>2, <1>t, <2>1 DEF HeldOnce
    <2>5. \A a, b \in held' : a # b => a.block # b.block
      BY <1>2, <1>t, <2>1, <2>2 DEF HeldOnce
    <2>6. m_pMallocChunk' = m_pMallocChunk
      BY <1>3
    <2> QED
      BY <2>3, <2>4, <2>5, <2>6 DEF HeldOnce
  <1>7. ASSUME NEW j \in Pools PROVE Chained(FreeOf(j)', m_pBlockHead'[j], next')
    <2>1. \A x : x \in FreeOf(j)'
            <=> (\E d \in 1 .. m_pMallocChunk'[j] : x \in BlocksOfChunk(j, d)) /\ \A a \in held' : a.block # x
      BY DEF FreeOf
    <2>2. \A x : x \in FreeOf(j) => x # p
      BY <1>t, <1>n, FreeAreBlocks
    <2>3. \A x : x \in FreeOf(j)' <=> x \in FreeOf(j)
      <3>1. \A d \in 1 .. m_pMallocChunk[j] : p \notin BlocksOfChunk(j, d)
        <4>1. m_pMallocChunk[j] \in 0 .. MaxChunks
          BY <1>t DEF MemTypeOK
        <4> QED
          BY <1>n, <4>1, BlockIs, MemoryAssumption
      <3> QED
        BY <1>2, <1>3, <2>1, <2>2, <3>1, FreeIs
    <2>4. FreeOf(j)' = FreeOf(j)
      BY <2>3
    <2> QED
      BY <1>3, <1>t, <2>4
  <1> QED
    BY <1>5, <1>6, <1>7 DEF MemInv

LEMMA FreeHeapKeeps ==
    ASSUME MemInv, NEW a \in held, NEW length \in FrontWords, FreeHeap(a, length) PROVE MemInv'
  <1>1. /\ a.block \in heap /\ held' = held \ {a}
        /\ heap' = heap \/ heap' = heap \ {a.block}
        /\ UNCHANGED <<m_pMallocChunk, m_pBlockHead, next>>
    BY DEF FreeHeap
  <1>t. MemTypeOK /\ HeldOnce /\ \A j \in Pools : Chained(FreeOf(j), m_pBlockHead[j], next)
    BY DEF MemInv
  <1>n. a.block \notin Blocks
    BY <1>1, <1>t, NoBlock DEF MemTypeOK
  <1>2. MemTypeOK'
    BY <1>1, <1>t DEF MemTypeOK
  <1>3. HeldOnce'
    <2>1. \A x \in held' : x \in held /\ x # a
      BY <1>1
    <2>2. \A x \in held' : x.block # a.block
      BY <1>t, <2>1 DEF HeldOnce
    <2>3. \A x \in held' : x.block \in heap => x.block \in heap'
      BY <1>1, <2>2
    <2>4. m_pMallocChunk' = m_pMallocChunk
      BY <1>1
    <2> QED
      BY <1>t, <2>1, <2>3, <2>4 DEF HeldOnce
  <1>4. ASSUME NEW j \in Pools PROVE Chained(FreeOf(j)', m_pBlockHead'[j], next')
    <2>1. \A x : x \in FreeOf(j)'
            <=> (\E d \in 1 .. m_pMallocChunk'[j] : x \in BlocksOfChunk(j, d)) /\ \A b \in held' : b.block # x
      BY DEF FreeOf
    <2>2. \A d \in 1 .. m_pMallocChunk[j] : a.block \notin BlocksOfChunk(j, d)
      <3>1. m_pMallocChunk[j] \in 0 .. MaxChunks
        BY <1>t DEF MemTypeOK
      <3> QED
        BY <1>n, <3>1, BlockIs, MemoryAssumption
    <2>3. \A x : x \in FreeOf(j)' <=> x \in FreeOf(j)
      BY <1>1, <2>1, <2>2, FreeIs
    <2>4. FreeOf(j)' = FreeOf(j)
      BY <2>3
    <2> QED
      BY <1>1, <1>t, <2>4
  <1> QED
    BY <1>2, <1>3, <1>4 DEF MemInv

(* A block that is given back goes to the front of the chain it came from.      *)
LEMMA FreeBlockKeeps ==
    ASSUME MemInv, NEW a \in held, FreeBlock(a) PROVE MemInv'
  <1> DEFINE b == a.block
             i == PoolOf(b)
  <1>t. MemTypeOK /\ HeldOnce /\ \A j \in Pools : Chained(FreeOf(j), m_pBlockHead[j], next)
    BY DEF MemInv
  <1>b. b \in Blocks /\ i \in Pools
    BY BlockIs DEF FreeBlock
  <1>s. /\ next' = [next EXCEPT ![b] = m_pBlockHead[i]]
        /\ m_pBlockHead' = [m_pBlockHead EXCEPT ![i] = b]
        /\ UNCHANGED <<m_pMallocChunk, heap>>
        /\ held' = held \ {a}
    BY <1>b, IndexFits DEF FreeBlock, ChunkFree
  <1>h. /\ \A x \in held : x \in held' <=> x # a
        /\ \A x \in held : x # a => x.block # b
        /\ \A x \in held' : x \in held
    BY <1>s, <1>t DEF HeldOnce
  <1>n. next \in [Blocks -> Blocks \cup {NULL}] /\ m_pBlockHead[i] \in Blocks \cup {NULL}
    BY <1>b, <1>t DEF MemTypeOK
  <1>c. \A j \in Pools : m_pMallocChunk[j] \in 0 .. MaxChunks
    BY <1>t DEF MemTypeOK
  <1>o. \E d \in 1 .. m_pMallocChunk[i] : b \in BlocksOfChunk(i, d)
    <2>1. PICK j \in Pools : \E d \in 1 .. MaxChunks : b \in BlocksOfChunk(j, d)
      BY <1>b, BlockIs
    <2>2. PICK d \in 1 .. MaxChunks : b \in BlocksOfChunk(j, d)
      BY <2>1
    <2>3. j = i /\ b[2] = d
      BY <2>2, BlockIs
    <2>4. b[2] =< m_pMallocChunk[i]
      BY <1>b, <1>t DEF HeldOnce
    <2>5. d \in 1 .. m_pMallocChunk[i]
      BY <1>b, <1>c, <2>3, <2>4, MemoryAssumption
    <2> QED
      BY <2>2, <2>3, <2>5
  <1>m. b = a.block
    OBVIOUS
  <1>i. i = PoolOf(b)
    OBVIOUS
  <1> HIDE DEF b, i
  <1>1. MemTypeOK'
    <2>1. next' \in [Blocks -> Blocks \cup {NULL}]
      BY <1>n, <1>s
    <2>2. m_pBlockHead' \in [Pools -> Blocks \cup {NULL}]
      BY <1>b, <1>s, <1>t DEF MemTypeOK
    <2> QED
      BY <1>s, <1>t, <2>1, <2>2 DEF MemTypeOK
  <1>2. HeldOnce'
    <2>1. m_pMallocChunk' = m_pMallocChunk /\ heap' = heap
      BY <1>s
    <2> QED
      BY <1>h, <1>t, <2>1 DEF HeldOnce
  <1>3. ASSUME NEW j \in Pools PROVE Chained(FreeOf(j)', m_pBlockHead'[j], next')
    <2>1. \A x : x \in FreeOf(j)'
            <=> (\E d \in 1 .. m_pMallocChunk'[j] : x \in BlocksOfChunk(j, d)) /\ \A y \in held' : y.block # x
      BY DEF FreeOf
    <2>2. \A x : (\A y \in held' : y.block # x) <=> (\A y \in held : y.block # x) \/ x = b
      BY <1>h, <1>m
    <2>3. m_pMallocChunk'[j] = m_pMallocChunk[j]
      BY <1>s
    <2>4. \A x : x # b => (x \in FreeOf(j)' <=> x \in FreeOf(j))
      BY <2>1, <2>2, <2>3, FreeIs
    <2>5. b \notin FreeOf(j)
      BY <1>m, FreeIs
    <2>f. FreeOf(j) \in SUBSET Blocks /\ Chained(FreeOf(j), m_pBlockHead[j], next)
      BY <1>t, FreeAreBlocks
    <2>6. CASE j = i
      <3>1. b \in FreeOf(j)'
        BY <1>o, <2>1, <2>2, <2>3, <2>6
      <3>2. FreeOf(j)' = FreeOf(j) \cup {b}
        BY <2>4, <2>5, <3>1
      <3>3. m_pBlockHead'[j] = b
        BY <1>s, <1>t, <2>6 DEF MemTypeOK
      <3>4. b \in Blocks \ FreeOf(j)
        BY <1>b, <2>5
      <3>5. Chained(FreeOf(j) \cup {b}, b, [next EXCEPT ![b] = m_pBlockHead[j]])
        BY <1>n, <2>f, <3>4, ChainPush
      <3> QED
        BY <1>s, <2>6, <3>2, <3>3, <3>5
    <2>7. CASE j # i
      <3>1. b \notin FreeOf(j)'
        BY <1>i, <2>1, <2>7, BlockIs
      <3>2. FreeOf(j)' = FreeOf(j)
        BY <2>4, <2>5, <3>1
      <3>3. m_pBlockHead'[j] = m_pBlockHead[j]
        BY <1>s, <1>t, <2>7 DEF MemTypeOK
      <3>4. \A x \in FreeOf(j) : next'[x] = next[x]
        BY <1>n, <1>s, <2>5, <2>f
      <3>5. Chained(FreeOf(j), m_pBlockHead[j], next')
        BY <2>f, <3>4, ChainStays
      <3> QED
        BY <3>2, <3>3, <3>5
    <2> QED
      BY <2>6, <2>7
  <1> QED
    BY <1>1, <1>2, <1>3 DEF MemInv

LEMMA MemInvStep == MemInv /\ [MemNext]_memVars => MemInv'
  <1> SUFFICES ASSUME MemInv, [MemNext]_memVars PROVE MemInv'
    OBVIOUS
  <1>1. CASE UNCHANGED memVars
    BY <1>1 DEF memVars, MemInv, MemTypeOK, HeldOnce, FreeOf
  <1>2. ASSUME NEW size \in Sizes, MallocBlock(size) PROVE MemInv'
    BY <1>2, MallocBlockKeeps
  <1>3. ASSUME NEW size \in Sizes, MallocHeap(size) PROVE MemInv'
    BY <1>3, MallocHeapKeeps
  <1>4. ASSUME NEW a \in held, FreeBlock(a) PROVE MemInv'
    BY <1>4, FreeBlockKeeps
  <1>5. ASSUME NEW a \in held, NEW length \in FrontWords, FreeHeap(a, length) PROVE MemInv'
    BY <1>5, FreeHeapKeeps
  <1> QED
    BY <1>1, <1>2, <1>3, <1>4, <1>5 DEF MemNext

(* In all that malloc and free do, every free block is once on the chain of its *)
(* pool, and a block in use belongs to one caller.                              *)
THEOREM MemInvariant == MemSpec => []MemInv
  BY MemInvInit, MemInvStep, PTL DEF MemSpec

-----------------------------------------------------------------------------
(* A caller that follows a chain meets each of its blocks, and then NULL.       *)
LEMMA FiniteBlocks == IsFiniteSet(Blocks) /\ Cardinality(Blocks) \in Nat
  <1> DEFINE B(i, c) == BlocksOfChunk(i, c)
             All == {BlocksOfChunk(i, c) : i \in Pools, c \in 1 .. MaxChunks}
  <1>1. ASSUME NEW i \in Pools, NEW c \in 1 .. MaxChunks PROVE IsFiniteSet(BlocksOfChunk(i, c))
    <2>1. BlockCount(i) \in Nat
      BY BlockCountType
    <2> DEFINE f == [k \in 1 .. BlockCount(i) |-> <<i, c, k>>]
    <2>2. f \in Surjection(1 .. BlockCount(i), BlocksOfChunk(i, c))
      BY BlockIs DEF Surjection
    <2>3. IsFiniteSet(1 .. BlockCount(i))
      BY <2>1, FS_Interval
    <2> HIDE DEF f
    <2> QED
      BY <2>2, <2>3, FS_Surjection
  <1>2. IsFiniteSet(Pools) /\ IsFiniteSet(1 .. MaxChunks)
    <2>1. \A a, b \in Int : IsFiniteSet(a .. b)
      BY FS_Interval
    <2>3. 0 \in Int /\ 15 \in Int /\ 1 \in Int /\ MaxChunks \in Int
      BY MemoryAssumption
    <2>4. IsFiniteSet(0 .. 15) /\ IsFiniteSet(1 .. MaxChunks)
      BY <2>1, <2>3
    <2>2. Pools \in SUBSET (0 .. 15)
      BY MemoryAssumption DEF CHUNK_POOL_SIZE
    <2> QED
      BY <2>2, <2>4, FS_Subset
  <1>3. IsFiniteSet(Pools \X (1 .. MaxChunks))
    BY <1>2, FS_Product
  <1> DEFINE g == [p \in Pools \X (1 .. MaxChunks) |-> BlocksOfChunk(p[1], p[2])]
  <1>4. g \in Surjection(Pools \X (1 .. MaxChunks), All)
    <2>1. \A p \in Pools \X (1 .. MaxChunks) : g[p] \in All
      OBVIOUS
    <2>2. \A t \in All : \E p \in Pools \X (1 .. MaxChunks) : g[p] = t
      <3> TAKE t \in All
      <3>1. PICK i \in Pools : \E c \in 1 .. MaxChunks : t = BlocksOfChunk(i, c)
        OBVIOUS
      <3>2. PICK c \in 1 .. MaxChunks : t = BlocksOfChunk(i, c)
        BY <3>1
      <3>3. <<i, c>> \in Pools \X (1 .. MaxChunks) /\ g[<<i, c>>] = t
        BY <3>2
      <3> QED
        BY <3>3
    <2>3. g \in [Pools \X (1 .. MaxChunks) -> All]
      BY <2>1
    <2> QED
      BY <2>2, <2>3 DEF Surjection
  <1>5. \A t \in All : IsFiniteSet(t)
    BY <1>1
  <1>6. Blocks = UNION All
    BY DEF Blocks
  <1> HIDE DEF g, All
  <1>7. IsFiniteSet(All)
    BY <1>3, <1>4, FS_Surjection
  <1>8. IsFiniteSet(Blocks)
    BY <1>5, <1>6, <1>7, FS_UNION
  <1> QED
    BY <1>8, FS_CardinalityType

LEMMA LeastNat ==
    ASSUME NEW S \in SUBSET Nat, S # {}
    PROVE  \E k \in S : \A j \in S : k =< j
  <1> DEFINE R == {p \in Nat \X Nat : p[1] < p[2]}
  <1>1. IsWellFoundedOn(R, Nat)
    BY NatLessThanWellFounded DEF OpToRel
  <1> HIDE DEF R
  <1>2. PICK k \in S : \A j \in S : ~(<<j, k>> \in R)
    BY <1>1, WFMin
  <1>3. \A j \in S : k =< j
    <2> TAKE j \in S
    <2>1. j \in Nat /\ k \in Nat
      OBVIOUS
    <2>2. ~(j < k)
      BY <1>2, <2>1 DEF R
    <2> QED
      BY <2>1, <2>2
  <1> QED
    BY <1>3

LEMMA WalkFollows ==
    ASSUME NEW i, NEW n \in Nat, NEW chain, IsChain(FreeOf(i), m_pBlockHead[i], next, n, chain),
           n =< Cardinality(Blocks), Cardinality(Blocks) \in Nat, \A b \in FreeOf(i) : b # NULL
    PROVE  \A k \in 0 .. n : Walk(i)[k] = IF k < n THEN chain[k + 1] ELSE NULL
  <1> DEFINE D == 0 .. Cardinality(Blocks)
             f == [k \in D |-> IF k < n THEN chain[k + 1] ELSE NULL]
             Step(w, k) == IF k = 0 THEN m_pBlockHead[i] ELSE IF w[k - 1] = NULL THEN NULL ELSE next[w[k - 1]]
  <1>1. f = [k \in D |-> IF k = 0 THEN m_pBlockHead[i] ELSE IF f[k - 1] = NULL THEN NULL ELSE next[f[k - 1]]]
    <2>1. ASSUME NEW k \in D
          PROVE  f[k] = IF k = 0 THEN m_pBlockHead[i] ELSE IF f[k - 1] = NULL THEN NULL ELSE next[f[k - 1]]
      <3>c. /\ chain \in [1 .. n -> FreeOf(i)]
            /\ m_pBlockHead[i] = IF n = 0 THEN NULL ELSE chain[1]
            /\ \A j \in 1 .. n : next[chain[j]] = IF j = n THEN NULL ELSE chain[j + 1]
        BY DEF IsChain
      <3>1. CASE k = 0
        <4>1. f[0] = IF 0 < n THEN chain[0 + 1] ELSE NULL
          BY <3>1
        <4>2. 0 + 1 = 1 /\ (0 < n <=> n # 0)
          OBVIOUS
        <4> QED
          BY <3>1, <3>c, <4>1, <4>2
      <3>2. CASE k # 0 /\ k =< n
        <4>1. k - 1 \in D /\ k - 1 < n /\ (k - 1) + 1 = k /\ k \in 1 .. n /\ (k < n <=> k # n)
          BY <3>2
        <4>2. f[k - 1] = chain[k] /\ chain[k] # NULL
          BY <3>c, <4>1
        <4>3. f[k] = IF k = n THEN NULL ELSE chain[k + 1]
          BY <4>1
        <4> QED
          BY <3>2, <3>c, <4>1, <4>2, <4>3
      <3>3. CASE k # 0 /\ k > n
        <4>1. k - 1 \in D /\ ~(k - 1 < n) /\ ~(k < n)
          BY <3>3
        <4>2. f[k - 1] = NULL /\ f[k] = NULL
          BY <4>1
        <4> QED
          BY <3>3, <4>2
      <3> QED
        BY <3>1, <3>2, <3>3
    <2> DEFINE G == [k \in D |-> IF k = 0 THEN m_pBlockHead[i] ELSE IF f[k - 1] = NULL THEN NULL ELSE next[f[k - 1]]]
    <2>2. \A k \in D : f[k] = G[k]
      BY <2>1
    <2>3. f = [k \in D |-> f[k]] /\ G = [k \in D |-> G[k]]
      OBVIOUS
    <2> HIDE DEF f, G, D
    <2>4. f = G
      BY <2>2, <2>3
    <2> QED
      BY <2>4 DEF G
  <1> HIDE DEF f
  <1> DEFINE w == Walk(i)
  <1>2. w = [k \in D |-> IF k = 0 THEN m_pBlockHead[i] ELSE IF w[k - 1] = NULL THEN NULL ELSE next[w[k - 1]]]
    BY <1>1 DEF Walk
  <1> HIDE DEF w
  <1> DEFINE Bad == {k \in D : w[k] # f[k]}
  <1>3. Bad = {}
    <2> SUFFICES ASSUME Bad # {} PROVE FALSE
      OBVIOUS
    <2>1. Bad \in SUBSET Nat
      OBVIOUS
    <2>2. PICK k \in Bad : \A j \in Bad : k =< j
      <3> HIDE DEF Bad
      <3> QED
        BY <2>1, LeastNat
    <2>3. k \in D /\ k \in Nat /\ w[k] # f[k]
      OBVIOUS
    <2>4. /\ w[k] = IF k = 0 THEN m_pBlockHead[i] ELSE IF w[k - 1] = NULL THEN NULL ELSE next[w[k - 1]]
          /\ f[k] = IF k = 0 THEN m_pBlockHead[i] ELSE IF f[k - 1] = NULL THEN NULL ELSE next[f[k - 1]]
      <3> HIDE DEF D, Bad
      <3> QED
        BY <1>1, <1>2, <2>3
    <2>5. CASE k = 0
      BY <2>3, <2>4, <2>5
    <2>6. CASE k # 0
      <3>1. k - 1 \in D /\ ~(k =< k - 1)
        BY <2>3, <2>6
      <3>2. w[k - 1] = f[k - 1]
        BY <2>2, <3>1
      <3> QED
        BY <2>3, <2>4, <2>6, <3>2
    <2> QED
      BY <2>5, <2>6
  <1>4. ASSUME NEW k \in 0 .. n PROVE Walk(i)[k] = IF k < n THEN chain[k + 1] ELSE NULL
    <2>1. k \in D
      OBVIOUS
    <2>2. w[k] = f[k]
      BY <1>3, <2>1
    <2>3. f[k] = IF k < n THEN chain[k + 1] ELSE NULL
      BY <2>1 DEF f
    <2> QED
      BY <2>2, <2>3 DEF w
  <1> QED
    BY <1>4

LEMMA InvAccounts == MemInv => BlocksAccounted
  <1> SUFFICES ASSUME MemInv PROVE BlocksAccounted
    OBVIOUS
  <1>t. MemTypeOK /\ HeldOnce /\ \A j \in Pools : Chained(FreeOf(j), m_pBlockHead[j], next)
    BY DEF MemInv
  <1>1. ASSUME NEW i \in Pools
        PROVE  LET n == Cardinality(FreeOf(i))
               IN {Walk(i)[k] : k \in 0 .. n - 1} = FreeOf(i) /\ Walk(i)[n] = NULL
    <2>1. PICK n \in Nat : \E chain : IsChain(FreeOf(i), m_pBlockHead[i], next, n, chain)
      BY <1>t DEF Chained
    <2>2. PICK chain : IsChain(FreeOf(i), m_pBlockHead[i], next, n, chain)
      BY <2>1
    <2>3. /\ chain \in [1 .. n -> FreeOf(i)]
          /\ \A j, k \in 1 .. n : chain[j] = chain[k] => j = k
          /\ \A b \in FreeOf(i) : \E k \in 1 .. n : chain[k] = b
      BY <2>2 DEF IsChain
    <2>4. Cardinality(FreeOf(i)) = n
      <3>1. chain \in Bijection(1 .. n, FreeOf(i))
        <4>1. \A x, y \in 1 .. n : chain[x] = chain[y] => x = y
          BY <2>3
        <4>2. chain \in Injection(1 .. n, FreeOf(i))
          BY <2>3, <4>1 DEF Injection, IsInjective
        <4>3. chain \in Surjection(1 .. n, FreeOf(i))
          BY <2>3 DEF Surjection
        <4> QED
          BY <4>2, <4>3 DEF Bijection
      <3> QED
        BY <3>1, FS_CountingElements DEF ExistsBijection
    <2>5. FreeOf(i) \in SUBSET Blocks /\ \A b \in FreeOf(i) : b # NULL
      BY <1>t, FreeAreBlocks
    <2>6. n =< Cardinality(Blocks) /\ Cardinality(Blocks) \in Nat
      BY <2>4, <2>5, FiniteBlocks, FS_Subset
    <2>7. \A k \in 0 .. n : Walk(i)[k] = IF k < n THEN chain[k + 1] ELSE NULL
      BY <2>2, <2>5, <2>6, WalkFollows
    <2>8. Walk(i)[n] = NULL
      BY <2>7
    <2>9. \A k \in 0 .. n - 1 : k + 1 \in 1 .. n /\ Walk(i)[k] = chain[k + 1]
      BY <2>7
    <2>10. \A k \in 1 .. n : k - 1 \in 0 .. n - 1 /\ (k - 1) + 1 = k
      OBVIOUS
    <2>11. \A b \in FreeOf(i) : \E k \in 0 .. n - 1 : Walk(i)[k] = b
      <3> TAKE b \in FreeOf(i)
      <3>1. PICK k \in 1 .. n : chain[k] = b
        BY <2>3
      <3>2. k - 1 \in 0 .. n - 1 /\ Walk(i)[k - 1] = b
        BY <2>9, <2>10, <3>1
      <3> QED
        BY <3>2
    <2>12. {Walk(i)[k] : k \in 0 .. n - 1} = FreeOf(i)
      <3>1. \A k \in 0 .. n - 1 : Walk(i)[k] \in FreeOf(i)
        BY <2>3, <2>9
      <3> QED
        BY <2>11, <3>1
    <2> QED
      BY <2>4, <2>8, <2>12
  <1>2. \A a \in held : a.block \in Blocks => a.size + WordSize =< BlockSize(PoolOf(a.block))
    BY <1>t DEF HeldOnce
  <1>3. \A a, b \in held : a # b => a.block # b.block
    BY <1>t DEF HeldOnce
  <1> QED
    BY <1>1, <1>2, <1>3 DEF BlocksAccounted

(* Whatever is asked for and given back, in whatever order: each chain reaches  *)
(* the free blocks of its pool, each once, and ends, and no block in use is     *)
(* given out again.                                                             *)
THEOREM BlocksAlwaysAccounted == MemSpec => []BlocksAccounted
  BY MemInvariant, InvAccounts, PTL

-----------------------------------------------------------------------------
(***************************************************************************)
(* The reader of tables.                                                   *)
(***************************************************************************)
RowsTypeOK ==
    /\ table \in Seq(Seq(Int)) /\ read \in 0 .. Len(table)
    /\ m_vecFlags \in Seq(BOOLEAN) /\ m_vecCol \in Seq(Int)
    /\ m_nCol \in 0 .. Len(m_vecCol) /\ m_bValid \in BOOLEAN
    /\ got \in Seq([kind : {"int8", "uint8", "int32"}, value : Int])

RowsInv == RowsTypeOK /\ ColumnsInOrder

(* A set of numbers has a least one.                                            *)
LEMMA MinIs ==
    ASSUME NEW S \in SUBSET Nat, S # {}
    PROVE  Min(S) \in S /\ \A j \in S : Min(S) =< j
  <1>1. \E k \in S : \A j \in S : k =< j
    BY LeastNat
  <1> QED
    BY <1>1 DEF Min

\* ColumnsInOrder, of any row and any flags.
Flagged(cols, flags) == {j \in DOMAIN cols : j \in DOMAIN flags /\ flags[j]}
ReadInOrder(cols, flags, n, values) ==
    Len(cols) =< Len(flags) =>
        \E column \in [DOMAIN values -> Flagged(cols, flags)] :
            /\ \A i \in DOMAIN values : values[i].value = Narrowed(values[i].kind, cols[column[i]])
            /\ \A i, j \in DOMAIN values : i < j => column[i] < column[j]
            /\ \A j \in Flagged(cols, flags) : j =< n <=> \E i \in DOMAIN values : column[i] = j

LEMMA InOrderIs ==
    /\ ColumnsInOrder <=> ReadInOrder(m_vecCol, m_vecFlags, m_nCol, got)
    /\ ColumnsInOrder' <=> ReadInOrder(m_vecCol', m_vecFlags', m_nCol', got')
    /\ FlaggedColumns = Flagged(m_vecCol, m_vecFlags)
  BY DEF ColumnsInOrder, ReadInOrder, FlaggedColumns, Flagged

(* A row that was just read has had no column read from it.                     *)
LEMMA FreshRow ==
    ASSUME NEW cols \in Seq(Int), NEW flags \in Seq(BOOLEAN)
    PROVE  ReadInOrder(cols, flags, 0, <<>>)
  <1> DEFINE none == [i \in {} |-> 0]
             values == <<>>
  <1>1. DOMAIN values = {}
    OBVIOUS
  <1>2. none \in [DOMAIN values -> Flagged(cols, flags)]
    BY <1>1
  <1>3. \A j \in Flagged(cols, flags) : ~(j =< 0)
    BY DEF Flagged
  <1> HIDE DEF none, values
  <1>4. ReadInOrder(cols, flags, 0, values)
    BY <1>1, <1>2, <1>3 DEF ReadInOrder
  <1> QED
    BY <1>4 DEF values

LEMMA NextRowReads ==
    ASSUME RowsTypeOK, NEW n \in Nat \ {0}, NextRow(n)
    PROVE  /\ read' \in 0 .. Len(table)
           /\ m_vecCol' \in Seq(Int) /\ m_nCol' = 0 /\ got' = <<>>
  <1>t. table \in Seq(Seq(Int)) /\ read \in 0 .. Len(table) /\ Len(table) \in Nat
    BY DEF RowsTypeOK
  <1>1. CASE Usable(n)
    <2>1. read + n \in 1 .. Len(table)
      BY <1>t, <1>1 DEF Usable
    <2>2. table[read + n] \in Seq(Int)
      BY <1>t, <2>1
    <2> QED
      BY <1>1, <2>1, <2>2 DEF NextRow, ReadUpTo
  <1>2. CASE ~Usable(n)
    <2> DEFINE S == Empties \cup {Len(table)}
    <2>1. S \in SUBSET (0 .. Len(table)) /\ S \in SUBSET Nat /\ S # {}
      BY <1>t DEF Empties
    <2>2. read' = Min(S) /\ m_vecCol' = <<>> /\ m_nCol' = 0 /\ got' = <<>>
      BY <1>2 DEF NextRow, ReadUpTo
    <2> HIDE DEF S
    <2>3. Min(S) \in S
      BY <2>1, MinIs
    <2>4. read' \in 0 .. Len(table)
      BY <2>1, <2>2, <2>3
    <2>5. <<>> \in Seq(Int)
      OBVIOUS
    <2> QED
      BY <2>2, <2>4, <2>5
  <1> QED
    BY <1>1, <1>2

LEMMA RowsInvInit == RowsInit => RowsInv
  <1> SUFFICES ASSUME RowsInit PROVE RowsInv
    OBVIOUS
  <1>1. table \in Seq(Seq(Int))
    BY ResourceAssumption DEF RowsInit
  <1>2. /\ read = 0 /\ m_bValid = FALSE /\ m_vecFlags = <<>> /\ m_vecCol = <<>>
        /\ m_nCol = 0 /\ got = <<>>
    BY DEF RowsInit
  <1>s. \A S : <<>> \in Seq(S)
    OBVIOUS
  <1>3. m_vecFlags \in Seq(BOOLEAN) /\ m_vecCol \in Seq(Int)
    BY <1>2, <1>s, Zenon
  <1>4. got \in Seq([kind : {"int8", "uint8", "int32"}, value : Int])
    BY <1>2, <1>s, Zenon
  <1>5. read \in 0 .. Len(table) /\ m_nCol \in 0 .. Len(m_vecCol)
    BY <1>1, <1>2
  <1>6. RowsTypeOK
    BY <1>1, <1>2, <1>3, <1>4, <1>5 DEF RowsTypeOK
  <1>7. ColumnsInOrder
    BY <1>2, <1>3, FreshRow, InOrderIs
  <1> QED
    BY <1>6, <1>7 DEF RowsInv

LEMMA RowReadKeeps ==
    ASSUME RowsInv, ReadFlagsRow \/ FirstRow \/ NextDataRow
    PROVE  RowsInv'
  <1>t. RowsTypeOK
    BY DEF RowsInv
  <1>1. \E n \in Nat \ {0} : NextRow(n)
    BY ResourceAssumption DEF ReadFlagsRow, FirstRow, NextDataRow
  <1>2. read' \in 0 .. Len(table) /\ m_vecCol' \in Seq(Int) /\ m_nCol' = 0 /\ got' = <<>>
    BY <1>t, <1>1, NextRowReads
  <1>3. table' = table
    BY DEF ReadFlagsRow, FirstRow, NextDataRow
  <1>4. m_vecFlags' \in Seq(BOOLEAN)
    <2>1. CASE ReadFlagsRow
      <3>1. DOMAIN m_vecCol' = 1 .. Len(m_vecCol') /\ Len(m_vecCol') \in Nat
        BY <1>2
      <3>2. m_vecFlags' = [i \in 1 .. Len(m_vecCol') |-> m_vecCol'[i] \in {2, 3}]
        BY <2>1, <3>1 DEF ReadFlagsRow
      <3>3. \A i \in 1 .. Len(m_vecCol') : (m_vecCol'[i] \in {2, 3}) \in BOOLEAN
        OBVIOUS
      <3>4. m_vecFlags' \in [1 .. Len(m_vecCol') -> BOOLEAN]
        BY <3>2, <3>3, Zenon
      <3> QED
        BY <3>1, <3>4
    <2>2. CASE FirstRow \/ NextDataRow
      BY <1>t, <2>2 DEF FirstRow, NextDataRow, RowsTypeOK
    <2> QED
      BY <2>1, <2>2
  <1>5. m_bValid' \in BOOLEAN
    BY <1>t DEF ReadFlagsRow, FirstRow, NextDataRow, RowsTypeOK, Usable
  <1>6. RowsTypeOK'
    BY <1>t, <1>2, <1>3, <1>4, <1>5 DEF RowsTypeOK
  <1>7. ColumnsInOrder'
    BY <1>2, <1>4, FreshRow, InOrderIs
  <1> QED
    BY <1>6, <1>7 DEF RowsInv

(* A getter reads the next flagged column, and no other stands before it.       *)
LEMMA GetKeeps ==
    ASSUME RowsInv, NEW kind \in {"int8", "uint8", "int32"}, Get(kind)
    PROVE  RowsInv'
  <1>t. RowsTypeOK /\ ColumnsInOrder
    BY DEF RowsInv
  <1> DEFINE N == Len(m_vecCol)
  <1>1. PICK beyond \in SUBSET (Len(m_vecFlags) + 1 .. N) :
          LET used == {j \in m_nCol + 1 .. N : IF j \in DOMAIN m_vecFlags THEN m_vecFlags[j] ELSE j \in beyond}
          IN IF used = {} THEN m_nCol' = N /\ UNCHANGED got
             ELSE LET j == Min(used)
                  IN /\ m_nCol' = j
                     /\ got' = Append(got, [kind |-> kind, value |-> Narrowed(kind, m_vecCol[j])])
    BY DEF Get
  <1> DEFINE used == {j \in m_nCol + 1 .. N : IF j \in DOMAIN m_vecFlags THEN m_vecFlags[j] ELSE j \in beyond}
  <1>2. /\ used = {} => m_nCol' = N /\ got' = got
        /\ used # {} => /\ m_nCol' = Min(used)
                        /\ got' = Append(got, [kind |-> kind, value |-> Narrowed(kind, m_vecCol[Min(used)])])
    BY <1>1
  <1>3. table' = table /\ read' = read /\ m_bValid' = m_bValid /\ m_vecFlags' = m_vecFlags /\ m_vecCol' = m_vecCol
    BY DEF Get
  <1>4. /\ N \in Nat /\ m_nCol \in Nat /\ m_nCol =< N /\ m_vecCol \in Seq(Int) /\ m_vecFlags \in Seq(BOOLEAN)
        /\ got \in Seq([kind : {"int8", "uint8", "int32"}, value : Int])
    BY <1>t DEF RowsTypeOK
  <1>5. used \in SUBSET Nat /\ \A j \in used : j \in m_nCol + 1 .. N
    BY <1>4
  <1>6. /\ N =< Len(m_vecFlags) => \A j \in m_nCol + 1 .. N : j \in used <=> j \in FlaggedColumns
        /\ N =< Len(m_vecFlags) => \A j \in used : j \in FlaggedColumns
        /\ FlaggedColumns \subseteq 1 .. N
    BY <1>4 DEF FlaggedColumns
  <1>f. FlaggedColumns' = FlaggedColumns
    BY <1>3 DEF FlaggedColumns
  <1>7. CASE used = {}
    <2>1. m_nCol' = N /\ got' = got
      BY <1>2, <1>7
    <2>2. RowsTypeOK'
      BY <1>t, <1>3, <1>4, <2>1 DEF RowsTypeOK
    <2>3. ASSUME N =< Len(m_vecFlags)
          PROVE  \E column \in [DOMAIN got -> FlaggedColumns] :
                    /\ \A i \in DOMAIN got : got[i].value = Narrowed(got[i].kind, m_vecCol[column[i]])
                    /\ \A i, j \in DOMAIN got : i < j => column[i] < column[j]
                    /\ \A j \in FlaggedColumns : j =< N <=> \E i \in DOMAIN got : column[i] = j
      <3>1. \A j \in FlaggedColumns : j =< N <=> j =< m_nCol
        <4> TAKE j \in FlaggedColumns
        <4>1. j \in 1 .. N
          BY <1>6
        <4>2. ~(j \in m_nCol + 1 .. N)
          BY <1>6, <1>7, <2>3
        <4> HIDE DEF N
        <4> QED
          BY <1>4, <4>1, <4>2
      <3>2. PICK column \in [DOMAIN got -> FlaggedColumns] :
              /\ \A i \in DOMAIN got : got[i].value = Narrowed(got[i].kind, m_vecCol[column[i]])
              /\ \A i, j \in DOMAIN got : i < j => column[i] < column[j]
              /\ \A j \in FlaggedColumns : j =< m_nCol <=> \E i \in DOMAIN got : column[i] = j
        BY <1>t, <2>3 DEF ColumnsInOrder
      <3>3. \A j \in FlaggedColumns : j =< N <=> \E i \in DOMAIN got : column[i] = j
        BY <3>1, <3>2
      <3> QED
        BY <3>2, <3>3
    <2> QED
      BY <1>3, <1>f, <2>1, <2>2, <2>3 DEF RowsInv, ColumnsInOrder
  <1>8. CASE used # {}
    <2> DEFINE k == Min(used)
               new == [kind |-> kind, value |-> Narrowed(kind, m_vecCol[k])]
               L == Len(got)
    <2>1. m_nCol' = k /\ got' = Append(got, new)
      BY <1>2, <1>8
    <2> HIDE DEF used
    <2>2. k \in used /\ \A j \in used : k =< j
      BY <1>5, <1>8, MinIs
    <2> HIDE DEF k
    <2>3. k \in m_nCol + 1 .. N /\ k \in 1 .. N /\ k \in Nat /\ m_nCol < k
      BY <1>4, <1>5, <2>2
    <2>4. m_vecCol[k] \in Int
      BY <1>4, <2>3
    <2>5. new \in [kind : {"int8", "uint8", "int32"}, value : Int]
      <3>1. Narrowed(kind, m_vecCol[k]) \in Int
        <4> DEFINE v == m_vecCol[k]
        <4>1. v \in Int
          BY <2>4
        <4> HIDE DEF v
        <4>2. ((v + 128) % 256) - 128 \in Int /\ v % 256 \in Int
          BY <4>1
        <4>3. Narrowed(kind, v) \in Int
          BY <4>1, <4>2 DEF Narrowed
        <4> QED
          BY <4>3 DEF v
      <3> QED
        BY <3>1
    <2>6. new.kind = kind /\ new.value = Narrowed(kind, m_vecCol[k])
      OBVIOUS
    <2> HIDE DEF new
    <2>7. /\ got' \in Seq([kind : {"int8", "uint8", "int32"}, value : Int])
          /\ L \in Nat /\ DOMAIN got = 1 .. L /\ DOMAIN got' = 1 .. L + 1
          /\ \A i \in 1 .. L : got'[i] = got[i]
          /\ got'[L + 1] = new
      BY <1>4, <2>1, <2>5
    <2> HIDE DEF N, L
    <2>8. RowsTypeOK'
      BY <1>t, <1>3, <2>1, <2>3, <2>7 DEF RowsTypeOK, N
    <2>9. ASSUME N =< Len(m_vecFlags)
          PROVE  \E column \in [DOMAIN got' -> FlaggedColumns] :
                    /\ \A i \in DOMAIN got' : got'[i].value = Narrowed(got'[i].kind, m_vecCol[column[i]])
                    /\ \A i, j \in DOMAIN got' : i < j => column[i] < column[j]
                    /\ \A j \in FlaggedColumns : j =< k <=> \E i \in DOMAIN got' : column[i] = j
      <3>1. PICK old \in [1 .. L -> FlaggedColumns] :
              /\ \A i \in 1 .. L : got[i].value = Narrowed(got[i].kind, m_vecCol[old[i]])
              /\ \A i, j \in 1 .. L : i < j => old[i] < old[j]
              /\ \A j \in FlaggedColumns : j =< m_nCol <=> \E i \in 1 .. L : old[i] = j
        BY <1>t, <2>7, <2>9 DEF ColumnsInOrder, N
      <3> DEFINE column == [i \in 1 .. L + 1 |-> IF i = L + 1 THEN k ELSE old[i]]
      <3>i. /\ L + 1 \in 1 .. L + 1
            /\ \A i \in 1 .. L + 1 : i = L + 1 \/ i \in 1 .. L
            /\ \A i \in 1 .. L : i \in 1 .. L + 1 /\ i # L + 1 /\ i < L + 1 /\ ~(L + 1 < i)
            /\ ~(L + 1 < L + 1)
        BY <2>7
      <3>2. column[L + 1] = k /\ \A i \in 1 .. L : column[i] = old[i]
        BY <3>i
      <3>3. k \in FlaggedColumns
        BY <1>6, <2>2, <2>9
      <3>4. column \in [1 .. L + 1 -> FlaggedColumns]
        BY <3>1, <3>3, <3>i
      <3> HIDE DEF column
      <3>5. \A i \in 1 .. L + 1 : got'[i].value = Narrowed(got'[i].kind, m_vecCol[column[i]])
        <4> TAKE i \in 1 .. L + 1
        <4>1. CASE i = L + 1
          BY <2>6, <2>7, <3>2, <4>1
        <4>2. CASE i \in 1 .. L
          BY <2>7, <3>1, <3>2, <4>2
        <4> QED
          BY <3>i, <4>1, <4>2
      <3>6. \A i, j \in 1 .. L + 1 : i < j => column[i] < column[j]
        <4> TAKE i, j \in 1 .. L + 1
        <4>1. \A x \in 1 .. L : old[x] < k
          <5> TAKE x \in 1 .. L
          <5>1. old[x] \in FlaggedColumns /\ old[x] =< m_nCol
            BY <3>1
          <5>2. old[x] \in Nat
            <6>1. old[x] \in 1 .. N /\ N \in Nat
              BY <1>4, <1>6, <5>1
            <6> QED
              BY <6>1
          <5> QED
            BY <1>4, <2>3, <5>1, <5>2
        <4>2. CASE j = L + 1
          BY <3>2, <3>i, <4>1, <4>2
        <4>3. CASE j \in 1 .. L
          BY <3>1, <3>2, <3>i, <4>3
        <4> QED
          BY <3>i, <4>2, <4>3
      <3>7. \A j \in FlaggedColumns : j =< k <=> \E i \in 1 .. L + 1 : column[i] = j
        <4> TAKE j \in FlaggedColumns
        <4>1. j \in 1 .. N /\ j \in Nat
          BY <1>4, <1>6 DEF N
        <4>2. j =< k <=> j =< m_nCol \/ j = k
          <5>1. j \in m_nCol + 1 .. N => k =< j
            BY <1>6, <2>2, <2>9
          <5> QED
            BY <1>4, <2>3, <4>1, <5>1 DEF N
        <4>3. (\E i \in 1 .. L + 1 : column[i] = j) <=> (\E i \in 1 .. L : old[i] = j) \/ j = k
          BY <3>2, <3>i
        <4> QED
          BY <3>1, <4>2, <4>3
      <3> QED
        BY <2>7, <3>4, <3>5, <3>6, <3>7
    <2> QED
      BY <1>3, <1>f, <2>1, <2>8, <2>9 DEF RowsInv, ColumnsInOrder, N
  <1> QED
    BY <1>7, <1>8

LEMMA RowsInvStep == RowsInv /\ [RowsNext]_rowVars => RowsInv'
  <1> SUFFICES ASSUME RowsInv, [RowsNext]_rowVars PROVE RowsInv'
    OBVIOUS
  <1>1. CASE UNCHANGED rowVars
    <2>1. /\ table' = table /\ read' = read /\ m_bValid' = m_bValid /\ m_vecFlags' = m_vecFlags
          /\ m_vecCol' = m_vecCol /\ m_nCol' = m_nCol /\ got' = got
      BY <1>1 DEF rowVars
    <2>2. RowsTypeOK'
      BY <2>1 DEF RowsInv, RowsTypeOK
    <2>3. ColumnsInOrder'
      BY <2>1, InOrderIs DEF RowsInv
    <2> QED
      BY <2>2, <2>3 DEF RowsInv
  <1>2. CASE ReadFlagsRow \/ FirstRow \/ NextDataRow
    BY <1>2, RowReadKeeps
  <1>3. ASSUME NEW kind \in {"int8", "uint8", "int32"}, Get(kind) PROVE RowsInv'
    BY <1>3, GetKeeps
  <1> QED
    BY <1>1, <1>2, <1>3 DEF RowsNext

(* Whatever a file holds, the getters read the flagged columns of each row in   *)
(* their order (ResourceBuffer.cpp:51).                                         *)
THEOREM ColumnsStayInOrder == RowsSpec => []ColumnsInOrder
  <1>1. RowsInv => ColumnsInOrder
    BY DEF RowsInv
  <1> QED
    BY <1>1, RowsInvInit, RowsInvStep, PTL DEF RowsSpec

-----------------------------------------------------------------------------
(***************************************************************************)
(* The digest.  A context holds of a message the whole blocks, in _state,  *)
(* and the rest, in the front of the buffer.                               *)
(***************************************************************************)
At(n) == BlockCells * n
BlockOf(g, n) == SubSeq(g, At(n - 1) + 1, At(n))

Contexts == [state : Seq(Seq(Int)), count : Nat, buffer : [1 .. BlockCells -> Int]]

IsContext(c, g) ==
    /\ c.count = Len(g)
    /\ c.state = [n \in 1 .. Len(g) \div BlockCells |-> BlockOf(g, n)]
    /\ \A i \in 1 .. Len(g) % BlockCells : c.buffer[i] = g[At(Len(g) \div BlockCells) + i]

Md5TypeOK ==
    /\ ulong \in UlongSizes /\ spoilt \in BOOLEAN
    /\ ctx \in Contexts
    /\ given \in Seq(Int) /\ ctx.count = Len(given)

Md5Inv == Md5TypeOK /\ (~spoilt => IsContext(ctx, given)) /\ DigestOfAll

-----------------------------------------------------------------------------
(* Blocks lie one behind the other; a number of cells is so many blocks and a   *)
(* rest.                                                                        *)
LEMMA AtIs ==
    /\ BlockCells \in Nat /\ 1 < BlockCells
    /\ At(0) = 0
    /\ \A n \in Nat : At(n) \in Nat /\ At(n + 1) = At(n) + BlockCells
    /\ \A m, n \in Nat : At(m + n) = At(m) + At(n)
    /\ \A m, n \in Nat : m =< n => At(m) =< At(n)
  <1>1. BlockCells \in Nat /\ 1 < BlockCells
    BY Md5Assumption
  <1>2. At(0) = 0
    BY <1>1 DEF At
  <1>3. \A n \in Nat : At(n) \in Nat /\ At(n + 1) = At(n) + BlockCells
    BY <1>1 DEF At
  <1>4. \A m, n \in Nat : At(m + n) = At(m) + At(n)
    BY <1>1 DEF At
  <1>5. ASSUME NEW m \in Nat, NEW n \in Nat, m =< n PROVE At(m) =< At(n)
    <2>1. n - m \in Nat /\ n = m + (n - m)
      BY <1>5
    <2>2. At(n) = At(m) + At(n - m) /\ At(n - m) \in Nat /\ At(m) \in Nat
      BY <1>3, <1>4, <2>1
    <2> QED
      BY <2>2
  <1> QED
    BY <1>1, <1>2, <1>3, <1>4, <1>5

LEMMA DivIs ==
    \A a \in Nat : /\ a \div BlockCells \in Nat /\ a % BlockCells \in Nat /\ a % BlockCells < BlockCells
                   /\ a = At(a \div BlockCells) + (a % BlockCells)
  BY AtIs DEF At

LEMMA DivUnique ==
    ASSUME NEW q \in Nat, NEW r \in Nat, r < BlockCells
    PROVE  (At(q) + r) \div BlockCells = q /\ (At(q) + r) % BlockCells = r
  <1> DEFINE a == At(q) + r
             p == a \div BlockCells
             s == a % BlockCells
  <1>0. At(q) \in Nat
    BY AtIs
  <1>1. a \in Nat /\ At(q) \in Nat
    BY <1>0
  <1>2. p \in Nat /\ s \in Nat /\ s < BlockCells /\ a = At(p) + s
    <2> HIDE DEF a
    <2> QED
      BY <1>1, DivIs
  <1> HIDE DEF p, s
  <1>3. \A m, n \in Nat : m < n => At(m) + BlockCells =< At(n)
    <2> TAKE m, n \in Nat
    <2>1. m < n => m + 1 =< n /\ m + 1 \in Nat
      OBVIOUS
    <2> QED
      BY <2>1, AtIs
  <1>4. ~(p < q) /\ ~(q < p)
    <2>1. At(p) \in Nat /\ At(q) \in Nat /\ BlockCells \in Nat
      BY <1>2, AtIs
    <2>2. p < q => At(p) + BlockCells =< At(q)
      BY <1>2, <1>3
    <2>3. q < p => At(q) + BlockCells =< At(p)
      BY <1>2, <1>3
    <2>4. At(p) + s = At(q) + r
      BY <1>2
    <2> QED
      BY <1>2, <2>1, <2>2, <2>3, <2>4
  <1>5. p = q
    BY <1>2, <1>4
  <1>6. s = r
    BY <1>1, <1>2, <1>5
  <1> QED
    BY <1>5, <1>6 DEF p, s

LEMMA CopiedIs ==
    ASSUME NEW buffer \in [1 .. BlockCells -> Int], NEW index \in Nat, NEW piece \in Seq(Int)
    PROVE  /\ Copied(buffer, index, piece) \in [1 .. BlockCells -> Int]
           /\ \A i \in 1 .. BlockCells :
                Copied(buffer, index, piece)[i] =
                    IF i - index \in 1 .. Len(piece) THEN piece[i - index] ELSE buffer[i]
  <1>1. DOMAIN piece = 1 .. Len(piece) /\ \A k \in 1 .. Len(piece) : piece[k] \in Int
    OBVIOUS
  <1>2. Copied(buffer, index, piece) =
          [i \in 1 .. BlockCells |-> IF i - index \in 1 .. Len(piece) THEN piece[i - index] ELSE buffer[i]]
    BY <1>1 DEF Copied
  <1> QED
    BY <1>1, <1>2

\* Update, in its two cases.
Rest(c) == BlockCells - (c.count % BlockCells)
Filled(c, input) == Copied(c.buffer, c.count % BlockCells, input)
Whole(c, input) == (Len(input) - Rest(c)) \div BlockCells
Reached(c, n) == Rest(c) + At(n)
NewBlocks(c, input) ==
    [n \in 1 .. Whole(c, input) |-> SubSeq(input, Reached(c, n - 1) + 1, Reached(c, n))]
Leftover(c, input) == SubSeq(input, Reached(c, Whole(c, input)) + 1, Len(input))

LEMMA UpdateIs ==
    ASSUME NEW c \in Contexts, NEW input \in Seq(Int)
    PROVE  /\ Len(input) < Rest(c) =>
                Update(c, input) =
                  [state |-> c.state, count |-> c.count + Len(input), buffer |-> Filled(c, input)]
           /\ ~(Len(input) < Rest(c)) =>
                Update(c, input) =
                  [state  |-> Append(c.state, Filled(c, input)) \o NewBlocks(c, input),
                   count  |-> c.count + Len(input),
                   buffer |-> Copied(Filled(c, input), 0, Leftover(c, input))]
  <1>1. CASE Len(input) < Rest(c)
    BY <1>1 DEF Update, Rest, Filled
  <1>2. CASE ~(Len(input) < Rest(c))
    BY <1>2 DEF Update, Rest, Filled, Whole, Reached, NewBlocks, Leftover, Transform, At
  <1> QED
    BY <1>1, <1>2

LEMMA UpdateParts ==
    ASSUME NEW c \in Contexts, NEW input \in Seq(Int)
    PROVE  /\ Rest(c) \in 1 .. BlockCells /\ Rest(c) = BlockCells - (c.count % BlockCells)
           /\ c.count % BlockCells \in 0 .. BlockCells - 1
           /\ Filled(c, input) \in [1 .. BlockCells -> Int] /\ Filled(c, input) \in Seq(Int)
           /\ Len(Filled(c, input)) = BlockCells
           /\ ~(Len(input) < Rest(c)) =>
                 /\ Whole(c, input) \in Nat /\ Reached(c, Whole(c, input)) \in Nat
                 /\ Reached(c, Whole(c, input)) =< Len(input)
                 /\ Len(input) < Reached(c, Whole(c, input)) + BlockCells
                 /\ Leftover(c, input) \in Seq(Int)
                 /\ Len(Leftover(c, input)) = Len(input) - Reached(c, Whole(c, input))
                 /\ \A i \in 1 .. Len(Leftover(c, input)) :
                      Leftover(c, input)[i] = input[Reached(c, Whole(c, input)) + i]
                 /\ \A n \in 1 .. Whole(c, input) :
                      /\ Reached(c, n - 1) \in Nat /\ Reached(c, n) \in Nat
                      /\ Reached(c, n) = Reached(c, n - 1) + BlockCells
                      /\ Reached(c, n) =< Len(input)
                 /\ NewBlocks(c, input) \in Seq(Seq(Int)) /\ Len(NewBlocks(c, input)) = Whole(c, input)
  <1>1. c.count \in Nat /\ c.buffer \in [1 .. BlockCells -> Int] /\ BlockCells \in Nat /\ Len(input) \in Nat
    <2>1. c.count \in Nat /\ c.buffer \in [1 .. BlockCells -> Int]
      BY DEF Contexts
    <2>2. Len(input) \in Nat
      OBVIOUS
    <2>3. BlockCells \in Nat
      BY AtIs
    <2> QED
      BY <2>1, <2>2, <2>3
  <1>2. c.count % BlockCells \in Nat /\ c.count % BlockCells < BlockCells
    BY <1>1, DivIs
  <1>3. c.count % BlockCells \in 0 .. BlockCells - 1
    BY <1>1, <1>2
  <1>4. Rest(c) \in 1 .. BlockCells /\ Rest(c) = BlockCells - (c.count % BlockCells)
    BY <1>1, <1>3 DEF Rest
  <1>5. Filled(c, input) \in [1 .. BlockCells -> Int]
    BY <1>1, <1>2, CopiedIs DEF Filled
  <1>6. Filled(c, input) \in Seq(Int) /\ Len(Filled(c, input)) = BlockCells
    BY <1>1, <1>5
  <1>7. ASSUME ~(Len(input) < Rest(c))
        PROVE    /\ Whole(c, input) \in Nat /\ Reached(c, Whole(c, input)) \in Nat
                 /\ Reached(c, Whole(c, input)) =< Len(input)
                 /\ Len(input) < Reached(c, Whole(c, input)) + BlockCells
                 /\ Leftover(c, input) \in Seq(Int)
                 /\ Len(Leftover(c, input)) = Len(input) - Reached(c, Whole(c, input))
                 /\ \A i \in 1 .. Len(Leftover(c, input)) :
                      Leftover(c, input)[i] = input[Reached(c, Whole(c, input)) + i]
                 /\ \A n \in 1 .. Whole(c, input) :
                      /\ Reached(c, n - 1) \in Nat /\ Reached(c, n) \in Nat
                      /\ Reached(c, n) = Reached(c, n - 1) + BlockCells
                      /\ Reached(c, n) =< Len(input)
                 /\ NewBlocks(c, input) \in Seq(Seq(Int)) /\ Len(NewBlocks(c, input)) = Whole(c, input)
    <2> DEFINE a == Len(input) - Rest(c)
               w == Whole(c, input)
               L == Len(input)
               R == Rest(c)
    <2>1. a \in Nat /\ R \in Nat /\ L \in Nat /\ L = R + a
      <3>1. R \in 1 .. BlockCells /\ L \in Nat /\ ~(L < R)
        BY <1>1, <1>4, <1>7
      <3> HIDE DEF R, L
      <3>2. R \in Nat /\ L - R \in Nat /\ L = R + (L - R)
        BY <1>1, <3>1
      <3> QED
        BY <3>1, <3>2 DEF R, L
    <2>2. w \in Nat /\ a % BlockCells \in Nat /\ a % BlockCells < BlockCells /\ a = At(w) + (a % BlockCells)
      <3>1. w = a \div BlockCells
        BY DEF Whole
      <3> HIDE DEF a, w
      <3> QED
        BY <2>1, <3>1, DivIs
    <2> HIDE DEF w, L, R, a
    <2>3. At(w) \in Nat /\ \A n \in 1 .. w : /\ n - 1 \in Nat /\ n \in Nat /\ At(n - 1) \in Nat /\ At(n) \in Nat
                                             /\ At(n) = At(n - 1) + BlockCells /\ At(n) =< At(w)
      <3>1. At(w) \in Nat
        BY <2>2, AtIs
      <3>2. ASSUME NEW n \in 1 .. w
            PROVE  /\ n - 1 \in Nat /\ n \in Nat /\ At(n - 1) \in Nat /\ At(n) \in Nat
                   /\ At(n) = At(n - 1) + BlockCells /\ At(n) =< At(w)
        <4>1. n - 1 \in Nat /\ n \in Nat /\ (n - 1) + 1 = n /\ n =< w
          BY <2>2
        <4>2. At((n - 1) + 1) = At(n - 1) + BlockCells /\ At(n - 1) \in Nat /\ At(n) \in Nat
          BY <4>1, AtIs
        <4>3. At(n) =< At(w)
          BY <2>2, <4>1, AtIs
        <4> QED
          BY <4>1, <4>2, <4>3
      <3> QED
        BY <3>1, <3>2
    <2>4. \A n : Reached(c, n) = R + At(n)
      BY DEF Reached, R
    <2>5. Reached(c, w) \in Nat /\ Reached(c, w) =< L /\ L < Reached(c, w) + BlockCells
      BY <1>1, <2>1, <2>2, <2>3, <2>4
    <2>6. \A n \in 1 .. w : /\ Reached(c, n - 1) \in Nat /\ Reached(c, n) \in Nat
                            /\ Reached(c, n) = Reached(c, n - 1) + BlockCells
                            /\ Reached(c, n) =< L
      <3> TAKE n \in 1 .. w
      <3>1. /\ At(n - 1) \in Nat /\ At(n) \in Nat /\ At(n) = At(n - 1) + BlockCells /\ At(n) =< At(w)
            /\ Reached(c, n - 1) = R + At(n - 1) /\ Reached(c, n) = R + At(n)
        BY <2>3, <2>4
      <3> QED
        <4>1. R \in Nat /\ L \in Nat /\ L = R + a /\ At(w) \in Nat /\ a \in Nat /\ At(w) =< a
          BY <2>1, <2>2, <2>3
        <4> QED
          BY <1>1, <3>1, <4>1
    <2>7. ASSUME NEW x \in Nat, NEW y \in Nat, x =< y, y =< L
          PROVE  /\ SubSeq(input, x + 1, y) \in Seq(Int) /\ Len(SubSeq(input, x + 1, y)) = y - x
                 /\ \A i \in 1 .. y - x : SubSeq(input, x + 1, y)[i] = input[x + i]
      <3>1. \A i \in x + 1 .. y : input[i] \in Int
        <4>1. \A i \in x + 1 .. y : i \in 1 .. Len(input)
          BY <2>7 DEF L
        <4> QED
          BY <4>1
      <3>2. x + 1 \in Int /\ y \in Int
        OBVIOUS
      <3>3. /\ SubSeq(input, x + 1, y) \in Seq(Int)
            /\ Len(SubSeq(input, x + 1, y)) = IF x + 1 =< y THEN y - (x + 1) + 1 ELSE 0
            /\ \A i \in 1 .. y - (x + 1) + 1 : SubSeq(input, x + 1, y)[i] = input[(x + 1) + i - 1]
        BY <3>1, <3>2, SubSeqProperties
      <3>4. y - (x + 1) + 1 = y - x /\ \A i \in 1 .. y - x : (x + 1) + i - 1 = x + i
        OBVIOUS
      <3>5. Len(SubSeq(input, x + 1, y)) = y - x
        BY <2>7, <3>3
      <3> QED
        BY <3>3, <3>4, <3>5
    <2>8. /\ Leftover(c, input) \in Seq(Int) /\ Len(Leftover(c, input)) = L - Reached(c, w)
          /\ \A i \in 1 .. L - Reached(c, w) : Leftover(c, input)[i] = input[Reached(c, w) + i]
      <3> DEFINE x == Reached(c, w)
      <3>1. x \in Nat /\ x =< L /\ L \in Nat /\ L =< L
        BY <2>1, <2>5
      <3>2. Leftover(c, input) = SubSeq(input, x + 1, L)
        BY DEF Leftover, w, L
      <3> HIDE DEF x
      <3>3. /\ SubSeq(input, x + 1, L) \in Seq(Int) /\ Len(SubSeq(input, x + 1, L)) = L - x
            /\ \A i \in 1 .. L - x : SubSeq(input, x + 1, L)[i] = input[x + i]
        BY <2>7, <3>1
      <3> QED
        BY <3>2, <3>3 DEF x
    <2>9. NewBlocks(c, input) \in Seq(Seq(Int)) /\ Len(NewBlocks(c, input)) = w
      <3>1. NewBlocks(c, input) = [n \in 1 .. w |-> SubSeq(input, Reached(c, n - 1) + 1, Reached(c, n))]
        BY DEF NewBlocks, w
      <3>2. \A n \in 1 .. w : SubSeq(input, Reached(c, n - 1) + 1, Reached(c, n)) \in Seq(Int)
        <4> TAKE n \in 1 .. w
        <4>1. /\ Reached(c, n - 1) \in Nat /\ Reached(c, n) \in Nat
              /\ Reached(c, n - 1) =< Reached(c, n) /\ Reached(c, n) =< L
          BY <1>1, <2>6
        <4> QED
          BY <2>7, <4>1
      <3>3. NewBlocks(c, input) \in [1 .. w -> Seq(Int)]
        BY <3>1, <3>2
      <3> QED
        BY <2>2, <3>3
    <2> QED
      BY <2>2, <2>5, <2>6, <2>8, <2>9 DEF w, L
  <1> QED
    BY <1>3, <1>4, <1>5, <1>6, <1>7


LEMMA ContextIs ==
    ASSUME NEW s \in Seq(Seq(Int)), NEW k \in Nat, NEW b \in [1 .. BlockCells -> Int]
    PROVE  /\ [state |-> s, count |-> k, buffer |-> b] \in Contexts
           /\ [state |-> s, count |-> k, buffer |-> b].count = k
           /\ [state |-> s, count |-> k, buffer |-> b].state = s
           /\ [state |-> s, count |-> k, buffer |-> b].buffer = b
  BY DEF Contexts

LEMMA UpdateType ==
    ASSUME NEW c \in Contexts, NEW input \in Seq(Int)
    PROVE  Update(c, input) \in Contexts /\ Update(c, input).count = c.count + Len(input)
  <1> DEFINE u == Update(c, input)
  <1>1. c.state \in Seq(Seq(Int)) /\ c.count \in Nat
    BY DEF Contexts
  <1>2. c.count + Len(input) \in Nat
    BY <1>1
  <1>3. Filled(c, input) \in [1 .. BlockCells -> Int] /\ Filled(c, input) \in Seq(Int)
    BY UpdateParts
  <1>4. CASE Len(input) < Rest(c)
    <2> DEFINE k == c.count + Len(input)
    <2>1. Update(c, input) = [state |-> c.state, count |-> k, buffer |-> Filled(c, input)]
      BY <1>4, UpdateIs
    <2>2. k \in Nat
      BY <1>2
    <2> HIDE DEF k
    <2>3. Update(c, input) \in Contexts /\ Update(c, input).count = k
      BY <1>1, <1>3, <2>1, <2>2, ContextIs
    <2> QED
      BY <2>3 DEF k
  <1>5. CASE ~(Len(input) < Rest(c))
    <2>1. NewBlocks(c, input) \in Seq(Seq(Int)) /\ Leftover(c, input) \in Seq(Int)
      BY <1>5, UpdateParts
    <2>2. Copied(Filled(c, input), 0, Leftover(c, input)) \in [1 .. BlockCells -> Int]
      BY <1>3, <2>1, CopiedIs
    <2>3. Append(c.state, Filled(c, input)) \o NewBlocks(c, input) \in Seq(Seq(Int))
      <3>1. Append(c.state, Filled(c, input)) \in Seq(Seq(Int))
        BY <1>1, <1>3, AppendProperties
      <3> QED
        BY <2>1, <3>1, ConcatProperties
    <2> DEFINE k == c.count + Len(input)
               s == Append(c.state, Filled(c, input)) \o NewBlocks(c, input)
               b == Copied(Filled(c, input), 0, Leftover(c, input))
    <2>4. Update(c, input) = [state |-> s, count |-> k, buffer |-> b]
      BY <1>5, UpdateIs
    <2>5. s \in Seq(Seq(Int)) /\ k \in Nat /\ b \in [1 .. BlockCells -> Int]
      BY <1>2, <2>2, <2>3
    <2> HIDE DEF k, s, b
    <2>6. Update(c, input) \in Contexts /\ Update(c, input).count = k
      BY <2>4, <2>5, ContextIs
    <2> QED
      BY <2>6 DEF k
  <1> QED
    BY <1>4, <1>5

(* A block of a message, and the same block of a longer one.                    *)
LEMMA BlockValues ==
    ASSUME NEW g \in Seq(Int), NEW n \in Nat \ {0}, At(n) =< Len(g)
    PROVE  /\ BlockOf(g, n) \in Seq(Int) /\ Len(BlockOf(g, n)) = BlockCells
           /\ \A i \in 1 .. BlockCells : BlockOf(g, n)[i] = g[At(n - 1) + i] /\ At(n - 1) + i \in 1 .. Len(g)
  <1>1. n - 1 \in Nat /\ (n - 1) + 1 = n /\ Len(g) \in Nat
    OBVIOUS
  <1>2. /\ At(n - 1) \in Nat /\ At(n) \in Nat /\ At((n - 1) + 1) = At(n - 1) + BlockCells
        /\ BlockCells \in Nat /\ 1 < BlockCells
    BY <1>1, AtIs
  <1> DEFINE x == At(n - 1)
             y == At(n)
  <1>3. x \in Nat /\ y \in Nat /\ y = x + BlockCells /\ y =< Len(g)
    BY <1>1, <1>2
  <1>4. BlockOf(g, n) = SubSeq(g, x + 1, y)
    BY DEF BlockOf
  <1> HIDE DEF x, y
  <1>5. \A i \in x + 1 .. y : g[i] \in Int
    <2>1. \A i \in x + 1 .. y : i \in 1 .. Len(g)
      BY <1>1, <1>3
    <2> QED
      BY <2>1
  <1>6. x + 1 \in Int /\ y \in Int /\ x + 1 =< y /\ y - (x + 1) + 1 = BlockCells
    BY <1>2, <1>3
  <1>7. /\ SubSeq(g, x + 1, y) \in Seq(Int) /\ Len(SubSeq(g, x + 1, y)) = BlockCells
        /\ \A i \in 1 .. BlockCells : SubSeq(g, x + 1, y)[i] = g[(x + 1) + i - 1]
    BY <1>5, <1>6, SubSeqProperties
  <1>8. \A i \in 1 .. BlockCells : (x + 1) + i - 1 = x + i /\ x + i \in 1 .. Len(g)
    BY <1>1, <1>2, <1>3
  <1> QED
    BY <1>4, <1>7, <1>8 DEF x

LEMMA BlockEqual ==
    ASSUME NEW g \in Seq(Int), NEW n \in Nat \ {0}, At(n) =< Len(g),
           NEW b \in Seq(Int), Len(b) = BlockCells, \A i \in 1 .. BlockCells : b[i] = g[At(n - 1) + i]
    PROVE  b = BlockOf(g, n)
  <1>1. /\ BlockOf(g, n) \in Seq(Int) /\ Len(BlockOf(g, n)) = BlockCells
        /\ \A i \in 1 .. BlockCells : BlockOf(g, n)[i] = g[At(n - 1) + i]
    BY BlockValues
  <1> QED
    BY <1>1, SeqEqual

LEMMA OldBlock ==
    ASSUME NEW g \in Seq(Int), NEW input \in Seq(Int), NEW n \in Nat \ {0}, At(n) =< Len(g)
    PROVE  BlockOf(g \o input, n) = BlockOf(g, n)
  <1>1. /\ g \o input \in Seq(Int) /\ Len(g \o input) = Len(g) + Len(input)
        /\ \A i \in 1 .. Len(g) : (g \o input)[i] = g[i]
        /\ Len(g) \in Nat /\ Len(input) \in Nat
    BY ConcatProperties, LenProperties
  <1>2. /\ BlockOf(g, n) \in Seq(Int) /\ Len(BlockOf(g, n)) = BlockCells
        /\ \A i \in 1 .. BlockCells : BlockOf(g, n)[i] = g[At(n - 1) + i] /\ At(n - 1) + i \in 1 .. Len(g)
    BY BlockValues
  <1>3. At(n) \in Nat /\ At(n) =< Len(g \o input)
    <2>1. At(n) \in Nat
      BY AtIs
    <2>2. Len(g \o input) = Len(g) + Len(input) /\ Len(g) \in Nat /\ Len(input) \in Nat
      BY <1>1
    <2> QED
      BY <2>1, <2>2
  <1>4. \A i \in 1 .. BlockCells : BlockOf(g, n)[i] = (g \o input)[At(n - 1) + i]
    BY <1>1, <1>2
  <1> QED
    BY <1>1, <1>2, <1>3, <1>4, BlockEqual

(* What fills a block, and the blocks behind it.                                *)
LEMMA SumsOfBlocks ==
    ASSUME NEW B \in Nat, NEW rest \in Nat, NEW full \in Nat, NEW more \in Nat, NEW old \in Nat,
           NEW x, rest < B, old = full + rest, x = (B - rest) + more
    PROVE  /\ x \in Nat /\ (full + B) + more = old + x
           /\ \A len \in Nat : x =< len => /\ old + len = (old + x) + (len - x) /\ len - x \in Nat
                                            /\ old + x =< old + len /\ full + B =< old + len
  OBVIOUS

(* A piece behind what the context holds: it then holds both.                   *)
LEMMA UpdateKeeps ==
    ASSUME NEW c \in Contexts, NEW g \in Seq(Int), NEW input \in Seq(Int), IsContext(c, g)
    PROVE  IsContext(Update(c, input), g \o input)
  <1> DEFINE G == g \o input
             q == Len(g) \div BlockCells
             r == Len(g) % BlockCells
             L == Len(input)
             filled == Filled(c, input)
  <1>1. /\ G \in Seq(Int) /\ Len(G) = Len(g) + L /\ Len(g) \in Nat /\ L \in Nat
        /\ \A i \in 1 .. Len(g) : G[i] = g[i]
        /\ \A i \in 1 .. L : G[Len(g) + i] = input[i]
    <2>1. /\ G \in Seq(Int) /\ Len(G) = Len(g) + L /\ Len(g) \in Nat /\ L \in Nat
          /\ \A i \in 1 .. Len(g) + L : G[i] = IF i =< Len(g) THEN g[i] ELSE input[i - Len(g)]
      BY ConcatProperties, LenProperties
    <2> HIDE DEF G, L
    <2>2. \A i \in 1 .. Len(g) : i \in 1 .. Len(g) + L /\ i =< Len(g)
      BY <2>1
    <2>3. \A i \in 1 .. L : Len(g) + i \in 1 .. Len(g) + L /\ ~(Len(g) + i =< Len(g)) /\ (Len(g) + i) - Len(g) = i
      BY <2>1
    <2> QED
      BY <2>1, <2>2, <2>3
  <1>2. q \in Nat /\ r \in Nat /\ r < BlockCells /\ Len(g) = At(q) + r /\ At(q) \in Nat /\ BlockCells \in Nat
    <2>1. q \in Nat /\ r \in Nat /\ r < BlockCells /\ Len(g) = At(q) + r
      BY <1>1, DivIs
    <2> HIDE DEF q, r
    <2> QED
      BY <2>1, AtIs
  <1>3. /\ c.count = Len(g) /\ c.state = [n \in 1 .. q |-> BlockOf(g, n)]
        /\ \A i \in 1 .. r : c.buffer[i] = g[At(q) + i]
        /\ c.state \in Seq(Seq(Int)) /\ c.buffer \in [1 .. BlockCells -> Int]
    BY DEF IsContext, Contexts
  <1>4. Rest(c) = BlockCells - r /\ c.count % BlockCells = r
    BY <1>3, UpdateParts
  <1>5. /\ filled \in [1 .. BlockCells -> Int] /\ filled \in Seq(Int) /\ Len(filled) = BlockCells
        /\ \A i \in 1 .. BlockCells : filled[i] = IF i - r \in 1 .. L THEN input[i - r] ELSE c.buffer[i]
    <2>1. filled = Copied(c.buffer, r, input)
      BY <1>4 DEF Filled
    <2>2. /\ Copied(c.buffer, r, input) \in [1 .. BlockCells -> Int]
          /\ \A i \in 1 .. BlockCells :
                Copied(c.buffer, r, input)[i] = IF i - r \in 1 .. Len(input) THEN input[i - r] ELSE c.buffer[i]
      <3> HIDE DEF r
      <3> QED
        BY <1>2, <1>3, CopiedIs
    <2> QED
      BY <2>1, <2>2, UpdateParts
  <1> HIDE DEF G, q, r, L, filled
  <1>6. \A n \in 1 .. q : n \in Nat \ {0} /\ BlockOf(G, n) = BlockOf(g, n)
    <2> TAKE n \in 1 .. q
    <2>1. n \in Nat \ {0} /\ n \in Nat /\ n =< q
      BY <1>2
    <2>2. At(n) =< At(q) /\ At(n) \in Nat
      BY <1>2, <2>1, AtIs
    <2>3. At(n) =< Len(g)
      BY <1>1, <1>2, <2>2
    <2> QED
      BY <2>1, <2>3, OldBlock DEF G
  <1>7. \A i \in 1 .. r : filled[i] = G[At(q) + i]
    <2> TAKE i \in 1 .. r
    <2>1. /\ r \in Nat /\ r < BlockCells /\ BlockCells \in Nat /\ L \in Nat
          /\ At(q) \in Nat /\ Len(g) \in Nat /\ Len(g) = At(q) + r
      BY <1>1, <1>2
    <2>2. i \in 1 .. BlockCells /\ ~(i - r \in 1 .. L) /\ At(q) + i \in 1 .. Len(g)
      BY <2>1
    <2> QED
      BY <1>1, <1>3, <1>5, <2>2
  <1>8. \A i \in 1 .. L : r + i =< BlockCells => filled[r + i] = G[At(q) + (r + i)]
    <2> TAKE i \in 1 .. L
    <2> SUFFICES ASSUME r + i =< BlockCells PROVE filled[r + i] = G[At(q) + (r + i)]
      OBVIOUS
    <2>1. r + i \in 1 .. BlockCells /\ (r + i) - r = i /\ At(q) + (r + i) = Len(g) + i
      BY <1>1, <1>2
    <2> QED
      BY <1>1, <1>5, <2>1
  <1>9. CASE L < Rest(c)
    <2>1. Update(c, input) = [state |-> c.state, count |-> c.count + L, buffer |-> filled]
      BY <1>9, UpdateIs DEF L, filled
    <2>2. r + L \in Nat /\ r + L < BlockCells /\ Len(G) = At(q) + (r + L)
      BY <1>1, <1>2, <1>4, <1>9
    <2>3. Len(G) \div BlockCells = q /\ Len(G) % BlockCells = r + L
      <3> DEFINE s == r + L
      <3>1. s \in Nat /\ s < BlockCells /\ Len(G) = At(q) + s
        BY <2>2
      <3> HIDE DEF s
      <3>2. (At(q) + s) \div BlockCells = q /\ (At(q) + s) % BlockCells = s
        BY <1>2, <3>1, DivUnique
      <3> QED
        BY <3>1, <3>2 DEF s
    <2>4. c.state = [n \in 1 .. q |-> BlockOf(G, n)]
      BY <1>3, <1>6
    <2>5. \A i \in 1 .. r + L : filled[i] = G[At(q) + i]
      <3> TAKE i \in 1 .. r + L
      <3>1. CASE i =< r
        BY <1>2, <1>7, <3>1
      <3>2. CASE ~(i =< r)
        <4>1. i - r \in 1 .. L /\ r + (i - r) = i /\ i =< BlockCells
          BY <1>1, <1>2, <2>2, <3>2
        <4>2. filled[r + (i - r)] = G[At(q) + (r + (i - r))]
          BY <1>8, <4>1
        <4> QED
          BY <4>1, <4>2
      <3> QED
        BY <3>1, <3>2
    <2>6. IsContext([state |-> c.state, count |-> c.count + L, buffer |-> filled], G)
      BY <1>1, <1>3, <2>3, <2>4, <2>5 DEF IsContext
    <2> QED
      BY <2>1, <2>6 DEF G
  <1>10. CASE ~(L < Rest(c))
    <2> DEFINE w == Whole(c, input)
               NB == NewBlocks(c, input)
               tail == Leftover(c, input)
               Z == Append(c.state, filled) \o NB
               X == Reached(c, w)
    <2>1. /\ w \in Nat /\ X \in Nat /\ X =< L /\ L < X + BlockCells
          /\ tail \in Seq(Int) /\ Len(tail) = L - X /\ \A i \in 1 .. Len(tail) : tail[i] = input[X + i]
          /\ NB \in Seq(Seq(Int)) /\ Len(NB) = w
          /\ \A n \in 1 .. w : /\ Reached(c, n - 1) \in Nat /\ Reached(c, n) \in Nat
                               /\ Reached(c, n) = Reached(c, n - 1) + BlockCells /\ Reached(c, n) =< L
      BY <1>10, UpdateParts DEF L
    <2>2. Update(c, input) = [state |-> Z, count |-> c.count + L, buffer |-> Copied(filled, 0, tail)]
      BY <1>10, UpdateIs DEF L, filled
    <2>n. \A n \in 1 .. w : NB[n] = SubSeq(input, Reached(c, n - 1) + 1, Reached(c, n))
      BY DEF NewBlocks
    <2>x. \A n \in Nat : Reached(c, n) = (BlockCells - r) + At(n)
      BY <1>4 DEF Reached
    <2> HIDE DEF w, NB, tail, X
    <2>3. /\ Len(c.state) = q /\ \A n \in 1 .. q : c.state[n] = BlockOf(G, n)
      BY <1>2, <1>3, <1>6
    <2>4. /\ Z \in Seq(Seq(Int)) /\ Len(Z) = q + 1 + w
          /\ \A n \in 1 .. q : Z[n] = c.state[n]
          /\ Z[q + 1] = filled
          /\ \A n \in 1 .. w : Z[q + 1 + n] = NB[n]
      <3> DEFINE A == Append(c.state, filled)
                 T == Seq(Int)
                 st == c.state
      <3>0. st \in Seq(T) /\ filled \in T /\ Len(st) = q
        BY <1>3, <1>5, <2>3
      <3> HIDE DEF A, T, st
      <3>a. /\ A \in Seq(T) /\ Len(A) = Len(st) + 1 /\ A[Len(st) + 1] = filled
            /\ \A n \in 1 .. Len(st) : A[n] = st[n]
        BY <3>0, AppendProperties DEF A, st
      <3>1. /\ A \in Seq(T) /\ Len(A) = q + 1 /\ A[q + 1] = filled
            /\ \A n \in 1 .. q : A[n] = c.state[n]
        BY <3>0, <3>a DEF st
      <3>b. NB \in Seq(T) /\ Len(NB) = w
        BY <2>1 DEF T
      <3>c. /\ A \o NB \in Seq(T) /\ Len(A \o NB) = Len(A) + Len(NB)
            /\ \A i \in 1 .. Len(A) + Len(NB) : (A \o NB)[i] = IF i =< Len(A) THEN A[i] ELSE NB[i - Len(A)]
        BY <3>1, <3>b, ConcatProperties
      <3>2. /\ A \o NB \in Seq(T) /\ Len(A \o NB) = (q + 1) + w
            /\ \A i \in 1 .. (q + 1) + w : (A \o NB)[i] = IF i =< q + 1 THEN A[i] ELSE NB[i - (q + 1)]
        BY <3>1, <3>b, <3>c
      <3>3. \A n \in 1 .. q : n \in 1 .. (q + 1) + w /\ n =< q + 1
        BY <1>2, <2>1
      <3>4. q + 1 \in 1 .. (q + 1) + w /\ q + 1 =< q + 1
        BY <1>2, <2>1
      <3>5. \A n \in 1 .. w : q + 1 + n \in 1 .. (q + 1) + w /\ ~(q + 1 + n =< q + 1) /\ (q + 1 + n) - (q + 1) = n
        BY <1>2, <2>1
      <3> QED
        BY <3>1, <3>2, <3>3, <3>4, <3>5 DEF A, T
    <2> HIDE DEF Z
    <2>5. /\ At(q + 1) = At(q) + BlockCells /\ At(w) \in Nat /\ At(q + 1) \in Nat
          /\ At(q + 1 + w) = At(q + 1) + At(w)
          /\ X = (BlockCells - r) + At(w)
      <3>1. q + 1 \in Nat
        BY <1>2
      <3>2. At(q + 1) = At(q) + BlockCells /\ At(w) \in Nat /\ At(q + 1) \in Nat
        BY <1>2, <2>1, <3>1, AtIs
      <3>3. At((q + 1) + w) = At(q + 1) + At(w)
        BY <2>1, <3>1, AtIs
      <3>4. X = (BlockCells - r) + At(w)
        BY <2>1, <2>x DEF X
      <3> QED
        BY <3>2, <3>3, <3>4
    <2>p. /\ w \in Nat /\ X \in Nat /\ X =< L /\ L < X + BlockCells
          /\ Len(g) \in Nat /\ L \in Nat /\ Len(G) = Len(g) + L
          /\ q \in Nat /\ r \in Nat /\ r < BlockCells /\ Len(g) = At(q) + r /\ At(q) \in Nat /\ BlockCells \in Nat
      BY <1>1, <1>2, <2>1
    <2>6. /\ At(q + 1 + w) = Len(g) + X
          /\ Len(G) = At(q + 1 + w) + (L - X) /\ L - X \in Nat /\ L - X < BlockCells
          /\ At(q + 1 + w) =< Len(G) /\ At(q + 1) =< Len(G)
      <3> DEFINE f == At(q)
                 m == At(w)
                 o == Len(g)
      <3>1. /\ f \in Nat /\ m \in Nat /\ o \in Nat /\ o = f + r /\ X = (BlockCells - r) + m
            /\ At(q + 1 + w) = (f + BlockCells) + m /\ At(q + 1) = f + BlockCells
        BY <2>5, <2>p
      <3> HIDE DEF f, m, o
      <3>2. /\ (f + BlockCells) + m = o + X
            /\ o + L = (o + X) + (L - X) /\ L - X \in Nat /\ o + X =< o + L /\ f + BlockCells =< o + L
        BY <2>p, <3>1, SumsOfBlocks
      <3>3. L - X < BlockCells
        BY <2>p
      <3> QED
        BY <2>p, <3>1, <3>2, <3>3 DEF o
    <2>7. Len(G) \div BlockCells = q + 1 + w /\ Len(G) % BlockCells = L - X
      <3> DEFINE p == q + 1 + w
                 s == L - X
      <3>1. p \in Nat /\ s \in Nat /\ s < BlockCells /\ Len(G) = At(p) + s
        BY <1>2, <2>1, <2>6
      <3> HIDE DEF p, s
      <3>2. (At(p) + s) \div BlockCells = p /\ (At(p) + s) % BlockCells = s
        BY <3>1, DivUnique
      <3> QED
        BY <3>1, <3>2 DEF p, s
    <2>8. filled = BlockOf(G, q + 1)
      <3>1. \A i \in 1 .. BlockCells : filled[i] = G[At((q + 1) - 1) + i]
        <4> TAKE i \in 1 .. BlockCells
        <4>0. (q + 1) - 1 = q
          BY <1>2
        <4>1. CASE i =< r
          BY <1>2, <1>7, <4>0, <4>1
        <4>2. CASE ~(i =< r)
          <5>1. i - r \in 1 .. L /\ r + (i - r) = i /\ i =< BlockCells
            BY <1>1, <1>2, <1>4, <1>10, <4>2
          <5>2. filled[r + (i - r)] = G[At(q) + (r + (i - r))]
            BY <1>8, <5>1
          <5> QED
            BY <4>0, <5>1, <5>2
        <4> QED
          BY <4>1, <4>2
      <3>2. q + 1 \in Nat \ {0} /\ At(q + 1) =< Len(G)
        BY <1>2, <2>6
      <3> QED
        BY <1>1, <1>5, <3>1, <3>2, BlockEqual
    <2>9. \A n \in 1 .. w : NB[n] = BlockOf(G, q + 1 + n)
      <3> TAKE n \in 1 .. w
      <3> DEFINE x == Reached(c, n - 1)
                 y == Reached(c, n)
                 k == q + 1 + n
      <3>1. x \in Nat /\ y \in Nat /\ y = x + BlockCells /\ y =< L
        BY <2>1
      <3>2. NB[n] = SubSeq(input, x + 1, y)
        BY <2>n
      <3>3. n - 1 \in Nat /\ n \in Nat /\ k \in Nat \ {0} /\ k - 1 = (q + 1) + (n - 1) /\ k = (q + 1) + n /\ q + 1 \in Nat
        BY <1>2, <2>1
      <3>4. At(k - 1) = At(q + 1) + At(n - 1) /\ At(k) = At(q + 1) + At(n) /\ At(n - 1) \in Nat /\ At(n) \in Nat
        <4>1. At((q + 1) + (n - 1)) = At(q + 1) + At(n - 1) /\ At((q + 1) + n) = At(q + 1) + At(n)
          BY <3>3, AtIs
        <4>2. At(n - 1) \in Nat /\ At(n) \in Nat
          BY <3>3, AtIs
        <4>3. At(k - 1) = At((q + 1) + (n - 1))
          BY <3>3
        <4> QED
          BY <4>1, <4>2, <4>3
      <3>5. x = (BlockCells - r) + At(n - 1) /\ y = (BlockCells - r) + At(n)
        BY <2>x, <3>3
      <3> HIDE DEF x, y, k
      <3>6. At(k - 1) = Len(g) + x /\ At(k) = Len(g) + y /\ At(k) =< Len(G)
        <4> DEFINE f == At(q)
                   m1 == At(n - 1)
                   m2 == At(n)
                   o == Len(g)
        <4>1. /\ f \in Nat /\ m1 \in Nat /\ m2 \in Nat /\ o \in Nat /\ o = f + r
              /\ x = (BlockCells - r) + m1 /\ y = (BlockCells - r) + m2
              /\ At(k - 1) = (f + BlockCells) + m1 /\ At(k) = (f + BlockCells) + m2
          BY <2>5, <2>p, <3>4, <3>5
        <4> HIDE DEF f, m1, m2, o
        <4>2. (f + BlockCells) + m1 = o + x /\ (f + BlockCells) + m2 = o + y /\ o + y =< o + L
          BY <2>p, <3>1, <4>1, SumsOfBlocks
        <4> QED
          BY <2>p, <4>1, <4>2 DEF o
      <3>7. /\ SubSeq(input, x + 1, y) \in Seq(Int) /\ Len(SubSeq(input, x + 1, y)) = BlockCells
            /\ \A i \in 1 .. BlockCells : SubSeq(input, x + 1, y)[i] = input[(x + 1) + i - 1]
        <4>1. \A i \in x + 1 .. y : i \in 1 .. Len(input)
          BY <1>1, <3>1 DEF L
        <4>2. \A i \in x + 1 .. y : input[i] \in Int
          BY <4>1
        <4>3. x + 1 \in Int /\ y \in Int /\ x + 1 =< y /\ y - (x + 1) + 1 = BlockCells
          BY <1>2, <3>1
        <4> QED
          BY <4>2, <4>3, SubSeqProperties
      <3>8. \A i \in 1 .. BlockCells : SubSeq(input, x + 1, y)[i] = G[At(k - 1) + i]
        <4> TAKE i \in 1 .. BlockCells
        <4>1. (x + 1) + i - 1 = x + i /\ x + i \in 1 .. L /\ At(k - 1) + i = Len(g) + (x + i)
          BY <1>1, <1>2, <3>1, <3>6
        <4> QED
          BY <1>1, <3>7, <4>1
      <3>9. SubSeq(input, x + 1, y) = BlockOf(G, k)
        BY <1>1, <3>3, <3>6, <3>7, <3>8, BlockEqual DEF k
      <3> QED
        BY <3>2, <3>9 DEF k
    <2>10. Z = [n \in 1 .. q + 1 + w |-> BlockOf(G, n)]
      <3>1. ASSUME NEW n \in 1 .. q + 1 + w PROVE Z[n] = BlockOf(G, n)
        <4>1. CASE n \in 1 .. q
          BY <2>3, <2>4, <4>1
        <4>2. CASE n = q + 1
          BY <2>4, <2>8, <4>2
        <4>3. CASE ~(n \in 1 .. q) /\ n # q + 1
          <5>1. n - (q + 1) \in 1 .. w /\ q + 1 + (n - (q + 1)) = n
            BY <1>2, <2>1, <4>3
          <5>2. Z[q + 1 + (n - (q + 1))] = BlockOf(G, q + 1 + (n - (q + 1)))
            BY <2>4, <2>9, <5>1
          <5> QED
            BY <5>1, <5>2
        <4> QED
          BY <4>1, <4>2, <4>3
      <3>2. Z = [n \in 1 .. q + 1 + w |-> Z[n]]
        BY <2>4
      <3> QED
        BY <3>1, <3>2
    <2>11. \A i \in 1 .. L - X : Copied(filled, 0, tail)[i] = G[At(q + 1 + w) + i]
      <3> TAKE i \in 1 .. L - X
      <3>1. i \in 1 .. BlockCells /\ i - 0 = i /\ i \in 1 .. Len(tail) /\ X + i \in 1 .. L
            /\ At(q + 1 + w) + i = Len(g) + (X + i)
        <4>1. /\ At(q + 1 + w) = Len(g) + X /\ L - X \in Nat /\ L - X < BlockCells
              /\ Len(tail) = L - X
          BY <2>1, <2>6
        <4> QED
          BY <2>p, <4>1
      <3>2. Copied(filled, 0, tail)[i] = IF i - 0 \in 1 .. Len(tail) THEN tail[i - 0] ELSE filled[i]
        <4>1. filled \in [1 .. BlockCells -> Int] /\ tail \in Seq(Int) /\ 0 \in Nat
          BY <1>5, <2>1
        <4>2. \A j \in 1 .. BlockCells :
                Copied(filled, 0, tail)[j] = IF j - 0 \in 1 .. Len(tail) THEN tail[j - 0] ELSE filled[j]
          BY <4>1, CopiedIs
        <4> QED
          BY <3>1, <4>2
      <3> QED
        BY <1>1, <2>1, <3>1, <3>2
    <2> DEFINE new == Copied(filled, 0, tail)
               u == [state |-> Z, count |-> c.count + L, buffer |-> new]
    <2>12. u.state = Z /\ u.count = Len(G) /\ u.buffer = new
      BY <1>1, <1>3
    <2>13. \A i \in 1 .. L - X : new[i] = G[At(q + 1 + w) + i]
      BY <2>11
    <2>14. Update(c, input) = u
      BY <2>2
    <2> HIDE DEF u, new
    <2>15. IsContext(u, G)
      BY <2>7, <2>10, <2>12, <2>13 DEF IsContext
    <2> QED
      BY <2>14, <2>15 DEF G
  <1> QED
    BY <1>9, <1>10


(* What Digest appends to a message, and what it answers.                       *)
LEMMA PaddingIs ==
    ASSUME NEW index \in Nat, index < BlockCells
    PROVE  /\ Padding(index) \in Seq(Int)
           /\ index < BlockCells - LengthSize => Len(Padding(index)) = BlockCells - LengthSize - index
  <1> DEFINE room == BlockCells - LengthSize
             padLen == IF index < room THEN room - index ELSE BlockCells + room - index
  <1>1. BlockCells \in Nat /\ LengthSize \in Nat /\ LengthSize < BlockCells
    BY Md5Assumption
  <1>2. padLen \in Nat
    BY <1>1
  <1>3. Padding(index) = [i \in 1 .. padLen |-> IF i = 1 THEN 128 ELSE 0]
    BY DEF Padding, PadMark, PadZero
  <1> HIDE DEF padLen
  <1>4. Padding(index) \in Seq(Int) /\ Len(Padding(index)) = padLen
    BY <1>2, <1>3
  <1> QED
    BY <1>4 DEF padLen

LEMMA LengthIs ==
    ASSUME NEW count \in Nat
    PROVE  Length(count) \in Seq(Int) /\ Len(Length(count)) = LengthSize
  <1>1. LengthSize \in Nat
    BY Md5Assumption
  <1>2. Length(count) = [i \in 1 .. LengthSize |-> 1000 + count]
    BY DEF Length, LengthCell
  <1>3. 1000 + count \in Int
    OBVIOUS
  <1> DEFINE k == 1000 + count
  <1> HIDE DEF k
  <1>4. [i \in 1 .. LengthSize |-> k] \in Seq(Int) /\ Len([i \in 1 .. LengthSize |-> k]) = LengthSize
    BY <1>1, <1>3 DEF k
  <1> QED
    BY <1>2, <1>4 DEF k

LEMMA FinalType ==
    ASSUME NEW c \in Contexts
    PROVE  /\ Final(c) \in Contexts /\ Update(c, Padding(c.count % BlockCells)) \in Contexts
           /\ Padding(c.count % BlockCells) \in Seq(Int) /\ Length(c.count) \in Seq(Int)
  <1>1. c.count \in Nat
    BY DEF Contexts
  <1>2. c.count % BlockCells \in Nat /\ c.count % BlockCells < BlockCells
    BY <1>1, DivIs
  <1>3. Padding(c.count % BlockCells) \in Seq(Int)
    BY <1>2, PaddingIs
  <1>4. Length(c.count) \in Seq(Int)
    BY <1>1, LengthIs
  <1>5. Update(c, Padding(c.count % BlockCells)) \in Contexts
    BY <1>3, UpdateType
  <1> QED
    BY <1>3, <1>4, <1>5, UpdateType DEF Final

LEMMA FinalAnswers ==
    ASSUME NEW c \in Contexts, NEW g \in Seq(Int), IsContext(c, g)
    PROVE  Final(c).state = BlocksOf(g)
  <1> DEFINE P == Padding(c.count % BlockCells)
             S == Length(c.count)
             G == (g \o P) \o S
  <1>1. c.count = Len(g)
    BY DEF IsContext
  <1>2. P \in Seq(Int) /\ S \in Seq(Int) /\ Update(c, P) \in Contexts /\ g \o P \in Seq(Int)
    BY FinalType, ConcatProperties
  <1>3. Final(c) = Update(Update(c, P), S)
    BY DEF Final
  <1>4. BlocksOf(g) = [n \in 1 .. Len(G) \div BlockCells |-> BlockOf(G, n)]
    BY <1>1 DEF BlocksOf, BlockOf, At
  <1> HIDE DEF P, S
  <1>5. IsContext(Update(c, P), g \o P)
    BY <1>2, UpdateKeeps
  <1>6. IsContext(Update(Update(c, P), S), (g \o P) \o S)
    BY <1>2, <1>5, UpdateKeeps
  <1> HIDE DEF G
  <1>7. Final(c).state = [n \in 1 .. Len(G) \div BlockCells |-> BlockOf(G, n)]
    BY <1>3, <1>6 DEF IsContext, G
  <1> QED
    BY <1>4, <1>7

(* Padding that fits into the last block is written behind what the block held. *)
LEMMA FinalSpares ==
    ASSUME NEW c \in Contexts, c.count % BlockCells < BlockCells - LengthSize
    PROVE  \A i \in 1 .. c.count % BlockCells : Final(c).buffer[i] = c.buffer[i]
  <1> DEFINE index == c.count % BlockCells
             room == BlockCells - LengthSize
             P == Padding(index)
             S == Length(c.count)
             u == Update(c, P)
  <1>1. /\ BlockCells \in Nat /\ LengthSize \in Nat /\ 1 =< LengthSize /\ LengthSize < BlockCells
        /\ c.count \in Nat /\ c.buffer \in [1 .. BlockCells -> Int]
    <2>1. BlockCells \in Nat /\ LengthSize \in Nat /\ 1 =< LengthSize /\ LengthSize < BlockCells
      BY Md5Assumption
    <2>2. c.count \in Nat /\ c.buffer \in [1 .. BlockCells -> Int]
      BY DEF Contexts
    <2> QED
      BY <2>1, <2>2
  <1>2. index \in Nat /\ index < BlockCells /\ c.count \div BlockCells \in Nat
        /\ c.count = At(c.count \div BlockCells) + index /\ At(c.count \div BlockCells) \in Nat
    <2>1. index \in Nat /\ index < BlockCells /\ c.count \div BlockCells \in Nat
          /\ c.count = At(c.count \div BlockCells) + index
      BY <1>1, DivIs
    <2> HIDE DEF index
    <2> QED
      BY <2>1, AtIs
  <1>3. P \in Seq(Int) /\ S \in Seq(Int) /\ u \in Contexts /\ Final(c) = Update(u, S)
    BY FinalType DEF Final
  <1>i. index < room
    OBVIOUS
  <1> DEFINE q == c.count \div BlockCells
  <1> HIDE DEF index, q
  <1>4. Len(P) = room - index
    BY <1>2, <1>i, PaddingIs
  <1>5. Len(S) = LengthSize
    BY <1>1, LengthIs
  <1> HIDE DEF P, S, u
  <1>6. Rest(c) = BlockCells - index /\ Len(P) < Rest(c)
    <2>1. Rest(c) = BlockCells - index
      BY DEF Rest, index
    <2> QED
      BY <1>1, <1>2, <1>4, <2>1
  <1>7. u = [state |-> c.state, count |-> c.count + Len(P), buffer |-> Filled(c, P)]
    BY <1>3, <1>6, UpdateIs DEF u
  <1>8. u.count = c.count + Len(P) /\ u.buffer = Filled(c, P)
    BY <1>7
  <1>9. u.count % BlockCells = room
    <2>1. room \in Nat /\ room < BlockCells
      BY <1>1
    <2>2. u.count = At(q) + room
      <3>1. c.count = At(q) + index /\ At(q) \in Nat
        BY <1>2 DEF q
      <3>2. c.count + Len(P) = At(q) + room
        BY <1>1, <1>2, <1>4, <3>1
      <3> QED
        BY <1>8, <3>2
    <2>3. q \in Nat
      BY <1>2 DEF q
    <2> HIDE DEF room
    <2> QED
      BY <2>1, <2>2, <2>3, DivUnique
  <1>10. Rest(u) = LengthSize /\ ~(Len(S) < Rest(u))
    <2>1. Rest(u) = BlockCells - room
      BY <1>9 DEF Rest
    <2> QED
      BY <1>1, <1>5, <2>1
  <1>11. /\ Filled(u, S) \in [1 .. BlockCells -> Int]
         /\ Leftover(u, S) \in Seq(Int) /\ Len(Leftover(u, S)) = Len(S) - Reached(u, Whole(u, S))
         /\ Reached(u, Whole(u, S)) =< Len(S) /\ Whole(u, S) \in Nat
    BY <1>3, <1>10, UpdateParts
  <1>12. Len(Leftover(u, S)) = 0
    <2>1. Reached(u, Whole(u, S)) = LengthSize + At(Whole(u, S)) /\ At(Whole(u, S)) \in Nat
      BY <1>10, <1>11, AtIs DEF Reached
    <2> QED
      BY <1>1, <1>5, <1>11, <2>1
  <1>13. Final(c).buffer = Copied(Filled(u, S), 0, Leftover(u, S))
    BY <1>3, <1>10, UpdateIs
  <1>14. \A i \in 1 .. BlockCells : Copied(Filled(u, S), 0, Leftover(u, S))[i] = Filled(u, S)[i]
    <2>1. \A i \in 1 .. BlockCells :
            Copied(Filled(u, S), 0, Leftover(u, S))[i] =
                IF i - 0 \in 1 .. Len(Leftover(u, S)) THEN Leftover(u, S)[i - 0] ELSE Filled(u, S)[i]
      <3> DEFINE f == Filled(u, S)
                 l == Leftover(u, S)
      <3>1. f \in [1 .. BlockCells -> Int] /\ l \in Seq(Int) /\ 0 \in Nat
        BY <1>11
      <3> HIDE DEF f, l
      <3>2. \A i \in 1 .. BlockCells :
              Copied(f, 0, l)[i] = IF i - 0 \in 1 .. Len(l) THEN l[i - 0] ELSE f[i]
        BY <3>1, CopiedIs
      <3> QED
        BY <3>2 DEF f, l
    <2>2. \A i \in 1 .. BlockCells : ~(i - 0 \in 1 .. 0)
      BY <1>1
    <2> QED
      BY <1>12, <2>1, <2>2
  <1>15. \A i \in 1 .. BlockCells :
            Filled(u, S)[i] = IF i - room \in 1 .. Len(S) THEN S[i - room] ELSE u.buffer[i]
    <2>1. Filled(u, S) = Copied(u.buffer, room, S)
      BY <1>9 DEF Filled
    <2>2. u.buffer \in [1 .. BlockCells -> Int] /\ room \in Nat
      BY <1>1, <1>3 DEF Contexts
    <2> DEFINE b == u.buffer
               x == room
    <2>3. b \in [1 .. BlockCells -> Int] /\ x \in Nat /\ S \in Seq(Int)
      BY <1>3, <2>2
    <2> HIDE DEF b, x
    <2>4. \A i \in 1 .. BlockCells :
            Copied(b, x, S)[i] = IF i - x \in 1 .. Len(S) THEN S[i - x] ELSE b[i]
      BY <2>3, CopiedIs
    <2> QED
      BY <2>1, <2>4 DEF b, x
  <1>16. \A i \in 1 .. BlockCells :
            Filled(c, P)[i] = IF i - index \in 1 .. Len(P) THEN P[i - index] ELSE c.buffer[i]
    <2>1. Filled(c, P) = Copied(c.buffer, index, P)
      BY DEF Filled, index
    <2> DEFINE b == c.buffer
    <2>2. b \in [1 .. BlockCells -> Int] /\ index \in Nat /\ P \in Seq(Int)
      BY <1>1, <1>2, <1>3
    <2> HIDE DEF b
    <2>3. \A i \in 1 .. BlockCells :
            Copied(b, index, P)[i] = IF i - index \in 1 .. Len(P) THEN P[i - index] ELSE b[i]
      BY <2>2, CopiedIs
    <2> QED
      BY <2>1, <2>3 DEF b
  <1>17. ASSUME NEW i \in 1 .. index PROVE Final(c).buffer[i] = c.buffer[i]
    <2>1. i \in 1 .. BlockCells /\ ~(i - room \in 1 .. Len(S)) /\ ~(i - index \in 1 .. Len(P))
      <3>1. i =< index /\ i \in Nat /\ 1 =< i
        BY <1>2
      <3>2. i =< BlockCells /\ ~(1 =< i - room) /\ ~(1 =< i - index)
        BY <1>1, <1>2, <1>i, <3>1
      <3> QED
        BY <3>1, <3>2
    <2> QED
      BY <1>8, <1>13, <1>14, <1>15, <1>16, <2>1
  <1> QED
    BY <1>17 DEF index

-----------------------------------------------------------------------------
LEMMA ResetIs ==
    ASSUME NEW buffer \in [1 .. BlockCells -> Int]
    PROVE  Reset(buffer) \in Contexts /\ Reset(buffer).count = 0 /\ IsContext(Reset(buffer), <<>>)
  <1>1. 0 \div BlockCells = 0 /\ 0 % BlockCells = 0
    <2>1. At(0) + 0 = 0 /\ 0 \in Nat /\ 0 < BlockCells
      BY AtIs
    <2>2. (At(0) + 0) \div BlockCells = 0 /\ (At(0) + 0) % BlockCells = 0
      BY <2>1, DivUnique
    <2> QED
      BY <2>1, <2>2
  <1> DEFINE none == <<>>
  <1>2. none \in Seq(Seq(Int)) /\ Len(none) = 0 /\ none = [n \in 1 .. 0 |-> BlockOf(none, n)]
    OBVIOUS
  <1>3. Reset(buffer) = [state |-> none, count |-> 0, buffer |-> buffer]
    BY DEF Reset
  <1> HIDE DEF none
  <1>4. Reset(buffer) \in Contexts /\ Reset(buffer).count = 0 /\ Reset(buffer).state = none
    <2> DEFINE k == 0
    <2>1. none \in Seq(Seq(Int)) /\ k \in Nat /\ Reset(buffer) = [state |-> none, count |-> k, buffer |-> buffer]
      BY <1>2, <1>3
    <2> HIDE DEF k
    <2> DEFINE fresh == [state |-> none, count |-> k, buffer |-> buffer]
    <2>2. fresh \in Contexts /\ fresh.count = k /\ fresh.state = none
      <3>1. none \in Seq(Seq(Int)) /\ k \in Nat
        BY <2>1
      <3> QED
        BY <3>1, ContextIs
    <2>3. Reset(buffer) = fresh
      BY <2>1
    <2> HIDE DEF fresh
    <2> QED
      BY <2>2, <2>3 DEF k
  <1>5. IsContext(Reset(buffer), none)
    BY <1>1, <1>2, <1>4 DEF IsContext
  <1> QED
    BY <1>4, <1>5 DEF none

LEMMA Md5InvInit == Md5Init => Md5Inv
  <1> SUFFICES ASSUME Md5Init PROVE Md5Inv
    OBVIOUS
  <1> DEFINE zeros == [i \in 1 .. BlockCells |-> 0]
  <1>1. zeros \in [1 .. BlockCells -> Int] /\ ctx = Reset(zeros)
    BY DEF Md5Init, PadZero
  <1> HIDE DEF zeros
  <1>2. ctx \in Contexts /\ ctx.count = 0 /\ IsContext(ctx, <<>>)
    BY <1>1, ResetIs
  <1>3. ulong \in UlongSizes /\ given = <<>> /\ spoilt = FALSE /\ answer.spoilt
    BY DEF Md5Init, NoAnswer
  <1>4. given \in Seq(Int) /\ Len(given) = 0
    BY <1>3
  <1> QED
    BY <1>2, <1>3, <1>4 DEF Md5Inv, Md5TypeOK, DigestOfAll

LEMMA GivePieceKeeps ==
    ASSUME Md5Inv, NEW piece \in BoundedSeq(Cells, MaxPiece), GivePiece(piece)
    PROVE  Md5Inv'
  <1>1. piece \in Seq(Int)
    <2>1. PICK n \in 0 .. MaxPiece : piece \in [1 .. n -> Cells]
      BY DEF BoundedSeq, SeqOf
    <2>2. \A k \in Cells : k \in Int
      BY Md5Assumption
    <2>3. piece \in [1 .. n -> Int]
      BY <2>1, <2>2
    <2>4. n \in Nat
      BY Md5Assumption
    <2> QED
      BY <2>3, <2>4
  <1>2. /\ ctx \in Contexts /\ given \in Seq(Int) /\ ctx.count = Len(given)
        /\ ulong \in UlongSizes /\ spoilt \in BOOLEAN
        /\ ~spoilt => IsContext(ctx, given)
    BY DEF Md5Inv, Md5TypeOK
  <1>3. /\ ctx' = Update(ctx, piece) /\ given' = given \o piece
        /\ ulong' = ulong /\ spoilt' = spoilt /\ answer' = answer
    BY DEF GivePiece
  <1>4. given' \in Seq(Int) /\ Len(given') = Len(given) + Len(piece)
    BY <1>1, <1>2, <1>3, ConcatProperties
  <1>5. ctx' \in Contexts /\ ctx'.count = Len(given')
    BY <1>1, <1>2, <1>3, <1>4, UpdateType
  <1>6. ~spoilt' => IsContext(ctx', given')
    <2>1. ~spoilt => IsContext(Update(ctx, piece), given \o piece)
      BY <1>1, <1>2, UpdateKeeps
    <2> QED
      BY <1>3, <2>1
  <1>7. DigestOfAll'
    BY <1>3 DEF Md5Inv, DigestOfAll, BlocksOf
  <1> QED
    BY <1>2, <1>3, <1>4, <1>5, <1>6, <1>7 DEF Md5Inv, Md5TypeOK

LEMMA DigestKeeps ==
    ASSUME Md5Inv, Digest PROVE Md5Inv'
  <1> DEFINE crowded == ctx.count % BlockCells >= BlockCells - LengthSize
             st == IF ulong = 4 THEN ctx.state ELSE HalfRestored
             b == Final(ctx).buffer
  <1>1. /\ ctx \in Contexts /\ given \in Seq(Int) /\ ctx.count = Len(given)
        /\ ulong \in UlongSizes /\ spoilt \in BOOLEAN
        /\ ~spoilt => IsContext(ctx, given)
    BY DEF Md5Inv, Md5TypeOK
  <1>2. /\ answer' = [digest |-> Final(ctx).state, of |-> given, spoilt |-> spoilt]
        /\ ctx' = [state |-> st, count |-> ctx.count, buffer |-> b]
        /\ spoilt' = (spoilt \/ crowded \/ ulong = 8)
        /\ ulong' = ulong /\ given' = given
    BY DEF Digest
  <1>3. ctx.state \in Seq(Seq(Int)) /\ ctx.count \in Nat /\ b \in [1 .. BlockCells -> Int]
    <2>1. Final(ctx) \in Contexts
      BY <1>1, FinalType
    <2> QED
      BY <1>1, <2>1 DEF Contexts
  <1>4. st \in Seq(Seq(Int))
    <2>1. <<-1>> \in Seq(Int)
      OBVIOUS
    <2>2. HalfRestored \in Seq(Seq(Int))
      BY <2>1 DEF HalfRestored
    <2> QED
      BY <1>3, <2>2
  <1>5. spoilt' \in BOOLEAN /\ (~spoilt' => ~spoilt /\ ~crowded /\ ulong # 8)
    BY <1>2, Zenon
  <1>6. ~spoilt' => st = ctx.state
    BY <1>1, <1>5, Md5Assumption
  <1>c. ~crowded => ctx.count % BlockCells < BlockCells - LengthSize
    <2>1. ctx.count % BlockCells \in Nat /\ BlockCells \in Nat /\ LengthSize \in Nat
      BY <1>3, DivIs, Md5Assumption
    <2> QED
      BY <2>1
  <1> HIDE DEF st, b, crowded
  <1>7. ctx' \in Contexts /\ ctx'.count = ctx.count /\ ctx'.state = st /\ ctx'.buffer = b
    BY <1>2, <1>3, <1>4, ContextIs
  <1>8. Md5TypeOK'
    BY <1>1, <1>2, <1>5, <1>7 DEF Md5TypeOK
  <1>9. ASSUME ~spoilt' PROVE IsContext(ctx', given')
    <2>1. IsContext(ctx, given) /\ st = ctx.state /\ ctx.count % BlockCells < BlockCells - LengthSize
      BY <1>1, <1>5, <1>6, <1>9, <1>c
    <2>2. \A i \in 1 .. ctx.count % BlockCells : b[i] = ctx.buffer[i]
      BY <1>1, <2>1, FinalSpares DEF b
    <2>3. /\ ctx.count = Len(given)
          /\ ctx.state = [n \in 1 .. Len(given) \div BlockCells |-> BlockOf(given, n)]
          /\ \A i \in 1 .. Len(given) % BlockCells : ctx.buffer[i] = given[At(Len(given) \div BlockCells) + i]
      BY <2>1 DEF IsContext
    <2>4. \A i \in 1 .. Len(given) % BlockCells : ctx'.buffer[i] = given[At(Len(given) \div BlockCells) + i]
      BY <1>7, <2>2, <2>3
    <2> QED
      BY <1>2, <1>7, <2>1, <2>3, <2>4 DEF IsContext
  <1>10. DigestOfAll'
    <2>1. ~spoilt => Final(ctx).state = BlocksOf(given)
      BY <1>1, FinalAnswers
    <2>2. answer'.digest = Final(ctx).state /\ answer'.of = given /\ answer'.spoilt = spoilt
      BY <1>2
    <2>3. DigestOfAll' <=> (~answer'.spoilt => answer'.digest = BlocksOf(answer'.of))
      BY DEF DigestOfAll, BlocksOf
    <2> QED
      BY <2>1, <2>2, <2>3
  <1> QED
    BY <1>8, <1>9, <1>10 DEF Md5Inv

LEMMA ResetAllKeeps ==
    ASSUME Md5Inv, ResetAll PROVE Md5Inv'
  <1>1. ctx \in Contexts /\ ulong \in UlongSizes
    BY DEF Md5Inv, Md5TypeOK
  <1>2. /\ ctx' = Reset(ctx.buffer) /\ given' = <<>> /\ spoilt' = FALSE
        /\ answer' = NoAnswer /\ ulong' = ulong
    BY DEF ResetAll
  <1>3. ctx' \in Contexts /\ ctx'.count = 0 /\ IsContext(ctx', given')
    <2>1. ctx.buffer \in [1 .. BlockCells -> Int]
      BY <1>1 DEF Contexts
    <2> QED
      BY <1>2, <2>1, ResetIs
  <1>4. given' \in Seq(Int) /\ Len(given') = 0
    BY <1>2
  <1>5. DigestOfAll'
    <2>1. answer'.spoilt
      BY <1>2 DEF NoAnswer
    <2>2. DigestOfAll' <=> (~answer'.spoilt => answer'.digest = BlocksOf(answer'.of))
      BY DEF DigestOfAll, BlocksOf
    <2> QED
      BY <2>1, <2>2
  <1> QED
    BY <1>1, <1>2, <1>3, <1>4, <1>5 DEF Md5Inv, Md5TypeOK

LEMMA Md5InvStep == Md5Inv /\ [Md5Next]_md5Vars => Md5Inv'
  <1> SUFFICES ASSUME Md5Inv, [Md5Next]_md5Vars PROVE Md5Inv'
    OBVIOUS
  <1>1. CASE UNCHANGED md5Vars
    <2>1. ulong' = ulong /\ ctx' = ctx /\ given' = given /\ spoilt' = spoilt /\ answer' = answer
      BY <1>1 DEF md5Vars
    <2>2. DigestOfAll'
      BY <2>1 DEF Md5Inv, DigestOfAll, BlocksOf
    <2> QED
      BY <2>1, <2>2 DEF Md5Inv, Md5TypeOK
  <1>2. CASE Digest
    BY <1>2, DigestKeeps
  <1>3. CASE ResetAll
    BY <1>3, ResetAllKeeps
  <1>4. ASSUME NEW piece \in BoundedSeq(Cells, MaxPiece), GivePiece(piece) PROVE Md5Inv'
    BY <1>4, GivePieceKeeps
  <1> QED
    BY <1>1, <1>2, <1>3, <1>4 DEF Md5Next

(* The context always holds the whole blocks of what was given, and the rest of *)
(* it in the front of the buffer, until a digest spoils it.                     *)
THEOREM Md5Invariant == Md5Spec => []Md5Inv
  BY Md5InvInit, Md5InvStep, PTL DEF Md5Spec

(* For blocks of any size and pieces of any length, however they are cut: a     *)
(* digest is that of all that was given (Encrypt.cpp:142, 179), until one has   *)
(* spoilt the context.                                                          *)
THEOREM DigestsAreOfAll == Md5Spec => []DigestOfAll
  <1>1. Md5Inv => DigestOfAll
    BY DEF Md5Inv
  <1> QED
    BY <1>1, Md5Invariant, PTL
==============================================================================
