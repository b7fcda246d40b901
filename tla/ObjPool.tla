------------------------------- MODULE ObjPool -------------------------------
(* The object pool the session managers take their sessions from              *)
(* (Shared/common/ObjPool.h), in the variant that keeps management            *)
(* information: beside each object lie bUsing and nMark, and                   *)
(* ManageInfoUsingBlocks::s_setBlocks lists the blocks that carry them.  The   *)
(* pool is used by one thread (line 2 of the header), so every call is one     *)
(* step.  The constructors that differ in the number of their parameters are   *)
(* one action.  GetMark and CheckMark, which nothing calls, are not modelled:  *)
(* they look for the mark at another place than Create and Destroy write it.   *)
EXTENDS Naturals, Sequences, FiniteSets

CONSTANTS
    BlockNumPerSlice,   \* m_nBlockNumPerSlice: blocks allocated at a time
    MaxSlices,          \* bound: beyond it calloc returns NULL
    MaxMark             \* bound: the number of objects made in one block

ASSUME PoolAssumption == BlockNumPerSlice \in Nat \ {0} /\ MaxSlices \in Nat /\ MaxMark \in Nat

VARIABLES
    m_staMemSlices,     \* the number of slices allocated
    m_staBlocks,        \* the stack of free blocks, its top last
    m_setUsingBlocks,   \* the blocks in use, by address
    s_setBlocks,        \* the blocks that carry management information
    info,               \* ObjMemInfo of each block: bUsing and nMark
    objects,            \* history: every object ever made, as its block, its mark and whether it lives
    poolDead            \* ~ObjPool has run

poolVars == <<m_staMemSlices, m_staBlocks, m_setUsingBlocks, s_setBlocks, info, objects, poolDead>>

\* The address of a block is its slice and its index there.
Block == (1 .. MaxSlices) \X (0 .. BlockNumPerSlice - 1)

PoolInit ==
    /\ m_staMemSlices = 0
    /\ m_staBlocks = <<>>
    /\ m_setUsingBlocks = {}
    /\ s_setBlocks = {}
    /\ info = [b \in Block |-> [bUsing |-> FALSE, nMark |-> 0]]
    /\ objects = {}
    /\ poolDead = FALSE

\* MemPool::enlarge: calloc gives a slice of zeroed blocks, all of them pushed.
Enlarged == [i \in 1 .. BlockNumPerSlice |-> <<m_staMemSlices + 1, i - 1>>]

\* A Create that starts every mark again.
MarkedMutant(b) == [info EXCEPT ![b] = [bUsing |-> TRUE, nMark |-> 1]]

\* ObjPool::Create marks the block it takes: the mark counts the objects made in it.
Marked(b) == [info EXCEPT ![b] = [bUsing |-> TRUE, nMark |-> @.nMark + 1]]

\* CreateObj: the top of the stack, after a new slice when the stack was empty;
\* when there is no memory for one, NULL and no change.
CreateObj ==
    /\ ~poolDead
    /\ LET grow   == m_staBlocks = <<>>
           blocks == IF grow THEN Enlarged ELSE m_staBlocks
           b      == blocks[Len(blocks)]
       IN /\ grow => m_staMemSlices < MaxSlices
          /\ info[b].nMark < MaxMark
          /\ m_staMemSlices' = m_staMemSlices + (IF grow THEN 1 ELSE 0)
          /\ m_staBlocks' = SubSeq(blocks, 1, Len(blocks) - 1)
          /\ m_setUsingBlocks' = m_setUsingBlocks \union {b}
          /\ s_setBlocks' = s_setBlocks \union {b}
          /\ info' = Marked(b)
          /\ objects' = objects \union {[block |-> b, mark |-> info'[b].nMark, lives |-> TRUE]}
    /\ UNCHANGED poolDead

Die(gone) == {IF o \in gone THEN [o EXCEPT !.lives = FALSE] ELSE o : o \in objects}
Lives(b) == {o \in objects : o.block = b /\ o.lives}

\* A mutant: Destroy does not look the block up.
DestroyObjMutant(b) ==
    /\ ~poolDead
    /\ m_staBlocks' = Append(m_staBlocks, b)
    /\ m_setUsingBlocks' = m_setUsingBlocks \ {b}
    /\ info' = [info EXCEPT ![b].bUsing = FALSE]
    /\ s_setBlocks' = s_setBlocks \ {b}
    /\ objects' = Die(Lives(b))
    /\ UNCHANGED <<m_staMemSlices, poolDead>>

\* DestroyObj of a pointer the pool gave out, stale or not.  The block goes back
\* on the stack, the mark stays for the next object there, and whatever object
\* lives there is destructed.  Of a block that is not in use it returns false.
DestroyObj(b) ==
    /\ ~poolDead
    /\ b \in m_setUsingBlocks
    /\ m_staBlocks' = Append(m_staBlocks, b)
    /\ m_setUsingBlocks' = m_setUsingBlocks \ {b}
    /\ info' = [info EXCEPT ![b].bUsing = IF b \in s_setBlocks THEN FALSE ELSE @]
    /\ s_setBlocks' = s_setBlocks \ {b}
    /\ objects' = Die(Lives(b))
    /\ UNCHANGED <<m_staMemSlices, poolDead>>

\* ~ObjPool and then ~MemPool: the objects in use are destructed and the slices
\* freed; s_setBlocks, which is static, keeps the blocks that were in use.
PoolDestructor ==
    /\ ~poolDead
    /\ poolDead' = TRUE
    /\ objects' = Die({o \in objects : o.block \in m_setUsingBlocks})
    /\ m_staMemSlices' = 0
    /\ m_staBlocks' = <<>>
    /\ m_setUsingBlocks' = {}
    /\ UNCHANGED <<s_setBlocks, info>>

PoolNext == CreateObj \/ (\E o \in objects : DestroyObj(o.block)) \/ PoolDestructor

PoolSpec == PoolInit /\ [][PoolNext]_poolVars

-----------------------------------------------------------------------------
\* The blocks of the slices allocated.
Made == (1 .. m_staMemSlices) \X (0 .. BlockNumPerSlice - 1)

(* However objects are made and destroyed, also by pointers that are stale:    *)
(* two objects that have lain in the same block have different marks, and none *)
(* has mark 0, as ObjMemInfo says (ObjPool.h:124); a block in use is that of   *)
(* one living object; every other block of the slices is on the stack, once,   *)
(* so that it is neither lost nor given out to two (ObjPool.h:58, 294).        *)
ObjectsApart ==
    ~poolDead =>
        /\ \A o, p \in objects : o.block = p.block /\ o.mark = p.mark => o = p
        /\ \A o \in objects : o.mark # 0
        /\ m_setUsingBlocks = {o.block : o \in {p \in objects : p.lives}}
        /\ \A o, p \in objects : o.block = p.block /\ o.lives /\ p.lives => o = p
        /\ {m_staBlocks[i] : i \in DOMAIN m_staBlocks} = Made \ m_setUsingBlocks
        /\ \A i, j \in DOMAIN m_staBlocks : m_staBlocks[i] = m_staBlocks[j] => i = j
=============================================================================
