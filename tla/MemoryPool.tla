------------------------------ MODULE MemoryPool ------------------------------
(* The pool of small memory blocks (Shared/common/MemoryPool.cpp): one         *)
(* ChunkPool for each multiple of sixteen bytes up to 256, each a singly linked *)
(* chain of free blocks with a word in front of every block, and the heap for   *)
(* larger requests.  Callers free what they were given, once.  The chain is     *)
(* modelled by its pointers, because a wrong one is what could go wrong.        *)
EXTENDS Integers, FiniteSets

CONSTANTS
    Pools,       \* the indexes of the chunk pools that the requests reach
    ChunkSize,   \* m_chunkSize, 4096 in the code
    Sizes,       \* the sizes requested
    FrontWords,  \* the lengths a word in front of a heap block may seem to hold
    MaxChunks,   \* bound: beyond it the heap is exhausted
    MaxHeap      \* bound: the number of heap blocks

CHUNK_POOL_SIZE == 16
BLOCK_MIN_SIZE == 16
WordSize == 4

\* The class of a request, and, on its way back, of the block it was given.
GET_CHUNKPOOL_INDEX(length) == (length + WordSize - 1) \div BLOCK_MIN_SIZE

BlockSize(i) == BLOCK_MIN_SIZE * (i + 1)

ASSUME MemoryAssumption ==
    /\ Pools \subseteq 0 .. CHUNK_POOL_SIZE - 1
    /\ ChunkSize \in Nat /\ \A i \in Pools : BlockSize(i) =< ChunkSize
    /\ Sizes \subseteq Nat
    /\ \A size \in Sizes : GET_CHUNKPOOL_INDEX(size) < CHUNK_POOL_SIZE => GET_CHUNKPOOL_INDEX(size) \in Pools
    /\ FrontWords \subseteq Nat
    /\ MaxChunks \in Nat /\ MaxHeap \in Nat

VARIABLES
    m_pMallocChunk,  \* the number of chunks of each pool
    m_pBlockHead,    \* the first free block of each pool, or NULL
    next,            \* _next of each block
    held,            \* the callers' blocks, each with the size requested
    heap             \* the heap blocks that were not given back

memVars == <<m_pMallocChunk, m_pBlockHead, next, held, heap>>

NULL == <<>>

\* The blocks of a chunk lie one behind the other; a rest is left unused.
BlockCount(i) == ChunkSize \div BlockSize(i)
BlocksOfChunk(i, c) == {<<i, c, k>> : k \in 1 .. BlockCount(i)}
Blocks == UNION {BlocksOfChunk(i, c) : i \in Pools, c \in 1 .. MaxChunks}
PoolOf(b) == b[1]

\* Blocks of the heap, told apart from those by the index no pool has.
HeapBlocks == {<<CHUNK_POOL_SIZE, id, 0>> : id \in 1 .. MaxHeap}

MemInit ==
    /\ m_pMallocChunk = [i \in Pools |-> 0]
    /\ m_pBlockHead = [i \in Pools |-> NULL]
    /\ next = [b \in Blocks |-> NULL]
    /\ held = {}
    /\ heap = {}

\* malloc_chunk::InitializeChunk: the blocks of chunk c chained in their order.
InitializeChunk(i, c) ==
    [b \in Blocks |->
        IF b \in BlocksOfChunk(i, c) /\ b[3] < BlockCount(i) THEN <<i, c, b[3] + 1>>
        ELSE IF b \in BlocksOfChunk(i, c) THEN NULL ELSE next[b]]

\* ChunkPool::malloc: the head of the chain, which realloc fills when it is empty.
ChunkMalloc(i, size) ==
    LET empty == m_pBlockHead[i] = NULL
        c     == m_pMallocChunk[i] + 1
        chain == IF empty THEN InitializeChunk(i, c) ELSE next
        b     == IF empty THEN <<i, c, 1>> ELSE m_pBlockHead[i]
    IN /\ empty => c =< MaxChunks
       /\ m_pMallocChunk' = [m_pMallocChunk EXCEPT ![i] = IF empty THEN c ELSE @]
       /\ m_pBlockHead' = [m_pBlockHead EXCEPT ![i] = chain[b]]
       /\ next' = [chain EXCEPT ![b] = NULL]
       /\ held' = held \union {[block |-> b, size |-> size]}
       /\ UNCHANGED heap

\* A free that links past the first block of the chain.
ChunkFreeMutant(i, b) ==
    /\ next' = [next EXCEPT ![b] = IF m_pBlockHead[i] = NULL THEN NULL ELSE next[m_pBlockHead[i]]]
    /\ m_pBlockHead' = [m_pBlockHead EXCEPT ![i] = b]
    /\ UNCHANGED <<m_pMallocChunk, heap>>

\* ChunkPool::free: the block goes to the front of the chain.
ChunkFree(i, b) ==
    /\ next' = [next EXCEPT ![b] = m_pBlockHead[i]]
    /\ m_pBlockHead' = [m_pBlockHead EXCEPT ![i] = b]
    /\ UNCHANGED <<m_pMallocChunk, heap>>

\* MemoryPool::malloc of a small request.
MallocBlock(size) ==
    /\ GET_CHUNKPOOL_INDEX(size) < CHUNK_POOL_SIZE
    /\ ChunkMalloc(GET_CHUNKPOOL_INDEX(size), size)

\* MemoryPool::malloc of a larger one: the heap, and no word in front.
MallocHeap(size) ==
    /\ GET_CHUNKPOOL_INDEX(size) >= CHUNK_POOL_SIZE
    /\ \E p \in HeapBlocks \ heap :
          /\ heap' = heap \union {p}
          /\ held' = held \union {[block |-> p, size |-> size]}
    /\ UNCHANGED <<m_pMallocChunk, m_pBlockHead, next>>

\* MemoryPool::free of a block: the word in front holds its length, whose index,
\* less the word itself, is the pool it came from.
FreeBlock(a) ==
    /\ a.block \in Blocks
    /\ ChunkFree(GET_CHUNKPOOL_INDEX(BlockSize(PoolOf(a.block)) - WordSize), a.block)
    /\ held' = held \ {a}

\* MemoryPool::free of a heap block reads what lies in front of it as a length.
\* One that has the index of a pool sends the block there, where IS_MASK_OK
\* refuses it: it is never given back.  (For the length 0 the
\* subtraction wraps to a huge index.)
FreeHeap(a, length) ==
    /\ a.block \in heap
    /\ LET small == length > 0 /\ GET_CHUNKPOOL_INDEX(length - WordSize) < CHUNK_POOL_SIZE
       IN heap' = IF small THEN heap ELSE heap \ {a.block}
    /\ held' = held \ {a}
    /\ UNCHANGED <<m_pMallocChunk, m_pBlockHead, next>>

MemNext ==
    \/ \E size \in Sizes : MallocBlock(size) \/ MallocHeap(size)
    \/ \E a \in held : FreeBlock(a) \/ \E length \in FrontWords : FreeHeap(a, length)

MemSpec == MemInit /\ [][MemNext]_memVars

-----------------------------------------------------------------------------
\* What a caller gets when it follows the chain of pool i from its head.
Walk(i) ==
    LET w[n \in 0 .. Cardinality(Blocks)] ==
          IF n = 0 THEN m_pBlockHead[i] ELSE IF w[n - 1] = NULL THEN NULL ELSE next[w[n - 1]]
    IN w

FreeOf(i) ==
    (UNION {BlocksOfChunk(i, c) : c \in 1 .. m_pMallocChunk[i]}) \ {a.block : a \in held}

(* Every block of a pool is in one place: in the hands of one caller, whose      *)
(* request fits behind the word in front of it, or once on the chain, which     *)
(* ends.  No sequence of malloc and free loses a block, gives one out twice or  *)
(* ties the chain into a loop (MemoryPool.cpp:149, MemoryPool.h:32).            *)
BlocksAccounted ==
    /\ \A i \in Pools :
          LET n == Cardinality(FreeOf(i))
          IN {Walk(i)[k] : k \in 0 .. n - 1} = FreeOf(i) /\ Walk(i)[n] = NULL
    /\ \A a, b \in held :
          /\ a.block \in Blocks => a.size + WordSize =< BlockSize(PoolOf(a.block))
          /\ a # b => a.block # b.block
=============================================================================
