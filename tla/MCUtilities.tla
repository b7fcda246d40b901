----------------------------- MODULE MCUtilities -----------------------------
(* The tools the servers are built with, each checked by itself: the object    *)
(* pool, the memory pool, the digest and the reader of tables.  They share no   *)
(* state, so a behaviour is one of a single tool: `part` says of which.         *)
EXTENDS ObjPool, MemoryPool, Md5Digest, ResourceBuffer

VARIABLE part

utilityVars == <<poolVars, memVars, md5Vars, rowVars, part>>

\* Tables of the shapes that matter: flags 1 and 2, rows as long as the flags,
\* shorter, longer and empty, a file without data and one without flags.
MCFiles == {
    << <<5>>, <<1, 2, 3>>, <<7, 300, -2>>, <<4, 5>>, <<6, 200, 8>> >>,
    << <<5>>, <<2, 1>>, <<1, 2>>, <<3, 4, 5>>, <<>>, <<6, 7>> >>,
    << <<5>>, <<2>> >>,
    << <<5>>, <<>>, <<2>>, <<2>> >> }   \* no flags: the row before them is empty

UtilitiesInit ==
    /\ PoolInit /\ MemInit /\ Md5Init /\ RowsInit
    /\ part \in {"objects", "memory", "digest", "rows"}
    /\ part # "digest" => ulong = 4
    /\ part # "rows" => Len(table) = 2

UtilitiesNext ==
    \/ part = "objects" /\ PoolNext /\ UNCHANGED <<memVars, md5Vars, rowVars, part>>
    \/ part = "memory" /\ MemNext /\ UNCHANGED <<poolVars, md5Vars, rowVars, part>>
    \/ part = "digest" /\ Md5Next /\ UNCHANGED <<poolVars, memVars, rowVars, part>>
    \/ part = "rows" /\ RowsNext /\ UNCHANGED <<poolVars, memVars, md5Vars, part>>

UtilitiesSpec == UtilitiesInit /\ [][UtilitiesNext]_utilityVars
=============================================================================
