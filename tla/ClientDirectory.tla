-------------------------- MODULE ClientDirectory --------------------------
(***************************************************************************)
(* What the world server promises the login and data servers: one          *)
(* directory of the clients and their places, of which each server sees    *)
(* its share.  Every change of a share is on its way to its server, and    *)
(* the server goes through all of them, in order: it sees no share that    *)
(* was not the directory's, and skips none.                                *)
(***************************************************************************)
EXTENDS Integers, Sequences

CONSTANTS Clients, Feps, Ls, Dps

VARIABLES
    directory,  \* the clients that are placed: [client, fep, ls, dp]
    seen,       \* the share a server has seen last
    coming      \* the shares it is going to see, in order

directoryVars == <<directory, seen, coming>>

Servers == Ls \cup Dps

(* A login server knows a client by its front end and its data server, a   *)
(* data server by its login server.                                        *)
View(s, x) ==
    IF s \in Ls THEN [client |-> x.client, fep |-> x.fep, dp |-> x.dp]
                ELSE [client |-> x.client, ls |-> x.ls]

Share(s, dir) == {View(s, x) : x \in {y \in dir : s \in {y.ls, y.dp}}}

DirectoryInit ==
    /\ directory = {}
    /\ seen = [s \in Servers |-> {}]
    /\ coming = [s \in Servers |-> <<>>]

(* The directory and what its servers are going to see change together.    *)
ChangeTo(dir) ==
    /\ directory' = dir
    /\ coming' = [s \in Servers |-> IF Share(s, dir) = Share(s, directory)
                                    THEN coming[s] ELSE Append(coming[s], Share(s, dir))]
    /\ UNCHANGED seen

Place(c, f, l, d) ==
    /\ \A x \in directory : x.client # c
    /\ ChangeTo(directory \cup {[client |-> c, fep |-> f, ls |-> l, dp |-> d]})

Leave(c) ==
    /\ \E x \in directory : x.client = c
    /\ ChangeTo({x \in directory : x.client # c})

Learn(s) ==
    /\ coming[s] # <<>>
    /\ seen' = [seen EXCEPT ![s] = Head(coming[s])]
    /\ coming' = [coming EXCEPT ![s] = Tail(@)]
    /\ UNCHANGED directory

DirectoryNext ==
    \/ \E c \in Clients, f \in Feps, l \in Ls, d \in Dps : Place(c, f, l, d)
    \/ \E c \in Clients : Leave(c)
    \/ \E s \in Servers : Learn(s)

DirectorySpec == DirectoryInit /\ [][DirectoryNext]_directoryVars
=============================================================================
