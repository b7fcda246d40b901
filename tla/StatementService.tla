-------------------------- MODULE StatementService --------------------------
(***************************************************************************)
(* What a connection to the database promises those who queue statements:  *)
(* the callbacks come in the order of the statements, each at most once;   *)
(* no statement that is owed its rows is given up, and the rows it gets    *)
(* are its own, until the connection becomes faulty.  The order is kept    *)
(* even then.                                                              *)
(***************************************************************************)
EXTENDS Integers, Sequences, SequencesExt

CONSTANT Names  \* of the statements; rows are named by their statement

VARIABLES
    executed,  \* how many statements there were: the last one's name
    owed,      \* those that are owed their rows
    queued,    \* those that wait for their callback or to be given up
    told,      \* the callbacks made: [id, rows]
    faulty

serviceVars == <<executed, owed, queued, told, faulty>>

ServiceInit ==
    /\ executed = 0
    /\ owed = {}
    /\ queued = <<>>
    /\ told = <<>>
    /\ faulty = FALSE

Queue ==
    /\ executed' = executed + 1
    /\ owed' \in {owed, owed \cup {executed'}}
    /\ queued' = Append(queued, executed')
    /\ UNCHANGED <<told, faulty>>

(* A statement that goes past the queue may disturb it. *)
Execute ==
    /\ executed' = executed + 1
    /\ faulty' \in {faulty, TRUE}
    /\ UNCHANGED <<owed, queued, told>>

CallBack ==
    /\ queued # <<>>
    /\ \E rows \in Names :
          /\ Head(queued) \in owed => faulty \/ rows = Head(queued)
          /\ told' = Append(told, [id |-> Head(queued), rows |-> rows])
    /\ queued' = Tail(queued)
    /\ UNCHANGED <<executed, owed, faulty>>

GiveUp ==
    /\ faulty' \in {faulty, TRUE}
    /\ \E i \in 1 .. Len(queued) :
          /\ queued[i] \in owed => faulty'
          /\ queued' = RemoveAt(queued, i)
    /\ UNCHANGED <<executed, owed, told>>

Fail ==
    /\ faulty' = TRUE
    /\ UNCHANGED <<executed, owed, queued, told>>

ServiceNext == Queue \/ Execute \/ CallBack \/ GiveUp \/ Fail

ServiceSpec == ServiceInit /\ [][ServiceNext]_serviceVars
=============================================================================
