--------------------------- MODULE MessageChannel ---------------------------
(***************************************************************************)
(* What a connection between two NetSockets promises its users: messages   *)
(* are delivered in the order they were sent, each at most once and        *)
(* intact, until the connection becomes faulty.  From then on deliveries   *)
(* may be anything, for the framing has no way to find its place again.    *)
(***************************************************************************)
EXTENDS Integers, Sequences

CONSTANT Messages

VARIABLES sent, delivered, faulty

channelVars == <<sent, delivered, faulty>>

ChannelInit ==
    /\ sent = <<>>
    /\ delivered = <<>>
    /\ faulty = FALSE

Send(m) ==
    /\ sent' = Append(sent, m)
    /\ faulty' \in {faulty, TRUE}
    /\ UNCHANGED delivered

Deliver ==
    /\ ~faulty
    /\ Len(delivered) < Len(sent)
    /\ delivered' = Append(delivered, sent[Len(delivered) + 1])
    /\ UNCHANGED <<sent, faulty>>

Fail ==
    /\ faulty' = TRUE
    /\ UNCHANGED <<sent, delivered>>

DeliverGarbled ==
    /\ faulty
    /\ Len(delivered') = Len(delivered) + 1
    /\ SubSeq(delivered', 1, Len(delivered)) = delivered
    /\ UNCHANGED <<sent, faulty>>

ChannelNext ==
    \/ \E m \in Messages : Send(m)
    \/ Deliver
    \/ Fail
    \/ DeliverGarbled

ChannelSpec == ChannelInit /\ [][ChannelNext]_channelVars
=============================================================================
