------------------------------ MODULE Md5Digest ------------------------------
(* How class Encrypt (Shared/common/Encrypt.cpp) feeds a message to MD5: the    *)
(* pieces a caller gives are gathered in a buffer of one block, full blocks go  *)
(* to Transform, and Digest pads what is left, adds the length, and then goes   *)
(* back to the state before, so that more may follow.  Transform is left        *)
(* abstract: _state is the sequence of the blocks it has been given, which is    *)
(* what an ideal digest tells apart.  ulong is the compiler's: four bytes on    *)
(* Windows, eight on 64-bit Linux, where restoring 16 bytes of _state restores  *)
(* half of it.                                                                  *)
EXTENDS Integers, Sequences, SequencesExt

CONSTANTS
    BlockCells,  \* 64 in the code
    LengthSize,  \* the cells the length takes: 8
    UlongSizes,  \* sizeof(ulong) of the builds considered
    Cells,       \* the characters of a message
    MaxGiven,    \* bound: the length of a message
    MaxPiece     \* bound: the length of a piece

PadMark == 128
PadZero == 0
LengthCell(n) == 1000 + n

ASSUME Md5Assumption ==
    /\ LengthSize \in Nat \ {0} /\ BlockCells \in Nat /\ LengthSize < BlockCells
    /\ UlongSizes \subseteq {4, 8} /\ UlongSizes # {}
    /\ Cells \subseteq 1 .. 127 /\ MaxGiven \in Nat /\ MaxPiece \in Nat

VARIABLES
    ulong,     \* sizeof(ulong) in this build
    ctx,       \* [state, count, buffer]: _state, _count in cells, _buffer
    given,     \* history: what the caller has given since Reset
    spoilt,    \* history: a Digest has left the context other than it was
    answer     \* history: the last digest, the message it was asked of, and spoilt then

md5Vars == <<ulong, ctx, given, spoilt, answer>>

\* What a Digest leaves in _state when it restores half of it.
HalfRestored == << <<-1>> >>

Reset(buffer) == [state |-> <<>>, count |-> 0, buffer |-> buffer]
NoAnswer == [digest |-> <<>>, of |-> <<>>, spoilt |-> TRUE]

Md5Init ==
    /\ ulong \in UlongSizes
    /\ ctx = Reset([i \in 1 .. BlockCells |-> PadZero])
    /\ given = <<>>
    /\ spoilt = FALSE
    /\ answer = NoAnswer

\* Transform of one block: its effect on a digest, not its arithmetic, of which
\* Decode, that extends the sign of a byte from 128 up, is part.
Transform(state, block) == Append(state, block)

\* memcpy of a piece into the buffer, behind its first index cells.
Copied(buffer, index, piece) ==
    [i \in 1 .. BlockCells |-> IF i - index \in DOMAIN piece THEN piece[i - index] ELSE buffer[i]]

\* An update that forgets to start at the front of the buffer after a block.
UpdateMutant(c, input) ==
    LET index   == c.count % BlockCells
        partLen == BlockCells - index
        filled  == Copied(c.buffer, index, input)
    IN IF Len(input) < partLen
       THEN [state |-> c.state, count |-> c.count + Len(input), buffer |-> filled]
       ELSE [state  |-> Transform(c.state, filled),
             count  |-> c.count + Len(input),
             buffer |-> Copied(filled, index, SubSeq(input, partLen + 1, Len(input)))]

\* MD5(input, length): fill the block, transform it and the whole blocks behind
\* it, and keep the rest.
Update(c, input) ==
    LET index   == c.count % BlockCells
        partLen == BlockCells - index
        filled  == Copied(c.buffer, index, input)
        whole   == (Len(input) - partLen) \div BlockCells
        Taken(n) == partLen + BlockCells * n
    IN IF Len(input) < partLen
       THEN [state |-> c.state, count |-> c.count + Len(input), buffer |-> filled]
       ELSE [state  |-> Transform(c.state, filled) \o
                        [n \in 1 .. whole |-> SubSeq(input, Taken(n - 1) + 1, Taken(n))],
             count  |-> c.count + Len(input),
             buffer |-> Copied(filled, 0, SubSeq(input, Taken(whole) + 1, Len(input)))]

\* The padding up to the cells of the length, of this block or of the next.
Padding(index) ==
    LET room   == BlockCells - LengthSize
        padLen == IF index < room THEN room - index ELSE BlockCells + room - index
    IN [i \in 1 .. padLen |-> IF i = 1 THEN PadMark ELSE PadZero]

Length(count) == [i \in 1 .. LengthSize |-> LengthCell(count)]

\* Final: what Digest computes, before it restores _state and _count.
Final(c) == Update(Update(c, Padding(c.count % BlockCells)), Length(c.count))

GivePiece(piece) ==
    /\ Len(given) + Len(piece) =< MaxGiven
    /\ ctx' = Update(ctx, piece)
    /\ given' = given \o piece
    /\ UNCHANGED <<ulong, spoilt, answer>>

\* Digest computes anew every time: the updates of Final clear the _finished
\* that it has just set.  The buffer is not restored, _state only up to 16 bytes.
Digest ==
    LET crowded == ctx.count % BlockCells >= BlockCells - LengthSize
    IN /\ answer' = [digest |-> Final(ctx).state, of |-> given, spoilt |-> spoilt]
       /\ ctx' = [state  |-> IF ulong = 4 THEN ctx.state ELSE HalfRestored,
                  count  |-> ctx.count,
                  buffer |-> Final(ctx).buffer]
       /\ spoilt' = (spoilt \/ crowded \/ ulong = 8)
    /\ UNCHANGED <<ulong, given>>

ResetAll ==
    /\ ctx' = Reset(ctx.buffer)
    /\ given' = <<>>
    /\ spoilt' = FALSE
    /\ answer' = NoAnswer
    /\ UNCHANGED ulong

Md5Next == Digest \/ ResetAll \/ \E piece \in BoundedSeq(Cells, MaxPiece) : GivePiece(piece)

Md5Spec == Md5Init /\ [][Md5Next]_md5Vars

-----------------------------------------------------------------------------
\* A message as MD5 defines its blocks.
BlocksOf(message) ==
    LET padded == message \o Padding(Len(message) % BlockCells) \o Length(Len(message))
    IN [n \in 1 .. Len(padded) \div BlockCells |-> SubSeq(padded, BlockCells * (n - 1) + 1, BlockCells * n)]

(* However a message is cut into pieces, and whatever digests are asked for on  *)
(* the way, a digest is that of all that was given (Encrypt.cpp:142, 179),       *)
(* until one has been asked for whose padding did not fit into the last block:   *)
(* that one overwrites the start of the block for good, and the same question    *)
(* again has another answer.  Where ulong has eight bytes the first Digest is    *)
(* the last that can be right.                                                  *)
DigestOfAll == ~answer.spoilt => answer.digest = BlocksOf(answer.of)
=============================================================================
