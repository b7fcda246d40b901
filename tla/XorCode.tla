------------------------------ MODULE XorCode ------------------------------
(***************************************************************************)
(* Encrypt::XorCode, what a client and its front end do to every message:  *)
(* whole words first, then the bytes that are left, each against the key   *)
(* and the position.  Bytes are numbered from 0, as in the code; a byte is *)
(* the set of its bits that are 1; a word is its four bytes, the lowest    *)
(* first.                                                                  *)
(***************************************************************************)
EXTENDS Integers

KeyLength == 32  \* MAX_ENCRYPT_LENTH
Word == 4        \* sizeof(uint32)
Bytes == SUBSET (0 .. 7)

(* Byte j of a 32-bit number that is not negative. *)
ByteOf(number, j) == {b \in 0 .. 7 : ((number \div 256^j) \div 2^b) % 2 = 1}

(* Byte j of nRandNum + i, which two lengths never let overflow. *)
PositionByte(nRandNum, i, j) == ByteOf(nRandNum + i, j)

KeyIndex(i) == i % KeyLength

(* A mutant: the bits are put together. *)
XorByteMutant(byte, mask) == byte \cup mask

XorByte(byte, mask) == (byte \ mask) \cup (mask \ byte)

(* What byte p of a message of n bytes is combined with: as part of the    *)
(* word that starts at i, or alone.                                        *)
Mask(nRandNum, key, n, p) ==
    LET i == IF p < n - (n % Word) THEN p - (p % Word) ELSE p
    IN  XorByte(key[KeyIndex(i) + (p - i)], PositionByte(nRandNum, i, p - i))

Encoded(nRandNum, key, src, n) ==
    [p \in 0 .. n - 1 |-> XorByte(src[p], Mask(nRandNum, key, n, p))]

(* What one side encodes the other decodes with the same key: both sides   *)
(* pass the length of the message as nRandNum.                             *)
Restores(key, src, n) == Encoded(n, key, Encoded(n, key, src, n), n) = src

=============================================================================
