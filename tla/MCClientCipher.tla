--------------------------- MODULE MCClientCipher ---------------------------
(* A small instance of ClientCipher, in which the keys have their bytes    *)
(* and XorCode is checked with those in use.  The lengths go through those *)
(* around a word, around the key and after three keys as messages are sent.*)
EXTENDS ClientCipher, XorCode

KeyBytes(number) == [p \in 0 .. KeyLength - 1 |-> ByteOf((p * 83 + number * 58 + 5) % 255, 0)]
Sample(n) == [p \in 0 .. n - 1 |-> ByteOf((p * 37 + n) % 256, 0)]
Lengths == IF asked THEN {nSent, KeyLength - 3 + nSent, 3 * KeyLength - 4 + nSent} ELSE {}

(* A message that either side encodes with its key is given back by the    *)
(* same key: XorCode of XorCode is the message (Encrypt.cpp:346).          *)
CodeRestores == \A n \in Lengths : Restores(KeyBytes(fepKey), Sample(n), n)

=============================================================================
