------------------------------- MODULE RvWords -------------------------------
(***************************************************************************)
(* Machine words of WordBits bits (32 in the simulator), as numbers, and   *)
(* C's operators on unsigned int and int.                                  *)
(***************************************************************************)
EXTENDS Integers

CONSTANTS WordBits, ByteBits

WordBytes == WordBits \div ByteBits
Word == 0 .. (2 ^ WordBits - 1)
Byte == 0 .. (2 ^ ByteBits - 1)

\* unsigned arithmetic, and the value of a word taken as an int.
Wrap(n) == n % (2 ^ WordBits)
Signed(w) == IF w < 2 ^ (WordBits - 1) THEN w ELSE w - 2 ^ WordBits

\* The bits of a word that are 1, and the word that has these bits.
Bits(w) == {k \in 0 .. (WordBits - 1) : (w \div 2 ^ k) % 2 = 1}
OfBits(S) == CHOOSE w \in Word : Bits(w) = S

\* Byte k of a word, the lowest is 0, and the word whose bytes are b: each is shifted
\* to its place.
ByteOf(w, k) == (w \div 2 ^ (ByteBits * k)) % (2 ^ ByteBits)
OfBytes(b) == OfBits({k \in 0 .. (WordBits - 1) :
                        (b[k \div ByteBits] \div 2 ^ (k % ByteBits)) % 2 = 1})
=============================================================================
