---------------------------- MODULE TargetWords ----------------------------
(***************************************************************************)
(* Words in target memory: the typed accesses of memif_t (memif.cc), and   *)
(* the byte order of byteorder.h and htif.h.  Memory is a function of      *)
(* addresses; a byte has ByteRange values; a word is the sequence of its   *)
(* bytes as the host holds them, which is a little-endian machine.         *)
(***************************************************************************)
EXTENDS Naturals, Sequences, SequencesExt

CONSTANT ByteRange      \* how many values a byte has

ASSUME WordsAssumption == ByteRange \in Nat \ {0, 1}

Byte == 0..ByteRange - 1

\* The value of a host word, whose first byte is the lowest.
ValueOf(w) == FoldRight(LAMBDA b, n : b + ByteRange * n, w, 0)
RECURSIVE WordOf(_, _)
WordOf(v, n) == IF n = 0 THEN <<>> ELSE <<v % ByteRange>> \o WordOf(v \div ByteRange, n - 1)

\* swap(): n bytes from the other end, made of the swaps of the halves.
RECURSIVE swap(_)
swap(w) == IF Len(w) <= 1 THEN w
           ELSE LET half == Len(w) \div 2
                IN swap(SubSeq(w, half + 1, Len(w))) \o swap(SubSeq(w, 1, half))

from_le(w) == w
from_be(w) == swap(w)

\* htif_t::to_target and from_target: the target's order is decided by the ELF file.
to_target(big, w) == IF big THEN from_be(w) ELSE from_le(w)
from_target(big, w) == IF big THEN from_be(w) ELSE from_le(w)

\* Bytes between memory and a host buffer.
Bytes(mem, addr, n) == [i \in 1..n |-> mem[addr + i - 1]]
Put(mem, addr, bytes) == [a \in DOMAIN mem |-> IF a \in addr..addr + Len(bytes) - 1
                                               THEN bytes[a - addr + 1] ELSE mem[a]]

\* read_uint8 ... write_int64: a word of n bytes at a multiple of n, or an exception.
Aligned(addr, n) == addr % n = 0
Misaligned == <<>>      \* the exception
read_uint(mem, addr, n) == IF Aligned(addr, n) THEN Bytes(mem, addr, n) ELSE Misaligned
write_uint(mem, addr, w) == IF Aligned(addr, Len(w)) THEN Put(mem, addr, w) ELSE mem
=============================================================================
