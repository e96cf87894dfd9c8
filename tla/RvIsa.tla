-------------------------------- MODULE RvIsa --------------------------------
(***************************************************************************)
(* What an RV32I machine does, one instruction at a time: the part of the  *)
(* instruction set that project_2 simulates.  Registers hold signed        *)
(* numbers, and there is no register 0 to write.  A load or a store that   *)
(* is neither to the device nor wholly inside the memory is not carried    *)
(* out, and nothing more happens.                                          *)
(***************************************************************************)
EXTENDS RvWords, Sequences

CONSTANTS NRegs,       \* number of registers, with register 0
          DataBase,    \* address of the first byte of the memory
          MemSize,     \* its size
          Device,      \* address of the device
          Programs     \* the programs that may be loaded

VARIABLES x, pc, mem, out, prog

vars == <<x, pc, mem, out, prog>>

R(r) == IF r = 0 THEN 0 ELSE x[r]
Set(r, v) == x' = [k \in DOMAIN x |-> IF k = r THEN v ELSE x[k]]

Value(n) == Signed(Wrap(n))
\* Bits hi..lo of a set of bits, moved down.
Down(S, n) == {k - n : k \in {j \in S : j >= n}}

Result(fn, a, b) ==
  LET A == Bits(Wrap(a))
      B == Bits(Wrap(b))
      n == Wrap(b) % WordBits
      sign == IF a < 0 THEN (WordBits - n) .. (WordBits - 1) ELSE {}
  IN  CASE fn = "add" -> Value(a + b)
        [] fn = "sub" -> Value(a - b)
        [] fn = "sll" -> Value(OfBits({k \in 0 .. (WordBits - 1) : k - n \in A}))
        [] fn = "slt" -> IF a < b THEN 1 ELSE 0
        [] fn = "sltu" -> IF Wrap(a) < Wrap(b) THEN 1 ELSE 0
        [] fn = "xor" -> Value(OfBits((A \ B) \cup (B \ A)))
        [] fn = "srl" -> Value(OfBits(Down(A, n)))
        [] fn = "sra" -> Value(OfBits(Down(A, n) \cup sign))
        [] fn = "or" -> Value(OfBits(A \cup B))
        [] fn = "and" -> Value(OfBits(A \cap B))

Holds(fn, a, b) ==
  CASE fn = "beq" -> a = b
    [] fn = "bne" -> a # b
    [] fn = "blt" -> a < b
    [] fn = "bge" -> a >= b
    [] fn = "bltu" -> Wrap(a) < Wrap(b)
    [] fn = "bgeu" -> Wrap(a) >= Wrap(b)

Goto(a) == pc' = Wrap(a)
Follow == Goto(pc + 4)

Computes(i) ==
  /\ \/ i.op = "OP" /\ Set(i.rd, Result(i.fn, R(i.rs1), R(i.rs2)))
     \/ i.op = "OPIMM" /\ Set(i.rd, Result(i.fn, R(i.rs1), i.imm))
     \/ i.op = "LUI" /\ Set(i.rd, Value(i.imm))
     \/ i.op = "AUIPC" /\ Set(i.rd, Value(pc + i.imm))
     \/ i.op = "OTHER" /\ UNCHANGED x
  /\ Follow
  /\ UNCHANGED <<mem, out>>

Jumps(i) ==
  /\ \/ /\ i.op = "BRANCH"
        /\ IF Holds(i.fn, R(i.rs1), R(i.rs2)) THEN Goto(pc + i.imm) ELSE Follow
        /\ UNCHANGED x
     \/ i.op = "JAL" /\ Goto(pc + i.imm) /\ Set(i.rd, Value(pc + 4))
     \/ i.op = "JALR" /\ Goto(2 * ((R(i.rs1) + i.imm) \div 2)) /\ Set(i.rd, Value(pc + 4))
  /\ UNCHANGED <<mem, out>>

\* The bytes of the word at an address.
Lanes(a) == (a - DataBase) .. (a - DataBase + WordBytes - 1)
InMemory(a) == Lanes(a) \subseteq 0 .. (MemSize - 1)

Loads(i) ==
  LET a == Wrap(R(i.rs1) + i.imm)
  IN  /\ i.op = "LOAD"
      /\ \/ a = Device /\ \E v \in Word : Set(i.rd, Signed(v))
         \/ /\ InMemory(a)
            /\ Set(i.rd, Value(OfBytes([k \in 0 .. (WordBytes - 1) |-> mem[a - DataBase + k]])))
      /\ Follow
      /\ UNCHANGED <<mem, out>>

Stores(i) ==
  LET a == Wrap(R(i.rs1) + i.imm)
      v == Wrap(R(i.rs2))
  IN  /\ i.op = "STORE"
      /\ \/ a = Device /\ out' \in {out, Append(out, v)} /\ UNCHANGED mem
         \/ /\ InMemory(a)
            /\ mem' = [k \in DOMAIN mem |->
                         IF k \in Lanes(a) THEN ByteOf(v, k - (a - DataBase)) ELSE mem[k]]
            /\ UNCHANGED out
      /\ Follow
      /\ UNCHANGED x

Init == /\ x = [k \in 1 .. (NRegs - 1) |-> 0]
        /\ pc = 0
        /\ mem \in [0 .. (MemSize - 1) -> Byte]
        /\ out = <<>>
        /\ prog \in Programs

\* The program is fetched in words: the lowest bits of pc do not count.
Next == /\ pc \div 4 + 1 \in DOMAIN prog
        /\ LET i == prog[pc \div 4 + 1]
           IN  Computes(i) \/ Jumps(i) \/ Loads(i) \/ Stores(i)
        /\ UNCHANGED prog

Spec == Init /\ [][Next]_vars
=============================================================================
