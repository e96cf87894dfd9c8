-------------------------------- MODULE RvSim --------------------------------
(***************************************************************************)
(* The simulator riscv-sim (project_2/main.c), from the loaded program on: *)
(* one action for each case of its switch.  Instructions are decoded (see  *)
(* RvDecode): op is the opcode, fn what func3 and func7 select in it.      *)
(* Words have WordBits bits in place of 32, the memory MemSize bytes in    *)
(* place of 65536, and DataBase stands for 0x10000000.                     *)
(***************************************************************************)
EXTENDS RvWords, Sequences

CONSTANTS NRegs,       \* number of registers
          DataBase, MemSize,
          Data,        \* what may be read from the data file: sequences of bytes
          Programs,    \* the programs that may be loaded
          N,           \* how many instructions to execute
          Inputs       \* what scanf may deliver

\* What the decoder makes of an instruction: an immediate of OPIMM has the sign of its
\* highest bit; what is none of these is OTHER.
Arithmetic == {"add", "sub", "sll", "slt", "sltu", "xor", "srl", "sra", "or", "and"}
Branches == {"beq", "bne", "blt", "bge"}
Register == 0 .. (NRegs - 1)

Decoded(op, fn, imm) == [op : op, fn : fn, rd : Register, rs1 : Register, rs2 : Register, imm : imm]
InstructionSet ==
  Decoded({"OP"}, Arithmetic, Int)
  \cup Decoded({"OPIMM"}, Arithmetic, - 2 ^ (WordBits - 1) .. 2 ^ (WordBits - 1) - 1)
  \cup Decoded({"BRANCH"}, Branches \cup {"bltu", "bgeu"}, Int)
  \cup Decoded({"LUI", "AUIPC", "LOAD", "STORE", "JAL", "JALR", "OTHER"}, {"-"}, Int)

\* A word is of two bytes or more; the memory ends below DataBase, when addresses
\* count from its first byte, and the device's address, twice DataBase, is a word.
ASSUME RvAssumption ==
  /\ NRegs \in Nat \ {0}
  /\ ByteBits \in Nat \ {0} /\ WordBits \in Nat /\ 2 * ByteBits <= WordBits
  /\ MemSize \in Nat /\ DataBase \in Nat
  /\ MemSize <= DataBase /\ 2 * DataBase < 2 ^ WordBits
  /\ \A d \in Data : d \in Seq(Byte) /\ Len(d) <= MemSize
  /\ Inputs \subseteq Word
  /\ Programs \subseteq Seq(InstructionSet)

\* Where the code compares addresses it has subtracted DataBase first.
Device == DataBase
CharLimit == 127

VARIABLES pc, reg, mem,
          prog,      \* buf
          i,         \* instructions executed
          status,    \* "running"; "done", at the dump; "failed", at return -1;
                     \* "overrun", after an access behind mem
          out        \* what was printed before the dump

vars == <<pc, reg, mem, prog, i, status, out>>

Instruction == prog[pc \div 4 + 1]

----------------------------------------------------------------------------
(* The loop.                                                               *)

InProgram == pc \div 4 < Len(prog)
Running == status = "running" /\ i < N /\ InProgram

\* An instruction sets a register; reg[0] = 0 follows each.
Write(r, v) == reg' = [[reg EXCEPT ![r] = v] EXCEPT ![0] = 0]

Counted == i' = i + 1 /\ UNCHANGED <<prog, status>>

\* The end of the switch: pc += 4.
Advance == pc' = Wrap(pc + 4)

Finish == /\ status = "running"
          /\ i >= N \/ ~InProgram
          /\ status' = "done"
          /\ UNCHANGED <<pc, reg, mem, prog, i, out>>

----------------------------------------------------------------------------
(* Arithmetic.                                                             *)

Bool(b) == IF b THEN 1 ELSE 0

\* C's shifts: the count is masked in the code.
Amount(b) == b % WordBits

Alu(fn, a, b) ==
  CASE fn = "add" -> Wrap(a + b)
    [] fn = "sub" -> Wrap(a - b)
    [] fn = "sll" -> Wrap(a * 2 ^ Amount(b))
    [] fn = "slt" -> Bool(Signed(a) < Signed(b))
    [] fn = "sltu" -> Bool(a < b)
    [] fn = "xor" -> OfBits((Bits(a) \cup Bits(b)) \ (Bits(a) \cap Bits(b)))
    [] fn = "srl" -> a \div 2 ^ Amount(b)
    [] fn = "sra" -> Wrap(Signed(a) \div 2 ^ Amount(b))
    [] fn = "or" -> OfBits(Bits(a) \cup Bits(b))
    [] fn = "and" -> OfBits(Bits(a) \cap Bits(b))

OpImm(I) == /\ I.op = "OPIMM"
            /\ Write(I.rd, Alu(I.fn, reg[I.rs1], Wrap(I.imm)))
            /\ Advance /\ Counted
            /\ UNCHANGED <<mem, out>>

Op(I) == /\ I.op = "OP"
         /\ Write(I.rd, Alu(I.fn, reg[I.rs1], reg[I.rs2]))
         /\ Advance /\ Counted
         /\ UNCHANGED <<mem, out>>

Upper(I) == /\ \/ I.op = "LUI" /\ Write(I.rd, Wrap(I.imm))
               \/ I.op = "AUIPC" /\ Write(I.rd, Wrap(pc + I.imm))
            /\ Advance /\ Counted
            /\ UNCHANGED <<mem, out>>

\* The default of a switch, outside the branches.
Unknown(I) == /\ I.op = "OTHER"
              /\ Advance /\ Counted
              /\ UNCHANGED <<reg, mem, out>>

----------------------------------------------------------------------------
(* Memory.                                                                 *)

\* addr_lw and addr_sw: an int.
Address(I) == Signed(Wrap(reg[I.rs1] + I.imm - DataBase))
Accepted(a) == 0 <= a /\ a < MemSize - 1
Lanes(a) == a .. (a + WordBytes - 1)
Inside(a) == Lanes(a) \subseteq DOMAIN mem

\* return -1.
Fail == status' = "failed" /\ i' = i + 1 /\ UNCHANGED <<pc, reg, mem, prog, out>>

\* The access reaches behind the array: what it reads or overwrites there is
\* not defined, and the model ends.
Overrun == status' = "overrun" /\ i' = i + 1 /\ UNCHANGED <<pc, reg, mem, prog, out>>

Lw(I) ==
  LET a == Address(I)
  IN  /\ I.op = "LOAD"
      /\ \/ /\ a = Device
            /\ \E input \in Inputs : Write(I.rd, input)
            /\ Advance /\ Counted
         \/ /\ Accepted(a) /\ Inside(a) /\ a # Device
            /\ Write(I.rd, OfBytes([k \in 0 .. (WordBytes - 1) |-> mem[a + k]]))
            /\ Advance /\ Counted
         \/ Accepted(a) /\ ~Inside(a) /\ a # Device /\ Overrun
         \/ ~Accepted(a) /\ a # Device /\ Fail
      /\ UNCHANGED <<mem, out>>

Stored(a, w) == [k \in DOMAIN mem |-> IF k \in Lanes(a) THEN ByteOf(w, k - a) ELSE mem[k]]

\* What cannot be printed is dropped.
Printed(w) == IF w < CharLimit THEN Append(out, w) ELSE out

Sw(I) ==
  LET a == Address(I)
      w == reg[I.rs2]
  IN  /\ I.op = "STORE"
      /\ \/ /\ Accepted(a) /\ Inside(a)
            /\ mem' = Stored(a, w)
            /\ Advance /\ Counted
            /\ UNCHANGED out
         \/ Accepted(a) /\ ~Inside(a) /\ Overrun
         \/ /\ a = Device /\ ~Accepted(a)
            /\ out' = Printed(w)
            /\ Advance /\ Counted
            /\ UNCHANGED mem
         \/ a # Device /\ ~Accepted(a) /\ Fail
      /\ UNCHANGED reg

----------------------------------------------------------------------------
(* Jumps.                                                                  *)

\* In the switch: pc += imm_b.
Taken(I) == LET a == reg[I.rs1]
                b == reg[I.rs2]
            IN  \/ I.fn = "beq" /\ a = b
                \/ I.fn = "bne" /\ a # b
                \/ I.fn = "blt" /\ Signed(a) < Signed(b)
                \/ I.fn = "bge" /\ Signed(a) >= Signed(b)

\* After it: the conditions under which a branch is not taken, once more.
NotTaken(I) == LET a == reg[I.rs1]
                   b == reg[I.rs2]
               IN  \/ I.fn = "beq" /\ a # b
                   \/ I.fn = "bne" /\ a = b
                   \/ I.fn = "blt" /\ Signed(a) >= Signed(b)
                   \/ I.fn = "bge" /\ Signed(a) < Signed(b)

Branch(I) == /\ I.op = "BRANCH"
             /\ LET p == IF Taken(I) THEN Wrap(pc + I.imm) ELSE pc
                IN  pc' = IF NotTaken(I) THEN Wrap(p + 4) ELSE p
             /\ Counted
             /\ UNCHANGED <<reg, mem, out>>

\* temp & ~1.
Even(w) == w - (w % 2)

\* Mutant: rd is written before rs1 is read.
MutJalr(I) == /\ I.op = "JALR"
              /\ Write(I.rd, Wrap(pc + 4))
              /\ pc' = Even(Wrap(reg'[I.rs1] + I.imm))
              /\ Counted
              /\ UNCHANGED <<mem, out>>
Jalr(I) == /\ I.op = "JALR"
           /\ LET temp == Wrap(reg[I.rs1] + I.imm)
              IN  /\ Write(I.rd, Wrap(pc + 4))
                  /\ pc' = Even(temp)
           /\ Counted
           /\ UNCHANGED <<mem, out>>

Jal(I) == /\ I.op = "JAL"
          /\ Write(I.rd, Wrap(pc + 4))
          /\ pc' = Wrap(pc + I.imm)
          /\ Counted
          /\ UNCHANGED <<mem, out>>

----------------------------------------------------------------------------
\* mem is not initialised by the program, hence 0, before the data file is read.
Loaded(d) == [k \in 0 .. (MemSize - 1) |-> IF k < Len(d) THEN d[k + 1] ELSE 0]

Init == /\ pc = 0
        /\ reg = [r \in 0 .. (NRegs - 1) |-> 0]
        /\ \E d \in Data : mem = Loaded(d)
        /\ prog \in Programs
        /\ i = 0
        /\ status = "running"
        /\ out = <<>>

Execute(I) == \/ Lw(I) \/ OpImm(I) \/ Upper(I) \/ Sw(I) \/ Op(I)
              \/ Branch(I) \/ Jalr(I) \/ Jal(I) \/ Unknown(I)

Next == Finish \/ (Running /\ Execute(Instruction))

Spec == Init /\ [][Next]_vars

----------------------------------------------------------------------------
\* The machine that the simulator simulates: register 0 is not state, registers
\* are signed, and the device is at twice DataBase.
Machine == INSTANCE RvIsa WITH x <- [r \in 1 .. (NRegs - 1) |-> Signed(reg[r])],
                               Device <- 2 * DataBase

\* Each round of the loop carries out the instruction at pc, or ends the run.
EachRoundExecutes == [][i' # i /\ status' = "running" => Machine!Next]_vars

\* Only a load or a store ends the run before its end, and only if it is neither to
\* the device nor wholly inside the memory: the programs that the machine runs, run.
FailsRightly ==
  status \in {"failed", "overrun"} =>
    LET a == Wrap(reg[Instruction.rs1] + Instruction.imm)
    IN  /\ Instruction.op \in {"LOAD", "STORE"}
        /\ a # 2 * DataBase
        /\ ~Machine!InMemory(a)

\* The run of a program is a run of the machine: no step of the simulator changes
\* the machine's state in another way than an instruction does, no round is idle, and
\* the run of a program that the machine runs does not fail.
Implements == Machine!Spec /\ EachRoundExecutes /\ []FailsRightly

\* No access leaves the memory, whose last byte is at 0x1000FFFF.
NoOverrun == status # "overrun"

\* bltu and bgeu go to their target or to the next instruction.
UnsignedBranchesRight ==
  [][i' # i /\ Instruction.fn \in {"bltu", "bgeu"} => Machine!Next]_vars
=============================================================================
