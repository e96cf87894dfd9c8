------------------------------ MODULE DraftSim ------------------------------
(***************************************************************************)
(* The simulator of proj2/pa2 (main.cc; diff.cc is the same loop without   *)
(* the lines it prints): one round of the loop, as a function of the state *)
(* and of the instruction, decoded as in RvDraft.  It counts instructions  *)
(* and words, not bytes: curr_i is an index into the program, and data has *)
(* a word for every address modulo the memory's size.  Words have WordBits *)
(* bits, as in RvSim.                                                      *)
(***************************************************************************)
EXTENDS RvWords, Sequences

CONSTANTS NRegs, Words,     \* registers; words of data
          Device,           \* stands for 0x20000000
          flag, proj3_flag  \* no data file is given; the program's name has "proj2_11"

DataBytes == Words * WordBytes

\* The state behind the loading: data beyond the file is 0xFF, each word of it.
Loaded(file) == [k \in 0..Words - 1 |-> IF k < Len(file) THEN file[k + 1] ELSE 2 ^ ByteBits - 1]
Start(file) == [curr_i |-> 0, reg |-> [r \in 0..NRegs - 1 |-> 0], data |-> Loaded(file), out |-> <<>>, status |-> "running"]

And(a, b) == OfBits(Bits(a) \cap Bits(b))
Or(a, b) == OfBits(Bits(a) \cup Bits(b))
Xor(a, b) == OfBits((Bits(a) \cup Bits(b)) \ (Bits(a) \cap Bits(b)))
Bool(b) == IF b THEN 1 ELSE 0
\* Division of an int rounds to 0.
Quarter(n) == IF n < 0 THEN -((-n) \div WordBytes) ELSE n \div WordBytes

\* reg[0] = 0 at the end of a round.
Set(s, r, v) == [s EXCEPT !.reg = [[@ EXCEPT ![r] = v] EXCEPT ![0] = 0]]
Advanced(s) == [s EXCEPT !.curr_i = @ + 1]

----------------------------------------------------------------------------
(* Arithmetic.  A shift by the width or more, or by -1, is undefined: any    *)
(* word may come of it.                                                      *)

Constant(fn, a, imm, any) ==
    CASE fn = "add" -> Wrap(a + imm)
      [] fn = "slt" -> Bool(Signed(a) < imm)
      [] fn = "xor" -> Xor(a, Wrap(imm)) [] fn = "or" -> Or(a, Wrap(imm)) [] fn = "and" -> And(a, Wrap(imm))
      [] fn = "sll" -> Wrap(a * 2 ^ imm)
      [] fn = "srl" -> IF imm = 0 THEN any ELSE And(a \div 2 ^ imm, (2 ^ (WordBits - 1) - 1) \div 2 ^ (imm - 1))
      [] fn = "sra" -> Wrap(Signed(a) \div 2 ^ imm)

Register(fn, a, b, any) ==
    CASE fn = "add" -> Wrap(a + b) [] fn = "sub" -> Wrap(a - b)
      [] fn = "sll" -> IF b % (4 * WordBits) < WordBits THEN Wrap(a * 2 ^ (b % (4 * WordBits))) ELSE any
      [] fn = "slt" -> Bool(a < b)
      [] fn = "xor" -> Xor(a, b) [] fn = "or" -> Or(a, b) [] fn = "and" -> And(a, b)
      [] fn = "srl" -> a \div 2 ^ (b % WordBits)
      [] fn = "sra" -> Wrap(Signed(a) \div 2 ^ (b % WordBits))

\* sltiu and sltu are printed and do nothing.
OpImm(s, I, any) == IF I.fn = "sltu" THEN s ELSE Set(s, I.rd, Constant(I.fn, s.reg[I.rs1], I.imm, any))
Op(s, I, any) == IF I.fn = "sltu" THEN s ELSE Set(s, I.rd, Register(I.fn, s.reg[I.rs1], s.reg[I.rs2], any))
Upper(s, I) == Set(s, I.rd, Wrap(IF I.op = "LUI" THEN I.imm ELSE s.curr_i * WordBytes + I.imm))

----------------------------------------------------------------------------
(* Memory: any address has a word.  Without a data file every access is to  *)
(* the device, unless the program is the one of project 3.                  *)

Slot(a) == (a % DataBytes) \div WordBytes
AtDevice(a) == IF proj3_flag THEN a = Device ELSE flag
Kept(a) == proj3_flag \/ ~ flag

Lw(s, I, typed) == LET a == Wrap(s.reg[I.rs1] + I.imm)
                   IN Set(s, I.rd, IF AtDevice(a) THEN typed ELSE s.data[Slot(a)])
Sw(s, I) == LET a == Wrap(s.reg[I.rs1] + I.imm)
                w == s.reg[I.rs2]
            IN [s EXCEPT !.out = IF AtDevice(a) THEN Append(@, ByteOf(w, 0)) ELSE @,
                         !.data = IF Kept(a) THEN [@ EXCEPT ![Slot(a)] = w] ELSE @]

----------------------------------------------------------------------------
(* Jumps.                                                                  *)

Link(s) == Wrap(s.curr_i * WordBytes + WordBytes)
Jal(s, I) == [Set(s, I.rd, Link(s)) EXCEPT !.curr_i = s.curr_i + Quarter(I.imm)]
\* The register is set before the target is computed.
Jalr(s, I) == LET linked == [s.reg EXCEPT ![I.rd] = Link(s)]
              IN [Set(s, I.rd, Link(s)) EXCEPT !.curr_i = Wrap(linked[I.rs1] + I.imm) \div WordBytes]

Taken(s, I) == LET a == Signed(s.reg[I.rs1])
                   b == Signed(s.reg[I.rs2])
               IN CASE I.fn = "beq" -> a = b [] I.fn = "bne" -> a # b [] I.fn = "blt" -> a < b [] I.fn = "bge" -> a >= b
                    [] OTHER -> FALSE
Branch(s, I) == IF Taken(s, I) THEN [s EXCEPT !.curr_i = @ + Quarter(I.imm)] ELSE Advanced(s)

----------------------------------------------------------------------------
(* A round: with curr_i behind the program it returns -1; in front of it,   *)
(* it reads what is not the program.                                       *)

Execute(s, I, typed, any) ==
    CASE I.op \in {"LUI", "AUIPC"} -> Advanced(Upper(s, I))
      [] I.op = "JAL" -> Jal(s, I)          [] I.op = "JALR" -> Jalr(s, I)
      [] I.op = "BRANCH" -> Branch(s, I)    [] I.op = "LOAD" -> Advanced(Lw(s, I, typed))
      [] I.op = "STORE" -> Advanced(Sw(s, I))
      [] I.op = "OPIMM" -> Advanced(OpImm(s, I, any))
      [] I.op = "OP" -> Advanced(Op(s, I, any))
      [] OTHER -> Advanced(s)

Round(s, prog, typed, any) ==
    IF s.status # "running" THEN s
    ELSE IF s.curr_i > Len(prog) - 1 THEN [s EXCEPT !.status = "failed"]
    ELSE IF s.curr_i < 0 THEN [s EXCEPT !.status = "overrun"]
    ELSE Execute(s, prog[s.curr_i + 1], typed, any)

\* The run: as many rounds as the last argument says.
Run(s, prog, N, typed, any) ==
    LET after[n \in 0..N] == IF n = 0 THEN s ELSE Round(after[n - 1], prog, typed, any) IN after[N]
=============================================================================
