------------------------------ MODULE RvDraft ------------------------------
(***************************************************************************)
(* The first disassembler of project_1, proj1/main.cc (test/main.cc is a   *)
(* copy), and with it the decoding in the simulator of proj2/pa2.  Fields  *)
(* are unsigned, and an immediate gets its sign by or-ing ones to it when  *)
(* a bit is set.                                                           *)
(***************************************************************************)
EXTENDS RvDecode

\* buffer_ << up >> down.
Field(I, up, down) == Shr(Shl(I, up), down)
Opcode(I) == Field(I, 25, 25)
Rd(I) == Ones(Field(I, 20, 27))
Funct3(I) == Ones(Field(I, 17, 29))
Rs1(I) == Ones(Field(I, 12, 27))
Rs2(I) == Ones(Field(I, 7, 27))
Funct7(I) == Shr(I, 25)

\* if (imm1 & the bit) imm1 |= the ones from `above' on.
Extended(imm, bit, above) == IF bit \in imm THEN imm \cup Mask(31, above) ELSE imm

upper(I) == Shl(Shr(I, 12), 12)
jump(I) == Extended(Shr(I \cap {31}, 11) \cup Shr(I \cap Mask(30, 21), 20) \cup Shr(I \cap {20}, 9)
                      \cup (I \cap Mask(19, 12)), 19, 16)
target(I) == Shr(I, 20)                 \* of jalr: its sign is not extended
branch(I) == Extended(Shr(I \cap {31}, 19) \cup Shr(I \cap Mask(30, 25), 20) \cup Shr(I \cap Mask(11, 8), 7)
                        \cup Shl(I \cap {7}, 4), 11, 12)
constant(I) == Extended(Shr(I, 20), 11, 12)

\* Of the offset of a byte's access only 4 bits are looked at, of half a word's 8, of a word's all.
Narrow(imm, f3) == CASE f3 % 4 = 0 -> imm \cap Mask(3, 0) [] f3 % 4 = 1 -> imm \cap Mask(7, 0) [] OTHER -> imm
SignOf(f3) == 3 + 4 * (f3 % 4)
SignedOffset(imm, f3) == Extended(Narrow(imm, f3), SignOf(f3), SignOf(f3) + 1)
offset(I, f3) == IF f3 >= 4 THEN Narrow(Shr(I, 20), f3) ELSE SignedOffset(Shr(I, 20), f3)
store_offset(I, f3) == SignedOffset(Shl(Funct7(I), 5) \cup Field(I, 20, 27), f3)

----------------------------------------------------------------------------
(* What is printed: a name by funct3, which only shifts, add and sub check  *)
(* with funct7, and the operands.                                          *)

Unknown2 == <<"unknown instruction">>
Line2(names, f3, operands) == IF f3 \in DOMAIN names THEN <<names[f3]>> \o operands ELSE Unknown2
Choose(I, plain, other) == CASE Funct7(I) = {} -> 0 :> plain [] Funct7(I) = {5} -> 0 :> other [] OTHER -> <<>>

LoadLine(I) == Line2(0 :> "lb" @@ 1 :> "lh" @@ 2 :> "lw" @@ 4 :> "lbu" @@ 5 :> "lhu", Funct3(I),
                     <<Rd(I), Int32(offset(I, Funct3(I))), Rs1(I)>>)
StoreLine(I) == Line2(0 :> "sb" @@ 1 :> "sh" @@ 2 :> "sw", Funct3(I),
                      <<Rs2(I), Int32(store_offset(I, Funct3(I))), Rs1(I)>>)
BranchLine(I) == Line2(0 :> "beq" @@ 1 :> "bne" @@ 4 :> "blt" @@ 5 :> "bge" @@ 6 :> "bltu" @@ 7 :> "bgeu", Funct3(I),
                       <<Rs1(I), Rs2(I), Int32(branch(I))>>)
ConstantLine(I) ==
    CASE Funct3(I) = 1 -> <<"slli", Rd(I), Rs1(I), Rs2(I)>>
      [] Funct3(I) = 5 -> Line2(Choose(I, "srli", "srai"), 0, <<Rd(I), Rs1(I), Rs2(I)>>)
      [] OTHER -> Line2(0 :> "addi" @@ 2 :> "slti" @@ 3 :> "sltiu" @@ 4 :> "xori" @@ 6 :> "ori" @@ 7 :> "andi", Funct3(I),
                        <<Rd(I), Rs1(I), Int32(constant(I))>>)
RegisterLine(I) ==
    LET operands == <<Rd(I), Rs1(I), Rs2(I)>>
    IN CASE Funct3(I) = 0 -> Line2(Choose(I, "add", "sub"), 0, operands)
         [] Funct3(I) = 5 -> Line2(Choose(I, "srl", "sra"), 0, operands)
         [] OTHER -> Line2(1 :> "sll" @@ 2 :> "slt" @@ 3 :> "sltu" @@ 4 :> "xor" @@ 6 :> "or" @@ 7 :> "and", Funct3(I), operands)

Print2(I) ==
    LET opc == Ones(Opcode(I))
    IN CASE opc = 55 -> <<"lui", Rd(I), Int32(upper(I))>>
         [] opc = 23 -> <<"auipc", Rd(I), Int32(upper(I))>>
         [] opc = 111 -> <<"jal", Rd(I), Int32(jump(I))>>
         [] opc = 103 -> <<"jalr", Rd(I), Int32(target(I)), Rs1(I)>>
         [] opc = 99 -> BranchLine(I)   [] opc = 3 -> LoadLine(I)
         [] opc = 35 -> StoreLine(I)    [] opc = 19 -> ConstantLine(I)
         [] opc = 51 -> RegisterLine(I) [] OTHER -> Unknown2

\* main: whole words only; what is left of the file is not looked at.
Listing2(words, extra) == [i \in DOMAIN words |-> Print2(words[i])]
=============================================================================
