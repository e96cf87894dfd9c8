------------------------------ MODULE RvDecode ------------------------------
(***************************************************************************)
(* The decoding of instruction words: by masks and shifts in project_2     *)
(* (the simulator), and with sums of signed parts in project_1, which      *)
(* prints the instructions.  A 32-bit word is the set of the bits that are *)
(* 1.                                                                      *)
(***************************************************************************)
EXTENDS RvFormats, Sequences, TLC

(* C's operators on words.                                                 *)

Mask(hi, lo) == lo .. hi
Shr(S, n) == {k - n : k \in {j \in S : j >= n}}             \* unsigned
Sar(S, n) == Shr(S, n) \cup IF 31 \in S THEN 32 - n .. 31 ELSE {}
Shl(S, n) == {k + n : k \in {j \in S : j + n <= 31}}

----------------------------------------------------------------------------
(* project_2.                                                              *)

sign(S, bit) == Sar(Shl(S, 32 - bit), 32 - bit)

opcode(I) == I \cap Mask(6, 0)
rd(I) == Shr(I \cap Mask(11, 7), 7)
func3(I) == Shr(I \cap Mask(14, 12), 12)
rs1(I) == Shr(I \cap Mask(19, 15), 15)
rs2(I) == Shr(I \cap Mask(24, 20), 20)
func7(I) == Shr(I \cap Mask(31, 25), 25)

imm_i(I) == sign(Shr(I, 20), 12)
imm_s(I) == sign(Shr(I \cap Mask(31, 25), 20) \cup (Shr(I, 7) \cap Mask(4, 0)), 12)
imm_b(I) == sign(Shr(I \cap {31}, 19) \cup Shr(I \cap Mask(30, 25), 20)
                   \cup Shr(I \cap Mask(11, 8), 7) \cup Shl(I \cap {7}, 4), 13)
imm_j(I) == sign(Shr(I \cap {31}, 11) \cup Shr(I \cap Mask(30, 21), 20)
                   \cup Shr(I \cap {20}, 9) \cup (I \cap Mask(19, 12)), 21)
imm_u(I) == I \cap Mask(31, 12)

----------------------------------------------------------------------------
(* project_1.  Its words are ints: their shifts to the right keep the sign. *)

imm1(I) == Int32(Sar(I, 20))
imm1_s(I) == Int32(Sar(I \cap Mask(31, 25), 20)) + Int32(Shr(I \cap Mask(11, 7), 7))
\* Mutant: the sign bit is shifted as an unsigned word.
Mutimm1_sb(I) == Int32(Shr(I \cap {31}, 19)) + Int32(Shl(I \cap {7}, 4))
                   + Int32(Shr(I \cap Mask(30, 25), 20)) + Int32(Shr(I \cap Mask(11, 8), 7))
imm1_sb(I) == Int32(Sar(I \cap {31}, 19)) + Int32(Shl(I \cap {7}, 4))
                + Int32(Shr(I \cap Mask(30, 25), 20)) + Int32(Shr(I \cap Mask(11, 8), 7))
imm1_uj(I) == Int32(Sar(I \cap {31}, 11)) + Int32(I \cap Mask(19, 12))
                + Int32(Shr(I \cap {20}, 9)) + Int32(Shr(I \cap Mask(30, 21), 20))

----------------------------------------------------------------------------
(* project_1 prints a name and its operands; the names are indexed by func3. *)

Unknown1 == <<"unknown instruction">>
Line1(names, f3, operands) == IF f3 \in DOMAIN names THEN <<names[f3]>> \o operands ELSE Unknown1

LoadText(I) == Line1(0 :> "lb" @@ 1 :> "lh" @@ 2 :> "lw" @@ 4 :> "lbu" @@ 5 :> "lhu", Ones(func3(I)),
                    <<Ones(rd(I)), imm1(I), Ones(rs1(I))>>)
OpImmText(I) ==
  LET f3 == Ones(func3(I))
      amount == Ones(Sar(I, 20) \cap Mask(4, 0))
  IN Line1(0 :> "addi" @@ 1 :> "slli" @@ 2 :> "slti" @@ 3 :> "sltiu" @@ 4 :> "xori"
            @@ 5 :> (IF 30 \in I THEN "srai" ELSE "srli") @@ 6 :> "ori" @@ 7 :> "andi", f3,
          <<Ones(rd(I)), Ones(rs1(I)), IF f3 = 5 THEN amount ELSE imm1(I)>>)
StoreText(I) == Line1(0 :> "sb" @@ 1 :> "sh" @@ 2 :> "sw", Ones(func3(I)), <<Ones(rs2(I)), imm1_s(I), Ones(rs1(I))>>)
OpText(I) ==
  LET names == 1 :> "sll" @@ 2 :> "slt" @@ 3 :> "sltu" @@ 4 :> "xor"
                 @@ 5 :> (IF 30 \in I THEN "sra" ELSE "srl") @@ 6 :> "or" @@ 7 :> "and"
      sums == 0 :> "add" @@ 32 :> "sub"
      operands == <<Ones(rd(I)), Ones(rs1(I)), Ones(rs2(I))>>
  IN IF func3(I) = {} THEN Line1(sums, Ones(func7(I)), operands) ELSE Line1(names, Ones(func3(I)), operands)
BranchText(I) == Line1(0 :> "beq" @@ 1 :> "bne" @@ 4 :> "blt" @@ 5 :> "bge" @@ 6 :> "bltu" @@ 7 :> "bgeu",
                      Ones(func3(I)), <<Ones(rs1(I)), Ones(rs2(I)), imm1_sb(I)>>)

Print1(I) ==
  LET opc == Ones(opcode(I))
  IN CASE opc = 3 -> LoadText(I)    [] opc = 19 -> OpImmText(I)
       [] opc = 35 -> StoreText(I)  [] opc = 51 -> OpText(I)
       [] opc = 99 -> BranchText(I)
       [] opc = 23 -> <<"auipc", Ones(rd(I)), Int32(imm_u(I))>>
       [] opc = 55 -> <<"lui", Ones(rd(I)), Int32(imm_u(I))>>
       [] opc = 103 -> <<"jalr", Ones(rd(I)), imm1(I), Ones(rs1(I))>>
       [] opc = 111 -> <<"jal", Ones(rd(I)), imm1_uj(I)>>
       [] OTHER -> Unknown1

(* main: a file of these words and `extra' bytes.  Its second and third      *)
(* arguments are not used.                                                   *)
CannotRead == "-1"
Listing(words, extra) == IF extra # 0 THEN CannotRead ELSE [i \in DOMAIN words |-> Print1(words[i])]
=============================================================================
