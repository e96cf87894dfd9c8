----------------------------- MODULE RvFormats -----------------------------
(***************************************************************************)
(* The instructions of RV64 with M, A, C, Zicsr, Zifencei, the             *)
(* floating-point extensions and the hypervisor's, as the ISA manual and   *)
(* encoding.h (which is not in the repository) give them: the code of      *)
(* each, and the place of the operands in its format.  What a decoder      *)
(* makes of a word is compared with what was encoded here.                 *)
(***************************************************************************)
EXTENDS Integers, Sequences

\* The number whose bits are those of S, up to bit 30; and the value of a word as an int.
Ones(S) == LET upto[k \in -1..30] == IF k < 0 THEN 0 ELSE upto[k - 1] + (IF k \in S THEN 2 ^ k ELSE 0)
           IN upto[30]
Int32(S) == IF 31 \in S THEN -1 - Ones((0..30) \ S) ELSE Ones(S)

BitsOf(n) == {k \in 0..30 : (n \div 2 ^ k) % 2 = 1}
At(n, place) == {k + place : k \in BitsOf(n)}

\* Bits hi..lo of S, moved so that bit lo is at place `at'.
Place(S, hi, lo, at) == {k - lo + at : k \in S \cap (lo .. hi)}

(* L: loads; I, S, B, U, J and R as the manual has them; H and W: shifts by a *)
(* constant, of XLEN and of 32 bits; A: atomics; X: load reserved; V: fences  *)
(* of the address space; C: control registers; N: no operands; E: fence, of   *)
(* two sets of accesses; T and Y: the hypervisor's loads and stores.          *)
(* FL and FS: loads and stores of f registers; FR: three f registers, with a  *)
(* rounding mode, FM without; FC: comparisons; F1: two f registers; FX and XF *)
(* have an x register as rd or as rs1, with a rounding mode, and FV and VF    *)
(* without; F4: four f registers, the last in the place of the immediate.     *)
HasRd(f) == f \in {"I", "L", "H", "W", "U", "J", "R", "A", "X", "C", "T",
                   "FL", "FR", "FM", "FC", "F1", "FX", "XF", "FV", "VF", "F4"}
HasRs1(f) == f \in {"I", "L", "H", "W", "S", "B", "R", "A", "X", "V", "C", "T", "Y",
                    "FL", "FS", "FR", "FM", "FC", "F1", "FX", "XF", "FV", "VF", "F4"}
HasRs2(f) == f \in {"S", "B", "R", "A", "V", "Y", "FS", "FR", "FM", "FC", "F4"}
ImmBits(f) == CASE f \in {"I", "L", "S", "C", "FL", "FS"} -> 0..11 [] f \in {"H", "W", "F4"} -> 0..4 [] f = "E" -> 0..7
                [] f = "B" -> 1..12 [] f = "U" -> 12..31 [] f = "J" -> 1..20 [] OTHER -> {}

EncodeImm(f, imm) ==
  CASE f \in {"I", "L", "H", "W", "C", "E", "FL"} -> Place(imm, 11, 0, 20) [] f = "F4" -> Place(imm, 4, 0, 27)
    [] f \in {"S", "FS"} -> Place(imm, 11, 5, 25) \cup Place(imm, 4, 0, 7)
    [] f = "B" -> Place(imm, 12, 12, 31) \cup Place(imm, 10, 5, 25)
                    \cup Place(imm, 4, 1, 8) \cup Place(imm, 11, 11, 7)
    [] f = "U" -> Place(imm, 31, 12, 12)
    [] f = "J" -> Place(imm, 20, 20, 31) \cup Place(imm, 10, 1, 21)
                    \cup Place(imm, 11, 11, 20) \cup Place(imm, 19, 12, 12)
    [] OTHER -> {}

\* Instructions of one format, opcode and func7, by their func3; and those without operands.
Rows(f, opc, f7, names) ==
  {[name |-> n, fmt |-> f, match |-> BitsOf(opc) \cup At(names[n], 12) \cup At(f7, 25)] : n \in DOMAIN names}
\* Those of one func3, by what they have in the place of rs2.
Rows2(f, opc, f7, f3, names) ==
  {[name |-> n, fmt |-> f, match |-> BitsOf(opc) \cup At(f3, 12) \cup At(names[n], 20) \cup At(f7, 25)] : n \in DOMAIN names}
Whole(words) == {[name |-> n, fmt |-> "N", match |-> BitsOf(115) \cup At(words[n], 20)] : n \in DOMAIN words}

Base == Rows("L", 3, 0, [lb |-> 0, lh |-> 1, lw |-> 2, lbu |-> 4, lhu |-> 5])
        \cup Rows("I", 19, 0, [addi |-> 0, slti |-> 2, sltiu |-> 3, xori |-> 4, ori |-> 6, andi |-> 7])
        \cup Rows("H", 19, 0, [slli |-> 1, srli |-> 5]) \cup Rows("H", 19, 32, [srai |-> 5])
        \cup Rows("U", 23, 0, [auipc |-> 0]) \cup Rows("U", 55, 0, [lui |-> 0])
        \cup Rows("S", 35, 0, [sb |-> 0, sh |-> 1, sw |-> 2])
        \cup Rows("R", 51, 0, [add |-> 0, sll |-> 1, slt |-> 2, sltu |-> 3, xor |-> 4, srl |-> 5, or |-> 6, and |-> 7])
        \cup Rows("R", 51, 32, [sub |-> 0, sra |-> 5])
        \cup Rows("B", 99, 0, [beq |-> 0, bne |-> 1, blt |-> 4, bge |-> 5, bltu |-> 6, bgeu |-> 7])
        \cup Rows("I", 103, 0, [jalr |-> 0]) \cup Rows("J", 111, 0, [jal |-> 0])
Wide == Rows("L", 3, 0, [ld |-> 3, lwu |-> 6]) \cup Rows("S", 35, 0, [sd |-> 3]) \cup Rows("I", 27, 0, [addiw |-> 0])
        \cup Rows("W", 27, 0, [slliw |-> 1, srliw |-> 5]) \cup Rows("W", 27, 32, [sraiw |-> 5])
        \cup Rows("R", 59, 0, [addw |-> 0, sllw |-> 1, srlw |-> 5]) \cup Rows("R", 59, 32, [subw |-> 0, sraw |-> 5])
Mult == Rows("R", 51, 1, [mul |-> 0, mulh |-> 1, mulhsu |-> 2, mulhu |-> 3,
                          div |-> 4, divu |-> 5, rem |-> 6, remu |-> 7])
        \cup Rows("R", 59, 1, [mulw |-> 0, divw |-> 4, divuw |-> 5, remw |-> 6, remuw |-> 7])
Amo == Rows("A", 47, 0, [amoadd_w |-> 2, amoadd_d |-> 3]) \cup Rows("A", 47, 4, [amoswap_w |-> 2, amoswap_d |-> 3])
       \cup Rows("X", 47, 8, [lr_w |-> 2, lr_d |-> 3]) \cup Rows("A", 47, 12, [sc_w |-> 2, sc_d |-> 3])
       \cup Rows("A", 47, 16, [amoxor_w |-> 2, amoxor_d |-> 3]) \cup Rows("A", 47, 32, [amoor_w |-> 2, amoor_d |-> 3])
       \cup Rows("A", 47, 48, [amoand_w |-> 2, amoand_d |-> 3]) \cup Rows("A", 47, 64, [amomin_w |-> 2, amomin_d |-> 3])
       \cup Rows("A", 47, 80, [amomax_w |-> 2, amomax_d |-> 3])
       \cup Rows("A", 47, 96, [amominu_w |-> 2, amominu_d |-> 3]) \cup Rows("A", 47, 112, [amomaxu_w |-> 2, amomaxu_d |-> 3])
System == Rows("C", 115, 0, [csrrw |-> 1, csrrs |-> 2, csrrc |-> 3, csrrwi |-> 5, csrrsi |-> 6, csrrci |-> 7])
          \cup Whole([ecall |-> 0, ebreak |-> 1, sret |-> 258, mret |-> 770, dret |-> 1970, wfi |-> 261,
                      sfence_w_inval |-> 384, sfence_inval_ir |-> 385])
          \cup Rows("V", 115, 9, [sfence_vma |-> 0]) \cup Rows("V", 115, 11, [sinval_vma |-> 0])
          \cup Rows("V", 115, 19, [hinval_vvma |-> 0]) \cup Rows("V", 115, 51, [hinval_gvma |-> 0])
          \cup Rows("E", 15, 0, [fence |-> 0]) \cup Rows("N", 15, 0, [fence_i |-> 1])
Hyper == Rows2("T", 115, 48, 4, [hlv_b |-> 0, hlv_bu |-> 1])
         \cup Rows2("T", 115, 50, 4, [hlv_h |-> 0, hlv_hu |-> 1, hlvx_hu |-> 3])
         \cup Rows2("T", 115, 52, 4, [hlv_w |-> 0, hlv_wu |-> 1, hlvx_wu |-> 3])
         \cup Rows2("T", 115, 54, 4, [hlv_d |-> 0])
         \cup Rows("Y", 115, 49, [hsv_b |-> 4]) \cup Rows("Y", 115, 51, [hsv_h |-> 4])
         \cup Rows("Y", 115, 53, [hsv_w |-> 4]) \cup Rows("Y", 115, 55, [hsv_d |-> 4])
         \cup Rows("V", 115, 49, [hfence_gvma |-> 0]) \cup Rows("V", 115, 17, [hfence_vvma |-> 0])

\* The floating-point formats by number, and the instructions that each one has.
Precision == [i \in 0..3 |-> <<"_s", "_d", "_h", "_q">>[i + 1]]
With(p, rows) == {[r EXCEPT !.name = @ \o Precision[p], !.match = @ \cup At(p, 25)] : r \in rows}
Arithmetic ==
  Rows("FR", 83, 0, [fadd |-> 0]) \cup Rows("FR", 83, 4, [fsub |-> 0])
  \cup Rows("FR", 83, 8, [fmul |-> 0]) \cup Rows("FR", 83, 12, [fdiv |-> 0])
  \cup Rows("FM", 83, 16, [fsgnj |-> 0, fsgnjn |-> 1, fsgnjx |-> 2]) \cup Rows("FM", 83, 20, [fmin |-> 0, fmax |-> 1])
  \cup Rows("FC", 83, 80, [fle |-> 0, flt |-> 1, feq |-> 2]) \cup Rows2("F1", 83, 44, 0, [fsqrt |-> 0])
  \cup Rows("F4", 67, 0, [fmadd |-> 0]) \cup Rows("F4", 71, 0, [fmsub |-> 0])
  \cup Rows("F4", 75, 0, [fnmsub |-> 0]) \cup Rows("F4", 79, 0, [fnmadd |-> 0])
  \cup Rows2("FX", 83, 96, 0, [fcvt_w |-> 0, fcvt_wu |-> 1, fcvt_l |-> 2, fcvt_lu |-> 3])
  \cup Rows2("FV", 83, 112, 1, [fclass |-> 0])
Convert(p) == LET named(r) == [r EXCEPT !.name = "fcvt" \o Precision[p] \o @, !.match = @ \cup At(p, 25)]
              IN {named(r) : r \in Rows2("XF", 83, 104, 0, [_w |-> 0, _wu |-> 1, _l |-> 2, _lu |-> 3])}
                 \cup {[name |-> "fcvt" \o Precision[p] \o Precision[q], fmt |-> "F1",
                        match |-> BitsOf(83) \cup At(q, 20) \cup At(32 + p, 25)] : q \in (0..3) \ {p}}
Moves == Rows2("FV", 83, 112, 0, [fmv_x_w |-> 0]) \cup Rows2("VF", 83, 120, 0, [fmv_w_x |-> 0])
         \cup Rows2("FV", 83, 113, 0, [fmv_x_d |-> 0]) \cup Rows2("VF", 83, 121, 0, [fmv_d_x |-> 0])
         \cup Rows2("FV", 83, 114, 0, [fmv_x_h |-> 0]) \cup Rows2("VF", 83, 122, 0, [fmv_h_x |-> 0])
Float == Rows("FL", 7, 0, [flh |-> 1, flw |-> 2, fld |-> 3, flq |-> 4])
         \cup Rows("FS", 39, 0, [fsh |-> 1, fsw |-> 2, fsd |-> 3, fsq |-> 4])
         \cup Moves \cup UNION {With(p, Arithmetic) \cup Convert(p) : p \in 0..3}

Instructions == Base \cup Wide \cup Mult \cup Amo \cup System \cup Hyper \cup Float
Codes == [n \in {i.name : i \in Instructions} |-> CHOOSE i \in Instructions : i.name = n]

\* The bits that tell an instruction of a format from others: mask_ of encoding.h.
Major == 0..6
Func3 == 12..14
Func7 == 25..31
MaskOf(f) == CASE f \in {"I", "L", "S", "B", "C", "E", "FL", "FS"} -> Major \cup Func3
               [] f \in {"U", "J"} -> Major
               [] f \in {"R", "W", "FM", "FC"} -> Major \cup Func3 \cup Func7
               [] f = "FR" -> Major \cup Func7
               [] f = "F4" -> Major \cup {25, 26}
               [] f \in {"F1", "FX", "XF"} -> Major \cup (20..24) \cup Func7
               [] f \in {"T", "FV", "VF"} -> Major \cup Func3 \cup (20..24) \cup Func7
               [] f = "H" -> Major \cup Func3 \cup (26..31)
               [] f = "A" -> Major \cup Func3 \cup (27..31)
               [] f = "X" -> Major \cup Func3 \cup (20..24) \cup (27..31)
               [] f \in {"V", "Y"} -> (0..14) \cup Func7
               [] f = "N" -> 0..31

Encode(op, imm, d, s1, s2) ==
  LET f == Codes[op].fmt
  IN Codes[op].match \cup EncodeImm(f, imm)
       \cup (IF HasRd(f) THEN Place(d, 4, 0, 7) ELSE {})
       \cup (IF HasRs1(f) THEN Place(s1, 4, 0, 15) ELSE {})
       \cup (IF HasRs2(f) THEN Place(s2, 4, 0, 20) ELSE {})

----------------------------------------------------------------------------
(* The compressed instructions of RV64: 16 bits, most registers of which    *)
(* are x8 to x15, and an immediate whose bits lie in an order that saves    *)
(* gates.                                                                   *)

(* CI: rd and an immediate; CU: c.lui; CH: rd and an amount; CK and CA: a     *)
(* short register, and an amount or an immediate; CB and CJ: branches; CR: rd *)
(* and rs2; C1: rs1; CS: two short registers; CW and CD: words and doubles at *)
(* an address; SL, SD, SS and SE: words and doubles on the stack, loaded and  *)
(* stored; CP and CQ: sums with sp; CE: no operands.                          *)
CRow(f, names) == {[name |-> n, fmt |-> f, match |-> BitsOf(names[n])] : n \in DOMAIN names}
Compressed ==
  UNION {CRow("CP", [c_addi4spn |-> 0]), CRow("CD", [c_fld |-> 8192, c_fsd |-> 40960]),
         CRow("CW", [c_lw |-> 16384, c_sw |-> 49152]), CRow("CI", [c_addi |-> 1, c_li |-> 16385]),
         CRow("CQ", [c_addi16sp |-> 24833]), CRow("CU", [c_lui |-> 24577]),
         CRow("CK", [c_srli |-> 32769, c_srai |-> 33793]), CRow("CA", [c_andi |-> 34817]),
         CRow("CS", [c_sub |-> 35841, c_xor |-> 35873, c_or |-> 35905, c_and |-> 35937,
                     c_subw |-> 39937, c_addw |-> 39969]),
         CRow("CJ", [c_j |-> 40961]), CRow("CB", [c_beqz |-> 49153, c_bnez |-> 57345]),
         CRow("CH", [c_slli |-> 2]), CRow("SD", [c_fldsp |-> 8194]), CRow("SL", [c_lwsp |-> 16386]),
         CRow("C1", [c_jr |-> 32770, c_jalr |-> 36866]), CRow("CR", [c_mv |-> 32770, c_add |-> 36866]),
         CRow("CE", [c_ebreak |-> 36866]), CRow("SE", [c_fsdsp |-> 40962]), CRow("SS", [c_swsp |-> 49154])}
CCodes == [n \in {i.name : i \in Compressed} |-> CHOOSE i \in Compressed : i.name = n]

Full1(f) == f \in {"CI", "CU", "CH", "CR", "SL", "SD", "C1"}      \* bits 7..11
Short1(f) == f \in {"CK", "CA", "CB", "CS", "CW", "CD"}           \* bits 7..9
Full2(f) == f \in {"CR", "SS", "SE"}                              \* bits 2..6
Short2(f) == f \in {"CS", "CW", "CD", "CP"}                       \* bits 2..4

\* Where bits hi..lo of the immediate are: <<hi, lo, place>>.
CPlaces(f) ==
  CASE f \in {"CI", "CH", "CK", "CA"} -> {<<5, 5, 12>>, <<4, 0, 2>>}
    [] f = "CU" -> {<<17, 17, 12>>, <<16, 12, 2>>}
    [] f = "CP" -> {<<5, 4, 11>>, <<9, 6, 7>>, <<2, 2, 6>>, <<3, 3, 5>>}
    [] f = "CQ" -> {<<9, 9, 12>>, <<4, 4, 6>>, <<6, 6, 5>>, <<8, 7, 3>>, <<5, 5, 2>>}
    [] f = "CW" -> {<<5, 3, 10>>, <<2, 2, 6>>, <<6, 6, 5>>}
    [] f = "CD" -> {<<5, 3, 10>>, <<7, 6, 5>>}
    [] f = "CB" -> {<<8, 8, 12>>, <<4, 3, 10>>, <<7, 6, 5>>, <<2, 1, 3>>, <<5, 5, 2>>}
    [] f = "CJ" -> {<<11, 11, 12>>, <<4, 4, 11>>, <<9, 8, 9>>, <<10, 10, 8>>, <<6, 6, 7>>, <<7, 7, 6>>,
                    <<3, 1, 3>>, <<5, 5, 2>>}
    [] f = "SL" -> {<<5, 5, 12>>, <<4, 2, 4>>, <<7, 6, 2>>}
    [] f = "SD" -> {<<5, 5, 12>>, <<4, 3, 5>>, <<8, 6, 2>>}
    [] f = "SS" -> {<<5, 2, 9>>, <<7, 6, 7>>}
    [] f = "SE" -> {<<5, 3, 10>>, <<8, 6, 7>>}
    [] OTHER -> {}
CImmBits(f) == UNION {m[2]..m[1] : m \in CPlaces(f)}

CMaskOf(f) == CASE f \in {"CK", "CA"} -> {0, 1, 10, 11, 13, 14, 15}
                [] f = "CS" -> {0, 1, 5, 6} \cup (10..15)
                [] f = "CQ" -> {0, 1} \cup (7..11) \cup {13, 14, 15}
                [] f = "CR" -> {0, 1} \cup (12..15)
                [] f = "C1" -> (0..6) \cup (12..15)
                [] f = "CE" -> 0..15
                [] OTHER -> {0, 1, 13, 14, 15}

CEncode(op, imm, r1, r2) ==
  LET f == CCodes[op].fmt
  IN CCodes[op].match \cup UNION {Place(imm, m[1], m[2], m[3]) : m \in CPlaces(f)}
       \cup (IF Full1(f) THEN Place(r1, 4, 0, 7) ELSE IF Short1(f) THEN Place(r1, 2, 0, 7) ELSE {})
       \cup (IF Full2(f) THEN Place(r2, 4, 0, 2) ELSE IF Short2(f) THEN Place(r2, 2, 0, 2) ELSE {})

\* The words that encode something else: c.addi16sp, c.jr, c.jalr and c.ebreak.
CEncodable(op, r1, r2) == /\ op = "c_lui" => r1 # {1}
                          /\ op \in {"c_mv", "c_add"} => r2 # {}
                          /\ op = "c_jalr" => r1 # {}
=============================================================================
