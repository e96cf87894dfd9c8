---------------------------- MODULE SpikeDisasm ----------------------------
(***************************************************************************)
(* spike's disassembler: a table of instructions, pseudo-instructions      *)
(* first, in chains by opcode, of which the first that matches a word is   *)
(* printed; and spike-dasm, which prints the words in the lines of a text. *)
(* A word is the set of its bits, 64 of them when it was sign-extended; a  *)
(* text is the name and the numbers that are printed, where the f          *)
(* registers are the numbers from 32 on.  The entries of bit manipulation  *)
(* and of the V and P extensions are left out.                             *)
(***************************************************************************)
EXTENDS RvFormats, Sequences, FiniteSetsExt, SequencesExt

\* insn_t: n bits from lo on, unsigned; and an int of the bits from lo on.
Part(I, lo, n) == Ones({k - lo : k \in I \cap (lo .. lo + n - 1)})
i_imm(I) == Int32({k - 20 : k \in I \cap (20..51)})
s_imm(I) == Part(I, 7, 5) + 32 * Int32({k - 25 : k \in I \cap (25..56)})
imm_sign(I) == IF 63 \in I THEN -1 ELSE 0
sb_imm(I) == 2 * Part(I, 8, 4) + 32 * Part(I, 25, 6) + 2048 * Part(I, 7, 1) + 4096 * imm_sign(I)
uj_imm(I) == 2 * Part(I, 21, 10) + 2048 * Part(I, 20, 1) + 4096 * Part(I, 12, 8) + 1048576 * imm_sign(I)

\* The immediates of 16-bit words: bits at <<place, number, weight>>; of the sign at 12 if it has a weight.
Gather(I, moves) == Ones(UNION {Place(I, m[1] + m[2] - 1, m[1], m[3]) : m \in moves})
Signed(I, weight) == IF 12 \in I THEN - (2 ^ weight) ELSE 0
rvc_imm(I) == Gather(I, {<<2, 5, 0>>}) + Signed(I, 5)
rvc_addi4spn_imm(I) == Gather(I, {<<6, 1, 2>>, <<5, 1, 3>>, <<11, 2, 4>>, <<7, 4, 6>>})
rvc_addi16sp_imm(I) == Gather(I, {<<6, 1, 4>>, <<2, 1, 5>>, <<5, 1, 6>>, <<3, 2, 7>>}) + Signed(I, 9)
rvc_lwsp_imm(I) == Gather(I, {<<4, 3, 2>>, <<12, 1, 5>>, <<2, 2, 6>>})
rvc_ldsp_imm(I) == Gather(I, {<<5, 2, 3>>, <<12, 1, 5>>, <<2, 3, 6>>})
rvc_swsp_imm(I) == Gather(I, {<<9, 4, 2>>, <<7, 2, 6>>})
rvc_sdsp_imm(I) == Gather(I, {<<10, 3, 3>>, <<7, 3, 6>>})
rvc_lw_imm(I) == Gather(I, {<<6, 1, 2>>, <<10, 3, 3>>, <<5, 1, 6>>})
rvc_ld_imm(I) == Gather(I, {<<10, 3, 3>>, <<5, 2, 6>>})
rvc_b_imm(I) == Gather(I, {<<3, 2, 1>>, <<10, 2, 3>>, <<2, 1, 5>>, <<5, 2, 6>>}) + Signed(I, 8)
rvc_j_imm(I) == Gather(I, {<<3, 3, 1>>, <<11, 1, 4>>, <<2, 1, 5>>, <<7, 1, 6>>, <<6, 1, 7>>, <<9, 2, 8>>, <<8, 1, 10>>})
                + Signed(I, 11)
rs1s(I) == 8 + Part(I, 7, 3)
rs2s(I) == 8 + Part(I, 2, 3)
X_SP == 2

\* The operands, to_string of each arg_t.
FPR == 32
load_address(I) == <<i_imm(I), Part(I, 15, 5)>>
store_address(I) == <<s_imm(I), Part(I, 15, 5)>>
RvcOperand(arg, I) ==
  CASE arg = "rvc_rs1" -> <<Part(I, 7, 5)>> [] arg = "rvc_rs2" -> <<Part(I, 2, 5)>>
    [] arg = "rvc_fp_rs2" -> <<FPR + Part(I, 2, 5)>> [] arg = "rvc_rs1s" -> <<rs1s(I)>>
    [] arg = "rvc_rs2s" -> <<rs2s(I)>> [] arg = "rvc_fp_rs2s" -> <<FPR + rs2s(I)>> [] arg = "rvc_sp" -> <<X_SP>>
    [] arg = "rvc_imm" -> <<rvc_imm(I)>> [] arg = "rvc_addi4spn_imm" -> <<rvc_addi4spn_imm(I)>>
    [] arg = "rvc_addi16sp_imm" -> <<rvc_addi16sp_imm(I)>>
    [] arg = "rvc_shamt" -> <<rvc_imm(I) % 64>> [] arg = "rvc_uimm" -> <<rvc_imm(I) % 2 ^ 20>>
    [] arg = "rvc_lwsp_address" -> <<rvc_lwsp_imm(I), X_SP>> [] arg = "rvc_ldsp_address" -> <<rvc_ldsp_imm(I), X_SP>>
    [] arg = "rvc_swsp_address" -> <<rvc_swsp_imm(I), X_SP>> [] arg = "rvc_sdsp_address" -> <<rvc_sdsp_imm(I), X_SP>>
    [] arg = "rvc_lw_address" -> <<rvc_lw_imm(I), rs1s(I)>> [] arg = "rvc_ld_address" -> <<rvc_ld_imm(I), rs1s(I)>>
    [] arg = "rvc_branch_target" -> <<rvc_b_imm(I)>> [] arg = "rvc_jump_target" -> <<rvc_j_imm(I)>>
Operand(arg, I) ==
  CASE arg = "xrd" -> <<Part(I, 7, 5)>> [] arg = "xrs1" -> <<Part(I, 15, 5)>> [] arg = "xrs2" -> <<Part(I, 20, 5)>>
    [] arg = "frd" -> <<FPR + Part(I, 7, 5)>> [] arg = "frs1" -> <<FPR + Part(I, 15, 5)>>
    [] arg = "frs2" -> <<FPR + Part(I, 20, 5)>> [] arg = "frs3" -> <<FPR + Part(I, 27, 5)>>
    [] arg = "load_address" -> load_address(I) [] arg = "store_address" -> store_address(I)
    [] arg = "base_only_address" -> <<Part(I, 15, 5)>> [] arg = "zimm5" -> <<Part(I, 15, 5)>>
    [] arg = "imm" -> <<i_imm(I)>> [] arg = "shamt" -> <<Part(I, 20, 6)>> [] arg = "csr" -> <<Part(I, 20, 12)>>
    [] arg = "bigimm" -> <<Part(I, 12, 20)>> [] arg = "iorw" -> <<Part(I, 24, 4), Part(I, 20, 4)>>
    [] arg = "branch_target" -> <<sb_imm(I)>> [] arg = "jump_target" -> <<uj_imm(I)>>
    [] OTHER -> RvcOperand(arg, I)

----------------------------------------------------------------------------
mask_rd == 7..11
mask_rs1 == 15..19
mask_rs2 == 20..24
mask_imm == 20..31
mask_rvc_rs2 == 2..6
mask_rvc_imm == mask_rvc_rs2 \cup {12}
match_rd_ra == {7}
match_rs1_ra == {15}

\* DISASM_INSN, with bits to be added to the match and the mask of the code.
Entry(name, op, match, mask, args) == [name |-> name, op |-> op, match |-> match, mask |-> mask, args |-> args]
Each(codes, args) == [i \in DOMAIN codes |-> Entry(codes[i], codes[i], {}, {}, args)]

add_noarg_insn(codes) == Each(codes, <<>>)
add_rtype_insn(codes) == Each(codes, <<"xrd", "xrs1", "xrs2">>)
add_itype_insn(codes) == Each(codes, <<"xrd", "xrs1", "imm">>)
add_itype_shift_insn(codes) == Each(codes, <<"xrd", "xrs1", "shamt">>)
add_xload_insn(codes) == Each(codes, <<"xrd", "load_address">>)
add_xstore_insn(codes) == Each(codes, <<"xrs2", "store_address">>)
add_xamo_insn(codes) == Each(codes, <<"xrd", "xrs2", "base_only_address">>)
add_xlr_insn(codes) == Each(codes, <<"xrd", "base_only_address">>)
add_xst_insn(codes) == Each(codes, <<"xrs2", "base_only_address">>)
add_fload_insn(codes) == Each(codes, <<"frd", "load_address">>)
add_fstore_insn(codes) == Each(codes, <<"frs2", "store_address">>)
add_frtype_insn(codes) == Each(codes, <<"frd", "frs1", "frs2">>)
add_fr1type_insn(codes) == Each(codes, <<"frd", "frs1">>)
add_fr3type_insn(codes) == Each(codes, <<"frd", "frs1", "frs2", "frs3">>)
add_fxtype_insn(codes) == Each(codes, <<"xrd", "frs1">>)
add_xftype_insn(codes) == Each(codes, <<"frd", "xrs1">>)
add_fx2type_insn(codes) == Each(codes, <<"xrd", "frs1", "frs2">>)
add_btype_insn(codes) == Each(codes, <<"xrs1", "xrs2", "branch_target">>)
add_b1type_insn(name, op) == <<Entry(name, op, {}, mask_rs2, <<"xrs1", "branch_target">>)>>
add_sfence_insn(codes) == Each(codes, <<"xrs1", "xrs2">>)
DEFINE_LTYPE(codes) == Each(codes, <<"xrd", "bigimm">>)
DEFINE_I0TYPE(name, op) == <<Entry(name, op, {}, mask_rs1, <<"xrd", "imm">>)>>
DEFINE_I1TYPE(name, op) == <<Entry(name, op, {}, mask_imm, <<"xrd", "xrs1">>)>>
DEFINE_I2TYPE(name, op) == <<Entry(name, op, {}, mask_rd \cup mask_imm, <<"xrs1">>)>>

\* The table, in the order of the source.
Memory == add_xload_insn(<<"lb", "lbu", "lh", "lhu", "lw", "lwu", "ld">>)
          \o add_xstore_insn(<<"sb", "sh", "sw", "sd">>)
Atomics == add_xamo_insn(<<"amoadd_w", "amoswap_w", "amoand_w", "amoor_w", "amoxor_w", "amomin_w", "amomax_w",
                           "amominu_w", "amomaxu_w", "amoadd_d", "amoswap_d", "amoand_d", "amoor_d", "amoxor_d",
                           "amomin_d", "amomax_d", "amominu_d", "amomaxu_d">>)
           \o add_xlr_insn(<<"lr_w">>) \o add_xamo_insn(<<"sc_w">>)
           \o add_xlr_insn(<<"lr_d">>) \o add_xamo_insn(<<"sc_d">>)
FloatMemory == add_fload_insn(<<"flw", "fld", "flh", "flq">>) \o add_fstore_insn(<<"fsw", "fsd", "fsh", "fsq">>)
Jumps == <<Entry("j", "jal", {}, mask_rd, <<"jump_target">>),
           Entry("jal", "jal", match_rd_ra, mask_rd, <<"jump_target">>),
           Entry("jal", "jal", {}, {}, <<"xrd", "jump_target">>)>>
Branches == add_b1type_insn("beqz", "beq") \o add_b1type_insn("bnez", "bne")
            \o add_b1type_insn("bltz", "blt") \o add_b1type_insn("bgez", "bge")
            \o add_btype_insn(<<"beq", "bne", "blt", "bge", "bltu", "bgeu">>)
Returns == <<Entry("ret", "jalr", match_rs1_ra, mask_rd \cup mask_rs1 \cup mask_imm, <<>>)>>
           \o DEFINE_I2TYPE("jr", "jalr")
           \o <<Entry("jalr", "jalr", match_rd_ra, mask_rd \cup mask_imm, <<"xrs1">>)>>
           \o add_itype_insn(<<"jalr">>)
Constants == <<Entry("nop", "addi", {}, mask_rd \cup mask_rs1 \cup mask_imm, <<>>)>>
             \o DEFINE_I0TYPE("li", "addi") \o DEFINE_I1TYPE("mv", "addi") \o add_itype_insn(<<"addi", "slti">>)
             \o <<Entry("seqz", "sltiu", {20}, mask_imm, <<"xrd", "xrs1">>)>> \o add_itype_insn(<<"sltiu">>)
             \o <<Entry("not", "xori", mask_imm, mask_imm, <<"xrd", "xrs1">>)>> \o add_itype_insn(<<"xori">>)
             \o add_itype_shift_insn(<<"slli", "srli", "srai">>) \o add_itype_insn(<<"ori", "andi">>)
             \o DEFINE_I1TYPE("sext.w", "addiw") \o add_itype_insn(<<"addiw">>)
             \o add_itype_shift_insn(<<"slliw", "srliw", "sraiw">>)
Registers == add_rtype_insn(<<"add", "sub", "sll", "slt">>)
             \o <<Entry("snez", "sltu", {}, mask_rs1, <<"xrd", "xrs2">>)>>
             \o add_rtype_insn(<<"sltu", "xor", "srl", "sra", "or", "and", "mul", "mulh", "mulhu", "mulhsu", "div",
                                 "divu", "rem", "remu", "addw", "subw", "sllw", "srlw", "sraw", "mulw", "divw",
                                 "divuw", "remw", "remuw">>)
Privileged == add_noarg_insn(<<"ecall", "ebreak", "sret", "mret", "dret", "wfi">>)
              \o Each(<<"fence">>, <<"iorw">>) \o add_noarg_insn(<<"fence_i">>) \o add_sfence_insn(<<"sfence_vma">>)
              \o add_noarg_insn(<<"sfence_w_inval", "sfence_inval_ir">>)
              \o add_sfence_insn(<<"sinval_vma", "hinval_vvma", "hinval_gvma">>)
Csrs == <<Entry("csrr", "csrrs", {}, mask_rs1, <<"xrd", "csr">>)>>
        \o [i \in 1..3 |-> Entry(<<"csrw", "csrs", "csrc">>[i], <<"csrrw", "csrrs", "csrrc">>[i], {}, mask_rd,
                                 <<"csr", "xrs1">>)]
        \o [i \in 1..3 |-> Entry(<<"csrwi", "csrsi", "csrci">>[i], <<"csrrwi", "csrrsi", "csrrci">>[i], {}, mask_rd,
                                 <<"csr", "zimm5">>)]
        \o Each(<<"csrrw", "csrrs", "csrrc">>, <<"xrd", "csr", "xrs1">>)
        \o Each(<<"csrrwi", "csrrsi", "csrrci">>, <<"xrd", "csr", "zimm5">>)

\* The instructions of one floating-point format, with its conversions and moves.
Suffixed(names, p) == [i \in DOMAIN names |-> names[i] \o p]
Floats(p, conversions, moves, back) ==
  add_frtype_insn(Suffixed(<<"fadd", "fsub", "fmul", "fdiv">>, p)) \o add_fr1type_insn(Suffixed(<<"fsqrt">>, p))
  \o add_frtype_insn(Suffixed(<<"fmin", "fmax">>, p))
  \o add_fr3type_insn(Suffixed(<<"fmadd", "fmsub", "fnmadd", "fnmsub">>, p))
  \o add_frtype_insn(Suffixed(<<"fsgnj", "fsgnjn", "fsgnjx">>, p)) \o add_fr1type_insn(conversions)
  \o add_xftype_insn([i \in 1..5 |-> "fcvt" \o p \o <<"_l", "_lu", "_w", "_wu", "_wu">>[i]] \o moves)
  \o add_fxtype_insn(Suffixed(<<"fcvt_l", "fcvt_lu", "fcvt_w", "fcvt_wu", "fclass">>, p) \o back)
  \o add_fx2type_insn(Suffixed(<<"feq", "flt", "fle">>, p))
Singles == Floats("_s", <<"fcvt_s_d", "fcvt_s_q">>, <<"fmv_w_x">>, <<"fmv_x_w">>)
Doubles == Floats("_d", <<"fcvt_d_s", "fcvt_d_q">>, <<"fmv_d_x">>, <<"fmv_x_d">>)
Halves == Floats("_h", <<"fcvt_h_s", "fcvt_h_d", "fcvt_h_q", "fcvt_s_h", "fcvt_d_h", "fcvt_q_h">>,
                 <<"fmv_h_x">>, <<"fmv_x_h">>)
Quads == Floats("_q", <<"fcvt_q_s", "fcvt_q_d">>, <<>>, <<>>)
Hypervisor == add_xlr_insn(<<"hlv_b", "hlv_bu", "hlv_h", "hlv_hu", "hlv_w", "hlv_wu", "hlv_d", "hlvx_hu", "hlvx_wu">>)
              \o add_xst_insn(<<"hsv_b", "hsv_h", "hsv_w", "hsv_d">>)
              \o add_sfence_insn(<<"hfence_gvma", "hfence_vvma">>)

\* The 16-bit entries, each with the code it is made from.
Rvc(name, args) == Entry(name, name, {}, {}, args)
RvcJumps ==
  <<Entry("c_ebreak", "c_add", {}, mask_rd \cup mask_rvc_rs2, <<>>),
    Entry("ret", "c_jr", match_rd_ra, mask_rd \cup mask_rvc_imm, <<>>),
    Entry("c_jr", "c_jr", {}, mask_rvc_imm, <<"rvc_rs1">>), Entry("c_jalr", "c_jalr", {}, mask_rvc_imm, <<"rvc_rs1">>)>>
RvcSums ==
  <<Entry("c_nop", "c_addi", {}, mask_rd \cup mask_rvc_imm, <<>>),
    Entry("c_addi16sp", "c_addi16sp", {}, mask_rd, <<"rvc_sp", "rvc_addi16sp_imm">>),
    Rvc("c_addi4spn", <<"rvc_rs2s", "rvc_sp", "rvc_addi4spn_imm">>), Rvc("c_li", <<"xrd", "rvc_imm">>),
    Rvc("c_lui", <<"xrd", "rvc_uimm">>), Rvc("c_addi", <<"xrd", "rvc_imm">>), Rvc("c_slli", <<"rvc_rs1", "rvc_shamt">>),
    Rvc("c_srli", <<"rvc_rs1s", "rvc_shamt">>), Rvc("c_srai", <<"rvc_rs1s", "rvc_shamt">>),
    Rvc("c_andi", <<"rvc_rs1s", "rvc_imm">>), Rvc("c_mv", <<"xrd", "rvc_rs2">>), Rvc("c_add", <<"xrd", "rvc_rs2">>)>>
RvcShort == [i \in 1..6 |-> Rvc(<<"c_addw", "c_sub", "c_subw", "c_and", "c_or", "c_xor">>[i], <<"rvc_rs1s", "rvc_rs2s">>)]
RvcMemory ==
  <<Rvc("c_lwsp", <<"xrd", "rvc_lwsp_address">>), Rvc("c_fld", <<"rvc_fp_rs2s", "rvc_ld_address">>),
    Rvc("c_swsp", <<"rvc_rs2", "rvc_swsp_address">>), Rvc("c_lw", <<"rvc_rs2s", "rvc_lw_address">>),
    Rvc("c_sw", <<"rvc_rs2s", "rvc_lw_address">>), Rvc("c_beqz", <<"rvc_rs1s", "rvc_branch_target">>),
    Rvc("c_bnez", <<"rvc_rs1s", "rvc_branch_target">>), Rvc("c_j", <<"rvc_jump_target">>),
    Rvc("c_fldsp", <<"frd", "rvc_ldsp_address">>), Rvc("c_fsd", <<"rvc_fp_rs2s", "rvc_ld_address">>),
    Rvc("c_fsdsp", <<"rvc_fp_rs2", "rvc_sdsp_address">>)>>

Explicit == Memory \o Atomics \o FloatMemory \o Jumps \o Branches \o DEFINE_LTYPE(<<"lui", "auipc">>) \o Returns
            \o Constants \o Registers \o Privileged \o Csrs \o Singles \o Doubles \o Halves \o Quads
            \o Hypervisor \o RvcJumps \o RvcSums \o RvcShort \o RvcMemory

\* Behind the entries, one for every code: their own and c_ebreak, in any order, some more than once.
add_unknown_insn(op) == Entry("args unknown", op, {}, {}, <<>>)
add_unknown_insns(table) == table \o [i \in DOMAIN table |-> add_unknown_insn(table[i].op)] \o <<add_unknown_insn("c_ebreak")>>

\* match_ and mask_ of the code itself.
AllCodes == Codes @@ CCodes
CodeMask(i) == IF i \in Compressed THEN CMaskOf(i.fmt) ELSE MaskOf(i.fmt)
WithCode(e, i) == [e EXCEPT !.match = i.match \cup @, !.mask = CodeMask(i) \cup @]
Coded(table) == [i \in DOMAIN table |-> WithCode(table[i], AllCodes[table[i].op])]
Table == Coded(add_unknown_insns(Explicit))

----------------------------------------------------------------------------
\* The chains: two masks, a hash, and one chain for what neither covers.
MASK1 == 0..6
MASK2 == {0, 1, 13, 14, 15}
HASH_SIZE == 255
hash(S, mask) == Ones(S \cap mask) % HASH_SIZE

ChainOf(e) == IF MASK1 \subseteq e.mask THEN hash(e.match, MASK1)
              ELSE IF MASK2 \subseteq e.mask THEN hash(e.match, MASK2) ELSE HASH_SIZE
add_insn(idx) == SelectSeq(Table, LAMBDA e : ChainOf(e) = idx)
chain == [idx \in 0..HASH_SIZE |-> add_insn(idx)] @@ <<>>      \* with @@, TLC evaluates it once

probe_once(I, idx) == SelectSeq(chain[idx], LAMBDA e : I \cap e.mask = e.match)
lookup(I) == LET idx == <<hash(I, MASK1), hash(I, MASK2), HASH_SIZE>>
             IN FlattenSeq([k \in DOMAIN idx |-> probe_once(I, idx[k])])

disassemble(I) == LET found == lookup(I)
                  IN IF found = <<>> THEN <<"unknown">>
                     ELSE <<found[1].name>> \o FlattenSeq([i \in DOMAIN found[1].args |-> Operand(found[1].args[i], I)])

----------------------------------------------------------------------------
(* spike-dasm.  A line is a sequence of characters, "DASM(" one of them, each *)
(* in a tuple of its own; a word that was replaced is a pair.  The digits are *)
(* 0 and f; the second 0x that strtoull would take is left out.               *)

isxdigit(s, i) == i \in DOMAIN s /\ s[i] \in {<<"0">>, <<"f">>}
Prefixed(s, i) == isxdigit(s, i) /\ s[i] = <<"0">> /\ i + 1 \in DOMAIN s /\ s[i + 1] = <<"x">>

\* strtoull: where the number ends.
RECURSIVE Endp(_, _)
Endp(s, i) == IF isxdigit(s, i) THEN Endp(s, i + 1) ELSE i

\* The number of the digits from i up to e, its sign extended from the first.
Number(s, i, e) ==
  LET bits == UNION {IF s[k] = <<"f">> THEN 4 * (e - k) - 4 .. 4 * (e - k) - 1 ELSE {} : k \in i .. e - 1}
      nbits == 4 * (e - i)
  IN bits \cup IF nbits - 1 \in bits THEN nbits .. 63 ELSE {}

RECURSIVE Dasm(_, _)
Dasm(s, pos) ==
  LET starts == {i \in DOMAIN s : i >= pos /\ s[i] = <<"DASM(">>}
      start == Min(starts)
      p == start + 1 + IF Prefixed(s, start + 1) THEN 2 ELSE 0
      endp == Endp(s, p)
  IN IF starts = {} THEN s
     ELSE IF ~ isxdigit(s, p) \/ endp \notin DOMAIN s \/ s[endp] # <<")">> THEN Dasm(s, p)
     ELSE Dasm(SubSeq(s, 1, start - 1) \o << <<"insn", Number(s, p, endp)>> >> \o SubSeq(s, endp + 1, Len(s)), start + 1)
=============================================================================
