---------------------------- MODULE MCServices ----------------------------
(* The services around a run of a program: what is read from the command line, *)
(* loaded, proxied and returned.  A behaviour is one of the descriptor table,  *)
(* the end of one run, or one call of a function with inputs from small sets.  *)
EXTENDS Fds, ExitCode, Loader, Calls, Options, SpikeMain, RvDecode, SpikeDisasm

VARIABLES part, input, result

call == <<part, input, result>>
svars == <<call, fdVars, evars>>

ServicesInit == /\ part \in {"fds", "exit", "load", "lines", "read", "stat", "main", "disk", "path", "string", "word",
                             "device", "spike", "htif", "memory", "images", "decode", "rvc", "dasm", "pa2"}
                /\ input = <<>> /\ result = <<>>
                /\ FdsInit /\ ExitInit

Called(p) == part = p /\ input = <<>> /\ UNCHANGED <<part, fdVars, evars>>

----------------------------------------------------------------------------
(* Programs.  The bytes of a file are 1, 2, 0, 3 behind its headers.           *)

Segments == {[type |-> t, paddr |-> a, filesz |-> n, memsz |-> s, offset |-> o] :
               t \in {1}, a \in {1, 2, 6}, n \in {0, 1, 3}, s \in {0, 3, 4}, o \in {500, 501}}
            \cup {[type |-> 6, paddr |-> 1, filesz |-> 3, memsz |-> 3, offset |-> 500],
                  [type |-> 1, paddr |-> 1, filesz |-> 3, memsz |-> 3, offset |-> 502],
                  [type |-> 1, paddr |-> 12, filesz |-> 2, memsz |-> 2, offset |-> 500]}
FileData == [i \in 1..504 |-> IF i = 501 THEN 1 ELSE IF i = 502 THEN 2 ELSE IF i = 504 THEN 3 ELSE 0]
Section(name, type) == [name |-> name, type |-> type, offset |-> 300, size |-> 20, named |-> TRUE]
Sym(name, value) == [name |-> name, value |-> value, terminated |-> TRUE]
Names == << <<"tohost", 8>>, <<"fromhost", 10>>, <<"begin_signature", 1>>, <<"end_signature", 6>>,
            <<"_start", 1>>, <<"tohost", 9>> >>

File1(phdrs) ==
    [size |-> 504, magic |-> TRUE, class |-> 2, data |-> 1, type |-> 2, machine |-> 243, version |-> 1,
     entry |-> 3, phoff |-> 64, phentsize |-> 56, phdrs |-> phdrs, bytes |-> FileData,
     shoff |-> 220, shentsize |-> 20, shstrndx |-> 1,
     shdrs |-> <<Section("", 0), Section(".shstrtab", 3), Section(".strtab", 3), Section(".symtab", 2)>>,
     symbols |-> [i \in DOMAIN Names |-> Sym(Names[i][1], Names[i][2])]]

\* The same file with one thing wrong, or different.
Variants(f) == {f, [f EXCEPT !.magic = FALSE], [f EXCEPT !.class = 3], [f EXCEPT !.data = 2],
                [f EXCEPT !.type = 3], [f EXCEPT !.machine = 62], [f EXCEPT !.machine = 0],
                [f EXCEPT !.version = 2], [f EXCEPT !.size = 63], [f EXCEPT !.phoff = 450],
                [f EXCEPT !.shoff = 450], [f EXCEPT !.shstrndx = 4], [f EXCEPT !.shdrs[1].named = FALSE],
                [f EXCEPT !.shdrs[3].size = 300], [f EXCEPT !.shdrs[3].type = 11, !.shdrs[3].size = 300],
                [f EXCEPT !.symbols[2].terminated = FALSE], [f EXCEPT !.symbols = <<>>]}

Name(f) == [exists |-> TRUE, slash |-> TRUE, installed |-> FALSE, file |-> f]
Missing(f) == [exists |-> FALSE, slash |-> FALSE, installed |-> TRUE, file |-> f]
Absent(f) == [exists |-> FALSE, slash |-> TRUE, installed |-> TRUE, file |-> f]

OldMem == [a \in Addr |-> 3]
InBytes(pre) == [kind |-> "bytes", cells |-> OldMem, preloaded |-> pre]
InLines(w, d, b) == [kind |-> "lines", cells |-> <<>>, width |-> w, depth |-> d, base |-> b, preloaded |-> {}]

Load == /\ Called("load")
        /\ \E p, q \in Segments, pre \in {{}, {1, 2, 3}} :
             \E names \in {<<Name(v)>> : v \in Variants(File1(<<p>>))}
                            \cup {<<Name(File1(<<p, q>>))>>, <<Missing(File1(<<p>>)), Name(File1(<<q>>))>>,
                                  <<Absent(File1(<<p>>))>>} :
               /\ input' = [names |-> names, before |-> InBytes(pre)]
               /\ result' = load_program(names, InBytes(pre))

LoadLines == /\ Called("lines")
             /\ \E p, q \in Segments, w \in {1, 2, 3, 4}, b \in {0, 1, 2} :
                  /\ elf2hex_accepts(w, 4, b)
                  /\ input' = [names |-> <<Name(File1(<<p, q>>))>>, before |-> InLines(w, 4, b)]
                  /\ result' = load_program(input'.names, input'.before)

----------------------------------------------------------------------------
(* Calls.                                                                      *)

Answers == {[ret |-> -1, errno |-> e, data |-> <<>>, stat |-> <<>>] : e \in {1, 2}}
            \cup {[ret |-> n, errno |-> 0, data |-> [i \in 1..n |-> i], stat |-> <<>>] : n \in 0..3}
Read == /\ Called("read")
        /\ \E a \in 0..3, len \in 0..3 : \E r \in {x \in Answers : x.ret <= len} :
             /\ input' = [pbuf |-> a, len |-> len, r |-> r]
             /\ LET got == sys_read(OldMem, a, len, r)
                IN result' = [got EXCEPT !.ret = <<got.ret, PassThrough(OldMem, r).ret, sys_write(got.mem, a, len)>>]

\* A word of n bytes, written for the target by the typed access and read back.
WordCall == /\ Called("word")
            /\ \E a \in 0..5, n \in {1, 2, 4}, v \in 0..17, big \in BOOLEAN :
                 LET w == to_target(big, WordOf(v, n))
                     m == write_uint(OldMem, a, w)
                 IN /\ input' = [at |-> a, n |-> n, v |-> v, big |-> big]
                    /\ result' = [mem |-> m, word |-> from_target(big, read_uint(m, a, n))]

\* A structure of the kernel whose fields are told apart by their names.
Kernel(layout) == [n \in {layout[i][1] : i \in DOMAIN layout} |-> n]
StatCall == /\ Called("stat")
            /\ \E layout \in {riscv_stat, riscv_statx}, r \in Answers :
                 /\ input' = [layout |-> layout, r |-> [r EXCEPT !.stat = Kernel(layout)]]
                 /\ result' = Stat(layout, input'.r)

Words3 == {<<>>, <<1>>, <<2, 3>>}
MainVars == /\ Called("main")
            /\ \E n \in 0..2, big \in BOOLEAN, w \in {1, 2}, a \in {0, 2}, limit \in 3..15 :
                 \E args \in [1..n -> Words3] :
                   /\ input' = [args |-> args, pbuf |-> a, limit |-> limit, big |-> big, w |-> w]
                   /\ result' = sys_getmainvars([i \in 0..19 |-> 3], args, a, limit, big, w)

File3 == <<1, 2, 0>>
DiskCall == /\ Called("disk")
            /\ \E a, b \in 0..2, off \in 0..3, size \in 0..3 :
                 LET req == [addr |-> a, offset |-> off, size |-> size, tag |-> 5]
                     old == [i \in 0..9 |-> i % 4]
                     w == DiskWrite(old, File3, req)
                 IN /\ input' = [req |-> req, old |-> old, back |-> b + 4]
                    /\ result' = [written |-> w, read |-> DiskRead(w.mem, w.file, [req EXCEPT !.addr = b + 4]),
                                  short |-> DiskRead(old, File3, req)]

\* Names of directories as getcwd gives them: absolute, no empty parts.
Letters == {"a", "b"}
Canonical == {<<"/">>} \cup {<<"/">> \o p : p \in UNION {[1..n -> Letters] : n \in 1..2}}
               \cup {<<"/", c, "/", d>> : c, d \in Letters} \cup {<<"/", c, d, "/", e>> : c, d, e \in Letters}
\* A name in the target's memory, as the codes of its characters and a zero.
CharOf == 1 :> "/" @@ 2 :> "a" @@ 3 :> "b"
CString(name) == [i \in 0..Len(name) |-> IF i = Len(name) THEN 0
                                          ELSE CHOOSE c \in DOMAIN CharOf : CharOf[c] = name[i + 1]]
PathCall == /\ Called("path")
            /\ \E chroot \in Canonical \cup {<<>>}, cwd \in Canonical, size \in {2, 9} :
                 /\ input' = [chroot |-> chroot, cwd |-> cwd, size |-> size]
                 /\ LET told == sys_getcwd(chroot, cwd, size)
                        given == sys_chdir(CString(told.str), 0)
                        errs == [ret |-> -1, errno |-> 2, data |-> <<>>, stat |-> <<>>]
                        one(d) == OneName(chroot, d, told.str, errs)
                    IN result' = [ret |-> told.ret, str |-> told.str,
                                  went |-> [i \in DOMAIN given |-> CharOf[given[i]]],
                                  at |-> [d \in {3, AT_FDCWD} |-> one(d).asked],
                                  stats |-> {sys_lstat(chroot, told.str, errs).asked,
                                             sys_statx(chroot, AT_FDCWD, told.str, errs).asked,
                                             sys_fstatat(chroot, AT_FDCWD, told.str, errs).asked},
                                  moved |-> TwoNames(chroot, AT_FDCWD, told.str, 3, told.str, errs)]

StringCall == /\ Called("string")
              /\ \E mem \in [0..4 -> {0, 1, 2}], p \in 0..4 :
                   /\ mem[4] = 0
                   /\ input' = [mem |-> mem, path |-> p]
                   /\ result' = sys_chdir(mem, p)

----------------------------------------------------------------------------
(* Command lines.                                                              *)

\* Arguments of spike's options: 12 is the port 8 and a bit too many, and what has a size is
\* a file that exists.  The extension "ext" and no plug-in is found without a library.
Pairs2 == <<Numeral(0), Char(":"), Numeral(9), Char(","), HexNumeral(8), Char(":"), Numeral(3)>>
MCChars == "4" :> <<Numeral(4)>> @@ "0" :> <<Numeral(0)>> @@ "0x4" :> <<HexNumeral(4)>> @@ "20" :> <<Numeral(20)>>
           @@ "pairs" :> Pairs2 @@ "1:" :> <<Numeral(1), Char(":"), Char("x")>> @@ "1,3" :> <<Numeral(1), Char(","), Numeral(3)>>
           @@ "n,4" :> <<Char("n"), Char(","), HexNumeral(4)>> @@ "n" :> <<Char("n")>>
MCFileSizes == "vm" :> 3 @@ "rd" :> 2
MCExtensions == None :> {"ext"} @@ "lib" :> {"rocc"} @@ "lib2" :> {"rocc"}
MCPlugins == None :> {} @@ "lib" :> {<<Char("n")>>} @@ "lib2" :> {}
MCIsa64 == {None, "rv64"}
MCSpikeOptions == Registered
W(kind, name, val) == [kind |-> kind, name |-> name, val |-> val]
SpikeWords == {W("short", "p", v) : v \in {"4", None, "0", "0x4"}} \cup {W("short", "m", v) : v \in {"4", "pairs", "1:"}}
               \cup {W("long", "isa", v) : v \in {"rv64", None, "rv32"}} \cup {W("long", "hartids", v) : v \in {"1,3", "0x4"}}
               \cup {W("long", "device", v) : v \in {"n,4", "n"}} \cup {W("long", n, "ext") : n \in {"extension", "ic"}}
               \cup {W("long", "extlib", v) : v \in {"lib", "lib2", "none there"}} \cup {W("long", "extension", "rocc")}
               \cup {W("short", "d", None), W("short", "d", "x"), W("long", "dump-dts", None), W("long", "dump-dts", "1"),
                     W("long", "is", "rv64"), W("word", "pk", None), W("plus", "h", None), W("short", "h", None),
                     W("long", "rbb-port", "20"), W("long", "kernel", "vm"), W("long", "initrd", "rd"),
                     W("long", "l2", "4"), W("long", "debug-cmd", "none there")}
Lines(words, n) == UNION {[1..k -> words] : k \in 0..n}
\* Any three words; or a library, two more and the program.
SpikeLine == /\ Called("spike")
             /\ \E argv \in Lines(SpikeWords, 2), w \in SpikeWords :
                  /\ input' \in {Append(argv, w), <<W("long", "extlib", "lib")>> \o argv \o <<W("word", "pk", None)>>}
                  /\ result' = main(input')

\* Texts in which no two numerals touch.
Texts(n, others) == {s \in UNION {[1..k -> {Numeral(1), HexNumeral(6)} \cup {Char(c) : c \in others}] : k \in 1..n} :
                       \A i \in 1..Len(s) - 1 : s[i].n = 0 \/ s[i + 1].n = 0}
DeviceArg == /\ Called("device")
             /\ \E s \in Texts(5, {"n", ","}) :
                  /\ input' = s
                  /\ result' = [device |-> IF device_accepts(s) THEN device_parser(s) ELSE Failure,
                                harts |-> hartids_parser(s)]

HtifWords == {W("long", n, v) : n \in {"payload", "chroot", "signature-granularity", "rfb"}, v \in {None, "v"}}
               \cup {W("plus", n, v) : n \in {"payload", "signature", "rfb"}, v \in {None, "v"}}
               \cup {W("plus", n, None) : n \in {"permissive", "permissive-off", "x", "h"}}
               \cup {W("long", "disk", "v"), W("short", "h", None), W("short", "x", None), W("word", "pk", None),
                     W("long", "unknown", None)}
HtifLine == /\ Called("htif")
            /\ \E argv \in Lines(HtifWords, 3) : input' = argv /\ result' = parse_arguments(argv)

----------------------------------------------------------------------------
(* Memory.                                                                     *)

Regions == {Region(b, s) : b \in {0, 3, 4, 6, 8, 12}, s \in {1, 4, 8, 11}}
\* The argument that asks for these regions.
Asks(list) == FoldLeft(LAMBDA text, r : (IF text = <<>> THEN text ELSE Append(text, Char(",")))
                                          \o <<Numeral(r.base), Char(":"), Numeral(r.size)>>, <<>>, list)
MemArg == /\ Called("memory")
          /\ \/ \E n \in 1..3 : \E list \in [1..n -> Regions] :
                  input' = [list |-> list, text |-> Asks(list)] /\ result' = make_mems(Asks(list))
             \/ \E s \in Texts(5, {":", ","}) :
                  input' = [list |-> <<>>, text |-> s] /\ result' = make_mems(s)
             \/ \E n \in 0..4 :
                  input' = [list |-> <<Region(DRAM_BASE, n * MB)>>, text |-> <<Numeral(n)>>] /\ result' = make_mems(<<Numeral(n)>>)

ImageArgs == /\ Called("images")
             /\ \E m1, m2 \in {Region(0, 4), Region(4, 8), Region(12, 8), Region(8, 8)}, k, r \in 0..8, rv64 \in BOOLEAN :
                  LET mems == merge_overlapping_memory_regions(<<m1, m2>>)
                      initrd == InitrdInto(mems, r)
                  IN /\ input' = mems
                     /\ result' = [kernel |-> KernelInto(mems, k, kernel_offset(IF rv64 THEN "rv64" ELSE "rv32")),
                                   initrd |-> initrd, range |-> InitrdRange(mems, initrd), sizes |-> <<k, r>>]

----------------------------------------------------------------------------
(* Instructions: every code; each register with no bit, one or all; each       *)
(* immediate with no bit, one, all or all but one, or two with registers of 0. *)

Regs == {{}} \cup {{k} : k \in 0..4} \cup {0..4}
FewBits(B) == {{}, B} \cup {{k} : k \in B} \cup {B \ {k} : k \in B}
TwoBits(B) == {{j, k} : j, k \in B}
RegsIf(has) == IF has THEN Regs ELSE {{}}
Operands(f) == {<<imm, d, s1, s2>> : imm \in FewBits(ImmBits(f)), d \in RegsIf(HasRd(f)),
                                     s1 \in RegsIf(HasRs1(f)), s2 \in RegsIf(HasRs2(f))}
               \cup {<<imm, {}, {}, {}>> : imm \in TwoBits(ImmBits(f))}
ShortRegs == {S \in Regs : S \subseteq 0..2}
RvcRegs(full, short) == IF full THEN Regs ELSE IF short THEN ShortRegs ELSE {{}}
RvcOperands(f) == {<<imm, r1, r2>> : imm \in FewBits(CImmBits(f)) \cup TwoBits(CImmBits(f)),
                                     r1 \in RvcRegs(Full1(f), Short1(f)), r2 \in RvcRegs(Full2(f), Short2(f))}
Extend64(w) == w \cup IF 31 \in w THEN 32..63 ELSE {}
Draft == INSTANCE RvDraft
Decode == /\ Called("decode")
          /\ \E c \in DOMAIN Codes : \E o \in Operands(Codes[c].fmt), extra \in 0..1 :
               LET w == Encode(c, o[1], o[2], o[3], o[4])
               IN /\ extra = 1 => o[2] \cup o[3] \cup o[4] = {}
                  /\ input' = [code |-> c, fmt |-> Codes[c].fmt, imm |-> o[1], rd |-> o[2], rs1 |-> o[3], rs2 |-> o[4],
                               word |-> w, extra |-> extra]
                  /\ result' = [listing |-> Listing(<<w>>, extra), draft |-> Draft!Listing2(<<w>>, extra), spike |-> disassemble(Extend64(w))]

DecodeRvc == /\ Called("rvc")
             /\ \E c \in DOMAIN CCodes : \E o \in RvcOperands(CCodes[c].fmt) :
                  /\ CEncodable(c, o[2], o[3])
                  /\ input' = [code |-> c, fmt |-> CCodes[c].fmt, imm |-> o[1], r1 |-> o[2], r2 |-> o[3]]
                  /\ result' = disassemble(CEncode(c, o[1], o[2], o[3]))

DasmLine == /\ Called("dasm")
            /\ \E line \in UNION {[1..k -> {"DASM(", "0", "x", "f", ")"}] : k \in 1..6} :
                 /\ input' = [i \in DOMAIN line |-> <<line[i]>>]
                 /\ result' = Dasm(input', 1)

\* A round of the simulator of pa2, from any registers: x1 is near the memory (64), the device
\* (128) or neither; every kind of instruction, in the program and on both sides of it.
Pa2(f, p3) == INSTANCE DraftSim WITH WordBits <- 8, ByteBits <- 2, NRegs <- 4, Words <- 4, Device <- 128,
                                     flag <- f, proj3_flag <- p3
Ins(op, fn, d, a, b, k) == [op |-> op, fn |-> fn, rd |-> d, rs1 |-> a, rs2 |-> b, imm |-> k]
Functions1 == {"add", "sll", "slt", "sltu", "xor", "srl", "sra", "or", "and"}
Pa2Instructions ==
    {Ins("OP", fn, d, 1, 2, 0) : fn \in Functions1 \cup {"sub"}, d \in {0, 3}}
    \cup {Ins("OPIMM", fn, 3, 1, 0, imm) : fn \in Functions1, imm \in {0, 3, 7}}
    \cup {Ins("OPIMM", fn, 1, 2, 0, -3) : fn \in {"add", "slt", "sltu", "xor", "or", "and"}}
    \cup {Ins(op, "-", 3, 0, 0, 192) : op \in {"LUI", "AUIPC", "OTHER"}}
    \cup {Ins("LOAD", "lw", d, 1, 0, imm) : d \in {0, 3}, imm \in {-4, 0, 4}}
    \cup {Ins("STORE", "sw", 0, 1, 2, imm) : imm \in {-4, 0, 4}}
    \cup {Ins("BRANCH", fn, 0, 1, 2, imm) : fn \in {"beq", "bne", "blt", "bge", "bltu", "bgeu"}, imm \in {-4, 8}}
    \cup {Ins("JAL", "-", d, 0, 0, imm) : d \in {0, 3}, imm \in {-4, 4}}
    \cup {Ins("JALR", "-", d, r, 0, 5) : d \in {0, 3}, r \in 0..3}
Pa2Round == /\ Called("pa2")
            /\ \E x1 \in {3, 64, 67, 76, 128}, x2 \in {0, 3, 9, 67, 254}, at \in -1..2, f, p3 \in BOOLEAN,
                  ins \in Pa2Instructions, any \in {0, 77} :
                 LET s == [Pa2(f, p3)!Start(<<1, 200>>) EXCEPT !.curr_i = at, !.reg[1] = x1, !.reg[2] = x2, !.reg[3] = 20]
                 IN /\ input' = [s |-> s, ins |-> ins, flag |-> f, proj3 |-> p3]
                    /\ result' = Pa2(f, p3)!Run(s, <<ins, ins>>, 1, 99, any)

FdsNext == part = "fds" /\ FdsCall /\ UNCHANGED <<call, evars>>
ExitCodeNext == part = "exit" /\ ExitNext /\ UNCHANGED <<call, fdVars>>

ServicesNext == \/ FdsNext \/ ExitCodeNext \/ Load \/ LoadLines \/ Read \/ StatCall \/ MainVars \/ DiskCall
                \/ PathCall \/ StringCall \/ WordCall \/ SpikeLine \/ DeviceArg \/ HtifLine \/ MemArg \/ ImageArgs
                \/ Decode \/ DecodeRvc \/ DasmLine \/ Pa2Round

ServicesSpec == ServicesInit /\ [][ServicesNext]_svars

Done(p) == part = p /\ input # <<>>
----------------------------------------------------------------------------
\* After load_program every byte of memory is what the last segment that covers it says,
\* of the program or of a payload: the file's byte, or a zero beyond the file's part; all
\* else is as before, and so is what was preloaded.  elf2hex prints the same image, except
\* where zeros come over something else, for it clears no line.  The signature lists the
\* bytes between its symbols, and get_symbol names the first symbol of an address.
AllPhdrs == UNION {{<<n, i>> : i \in DOMAIN input.names[n].file.phdrs} : n \in DOMAIN input.names}
Phdr(x) == input.names[x[1]].file.phdrs[x[2]]
FileOf(x) == input.names[x[1]].file
Covers(x, a) == Phdr(x).type = 1 /\ a \in Phdr(x).paddr..Phdr(x).paddr + Phdr(x).memsz - 1
Later(x, y) == x[1] > y[1] \/ (x[1] = y[1] /\ x[2] > y[2])
Top1(S) == CHOOSE x \in S : \A y \in S : x = y \/ Later(x, y)
Image(a, old) == LET S == {x \in AllPhdrs : Covers(x, a)}
                     x == Top1(S)
                 IN IF S = {} THEN old
                    ELSE IF a - Phdr(x).paddr < Phdr(x).filesz
                         THEN FileOf(x).bytes[Phdr(x).offset + a - Phdr(x).paddr + 1] ELSE 0
Twice(a) == Cardinality({x \in AllPhdrs : Covers(x, a)}) > 1
Reversed(line) == [i \in DOMAIN line |-> line[Len(line) + 1 - i]]

LoadedRight ==
    /\ Done("load") /\ result # Failed =>
         /\ \A a \in Addr \ input.before.preloaded : result.mem.cells[a] = Image(a, OldMem[a])
         /\ (\A x \in AllPhdrs, a \in Addr : Covers(x, a) => a \in input.before.preloaded)
              => result.mem.cells = OldMem
         /\ \A n \in {1, 2, 4} :
              LET lines == Signature(result.mem.cells, result, n)
                  flat == FlattenSeq([l \in DOMAIN lines |-> Reversed(lines[l])])
              IN /\ Len(flat) >= result.sig_len /\ Len(flat) < result.sig_len + n
                 /\ \A i \in DOMAIN flat :
                      flat[i] = IF i <= result.sig_len THEN result.mem.cells[result.sig_addr + i - 1] ELSE 0
         /\ \A a \in Addr : LET n == get_symbol(result.symbols, a)
                            IN IF n = "null" THEN \A s \in DOMAIN result.symbols : result.symbols[s] # a
                               ELSE result.symbols[n] = a
         /\ (result.tohost_addr = 0) = (result.fromhost_addr = 0)
    /\ Done("lines") /\ result # Failed =>
         \A l \in 0..3 : LET m == result.mem
                             line == Reversed(HexLine(m, l))
                         IN \A k \in DOMAIN line :
                              LET a == m.base + l * m.width + k - 1
                              IN ~ Twice(a) => line[k] = Image(a, 0)

\* A call brings the target what the kernel gave, where and as the target expects it: a read
\* no more than was read; a stat that succeeds, every field at the offset of its type's
\* alignment; the arguments of main behind their pointers, within the limit; a disk, what
\* was written to it; a word, its bytes in the target's order.  Errors come as negative numbers.
ReadWord(mem, a, w) == ValueOf(from_target(input.big, read_uint(mem, a, w)))
ResultsDelivered ==
    /\ Done("read") =>
         /\ result.ret[1] = IF input.r.ret = -1 THEN - input.r.errno ELSE input.r.ret
         /\ result.ret[2] = result.ret[1]
         /\ \A k \in 1..input.len : result.ret[3][k] = result.mem[input.pbuf + k - 1]
         /\ \A a \in Addr : result.mem[a] = IF a - input.pbuf \in 0..input.r.ret - 1
                                            THEN a - input.pbuf + 1 ELSE OldMem[a]
    /\ Done("stat") /\ input.r.ret # -1 =>
         /\ SizeOf(input.layout) \in {128, 256}
         /\ \A i \in DOMAIN result.copied :
              /\ result.copied[i].size <= 8 => result.copied[i].at % result.copied[i].size = 0
              /\ result.copied[i].is \in {"0", input.layout[i][1]}
    /\ Done("stat") /\ input.r.ret = -1 => result.ret = - input.r.errno
    /\ Done("main") /\ result.ret = 0 =>
         LET w == input.w
             n == Len(input.args)
         IN /\ ReadWord(result.mem, input.pbuf, w) = n
            /\ ReadWord(result.mem, input.pbuf + (n + 1) * w, w) = 0
            /\ ReadWord(result.mem, input.pbuf + (n + 2) * w, w) = 0
            /\ \A i \in 1..n : LET p == ReadWord(result.mem, input.pbuf + i * w, w)
                               IN Bytes(result.mem, p, Len(input.args[i]) + 1) = input.args[i] \o <<0>>
            /\ \A a \in DOMAIN result.mem : a \notin input.pbuf..input.pbuf + input.limit - 1 => result.mem[a] = 3
    /\ Done("word") =>
         IF input.at % input.n # 0 THEN result = [mem |-> OldMem, word |-> Misaligned]
         ELSE /\ ValueOf(result.word) = input.v % ByteRange ^ input.n
              /\ \A k \in 0..input.n - 1 :
                   result.mem[input.at + k] = (input.v \div ByteRange ^ (IF input.big THEN input.n - 1 - k ELSE k)) % ByteRange
              /\ \A a \in Addr : a \notin input.at..input.at + input.n - 1 => result.mem[a] = OldMem[a]
    /\ Done("string") =>
         /\ input.mem[input.path + Len(result)] = 0
         /\ \A k \in DOMAIN result : result[k] # 0 /\ result[k] = input.mem[input.path + k - 1]
    /\ Done("disk") =>
         /\ result.written.tag = 5
         /\ result.read # CouldNotRead
         /\ Bytes(result.read.mem, input.back, input.req.size) = Bytes(input.old, input.req.addr, input.req.size)
         /\ (result.short = CouldNotRead) = (input.req.offset + input.req.size > 3)

\* Inside the chroot a program that asks where it is is told a name by which every call that
\* takes one finds the directory it is in; outside of it, or in a directory whose name only
\* begins like it, it is told "/".  The exceptions: a descriptor of the program's own leads
\* around the chroot, and chdir, which takes the name as the host's (sys_chdir), leaves it
\* with that name, unless the chroot is the host's root or there is none.
Dirs(p) == LET starts == {i \in DOMAIN p : p[i] # "/" /\ (i = 1 \/ p[i - 1] = "/")}
               part1(i) == SubSeq(p, i, (CHOOSE j \in i..Len(p) : (j = Len(p) \/ p[j + 1] = "/")
                                           /\ \A k \in i..j : p[k] # "/"))
           IN [n \in 1..Cardinality(starts) |->
                 part1(CHOOSE i \in starts : Cardinality({j \in starts : j <= i}) = n)]
Inside(c, d) == IsPrefix(Dirs(c), Dirs(d))
PathsRight ==
    Done("path") /\ result.ret >= 0 =>
      /\ Inside(input.chroot, input.cwd) =>
           /\ Dirs(result.at[AT_FDCWD][1][2]) = Dirs(input.cwd)
           /\ Dirs(result.went) = Dirs(input.cwd) <=> Dirs(input.chroot) = <<>>
      /\ ~ Inside(input.chroot, input.cwd) => result.str = <<"/">>
      /\ result.ret <= input.size
      /\ result.stats = {result.at[AT_FDCWD]} /\ result.at[3] = <<<<3, result.str>>>>
      /\ result.moved.asked = result.at[AT_FDCWD] \o result.at[3] /\ result.moved.ret = -2

\* A command line is understood as it is meant: spike runs every option before the first
\* word that is none, with its own argument, leaves the rest alone, and does not mind the
\* order of different options, but for one: a device or an extension is found only if spike
\* itself or a library that came before offers it ("must come first", spike.cc:50), and the
\* line fails if it does not.  For htif, an option and the plus-argument of the same name set
\* the same thing to the same value, and the program begins at the first word that is neither,
\* unless it is told to be permissive.
Plain(w) == w.kind \in {"short", "long"}
Same(w) == IF w.kind = "plus" /\ w.name \in PlusWithValue /\ w.val # None THEN [w EXCEPT !.kind = "long"] ELSE w
Range1(s) == {s[i] : i \in DOMAIN s}
OneWord(w) == w.kind = "short" \/ (w.kind = "long" /\ (w.val # None \/ [key |-> w.name, arg |-> FALSE] \in Registered))
Loaded1(ran, i) == {None} \cup {ran[j][2] : j \in {k \in 1..i - 1 : ran[k][1] = "extlib"}}
Offers(lib, o) == CASE o[1] = "device" -> Before(Chars[o[2]]) \in Plugins[lib]
                    [] o[1] = "extension" -> o[2] \in Extensions[lib] [] OTHER -> TRUE
Offered(ran, i) == \E lib \in Loaded1(ran, i) : Offers(lib, ran[i])
Swapped(i) == [j \in DOMAIN input |-> input[IF j = i THEN i + 1 ELSE IF j = i + 1 THEN i ELSE j]]
OptionsRight ==
    /\ Done("spike") /\ result # Failure =>
         LET line == parse(input)
             options == Len(input) - Len(line.rest)
         IN /\ \A i \in DOMAIN line.ran : [key |-> line.ran[i][1], arg |-> line.ran[i][2] # None] \in Registered
            /\ \A i \in 1..options : Plain(input[i]) \/
                 (i > 1 /\ input[i - 1].kind = "long" /\ input[i - 1].val = None)
            /\ \A i \in DOMAIN line.ran : Offered(line.ran, i)
            /\ result.htif_args = SubSeq(input, options + 1, Len(input)) /\ ~ Plain(result.htif_args[1])
            /\ \A i \in 1..options - 1 :
                 (\A j \in 1..i + 1 : OneWord(input[j])) /\ input[i].name # input[i + 1].name =>
                   main(Swapped(i)) = IF Offered(parse(Swapped(i)).ran, i) THEN result ELSE Failure
            /\ {result.wiring.memtracers[c] : c \in DOMAIN result.wiring.memtracers} \subseteq {Caches(result.set) \ {"l2"}}
            /\ result.kernel # Nowhere => result.kernel.offset + result.kernel.size <= result.set.mems[result.kernel.region].size
    /\ Done("device") =>
         /\ result.device # Failure =>
              LET d == result.device
                  joined == d.name \o <<Char(",")>>
              IN /\ \E base \in {Numeral(d.base), HexNumeral(d.base)} :
                       input \in {Append(joined, base), joined \o <<base, Char(",")>> \o d.args}
                 /\ Char(",") \notin Range1(d.name)
         /\ (\A i \in DOMAIN input : input[i] = IF i % 2 = 1 THEN Numeral(1) ELSE Char(",")) =>
              result.harts = [i \in 1..(Len(input) + 1) \div 2 |-> 1]
    /\ Done("htif") /\ result # Failure /\ ~ result.permissive =>
         /\ result.targs[1].kind \in {"word", "plus"}
         /\ LET k == Len(input) - Len(result.targs)
                other == parse_arguments([i \in DOMAIN input |-> IF i <= k THEN Same(input[i]) ELSE input[i]])
            IN other = result

\* The regions of memory do not overlap and begin and end with a page, and they hold every
\* byte that was asked for and, of the pages that nobody asked for, none; each image lies
\* within one region, the ramdisk below the reserved end and where the device tree is told.
Inside1(a, r) == a >= r.base /\ a < r.base + r.size
AskedPage(a) == \E i \in DOMAIN input.list : LET r == input.list[i]
                                             IN a \div PGSIZE \in (r.base \div PGSIZE)..((r.base + r.size - 1) \div PGSIZE)
RegionsRight ==
    /\ Done("memory") /\ result # Help =>
         /\ \A i, j \in DOMAIN result : i < j => result[i].base + result[i].size <= result[j].base
         /\ \A i \in DOMAIN result : result[i].base % PGSIZE = 0 /\ result[i].size % PGSIZE = 0
         /\ input.list # <<>> =>
              \A a \in 0..Top - 1 : (\E i \in DOMAIN result : Inside1(a, result[i])) <=> AskedPage(a)
    /\ Done("memory") /\ input.list # <<>> /\ result = Help =>
         \E i \in DOMAIN input.list : input.list[i].base + input.list[i].size > Top - PGSIZE
    /\ Done("images") =>
         /\ result.kernel # Nowhere =>
              result.kernel.size = result.sizes[1] /\ result.kernel.offset + result.kernel.size <= input[result.kernel.region].size
         /\ result.initrd # Nowhere =>
              LET r == input[result.initrd.region]
              IN /\ result.range[1] >= r.base /\ result.range[2] <= r.base + r.size - Reserve
                 /\ result.range = <<r.base + result.initrd.offset, r.base + result.initrd.offset + result.sizes[2]>>

\* The three decoders agree with the formats on every instruction they know: the simulator
\* finds its fields and its immediate, project_1 prints its name and operands, and spike
\* finds an entry whose text, with pseudo-instructions written out, has its code and operands.
\* spike-dasm replaces every DASM(number) of a line, and nothing else, and extends signs.
Fmt == input.fmt
SignBit == CASE Fmt \in {"I", "L", "S", "FL", "FS"} -> 11 [] Fmt = "B" -> 12 [] Fmt = "J" -> 20 [] OTHER -> 31
Immediate == input.imm \cup IF SignBit \in input.imm THEN SignBit..31 ELSE {}
Fields == [rd |-> Ones(input.rd), rs1 |-> Ones(input.rs1), rs2 |-> Ones(input.rs2), imm |-> Int32(Immediate)]

SimulatorFinds ==
    /\ HasRd(Fmt) => rd(input.word) = input.rd
    /\ HasRs1(Fmt) => rs1(input.word) = input.rs1
    /\ HasRs2(Fmt) => rs2(input.word) = input.rs2
    /\ Fmt \in {"I", "L"} => imm_i(input.word) = Immediate
    /\ Fmt = "S" => imm_s(input.word) = Immediate
    /\ Fmt = "B" => imm_b(input.word) = Immediate
    /\ Fmt = "J" => imm_j(input.word) = Immediate
    /\ Fmt = "U" => imm_u(input.word) = Immediate

Syntax == LET f == Fields
          IN CASE Fmt = "L" -> <<f.rd, f.imm, f.rs1>> [] Fmt = "S" -> <<f.rs2, f.imm, f.rs1>>
               [] Fmt \in {"I", "H", "W"} -> <<f.rd, f.rs1, f.imm>> [] Fmt = "R" -> <<f.rd, f.rs1, f.rs2>>
               [] Fmt = "B" -> <<f.rs1, f.rs2, f.imm>> [] Fmt \in {"U", "J"} -> <<f.rd, f.imm>>
               [] Fmt = "A" -> <<f.rd, f.rs2, f.rs1>> [] Fmt = "X" -> <<f.rd, f.rs1>>
               [] Fmt = "V" -> <<f.rs1, f.rs2>> [] Fmt = "C" -> <<f.rd, f.imm, f.rs1>> [] Fmt = "N" -> <<>>
               [] Fmt = "E" -> <<f.imm \div 16, f.imm % 16>> [] Fmt = "T" -> <<f.rd, f.rs1>>
               [] Fmt = "Y" -> <<f.rs2, f.rs1>>
               [] Fmt = "FL" -> <<FPR + f.rd, f.imm, f.rs1>> [] Fmt = "FS" -> <<FPR + f.rs2, f.imm, f.rs1>>
               [] Fmt \in {"FR", "FM"} -> <<FPR + f.rd, FPR + f.rs1, FPR + f.rs2>>
               [] Fmt = "FC" -> <<f.rd, FPR + f.rs1, FPR + f.rs2>> [] Fmt = "F1" -> <<FPR + f.rd, FPR + f.rs1>>
               [] Fmt \in {"FX", "FV"} -> <<f.rd, FPR + f.rs1>> [] Fmt \in {"XF", "VF"} -> <<FPR + f.rd, f.rs1>>
               [] Fmt = "F4" -> <<FPR + f.rd, FPR + f.rs1, FPR + f.rs2, FPR + f.imm>>
Syntax1 == IF input.code = "jalr" THEN <<Fields.rd, Fields.imm, Fields.rs1>> ELSE Syntax

\* What the assembler makes of a pseudo-instruction.
WrittenOut(t) ==
  LET n == t[1]
  IN CASE n = "j" -> <<"jal", 0, t[2]>> [] n = "jal" /\ Len(t) = 2 -> <<"jal", 1, t[2]>>
       [] n = "beqz" -> <<"beq", t[2], 0, t[3]>> [] n = "bnez" -> <<"bne", t[2], 0, t[3]>>
       [] n = "bltz" -> <<"blt", t[2], 0, t[3]>> [] n = "bgez" -> <<"bge", t[2], 0, t[3]>>
       [] n = "ret" -> <<"jalr", 0, 1, 0>> [] n = "jr" -> <<"jalr", 0, t[2], 0>>
       [] n = "jalr" /\ Len(t) = 2 -> <<"jalr", 1, t[2], 0>>
       [] n = "nop" -> <<"addi", 0, 0, 0>> [] n = "li" -> <<"addi", t[2], 0, t[3]>>
       [] n = "mv" -> <<"addi", t[2], t[3], 0>> [] n = "seqz" -> <<"sltiu", t[2], t[3], 1>>
       [] n = "not" -> <<"xori", t[2], t[3], -1>> [] n = "sext.w" -> <<"addiw", t[2], t[3], 0>>
       [] n = "snez" -> <<"sltu", t[2], 0, t[3]>> [] n = "csrr" -> <<"csrrs", t[2], t[3], 0>>
       [] n \in {"csrw", "csrs", "csrc", "csrwi", "csrsi", "csrci"} ->
            <<("csrw" :> "csrrw" @@ "csrs" :> "csrrs" @@ "csrc" :> "csrrc" @@ "csrwi" :> "csrrwi"
                @@ "csrsi" :> "csrrsi" @@ "csrci" :> "csrrci")[n], 0, t[2], t[3]>>
       [] n \in {"lui", "auipc"} -> <<n, t[2], Int32(At(t[3], 12))>>
       [] OTHER -> t

\* The same for a compressed instruction; its pseudo-instructions are c_nop and ret.
RvcSyntax ==
  LET f == input.fmt
      top == CASE f \in {"CI", "CA"} -> 5 [] f = "CU" -> 17 [] f = "CQ" -> 9 [] f = "CB" -> 8 [] f = "CJ" -> 11 [] OTHER -> 31
      bits == input.imm \cup IF top \in input.imm THEN top..31 ELSE {}
      imm == Int32(bits)
      r1 == Ones(input.r1) + IF Short1(f) THEN 8 ELSE 0
      r2 == Ones(input.r2) + IF Short2(f) THEN 8 ELSE 0
  IN CASE f \in {"CI", "CH", "CK", "CA", "CB"} -> <<r1, imm>> [] f = "CU" -> <<r1, Ones({k - 12 : k \in bits})>>
       [] f \in {"CR", "CS"} -> <<r1, r2>> [] f = "C1" -> <<r1>> [] f = "CJ" -> <<imm>> [] f = "CE" -> <<>>
       [] f = "CW" -> <<r2, imm, r1>> [] f = "CD" -> <<FPR + r2, imm, r1>>
       [] f = "CP" -> <<r2, 2, imm>> [] f = "CQ" -> <<2, imm>>
       [] f = "SL" -> <<r1, imm, 2>> [] f = "SD" -> <<FPR + r1, imm, 2>>
       [] f = "SS" -> <<r2, imm, 2>> [] f = "SE" -> <<FPR + r2, imm, 2>>
RvcWrittenOut(t) == CASE t[1] = "c_nop" -> <<"c_addi", 0, 0>> [] t[1] = "ret" -> <<"c_jr", 1>> [] OTHER -> t

Numbers == {<<i, j>> \in (DOMAIN input) \X (DOMAIN input) :
              /\ input[i] = <<"DASM(">> /\ input[j] = <<")">>
              /\ \E k \in {i + 1, i + 3} :
                   /\ k < j
                   /\ k = i + 3 => input[i + 1] = <<"0">> /\ input[i + 2] = <<"x">>
                   /\ \A l \in k..j - 1 : input[l] \in {<<"0">>, <<"f">>}}
Replaced ==
  LET out == {n[1] : n \in Numbers} \cup {k \in DOMAIN input : \A n \in Numbers : k \notin n[1]..n[2]}
      order == SelectSeq([k \in DOMAIN input |-> k], LAMBDA k : k \in out)
      first(n) == IF input[n[1] + 2] = <<"x">> THEN n[1] + 3 ELSE n[1] + 1
      number(n) == {b \in 0..63 : input[IF n[2] - 1 - b \div 4 > first(n) THEN n[2] - 1 - b \div 4 ELSE first(n)]
                                     = <<"f">>}
  IN [i \in DOMAIN order |-> IF \E n \in Numbers : n[1] = order[i]
                             THEN <<"insn", number(CHOOSE n \in Numbers : n[1] = order[i])>>
                             ELSE input[order[i]]]

\* What the draft of project_1 makes of an immediate is right as long as it has its sign in
\* the bits that the draft looks at.
DraftReads ==
    LET v == Fields.imm
        n == input.code
    IN CASE n \in {"lb", "sb"} -> v \in -8..7 [] n \in {"lh", "sh"} -> v \in -128..127
         [] n = "lbu" -> v \in 0..15 [] n = "lhu" -> v \in 0..255 [] n = "jalr" -> v >= 0
         [] Fmt = "B" -> v \in -2048..2047 [] Fmt = "J" -> v >= -65536 /\ v < 524288 [] OTHER -> TRUE

\* A round of pa2 does what the instruction says, but for: bltu and bgeu, which it does not
\* know and never takes though its instruction.md lists them, sltu, signed slt of operands of
\* different signs, a shift by 0 (srli) or by more than the width (sll), jalr with rd = rs1, and
\* accesses that are not aligned or to nowhere; and a store to the device stays in memory, too.
Machine == INSTANCE RvIsa WITH WordBits <- 8, ByteBits <- 2, NRegs <- 4, DataBase <- 64, MemSize <- 16, Device <- 128,
                               Programs <- {}, x <- <<>>, pc <- 0, mem <- <<>>, out <- <<>>, prog <- <<>>
X(r) == Machine!Signed(input.s.reg[r])
Computed(v) == result = [input.s EXCEPT !.curr_i = @ + 1, !.reg = [@ EXCEPT ![input.ins.rd] = IF input.ins.rd = 0 THEN 0 ELSE Machine!Wrap(v)]]
Jumped(pc, v) == result = [input.s EXCEPT !.curr_i = pc \div 4, !.reg = [@ EXCEPT ![input.ins.rd] = IF input.ins.rd = 0 THEN 0 ELSE Machine!Wrap(v)]]
RoundRight ==
    LET I == input.ins
        s == input.s
        pc == 4 * s.curr_i
        a == Machine!Wrap(X(I.rs1) + I.imm)
        device == IF input.proj3 THEN a = 128 ELSE input.flag
        inside == a % 4 = 0 /\ Machine!InMemory(a)
    IN CASE s.curr_i = 2 -> result.status = "failed" [] s.curr_i = -1 -> result.status = "overrun"
         [] I.op = "OP" -> \/ I.fn = "sltu"
                           \/ I.fn = "slt" /\ (X(I.rs1) < 0) # (X(I.rs2) < 0)
                           \/ I.fn = "sll" /\ s.reg[I.rs2] % 32 >= 8
                           \/ Computed(Machine!Result(I.fn, X(I.rs1), X(I.rs2)))
         [] I.op = "OPIMM" -> \/ I.fn = "sltu" \/ (I.fn = "srl" /\ I.imm = 0)
                              \/ Computed(Machine!Result(I.fn, X(I.rs1), I.imm))
         [] I.op = "LUI" -> Computed(I.imm) [] I.op = "AUIPC" -> Computed(pc + I.imm)
         [] I.op = "OTHER" -> result = [s EXCEPT !.curr_i = @ + 1]
         [] I.op = "JAL" -> Jumped(pc + I.imm, pc + 4)
         [] I.op = "JALR" -> I.rd = I.rs1 \/ Jumped(a, pc + 4)
         [] I.op = "BRANCH" -> result = [s EXCEPT !.curr_i = IF I.fn \notin {"bltu", "bgeu"} /\ Machine!Holds(I.fn, X(I.rs1), X(I.rs2))
                                                            THEN @ + I.imm \div 4 ELSE @ + 1]
         [] I.op = "LOAD" -> \/ device /\ Computed(99)
                             \/ ~ device /\ (inside => Computed(s.data[(a - 64) \div 4]))
         [] I.op = "STORE" -> /\ device => Len(result.out) = 1
                              /\ ~ device => result.out = s.out
                              /\ ~ device /\ inside => result.data = [s.data EXCEPT ![(a - 64) \div 4] = s.reg[I.rs2]]

DecodingRight ==
    /\ Done("decode") =>
         /\ SimulatorFinds
         /\ Codes[input.code] \in Base =>
              /\ result.listing = IF input.extra = 0 THEN << <<input.code>> \o Syntax1 >> ELSE CannotRead
              /\ result.draft = << <<input.code>> \o Syntax1 >> <=> DraftReads
         /\ WrittenOut(result.spike) = <<input.code>> \o Syntax
    /\ Done("rvc") => RvcWrittenOut(result) = <<input.code>> \o RvcSyntax
    /\ Done("dasm") => result = Replaced
    /\ Done("pa2") => RoundRight
=============================================================================
