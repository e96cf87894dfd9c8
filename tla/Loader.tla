------------------------------- MODULE Loader -------------------------------
(***************************************************************************)
(* From an ELF file to target memory, and back to the signature: load_elf  *)
(* (elfloader.cc), load_program, load_payload, get_symbol and stop of      *)
(* htif_t (htif.cc), over a memory of bytes or over the lines of elf2hex   *)
(* (htif_hexwriter.cc).  A file is what its headers say and its bytes.     *)
(***************************************************************************)
EXTENDS TargetWords, FiniteSets

CONSTANTS MemSize,      \* bytes of target memory: addresses are below it
          DualEndian    \* RISCV_ENABLE_DUAL_ENDIAN

ASSUME LoaderAssumption == MemSize \in Nat /\ DualEndian \in BOOLEAN

Addr == 0..MemSize - 1
Failed == [failed |-> TRUE]    \* an assertion, an abort or an exception ended the process

----------------------------------------------------------------------------
(* The headers.                                                            *)

\* IS_ELF32 ... IS_ELF_VCURRENT, each of them an assertion.
HeaderOk(f) == /\ f.size >= 64 /\ f.magic
               /\ f.class \in {1, 2} /\ f.data \in {1, 2}
               /\ f.type = 2 /\ f.machine \in {243, 0} /\ f.version = 1
               /\ (f.data = 2 => DualEndian)

Within(f, offset, size) == f.size >= offset + size

\* The program header table, and what its loadable segments take from the file.  A segment
\* whose file part is longer than its memory asks for an impossible number of zeros.
Loadable(p) == p.type = 1 /\ p.memsz # 0
SegmentsOk(f) == /\ Within(f, f.phoff, Len(f.phdrs) * f.phentsize)
                 /\ \A i \in DOMAIN f.phdrs :
                      Loadable(f.phdrs[i]) =>
                        /\ f.phdrs[i].filesz # 0 => Within(f, f.phdrs[i].offset, f.phdrs[i].filesz)
                        /\ f.phdrs[i].filesz <= f.phdrs[i].memsz

\* The sections: their names must lie in the table of names, their contents in the file
\* unless a bit of the type says that they have none.
NoBits(s) == (s.type \div 8) % 2 = 1
SectionsOk(f) == /\ Within(f, f.shoff, Len(f.shdrs) * f.shentsize)
                 /\ f.shstrndx < Len(f.shdrs)
                 /\ Within(f, f.shdrs[f.shstrndx + 1].offset, f.shdrs[f.shstrndx + 1].size)
                 /\ \A i \in DOMAIN f.shdrs :
                      /\ f.shdrs[i].named
                      /\ NoBits(f.shdrs[i]) \/ Within(f, f.shdrs[i].offset, f.shdrs[i].size)

\* The last section of a name that has contents; index 0 stands for none.
Named(f, name) == {i \in DOMAIN f.shdrs : f.shdrs[i].name = name /\ ~ NoBits(f.shdrs[i])}
SectionIndex(f, name) == IF Named(f, name) = {} THEN 0
                         ELSE (CHOOSE i \in Named(f, name) : \A j \in Named(f, name) : j <= i) - 1
HasSymbols(f) == SectionIndex(f, ".strtab") # 0 /\ SectionIndex(f, ".symtab") # 0

\* symbols[name] = value: the last of a name wins.
SymbolsOk(f) == HasSymbols(f) => \A i \in DOMAIN f.symbols : f.symbols[i].terminated
Symbols(f) ==
    LET S == IF HasSymbols(f) THEN f.symbols ELSE <<>>
        last(n) == CHOOSE i \in DOMAIN S : S[i].name = n /\ \A j \in DOMAIN S : S[j].name = n => j <= i
    IN [n \in {S[i].name : i \in DOMAIN S} |-> S[last(n)].value]

----------------------------------------------------------------------------
(* Memory.  "bytes": every byte of a write lands.  "lines": the map of     *)
(* elf2hex, of lines of `width' bytes, which exist once they are touched.  *)
(* `preloaded' are addresses that were filled through a sideband.          *)

Line(m, a) == (a - m.base) \div m.width
LineStart(m, a) == m.base + Line(m, a) * m.width
\* The addresses of whole lines in a range, which memif_t::write handles together.
Middle(m, addr, n) == {a \in addr..addr + n - 1 :
                         LineStart(m, a) >= addr /\ LineStart(m, a) + m.width <= addr + n}
ClearedLines(m, addr, bytes) ==
    LET middle == Middle(m, addr, Len(bytes))
    IN IF \A a \in middle : bytes[a - addr + 1] = 0 THEN middle ELSE {}

\* write_chunk of the lines: assert the range, then make or change the line.  clear_chunk
\* does nothing: a line that is only cleared is not made, and keeps what it had.
WriteLines(m, addr, bytes) ==
    LET written == (addr..addr + Len(bytes) - 1) \ ClearedLines(m, addr, bytes)
        lines == {LineStart(m, a) : a \in written}
        touched == UNION {l..l + m.width - 1 : l \in lines}
    IN IF \E a \in written : a < m.base \/ Line(m, a) >= m.depth THEN Failed
       ELSE [m EXCEPT !.cells = [a \in DOMAIN m.cells \cup touched |->
                                   IF a \in written THEN bytes[a - addr + 1]
                                   ELSE IF a \in DOMAIN m.cells THEN m.cells[a] ELSE 0]]

WriteBytes(m, addr, bytes) == [m EXCEPT !.cells = Put(m.cells, addr, bytes)]

is_address_preloaded(m, addr, n) == \A a \in addr..addr + n - 1 : a \in m.preloaded

Write(m, addr, bytes) ==
    IF m = Failed \/ Len(bytes) = 0 \/ is_address_preloaded(m, addr, Len(bytes)) THEN m
    ELSE IF m.kind = "lines" THEN WriteLines(m, addr, bytes) ELSE WriteBytes(m, addr, bytes)

----------------------------------------------------------------------------
(* load_elf(): the segments in their order, each the bytes of the file and *)
(* then zeros; the symbols after that.                                     *)

FileBytes(f, p) == [i \in 1..p.filesz |-> f.bytes[p.offset + i]]
Zeros(n) == [i \in 1..n |-> 0]

MutLoadSegment(f, m, p) == IF Loadable(p) THEN Write(m, p.paddr, FileBytes(f, p)) ELSE m

LoadSegment(f, m, p) ==
    IF ~ Loadable(p) THEN m
    ELSE Write(Write(m, p.paddr, FileBytes(f, p)), p.paddr + p.filesz, Zeros(p.memsz - p.filesz))

load_elf(f, m) ==
    IF ~ (HeaderOk(f) /\ SegmentsOk(f) /\ SectionsOk(f) /\ SymbolsOk(f)) THEN Failed
    ELSE FoldLeft(LAMBDA acc, p : LoadSegment(f, acc, p), m, f.phdrs)

\* load_payload(): the file as named, or, for a name without a slash, the installed one.
Found(name) == name.exists \/ (~ name.slash /\ name.installed)
load_payload(name, m) == IF m = Failed \/ ~ Found(name) THEN Failed ELSE load_elf(name.file, m)

\* load_program(): the program, whose symbols and entry count, then the payloads.
Has(syms, names) == names \subseteq DOMAIN syms
load_program(names, m) ==
    LET m1 == FoldLeft(LAMBDA acc, n : load_payload(n, acc), m, names)
        f == names[1].file
        s == Symbols(f)
        mailboxes == Has(s, {"tohost", "fromhost"})
        signature == Has(s, {"begin_signature", "end_signature"})
    IN IF m1 = Failed THEN Failed
       ELSE [mem |-> m1, entry |-> f.entry, symbols |-> s,
             tohost_addr |-> IF mailboxes THEN s["tohost"] ELSE 0,
             fromhost_addr |-> IF mailboxes THEN s["fromhost"] ELSE 0,
             sig_addr |-> IF signature THEN s["begin_signature"] ELSE 0,
             sig_len |-> IF signature THEN s["end_signature"] - s["begin_signature"] ELSE 0]

\* addr2symbol: of the names of an address, the first in the order of the map.
NameOrder == <<"_start", "begin_signature", "end_signature", "fromhost", "tohost">>
get_symbol(syms, a) ==
    LET at == {i \in DOMAIN NameOrder : NameOrder[i] \in DOMAIN syms /\ syms[NameOrder[i]] = a}
    IN IF at = {} THEN "null" ELSE NameOrder[CHOOSE i \in at : \A j \in at : i <= j]

\* stop(): lines of line_size bytes, each printed from its end, filled up with zeros.
Signature(mem, r, line_size) ==
    LET buf(i) == IF i <= r.sig_len THEN mem[r.sig_addr + i - 1] ELSE 0
        count == (r.sig_len + line_size - 1) \div line_size
    IN [l \in 1..count |-> [k \in 1..line_size |-> buf((l - 1) * line_size + line_size + 1 - k)]]

\* elf2hex: width and depth are powers of two, the base a multiple of the width.
PowerOf2(n) == \E k \in 0..n : 2^k = n
elf2hex_accepts(width, depth, base) == PowerOf2(width) /\ PowerOf2(depth) /\ base % width = 0
\* operator<<: a line of the output, printed from its end; lines that do not exist are zero.
HexLine(m, l) == [k \in 1..m.width |-> LET a == m.base + l * m.width + m.width - k
                                       IN IF a \in DOMAIN m.cells THEN m.cells[a] ELSE 0]
=============================================================================
