----------------------------- MODULE SpikeMain -----------------------------
(***************************************************************************)
(* spike's main() (spike_main/spike.cc) up to the run of the simulator:    *)
(* what each option sets, the regions of target memory, the lists, the     *)
(* plug-in devices, the images of kernel and ramdisk, and how caches,      *)
(* extensions and debug module are wired to the cores.                     *)
(*                                                                         *)
(* The argument of an option is a name; Chars gives its text, a sequence   *)
(* of numerals and other characters.  Addresses wrap at Top; a page has    *)
(* PGSIZE bytes, and the sizes of the help text are scaled down.           *)
(***************************************************************************)
EXTENDS Options, Integers, FiniteSets, FiniteSetsExt, Functions

CONSTANTS Top,                  \* addresses are below it
          PGSIZE, MB, DRAM_BASE, DefaultMB,
          Reserve,              \* what is kept free behind the ramdisk: 0x1000
          KernelOffset64, KernelOffset32,
          PortBits,             \* the width of rbb_port
          Chars,                \* the text of an argument
          Isa64,                \* the ISA strings with 64 behind "rv"
          FileSizes,            \* the size of each file that exists
          Extensions, Plugins   \* the names and texts under which each shared library that
                                \* can be loaded registers extensions and plug-ins; those
                                \* of None are found without a library

ASSUME SpikeAssumption == /\ PGSIZE \in Nat \ {0} /\ Top % PGSIZE = 0
                          /\ None \in DOMAIN Extensions /\ DOMAIN Plugins = DOMAIN Extensions

Help == <<>>            \* help() ends the run: no regions

Region(base, size) == [base |-> base, size |-> size]
End(r) == (r.base + r.size) % Top

----------------------------------------------------------------------------
(* merge_overlapping_memory_regions: sorted by base, then by size; each    *)
(* region is dropped into its predecessor, extends it, or is kept.         *)

sort_mem_region(a, b) == IF a.base = b.base THEN a.size < b.size ELSE a.base < b.base

MutAbsorb(kept, r) ==
    LET p == Last(kept)
    IN IF r.base >= p.base /\ r.base < End(p)
       THEN Append(Front(kept), Region(p.base, End(r) - p.base))
       ELSE Append(kept, r)

Absorb(kept, r) ==
    LET p == Last(kept)
        reach == IF End(p) > End(r) THEN End(p) ELSE End(r)
    IN IF r.base >= p.base /\ End(r) <= End(p) THEN kept
       ELSE IF r.base >= p.base /\ r.base < End(p)
       THEN Append(Front(kept), Region(p.base, reach - p.base))
       ELSE Append(kept, r)

merge_overlapping_memory_regions(mems) ==
    LET sorted == SortSeq(mems, sort_mem_region)
    IN FoldLeft(Absorb, <<Head(sorted)>>, Tail(sorted))

----------------------------------------------------------------------------
(* Texts: a numeral is decimal or has 0x in front, which strtoull with     *)
(* base 0 reads as well; read as a decimal it is a 0 and an x behind it.   *)

Numeral(n) == [kind |-> "dec", n |-> n]
HexNumeral(n) == [kind |-> "hex", n |-> n]
Char(c) == [kind |-> c, n |-> 0]

IsNumber(s) == Len(s) = 1 /\ s[1].kind \in {"dec", "hex"}

\* atoul_safe: a decimal to the end of the text; an empty one is 0.
atoul_accepts(s) == s = <<>> \/ (Len(s) = 1 /\ s[1].kind = "dec")
atoul(s) == IF s = <<>> THEN 0 ELSE s[1].n

\* std::getline up to a comma, and what is behind it.
Commas(s) == {i \in DOMAIN s : s[i].kind = ","}
Before(s) == IF Commas(s) = {} THEN s ELSE SubSeq(s, 1, Min(Commas(s)) - 1)
After(s) == IF Commas(s) = {} THEN <<>> ELSE SubSeq(s, Min(Commas(s)) + 1, Len(s))
Pieces(s) == LET cuts == SetToSortSeq(Commas(s) \cup {0, Len(s) + 1}, <)
             IN [i \in 1..Len(cuts) - 1 |-> SubSeq(s, cuts[i] + 1, cuts[i + 1] - 1)]

\* make_mems: megabytes from the base of DRAM, or base:size pairs with commas between, each
\* grown to whole pages; a numeral that is missing is a 0.  A pair that is not well formed,
\* or whose end wraps below its base, is help().
ValueAt(s, i) == IF i \in DOMAIN s THEN s[i].n ELSE 0
PairLike(s) == \E c \in DOMAIN s : /\ s[c].kind = ":"
                                   /\ c = 1 \/ IsNumber(SubSeq(s, 1, c - 1))
                                   /\ c = Len(s) \/ IsNumber(SubSeq(s, c + 1, Len(s)))
Colon(s) == CHOOSE c \in DOMAIN s : s[c].kind = ":"
Realigned(r) == LET grown == (r.size + (r.base % PGSIZE)) % Top
                IN Region(r.base - (r.base % PGSIZE),
                          IF grown % PGSIZE = 0 THEN grown ELSE (grown + PGSIZE - (grown % PGSIZE)) % Top)
Pair(s) == Realigned(Region(ValueAt(s, Colon(s) - 1), ValueAt(s, Colon(s) + 1)))

Megabytes(n) == <<Region(DRAM_BASE, (n * MB) % Top)>>
make_mems(s) ==
    LET pieces == Pieces(s)
        res == [i \in DOMAIN pieces |-> Pair(pieces[i])]
    IN IF s = <<>> \/ IsNumber(s) THEN Megabytes(ValueAt(s, 1))
       ELSE IF (\A i \in DOMAIN pieces : PairLike(pieces[i])) /\ \A i \in DOMAIN res : End(res[i]) >= res[i].base
       THEN merge_overlapping_memory_regions(res)
       ELSE Help

\* device_parser: name,base,args, of which only args may be missing and may have commas; the
\* base must be a number to its end.
device_accepts(s) == Before(s) # <<>> /\ IsNumber(Before(After(s)))
device_parser(s) == [name |-> Before(s), base |-> Before(After(s))[1].n, args |-> After(After(s))]

\* hartids_parser: stream >> n, and a comma after it is passed over, up to anything else; of a
\* numeral with 0x it reads the 0.
Listed(s, k) == \A i \in 1..k : s[i].kind = IF i % 2 = 1 THEN "dec" ELSE ","
hartids_parser(s) ==
    LET read == Max({k \in 0..Len(s) : Listed(s, k)})
        ids == [i \in 1..(read + 1) \div 2 |-> s[2 * i - 1].n]
    IN IF read % 2 = 0 /\ read < Len(s) /\ s[read + 1].kind = "hex" THEN Append(ids, 0) ELSE ids

----------------------------------------------------------------------------
(* The options, as they are registered (s in a build with boost), and what *)
(* each of them sets.  A text that is not given is None; for isa it stands *)
(* for DEFAULT_ISA.                                                        *)

WithNumber == {"rbb-port", "dm-progsize", "dm-sba", "dmi-rti", "dm-abstract-rti"}
WithText == {"pc", "ic", "dc", "l2", "isa", "priv", "varch", "dtb", "kernel", "initrd", "bootargs", "log", "debug-cmd"}
Lists == {"hartids", "device", "extension", "extlib"}
Flags == {"d", "g", "l", "s", "H", "log-cache-miss", "dump-dts", "disable-dtb", "real-time-clint", "dm-no-impebreak",
          "dm-auth", "dm-no-hasel", "dm-no-abstract-csr", "dm-no-halt-groups", "log-commits"}
Registered == [key : {"p", "m"} \cup WithNumber \cup WithText \cup Lists, arg : {TRUE}]
                \cup [key : {"h", "help"} \cup Flags, arg : {FALSE}]

Numbers0 == [k \in WithNumber |-> IF k = "dm-progsize" THEN 2 ELSE 0]
Defaults == [flags |-> {}, nprocs |-> 1, numbers |-> Numbers0, texts |-> [k \in WithText |-> None], use_rbb |-> FALSE,
             libs |-> {None}, mems |-> <<>>, hartids |-> <<>>, plugin_devices |-> <<>>, extensions |-> <<>>, ended |-> FALSE]
Ended(s) == [s EXCEPT !.ended = TRUE]      \* help(), exit() or an exception

\* A file to open and a library must exist, and an extension or the plug-in of a device must
\* have been registered by then; the rest of a text is not looked at here.  Only rbb_port is
\* narrower than the numbers that are given.
Registry(s, table) == UNION {table[lib] : lib \in s.libs}
Exists(val) == val \in DOMAIN FileSizes
SetNumber(s, key, n) == [s EXCEPT !.numbers[key] = IF key = "rbb-port" THEN n % 2^PortBits ELSE n,
                                  !.use_rbb = @ \/ key = "rbb-port"]
SetList(s, key, val) ==
    CASE key = "hartids" -> [s EXCEPT !.hartids = @ \o hartids_parser(Chars[val])]
      [] key = "device" -> IF device_accepts(Chars[val]) /\ Before(Chars[val]) \in Registry(s, Plugins)
                           THEN [s EXCEPT !.plugin_devices = Append(@, device_parser(Chars[val]))] ELSE Ended(s)
      [] key = "extension" -> IF val \in Registry(s, Extensions) THEN [s EXCEPT !.extensions = Append(@, val)] ELSE Ended(s)
      [] key = "extlib" -> IF val \in DOMAIN Extensions THEN [s EXCEPT !.libs = @ \cup {val}] ELSE Ended(s)

Setting(s, o) ==
    LET key == o[1]
        val == o[2]
    IN CASE s.ended \/ key \in {"h", "help"} -> Ended(s)
         [] key \in Flags -> [s EXCEPT !.flags = @ \cup {key}]
         [] key \in WithText -> IF key = "debug-cmd" /\ ~ Exists(val) THEN Ended(s) ELSE [s EXCEPT !.texts[key] = val]
         [] key = "p" -> IF atoul_accepts(Chars[val]) /\ atoul(Chars[val]) # 0
                         THEN [s EXCEPT !.nprocs = atoul(Chars[val])] ELSE Ended(s)
         [] key \in WithNumber -> IF atoul_accepts(Chars[val]) THEN SetNumber(s, key, atoul(Chars[val])) ELSE Ended(s)
         [] key = "m" -> IF make_mems(Chars[val]) = Help THEN Ended(s) ELSE [s EXCEPT !.mems = make_mems(Chars[val])]
         [] key \in Lists -> SetList(s, key, val)

----------------------------------------------------------------------------
(* The images: the kernel goes to a fixed offset into the first region     *)
(* that is large enough, the ramdisk to the end of the first that is; or   *)
(* nowhere, if there is no file, or it is empty.                           *)

Nowhere == [region |-> 0, offset |-> 0, size |-> 0]
FileSize(file) == IF Exists(file) THEN FileSizes[file] ELSE 0
FirstThat(fits) == IF fits = {} THEN 0 ELSE Min(fits)

kernel_offset(isa) == IF isa \in Isa64 THEN KernelOffset64 ELSE KernelOffset32
KernelInto(mems, size, offset) ==
    LET i == FirstThat({j \in DOMAIN mems : size # 0 /\ offset + size < mems[j].size})
    IN IF i = 0 THEN Nowhere ELSE [region |-> i, offset |-> offset, size |-> size]

InitrdInto(mems, size) ==
    LET i == FirstThat({j \in DOMAIN mems : size # 0 /\ size + Reserve < mems[j].size})
    IN IF i = 0 THEN Nowhere ELSE [region |-> i, offset |-> mems[i].size - Reserve - size, size |-> size]
\* initrd_start and initrd_end, for the device tree; both are 0 without a ramdisk.
InitrdRange(mems, image) ==
    LET start == (mems[image.region].base + image.offset) % Top
    IN IF image = Nowhere THEN <<0, 0>> ELSE <<start, (start + image.size) % Top>>

----------------------------------------------------------------------------
(* What main() hands to the simulator: the caches that are made tell each  *)
(* other and trace every core, and every core gets every extension.        *)

Caches(s) == {c \in {"ic", "dc", "l2"} : s.texts[c] # None}
Unwired == [miss_handler |-> {}, logs |-> {}, memtracers |-> <<>>, register_extension |-> <<>>]
Wiring(s) ==
    LET first == Caches(s) \ {"l2"}
    IN [miss_handler |-> IF "l2" \in Caches(s) THEN first ELSE {},
        logs |-> IF "log-cache-miss" \in s.flags THEN first ELSE {},
        memtracers |-> [core \in 0..s.nprocs - 1 |-> first],
        register_extension |-> [core \in 0..s.nprocs - 1 |-> s.extensions]]

\* With --dump-dts it prints the device tree and returns before that.
main(argv) ==
    LET line == parse(argv)
        s == FoldLeft(Setting, Defaults, line.ran)
        mems == IF s.mems = <<>> THEN Megabytes(DefaultMB) ELSE s.mems
        initrd == InitrdInto(mems, FileSize(s.texts["initrd"]))
    IN IF line = Failure \/ s.ended \/ line.rest = <<>> THEN Failure
       ELSE [set |-> [s EXCEPT !.mems = mems], htif_args |-> line.rest,
             kernel |-> KernelInto(mems, FileSize(s.texts["kernel"]), kernel_offset(s.texts["isa"])),
             initrd |-> initrd, range |-> InitrdRange(mems, initrd),
             remote_bitbang |-> s.use_rbb, wiring |-> IF "dump-dts" \in s.flags THEN Unwired ELSE Wiring(s)]
=============================================================================
