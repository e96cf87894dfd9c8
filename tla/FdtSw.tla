------------------------------- MODULE FdtSw -------------------------------
(***************************************************************************)
(* fdt_sw.c: a tree written front to back into a buffer.  The strings grow *)
(* down from the end of the buffer, named by negative offsets, until       *)
(* fdt_finish moves them after the structure block.                        *)
(***************************************************************************)
EXTENDS Fdt

Fail(b, err) == [ret |-> -err, b |-> b]
Done(b) == [ret |-> 0, b |-> b]
\* The next call of a sequence, made only when the last one returned 0.
Then(r, next) == IF r.ret < 0 THEN r ELSE next

Set(mem, off, ws) == [i \in DOMAIN mem |-> IF i \in off .. off + Len(ws) - 1 THEN ws[i - off + 1] ELSE mem[i]]
Move(to, at, from, off, n) == [i \in DOMAIN to |-> IF i \in at .. at + n - 1 THEN from[off + i - at] ELSE to[i]]

NO_NAME_DEDUP == 1
fdt_sw_probe_(b) == IF b.magic = "fdt" THEN FDT_ERR.BADSTATE
                    ELSE IF b.magic # "sw" THEN FDT_ERR.BADMAGIC ELSE 0
ProbeThen(b, wrong) == IF fdt_sw_probe_(b) # 0 THEN fdt_sw_probe_(b) ELSE IF wrong THEN FDT_ERR.BADSTATE ELSE 0
fdt_sw_probe_memrsv_(b) == ProbeThen(b, b.off_dt_strings # 0)
fdt_sw_probe_struct_(b) == ProbeThen(b, b.off_dt_strings # b.totalsize)
\* The result of a call, unless its probe finds an error.
Unless(b, err, result) == IF err # 0 THEN Fail(b, err) ELSE result
Struct(b, result) == Unless(b, fdt_sw_probe_struct_(b), result)
sw_flags(b) == b.last

\* The blob in which ws follow the structure block; the offset they take is the old size.
fdt_grab_space_(b, ws) ==
    IF b.size_dt_struct + Len(ws) > b.totalsize - b.off_dt_struct - b.size_dt_strings THEN Fail(b, FDT_ERR.NOSPACE)
    ELSE Done([b EXCEPT !.size_dt_struct = @ + Len(ws),
                        !.mem = Set(@, b.off_dt_struct + b.size_dt_struct, ws)])

fdt_create_with_flags(b, bufsize, flags) ==
    LET hdrsize == ALIGN(10, RSV_ENTRY)
    IN  IF bufsize < hdrsize THEN Fail(b, FDT_ERR.NOSPACE)
        ELSE IF flags \notin {0, NO_NAME_DEDUP} THEN Fail(b, FDT_ERR.BADFLAGS)
        ELSE Done([magic |-> "sw", version |-> LAST_SUPPORTED, last |-> flags, totalsize |-> bufsize,
                   off_mem_rsvmap |-> hdrsize, off_dt_struct |-> hdrsize, off_dt_strings |-> 0,
                   size_dt_strings |-> 0, size_dt_struct |-> 0, mem |-> [i \in 0 .. bufsize - 1 |-> 0]])
fdt_create(b, bufsize) == fdt_create_with_flags(b, bufsize, 0)

fdt_resize(b, bufsize) == Unless(b, fdt_sw_probe_(b),
    LET head == b.off_dt_struct + b.size_dt_struct
        tail == b.size_dt_strings
        old == [i \in 0 .. bufsize - 1 |-> IF i < head THEN b.mem[i] ELSE JUNK]
    IN  IF head + tail > b.totalsize THEN Fail(b, FDT_ERR.INTERNAL)
        ELSE IF head + tail > bufsize THEN Fail(b, FDT_ERR.NOSPACE)
        ELSE Done([b EXCEPT !.mem = Move(old, bufsize - tail, b.mem, b.totalsize - tail, tail),
                            !.totalsize = bufsize,
                            !.off_dt_strings = IF @ # 0 THEN bufsize ELSE @]))
fdt_add_reservemap_entry(b, addr, size) == Unless(b, fdt_sw_probe_memrsv_(b),
    IF b.off_dt_struct + RSV_ENTRY > b.totalsize THEN Fail(b, FDT_ERR.NOSPACE)
    ELSE Done([b EXCEPT !.mem = Set(@, b.off_dt_struct, << 0, addr, 0, size >>),
                        !.off_dt_struct = @ + RSV_ENTRY]))
EndReserve(r) == IF r.ret < 0 THEN r ELSE Done([r.b EXCEPT !.off_dt_strings = r.b.totalsize])
fdt_finish_reservemap(b) == EndReserve(fdt_add_reservemap_entry(b, 0, 0))
fdt_begin_node(b, name) == Struct(b, fdt_grab_space_(b, << FDT_BEGIN_NODE, name >>))
fdt_end_node(b) == Struct(b, fdt_grab_space_(b, << FDT_END_NODE >>))

\* [off, b]: the offset of the string, 0 when there is no room for it.
fdt_add_string_(b, s) ==
    LET off == -b.size_dt_strings - 1
    IN  IF b.totalsize + off < b.off_dt_struct + b.size_dt_struct THEN [off |-> 0, b |-> b]
        ELSE [off |-> off, b |-> [b EXCEPT !.mem = Set(@, b.totalsize + off, << s >>), !.size_dt_strings = @ + 1]]
fdt_del_last_string_(b) == [b EXCEPT !.size_dt_strings = @ - 1]
ReuseOrAdd(b, s, at) ==
    IF at # NULL THEN [off |-> at - b.size_dt_strings, b |-> b, allocated |-> FALSE]
    ELSE fdt_add_string_(b, s) @@ [allocated |-> TRUE]
fdt_find_add_string_(b, s) ==
    ReuseOrAdd(b, s, fdt_find_string_(
        [i \in 1 .. b.size_dt_strings |-> b.mem[b.totalsize - b.size_dt_strings + i - 1]], s))
\* The value is written by the caller; it is given here, as fdt_property gives it.
\* A string that was added goes again when there is no room for what names it.
Undo(r, s) == IF r.ret < 0 /\ s.allocated THEN [r EXCEPT !.b = fdt_del_last_string_(@)] ELSE r
PutProperty(b, s, val) ==
    IF s.off = 0 THEN Fail(b, FDT_ERR.NOSPACE)
    ELSE Undo(fdt_grab_space_(s.b, << FDT_PROP, Len(val), s.off >> \o val), s)
fdt_property(b, name, val) == Struct(b, PutProperty(b,
    IF sw_flags(b) = NO_NAME_DEDUP THEN fdt_add_string_(b, name) @@ [allocated |-> TRUE]
    ELSE fdt_find_add_string_(b, name), val))

RECURSIVE Relocate(_, _)
RelocateItem(b, off, t) ==
    IF t.tag = FDT_END THEN [ret |-> IF t.next < 0 THEN t.next ELSE 0, b |-> b]
    ELSE Relocate(IF t.tag = FDT_PROP THEN [b EXCEPT !.mem[b.off_dt_struct + off + 2] = @ + b.size_dt_strings]
                  ELSE b, t.next)
Relocate(b, off) == RelocateItem(b, off, fdt_next_tag(b, off))
\* The strings move down to the end of the structure block.
StringsDown(b, new) == [b EXCEPT !.mem = Move(@, new, @, b.totalsize - b.size_dt_strings, b.size_dt_strings),
                                 !.off_dt_strings = new]
Finished_(r) == Then(r, Done([r.b EXCEPT !.totalsize = r.b.off_dt_strings + r.b.size_dt_strings,
                                         !.last = FIRST_SUPPORTED, !.magic = "fdt"]))
FinishFrom(end) == Then(end, Finished_(Relocate(StringsDown(end.b, end.b.off_dt_struct + end.b.size_dt_struct), 0)))
fdt_finish(b) == Struct(b, FinishFrom(fdt_grab_space_(b, << FDT_END >>)))
=============================================================================
