------------------------------- MODULE FdtRw -------------------------------
(***************************************************************************)
(* fdt_rw.c, fdt_wip.c, fdt_addresses.c and fdt_empty_tree.c: a finished   *)
(* tree edited in its buffer.  Every edit moves what follows it and keeps  *)
(* the three blocks and the header in step; a node is named by its offset, *)
(* which the edits before it shift.                                        *)
(***************************************************************************)
EXTENDS FdtSw

fdt_blocks_misordered_(b, rsvSize, structSize) ==
    \/ b.off_mem_rsvmap < 10
    \/ b.off_dt_struct < b.off_mem_rsvmap + rsvSize
    \/ b.off_dt_strings < b.off_dt_struct + structSize
    \/ b.totalsize < b.off_dt_strings + b.size_dt_strings
\* The error, or 0; a version above 17, which the library does not write, is left out.
fdt_rw_probe_(b) == Probed(b,
    IF b.version < 17 THEN -FDT_ERR.BADVERSION
    ELSE IF fdt_blocks_misordered_(b, RSV_ENTRY, b.size_dt_struct) THEN -FDT_ERR.BADLAYOUT ELSE 0)
Rw(b, result) == Unless(b, -fdt_rw_probe_(b), result)
fdt_data_size_(b) == b.off_dt_strings + b.size_dt_strings

\* The memory of b in which the words ws are at p in place of old words.
Spliced(b, p, old, ws) ==
    [b EXCEPT !.mem = Set(Move(@, p + Len(ws), @, p + old, fdt_data_size_(b) - p - old), p, ws)]
MutSplice(b, p, old, ws) ==
    IF p + old > fdt_data_size_(b) THEN Fail(b, FDT_ERR.BADOFFSET)
    ELSE IF fdt_data_size_(b) + Len(ws) - old >= b.totalsize THEN Fail(b, FDT_ERR.NOSPACE)
    ELSE Done(Spliced(b, p, old, ws))
\* old words at p give way to the words ws; what follows them moves.
fdt_splice_(b, p, old, ws) ==
    IF p + old > fdt_data_size_(b) THEN Fail(b, FDT_ERR.BADOFFSET)
    ELSE IF fdt_data_size_(b) + Len(ws) - old > b.totalsize THEN Fail(b, FDT_ERR.NOSPACE)
    ELSE Done(Spliced(b, p, old, ws))
RsvMoved(r, delta) == Then(r, Done([r.b EXCEPT !.off_dt_struct = @ + delta, !.off_dt_strings = @ + delta]))
MutRsvMoved(r, delta) == Then(r, Done([r.b EXCEPT !.off_dt_struct = @ + delta]))
MutSpliceRsv(b, p, oldn, ws) ==
    MutRsvMoved(fdt_splice_(b, p, oldn * RSV_ENTRY, ws), Len(ws) - oldn * RSV_ENTRY)
fdt_splice_mem_rsv_(b, p, oldn, ws) ==
    RsvMoved(fdt_splice_(b, p, oldn * RSV_ENTRY, ws), Len(ws) - oldn * RSV_ENTRY)
StructGrown(r, delta) == Then(r, Done([r.b EXCEPT !.size_dt_struct = @ + delta, !.off_dt_strings = @ + delta]))
\* off is an offset in the structure block.
fdt_splice_struct_(b, off, old, ws) == StructGrown(fdt_splice_(b, b.off_dt_struct + off, old, ws), Len(ws) - old)
StringsGrown(r) == Then(r, Done([r.b EXCEPT !.size_dt_strings = @ + 1]))
fdt_splice_string_(b, s) == StringsGrown(fdt_splice_(b, fdt_data_size_(b), 0, << s >>))
AddedString(r, off) == [ret |-> IF r.ret < 0 THEN r.ret ELSE off, b |-> r.b, allocated |-> r.ret = 0]
ReuseOrSplice(b, s, at) == IF at # NULL THEN [ret |-> at, b |-> b, allocated |-> FALSE]
                           ELSE AddedString(fdt_splice_string_(b, s), b.size_dt_strings)
FindAddString(b, s) == ReuseOrSplice(b, s, fdt_find_string_(
    [i \in 1 .. b.size_dt_strings |-> b.mem[b.off_dt_strings + i - 1]], s))
fdt_add_mem_rsv(b, addr, size) == Rw(b,
    fdt_splice_mem_rsv_(b, b.off_mem_rsvmap + fdt_num_mem_rsv(b) * RSV_ENTRY, 0, << 0, addr, 0, size >>))
fdt_del_mem_rsv(b, n) == Rw(b,
    IF n >= fdt_num_mem_rsv(b) THEN Fail(b, FDT_ERR.NOTFOUND)
    ELSE fdt_splice_mem_rsv_(b, b.off_mem_rsvmap + n * RSV_ENTRY, 1, << >>))

\* The result of a call on a property or a node that must be there.
Known(b, found, result) == IF found < 0 THEN [ret |-> found, b |-> b] ELSE result
NewLen(r, at, n) == Then(r, Done([r.b EXCEPT !.mem[at] = n]))
ResizeAt(b, p, val) ==
    Known(b, p.len, NewLen(fdt_splice_struct_(b, p.ptr, p.len, val), b.off_dt_struct + p.ptr - 2, Len(val)))
fdt_resize_property_(b, node, name, val) == ResizeAt(b, fdt_getprop(b, node, name), val)
AddAt(next, s, val) ==
    Known(s.b, s.ret, Undo(fdt_splice_struct_(s.b, next, 0, << FDT_PROP, Len(val), s.ret >> \o val), s))
fdt_add_property_(b, node, name, val) ==
    Known(b, fdt_check_node_offset_(b, node), AddAt(fdt_check_node_offset_(b, node), FindAddString(b, name), val))

fdt_set_name(b, node, name) == Rw(b,
    Known(b, fdt_get_name(b, node).len, fdt_splice_struct_(b, node + 1, 1, << name >>)))

\* The value is written by the caller; it is given here, as fdt_setprop gives it.
SetOrAdd(r, added) == IF r.ret = -FDT_ERR.NOTFOUND THEN added ELSE r
fdt_setprop(b, node, name, val) == Rw(b,
    SetOrAdd(fdt_resize_property_(b, node, name, val), fdt_add_property_(b, node, name, val)))
AppendAt(b, p, val, added) == IF p.ptr = NULL THEN added ELSE ResizeAt(b, p, Value(b, p) \o val)
fdt_appendprop(b, node, name, val) == Rw(b,
    AppendAt(b, fdt_getprop(b, node, name), val, fdt_add_property_(b, node, name, val)))
DeleteAt(b, p) == Known(b, p.len, fdt_splice_struct_(b, p.ptr - PROP_HDR, PROP_HDR + p.len, << >>))
fdt_delprop(b, node, name) == Rw(b, DeleteAt(b, fdt_getprop(b, node, name)))
RECURSIVE PastProps(_, _)
PastItems(b, off, t) == IF t.tag \in {FDT_PROP, FDT_NOP} THEN PastProps(b, t.next) ELSE off
PastProps(b, off) == PastItems(b, off, fdt_next_tag(b, off))
\* ret is the offset of the new node.
AtOffset(r, off) == Then(r, [r EXCEPT !.ret = off])
AddNodeAt(b, off, name) == AtOffset(fdt_splice_struct_(b, off, 0, << FDT_BEGIN_NODE, name, FDT_END_NODE >>), off)
IfAbsent(b, sub, result) == CASE sub >= 0 -> Fail(b, FDT_ERR.EXISTS)
                              [] sub = -FDT_ERR.NOTFOUND -> result
                              [] OTHER -> [ret |-> sub, b |-> b]
fdt_add_subnode(b, parent, name) == Rw(b,
    IfAbsent(b, fdt_subnode_offset(b, parent, name), AddNodeAt(b, PastProps(b, fdt_next_tag(b, parent).next), name)))
DeleteTo(b, node, end) == Known(b, end, fdt_splice_struct_(b, node, end - node, << >>))
fdt_del_node(b, node) == Rw(b, DeleteTo(b, node, fdt_node_end_offset_(b, node)))
\* The blocks of old, one after the other, at word at of a memory: each is moved
\* from the memory the moves before it left when it is old's own.
StructTo(old, mem, at, same, rsvSize, structSize) ==
    Move(mem, at + 10 + rsvSize, IF same THEN mem ELSE old.mem, old.off_dt_struct, structSize)
StringsTo(old, mem, to, same) == Move(mem, to, IF same THEN mem ELSE old.mem, old.off_dt_strings, old.size_dt_strings)
fdt_packblocks_(old, mem, at, same, rsvSize, structSize) ==
    [old EXCEPT !.mem = StringsTo(old, StructTo(old, Move(mem, at + 10, old.mem, old.off_mem_rsvmap, rsvSize),
                                                at, same, rsvSize, structSize),
                                  at + 10 + rsvSize + structSize, same),
                !.off_mem_rsvmap = 10, !.off_dt_struct = 10 + rsvSize, !.size_dt_struct = structSize,
                !.off_dt_strings = 10 + rsvSize + structSize]

RECURSIVE StructSize(_, _)
SizeFrom(b, t) == IF t.tag = FDT_END THEN t.next ELSE StructSize(b, t.next)
StructSize(b, off) == SizeFrom(b, fdt_next_tag(b, off))
\* Blocks in order stay where they are.
Reopened(r, size, structSize) ==
    Then(r, Done([r.b EXCEPT !.version = 17, !.size_dt_struct = structSize, !.totalsize = size]))
Converted(built, at, size, newsize) ==
    Done([built EXCEPT !.mem = Move(@, 0, @, at, newsize), !.magic = "fdt", !.totalsize = size,
                       !.version = 17, !.last = 16])
\* The converted tree is built after the old one when that is in the way, then moved down.
Convert(b, size, same, at, rsvSize, structSize) ==
    LET newsize == 10 + rsvSize + structSize + b.size_dt_strings
        buf == [i \in 0 .. size - 1 |-> IF same /\ i < b.totalsize THEN b.mem[i] ELSE JUNK]
    IN  IF at + newsize > size THEN Fail(b, FDT_ERR.NOSPACE)
        ELSE Converted(fdt_packblocks_(b, buf, at, same, rsvSize, structSize), at, size, newsize)
OpenSized(b, size, same, rsvSize, structSize) ==
    IF structSize < 0 THEN Fail(b, -structSize)
    ELSE IF fdt_blocks_misordered_(b, rsvSize, structSize)
         THEN Convert(b, size, same, IF same THEN b.totalsize ELSE 0, rsvSize, structSize)
         ELSE Reopened(fdt_move(b, size), size, structSize)
RsvSize(b) == (fdt_num_mem_rsv(b) + 1) * RSV_ENTRY
\* same: the buffer is the tree's own, of size words from its start.
fdt_open_into(b, size, same) ==
    IF fdt_ro_probe_(b) < 0 THEN Fail(b, -fdt_ro_probe_(b))
    ELSE OpenSized(b, size, same, RsvSize(b), IF b.version >= 17 THEN b.size_dt_struct ELSE StructSize(b, 0))
Trimmed(b) == Done([b EXCEPT !.totalsize = fdt_data_size_(b)])
fdt_pack(b) == Rw(b, Trimmed(fdt_packblocks_(b, b.mem, 0, TRUE, RsvSize(b), b.size_dt_struct)))
-----------------------------------------------------------------------------
(* fdt_wip.c: edits that keep the size; fdt_empty_tree.c.                  *)

PatchAt(b, p, idx, val) == Known(b, p.len,
    IF p.len < Len(val) + idx THEN Fail(b, FDT_ERR.NOSPACE)
    ELSE Done([b EXCEPT !.mem = Set(@, b.off_dt_struct + p.ptr + idx, val)]))
fdt_setprop_inplace_partial(b, node, name, idx, val) == PatchAt(b, fdt_getprop(b, node, name), idx, val)
OverwriteAt(b, p, val) == IF p.len >= 0 /\ p.len # Len(val) THEN Fail(b, FDT_ERR.NOSPACE) ELSE PatchAt(b, p, 0, val)
fdt_setprop_inplace(b, node, name, val) == OverwriteAt(b, fdt_getprop(b, node, name), val)
fdt_nop_region_(b, off, n) == [b EXCEPT !.mem = Set(@, b.off_dt_struct + off, [i \in 1 .. n |-> FDT_NOP])]
NopAt(b, p) == Known(b, p.len, Done(fdt_nop_region_(b, p.ptr - PROP_HDR, PROP_HDR + p.len)))
fdt_nop_property(b, node, name) == NopAt(b, fdt_getprop(b, node, name))
NopTo(b, node, end) == Known(b, end, Done(fdt_nop_region_(b, node, end - node)))
fdt_nop_node(b, node) == NopTo(b, node, fdt_node_end_offset_(b, node))
ThenReserve(r) == Then(r, fdt_finish_reservemap(r.b))
ThenBegin(r) == Then(r, fdt_begin_node(r.b, ROOT))
ThenEnd(r) == Then(r, fdt_end_node(r.b))
ThenFinish(r) == Then(r, fdt_finish(r.b))
ThenOpen(r, size) == Then(r, fdt_open_into(r.b, size, TRUE))
fdt_create_empty_tree(b, size) ==
    ThenOpen(ThenFinish(ThenEnd(ThenBegin(ThenReserve(fdt_create(b, size))))), size)
-----------------------------------------------------------------------------
(* fdt_addresses.c.  A cell holds 0 .. UINT32; two cells are its square.   *)

CellsIn(b, c) == IF c.ptr = NULL THEN c.len
                 ELSE IF c.len # 1 \/ Word(b, c.ptr) > FDT_MAX_NCELLS THEN -FDT_ERR.BADNCELLS ELSE Word(b, c.ptr)
fdt_cells(b, node, name) == CellsIn(b, fdt_getprop(b, node, name))
OrTwo(val) == CASE val = 0 -> -FDT_ERR.BADNCELLS [] val = -FDT_ERR.NOTFOUND -> 2 [] OTHER -> val
fdt_address_cells(b, node) == OrTwo(fdt_cells(b, node, AddressCells))
OrOne(val) == IF val = -FDT_ERR.NOTFOUND THEN 1 ELSE val
fdt_size_cells(b, node) == OrOne(fdt_cells(b, node, SizeCells))
Cells(n, x) == IF n = 1 THEN << x >> ELSE << x \div (UINT32 + 1), x % (UINT32 + 1) >>
\* UINT32_MAX + 1 is a 32-bit 0, and 0 - addr wraps in the 64 bits of addr.
Beyond(addr) == IF addr = 0 THEN 0 ELSE (UINT32 + 1) * (UINT32 + 1) - addr
AddrRange(ac, sc, addr, size) ==
    CASE ac = 1 /\ (addr > UINT32 \/ Beyond(addr) < size) -> -FDT_ERR.BADVALUE
      [] ac \notin {1, 2} -> -FDT_ERR.BADNCELLS
      [] OTHER -> IF sc = 1 /\ size > UINT32 THEN -FDT_ERR.BADVALUE
                  ELSE IF sc \notin {1, 2} THEN -FDT_ERR.BADNCELLS ELSE 0
AppendRangeOf(b, ac, sc, node, name, addr, size) ==
    Known(b, ac, Known(b, sc, Known(b, AddrRange(ac, sc, addr, size),
          fdt_appendprop(b, node, name, Cells(ac, addr) \o Cells(sc, size)))))
fdt_appendprop_addrrange(b, parent, node, name, addr, size) ==
    AppendRangeOf(b, fdt_address_cells(b, parent), fdt_size_cells(b, parent), node, name, addr, size)
=============================================================================
