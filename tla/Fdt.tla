-------------------------------- MODULE Fdt --------------------------------
(***************************************************************************)
(* fdt.c and fdt_ro.c: a flattened device tree and what reads it.          *)
(*                                                                         *)
(* A blob is a header and a memory of words.  A name, a string of the      *)
(* string table and a string of a value are one word; so are a tag, a cell *)
(* and a length, and lengths count words.  A node name is 10 * its base +  *)
(* its unit address, 0 when it has none.  A path is SLASH and the names on *)
(* it, or an alias and names.  Cells have 6 bits (UINT32 is their maximum) *)
(* and versions below 16, with their realigned values, are left out.  An   *)
(* operator bears the name of its C function; where C returns a result and *)
(* stores a length or a depth, the operator returns a record.              *)
(***************************************************************************)
EXTENDS Integers, Sequences, FiniteSets, SequencesExt

FDT_ERR == [NOTFOUND |-> 1, EXISTS |-> 2, NOSPACE |-> 3, BADOFFSET |-> 4, BADPATH |-> 5,
            BADPHANDLE |-> 6, BADSTATE |-> 7, TRUNCATED |-> 8, BADMAGIC |-> 9,
            BADVERSION |-> 10, BADSTRUCTURE |-> 11, BADLAYOUT |-> 12, INTERNAL |-> 13,
            BADNCELLS |-> 14, BADVALUE |-> 15, BADOVERLAY |-> 16, NOPHANDLES |-> 17,
            BADFLAGS |-> 18]
NameOfError(err) == CHOOSE name \in DOMAIN FDT_ERR : FDT_ERR[name] = err
fdt_strerror(errval) ==
    CASE errval > 0 -> "<valid offset/length>"
      [] errval = 0 -> "<no error>"
      [] errval < 0 -> IF \E name \in DOMAIN FDT_ERR : FDT_ERR[name] = -errval THEN NameOfError(-errval)
                       ELSE "<unknown error>"
UINT32 == 63
FDT_MAX_PHANDLE == UINT32 - 1
FDT_MAX_NCELLS == 4
FIRST_SUPPORTED == 2
LAST_SUPPORTED == 17
NULL == -1000

FDT_BEGIN_NODE == 1
FDT_END_NODE == 2
FDT_PROP == 3
FDT_NOP == 4
FDT_END == 9
TAGS == {FDT_BEGIN_NODE, FDT_END_NODE, FDT_PROP, FDT_NOP, FDT_END}
FDT_V1_SIZE == 7
RSV_ENTRY == 4
PROP_HDR == 3
ALIGN(x, a) == ((x + a - 1) \div a) * a

\* Words that are not cells: the names the code itself spells out, the slash of a
\* path, and a word of text that holds no NUL;
\* the entries of __fixups__ have their colons and their NUL.
ROOT == 0
SLASH == 70
UNTERMINATED == 71
JUNK == 72
COLON == 73
NUL == 74
Aliases == 1000
Symbols == 1010
Fixups == 1020
LocalFixups == 1030
Overlay == 1040
Phandle == 2000
LinuxPhandle == 2010
AddressCells == 2020
SizeCells == 2030
Target == 2040
TargetPath == 2050
Compatible == 2060

Word(b, off) == b.mem[b.off_dt_struct + off]

fdt_ro_probe_(b) ==
    CASE b.magic = "fdt" /\ (b.version < FIRST_SUPPORTED \/ b.last > LAST_SUPPORTED) -> -FDT_ERR.BADVERSION
      [] b.magic = "sw" /\ b.size_dt_struct = 0 -> -FDT_ERR.BADSTATE
      [] b.magic \notin {"fdt", "sw"} -> -FDT_ERR.BADMAGIC
      [] OTHER -> b.totalsize

check_off_(hdrsize, totalsize, off) == hdrsize <= off /\ off <= totalsize
check_block_(hdrsize, totalsize, base, size) ==
    check_off_(hdrsize, totalsize, base) /\ check_off_(hdrsize, totalsize, base + size)

fdt_header_size_(version) ==
    CASE version <= 1 -> 7 [] version = 2 -> 8 [] version \in 3 .. 16 -> 9 [] OTHER -> 10

fdt_check_header(b) ==
    LET hdrsize == fdt_header_size_(b.version)
        structOk == IF b.version < 17 THEN check_off_(hdrsize, b.totalsize, b.off_dt_struct)
                    ELSE check_block_(hdrsize, b.totalsize, b.off_dt_struct, b.size_dt_struct)
    IN  IF b.magic # "fdt" THEN -FDT_ERR.BADMAGIC
        ELSE IF b.version < FIRST_SUPPORTED \/ b.last > LAST_SUPPORTED \/ b.version < b.last
             THEN -FDT_ERR.BADVERSION
        ELSE IF /\ b.totalsize >= hdrsize
                /\ check_off_(hdrsize, b.totalsize, b.off_mem_rsvmap)
                /\ structOk
                /\ check_block_(hdrsize, b.totalsize, b.off_dt_strings, b.size_dt_strings)
             THEN 0 ELSE -FDT_ERR.TRUNCATED

\* TRUE when C returns a pointer to len words at this offset, and not NULL.
fdt_offset_ptr(b, off, len) ==
    /\ b.off_dt_struct + off + len <= b.totalsize
    /\ b.version >= 17 => off + len <= b.size_dt_struct

Item(tag, next) == [tag |-> tag, next |-> next]
\* How long the item is; 0 when it ends early or has no such tag.
ItemSize(b, start, tag) ==
    CASE tag = FDT_BEGIN_NODE -> 2
      [] tag = FDT_PROP -> IF fdt_offset_ptr(b, start + 1, 1) THEN PROP_HDR + Word(b, start + 1) ELSE 0
      [] tag \in {FDT_END, FDT_END_NODE, FDT_NOP} -> 1
      [] OTHER -> 0
ItemOf(b, start, tag, size) == IF size = 0 \/ ~fdt_offset_ptr(b, start, size)
                               THEN Item(FDT_END, -FDT_ERR.BADSTRUCTURE) ELSE Item(tag, start + size)
fdt_next_tag(b, start) ==
    IF fdt_offset_ptr(b, start, 1) THEN ItemOf(b, start, Word(b, start), ItemSize(b, start, Word(b, start)))
    ELSE Item(FDT_END, -FDT_ERR.TRUNCATED)

PastItem(item, tag) == IF item.tag = tag THEN item.next ELSE -FDT_ERR.BADOFFSET
CheckTag(b, off, tag) == IF off < 0 THEN -FDT_ERR.BADOFFSET ELSE PastItem(fdt_next_tag(b, off), tag)
fdt_check_node_offset_(b, off) == CheckTag(b, off, FDT_BEGIN_NODE)
fdt_check_prop_offset_(b, off) == CheckTag(b, off, FDT_PROP)

\* The loop of fdt_next_node; counted is FALSE when the caller passes no depth.
RECURSIVE NextNode(_, _, _, _)
NodeOrNext(b, off, t, depth, counted) ==
    CASE t.tag = FDT_BEGIN_NODE -> [off |-> off, depth |-> depth + 1]
      [] t.tag = FDT_END_NODE /\ counted /\ depth <= 0 -> [off |-> t.next, depth |-> depth - 1]
      [] t.tag = FDT_END_NODE /\ ~(counted /\ depth <= 0) -> NextNode(b, t.next, depth - 1, counted)
      [] t.tag \in {FDT_PROP, FDT_NOP} -> NextNode(b, t.next, depth, counted)
      [] t.tag = FDT_END ->
            [off |-> IF t.next >= 0 \/ (t.next = -FDT_ERR.TRUNCATED /\ ~counted)
                     THEN -FDT_ERR.NOTFOUND ELSE t.next, depth |-> depth]
NextNode(b, off, depth, counted) == NodeOrNext(b, off, fdt_next_tag(b, off), depth, counted)
NodeAfter(b, next, depth, counted) ==
    IF next < 0 THEN [off |-> next, depth |-> depth] ELSE NextNode(b, next, depth, counted)
fdt_next_node(b, off, depth, counted) ==
    NodeAfter(b, IF off < 0 THEN 0 ELSE fdt_check_node_offset_(b, off), depth, counted)
\* What the depth-counting loops of fdt_ro.c, fdt_wip.c and fdt_next_subnode visit:
\* from a node, the nodes below it, and last the offset or depth that ends the loop.
RECURSIVE WalkFrom(_, _)
WalkFrom(b, at) == IF at.off < 0 \/ at.depth < 0 THEN << at >>
                   ELSE << at >> \o WalkFrom(b, fdt_next_node(b, at.off, at.depth, TRUE))
Walk(b, off) == WalkFrom(b, [off |-> off, depth |-> 0])
\* What the loops without a depth visit: the nodes after off, and the error that ends them.
RECURSIVE NodesAfter(_, _)
NodesOn(b, off) == IF off < 0 THEN << off >> ELSE << off >> \o NodesAfter(b, off)
NodesAfter(b, off) == NodesOn(b, fdt_next_node(b, off, 0, FALSE).off)
FirstThat(s, Test(_)) == Head(Append(SelectSeq(s, Test), Last(s)))
fdt_node_end_offset_(b, off) == Last(Walk(b, off)).off
AtDepthOne(n) == IF n.off < 0 \/ n.depth # 1 THEN -FDT_ERR.NOTFOUND ELSE n.off
fdt_first_subnode(b, off) == AtDepthOne(fdt_next_node(b, off, 0, TRUE))
RECURSIVE NextSubnode(_, _, _)
SubnodeOrNext(b, n) == IF n.off >= 0 /\ n.depth > 1 THEN NextSubnode(b, n.off, n.depth) ELSE AtDepthOne(n)
NextSubnode(b, off, depth) == SubnodeOrNext(b, fdt_next_node(b, off, depth, TRUE))
MutNextSubnode(b, off) == fdt_next_node(b, off, 1, TRUE).off
fdt_next_subnode(b, off) == NextSubnode(b, off, 1)
\* fdt_for_each_subnode
RECURSIVE SubnodesFrom(_, _)
SubnodesFrom(b, off) == IF off < 0 THEN << >> ELSE << off >> \o SubnodesFrom(b, fdt_next_subnode(b, off))
Subnodes(b, off) == SubnodesFrom(b, fdt_first_subnode(b, off))

\* The index in tab of the first string equal to s, or NULL.
fdt_find_string_(tab, s) == IF \E i \in DOMAIN tab : tab[i] = s
                            THEN (CHOOSE i \in DOMAIN tab : tab[i] = s /\ \A j \in 1 .. i - 1 : tab[j] # s) - 1
                            ELSE NULL
\* fdt_move into a buffer of size words: the words past the tree are not defined.
MoveInto(b, size) == [b EXCEPT !.mem = [i \in 0 .. size - 1 |-> IF i < b.totalsize THEN b.mem[i] ELSE JUNK]]
fdt_move(b, size) == CASE fdt_ro_probe_(b) < 0 -> [ret |-> fdt_ro_probe_(b), b |-> b]
                       [] fdt_ro_probe_(b) > size -> [ret |-> -FDT_ERR.NOSPACE, b |-> b]
                       [] OTHER -> [ret |-> 0, b |-> MoveInto(b, size)]
-----------------------------------------------------------------------------
(* Names, strings and the reserve map.                                     *)

NoPtr(err) == [ptr |-> NULL, len |-> err]
Probed(b, result) == IF fdt_ro_probe_(b) < 0 THEN fdt_ro_probe_(b) ELSE result
NameAt(b, off, err) == IF err < 0 THEN NoPtr(err)
                       ELSE [ptr |-> Word(b, off + 1), len |-> IF Word(b, off + 1) = ROOT THEN 0 ELSE 1]
fdt_get_name(b, off) == NameAt(b, off, Probed(b, fdt_check_node_offset_(b, off)))
\* A name without a unit address also stands for the node that has one.
NameEq(p, name) == p # NULL /\ (p = name \/ (name % 10 = 0 /\ p \div 10 = name \div 10))
fdt_nodename_eq_(b, off, name) == NameEq(fdt_get_name(b, off).ptr, name)
fdt_get_string(b, stroff) ==
    LET abs == stroff + b.off_dt_strings
        outside == CASE b.magic = "fdt" -> stroff < 0 \/ (b.version >= 17 /\ stroff >= b.size_dt_strings)
                     [] b.magic = "sw" -> stroff >= 0 \/ stroff < -b.size_dt_strings
    IN  CASE fdt_ro_probe_(b) < 0 -> NoPtr(fdt_ro_probe_(b))
          [] OTHER -> IF abs >= b.totalsize \/ outside THEN NoPtr(-FDT_ERR.BADOFFSET)
                      ELSE [ptr |-> b.mem[abs], len |-> 1]
fdt_string(b, stroff) == fdt_get_string(b, stroff).ptr
fdt_string_eq_(b, stroff, s) == fdt_get_string(b, stroff).ptr = s

fdt_mem_rsv(b, n) == IF b.off_mem_rsvmap + n * RSV_ENTRY > b.totalsize - RSV_ENTRY THEN NULL
                     ELSE b.off_mem_rsvmap + n * RSV_ENTRY
fdt_get_mem_rsv(b, n) ==
    LET re == fdt_mem_rsv(b, n)
    IN  CASE fdt_ro_probe_(b) < 0 -> [ret |-> fdt_ro_probe_(b)]
          [] fdt_ro_probe_(b) >= 0 /\ re = NULL -> [ret |-> -FDT_ERR.BADOFFSET]
          [] OTHER -> [ret |-> 0, address |-> b.mem[re + 1], size |-> b.mem[re + 3]]
RECURSIVE CountRsv(_, _)
CountRsv(b, i) == LET re == fdt_mem_rsv(b, i)
                  IN  IF re = NULL THEN -FDT_ERR.TRUNCATED
                      ELSE IF b.mem[re + 3] = 0 THEN i ELSE CountRsv(b, i + 1)
fdt_num_mem_rsv(b) == CountRsv(b, 0)
-----------------------------------------------------------------------------
(* Properties.                                                             *)

RECURSIVE nextprop_(_, _)
PropOrNext(b, off, t) ==
    CASE t.tag = FDT_PROP -> off
      [] t.tag = FDT_NOP -> nextprop_(b, t.next)
      [] t.tag = FDT_END -> IF t.next >= 0 THEN -FDT_ERR.BADSTRUCTURE ELSE t.next
      [] t.tag \in {FDT_BEGIN_NODE, FDT_END_NODE} -> -FDT_ERR.NOTFOUND
nextprop_(b, off) == PropOrNext(b, off, fdt_next_tag(b, off))
PropFrom(b, next) == IF next < 0 THEN next ELSE nextprop_(b, next)
fdt_first_property_offset(b, node) == PropFrom(b, fdt_check_node_offset_(b, node))
fdt_next_property_offset(b, off) == PropFrom(b, fdt_check_prop_offset_(b, off))
\* fdt_for_each_property_offset, and last the error that ends it
RECURSIVE PropsFrom(_, _)
PropsFrom(b, off) == IF off < 0 THEN << off >> ELSE << off >> \o PropsFrom(b, fdt_next_property_offset(b, off))
Props(b, node) == PropsFrom(b, fdt_first_property_offset(b, node))

PropertyAt(b, off, err) == IF err < 0 THEN NoPtr(err) ELSE [ptr |-> off, len |-> Word(b, off + 1)]
fdt_get_property_by_offset_(b, off) == PropertyAt(b, off, fdt_check_prop_offset_(b, off))
PropertyOrError(b, off) == IF off < 0 THEN NoPtr(off) ELSE fdt_get_property_by_offset_(b, off)
fdt_get_property_namelen_(b, node, name) ==
    PropertyOrError(b, FirstThat(Props(b, node), LAMBDA o : o >= 0 /\ fdt_string_eq_(b, Word(b, o + 2), name)))
\* ptr is the offset of the value in the structure block.
PastHeader(p) == IF p.ptr = NULL THEN p ELSE [p EXCEPT !.ptr = @ + PROP_HDR]
fdt_getprop(b, node, name) == PastHeader(fdt_get_property_namelen_(b, node, name))
Value(b, p) == [i \in 1 .. p.len |-> Word(b, p.ptr + i - 1)]
Named(p, name) == CASE p.ptr = NULL -> p @@ [name |-> NULL]
                    [] OTHER -> IF name.ptr = NULL THEN name @@ [name |-> NULL] ELSE p @@ [name |-> name.ptr]
fdt_getprop_by_offset(b, off) ==
    Named(PastHeader(fdt_get_property_by_offset_(b, off)), fdt_get_string(b, Word(b, off + 2)))

PhandleIn(b, new, old) == IF new.ptr # NULL /\ new.len = 1 THEN Word(b, new.ptr)
                          ELSE IF old.ptr # NULL /\ old.len = 1 THEN Word(b, old.ptr) ELSE 0
fdt_get_phandle(b, node) == PhandleIn(b, fdt_getprop(b, node, Phandle), fdt_getprop(b, node, LinuxPhandle))
MaxOf(found) == CHOOSE m \in found : \A n \in found : n <= m
MaxPhandleOn(b, nodes) ==
    IF Last(nodes) # -FDT_ERR.NOTFOUND THEN [ret |-> Last(nodes)]
    ELSE [ret |-> 0, phandle |-> MaxOf({0} \cup {fdt_get_phandle(b, nodes[i]) : i \in 1 .. Len(nodes) - 1})]
fdt_find_max_phandle(b) == MaxPhandleOn(b, NodesAfter(b, -1))
PhandlePast(max) == CASE max.ret < 0 -> max
                      [] max.ret = 0 -> IF max.phandle = FDT_MAX_PHANDLE THEN [ret |-> -FDT_ERR.NOPHANDLES]
                                        ELSE [ret |-> 0, phandle |-> max.phandle + 1]
fdt_generate_phandle(b) == PhandlePast(fdt_find_max_phandle(b))
MaxOrAll(max) == IF max.ret < 0 THEN UINT32 ELSE max.phandle
fdt_get_max_phandle(b) == MaxOrAll(fdt_find_max_phandle(b))
-----------------------------------------------------------------------------
(* Finding nodes.                                                          *)

FoundChild(hit) == IF hit.depth < 0 THEN -FDT_ERR.NOTFOUND ELSE hit.off
fdt_subnode_offset(b, parent, name) == Probed(b, FoundChild(FirstThat(Walk(b, parent),
    LAMBDA w : w.off >= 0 /\ w.depth = 1 /\ fdt_nodename_eq_(b, w.off, name))))

RECURSIVE Descend(_, _, _), fdt_path_offset(_, _)
DescendInto(b, sub, names) == IF sub < 0 THEN sub ELSE Descend(b, sub, names)
Descend(b, off, names) ==
    IF names = << >> THEN off
    ELSE IF Head(names) = SLASH THEN Descend(b, off, Tail(names))
    ELSE DescendInto(b, fdt_subnode_offset(b, off, Head(names)), Tail(names))
AliasIn(b, p) == IF p.ptr = NULL THEN << >> ELSE Value(b, p)
AliasOf(b, aliases, name) == IF aliases < 0 THEN << >> ELSE AliasIn(b, fdt_getprop(b, aliases, name))
fdt_get_alias(b, name) == AliasOf(b, fdt_path_offset(b, << SLASH, Aliases >>), name)
\* An alias that leads to itself would recurse for ever: aliases are paths here.
FromAlias(b, alias, names) == IF alias = << >> THEN -FDT_ERR.BADPATH ELSE Descend(b, fdt_path_offset(b, alias), names)
fdt_path_offset(b, path) == Probed(b,
    IF path[1] = SLASH THEN Descend(b, 0, path) ELSE FromAlias(b, fdt_get_alias(b, path[1]), Tail(path)))

\* The walk from the root to a node, as the loops of fdt_get_path and
\* fdt_supernode_atdepth_offset make it, or the error they end with.
ErrorAt(end, node) ==
    CASE end >= 0 -> IF end > node THEN -FDT_ERR.BADOFFSET ELSE -FDT_ERR.BADSTRUCTURE
      [] end = -FDT_ERR.NOTFOUND -> -FDT_ERR.BADOFFSET
      [] end = -FDT_ERR.BADOFFSET -> -FDT_ERR.BADSTRUCTURE
      [] OTHER -> end
NotOnWalk(b, node) == ErrorAt(Last(Walk(b, 0)).off, node)
WalkTo(b, node) == SelectSeq(Walk(b, 0), LAMBDA w : w.off \in 0 .. node)
OnWalk(walk, node) == walk # << >> /\ Last(walk).off = node
AtDepth(walk, d) == Last(SelectSeq(walk, LAMBDA w : w.depth = d)).off

SupernodeOn(b, walk, node, d) ==
    IF ~OnWalk(walk, node) THEN [ret |-> NotOnWalk(b, node)]
    ELSE [ret |-> IF d > Last(walk).depth THEN -FDT_ERR.NOTFOUND ELSE AtDepth(walk, d), depth |-> Last(walk).depth]
fdt_supernode_atdepth_offset(b, node, d) ==
    CASE fdt_ro_probe_(b) < 0 -> [ret |-> fdt_ro_probe_(b)]
      [] fdt_ro_probe_(b) >= 0 /\ d < 0 -> [ret |-> -FDT_ERR.NOTFOUND]
      [] OTHER -> SupernodeOn(b, WalkTo(b, node), node, d)
DepthFrom(root) == IF root.ret = 0 THEN root.depth ELSE IF root.ret < 0 THEN root.ret ELSE -FDT_ERR.INTERNAL
fdt_node_depth(b, node) == DepthFrom(fdt_supernode_atdepth_offset(b, node, 0))
ParentAt(b, node, depth) == IF depth < 0 THEN depth ELSE fdt_supernode_atdepth_offset(b, node, depth - 1).ret
fdt_parent_offset(b, node) == ParentAt(b, node, fdt_node_depth(b, node))
\* The path of a node as a path value, for a buffer of size names and slashes:
\* a component that does not fit is left out, and the depth it leaves tells.
PathOn(b, walk, node, size) ==
    IF ~OnWalk(walk, node) THEN [ret |-> NotOnWalk(b, node)]
    ELSE IF 2 * Last(walk).depth + 1 > size THEN [ret |-> -FDT_ERR.NOSPACE]
    ELSE [ret |-> 0, path |-> << SLASH >> \o [d \in 1 .. Last(walk).depth |-> Word(b, AtDepth(walk, d) + 1)]]
fdt_get_path(b, node, size) ==
    CASE fdt_ro_probe_(b) < 0 -> [ret |-> fdt_ro_probe_(b)]
      [] fdt_ro_probe_(b) >= 0 /\ size < 2 -> [ret |-> -FDT_ERR.NOSPACE]
      [] OTHER -> PathOn(b, WalkTo(b, node), node, size)
FirstNode(b, start, Test(_)) == Probed(b, FirstThat(NodesAfter(b, start), Test))
Holds(b, p, val) == p.ptr # NULL /\ Value(b, p) = val
fdt_node_offset_by_prop_value(b, start, name, val) ==
    FirstNode(b, start, LAMBDA o : o >= 0 /\ Holds(b, fdt_getprop(b, o, name), val))
fdt_node_offset_by_phandle(b, phandle) ==
    IF phandle \in {0, UINT32} THEN -FDT_ERR.BADPHANDLE
    ELSE FirstNode(b, -1, LAMBDA o : o >= 0 /\ fdt_get_phandle(b, o) = phandle)
-----------------------------------------------------------------------------
(* Lists of strings in a value, and the check of a whole tree.             *)

\* The strings of a list, and an empty one last when the text after them does not end.
RECURSIVE StringsOf(_, _)
StringsOf(list, open) ==
    IF list = << >> THEN (IF open = << >> THEN << >> ELSE << << >> >>)
    ELSE IF Head(list) = UNTERMINATED THEN StringsOf(Tail(list), Append(open, Head(list)))
    ELSE << Append(open, Head(list)) >> \o StringsOf(Tail(list), << >>)
Listed(strings, s) == \E i \in DOMAIN strings : strings[i] = << s >>
fdt_stringlist_contains(list, s) == Listed(StringsOf(list, << >>), s)
OpenEnded(strings) == strings # << >> /\ Last(strings) = << >>
\* A list in a property: [len, strings], len an error when there is no such property.
ListIn(b, p) == [len |-> p.len, strings |-> IF p.ptr = NULL THEN << >> ELSE StringsOf(Value(b, p), << >>)]
CountOf(list) == IF list.len < 0 THEN list.len ELSE IF OpenEnded(list.strings) THEN -FDT_ERR.BADVALUE ELSE Len(list.strings)
fdt_stringlist_count(b, node, name) == CountOf(ListIn(b, fdt_getprop(b, node, name)))
StringAt(strings, i) == CASE i \notin DOMAIN strings -> -FDT_ERR.NOTFOUND
                          [] OTHER -> IF strings[i] = << >> THEN -FDT_ERR.BADVALUE ELSE i - 1
SearchIn(list, s) == IF list.len < 0 THEN list.len
                     ELSE StringAt(list.strings, SelectInSeq(list.strings, LAMBDA t : t = << >> \/ t = << s >>))
fdt_stringlist_search(b, node, name, s) == SearchIn(ListIn(b, fdt_getprop(b, node, name)), s)
StringOrError(list, idx, at) == IF at < 0 THEN [ptr |-> << >>, len |-> at]
                                ELSE [ptr |-> list.strings[idx + 1], len |-> Len(list.strings[idx + 1])]
GetIn(list, idx) ==
    StringOrError(list, idx, IF list.len < 0 THEN list.len
                             ELSE IF OpenEnded(list.strings) /\ idx + 1 >= Len(list.strings) THEN -FDT_ERR.BADVALUE
                             ELSE StringAt(list.strings, idx + 1))
fdt_stringlist_get(b, node, name, idx) == GetIn(ListIn(b, fdt_getprop(b, node, name)), idx)
CompatibleIn(b, p, s) == IF p.ptr = NULL THEN p.len ELSE IF fdt_stringlist_contains(Value(b, p), s) THEN 0 ELSE 1
fdt_node_check_compatible(b, node, s) == CompatibleIn(b, fdt_getprop(b, node, Compatible), s)
\* The first node that is compatible, or the error of one that cannot be read.
NodeOrError(b, hit, s) == IF hit >= 0 /\ fdt_node_check_compatible(b, hit, s) < 0
                          THEN fdt_node_check_compatible(b, hit, s) ELSE hit
fdt_node_offset_by_compatible(b, start, s) ==
    NodeOrError(b, FirstNode(b, start, LAMBDA o :
        o >= 0 /\ fdt_node_check_compatible(b, o, s) \notin {1, -FDT_ERR.NOTFOUND}), s)
AtEnd(depth) == IF depth # 0 THEN -FDT_ERR.BADSTRUCTURE ELSE 0
RECURSIVE CheckStruct(_, _, _)
CheckItem(b, t, prop, depth) ==
    CASE t.next < 0 -> t.next
      [] OTHER ->
         CASE t.tag = FDT_NOP -> CheckStruct(b, t.next, depth)
           [] t.tag = FDT_BEGIN_NODE -> CheckStruct(b, t.next, depth + 1)
           [] t.tag = FDT_END_NODE -> IF depth = 0 THEN -FDT_ERR.BADSTRUCTURE ELSE CheckStruct(b, t.next, depth - 1)
           [] t.tag = FDT_PROP -> IF prop.ptr = NULL THEN prop.len ELSE CheckStruct(b, t.next, depth)
           [] t.tag = FDT_END -> AtEnd(depth)
CheckStruct(b, off, depth) == CheckItem(b, fdt_next_tag(b, off), fdt_getprop_by_offset(b, off), depth)
fdt_check_full(b, bufsize) ==
    CASE bufsize < FDT_V1_SIZE -> -FDT_ERR.TRUNCATED
      [] bufsize >= FDT_V1_SIZE /\ fdt_check_header(b) # 0 -> fdt_check_header(b)
      [] OTHER -> IF bufsize < b.totalsize THEN -FDT_ERR.TRUNCATED
                  ELSE IF fdt_num_mem_rsv(b) < 0 THEN fdt_num_mem_rsv(b) ELSE CheckStruct(b, 0, 0)
=============================================================================
