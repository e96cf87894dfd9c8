------------------------------- MODULE FdtUse -------------------------------
(***************************************************************************)
(* A client of libfdt, which writes a tree front to back, finishes it, and *)
(* then edits it, repacks it and merges overlays into it, in any order and *)
(* with buffers that may be too small.  want is the tree and the reserved  *)
(* ranges its calls ask for.                                               *)
(***************************************************************************)
EXTENDS DeviceTree

CONSTANTS Sizes,      \* buffer sizes
          Finished,   \* trees to start from, finished and in a buffer
          Overlays,   \* overlays to apply
          NewNames, PropNames, Vals,
          Ranges,     \* addresses with sizes
          SwCalls, RwCalls   \* bounds on the number of calls

VARIABLES b,        \* the blob
          stage,    \* "none", "sw", "rw" or "gone", when its magic was erased
          want,     \* [tree, rsv]
          path,     \* the node the writer has open
          legal,    \* FALSE once nodes were begun or ended out of nesting
          last,     \* [op, ret, due]: the last call, its result and the result due
          calls
vars == << b, stage, want, path, legal, last, calls >>

Nothing == [tree |-> [p \in {} |-> NoProps], rsv |-> << >>]
Init == /\ b \in Finished \cup {<< >>}
        /\ stage = IF b = << >> THEN "none" ELSE "rw"
        /\ want = IF b = << >> THEN Nothing ELSE [tree |-> TreeOf(b), rsv |-> RsvOf(b)]
        /\ path = << >> /\ legal = TRUE /\ calls = 0
        /\ last = [op |-> "none", ret |-> 0, due |-> 0]

\* A call returned r, due being what the tree and the room call for.
Returns(op, r, due, new) ==
    /\ b' = r.b
    /\ last' = [op |-> op, ret |-> IF r.ret > 0 THEN 0 ELSE r.ret, due |-> due]
    /\ want' = IF r.ret < 0 THEN want ELSE new
Call(op, r, due, new) == calls' = calls + 1 /\ Returns(op, r, due, new)
Due(room, need) == IF need <= room THEN 0 ELSE -FDT_ERR.NOSPACE
-----------------------------------------------------------------------------
(* Writing a tree.                                                          *)

SwRoom == b.totalsize - b.off_dt_struct - b.size_dt_struct - b.size_dt_strings
Strings(c) == IF c.magic = "sw" THEN {c.mem[c.totalsize - i] : i \in 1 .. c.size_dt_strings}
              ELSE {c.mem[c.off_dt_strings + i - 1] : i \in 1 .. c.size_dt_strings}
InStruct == b.off_dt_strings # 0
SwDue(need) == IF InStruct THEN Due(SwRoom, need) ELSE -FDT_ERR.BADSTATE
Sw == stage = "sw" /\ calls < SwCalls /\ UNCHANGED stage
Tree(t) == [want EXCEPT !.tree = t]

Create(size, flags) ==
    /\ stage = "none" /\ stage' = "sw"
    /\ Call("create", fdt_create_with_flags([magic |-> "none"], size, flags), 0, Nothing)
    /\ UNCHANGED << path, legal >>
Resize(size) ==
    /\ Sw /\ Call("resize", fdt_resize(b, size), Due(size, b.totalsize - SwRoom), want)
    /\ UNCHANGED << path, legal >>
Reserve(addr, size) ==
    /\ Sw /\ Call("reserve", fdt_add_reservemap_entry(b, addr, size),
                  IF InStruct THEN -FDT_ERR.BADSTATE ELSE Due(SwRoom, RSV_ENTRY),
                  [want EXCEPT !.rsv = Append(@, << addr, size >>)])
    /\ UNCHANGED << path, legal >>
FinishReserve ==
    /\ Sw /\ Call("finish reserve", fdt_finish_reservemap(b),
                  IF InStruct THEN -FDT_ERR.BADSTATE ELSE Due(SwRoom, RSV_ENTRY), want)
    /\ UNCHANGED << path, legal >>
\* Names are fresh, and the root is the first node.
BeginNode(name) ==
    /\ Sw /\ legal
    /\ Append(path, name) \notin DOMAIN want.tree
    /\ IF name = ROOT THEN DOMAIN want.tree = {} ELSE path # << >>
    /\ Call("begin", fdt_begin_node(b, name), SwDue(2), Tree(want.tree @@ (Append(path, name) :> NoProps)))
    /\ path' = IF last'.ret < 0 THEN path ELSE Append(path, name)
    /\ UNCHANGED legal
EndNode ==
    /\ Sw /\ legal
    /\ Call("end", fdt_end_node(b), SwDue(1), want)
    /\ path' = IF last'.ret < 0 \/ path = << >> THEN path ELSE Front(path)
    /\ legal' = (legal /\ (last'.ret = 0 => path # << >>))
Property(name, val) ==
    LET new == IF sw_flags(b) = NO_NAME_DEDUP \/ name \notin Strings(b) THEN 1 ELSE 0 IN
    /\ Sw /\ path # << >>
    /\ name \notin DOMAIN want.tree[path]
    /\ \A p \in DOMAIN want.tree : IsPrefix(path, p) => p = path
    /\ Call("property", fdt_property(b, name, val), SwDue(3 + Len(val) + new), Tree(SetProp(want.tree, path, name, val)))
    /\ UNCHANGED << path, legal >>
Finish ==
    /\ stage = "sw" /\ calls <= SwCalls
    /\ Returns("finish", fdt_finish(b), SwDue(1), want)
    /\ stage' = IF last'.ret < 0 THEN "sw" ELSE "rw"
    /\ legal' = (legal /\ (last'.ret = 0 => path = << >>))
    /\ calls' = IF last'.ret < 0 THEN calls + 1 ELSE 1   \* one edit fewer than a tree of Finished
    /\ UNCHANGED path
-----------------------------------------------------------------------------
(* Editing it.                                                              *)

Rest == stage = "rw" /\ legal /\ calls < RwCalls /\ UNCHANGED << path, legal >>
Edit == Rest /\ UNCHANGED stage
Off(p) == At(p, Nodes(b)).off
Room == b.totalsize - b.off_dt_strings - b.size_dt_strings
\* An edit also needs the layout of a version 17 tree.
Misordered == b.off_dt_strings < b.off_dt_struct
RwDue(need) == IF b.version < 17 THEN -FDT_ERR.BADVERSION
               ELSE IF Misordered THEN -FDT_ERR.BADLAYOUT ELSE Due(Room, need)
Or(due, missing) == IF missing /\ due \in {0, -FDT_ERR.NOSPACE} THEN -FDT_ERR.NOTFOUND ELSE due
Has(p, name) == name \in DOMAIN want.tree[p]
Old(p, name) == IF Has(p, name) THEN want.tree[p][name] ELSE << >>
\* The words that a value needs: those it grows by, or a property and maybe a string.
Need(p, name, n) == IF Has(p, name) THEN n - Len(want.tree[p][name])
                    ELSE 3 + n + (IF name \in Strings(b) THEN 0 ELSE 1)
Paths == DOMAIN want.tree
SubPaths == Paths \ {<< ROOT >>}

SetProperty(p, name, val) ==
    Edit /\ Call("setprop", fdt_setprop(b, Off(p), name, val), RwDue(Need(p, name, Len(val))),
                 Tree(SetProp(want.tree, p, name, val)))
AppendProperty(p, name, val) ==
    LET all == Old(p, name) \o val IN
    Edit /\ Call("appendprop", fdt_appendprop(b, Off(p), name, val), RwDue(Need(p, name, Len(all))),
                 Tree(SetProp(want.tree, p, name, all)))
DeleteProperty(p, name) ==
    Edit /\ Call("delprop", fdt_delprop(b, Off(p), name), Or(RwDue(0), ~Has(p, name)),
                 Tree(DelProp(want.tree, p, name)))
\* A change in place, and the two that leave NOPs, need no room and no layout.
SetInPlace(p, name, val) ==
    Edit /\ Call("setprop_inplace", fdt_setprop_inplace(b, Off(p), name, val),
                 IF ~Has(p, name) THEN -FDT_ERR.NOTFOUND
                 ELSE IF Len(Old(p, name)) # Len(val) THEN -FDT_ERR.NOSPACE ELSE 0,
                 Tree(SetProp(want.tree, p, name, val)))
NopProperty(p, name) ==
    Edit /\ Call("nop_property", fdt_nop_property(b, Off(p), name), IF Has(p, name) THEN 0 ELSE -FDT_ERR.NOTFOUND,
                 Tree(DelProp(want.tree, p, name)))
NopNode(p) == Edit /\ Call("nop_node", fdt_nop_node(b, Off(p)), 0, Tree(DelNode(want.tree, p)))
\* A node that the new one's name also stands for counts as there.
Taken(p, name) == \E q \in Children(want.tree, p) : StandsFor(name, Last(q))
AddSubnode(p, name) ==
    Edit /\ Call("add_subnode", fdt_add_subnode(b, Off(p), name),
                 IF RwDue(3) \in {0, -FDT_ERR.NOSPACE} /\ Taken(p, name) THEN -FDT_ERR.EXISTS ELSE RwDue(3),
                 Tree(AddNode(want.tree, p, name)))
DeleteNode(p) == Edit /\ Call("del_node", fdt_del_node(b, Off(p)), RwDue(0), Tree(DelNode(want.tree, p)))
SetName(p, name) ==
    /\ ~Taken(Front(p), name)
    /\ Edit /\ Call("set_name", fdt_set_name(b, Off(p), name), RwDue(0), Tree(Rename(want.tree, p, name)))
AddReserve(addr, size) ==
    Edit /\ Call("add_mem_rsv", fdt_add_mem_rsv(b, addr, size), RwDue(RSV_ENTRY),
                 [want EXCEPT !.rsv = Append(@, << addr, size >>)])
DeleteReserve(n) ==
    Edit /\ Call("del_mem_rsv", fdt_del_mem_rsv(b, n), Or(RwDue(0), n >= Len(want.rsv)),
                 [want EXCEPT !.rsv = IF n < Len(@) THEN RemoveAt(@, n + 1) ELSE @])
\* A range of one-cell or two-cell numbers, as the parent says; address and size must fit
\* into their cells (libfdt.h:1932).  Of one-cell addresses 0 has empty ranges only, and no
\* range is refused for an end that does not fit.
FitsCells(ac, sc, addr, size) == /\ ac = 1 => addr <= UINT32 /\ (addr = 0 => size = 0)
                                 /\ sc = 1 => size <= UINT32
AppendRange(p, name, addr, size) ==
    LET Cell(n, dflt) == IF Has(Front(p), n) THEN Old(Front(p), n)[1] ELSE dflt
        ac == Cell(AddressCells, 2)
        sc == Cell(SizeCells, 1)
        all == Old(p, name) \o Cells(ac, addr) \o Cells(sc, size)
    IN  Edit /\ Call("appendprop_addrrange", fdt_appendprop_addrrange(b, Off(Front(p)), Off(p), name, addr, size),
                     IF FitsCells(ac, sc, addr, size) THEN RwDue(Need(p, name, Len(all))) ELSE -FDT_ERR.BADVALUE,
                     Tree(SetProp(want.tree, p, name, all)))
\* The conversion in place needs room for both trees when it must reorder them.
OpenInto(size, same) ==
    LET used == 10 + (Len(want.rsv) + 1) * RSV_ENTRY + b.size_dt_strings
                + (IF b.version < 17 THEN StructSize(b, 0) ELSE b.size_dt_struct)
    IN  /\ Edit /\ (same => size >= b.totalsize)
        /\ Call("open_into", fdt_open_into(b, size, same),
                Due(size, IF Misordered THEN (IF same THEN b.totalsize ELSE 0) + used ELSE b.totalsize), want)
Pack == Edit /\ Call("pack", fdt_pack(b), RwDue(0), want)

\* What an overlay needs and can meet; when it cannot be merged, or there is no room,
\* neither tree may be used again.
Meets(t, f) == /\ << ROOT, Symbols >> \in DOMAIN t /\ f.label \in DOMAIN t[<< ROOT, Symbols >>]
               /\ SymbolIn(t, f.label) \in DOMAIN t /\ PhandleOf(t, SymbolIn(t, f.label)) # 0
Fits(t, ov) == /\ \A f \in OpenRefs(ov) : Meets(t, f)
               /\ \A p \in Merged(ov) : TargetOf(t, ov, SubSeq(p, 1, 2)) \in DOMAIN t
\* A name without its unit address is only used where one sibling answers to it.
Unambiguous == \A p, q \in SubPaths :
                  Front(p) = Front(q) /\ Last(p) \div 10 = Last(q) \div 10 => p = q
OverlayReturns(r, fits, new) ==
    /\ Call("overlay_apply", r, IF ~fits THEN IF r.ret < 0 THEN r.ret ELSE -FDT_ERR.BADOVERLAY
                                ELSE IF r.ret = -FDT_ERR.NOSPACE THEN r.ret ELSE 0, new)
    /\ stage' = IF last'.ret < 0 THEN "gone" ELSE "rw"
Merge(o, ov) == OverlayReturns(fdt_overlay_apply(b, o), Fits(want.tree, ov),
                               IF Fits(want.tree, ov) THEN Tree(Apply(want.tree, ov)) ELSE want)
ApplyOverlay(o) ==
    /\ Rest /\ ~Misordered /\ b.version = 17 /\ << ROOT >> \in Paths /\ Unambiguous
    /\ Merge(o, TreeOf(o))
Writing == Sw /\ \/ \E size \in Sizes : Resize(size)
                 \/ Reserve(5, 6) \/ FinishReserve
                 \/ \E n \in NewNames \cup {ROOT} : BeginNode(n)
                 \/ EndNode
                 \/ \E n \in PropNames, v \in Vals : Property(n, v)
Editing == /\ stage = "rw"
           /\ \/ \E p \in Paths, n \in PropNames, v \in Vals :
                    SetProperty(p, n, v) \/ AppendProperty(p, n, v) \/ SetInPlace(p, n, v)
              \/ \E p \in Paths, n \in PropNames : DeleteProperty(p, n) \/ NopProperty(p, n)
              \/ \E p \in Paths, n \in NewNames : AddSubnode(p, n)
              \/ \E p \in SubPaths, n \in NewNames : SetName(p, n)
              \/ \E p \in SubPaths : DeleteNode(p) \/ NopNode(p)
              \/ AddReserve(7, 8)
              \/ \E n \in 0 .. 1 : DeleteReserve(n)
              \/ \E p \in SubPaths, n \in PropNames, r \in Ranges : AppendRange(p, n, r[1], r[2])
              \/ \E size \in Sizes, same \in BOOLEAN : OpenInto(size, same)
              \/ Pack
              \/ \E o \in Overlays : ApplyOverlay(o)
Next == (\E size \in Sizes, f \in {0, NO_NAME_DEDUP} : Create(size, f)) \/ Writing \/ Finish \/ Editing
Spec == Init /\ [][Next]_vars
-----------------------------------------------------------------------------
(* Properties.                                                              *)

\* fdt_check_full accepts exactly the finished trees whose nodes were begun and ended
\* in nesting, after any edits; fdt_finish itself accepts both.
NestingFound == fdt_check_full(b, b.totalsize) = 0 <=> legal

\* A blob that fdt_ro_probe_ accepts holds the nodes, properties and reserved ranges the
\* calls that succeeded asked for, each node once: no call that fails leaves a trace, no
\* move of a block loses or mixes words, and an overlay merged by halves is not accepted.
Implements == stage # "none" /\ legal /\ fdt_ro_probe_(b) >= 0 =>
                 /\ TreeOf(b) = want.tree /\ RsvOf(b) = want.rsv
                 /\ Cardinality(Nodes(b)) = Cardinality(DOMAIN want.tree)

\* A call returns what the tree, the layout and the room left in the buffer call for:
\* it runs out of room only when there is none, and never goes past it.
Answers == last.ret = last.due /\ fdt_strerror(last.ret) # "<unknown error>"

\* What libfdt reads of a node is what the tree says of it: its path and its offset name
\* each other, its parent, depth and children are right, and so are its values.
OneNamed(p) == \A i \in 2 .. Len(p) : \A q \in Children(want.tree, SubSeq(p, 1, i - 1)) :
                  q[i] \div 10 = p[i] \div 10 => q[i] = p[i]
PathReads(p, off, plain) ==
    /\ fdt_get_path(b, off, 2 * Len(p)).path = plain
    /\ fdt_get_path(b, off, 2 * Len(p) - 2).ret = -FDT_ERR.NOSPACE
    /\ OneNamed(p) => fdt_path_offset(b, plain) = off
    /\ fdt_node_depth(b, off) = Len(p) - 1
    /\ fdt_parent_offset(b, off) = IF Len(p) = 1 THEN -FDT_ERR.NOTFOUND ELSE Off(Front(p))
    /\ Range(Subnodes(b, off)) = {Off(q) : q \in Children(want.tree, p)}
ValueReads(p, off, name, v) ==
    IF Has(p, name) THEN /\ v.ptr # NULL /\ Value(b, v) = Old(p, name)
                         /\ fdt_node_offset_by_prop_value(b, off - 1, name, Old(p, name)) <= off
    ELSE v = NoPtr(-FDT_ERR.NOTFOUND)
PhandleReads(p, phandle) ==
    /\ phandle = PhandleOf(want.tree, p)
    /\ phandle # 0 => fdt_get_phandle(b, fdt_node_offset_by_phandle(b, phandle)) = phandle
    /\ fdt_generate_phandle(b).phandle > phandle /\ fdt_get_max_phandle(b) >= phandle
RsvReads(i, r) == << r.address, r.size >> = want.rsv[i]
TreeReads == /\ fdt_num_mem_rsv(b) = Len(want.rsv)
             /\ \A i \in DOMAIN want.rsv : RsvReads(i, fdt_get_mem_rsv(b, i - 1))
             /\ fdt_get_mem_rsv(b, b.totalsize).ret = -FDT_ERR.BADOFFSET

\* The lists of strings in a value: counting, finding and getting agree, and a list whose
\* last string does not end is refused by all of them.
FirstEqual(strings, i, at) == at \in 0 .. i - 1 /\ strings[at + 1] = strings[i]
StringReads(off, strings, i, s) ==
    /\ fdt_stringlist_get(b, off, Compatible, i - 1).ptr = s
    /\ Len(s) = 1 => /\ FirstEqual(strings, i, fdt_stringlist_search(b, off, Compatible, s[1]))
                     /\ fdt_node_check_compatible(b, off, s[1]) = 0
                     /\ fdt_node_offset_by_compatible(b, -1, s[1]) \in 0 .. off
ListReads(off, strings) ==
    /\ fdt_stringlist_count(b, off, Compatible) = IF OpenEnded(strings) THEN -FDT_ERR.BADVALUE ELSE Len(strings)
    /\ OpenEnded(strings) \/ \A i \in DOMAIN strings : StringReads(off, strings, i, strings[i])
    /\ fdt_stringlist_get(b, off, Compatible, Len(strings)).len < 0
NodeReads(p, off) ==
    /\ PathReads(p, off, << SLASH >> \o Tail(p))
    /\ \A name \in PropNames \cup DOMAIN want.tree[p] : ValueReads(p, off, name, fdt_getprop(b, off, name))
    /\ PhandleReads(p, fdt_get_phandle(b, off))
    /\ Has(p, Compatible) => ListReads(off, StringsOf(Old(p, Compatible), << >>))
\* All functions that read a tree agree with each other and with the tree, and the check of
\* a whole blob with how it was built.
ReadsAgree == stage = "rw" => /\ NestingFound
                              /\ legal => TreeReads /\ \A p \in Paths : NodeReads(p, Off(p))

\* Phandles stay unique when an overlay is merged, unless it gives one to a node of the
\* base, and every reference the overlay makes leads to the node it was made to.
Unique(t) == \A p, q \in DOMAIN t : PhandleOf(t, p) = PhandleOf(t, q) /\ PhandleOf(t, p) # 0 => p = q
PhandlesStayUnique ==
    [][ last'.op = "overlay_apply" /\ calls' # calls /\ stage' = "rw" /\ Unique(want.tree)
        => Unique(TreeOf(b')) ]_vars
=============================================================================
