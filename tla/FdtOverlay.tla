----------------------------- MODULE FdtOverlay -----------------------------
(***************************************************************************)
(* fdt_overlay.c: an overlay merged into a base tree.  First the overlay   *)
(* is changed in place (its phandles move past those of the base, its      *)
(* references follow, its open references get the phandles of the base's   *)
(* symbols), then its nodes are copied into the base, which grows as it    *)
(* goes, then its symbols.  A step that fails leaves both half done.       *)
(***************************************************************************)
EXTENDS FdtRw

\* The properties and the steps of a loop that ends at the first error.
PropsOf(b, node) == Front(Props(b, node))
Each(s, seq, Op(_, _)) == FoldLeft(LAMBDA acc, x : IF acc.ret < 0 THEN acc ELSE Op(acc.b, x), s, seq)

TargetPhandleIn(o, p) == IF p.ptr = NULL THEN 0 ELSE IF p.len # 1 THEN UINT32 ELSE Word(o, p.ptr)
overlay_get_target_phandle(o, fragment) == TargetPhandleIn(o, fdt_getprop(o, fragment, Target))
\* [ret, path]: the target, and the path that named it when one did.
ByPathIn(b, o, p) ==
    IF p.ptr = NULL THEN [ret |-> IF p.len = -FDT_ERR.NOTFOUND THEN -FDT_ERR.BADOVERLAY ELSE p.len, path |-> << >>]
    ELSE [ret |-> fdt_path_offset(b, Value(o, p)), path |-> Value(o, p)]
TargetBy(b, o, fragment, phandle) ==
    CASE phandle = UINT32 -> [ret |-> -FDT_ERR.BADPHANDLE, path |-> << >>]
      [] phandle = 0 -> ByPathIn(b, o, fdt_getprop(o, fragment, TargetPath))
      [] OTHER -> [ret |-> fdt_node_offset_by_phandle(b, phandle), path |-> << >>]
overlay_get_target(b, o, fragment) == TargetBy(b, o, fragment, overlay_get_target_phandle(o, fragment))
AddTo(o, p, delta) ==
    IF p.ptr = NULL THEN [ret |-> p.len, b |-> o]
    ELSE IF p.len # 1 THEN Fail(o, FDT_ERR.BADPHANDLE)
    ELSE IF Word(o, p.ptr) + delta >= UINT32 THEN Fail(o, FDT_ERR.NOPHANDLES)
    ELSE OverwriteAt(o, p, << Word(o, p.ptr) + delta >>)
overlay_phandle_add_offset(o, node, name, delta) == AddTo(o, fdt_getprop(o, node, name), delta)
IfThere(r) == IF r.ret = -FDT_ERR.NOTFOUND THEN Done(r.b) ELSE r
OwnPhandles(o, node, delta) ==
    Each(Done(o), << Phandle, LinuxPhandle >>, LAMBDA c, name : IfThere(overlay_phandle_add_offset(c, node, name, delta)))
MutAdjust(o, node, delta) ==
    Each(Done(o), Subnodes(o, node), LAMBDA c, child : IfThere(overlay_phandle_add_offset(c, child, Phandle, delta)))
RECURSIVE overlay_adjust_node_phandles(_, _, _)
overlay_adjust_node_phandles(o, node, delta) ==
    Each(OwnPhandles(o, node, delta), Subnodes(o, node),
         LAMBDA c, child : overlay_adjust_node_phandles(c, child, delta))
\* The cell at place in a value, whose bounds only the write checks.
OrBadOverlay(err) == IF err = -FDT_ERR.NOTFOUND THEN -FDT_ERR.BADOVERLAY ELSE err
NoSpaceIsBad(r) == IF r.ret = -FDT_ERR.NOSPACE THEN Fail(r.b, FDT_ERR.BADOVERLAY) ELSE r
CellIn(o, p, place) == IF place < p.len THEN Word(o, p.ptr + place) ELSE JUNK
AddToCell(o, p, place, delta) ==
    NoSpaceIsBad(PatchAt(o, p, place, << (CellIn(o, p, place) + delta) % (UINT32 + 1) >>))
AddToCells(o, p, places, delta) ==
    Known(o, OrBadOverlay(p.len), Each(Done(o), places, LAMBDA c, place : AddToCell(c, p, place, delta)))
\* The property of the tree that a property of __local_fixups__ names, whose values are places.
LocalFixup(o, tree, f, delta) ==
    Known(o, f.len, AddToCells(o, fdt_getprop(o, tree, f.name), Value(o, f), delta))
RECURSIVE overlay_update_local_node_references(_, _, _, _)
LocalFixupsBelow(o, child, fixup, delta) ==
    Known(o, OrBadOverlay(child), overlay_update_local_node_references(o, child, fixup, delta))
LocalFixups_(o, tree, fixup, delta) ==
    Each(Done(o), PropsOf(o, fixup), LAMBDA c, fp : LocalFixup(c, tree, fdt_getprop_by_offset(c, fp), delta))
overlay_update_local_node_references(o, tree, fixup, delta) ==
    Each(LocalFixups_(o, tree, fixup, delta), Subnodes(o, fixup), LAMBDA c, sub :
         LocalFixupsBelow(c, fdt_subnode_offset(c, tree, fdt_get_name(c, sub).ptr), sub, delta))
\* A part that an overlay may lack.
Optional(o, node, result) == IF node = -FDT_ERR.NOTFOUND THEN Done(o) ELSE Known(o, node, result)
LocalReferences(o, fixups, delta) == Optional(o, fixups, overlay_update_local_node_references(o, 0, fixups, delta))
overlay_update_local_references(o, delta) == LocalReferences(o, fdt_path_offset(o, << SLASH, LocalFixups >>), delta)

SetCell(o, at, name, place, phandle) ==
    IF phandle = 0 THEN Fail(o, FDT_ERR.NOTFOUND)
    ELSE Known(o, OrBadOverlay(at), fdt_setprop_inplace_partial(o, at, name, place, << phandle >>))
FixupTo(b, o, node, path, name, place) ==
    Known(o, node, SetCell(o, fdt_path_offset(o, path), name, place, fdt_get_phandle(b, node)))
FixupBy(b, o, p, path, name, place) ==
    Known(o, p.len, FixupTo(b, o, fdt_path_offset(b, Value(b, p)), path, name, place))
overlay_fixup_one_phandle(b, o, symbols, path, name, place, label) ==
    Known(o, symbols, FixupBy(b, o, fdt_getprop(b, symbols, label), path, name, place))
\* One entry, path COLON name COLON place, for each NUL of the value.
RECURSIVE FixupEntries(_, _, _, _, _)
FixupRest(b, r, symbols, label, rest) ==
    IF r.ret < 0 \/ rest = << >> THEN r ELSE FixupEntries(b, r.b, symbols, label, rest)
FixupEntry(b, o, symbols, label, entry, sep, rest) ==
    IF sep = 0 \/ Len(entry) # sep + 3 \/ entry[sep + 2] # COLON THEN Fail(o, FDT_ERR.BADOVERLAY)
    ELSE FixupRest(b, overlay_fixup_one_phandle(b, o, symbols, SubSeq(entry, 1, sep - 1), entry[sep + 1],
                                                entry[sep + 3], label), symbols, label, rest)
IndexOf(list, word) == SelectInSeq(list, LAMBDA w : w = word)
FixupEntriesTo(b, o, symbols, label, list, end) ==
    IF end = 0 THEN Fail(o, FDT_ERR.BADOVERLAY)
    ELSE FixupEntry(b, o, symbols, label, SubSeq(list, 1, end - 1), IndexOf(SubSeq(list, 1, end - 1), COLON),
                    SubSeq(list, end + 1, Len(list)))
FixupEntries(b, o, symbols, label, list) == FixupEntriesTo(b, o, symbols, label, list, IndexOf(list, NUL))
\* What is listed must be there.
OrInternal(ret) == IF ret = -FDT_ERR.NOTFOUND THEN -FDT_ERR.INTERNAL ELSE ret
FixupsOf(b, o, symbols, f) ==
    IF f.ptr = NULL THEN [ret |-> OrInternal(f.len), b |-> o]
    ELSE FixupEntries(b, o, symbols, f.name, Value(o, f))
overlay_fixup_phandle(b, o, symbols, prop) == FixupsOf(b, o, symbols, fdt_getprop_by_offset(o, prop))
FixupPhandles(b, o, fixups, symbols) ==
    IF symbols < 0 /\ symbols # -FDT_ERR.NOTFOUND THEN [ret |-> symbols, b |-> o]
    ELSE Each(Done(o), PropsOf(o, fixups), LAMBDA c, prop : overlay_fixup_phandle(b, c, symbols, prop))
FixupPhandlesAt(b, o, fixups) ==
    Optional(o, fixups, FixupPhandles(b, o, fixups, fdt_path_offset(b, << SLASH, Symbols >>)))
overlay_fixup_phandles(b, o) == FixupPhandlesAt(b, o, fdt_path_offset(o, << SLASH, Fixups >>))

CopyProp(b, target, o, p) ==
    IF p.len < 0 THEN [ret |-> OrInternal(p.len), b |-> b]
    ELSE fdt_setprop(b, target, p.name, Value(o, p))
CopyProps(b, target, o, node) ==
    Each(Done(b), PropsOf(o, node), LAMBDA c, prop : CopyProp(c, target, o, fdt_getprop_by_offset(o, prop)))
RECURSIVE overlay_apply_node(_, _, _, _)
\* The node that was added, or the one that was there.
CopyNode(b, at, o, node) == Known(b, at, overlay_apply_node(b, at, o, node))
CopyNodeTo(new, target, name, o, node) ==
    CopyNode(new.b, IF new.ret = -FDT_ERR.EXISTS THEN OrInternal(fdt_subnode_offset(new.b, target, name))
                    ELSE new.ret, o, node)
CopyNamed(b, target, name, o, node) == CopyNodeTo(fdt_add_subnode(b, target, name), target, name, o, node)
overlay_apply_node(b, target, o, node) ==
    Each(CopyProps(b, target, o, node), Subnodes(o, node),
         LAMBDA c, sub : CopyNamed(c, target, fdt_get_name(o, sub).ptr, o, sub))
MergeTo(b, target, o, overlay) == Known(b, target, overlay_apply_node(b, target, o, overlay))
OneFragment(b, o, fragment, overlay) ==
    Optional(b, overlay, MergeTo(b, overlay_get_target(b, o, fragment).ret, o, overlay))
overlay_merge(b, o) == Each(Done(b), Subnodes(o, 0),
    LAMBDA c, fragment : OneFragment(c, o, fragment, fdt_subnode_offset(o, fragment, Overlay)))
\* The length of a node's path, the root's counting 1.
RECURSIVE PathLen(_, _)
OneMore(n) == IF n < 0 THEN n ELSE n + 1
PathLenTo(b, parent) == IF parent < 0 THEN parent ELSE OneMore(PathLen(b, parent))
PathLenFrom(b, node, len) == IF len <= 0 THEN len ELSE PathLenTo(b, fdt_parent_offset(b, node))
PathLen(b, node) == PathLenFrom(b, node, fdt_get_name(b, node).len)
get_path_len(b, node) == OneMore(PathLen(b, node))

\* One symbol of the overlay, /fragment/__overlay__/rel, moved to the base: the room
\* is made first, and the target looked for again, for making room moves it.
FillSymbol(r, rootSym, label, path, len, rel, again) == Then(r,
    fdt_setprop_inplace(r.b, rootSym, label,
        (IF path # << >> THEN path ELSE fdt_get_path(r.b, again, 2 * len).path) \o rel))
FillAgain(r, o, rootSym, label, fragment, path, len, rel) ==
    FillSymbol(r, rootSym, label, path, len, rel, overlay_get_target(r.b, o, fragment).ret)
\* a path that ends at the overlay node keeps its last slash
Tail_(len, rel) == IF rel = << >> /\ len > 1 THEN << SLASH >> ELSE rel
PlaceSymbol(b, o, rootSym, label, fragment, path, len, rel) == Known(b, len,
    FillAgain(fdt_setprop(b, rootSym, label, [i \in 1 .. len + Len(rel) |-> JUNK]),
              o, rootSym, label, fragment, path, len, rel))
SymbolAt(b, o, rootSym, label, fragment, path, len, rel) ==
    PlaceSymbol(b, o, rootSym, label, fragment, path, len, Tail_(len, rel))
SymbolTo(b, o, rootSym, label, fragment, target, rel) == Known(b, target.ret,
    SymbolAt(b, o, rootSym, label, fragment, target.path,
             IF target.path # << >> THEN Len(target.path) ELSE get_path_len(b, target.ret), rel))
SymbolIn_(b, o, rootSym, label, fragment, rel) ==
    IF fragment < 0 \/ fdt_subnode_offset(o, fragment, Overlay) < 0 THEN Fail(b, FDT_ERR.BADOVERLAY)
    ELSE SymbolTo(b, o, rootSym, label, fragment, overlay_get_target(b, o, fragment), rel)
MoveSymbol(b, o, rootSym, label, path) ==
    IF path = << >> \/ Last(path) = UNTERMINATED \/ path[1] # SLASH THEN Fail(b, FDT_ERR.BADVALUE)
    ELSE IF Len(path) < 3 \/ path[3] # Overlay THEN Done(b)
    ELSE SymbolIn_(b, o, rootSym, label, fdt_subnode_offset(o, 0, path[2]), SubSeq(path, 4, Len(path)))
OneSymbol(b, o, rootSym, p) == Known(b, p.len, MoveSymbol(b, o, rootSym, p.name, Value(o, p)))
MoveSymbols(r, o, ovSym) == Then(r, Each(Done(r.b), PropsOf(o, ovSym),
    LAMBDA c, prop : OneSymbol(c, o, r.ret, fdt_getprop_by_offset(o, prop))))
OrAdded(b, root) == IF root = -FDT_ERR.NOTFOUND THEN fdt_add_subnode(b, 0, Symbols) ELSE [ret |-> root, b |-> b]
SymbolUpdate(b, o, ovSym) ==
    IF ovSym < 0 THEN Done(b) ELSE MoveSymbols(OrAdded(b, fdt_subnode_offset(b, 0, Symbols)), o, ovSym)
overlay_symbol_update(b, o) == SymbolUpdate(b, o, fdt_subnode_offset(o, 0, Symbols))

\* [ret, b, o]: both blobs lose their magic when a step fails, the overlay always.
Disarm(c) == [c EXCEPT !.magic = "none"]
Applied(r, o) == [ret |-> r.ret, b |-> IF r.ret < 0 THEN Disarm(r.b) ELSE r.b, o |-> Disarm(o)]
ThenLocal(r, delta) == Then(r, overlay_update_local_references(r.b, delta))
ThenFixup(b, r) == Then(r, overlay_fixup_phandles(b, r.b))
ThenSymbols(r, o) == Then(r, overlay_symbol_update(r.b, o))
ApplyFixed(b, r) == IF r.ret < 0 THEN Applied([ret |-> r.ret, b |-> b], r.b)
                    ELSE Applied(ThenSymbols(overlay_merge(b, r.b), r.b), r.b)
ApplyFrom(b, o, max) ==
    IF max.ret < 0 THEN Applied([ret |-> max.ret, b |-> b], o)
    ELSE ApplyFixed(b, ThenFixup(b, ThenLocal(overlay_adjust_node_phandles(o, 0, max.phandle), max.phandle)))
fdt_overlay_apply(b, o) ==
    IF fdt_ro_probe_(b) < 0 THEN [ret |-> fdt_ro_probe_(b), b |-> b, o |-> o]
    ELSE IF fdt_ro_probe_(o) < 0 THEN [ret |-> fdt_ro_probe_(o), b |-> b, o |-> o]
    ELSE ApplyFrom(b, o, fdt_find_max_phandle(b))
=============================================================================
