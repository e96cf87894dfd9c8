----------------------------- MODULE DeviceTree -----------------------------
(***************************************************************************)
(* What a device tree is to those who use libfdt: nodes, each with its     *)
(* properties, and a list of reserved ranges.  A node is its path, the     *)
(* sequence of the names from the root (<< ROOT >>) to it; a tree maps the *)
(* path of each node to a function from its properties to their values.    *)
(* Read is what the words of a blob say, read without libfdt.              *)
(***************************************************************************)
EXTENDS FdtOverlay

NoProps == [n \in {} |-> << >>]
Leave(f, gone) == [x \in DOMAIN f \ gone |-> f[x]]
At(path, Seen) == CHOOSE n \in Seen : n.path = path

\* The nodes of the structure block from off on: their paths, offsets and properties,
\* the string table beginning at word strings.
RECURSIVE ReadNodes(_, _, _, _, _)
ReadNodes(b, strings, off, path, seen) ==
    LET w == b.mem[b.off_dt_struct + off]
        len == b.mem[b.off_dt_struct + off + 1]
        name == b.mem[strings + b.mem[b.off_dt_struct + off + 2]]
        val == [i \in 1 .. len |-> b.mem[b.off_dt_struct + off + 2 + i]]
        sub == Append(path, b.mem[b.off_dt_struct + off + 1])
    IN  IF (b.magic = "sw" /\ off >= b.size_dt_struct) \/ w = FDT_END THEN [path |-> path, nodes |-> seen]
        ELSE IF w = FDT_NOP THEN ReadNodes(b, strings, off + 1, path, seen)
        ELSE IF w = FDT_BEGIN_NODE
        THEN ReadNodes(b, strings, off + 2, sub, seen \cup {[path |-> sub, off |-> off, props |-> NoProps]})
        ELSE IF w = FDT_END_NODE THEN ReadNodes(b, strings, off + 1, Front(path), seen)
        ELSE LET n == CHOOSE m \in seen : m.path = path /\ \A o \in seen : o.path = path => o.off <= m.off
             IN  ReadNodes(b, strings, off + 3 + len, path,
                           (seen \ {n}) \cup {[n EXCEPT !.props = @ @@ (name :> val)]})
\* The nodes of a blob, finished or not, and the path of the node still open.
Read(b) == ReadNodes(b, IF b.magic = "sw" THEN b.totalsize ELSE b.off_dt_strings, 0, << >>, {})
Nodes(b) == Read(b).nodes
TreeOf(b) == [path \in {n.path : n \in Nodes(b)} |-> At(path, Nodes(b)).props]
RECURSIVE RsvFrom(_, _, _)
RsvFrom(b, at, end) == IF at >= end \/ b.mem[at + 3] = 0 THEN << >>
                       ELSE << << b.mem[at + 1], b.mem[at + 3] >> >> \o RsvFrom(b, at + RSV_ENTRY, end)
RsvOf(b) == RsvFrom(b, b.off_mem_rsvmap, IF b.magic = "sw" THEN b.off_dt_struct ELSE b.totalsize)

(* The operations.                                                          *)
SetProp(t, path, name, val) == [t EXCEPT ![path] = (name :> val) @@ @]
DelProp(t, path, name) == [t EXCEPT ![path] = Leave(@, {name})]
AddNode(t, path, name) == t @@ (Append(path, name) :> NoProps)
Below(t, path) == {p \in DOMAIN t : IsPrefix(path, p)}
DelNode(t, path) == Leave(t, Below(t, path))
Renamed(path, p, name) == [i \in DOMAIN p |-> IF i = Len(path) THEN name ELSE p[i]]
Rename(t, path, name) ==
    LET Old(q) == CHOOSE p \in DOMAIN t : (IF IsPrefix(path, p) THEN Renamed(path, p, name) ELSE p) = q
    IN  [q \in {IF IsPrefix(path, p) THEN Renamed(path, p, name) ELSE p : p \in DOMAIN t} |-> t[Old(q)]]

(* Overlays.                                                                *)
Children(t, path) == {p \in DOMAIN t : Len(p) = Len(path) + 1 /\ IsPrefix(path, p)}
PhandleOf(t, path) == IF Phandle \in DOMAIN t[path] THEN t[path][Phandle][1]
                      ELSE IF LinuxPhandle \in DOMAIN t[path] THEN t[path][LinuxPhandle][1] ELSE 0
MaxPhandle(t) == LET all == {PhandleOf(t, p) : p \in DOMAIN t} IN CHOOSE m \in all : \A n \in all : n <= m
WithPhandle(t, ph) == CHOOSE p \in DOMAIN t : PhandleOf(t, p) = ph
\* The node a path value names: a name may leave out the unit address.
StandsFor(short, name) == short = name \/ (short % 10 = 0 /\ name \div 10 = short \div 10)
PathIn(t, value) ==
    LET names == << ROOT >> \o SelectSeq(value, LAMBDA w : w # SLASH)
        hits == {p \in DOMAIN t : Len(p) = Len(names) /\ \A i \in DOMAIN p : StandsFor(names[i], p[i])}
    IN  IF hits = {} THEN names ELSE CHOOSE p \in hits : TRUE
SymbolIn(t, label) == PathIn(t, t[<< ROOT, Symbols >>][label])

\* The fixups of an overlay as records, and the cells that point to its own nodes.
FixupOf(ov, words, label) == LET colon == SelectInSeq(words, LAMBDA w : w = COLON)
                         IN  [path |-> PathIn(ov, SubSeq(words, 1, colon - 1)), name |-> words[colon + 1],
                              place |-> words[colon + 3], label |-> label]
OpenRefs(ov) == IF << ROOT, Fixups >> \notin DOMAIN ov THEN {}
                ELSE LET f == ov[<< ROOT, Fixups >>] IN {FixupOf(ov, f[label], label) : label \in DOMAIN f}
IsLocal(ov, path, name, place) ==
    LET twin == << ROOT, LocalFixups >> \o Tail(path)
    IN  twin \in DOMAIN ov /\ name \in DOMAIN ov[twin] /\ \E i \in DOMAIN ov[twin][name] : ov[twin][name][i] = place
\* The overlay's values when it meets the base t.
Resolved(t, ov, path, name) ==
    [i \in DOMAIN ov[path][name] |->
        LET open == {f \in OpenRefs(ov) : f.path = path /\ f.name = name /\ f.place = i - 1}
        IN  IF open # {} THEN PhandleOf(t, SymbolIn(t, (CHOOSE f \in open : TRUE).label))
            ELSE IF name \in {Phandle, LinuxPhandle} \/ IsLocal(ov, path, name, i - 1)
            THEN ov[path][name][i] + MaxPhandle(t) ELSE ov[path][name][i]]
TargetOf(t, ov, fragment) == IF Target \in DOMAIN ov[fragment]
                             THEN WithPhandle(t, Resolved(t, ov, fragment, Target)[1])
                             ELSE PathIn(t, ov[fragment][TargetPath])
\* Where a node of the overlay goes, for the nodes that go anywhere.
Merged(ov) == {p \in DOMAIN ov : Len(p) >= 3 /\ p[3] = Overlay}
Place(t, ov, p) == TargetOf(t, ov, SubSeq(p, 1, 2)) \o SubSeq(p, 4, Len(p))
\* The symbol of an overlay, moved to the base; a path that ends at the overlay node
\* keeps its last slash.
NewSymbol(t, ov, value) ==
    LET fragment == << ROOT, value[2] >>
        target == IF Target \in DOMAIN ov[fragment] THEN << SLASH >> \o Tail(TargetOf(t, ov, fragment))
                  ELSE ov[fragment][TargetPath]
        rel == SubSeq(value, 4, Len(value))
    IN  target \o (IF rel = << >> /\ Len(target) > 1 THEN << SLASH >> ELSE rel)
NewSymbols(t, ov) ==
    IF << ROOT, Symbols >> \notin DOMAIN ov THEN NoProps
    ELSE LET s == ov[<< ROOT, Symbols >>]
         IN  [label \in {l \in DOMAIN s : Len(s[l]) >= 3 /\ s[l][3] = Overlay} |-> NewSymbol(t, ov, s[label])]
Apply(t, ov) ==
    LET all == DOMAIN t \cup {Place(t, ov, p) : p \in Merged(ov)}
               \cup (IF << ROOT, Symbols >> \in DOMAIN ov THEN {<< ROOT, Symbols >>} ELSE {})
        From(q) == {p \in Merged(ov) : Place(t, ov, p) = q}
        Before(q) == IF q \in DOMAIN t THEN t[q] ELSE NoProps
        Given(q) == IF From(q) = {} THEN NoProps
                    ELSE LET p == CHOOSE p \in From(q) : TRUE
                         IN  [name \in DOMAIN ov[p] |-> Resolved(t, ov, p, name)]
    IN  [q \in all |-> (IF q = << ROOT, Symbols >> THEN NewSymbols(t, ov) ELSE NoProps) @@ Given(q) @@ Before(q)]
=============================================================================
