------------------------------- MODULE MCFdt -------------------------------
(* Small trees and overlays for FdtUse, written with fdt_sw.c.                *)
EXTENDS FdtUse

Step(r, c) == LET d == r.b IN Then(r,
    CASE c[1] = "node" -> fdt_begin_node(d, c[2])
      [] c[1] = "prop" -> fdt_property(d, c[2], c[3])
      [] c[1] = "rsv" -> fdt_add_reservemap_entry(d, c[2], c[3])
      [] c[1] = "tree" -> fdt_finish_reservemap(d)
      [] c[1] = "end" -> fdt_end_node(d))
Build(size, script) == fdt_finish(FoldLeft(Step, fdt_create(<< >>, size), script).b).b
Roomy(t, room) == fdt_open_into(t, t.totalsize + room, TRUE).b

\* Names: a, b, a@1; properties and labels.
A == 1100
B == 1110
A1 == 1101
C == 1120
F0 == 1130
P1 == 2100
P2 == 2110
Label == 2200
Label2 == 2210
Str == 3000

Base == Build(90, << << "rsv", 5, 6 >>, << "tree" >>, << "node", ROOT >>,
    << "prop", Compatible, << Str, Str + 10 >> >>,
    << "node", A >>, << "prop", Phandle, << 1 >> >>, << "prop", P1, << 5 >> >>, << "end" >>,
    << "node", Symbols >>, << "prop", Label, << SLASH, A >> >>, << "end" >>, << "end" >> >>)
Bus == Build(90, << << "tree" >>, << "node", ROOT >>,
    << "prop", AddressCells, << 1 >> >>, << "prop", SizeCells, << 1 >> >>,
    << "node", Aliases >>, << "prop", P1, << SLASH, B >> >>, << "end" >>,
    << "node", A1 >>, << "prop", Compatible, << Str, UNTERMINATED >> >>, << "prop", LinuxPhandle, << 2 >> >>, << "end" >>,
    << "node", B >>, << "prop", P1, << 5, 6 >> >>, << "end" >>, << "end" >> >>)
\* The same words as version 16 had them: strings first, and no size of the structure block.
StringsFirst(t) ==
    LET n == t.size_dt_strings
        m == t.size_dt_struct
    IN  [t EXCEPT !.version = 16, !.last = 16, !.off_dt_strings = t.off_dt_struct, !.off_dt_struct = t.off_dt_struct + n,
                  !.size_dt_struct = 0,
                  !.mem = Move(Move(@, t.off_dt_struct, t.mem, t.off_dt_strings, n), t.off_dt_struct + n, t.mem, t.off_dt_struct, m)]

\* A node c under a target path, with a phandle, a reference to it and a symbol.
ByPath == Build(120, << << "tree" >>, << "node", ROOT >>,
    << "node", F0 >>, << "prop", TargetPath, << SLASH, A >> >>,
      << "node", Overlay >>, << "prop", P1, << 9 >> >>,
        << "node", C >>, << "prop", Phandle, << 1 >> >>, << "prop", P2, << 1, 4 >> >>, << "end" >>, << "end" >>, << "end" >>,
    << "node", Symbols >>, << "prop", Label2, << SLASH, F0, Overlay, C >> >>, << "end" >>,
    << "node", LocalFixups >>, << "node", F0 >>, << "node", Overlay >>, << "node", C >>, << "prop", P2, << 0 >> >>,
      << "end" >>, << "end" >>, << "end" >>, << "end" >>, << "end" >> >>)
\* A target and a cell that name a symbol of the base.
BySymbol(label) == Build(120, << << "tree" >>, << "node", ROOT >>,
    << "node", F0 >>, << "prop", Target, << UINT32 >> >>,
      << "node", Overlay >>, << "prop", P2, << 3 >> >>, << "end" >>, << "end" >>,
    << "node", Fixups >>, << "prop", label, << SLASH, F0, COLON, Target, COLON, 0, NUL >> >>, << "end" >>,
    << "node", Symbols >>, << "prop", Label, << SLASH, F0, Overlay >> >>, << "end" >>, << "end" >> >>)

MCFinished == {Roomy(Base, 5), Roomy(Base, 60), Roomy(Bus, 12), StringsFirst(Bus)}
MCOverlays == {ByPath, BySymbol(Label), BySymbol(Label2)}
MCNewNames == {A, A1}
MCPropNames == {P1, P2}
\* Also at the edges of a cell: 0, the last address, and what needs another cell.
MCRanges == {<< 1, 1 >>, << 1, 2 >>, << 0, 0 >>, << 0, 1 >>, << UINT32, 1 >>, << UINT32, 2 >>, << UINT32 + 1, 1 >>,
             << 1, UINT32 + 1 >>}
MCVals == {<< >>, << 5, 6 >>}
=============================================================================
