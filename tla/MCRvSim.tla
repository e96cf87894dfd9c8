------------------------------ MODULE MCRvSim ------------------------------
(* The programs: a prelude that reads registers from the device, then two   *)
(* instructions, every one followed by every one.                           *)
EXTENDS RvSim

Ins(op, fn, rd, rs1, rs2, imm) ==
  [op |-> op, fn |-> fn, rd |-> rd, rs1 |-> rs1, rs2 |-> rs2, imm |-> imm]

\* x1 is the device, x2 and x3 are read from it; or x1 is the memory, x2 read.
Preludes == {<<Ins("LUI", "-", 1, 0, 0, 2 * DataBase), Ins("LOAD", "-", 2, 1, 0, 0),
               Ins("LOAD", "-", 3, 1, 0, 0)>>,
             <<Ins("LUI", "-", 1, 0, 0, 2 * DataBase), Ins("LOAD", "-", 2, 1, 0, 0),
               Ins("LUI", "-", 1, 0, 0, DataBase)>>}

Instructions ==
  {Ins("OP", fn, 3, 2, 3, 0) : fn \in Arithmetic}
  \cup {Ins("OP", "add", 0, 2, 3, 0), Ins("OP", "or", 3, 0, 2, 0)}
  \cup {Ins("OPIMM", fn, 3, 2, 0, imm) : fn \in Arithmetic \ {"sub"}, imm \in {-3, 9}}
  \cup {Ins("AUIPC", "-", 3, 0, 0, 64), Ins("OTHER", "-", 1, 1, 1, 1)}
  \cup {Ins("LOAD", "-", rd, 1, 0, imm) : rd \in {0, 3}, imm \in {0, 4}}
  \cup {Ins("LOAD", "-", 3, 1, 0, imm) : imm \in {-1, 1, 5, 7}}
  \cup {Ins("STORE", "-", 0, 1, 2, imm) : imm \in {-1, 0, 3, 4, 6, 7}}
  \cup {Ins("BRANCH", fn, 0, 2, 3, imm) : fn \in {"beq", "bne", "blt", "bge"}, imm \in {-4, 8}}
  \cup {Ins("JAL", "-", 3, 0, 0, -8), Ins("JAL", "-", 0, 0, 0, 8),
        Ins("JALR", "-", 2, 2, 0, 5), Ins("JALR", "-", 0, 2, 0, -1)}

MCPrograms == {p \o <<i1, i2>> : p \in Preludes, i1 \in Instructions, i2 \in Instructions}

\* Programs with the branches that instruction.md lists and the switch leaves out.
MCUnsigned == {p \o <<Ins("BRANCH", fn, 0, 2, 3, 8)>> : p \in Preludes, fn \in {"bltu", "bgeu"}}

MCData == {<<>>, <<1, 2, 3, 0, 3, 2>>}
MCInputs == {5, 127, 254}
=============================================================================
