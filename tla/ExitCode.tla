------------------------------ MODULE ExitCode ------------------------------
(***************************************************************************)
(* How the exit code of a program on the target becomes the exit status of *)
(* the host process: through an int that also says that the run is over.   *)
(* A program ends by a tohost with an odd payload (1 | code << 1), or by   *)
(* the system call exit(code).                                             *)
(***************************************************************************)
EXTENDS Integers

CONSTANTS RegBits,     \* width of reg_t
          PayloadBits, \* width of a command's payload
          IntBits,     \* width of int
          StatusBits   \* width of the status a process leaves to its parent

ASSUME ExitCodeAssumption ==
  /\ {RegBits, PayloadBits, IntBits, StatusBits} \subseteq Nat \ {0}
  /\ StatusBits < IntBits /\ IntBits <= PayloadBits /\ PayloadBits <= RegBits

VARIABLES code,       \* the target's exit code
          exitcode,   \* htif->exitcode: 0 while the run goes on
          exited      \* a history variable: the program has ended

evars == <<code, exitcode, exited>>

Unsigned(n) == 0 .. (2 ^ n) - 1

\* The conversion of a register to int.
ToInt(x) == LET y == x % (2 ^ IntBits)
            IN  IF y < 2 ^ (IntBits - 1) THEN y ELSE y - (2 ^ IntBits)

ExitInit == code = 0 /\ exitcode = 0 /\ exited = FALSE

\* Mutant: the exit code 0 leaves the cell at 0, which is no exit.
MutSysExit == /\ exitcode = 0
              /\ exited' = TRUE
              /\ \E c \in Unsigned(RegBits) :
                   /\ code' = c
                   /\ exitcode' = IF c = 0 THEN 0 ELSE ToInt(((2 * c) % (2 ^ RegBits)) + 1)

\* sys_exit: exitcode = code << 1 | 1.
SysExit == /\ exitcode = 0
           /\ exited' = TRUE
           /\ \E c \in Unsigned(RegBits) :
                /\ code' = c
                /\ exitcode' = ToInt(((2 * c) % (2 ^ RegBits)) + 1)

\* handle_syscall: an odd payload is the exit code, shifted by the target.
PassFail == /\ exitcode = 0
            /\ exited' = TRUE
            /\ \E p \in Unsigned(PayloadBits) :
                 /\ p % 2 = 1
                 /\ code' = p \div 2
                 /\ exitcode' = ToInt(p)

ExitNext == SysExit \/ PassFail

ExitSpec == ExitInit /\ [][ExitNext]_evars

\* exit_code(), which main() returns: the parent process sees its lowest bits.
exit_code == exitcode \div 2
Status == exit_code % (2 ^ StatusBits)

----------------------------------------------------------------------------
\* Whatever the code, 0 as well, a program that has ended ends run(), whose condition is
\* exitcode == 0; and the parent sees the lowest bits of the target's code, whatever bits
\* were lost on the way through the int, and whichever way the program ended (sys_exit,
\* handle_syscall, exit_code).
StatusKept == exited => exitcode # 0 /\ Status = code % (2 ^ StatusBits)
=============================================================================
