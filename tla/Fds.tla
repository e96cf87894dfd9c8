-------------------------------- MODULE Fds --------------------------------
(***************************************************************************)
(* The proxied system calls of syscall.cc on file descriptors.  fds_t maps *)
(* a descriptor of the target to one of the host process; the kernel of    *)
(* the host is external, and so are the results it gives (success, or an   *)
(* errno).  Target descriptors number the table, which only grows.  Calls   *)
(* that change no descriptor are left out.                                 *)
(***************************************************************************)
EXTENDS Integers, FiniteSets

CONSTANTS MaxFd,       \* bound: target descriptors are below it
          HostFds,     \* the descriptors the kernel gives the host process
          MaxOpens     \* bound: how many files are opened

ASSUME FdsAssumption ==
  /\ MaxFd \in Nat \ {0, 1, 2}
  /\ HostFds \subseteq Nat \ {0, 1, 2} /\ IsFiniteSet(HostFds)
  /\ Cardinality(HostFds) > 2
  /\ MaxOpens \in Nat

VARIABLES fds,      \* fds_t: target descriptor -> host descriptor, or -1
          open,     \* kernel: host descriptor -> the file open there
          opens,    \* how many files were opened: their names
          \* History.
          dangling, \* entries of the table whose host descriptor was closed under them
          duped,    \* host descriptors that F_DUPFD made
          view      \* target descriptor -> the file that the target opened there

fdVars == <<fds, open, opens, dangling, duped, view>>

Fd == 0 .. MaxFd - 1
Own == {0, 1, 2}                     \* the host process's own stdin, stdout, stderr
File == 0 .. MaxOpens                \* 0: the terminal, which 0, 1 and 2 are

Update(f, x, v) == [y \in DOMAIN f \cup {x} |-> IF y = x THEN v ELSE f[y]]
Without(f, x) == [y \in DOMAIN f \ {x} |-> f[y]]

\* fds_t::lookup: beyond the table, -1, which the kernel refuses.
Lookup(f) == IF f \in DOMAIN fds THEN fds[f] ELSE -1
IsOpen(f) == Lookup(f) \in DOMAIN open

\* fds_t::alloc: the lowest free entry, or else a new one at the end.
IsFreeEntry(i) == Lookup(i) = -1

IsAlloc(i) == IsFreeEntry(i) /\ \A f \in 0 .. i - 1 : ~ IsFreeEntry(f)

\* The kernel gives the lowest free descriptor that is at least min.
IsFree(h, min) == /\ h \in HostFds \ DOMAIN open /\ h >= min
                  /\ \A g \in HostFds \ DOMAIN open : g >= min => h <= g

----------------------------------------------------------------------------
\* The constructor: three duplicates of the process's own descriptors.
FdsInit == \E h \in [{0, 1, 2} -> HostFds] :
             /\ h[0] < h[1] /\ h[1] < h[2]
             /\ \A g \in HostFds : g < h[2] => g \in {h[0], h[1]}
             /\ fds = h
             /\ open = [g \in Own \cup {h[0], h[1], h[2]} |-> 0]
             /\ opens = 0
             /\ dangling = {} /\ duped = {}
             /\ view = [f \in {0, 1, 2} |-> 0]

\* Mutant: openat returns the kernel's descriptor, without alloc().
MutOpen == /\ opens < MaxOpens
           /\ \E h \in HostFds :
                /\ IsFree(h, 0)
                /\ opens' = opens + 1
                /\ open' = Update(open, h, opens')
           /\ UNCHANGED <<fds, dangling, duped, view>>

\* sys_openat, whose result goes through alloc when the kernel gives one.
Open == /\ opens < MaxOpens
        /\ \E h \in HostFds, i \in Fd :
             /\ IsFree(h, 0) /\ IsAlloc(i)
             /\ opens' = opens + 1
             /\ open' = Update(open, h, opens')
             /\ fds' = Update(fds, i, h)
             /\ view' = Update(view, i, opens')
        /\ UNCHANGED <<dangling, duped>>

\* The entries that lead to the same descriptor of the host as f.
Sharing(f) == {g \in DOMAIN fds : fds[g] = fds[f]}

\* Mutants: dealloc() is forgotten, or given the descriptor of the host.
MutCloseKeeps(f) == /\ IsOpen(f)
                    /\ open' = Without(open, Lookup(f))
                    /\ view' = Without(view, f)
                    /\ dangling' = (dangling \cup Sharing(f)) \ {f}
                    /\ UNCHANGED <<fds, opens, duped>>
MutCloseHost(f) == /\ IsOpen(f)
                   /\ open' = Without(open, Lookup(f))
                   /\ fds' = [g \in DOMAIN fds |-> IF g = Lookup(f) THEN -1 ELSE fds[g]]
                   /\ view' = Without(view, f)
                   /\ dangling' = (dangling \cup Sharing(f)) \ {f}
                   /\ UNCHANGED <<opens, duped>>

\* sys_close.
Close(f) == /\ IsOpen(f)
            /\ open' = Without(open, Lookup(f))
            /\ fds' = [fds EXCEPT ![f] = -1]
            /\ view' = Without(view, f)
            /\ dangling' = (dangling \cup Sharing(f)) \ {f}
            /\ UNCHANGED <<opens, duped>>

\* close() of the host reports an error (EIO, EINTR) after it let go of the
\* descriptor: sys_close returns before it calls dealloc.
CloseLate(f) == /\ IsOpen(f)
                /\ open' = Without(open, Lookup(f))
                /\ dangling' = dangling \cup Sharing(f)
                /\ view' = Without(view, f)
                /\ UNCHANGED <<fds, opens, duped>>

\* sys_fcntl with F_DUPFD: the result is the kernel's, and does not go through
\* alloc.
Dup(f) == /\ IsOpen(f)
          /\ \E min \in Fd, h \in HostFds :
               /\ IsFree(h, min)
               /\ open' = Update(open, h, open[Lookup(f)])
               /\ duped' = duped \cup {h}
          /\ UNCHANGED <<fds, opens, dangling, view>>

\* A descriptor of the target is any register value: one beyond the table
\* stands for all those.
FdsCall == Open \/ \E f \in 0 .. MaxFd : Close(f) \/ CloseLate(f) \/ Dup(f)

FdsSpec == FdsInit /\ [][FdsCall]_fdVars

----------------------------------------------------------------------------
\* Every variable has its type; the table has no holes.
FdsTypeOK == /\ \E n \in 3 .. MaxFd : DOMAIN fds = 0 .. n - 1
             /\ \A f \in DOMAIN fds : fds[f] \in HostFds \cup {-1}
             /\ Own \subseteq DOMAIN open /\ DOMAIN open \subseteq Own \cup HostFds
             /\ \A h \in DOMAIN open : open[h] \in File
             /\ opens \in File
             /\ dangling \subseteq DOMAIN fds /\ duped \subseteq HostFds
             /\ DOMAIN view \subseteq DOMAIN fds

\* Two descriptors of the target lead to the same one of the host only if one is
\* left over from a close that failed late.
NoAlias == \A f, g \in DOMAIN fds :
             f # g /\ fds[f] = fds[g] /\ fds[f] # -1 => f \in dangling \/ g \in dangling

\* No descriptor of the host is lost: each that is open is the process's own, in
\* the table, or one that the target got from F_DUPFD.
NoLeak == \A h \in DOMAIN open :
            h \in Own \cup duped \/ \E f \in DOMAIN fds : fds[f] = h

\* A descriptor that the target opened and did not close is open at the host, with
\* the target's own file behind it, whatever is opened, closed and duplicated on
\* other descriptors.
RightFile == \A f \in DOMAIN view \ dangling :
               fds[f] \in DOMAIN open /\ open[fds[f]] = view[f]
=============================================================================
