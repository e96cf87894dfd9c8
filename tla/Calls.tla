------------------------------- MODULE Calls -------------------------------
(***************************************************************************)
(* The proxied system calls that keep no state (syscall.cc), and the disk  *)
(* (device.cc): what a call asks of the host kernel, and what it returns   *)
(* and writes to target memory once the kernel has answered.  A result of  *)
(* the kernel is a record: ret, errno when ret is -1, and the data.        *)
(***************************************************************************)
EXTENDS TargetWords, Integers, FiniteSets

AT_FDCWD == -100        \* the same number on the target and on the host

\* sysret_errno(): errors of the kernel become negative results.
sysret_errno(r) == IF r.ret = -1 THEN - r.errno ELSE r.ret

Reply(ret, mem) == [ret |-> ret, mem |-> mem]

----------------------------------------------------------------------------
(* Transfers.  The table of descriptors is that of Fds; fds_t::lookup has  *)
(* been applied to the descriptor.                                         *)

\* sys_read, sys_pread: what was read, and no more, goes to the buffer.
sys_read(mem, pbuf, len, r) ==
    Reply(sysret_errno(r), IF r.ret > 0 THEN Put(mem, pbuf, SubSeq(r.data, 1, r.ret)) ELSE mem)

\* sys_write, sys_pwrite: the bytes that the kernel is given.
sys_write(mem, pbuf, len) == Bytes(mem, pbuf, len)

\* sys_lseek, sys_fcntl, sys_ftruncate.
PassThrough(mem, r) == Reply(sysret_errno(r), mem)

----------------------------------------------------------------------------
(* The stat family.  A structure for the target is the sequence of its     *)
(* fields, each <<name, size>>; the constructors fill it field by field.   *)

riscv_stat == << <<"dev", 8>>, <<"ino", 8>>, <<"mode", 4>>, <<"nlink", 4>>, <<"uid", 4>>, <<"gid", 4>>,
                 <<"rdev", 8>>, <<"__pad1", 8>>, <<"size", 8>>, <<"blksize", 4>>, <<"__pad2", 4>>,
                 <<"blocks", 8>>, <<"atime", 8>>, <<"__pad3", 8>>, <<"mtime", 8>>, <<"__pad4", 8>>,
                 <<"ctime", 8>>, <<"__pad5", 8>>, <<"__unused4", 4>>, <<"__unused5", 4>> >>
riscv_statx_timestamp(t) == << <<t \o "_sec", 8>>, <<t \o "_nsec", 4>>, <<t \o "_reserved", 4>> >>
riscv_statx == << <<"mask", 4>>, <<"blksize", 4>>, <<"attributes", 8>>, <<"nlink", 4>>, <<"uid", 4>>,
                  <<"gid", 4>>, <<"mode", 2>>, <<"__spare0", 2>>, <<"ino", 8>>, <<"size", 8>>,
                  <<"blocks", 8>>, <<"attributes_mask", 8>> >>
               \o riscv_statx_timestamp("atime") \o riscv_statx_timestamp("btime")
               \o riscv_statx_timestamp("ctime") \o riscv_statx_timestamp("mtime")
               \o << <<"rdev_major", 4>>, <<"rdev_minor", 4>>, <<"dev_major", 4>>, <<"dev_minor", 4>>,
                     <<"mnt_id", 8>>, <<"__spare2", 8>>, <<"__spare3", 96>> >>

\* Fields that no constructor gives a value are zero.
Blank == {"__pad1", "__pad2", "__pad3", "__pad4", "__pad5", "__unused4", "__unused5", "__spare0",
          "__spare2", "__spare3", "atime_reserved", "btime_reserved", "ctime_reserved", "mtime_reserved"}
FieldOffset(layout, i) == FoldLeft(LAMBDA n, f : n + f[2], 0, SubSeq(layout, 1, i - 1))
SizeOf(layout) == FieldOffset(layout, Len(layout) + 1)

\* The fields as the target finds them: at which offset, of which size, with which value.
Filled(layout, stat) == [i \in DOMAIN layout |->
                           [at |-> FieldOffset(layout, i), size |-> layout[i][2],
                            is |-> IF layout[i][1] \in Blank THEN "0" ELSE stat[layout[i][1]]]]

\* sys_fstat, and the end of sys_lstat, sys_fstatat and sys_statx: the condition is ret # -1, which an errno
\* passes unless it is 1; what is copied then was never written by the kernel.
Stat(layout, r) == [ret |-> sysret_errno(r),
                    copied |-> IF sysret_errno(r) = -1 THEN "nothing"
                               ELSE IF r.ret = -1 THEN "garbage" ELSE Filled(layout, r.stat)]

----------------------------------------------------------------------------
(* Paths are sequences of characters, "/" among them.                      *)

StartsWith(s, p) == Len(p) <= Len(s) /\ SubSeq(s, 1, Len(p)) = p

do_chroot(chroot, fn) == IF chroot # <<>> /\ fn # <<>> /\ fn[1] = "/" THEN chroot \o fn ELSE fn

Mutundo_chroot(chroot, fn) ==
    IF chroot = <<>> THEN fn
    ELSE IF StartsWith(fn, chroot) THEN SubSeq(fn, Len(chroot) + 1, Len(fn)) ELSE <<"/">>

undo_chroot(chroot, fn) ==
    IF chroot = <<>> THEN fn
    ELSE LET slash == Last(chroot) = "/"
             next == IF Len(fn) > Len(chroot) THEN fn[Len(chroot) + 1] ELSE "end"
         IN IF StartsWith(fn, chroot) /\ (slash \/ next = "/")
            THEN SubSeq(fn, Len(chroot) + (IF slash THEN 0 ELSE 1), Len(fn))
            ELSE <<"/">>

\* AT_SYSCALL: a name counts from the chroot only if the directory is the current one;
\* the kernel is given the descriptor that lookup returns.
AtName(chroot, dirfd, name) == IF dirfd = AT_FDCWD THEN do_chroot(chroot, name) ELSE name

\* What a call with names asks of the kernel: descriptors and names, in their order.
Asked(chroot, dirs) == [i \in DOMAIN dirs |-> <<dirs[i][1], AtName(chroot, dirs[i][1], dirs[i][2])>>]
OneName(chroot, dirfd, name, r) ==      \* sys_faccessat, sys_unlinkat, sys_mkdirat
    [asked |-> Asked(chroot, <<<<dirfd, name>>>>), ret |-> sysret_errno(r)]
TwoNames(chroot, odirfd, oname, ndirfd, nname, r) ==    \* sys_renameat, sys_linkat
    [asked |-> Asked(chroot, <<<<odirfd, oname>>, <<ndirfd, nname>>>>), ret |-> sysret_errno(r)]
sys_fstatat(chroot, dirfd, name, r) ==
    [asked |-> Asked(chroot, <<<<dirfd, name>>>>), out |-> Stat(riscv_stat, r)]
\* These two do not look at the descriptor: every name counts from the chroot.
sys_lstat(chroot, name, r) == [asked |-> <<<<AT_FDCWD, do_chroot(chroot, name)>>>>, out |-> Stat(riscv_stat, r)]
sys_statx(chroot, dirfd, name, r) == [asked |-> <<<<dirfd, do_chroot(chroot, name)>>>>, out |-> Stat(riscv_statx, r)]

\* sys_getcwd: the kernel answers ERANGE (34) if the host's name and its end do not fit, and
\* -ENOMEM (12) would be the answer if the target's did not.
sys_getcwd(chroot, cwd, size) ==
    IF size <= Len(cwd) THEN [ret |-> -34, str |-> <<>>]
    ELSE LET tmp == undo_chroot(chroot, cwd)
         IN IF size <= Len(tmp) THEN [ret |-> -12, str |-> <<>>] ELSE [ret |-> Len(tmp) + 1, str |-> tmp]

\* sys_chdir: the string up to its end, which the kernel is given as it is, without do_chroot.
EndOf(mem, path) == CHOOSE n \in 0..Cardinality(DOMAIN mem) :
                      mem[path + n] = 0 /\ \A i \in 0..n - 1 : mem[path + i] # 0
sys_chdir(mem, path) == Bytes(mem, path, EndOf(mem, path))

----------------------------------------------------------------------------
(* sys_getmainvars: argc, the pointers to the arguments, two null words,   *)
(* and the arguments, each ended by a zero.  A word has `w' bytes.         *)

Mutargpos(args, w, i) == (Len(args) + 3) * w + FoldLeft(LAMBDA n, s : n + Len(s), 0, SubSeq(args, 1, i - 1))
ArgOffset(args, w, i) ==
    (Len(args) + 3) * w + FoldLeft(LAMBDA n, s : n + Len(s) + 1, 0, SubSeq(args, 1, i - 1))

MainWords(args, pbuf, w) == <<Len(args)>> \o [i \in 1..Len(args) |-> pbuf + ArgOffset(args, w, i)] \o <<0, 0>>

sys_getmainvars(mem, args, pbuf, limit, big, w) ==
    LET words == MainWords(args, pbuf, w)
        image == FlattenSeq([i \in DOMAIN words |-> to_target(big, WordOf(words[i], w))])
                   \o FlattenSeq([i \in DOMAIN args |-> args[i] \o <<0>>])
    IN IF Len(image) > limit THEN Reply(-12, mem) ELSE Reply(0, Put(mem, pbuf, image))

----------------------------------------------------------------------------
(* disk_t: a request names a buffer, a place in the file, a size and a tag; *)
(* a transfer that is not complete ends the run.                           *)

CouldNotRead == [failed |-> TRUE]
DiskRead(mem, file, req) ==
    IF req.offset + req.size > Len(file) THEN CouldNotRead
    ELSE [tag |-> req.tag, file |-> file,
          mem |-> Put(mem, req.addr, SubSeq(file, req.offset + 1, req.offset + req.size))]

DiskWrite(mem, file, req) ==
    LET data == Bytes(mem, req.addr, req.size)
        end == req.offset + req.size
    IN [tag |-> req.tag, mem |-> mem,
        file |-> [i \in 1..(IF end > Len(file) THEN end ELSE Len(file)) |->
                    IF i > req.offset /\ i <= end THEN data[i - req.offset]
                    ELSE IF i <= Len(file) THEN file[i] ELSE 0]]
=============================================================================
