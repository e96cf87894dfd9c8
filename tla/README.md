# Verification of the RISC-V host tools

The repository holds the host side of a RISC-V simulation setup and one author's own
simulator:

* `fesvr/`, the front-end server: it loads a program into the memory of a simulated
  core, lets it run, and serves its system calls and its terminal through two mailboxes
  in that memory (HTIF). Transports carry its memory accesses: a serial stream (TSI), a
  debug module (DTM), or a byte stream.
- `project_1/` and `project_2/`: a disassembler and an interpreter of RV32I programs.
* `disasm/`, `fdt/` (vendored libfdt), `spike_main/`, `spike_dasm/`, `customext/`,
  `debug_rom/`: parts of the Spike simulator, whose processor model is not here.

This directory models these programs and libfdt in TLA+, checks the models
with TLC, and proves their main safety properties with TLAPS for all values of the
constants.

## 1. Inventory

For each component: its state, its operations, what it interacts with, what is hard about
it, and what makes it correct.

### context (`fesvr/context.cc`) - modelled
*State.* A `context_t` has a thread, a mutex, a condition variable, a volatile `flag` and
its creator (pthread build), or a `ucontext_t`; the thread-local `cur`.
*Operations.* `init()` starts a context and returns after the new one has handed control
back; `switch_to()` passes control; `current()`.
*Interactions.* `tsi_t`, `dtm_t` and `htif_pthread_t` run the host as one context and the
simulation as another, and share their queues without locks.
*Hard.* `flag` is written outside the mutex; signals come late, wakeups come without
signals; `init()` holds the creator's mutex while the new thread wants it.
*Correct when* one context at a time executes, control moves only as asked, no wakeup is
lost, and whoever is given control runs.

### htif (`fesvr/htif.cc`), devices (`device.cc`, `term.cc`) - modelled
*State.* Addresses of `tohost` and `fromhost`, `exitcode`, the `signal_exit` flag, the queue
`fromhost_queue` of `run()`, the device list, and bcd's queue `pending_reads`.
*Operations.* `start()` (load, reset), the loop of `run()` (poll `tohost`, clear it, handle
the command, tick the devices, send a reply if `fromhost` is free), `stop()` with the
signature, `handle_signal()`.
*Interactions.* The target program reads and writes the two mailboxes while the host does;
handlers read and write further target memory; the terminal; signals.
*Hard.* The two sides access the mailboxes in interleaved steps, and the host's writes are
posted: clearing `tohost`, the result of a call and the reply travel separately. bcd
answers reads later, out of order with younger commands. A proxied `read()` blocks the only
host thread.
*Correct when* each command is accepted once and in order, each reply arrives once, is not
overwritten, and arrives only when the command's effects are in memory; when no typed
character is lost; when an exit or a signal ends the run.

### tsi (`fesvr/tsi.cc`) - modelled
*State.* `in_data` and `out_data`, the two word queues, and the two contexts.
*Operations.* `read_chunk`, `write_chunk`, `push_addr`, `push_len`, `reset`, and for the
target `tick`, `send_word`, `recv_word`, `switch_to_host`.
*Interactions.* An adapter on the target decodes the stream and accesses memory.
*Hard.* Writes return before they are carried out; framing is by counts alone, so one wrong
length shifts everything after it; whoever waits without switching stops both sides.
*Correct when* the stream is an ordered memory port: words land in order, reads overtake no
write and return what memory held.

### memif (`fesvr/memif.cc`, `htif_t::clear_chunk`) - modelled
*State.* None between calls; a chunk buffer in a read-modify-write.
*Operations.* `read` and `write` of any bytes over aligned chunks of limited size, with
chunks of zeros sent to `clear_chunk`; typed accessors on top.
*Hard.* Head, tail and body arithmetic; the target may store between the read and the
write-back of a chunk.
*Correct when* exactly the requested bytes move and the transport sees legal chunks only.

### syscall (`fesvr/syscall.cc`) - modelled
*State.* `fds_t`, the table from target to host descriptors; `chroot`; `htif->exitcode`.
*Operations.* `dispatch` reads eight words, calls a handler, writes the result; the handlers
of files, of `exit`, of the path calls, `getmainvars`.
*Hard.* The table, the kernel's descriptors and the target's view must stay in step under
failures of the kernel; an exit code travels through an `int` that also means "not over".
*Correct when* no two descriptors share a file of the host by accident, none leaks, each
names the file the target opened, and the exit status arrives.

### dtm (`fesvr/dtm.cc`) - modelled
*State.* `req_wait`, `resp_wait`, `req_buf`, `resp_buf`, `running`, `current_hart`,
`num_harts`, `xlen`; in the debug module: program buffer, data words, error code, autoexec; in
the hart: s0, s1, dscratch0.
*Operations.* `do_command` with `tick` or `return_resp` (hand-over), `halt`, `resume`,
`run_abstract_command`, `read_chunk`, `write_chunk`, `clear_chunk`, `modify_csr`, `fence_i`,
`get_xlen`, `enumerate_harts`, `reset`, `die`.
*Hard.* A protocol of many steps that borrows registers of a running program; autoexec;
failed commands after which it goes on; polls without an end.
*Correct when* a transfer moves its words, no command is refused by the module, and every hart is
left running, with its own registers.

### rfb (`fesvr/rfb.cc`) - modelled
*State.* Two sockets, two frame buffers, `read_pos`, `memif`, `addr`, a mutex, a thread.
*Operations.* `tick`, `handle_configure`, `handle_set_address`, the thread, the destructor.
*Hard.* The thread and the host share `memif` and the buffers; `tick()` only tries the lock.
*Correct when* a client sees the greeting and then whole frames, and does get one.

### htif_pthread (`fesvr/htif_pthread.cc`) - modelled
*State.* Two byte queues. *Operations.* `read`, `write`, `send`, `recv`, `recv_nonblocking`.
*Hard.* Both sides wait by switching. *Correct when* bytes arrive once and in order.

### loader: elfloader, `load_program`, hexwriter, elf2hex, byte order - modelled
*State.* The target's memory (or the lines of `elf2hex`), the preloaded ranges, the symbols.
*Hard.* Segments that overlap, zeros behind the file's part, a dozen checks of headers.
*Correct when* memory is what the last segment that covers a byte says.

### option parser, `htif_t::parse_arguments`, `spike_main` - modelled, partly
`option_parser_t` runs actions for the words of a command line; htif turns plus-arguments
into options; `spike.cc` registers some forty of them, each of which reads its argument and sets something;
it merges the regions of memory, places kernel and ramdisk in them, and wires caches and extensions.
*Hard.* A jump back into a `switch`; a list that is merged while it is walked; four hand-written
parsers with different ideas of a number.
*Correct when* the words in front of the program, and only these, are read as options, in whatever order, and
every page that was asked for is in exactly one region.
`xspike` (two children, a pipe, a signal handler) must close its terminal on every way out.

### fdt (libfdt) - modelled
*State.* One buffer: a header and three blocks of words, moved on every edit.
*Operations.* The checks, the walk and about fifty readers; the sequential writer; edits by
offset, in place or with moves; `fdt_open_into` and `fdt_pack`; overlays.
*Hard.* Blocks that move over each other, room down to the last word, calls that fail half-way, offsets
that go stale, phandles that must stay unique.
*Correct when* what a reader accepts is the tree that the successful calls asked for.

### decoders: project_1, project_2, proj1, `disasm`, `spike_dasm` - modelled, disasm partly
Four hand-written decoders of the same instructions. *Hard.* Immediates from scattered
bits; a table in which the order of the entries and the bits of the masks decide which
pseudo-instruction is printed. *Correct when* each finds what was encoded.

### project_2 `riscv-sim` - modelled
*State.* `pc`, `reg[32]`, `mem[65536]`, the program `buf`, the loop counter.
*Operations.* One case of a `switch` for each instruction; loads and stores of one address
reach the keyboard and the screen.
*Hard.* The condition of `pc += 4` repeats those of the branches; `x0` is
written and reset; bounds of accesses. The tests compare whole runs with a binary that is
not in the repository.
*Correct when* it implements the instruction set.

### proj2/pa2 - modelled, partly
Another simulator of the same machine, in C++ (`main.cc`, and without its printed lines `diff.cc`). It counts instructions,
keeps data as words, has no bounds, and decides by a flag from the command line which accesses go to the device.
*Correct when* it implements the instruction set where it claims to.

### Not modelled
* `customext`: extensions of the processor model, which is not in the repository; likewise
  `sim_t` and what `spike.cc` passes to it.
* `debug_rom`: code of the target; `DebugModule` takes its effect as a step.
* `dummy.cc`, package files, test drivers, scripts, `configure`: nothing to state.
* `project_0` (hello world), and most drafts in `proj1/`, `proj2/` and `test/`: `proj2/my_project/final.c` is
  `project_2/main.c`, `test/main.cc` is `proj1/main.cc`, and the others are earlier states of these.
* Inside modelled components: the destruction of contexts, usage texts, abbreviated long options
  and `--`, terminal modes, the log filter of `termios-xspike`,
  big-endian hosts, device trees before version 16, the entries of the disassembler for
  bit-manipulation, vector and packed instructions and the codes of `encoding.h` that have no
  entry but the fallback, and a second `0x` that `strtoull` accepts in `DASM(...)`.
* Small steps that the models leave out, because the instances never take them or no property tells them apart:
  a program that asks for a call that does not exist, which ends the run in an exception (`syscall.cc:454`), and a
  terminal at the end of its input, where `read` returns 0 (`Htif`); `run()` of `Tsi` returning, after which the host only
  gives control away; `AT_FDCWD` in `fds_t::lookup` (`syscall.cc:483`), which `Calls` passes on and the table does not hold (`Fds`);
  the second data word that `clear_chunk` fills for harts of 32 bits, and does not send (`dtm.cc:380`);
  a frame of no bytes, and a `write` that takes part of a frame, after which the client is dropped (`rfb.cc:186`);
  the wrapping to 32 bits of the zeros behind an ELF32 segment (`elfloader.cc:56`), for only 64-bit files are tried.

## 2. Modules

| module | models | is composed of |
|---|---|---|
| `Coroutine` | the promise of `context_t`; step for step the ucontext build | |
| `Context` | the pthread build, one action per shared access or pthread call | implements `Coroutine` |
| `MemPort` | the promise of a transport: posted, ordered writes; reads after them | |
| `Tsi`, `TsiProofs` | `tsi.cc` and an adapter; theorem | uses `Coroutine`, implements `MemPort` |
| `Commands` | kinds of HTIF commands, who answers, on which channel | |
| `HostService` | the promise of the front-end server to a program | `Commands` |
| `Htif`, `HtifProofs` | `htif.cc` with devices and dispatch, a target program, a terminal, signals; theorems | uses `MemPort`, implements `HostService` |
| `MemIf` | `memif.cc` under a storing target | |
| `Fds` | descriptor calls of `syscall.cc` and the kernel's table | |
| `ExitCode` | the exit code's way through the integer types | |
| `ServerProofs` | theorems about `MemIf`, `Fds` and `ExitCode` | uses `Powers` |
| `Calls` | every other proxied call; `disk_t` | `TargetWords` |
| `TargetWords` | typed accesses of `memif_t`, byte order | |
| `Loader` | `elfloader.cc`, `load_program`, symbols, signature, the hexwriter | `TargetWords` |
| `Options` | `option_parser.cc`, `htif_t::parse_arguments` | |
| `SpikeMain` | `spike.cc` up to the run: options, texts, regions, devices, images, wiring | `Options` |
| `RvFormats` | formats and codes of the manual, of 32 and of 16 bits (external) | |
| `RvDecode` | decoding in project_2, decoding and printing in project_1 | `RvFormats` |
| `RvDraft` | `proj1/main.cc`: its fields, its immediates, what it prints | `RvDecode` |
| `DraftSim` | the loop of `proj2/pa2/main.cc`, as a function of a state | `RvWords` |
| `SpikeDisasm` | `disasm.cc`, `spike-dasm.cc` | `RvFormats` |
| `MCServices` | the inputs of the modules from `Fds` on, and their properties | all of them |
| `RvWords`, `RvIsa` | words of any width; an RV32I machine | |
| `RvSim`, `RvSimProofs`, `MCRvSim` | the interpreter loop; theorem; the programs tried | implements `RvIsa`; the proofs use `Powers` |
| `Powers` | facts about powers of 2, division and binary digits, proved for every width | |
| `DebugModule` | a debug module and its harts (external) | |
| `Dtm`, `DtmProofs`, `DtmLoans` | `dtm.cc`; theorems on the protocol and on the borrowed registers | drives `DebugModule` |
| `Rfb`, `HtifPthread`, `Xspike` | one module for each source file | `MCThreads` puts them side by side |
| `ThreadsProofs` | theorems about these three and `Context` | |
| `Fdt`, `FdtSw`, `FdtRw`, `FdtOverlay` | libfdt, as functions of a buffer: reading; writing; editing; overlays | each extends the one before |
| `DeviceTree` | what a tree is, and what each call asks for | |
| `FdtUse`, `MCFdt` | clients of libfdt, and properties; the trees tried | all of these |

Definitions that start with `Mut` are variants of the next definition with a plausible bug.
Each property is shown to fail under one of them.

### How state and actions correspond to the code

**Context.** `flag`, `mutex` and `creator` are the members of that name; `pc[x]` is the
statement the thread of `x` is at; `dest[x]` is `this` of the call it executes. Assigning
a flag, testing it, locking, unlocking, waiting, signalling are one action each, in the
order of lines 60-75 and 83-105. `SpuriousWakeup` is what `pthread_cond_wait` may do. Two assumptions: flag accesses take effect
one at a time and in program order (formally `volatile` gives a data race; strongly
ordered hosts behave as modelled), and thread functions do not return (those of the users
end in endless loops).

**Htif.** `hpc` is the place in `run()`. One action of the host is one access to target
memory with the local computation after it. `mem` has the words that host and program share: the
mailboxes, the argument buffer `magic`, the program text and the register that starts the
core; `posted` the host's writes in flight. Commands are abstracted to their kind: what
matters is who answers, on which channel, whether memory is involved and whether the run
ends. `Issue` and `Take` are the program: it sends when `tohost` is zero, has one call in
the buffer at a time, and clears `fromhost`, like riscv-pk. A mailbox is stored at once.

**Tsi.** `in_data` and `out_data` are the queues; `frame` and `sending` are the adapter's
registers. Target cycles are actions that give control back at their end. A stream word has
`Base` values in place of 2^32, so that an address of two words has a carry.

**MemIf.** `pc` is the place in `read()` or `write()`: head, tail, body; the
read-modify-write of a head or tail has two actions, with the target's `Store` in between.
`ref` holds, for each byte, the value of its last writer: the reference the memory is compared with.

**Fds.** `fds` is `fds_t`; `open` is the kernel's table; each call takes the kernel's answer
from the results it can give, errors included. `view` is what the target believes.
Calls that change no descriptor are in `Calls`: operators from arguments, memory and
the kernel's answer to a result and a memory. **ExitCode** has a history variable, `exited`: after `exit(0)` nothing but
`exitcode` tells that the program has ended.

**Dtm.** A function of `dtm.cc` is the sequence of its steps: requests to the debug module,
and the computations between them. `todo` holds the steps still to do; a computation may put
further steps in front (the rounds of a poll, the cleaning up of `die`). `control` says which
coroutine runs; `TickShow`, `TickAccept` and `TickRespond` are the statements of `tick()`. The
module answers after any time, a hart halts and resumes after any time, and between operations the harts' programs change
their registers. An instruction in the program buffer is a record of its fields.

**Rfb.** `hpc` and `tpc` are the places of the host and of the thread; an action is one system
call, one lock operation, or the accesses between two of them. A packet of the client is one
`read()`; a chunk of a frame is marked with its place and with the pass it was copied in, so that a
mixed frame shows.

**HtifPthread, Xspike.** Bytes are numbered; a call waits in `want`. In Xspike `xpc` is the
place of the parent; the outcome of every system call and the time of the interrupt are free.

**Fdt.** A blob is a record: the header, and a memory of words. What no function looks into
(the characters of a name) is one word; tags, cells and lengths are words of 6 bits. An operator has the
name of its C function, takes the blob and returns the result, with the new blob when the function changes it. `FdtUse`
is a client: `b` is the buffer, `want` the tree and the reservations that its successful calls
have asked for (`DeviceTree`), `last` the result of the last call beside the result that was due.

**Services.** These components keep no state between calls, or are a function of the command
line or of a file. `MCServices` makes each call an action: it picks inputs from a small set and stores input and
result, and the properties compare them with a definition of what is wanted that is not built like the code
(an image byte by byte, the directories of a path, the assembler's view of an instruction). In `SpikeMain` a text is a
sequence of numerals and separators, so that every parser of `spike.cc` has something to be wrong about; a shared library is the names and
plug-ins it registers, which the lookups behind it find. A round of `DraftSim`
is compared with a step of `RvIsa` from the same state, except where the comment at `RoundRight` says that the code differs.

**RvSim.** An instruction is a record of the fields that the switch looks at (`op` is the
opcode, `fn` what func3 and func7 select). An action per case; the two places that decide
about `pc` (the branch cases, and line 428) are `Taken` and `NotTaken`. `return -1` is
status "failed". An accepted access that reaches behind the array is undefined in C: status
"overrun", where the model ends. What `scanf` delivers is any input, also when it fails and leaves the
variable uninitialised.

## 3. Runs

| run | instance | shows |
|---|---|---|
| `context_check` | three contexts, spurious wakeups | one runs at a time (`MutualExclusion`), `NoLostWakeup`, `Implements` Coroutine; whoever has control runs and `init()` returns (`ControlRuns`) |
| `htif_check` | 3 commands of 8 kinds, 2 typed characters, 2 signals, a signature | `BootOrder`; arguments and results of a call are those of the command at hand (`CallDataKept`); `CharsOnce`; `ImplementsService`; `EveryCallAnswered`; an exit or a signal ends the run (`RunEnds`) |
| `tsi_check` | addresses of two words, 2 chunk writes, chunks of up to 2 words, a core that stores | `ImplementsPort`, with exact reads; `ReadReturns`; `CoreStarts` |
| `tsi_notohost` | a program without `tohost` | **violation**, see 5 |
| `memif_safety` | 16 bytes, chunks of 4 to 8, every address and length, one store | `NothingElseChanged`, `WriteComplete`, `ReadComplete`, `CallsLegal` |
| `dtm_check` | 2 harts of 64 bits, 2 words of memory, the boot and one operation | `BorrowedRestored`; `DoneRight`: the result is right, and only what was asked can trap; `CommandsLegal`: no command is refused, and the module is left quiet; `OperationsEnd` |
| `threads_check` | frames of 1 to 3 chunks at 2 addresses; 4 bytes each way, calls of up to 3; 2 exit statuses | `StreamInOrder`, `FrameArrives` (rfb); `BytesInOrder` (htif_pthread); `XspikeCloses` |
| `fdt_check` | buffers of 3 sizes, 7 writing and 2 editing calls, 4 trees, 3 overlays | `Implements`: an accepted blob holds what was asked for; `Answers`: every return code is the one that is due; `ReadsAgree`; `PhandlesStayUnique` |
| `services_check` | see below | `NoAlias`, `NoLeak`, `RightFile` (descriptors), `StatusKept`, `LoadedRight`, `ResultsDelivered`, `PathsRight`, `OptionsRight`, `RegionsRight`, `DecodingRight` |
| `rvsim_check` | 8-bit words, 8 bytes, two preludes, every pair of 58 instructions | `Implements` RvIsa, never stalls, fails only outside the memory |
| `rvsim_overrun`, `rvsim_unsigned` | the same; programs with `bltu`, `bgeu` | **violations**, see 5 |

*Bounds.* Every bound is a constant with a comment. Three contexts are enough for every
role in a switch: from, to, and a third that wakes late. Three commands put an answered
command, a pending getc and a call or an exit in one run, with replies waiting behind a full
mailbox; two characters suffice to lose, double or swap one. With `Base` = 2 an address has a low
and a high word that differ, so framing errors show. 16 bytes over chunks of 4 to 8 contain
requests with every combination of head, one or more body chunks, and tail. One operation of
the debug transport after the boot, over a request of one or two words, has a first, a middle and a last word of autoexec,
may fail at its first or second word, and starts from the state that another operation leaves, for
`CommandsLegal` says that every operation leaves the same. A frame of
three chunks has a beginning, a middle and an end, so that a swap in mid-frame shows. Buffers of 28, 90 and
160 words are one that fills up while it is written, one that is written but not edited, and
one with room for everything; the overlays name their target by path and by symbol, with a symbol that exists and one that does not;
ranges begin at 0, 1, the last address of a cell and the one behind it.

*Services.* Five target and four kernel descriptors leave room to close, reopen and run out of
either. Exit widths keep the order register > payload > int > status of 64, 48, 32 and 8 bits.
Programs of one or two segments at three addresses, with file and memory parts of four sizes, overlap in
every way; seventeen files have one header wrong. Command lines have up to three words, or a library, two
more and the program, paths up to two
directories of up to two letters, lists up to three regions of a memory of six pages. Immediates have no
bit, one, two, all or all but one bit, which tells any two misplaced bits apart; registers have one bit, none or all.

*Deadlock* is checked except where the system stops: after the end of a run (Htif, RvSim), when the
calls of an instance are spent (services, fdt), and in the violation run of Tsi.

*Fairness.* Context: threads are scheduled, and a mutex that is free again and again is
acquired (strong fairness on one lock, which a thread that wakes spuriously may hold in
between). Htif: the host thread runs, the port delivers, the program takes its replies;
nobody has to type, to signal or to send. Tsi: both coroutines advance, the adapter moves a
word if it can again and again, and the loading of the program ends. Dtm: host and target advance; the
module's own steps are strongly fair, since the target's clock may run between them. Rfb: both threads
are scheduled; no client has to say anything or to stay. No property assumes fairness of the environment's free choices.

## 4. Proofs

For every value of the constants (under each module's named assumption):

* `ThreadsProofs`: `TypeCorrect`, `OneRuns` (mutual exclusion), `WakeupsKept`, and
  `Refinement` (the pthread build implements `Coroutine`). The invariant says that exactly
  one context has control (it is active, or its flag is 1 while it is still in the hand-over), where
  mutexes are held in terms of `pc`, and that a sleeper with its flag set has its signal
  ahead. Mutual exclusion alone is not inductive: the step that makes a context
  active is allowed by its flag, so flags must be counted together with active contexts.
* `HtifProofs`: `BootsInOrder`, `CallsKeepTheirData`, `CharsReachOnce` and the refinement `HtifImplementsService`.
  The writes of the host are posted, so no word of memory means anything by itself: the invariant speaks of a word as it
  *will be* once the posted writes have landed (`Port!Coming`), which landing leaves alone. `PostedInOrder` says that posted
  writes go to different addresses, `Booting` how far the host gets before the core runs, `OneWriter` that a store of the program and a
  posted write never meet at one word, `IdsInOrder` that what is pending, in a reply, in `tohost` or at hand is in the order of
  issue, `OneOwner` and `BufferHeld` that one call at a time owns the argument buffer, and whose data it holds. `CharsOnce` is
  inductive on top of that (`CharsInv`); the work is in counting the characters that the replies in flight carry.
* `TsiProofs`: `TsiImplementsPort`. The words between host and adapter are a queue of whole commands, the first of
  which may be partly received. `Queued` names it by two unbounded numberings, of the words and of the writes, so that pushing a
  command and receiving a word move only its ends; each data word agrees with a write that has not landed.
  `Serving` says how far the read in progress is: the words received and those on their way are the
  values fetched, at consecutive addresses. Framing is by counts alone, and the proof shows that the counts never differ.
* `ServerProofs`, memif: `OthersKept`, `Written`, `WasRead`, `TransportCalledLegally`. `BufferKept` says what the buffer of a
  read-modify-write holds next to the request (the last writers' values, but for bytes
  the target stored since it was read), without which the write-back could not be shown
  harmless; `Moved` says that the parts done so far, head, tail and the body up to `pos`, have
  been moved; `CallsInv` adds what a call in progress asks next. The proofs rest on lemmas about the arithmetic of chunks
  (`Geometry`, `BodyGeometry`). Assumed: memory is a whole number of chunks, as it is for every
  transport here; `CallsLegal` would fail at a ragged end.
* `ServerProofs`, descriptors: `TableCorrect`, `NoSharing`, `NothingLeaks`, `NamesKept`. `Live` makes the
  invariants inductive: an entry that is not dangling was opened by the target and leads
  to the target's file; otherwise a new descriptor of the kernel could be one the table still has.
* `ServerProofs`, exit code: `ExitCodeKept`, for registers, payloads, ints and statuses of any width. What it takes is that the conversion
  to int subtracts a multiple of 2^`IntBits`, an even number, so that the lowest bit stays 1 (`OddKept`, without which an exit
  code, 0 as well, could leave `exitcode` at 0, and the run would go on), and that the lower bits of the half are those of the code; `StatusBits < IntBits` is used
  there, and says that the bit lost by the shift is none of those the parent sees.
* `RvSimProofs`: `RunsTheMachine`, the refinement of `RvIsa`, with `EachRoundExecutes` and `FailsRightly` in it. The simulator
  computes with unsigned words and C's operators, the machine with signed numbers and sets of bits, so the first half of the proof
  is about the numbers: sums and differences agree modulo 2^`WordBits`; the shifts move binary digits (`BitUp`, `BitDown`, for
  negative numbers as well, which is what `sra` needs); and a word is *the* word with its bits (`WordOfBits`), because every
  set of places is that of some number (`BitsGiven`) and there are as many sets as words. The second half has one lemma for
  each case of the switch and shows that addresses, which the simulator takes as an `int` distance from `DataBase`, are inside its
  memory or at its device just when the machine's are (`Distance`, `AddressIs`). The hypothesis `NoUnsigned` says that no
  program has `bltu` or `bgeu`: the programs of `rvsim_check` have none, and `rvsim_unsigned` shows that the refinement fails with them.
  The assumption on the constants (`RvAssumption`) holds for the real sizes: words of two bytes or more, a memory that ends below
  `DataBase`, and the device's address a word.
* `Powers` holds what both rest on. The provers do not know that 2^(n+1) is 2 * 2^n for every n, nor have they induction. Both are
  derived: a set of natural numbers without a least element is empty, and 2^n is the number of subsets of 1..n.
* `ThreadsProofs`: `BytesKept`. `BytesInOrder` is inductive with the types alone; the proof
  is in two lemmas, one for a queue that grows at its end and one for a queue that is taken from.
* `ThreadsProofs`: `StreamKept`. `StreamInOrder` speaks of what was sent; why it stays right is in `Locking` (who holds the lock at
  which place of the two threads), `Progress` (how much of the greeting a client who is still there has been sent at each place, so
  that an update never comes in between), and `Buffers` (the buffer in front of `read_pos` is of this pass, and the one that is sent
  is whole). A client who hangs up in the greeting stops being sent to, so `Progress` gives only a bound then.
* `ThreadsProofs`: `XspikeLeavesNothing`. `XspikeCloses` speaks of the end; `XtermAt` and `SpikeAt` say which
  children there can be at each place before it, and that only an interrupt ends spike.
* `DtmProofs`: `CommandsStayLegal`. What the host has still to do is a list of steps, which computations extend, so the
  invariant (`FlowInv`) is an argument about programs: `Plan(p, todo, r)` puts an assertion between any two steps, such that each
  step leads from the one before it to the one behind it (`Leads`), and `At(p)` says that the first one holds now. An assertion
  (`Ctl`) says who is halted or asked to halt or resume, which hart is selected, which errors there can be, and what the host
  knows. The proof has three parts: what the hardware does between two steps leaves every assertion alone (`HardwareKeeps`); a
  step that is carried out and answered leads to the next assertion (`Accessed`, `Received`, `Computed`); and
  every function of `dtm.cc` has a plan that comes home (`PlanBoot`, `PlanReadChunk`, `PlanWriteChunk`, ..., `PlanResetStep`):
  hart 0 current, every hart running, no error, no autoexec.
  Loops of unknown length (the rounds of a poll, the words of a chunk, the harts) are one step that stands for the rest of the
  loop, so no induction is needed. `CommandsLegal` follows: an error other than an exception can only be met in the boot, where sizes are tried.
  The assumptions are those of the modules (`DebugModuleAssumption`, `DtmAssumption`).
* `DtmLoans`: `RegistersGivenBack` (`BorrowedRestored`). A second layer of assertions over the same list of steps says where the
  values are that the held hart's program left in s0 and s1 (`Where`): in the hart, on their way through the data registers to the host,
  kept by the host while commands may change the registers, or on their way back; `modify_csr` passes through one in which s0 is
  in `dscratch0`. `Carries` gives the steps that lead from one assertion to another, `Trip` what a list of steps does, and `LentInv` says
  that what is still to do leads home, to harts that have their own. The proof goes as before: the hardware between two steps, which now
  means what each instruction of the program buffer does to registers; a step and its answer; and a trip for each function
  (`TripReadChunk`, `TripWriteChunk`, `TripClearChunk`, `TripModify`, ...). That a failed command still leads home is
  in the trips themselves: `die` only prints, so the failing and the good way have the same steps behind them. The model
  calls `modify_csr` with `dpc` and `mscratch`, which exist; a CSR that does not is outside the theorem (section 5).

*Model-checked only.* Liveness: `ControlRuns`, `EveryCallAnswered`, `RunEnds`, `CoreStarts`, `FrameArrives`, `OperationsEnd`,
`ReadReturns` (fairness and ENABLED are outside the prover). Of the debug transport, `DoneRight`: it
needs assertions about what the program buffer computes of memory and CSRs, word by word. libfdt, the loader, the other calls, the options and the decoders are
functions of their input, by folds and recursion over data; the properties compare them with a definition for each
of the listed inputs.

## 5. Where the code and its documents disagree

* **`reset()` without `tohost`** (`tsi_notohost`, `CoreStarts`). `reset()` queues the write
  that starts the core; a program without the symbol makes `run()` spin in `idle()`, which
  never gives control to the target, so the write is not delivered.
* **The last word of memory** (`rvsim_overrun`, `NoOverrun`). Loads and stores of four bytes are
  accepted up to offset 0xFFFE of 65536; `proj2/pa2/README.md` ends the address range at 0x1000FFFF.
* **`bltu` and `bgeu`** (`rvsim_unsigned`). `proj2/pa2/instruction.md` lists them; the switch
  leaves them out, and since line 428 names only the four known branches, `pc` stays at the
  instruction for the rest of the run. Unknown instructions of other opcodes are skipped.
* **Ranges of addresses** (no run of its own; `AddrRange` of FdtRw follows the code, and `FitsCells` of FdtUse, which says
  what `Answers` expects, names the two exceptions).
  `fdt_addresses.c:74` tests `(UINT32_MAX + 1 - addr) < size`, where `UINT32_MAX + 1` is 0 in 32 bits: a range
  at address 0 is refused, and one that wraps is not. `libfdt.h:1932` promises
  `FDT_ERR_BADVALUE` for an address or a size that does not fit into its cells.
* **The chroot and `chdir`** (no run of its own; `sys_chdir` of Calls follows the code, and `PathsRight` names the exception).
  `htif.h:132` says that PATH is the location of the binaries that system calls find, and every other call with a name applies it
  (the `*at` calls if the directory is the current one), but `sys_chdir` (`syscall.cc:445`) takes the name as the host's. `getcwd` answers with a name inside the chroot, so `chdir` to
  what `getcwd` said leaves the directory, and the chroot, unless PATH is the host's root.
* **pa2 and its `bltu`, `bgeu`** (no run of its own; `RoundRight` names the exception). `proj2/pa2/instruction.md:46-54` lists them
  among the branches; `proj2/pa2/main.cc:703-706` prints "unknown instruction" for them and goes on with the next one.

The models also pin down behaviour the code accepts. An unaligned write undoes stores of
the target to the same chunk (`NothingElseChanged` exempts these bytes). `F_DUPFD` makes
descriptors that the table never knows (`NoLeak` exempts them); a `close` that fails after
the kernel let go leaves a stale entry (`RightFile` and `NoAlias` exempt entries in `dangling`). A `stat`
that fails with any error but EPERM copies an uninitialised structure to the target (`Calls!Stat`). The hexwriter keeps old
bytes where zeros come over them. A segment with more bytes in the file than in memory ends the load in an
exception. The destructor of `rfb_t` never returns once its thread runs, and a write to a client that has gone
may end the process. `xspike` waits for ever for an xterm that could not be started, and leaves one open
whose terminal cannot be opened. `modify_csr` of a CSR that does not exist loses s0. `fdt_finish` accepts trees whose
nodes were not ended in nesting (`fdt_check_full` does not), and `fdt_path_offset` takes
`/a` for `/a@1`, as its comment says. project_1 tells instructions of the M extension, but `mul`, from
those of the base set by nothing. spike places kernel and ramdisk without comparing the two; in a small region they overlap. The order of
spike's options matters in one case, which its help text names for devices: a device or an extension is looked for when its option is
met, so the `--extlib` that brings it must come first (`OptionsRight` says exactly when a line fails for that).

The two drafts differ from the instruction set in ways that `DraftReads` and `RoundRight` state exactly. `proj1/main.cc` keeps
4 bits of the offset of a byte access and 8 of a half word's, does not extend the sign of jalr's, and extends
jal's at the wrong bit. `proj2/pa2/main.cc` never takes `bltu` and `bgeu` (above), lets `sltiu` and `sltu` do nothing and compares unsigned
in `slt`; `srli` by 0 and `sll` by 32 or more are undefined; `jalr` with `rd` = `rs1` jumps relative to the link; a
store to the device also writes a data word; and data behind the file is 0xFF in each *word*, where `proj2/pa2/README.md` speaks
of bytes.

## 6. Plan

Done: the models of every component whose core logic is in the repository, in the order of
the front-end server's loop, its transports, its services, the interpreter and the decoders,
libfdt, the programs around them and two drafts; proofs of every safety property that is checked of Context, Htif, MemIf,
Fds, ExitCode, Rfb, HtifPthread and Xspike, of the refinements by Tsi and RvSim, of the protocol that Dtm keeps to, and of the registers it borrows.

Next, proofs: what the operations of the debug transport do to memory and CSRs (`DoneRight`), with a third layer of assertions.

Next, models: the bit-manipulation, vector and packed entries of the disassembler; two operations of the debug
transport in one run, on harts of 32 bits.
