# assembly-os in TLA+

A verification project for the operating system in `src/question`: a kernel for one ARM core
with preemptive processes, a shared-pointer lock, waiting for exit statuses, and an inode file
system on a disk behind a UART; user programs, among them the dining philosophers. The modules
are translated from the C code. TLC checks them on small instances, and the TLA+ proof system
proves the central theorems about the process kernel, the programs on it, the file system and the
disk for every value of the constants.

## 1. The system

| part | state it keeps | operations | who calls it |
|---|---|---|---|
| process table (`processes.c`) | `pcb[]`: parent, saved context, type, slice, waiting time, `shared_t`, `waiting[]`, `waiters[]`, `fd_table`; `current` | new, reset, find free, switch, share/lock, register and answer waits | scheduler, system calls |
| scheduler (`scheduler.c`) | waiting times and slices in the PCBs | age, choose, switch | timer, `yield`, `exit`, `kill` |
| process calls (`system_calls.c`) | none of their own | fork, fork_wait, exit, kill, yield, exec, share, lock, wait | supervisor-call handler |
| trap handlers (`hilevel.c`, `lolevel.s`) | the trap frame | reset, timer, supervisor call | hardware |
| file system (`fs.c`, `bitmap.c`) | superblock `*mounted`, `*root_dir`, the disk | blocks, inodes, directories, paths, formatting | file calls |
| open files (`fs.c:555-717`, `processes.c:233-284`) | `*open_files`, each process's `fd_table` | add, find, close | file calls |
| file calls (`file_system_calls.c`) | none of their own | mount, unmount, open, close, read, write, mkdir, rmdir, rm, ls, stat | supervisor-call handler |
| disk driver (`device/disk.c`) | the tries of the call that is open | read or write a block, ask for number and length of blocks: a request over UART2, up to three times | `fs.c` |
| disk (`device/disk.py`) | the disk image, the line it is reading | serve one request after the other | the driver, over the line |
| libc (`user/lib/libc.c`) | none | one wrapper per call; the loops `lockm`, `waitp` | programs |
| dining philosophers | the arbitrator in shared memory | main_dp, philosopher | console |
| console (`user/console.c`) | the buffers `input` and `args` | prompt, read a line, fork and exec a program, wait for it or not, shut down | user |
| other programs | none | one or two calls each | console |

The parts interact through calls in one address space. Two things happen "by themselves": the
timer tick, which may strike between any two instructions of a program, and the machine
stopping, which the disk outlives. Handlers run with interrupts masked, so each handler is one
atomic step; the exceptions are what the disk shows when the machine stops in the middle of one,
and the disk itself, a program of its own that runs at the same time.

What is hard about it:

* a switch in the middle of a call: results are written to the trap frame, which may by then be
  another process's;
* `active_process` reads the *saved* context of a process, stale for the one that is running;
* pids, inode numbers and descriptor ids are given out again, while parents, waiters and holders
  keep the old ones;
* a wait is kept in two tables, each of which may be full;
* a lock without a recorded owner and spin loops, under a scheduler with two queues;
* copies in memory (root directory, superblock) of what is on the disk, and calls of several
  disk writes that a stop may cut;
* requests and answers on one byte stream, without marks or numbers, repeated after a refusal;
* a console and its children on one stack, with one set of buffers, and children that end before,
  while or after they are waited for.

`PROJECT.json` lists these hazards with their lines and the properties that cover them.

Correctness, part by part: a process resumes with the registers it left with, and whoever runs
is in the table (contexts); everybody gets the processor again (scheduler); a wait is answered,
at the end of the process waited for and not before (waits); a pointer and its lock belong to a
family (sharing); the lock excludes and the dinner ends (philosophers); the tree on the disk can
be walked, no block has two owners, a call changes one file, what was written is read (file
system); a file is open once and the devices keep their descriptors (open files); the console
runs one program in the foreground at a time and always comes back (console); an answer belongs
to the request it is taken for, and success means stored (disk).

## 2. The modules

| module | what it is |
|---|---|
| `Processes` | operators on the process table: contexts, sharing, waits |
| `Scheduler` | operators of the two-queue scheduler |
| `Kernel` | the state machine: timer ticks and process calls; its properties |
| `Mutex` | abstract: what `lockm`/`unlockm` promise |
| `DiningPhilosophers` | `main_dp` and the philosophers as programs on `Kernel`; implements `Mutex` |
| `Bitmap`, `FileSystem` | operators of the bitmaps and of the file system on the disk |
| `FileDescriptors` | operators of the table of open files and the processes' lists |
| `FileStore` | abstract: a call makes, removes or overwrites one file and leaves the others |
| `FileSystemCalls` | the state machine: file calls, restarts, crashes; its properties; implements `FileStore` |
| `Console` | `main_console`, `cmd_fork` and the programs they start, as programs on `Kernel` |
| `BlockDevice` | abstract: what the file system may expect of the disk |
| `Disk` | the state machine: driver, line and disk; implements `BlockDevice` |
| `MCKernel`, `MCConsole`, `MCFileSystem`, `MCDisk` | instances for TLC (`Dining.cfg` needs no module of its own) |
| `SchedulerProofs`, `KernelProofs`, `DiskProofs` | theorems about the kernel and the disk, and their proofs |
| `ProgramProofs`, `DiningInvariant`, `DiningProofs` | what a program sees of its calls; the dinner's inductive invariant; the theorems about the dinner |
| `ConsoleProofs` | theorems about the console, on `ProgramProofs` |
| `FileProofs` | theorems about the file system and the open files |

`Kernel` EXTENDS `Scheduler` EXTENDS `Processes`; `DiningPhilosophers` and `Console` EXTEND
`Kernel`; `FileSystemCalls` EXTENDS `FileSystem` (EXTENDS `Bitmap`) and `FileDescriptors`;
`Disk` stands by itself, and the block device it implements is what `FileSystem` takes the disk
to be. Where one
handler calls another, an operator takes the state as a record and returns the next one, so
composition of calls is application of operators. A definition has the name of the C function it
translates. Operators whose comment says "faulty variant" are not used by the specification:
each is a plausible bug, kept to show that a property notices it (`mutants` in `PROJECT.json`).

### The kernel

State: `pcb`, `current`, `frame` (the trap frame, the running program's registers) and `intact`.
A context keeps three registers: the pc, which also tells active from free (`Null` is address
0); r0, which carries arguments and results; and sp, named by the pid whose stack it points
into. A tick or a call is one action; a call's inputs are any that a program could pass. When
the frame's pc is `Null` the processor has left the programs, and the model stops.

Abstractions, and why they lose nothing the properties speak of:

* Waiting times are compared, reset and counted up together, so after each call `RankWaiting`
  replaces them by their rank. This keeps every later comparison and bounds the counter.
* `Tick` spells out `Becomes(Scheduler(Now))` for TLC's sake; `SchedulerProofs` has a lemma that
  they are the same.
* A free slot of `waiting[]` is kept as one value: nobody reads the result of a free slot.
* `is_shared` of a process without a parent reads the memory in front of the table. That is
  undefined: the model lets the read find the pointer or not (`SharedOwners`, owner 0).
* `kill` and `wait` take pids 1 to MAX_PROCESSES. Others read outside the table.
* Not kept: `fd_table` (it is in `FileDescriptors`), `cpu_burst`, `io_burst` and `arrival_time`
  (written, never used for a decision); `ps` only prints.

### The philosophers

The pc of a context is a label. One step is one system call or one look at, or change of, the
arbitrator; ticks come between any two. Locals belong to a process because the compiler keeps
them in registers. `main_dp` is modelled as the first process; it could be any.

### The console

State, besides the kernel's: `input` (the buffer; `args` is computed from it, as `parse_cmd` does),
`pid` (the local of `cmd_fork`) and `forked`, a history variable. The pc is again a label, one step
is one call or one test, and ticks come between any two. A line is a sequence of words; the empty
line is not typed by the instances.

* The console and its children run on one stack, so there is one `input`: a child parses what is in
  it when it gets the processor. This is the only part of the shared stack that is kept.
* Without a word to look up, `parse_cmd` leaves `prog` as it is. `exec` then gets what is on the
  stack: `Loaded` takes it to be any program or `NULL`.
* After a fork that failed the console waits for pid -1, which reads in front of the table:
  `AskForNobody` lets the answer be "wait" or "error" each time.
* A program is one step that exits; what programs do in between is `Kernel`'s subject.

### The file system

State: `disk` (blocks), `sb` (`*mounted`), `root`, `open`, `held` (the `fd_table`s) and
`mounted`. A block holds a superblock, an inode, a part of a directory or a block of a file; sizes
are counted in blocks. `seen` collects the images of the disk during one call: a crash leaves one
of them. What a formatted disk holds is computed from the code that formats it (`NewDisk`).

* Names are atoms and paths sequences of names, absolute, with a last name other than "." and
  "..", as the programs write them.
* A write starts at `file_pointer` 0, as every write does, and writes at least one block.
* A directory read from a block that holds none reads as empty: what the code would make of the
  bytes is not modelled.
* `DirtyStack` = FALSE takes memory of the kernel's stack that was never written to read as zeros.
* The disk does what it is told: the file system ignores most failures, which `Disk` models.
* `read`, `ls` and `stat` change nothing the model keeps, so they are operators on a state
  (`SysRead`, `SysLs`, `SysStat`) that the properties apply to every state.
* Calls after `unmount` go through a null pointer and are left out.
* `Reserve` bounds the calls and restarts: one is made only while that many data blocks are free. The code
  never gives back the blocks of a rewritten directory or file, so every run fills the disk at
  last; what happens then is `FilesFull.cfg`'s subject.

### The disk

State: the driver's `call`, `tries`, `out` and `got`, the two directions of the line, the disk's
`line` and `reply`, and `image`. Driver and disk take their steps independently, one symbol at a
time; a symbol is a byte (two hexadecimal digits on the line, moved together by `PL011_puth` and
`PL011_geth`), the space or the end of line. `Fifo` bounds what a direction of the line holds.

* The line loses nothing and keeps the order: it is a socket of the emulator. Nothing in the code
  deals with a loss.
* `os.write` may store the first bytes only, and `os.read` may come up short: the disk then
  answers with a failure, the block is torn, and the driver asks again.
* How much of an answer the driver takes depends on the call it made and on the first byte, as in
  the code; nothing else tells it where the next answer begins.
* Addresses with the top bit set are negative for the disk program and left out; the file system
  has none.

## 3. The runs

Each run is `tlc -config X.cfg <module>`; times are with two workers.

| run | properties | instance and what it shows |
|---|---|---|
| `KernelSteps` | TypeOK, ProcessorInUse, ContextIntegrity | 3 processes, slices 1 and 2; fork, exit, yield, kill of others, failed exec. Whoever runs is in the table, and registers survive switches. 82,834 states, 30 s |
| `KernelWaits` | NoLostWakeup, AnsweredAtItsEnd | 3 processes, 2 waits and 1 waiter each, so that either table may be full first; slices 0, so that every call or tick may switch. 338,355 states, 90 s |
| `KernelLocks` | ParentsAlive, SharedWithinFamily | 3 processes, one pointer; pids are given out again. 24,239 states, 5 s |
| `KernelFairness` | NoStarvation, ContextIntegrity | 3 processes in two queues, slices 1 and 6 as in the code; fork, yield, exec. 11,154 states, 7 s |
| `Dining` | LockIsMutex, TableInOrder, SeatsTakenOnce, EveryRoundAMeal, DinnerEnds | 2 philosophers and their parent, 2 rounds, slices 1 and 6. 101,158 states, 30 s |
| `Console` | OneConsole, ForegroundFirst, WaitsAccepted, PromptComesBack | the console and up to 2 children; commands known and unknown, with `fork` and an argument or none, `shutdown`. 61,142 states, 36 s |
| `Disk` | InStep, IsBlockDevice, CallsReturn | 2 blocks of 2 bytes, an address beyond the disk, 2 symbols on the line in each direction. 137,584 states, 11 s |
| `FilesTree` | TreeInOrder, BlocksInOrder, DiskUpToDate, ListedIsThere, ReadsBack, FilesStay | 20 blocks, 7 inodes, 2 names in `/` and `/a`; open, write, mkdir, rm, unmount, restart. 44,129 states, 33 s |
| `FilesOpen` | TypeOK, OpenOnce, DevicesStayPut | 2 processes (symmetric), 3 names, 5 slots of which the devices take 3 and room for 2 files, so that the table and the directory are full often and a file is opened that could not be created; open, close, rm, rmdir, mount, exit. 568,144 states, 70 s |
| `FilesCrash` | TreeInOrder | as FilesTree without mkdir; the machine may stop after any disk write of a call (with mkdir among them a stop leaves a link to a directory without links: `fs.c:474` links the new inode in its parent first). 4,077 states, 1 s |
| `ConsoleOldStatus` | NoStatusOfTheLiving, violated | see 5.4 |
| `FilesExclusive` | ExclusiveAccess, violated | see 5.3 |

Bounds. Three processes are one running, one that has left it something (a wait, a parent, a
lock) and one that comes in between. A pid is given out again as soon as there are three. The
program of a process is one address: what the kernel does depends only on whether the pc is
`Null`. Slices of 0 make a switch possible at every call, larger ones let a process run on.
The tables for waits are smaller than the process table, as in the code (20 waits, 30 processes).
`KeepRoom` has the user of the `Console` run type only while a pid is free; `ConsoleFull` drops it.
In `Disk` two addresses tell a block from its neighbour, and a third one is refused; two symbols
are less than any request or answer, so both sides wait for each other in the middle of one.
`Lengths` is {BlockLen}: the file system takes the length from the superblock (`DiskLength`).
On the disk, two names in two directories let a directory have a neighbour, be nested and be
made again; two-block files reuse blocks of files removed. All addresses of the passing runs are
below 32, where the bitmap works. The passing runs take `DirectoryBlocks` as 1, which makes a
smaller disk enough; a real `directory_t` takes two 1-KB blocks, and the divergence runs on disks
use that where it matters.

`VIEW Tables` (KernelWaits, KernelLocks) drops r0, sp and `intact`: the kernel writes them and
never reads them, and neither do those runs' properties. `KernelLocks` and `KernelWaits` leave
kills out because with them the properties do not hold (5.2, 6). `NoStarvation` needs exits left
out (5.1).

Deadlock is not checked where a system may stop: the processor leaves the programs when the last
process exits, the dinner is over, the disk is at its bound. `KernelFairness` cannot stop, and
checks for deadlock.

Fairness. `FairSpec` has weak fairness of `Tick`: the timer is periodic and nothing switches it
off. `DinnerFairness` says that a program which is on the processor again and again takes steps
again and again: a time slice is long enough for a step. `ConsoleFairness` says the same of the
console and its children, except that the user need not type. No fairness is assumed of the
scheduler or the lock; who runs next is what the code computes. In `Disk` driver and disk each have
weak fairness: the one polls, the other is a process of the host; no symbol need ever be asked for.

## 4. What is proved

`KernelProofs` (on the lemmas of `SchedulerProofs`), for every number of processes, every size
of the tables, every slice and set of programs:

| theorem | assuming | property |
|---|---|---|
| `TypeCorrect` | nothing beyond the constants' assumptions | TypeOK |
| `ProcessorStaysInUse` | no process kills itself | ProcessorInUse |
| `RegistersSurvive` | same | ContextIntegrity |
| `BooksInOrder` | no kills, no exit status -1 | the inductive invariant `InOrder` |
| `ParentsStayAlive` | same | ParentsAlive |
| `NoWakeupIsLost` | same | NoLostWakeup |
| `AnswersComeAtTheEnd` | same | AnsweredAtItsEnd |
| `SharingStaysInTheFamily` | same | SharedWithinFamily |

`DiskProofs`, for every size of the disk up to 2^31 - 1 blocks, every length of a block, all data
and addresses, and every capacity of the line:

| theorem | assuming | property |
|---|---|---|
| `AnswersStayInStep` | the blocks have one length (`SameLengths`) | InStep |
| `DriverIsBlockDevice` | same | IsBlockDevice, the refinement of `BlockDevice` |

`DiningProofs` (on `DiningInvariant` and `ProgramProofs`), for every number of philosophers and
rounds, every slice, and every table of processes and waits that has room for the philosophers:

| theorem | assuming | property |
|---|---|---|
| `DinnerStaysFine` | the constants' assumptions | the inductive invariant `FineNow` |
| `ArbitratorIsMutex` | same | LockIsMutex, the refinement of `Mutex` |
| `TableStaysInOrder` | same | TableInOrder |
| `SeatsAreTakenOnce` | same | SeatsTakenOnce |
| `EveryRoundIsAMeal` | two philosophers or more | EveryRoundAMeal |

One philosopher has one fork, which is both the left and the right one, and never eats. The room
is needed: with a table that fills up `fork_wait` fails, and `main_dp` does not look.

`ConsoleProofs` (on `ProgramProofs`), for every set of programs and lines, every table of
processes and every slice:

| theorem | assuming | property |
|---|---|---|
| `OneConsoleOnly` | no exit status -1 | OneConsole |
| `ForegroundComesFirst` | same, and at least one wait per process | ForegroundFirst |
| `WaitsAreAccepted` | no exit status -1 or -2, and room for a wait for every process | WaitsAccepted |

`FileProofs`, for every size of the disk, of a directory, an inode and the table of open files,
every number of processes and every set of names, paths, modes, contents and calls:

| theorem | assuming | property |
|---|---|---|
| `FileOpenOnce` | the constants' assumptions | OpenOnce |
| `DiskIsUpToDate` | same | DiskUpToDate |
| `FileTypes` | `FilesAsMeant` | TypeOK |
| `BlocksAreInOrder` | same | BlocksInOrder |
| `WritesAreReadBack` | same | ReadsBack |
| `TreeStaysInOrder` | `FilesAsMeant`, `NoRmdir` | TreeInOrder |
| `ListedFilesAreThere` | same | ListedIsThere |
| `DevicesAreThere` | `FilesAsMeant`, `DevicesLeftAlone` | DevicesStayPut |
| `FilesStayTheirOwn` | `FilesAsMeant`, `DevicesLeftAlone` | FilesStay, the refinement of `FileStore` |

The first two hold of every disk, every call and every crash, dirty stack or not. `FilesAsMeant`
is what the rest needs: every block and inode has a bit in its bitmap; no call or restart begins with fewer
free blocks than one call may take, and a new disk has room for the root, `/dev` and the
devices; paths do not lead through "." or ".."; the kernel's stack reads as zeros; the machine
stops between calls only. TLC refutes `BlocksInOrder` on disks with blocks that have no bit
(`FilesBitmap`), that may fill up (`FilesFull`), with a dirty stack (`FilesStack`), and stopped
inside a call (`FilesCrashBlocks`); the Makefile's disk of 65536 blocks does not fulfil the first
(5.5). Paths through "." and ".." are left out for the proof's sake. `DevicesLeftAlone` says that no program uses the
names of `/dev` and its devices and that the table has room for the three of them. `NoRmdir` says
that no program calls rmdir. The tree does not survive that call: of a missing name it gives the
parent's inode back and leaves the link to it (`FilesRmdirMissing`), and of any name in `/` it leaves
the link in the root's copy in memory (`FilesRmdir`), which the next new file in `/` writes to the disk.
The instance of `FilesTree` fulfils all three, that of `FilesOpen` the first two; that of
`FilesCrash`, which stops inside calls, is about the first two theorems.

The assumptions are not convenience: kills break the kernel's properties (5.2 and 6), an exit
status of -1 is taken for "no answer yet" by `sys_wait` and `waitp`, one of -2 for a refusal, and a
driver that asks for another length than the disk's is out of step for good (`DiskLength`). The
room `WaitsAreAccepted` asks for is more than the kernel has: with its 20 waits for 30 processes
statuses nobody collects fill the table (`ConsoleTable`), so that the theorem says what the
constants would have to be, and the property holds of the code only while few enough programs have
been started with `fork`.

The argument for the kernel. All handlers end in the scheduler or do not touch the queues, so
`SchedulerEffect` is proved first: the scheduler leaves every PCB's books alone, saves the frame
of the process that leaves into its context and loads that of one the table shows as active, or
changes nothing but the slice. Then three layers, each inductive given the ones before:

1. `TypedNow`: the record is a `Machine`, and every waiting time is the rank the scheduler gives
   it. The rank's bound is why the type invariant alone is not inductive.
2. `InUseNow`: the running process is active in the table. `ProcessorInUse` is not inductive: a
   switch saves the *frame*, so that its pc is not `Null` has to be carried along.
3. `InOrder`: `OneEntry` (a process has at most one wait for any pid), `Known` (an open wait is
   for an active process that has its waiter on record) and `Families` (parents are active).
   `NoLostWakeup` alone is not inductive: `update_waiters` answers the *first* entry for the
   process that ends, so that a second entry would stay unanswered; `OneEntry` excludes it.

`RegistersSurvive` is an action property on the second layer. `RegistersOf` is where a process's
registers are, frame or context; `SchedulerMoves` shows that the scheduler moves nobody's, fork
gives new ones to the child only, and the result of a call goes to its caller.

The argument for the dinner. `ProgramProofs` turns each system call into what its caller sees:
`Goes` (the caller goes on at a label with a result, everybody else stays where they are) and
which waits, parents and pointers change. It rests on the kernel's layers, as `Sound`; nothing
after it looks into the process table or the scheduler, so a tick is one more step in which nobody
goes anywhere. None of the four properties is inductive. `Fine` adds what each of them needs:

* `MainOk`, `GuestsOk`: who exists is `main_dp` and the philosophers it has forked, each once; a
  philosopher just forked may have its pid only in `main_dp`'s r0. So all who share the pointer
  are philosophers.
* `WaitsOk`: for each philosopher `main_dp` has not collected there is an entry, open while the
  philosopher lives, answered when it has gone. Without it `main_dp` could unshare the arbitrator,
  and take the lock bit with it, while somebody is between `lockm` and `unlockm`.
* `StartOk`: nobody passes `await` before all have been forked. Two pigeonhole arguments carry it:
  the last id is taken only when there are as many philosophers as ids (`EnoughGuests`), and while
  nobody has gone a fork finds a pid and a free entry (`RoomToSpawn`).
* `LockOk`, `SeatsOk`, `ForksOk`: the lock bit is TRUE when somebody is past a successful `lockm`;
  ids go out in order; a fork off the table is in its holder's hand. So whoever has the lock finds
  both forks, and the branches with one fork or none are not reached.
* `MealsOk`: rounds and meals counted agree at each label, and every answer is `Rounds`.

A philosopher's step keeps `Fine` by `GuestFine`, which asks of the single actions only where they
lead and what they do to seats, forks and meals; `main_dp`'s fork, wait and collection have lemmas
of their own, since they change who is a guest and what is awaited.

The argument for the console. The labels of `console.c` are disjoint from the programs' entry points
(`ConsoleAssumption`), and `Places` says who is where: process 1 at a label of the loop, a child at
the label behind its fork or in a program. With `Sound` it is inductive (`InPlace`) and gives
`OneConsole`. For `ForegroundFirst`, `Foreground` ties the child to the line: until the first
"fork" there is at most one child, its program is a word of `input`, and the console, while there
is one, is at the wait for it. `Heard` is what brings the console back no sooner: a child forked
and not yet collected has an entry in the table, open exactly while it lives, so an answer means
an end. `WaitsAccepted` is about the table's room. `Accepting` adds that the console never waits
for itself (`NeverItself`) and that a refusal it has in r0 is about somebody dead
(`RefusedTheDead`); a wait for a living process is then refused only by a full table, and a
pigeonhole argument (`FullTable`, `AlwaysRoom`) shows that a full table of entries for different
processes has one for each of them, the one asked about included.

The argument for the file system. A call is an operator from one state record to the next, so
each operator of `FileSystem` and `FileDescriptors` has a lemma about the record it returns,
and these compose as the calls do. There are four layers:

1. `Safe`: the table of open files has no file twice, and the superblock on the disk is the one in
   memory while it is mounted. Each is kept by every operator whatever the disk holds, so that
   crashes and a dirty stack do not matter.
2. `InOrder`. `BlocksInOrder` is not inductive: a call finds the blocks it gives back through
   inodes, and the inodes through directories. `Whole` says that inodes are where their numbers
   say and have their bits; `Owned`, that blocks in use are marked and have one owner; `Readable`,
   that each directory can be read as links; `Rooted`, that the root's copy in memory is one too.
   They do not say that the copy is current, which does not hold (`FilesRmdir`). A step of a call
   disturbs one inode at a time: `Touched` says what the step may do to that one and that
   the others stay, block for block (`Frame`), and keeps `Good`. `After` adds up what a
   whole call does: the blocks it took, and that at most one file has changed, which is both the step of
   `FileStore` and, with what `WriteNext` put into the new blocks, `ReadsBack`. Blocks are
   counted, because `free_data_block` of a full disk answers block 0.
3. `HasIo`. The devices are inodes 2 to 4 in `/dev`, inode 1, found under their names from the root and
   its copy, and their descriptors come first. Without it `mount` might make a file for a
   device it does not find, two in one step, which `FileStore` does not allow. rmdir of
   a missing name takes the parent away (`FilesRmdirMissing`); `/dev` is spared because it
   has too many links (`DevIsFull`).

4. `Tree`, for `TreeInOrder` and `ListedIsThere`. Both speak of directories reached from the root,
   and a call that cuts a directory off or links it changes what is reached. What is inductive is
   about every directory in use, reached or not (`OnDisk`): its links are distinct (`Hangs`) and lead
   to inodes in use, two directories share none, and the ".." of a directory is the one that links
   it. The last part is what a removal needs: `rm` finds an inode through *one* link, and
   only because no second one exists does giving it back leave none behind. The root's
   copy may be out of date, as an open that fills the table leaves it, but only by having
   less in it than the disk's (`InTree`), so that writing it out links nothing that is gone. A
   mkdir or an open adds a link to an inode that no directory links yet (`NewIsNotThere`). Then
   `TreeRuns` follows the levels of `DirsOfTree` from the root, and `PathLeads` a path.

The loops of the code (over the blocks of a file, the names of a path, the inodes and devices of a
new disk) are recursive functions over an interval. What such a function is has to be shown
first: that there is a run of the loop which starts and goes on as defined, so that the recursive
function, a CHOOSE, is one. `UpTo` is the induction for that and for every invariant of a
loop: it is about one set at a time, not an operator, and follows from the least element of a set of
naturals. `Prepared`, `RootMade`, `DevsMade` and `Fresh` say what there is after each part of the
formatting.

The argument for the disk. `InStep` is about answers that have arrived and says nothing of the
bytes on their way; what is inductive is `IInv`: nothing is under way, or one request is spread in
order over driver, line and disk, or one answer is spread over disk, line and driver. `Spread` is
that notion, and the sequence lemmas show it kept by every symbol sent or received. Two more facts
close it. The driver knows where an answer ends from the call it made and the first byte
(`WantedIsAll`), which is where `SameLengths` is needed. The disk, which reads up to a newline, has
the whole request and no more (`RequestInFull`): requests carry no newline before their last byte,
since addresses and data travel as hexadecimal digits. The refinement maps the driver's success to
the abstract `Succeed`, its third refusal to `Fail`, and all else to a stutter or a torn block.

Only model-checked: liveness (`NoStarvation`, `DinnerEnds`, `PromptComesBack`, `CallsReturn`),
which is out of the prover's reach; `TreeInOrder` with stops inside calls (`FilesCrash`), where the
images within a call have to be followed one by one (8). Fixed-length
scans of C arrays are sets and CHOOSE here, so that no RECURSIVE operator stands in the way of proofs.

## 5. Where the code and its documents disagree

3 and 4 are listed as findings, each with a run whose counterexample shows it; the configurations
that show the others are kept beside the runs (6).

1. **Starvation.** `notes.md:22` says "No chance of starvation". `sys_fork` switches to the child
   without asking the scheduler, and when the child, a background process, exits, `next_pid` looks
   into the other queue first and finds the interactive parent. A console that goes on starting
   programs which end keeps a background process from the processor for ever, however long that one
   has waited (`KernelStarvation`). Without exits nobody starves (`KernelFairness`).
2. **Killed processes answer nobody.** `sys_kill` calls `fix_orphaned_processes` and
   `update_waiters` with the caller's pid, not the victim's. Whoever waits for the victim waits for
   ever (`KernelKillWaiters`).
3. **Exclusive access.** `notes.md:52` says one process at a time. Any process may close any
   descriptor, and the id, the number of files open, is given out again while the first holder
   still has it: two processes reach one file through it (`FilesExclusive`).
4. **Old statuses.** `libc.c:368` says that -1 is still waiting, -2 an error and anything else the
   exit status. `fork_wait` registers a wait for a program started with `fork`, and the console
   never collects its answer. The entry outlives the program, `sys_wait` looks for the pid only,
   and the wait for the next program with that pid is answered with the old status while it still
   runs (`ConsoleOldStatus`).
5. **Bitmaps.** `bitmap.h` takes a 32-bit word to have 128 bits. Bits 32 to 127 are shifted out:
   such blocks are never marked as taken and are given to one file after the other (`FilesBitmap`).

## 6. Further configurations

These `.cfg` files are kept beside the runs. Each refutes one property within seconds, unless it
is marked otherwise, and documents something met while modelling.

| configuration | property | what it shows |
|---|---|---|
| `KernelStarvation` | NoStarvation | 5.1 |
| `KernelKillWaiters` | NoLostWakeup | 5.2 |
| `KernelKillAnswers` | AnsweredAtItsEnd | killing another tells the killer's waiters that the killer has failed, while it runs on (`system_calls.c:82`) |
| `KernelKillOrphans` | ParentsAlive | the victim's children keep a dead parent (`system_calls.c:81`) |
| `KernelKillSelf` | ProcessorInUse | one that kills itself is not gone while its slice lasts: the machine jumps to address 0. The status of that kill lands in r0 of the process scheduled next (`hilevel.c:87`), against ContextIntegrity |
| `KernelNullAnswer` | EveryAnswerHasASlot | `update_waiters` writes through the NULL of `get_waiting` |
| `KernelStacks` | StacksDisjoint | after a fork parent and child run on one stack |
| `ConsoleBuffers` | BuffersKept | a child started with `fork` parses its command from buffers the console has cleared for the next one |
| `ConsoleTable` | WaitsAccepted | statuses nobody collects fill the table of waits, and `fork_wait` registers no more |
| `ConsoleFull` (74 s) | PromptComesBack | no free pid: a failed fork returns -1, and the console waits for process -1 |
| `FilesBitmap` | BlocksInOrder | 5.5 |
| `FilesHeld` | OthersStayHeld | the memmove of `processes.c:270` goes the wrong way: closing one file loses another |
| `FilesRmdir` | RootDirCurrent | rmdir returns before it reads the root again (`file_system_calls.c:378`). So does an open that fills the table, or gets the inode of a file still open |
| `FilesRmdirMissing` | TreeInOrder | rmdir of a missing name deletes the empty parent |
| `FilesFull` | BlocksInOrder | on a full disk contents go to block 0, the superblock |
| `FilesRead` | ReadsOnlyFiles | a read of an empty file returns block 0, the superblock |
| `FilesCrashBlocks` | BlocksInOrder | a stop between inode and superblock leaves blocks that look free |
| `FilesUnmount` | UnmountClosesFiles | unmount skips every second open file |
| `FilesPath` | PathsResolve | a path through a directory that is not there still leads to a file |
| `FilesStack` | BlocksInOrder | with a dirty stack a new file starts with the block list left there |
| `DiskLength` | InStep | a driver that takes the blocks for longer or shorter than the disk's reads one answer as part of another |

## 7. What is left out

* `ps`, string helpers, printing, the UART, keyboard, screen and timer drivers, `lolevel.s` (it
  saves and restores the frame the model starts from), the straight-line programs.
* What parent and child do to each other's variables on the stack they share (`KernelStacks`),
  beyond the console's buffers (`ConsoleBuffers`): it depends on where the compiler keeps them.
* Symbols lost on the line. The code has no timeout for them: the driver waits for ever.
* The end of the disk program, and failures of the disk inside a file call: `fs.c` passes over
  the status of most transfers, and the calls' further course is then that of arbitrary data.
* The bitmap of free blocks is long enough for 16384 of the 65536 blocks an address can name; the
  disks here are smaller than either.
* File calls after `unmount`: they dereference the superblock pointer that it sets to NULL.
* `libc.h` numbers the standard streams differently from the kernel (`STDOUT_FILENO` is 2, the
  kernel's stdout is descriptor 1); both are write-global, so the models do not tell them apart.

## 8. Plan

Done: `Processes`, `Scheduler`, `Kernel` with its theorems, the registers' included; `Mutex`,
`DiningPhilosophers` and `Console`, each with theorems for every safety property; `Bitmap`,
`FileSystem`, `FileDescriptors`, `FileStore`, `FileSystemCalls` with reads and `ls` as observers,
and theorems for all their safety properties; `BlockDevice` and `Disk` with its theorems.

Left, in this order:

1. `TreeInOrder` with stops inside calls: which of the images of one call a stop may leave.
   `Touched` follows the disk block by block already; the bitmaps, and with them `InOrder`, are those
   of the image then, not of memory.
2. `TreeInOrder` with rmdir of names that are there and are not in `/`.
