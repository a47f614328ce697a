---------------------------- MODULE FileSystemCalls ----------------------------
(***************************************************************************)
(* The file system calls of kernel/file_system_calls.c, made by processes  *)
(* in any order.  The supervisor-call handler runs with interrupts masked, *)
(* so a call is one step; the disk is a process of its own, which keeps    *)
(* what it was told when the machine stops, between two calls (Restart) or *)
(* in the middle of one (the crashes of Ends).                             *)
(*                                                                         *)
(* A path is the sequence of its directories; every path starts at "/", as *)
(* the programs write them, and ends in a name of Names.                   *)
(***************************************************************************)
EXTENDS FileSystem, FileDescriptors

CONSTANTS
  Procs,       \* the processes that make calls
  Names,       \* the names programs give to files and directories
  Paths,       \* the directories they look for them in
  Modes,       \* the flags they open files with
  Contents,    \* what they write: sequences of blocks
  DirtyStack,  \* FALSE: the kernel's stack reads as zeros where nothing was written
  Reserve,     \* bound: calls and restarts are made while that many
               \* data blocks are free
  Calls        \* the calls the programs of an instance make

CallName == {"open", "close", "write", "mkdir", "rmdir", "rm", "mount",
             "unmount", "exit", "restart", "crash"}

ASSUME CallsAssumption ==
  /\ Modes \subseteq {READ, WRITE, READ_WRITE, READ_GLOBAL, WRITE_GLOBAL}
  /\ Names \subseteq STRING \ {".", ".."}
  /\ Paths \subseteq Seq(STRING)
  /\ \A contents \in Contents : contents \in Seq(Range(contents))
  /\ DirtyStack \in BOOLEAN
  /\ Reserve \in Nat
  /\ Calls \subseteq CallName

VARIABLES
  disk,     \* the blocks of the disk
  sb,       \* *mounted
  root,     \* *root_dir
  open,     \* *open_files
  held,     \* the fd_table of each process
  mounted   \* mounted # NULL and the machine runs

vars == <<disk, sb, root, open, held, mounted>>

Now == [disk |-> disk, sb |-> sb, root |-> root, open |-> open, held |-> held,
        seen |-> <<>>]

NoSuperblock == [num |-> 0, inodes |-> {}, blocks |-> {}]

(* What earlier calls may have left on the stack: an inode of the disk.    *)
Stacks(m) ==
  {Blank} \cup
  (IF DirtyStack THEN {[inode |-> InodeAt(m, i), dir |-> <<>>] : i \in InodeId} ELSE {})

-----------------------------------------------------------------------------
(* open_file and the calls                                                 *)

(* The inode variable after the parent directory was looked for: the       *)
(* parent's, or what the stack held.                                       *)
ParentInode(m, path, stack) ==
  InodeOr(m, IF path = <<>> THEN -1 ELSE PathToInodeId(m, m.root, path, stack),
          stack.inode)

ParentDir(m, path, stack) ==
  IF path = <<>> THEN m.root ELSE DirOr(m, ParentInode(m, path, stack), stack.dir)

OpenInode(m, id, flags) ==
  LET a == AddFd(m.open, id, flags)
  IN  [m |-> [m EXCEPT !.open = a.open], fd |-> a.fd]

(* A file that could not be created is opened as inode -1.                 *)
OpenCreated(c, flags) == OpenInode(c.m, c.id, flags)

OpenIn(m, d, name, flags, stack) ==
  LET id == PathToInodeId(m, d, <<name>>, stack)
  IN  IF id # -1
        THEN OpenInode(m, id, flags)
        ELSE IF flags \in {WRITE, READ_WRITE, WRITE_GLOBAL}
          THEN OpenCreated(CreateFile(m, d, name, File, stack), flags)
          ELSE [m |-> m, fd |-> -1]

OpenFile(m, path, name, flags, stack) ==
  OpenIn(m, ParentDir(m, path, stack), name, flags, stack)

(* The second half of open: the descriptor of o goes to process p.         *)
HoldOpened(p, o) ==
  IF o.fd = -1 \/ ~IsDir(InodeAt(o.m, 0))
    THEN o.m
    ELSE [ReadRootDir(o.m) EXCEPT !.held[p] = AddProcessFd(@, o.fd)]

SysOpen(m, p, path, name, flags, stack) ==
  HoldOpened(p, OpenFile(m, path, name, flags, stack))

(* Whoever calls: the descriptor need not be its own.                      *)
SysClose(m, p, fd) ==
  IF ~IsOpen(m.open, fd)
    THEN m
    ELSE [m EXCEPT !.open = CloseFile(@, fd), !.held[p] = RemoveProcessFd(@, fd)]

SysWrite(m, p, fd, contents) ==
  LET id == FdIdToFd(m.open, fd).inode
  IN  IF \/ ~ProcessHasFilePermission(m.open, m.held[p], fd, WRITE)
         \/ id = -1
         \/ InodeAt(m, id).type # File
        THEN m
        ELSE WriteToInode(m, InodeAt(m, id), contents)

(* A variant with a fault, to test the properties: a file is taken to lie  *)
(* in one piece.                                                           *)
SysReadInOnePiece(m, p, fd, n) ==
  LET id == FdIdToFd(m.open, fd).inode
  IN  IF \/ ~ProcessHasFilePermission(m.open, m.held[p], fd, READ)
         \/ id = -1
         \/ InodeAt(m, id).type # File
        THEN <<>>
        ELSE [k \in 1 .. n |-> m.disk[InodeAt(m, id).blocks[1] + k - 1]]

(* The first n blocks through a descriptor, none when read fails.  Of a    *)
(* file that is shorter the inode's further entries are followed.          *)
SysRead(m, p, fd, n) ==
  LET id == FdIdToFd(m.open, fd).inode
      inode == InodeAt(m, id)
  IN  IF \/ ~ProcessHasFilePermission(m.open, m.held[p], fd, READ)
         \/ id = -1
         \/ inode.type # File
         \/ n > MaxInodeBlocks
        THEN <<>>
        ELSE [k \in 1 .. n |-> m.disk[inode.blocks[k]]]

(* The names ls lists, none when there is no such directory.               *)
SysLs(m, path) ==
  LET id == PathToInodeId(m, m.root, path, Blank)
  IN  IF id = -1 THEN {} ELSE {l.name : l \in Range(DirOr(m, InodeAt(m, id), <<>>))}

NotThere == "not there"

SysStat(m, path) ==
  LET id == PathToInodeId(m, m.root, path, Blank)
  IN  IF id = -1 THEN NotThere ELSE InodeAt(m, id).type

NoParent(m, path, stack) ==
  /\ path # <<>>
  /\ \/ PathToInodeId(m, m.root, path, stack) = -1
     \/ ~IsDir(ParentInode(m, path, stack))

(* A variant with a fault, to test the properties: the root directory in   *)
(* memory is not read again.                                               *)
SysMkdirUnread(m, path, name, stack) ==
  IF NoParent(m, path, stack)
    THEN m
    ELSE CreateDirectory(m, ParentDir(m, path, stack), name, stack).m

(* create_directory leaves everything as it was when it fails.             *)
SysMkdir(m, path, name, stack) ==
  LET Reread(c) == IF c.id = -1 THEN m ELSE ReadRootDir(c.m)
  IN  IF NoParent(m, path, stack)
        THEN m
        ELSE Reread(CreateDirectory(m, ParentDir(m, path, stack), name, stack))

(* A name that is not there leaves the parent's inode in place; what       *)
(* follows the first return is never run.                                  *)
SysRmdir(m, path, name, stack) ==
  LET d  == ParentDir(m, path, stack)
      id == PathToInodeId(m, d, <<name>>, stack)
      Delete(inode) == IF ~IsDir(inode) \/ Len(ReadDir(m, inode)) > 2
                         THEN m
                         ELSE DeleteInode(WriteDir(m, DeleteFileLink(d, name)), inode)
  IN  Delete(InodeOr(m, id, ParentInode(m, path, stack)))

(* Faulty variant: the inode is given back before the link is gone.        *)
SysRmInodeFirst(m, path, name, stack) ==
  LET d  == ParentDir(m, path, stack)
      id == PathToInodeId(m, d, <<name>>, stack)
  IN  IF id = -1
        THEN m
        ELSE ReadRootDir(WriteDir(DeleteInode(m, InodeAt(m, id)), DeleteFileLink(d, name)))

(* Whatever the name stands for, a directory with files in it included.    *)
SysRm(m, path, name, stack) ==
  LET d  == ParentDir(m, path, stack)
      id == PathToInodeId(m, d, <<name>>, stack)
  IN  IF id = -1
        THEN m
        ELSE ReadRootDir(DeleteInode(WriteDir(m, DeleteFileLink(d, name)), InodeAt(m, id)))

OpenDevice(m, name, flags) == OpenFile(m, <<"dev">>, name, flags, Blank).m

OpenIoDevices(m) ==
  OpenDevice(OpenDevice(OpenDevice(m, "stdin", READ_GLOBAL),
                        "stdout", WRITE_GLOBAL),
             "stderr", WRITE_GLOBAL)

(* The test for a disk that is mounted already comes after the superblock  *)
(* in memory was cleared, and never holds.                                 *)
SysMount(m) ==
  LET z == [m EXCEPT !.sb = NoSuperblock, !.root = <<>>, !.open = <<>>]
      block == m.disk[0]
      valid == "sb" \in DOMAIN block /\ block.sb.num = DiskBlocks
      n == IF valid THEN ReadRootDir([z EXCEPT !.sb = block.sb])
                    ELSE CreateIoDevices(InitDisk(z))
  IN  WriteSuperblock(OpenIoDevices(n))

SysUnmount(m) == WriteSuperblock([m EXCEPT !.open = CloseAll(@)])

-----------------------------------------------------------------------------
Becomes(n) ==
  /\ disk' = n.disk
  /\ sb' = n.sb
  /\ root' = n.root
  /\ open' = n.open
  /\ held' = n.held

(* The call ends; or the machine stops in its middle.                      *)
Ends(n) ==
  \/ Becomes(n) /\ UNCHANGED mounted
  \/ /\ "crash" \in Calls
     /\ \E k \in 1 .. Len(n.seen) : disk' = n.seen[k]
     /\ mounted' = FALSE
     /\ UNCHANGED <<sb, root, open, held>>

(* A disk with this bitmap has room for a call.                            *)
Roomy(blocks) == Cardinality({a \in DataAddr : ~GetBit(blocks, a)}) >= Reserve

Call(name) == mounted /\ name \in Calls /\ Roomy(sb.blocks)

NewDisk ==
  SysMount([disk |-> [a \in Addr |-> [zeros |-> TRUE]], sb |-> NoSuperblock,
            root |-> <<>>, open |-> <<>>, held |-> [p \in Procs |-> <<>>], seen |-> <<>>])

Init ==
  \E n \in {NewDisk} :
    /\ disk = n.disk
    /\ sb = n.sb
    /\ root = n.root
    /\ open = n.open
    /\ held = n.held
    /\ mounted = TRUE

Open ==
  \E p \in Procs, path \in Paths, name \in Names, flags \in Modes, stack \in Stacks(Now) :
    Call("open") /\ Ends(SysOpen(Now, p, path, name, flags, stack))

Close ==
  \E p \in Procs, fd \in FdId : Call("close") /\ Ends(SysClose(Now, p, fd))

Write ==
  \E p \in Procs, fd \in FdId, contents \in Contents :
    Call("write") /\ Ends(SysWrite(Now, p, fd, contents))

Mkdir ==
  \E path \in Paths, name \in Names, stack \in Stacks(Now) :
    Call("mkdir") /\ Ends(SysMkdir(Now, path, name, stack))

Rmdir ==
  \E path \in Paths, name \in Names, stack \in Stacks(Now) :
    Call("rmdir") /\ Ends(SysRmdir(Now, path, name, stack))

Rm ==
  \E path \in Paths, name \in Names, stack \in Stacks(Now) :
    Call("rm") /\ Ends(SysRm(Now, path, name, stack))

Mount == Call("mount") /\ Ends(SysMount(Now))

Unmount == Call("unmount") /\ Becomes(SysUnmount(Now)) /\ mounted' = FALSE

(* new_process: an exit forgets what the process holds and closes nothing. *)
Exit ==
  \E p \in Procs :
    /\ Call("exit")
    /\ held' = [held EXCEPT ![p] = <<>>]
    /\ UNCHANGED <<disk, sb, root, open, mounted>>

(* The machine starts anew on the disk as it is, and the console mounts it.*)
Restart ==
  /\ "restart" \in Calls
  /\ "sb" \in DOMAIN disk[0] => Roomy(disk[0].sb.blocks)
  /\ Becomes(SysMount([Now EXCEPT !.held = [p \in Procs |-> <<>>]]))
  /\ mounted' = TRUE

Next ==
  \/ Open \/ Close \/ Write \/ Mkdir \/ Rmdir \/ Rm
  \/ Mount \/ Unmount \/ Exit \/ Restart

Spec == Init /\ [][Next]_vars

-----------------------------------------------------------------------------
(* What the file system promises                                           *)

(* Tables and bitmaps keep their sizes, descriptors name inodes or the     *)
(* failed file -1, and an inode block holds its inode (fs.h:47-93).        *)
TypeOK ==
  /\ DOMAIN disk = Addr
  /\ \A i \in InodeId :
       /\ InodeAt(Now, i).id = i
       /\ InodeAt(Now, i).allocated \in 0 .. MaxInodeBlocks
  /\ sb.inodes \subseteq InodeId /\ sb.blocks \subseteq Addr
  /\ Len(root) < MaxFiles
  /\ Len(open) <= MaxOpenFiles
  /\ Range(open) \subseteq [id : FdId, flags : 0 .. 4, inode : InodeId \cup {-1}]
  /\ \A p \in Procs : Len(held[p]) <= MaxOpenFiles
  /\ mounted \in BOOLEAN

(* The root directory in memory, which every path is looked up in, is the  *)
(* one on the disk (file_system_calls.c:107, 337, 430).                    *)
RootDirCurrent == mounted => root = ReadDir(Now, InodeAt(Now, 0))

(* Between two calls nothing would be lost by stopping the machine: the    *)
(* superblock on the disk is the one in memory (fs.c:273-280).             *)
DiskUpToDate == mounted => disk[0] = [sb |-> sb]

InUse == {i \in InodeId : InodeAt(Now, i).type # Unallocated}

BlocksOf(i) == {<<i, k>> : k \in 1 .. InodeAt(Now, i).allocated}

BlockAt(b) == InodeAt(Now, b[1]).blocks[b[2]]

(* Every block of a file or directory lies in the data area, is marked as  *)
(* taken, and belongs to it alone: no write can reach another's contents   *)
(* (fs.c:29-47, 331-432).                                                  *)
BlocksInOrder ==
  LET used == UNION {BlocksOf(i) : i \in InUse}
  IN  mounted =>
        \A b \in used :
          /\ BlockAt(b) \in DataAddr
          /\ GetBit(sb.blocks, BlockAt(b))
          /\ \A c \in used : BlockAt(b) = BlockAt(c) => b = c

Entries(i) == {l.inode : l \in Range(ReadDir(Now, InodeAt(Now, i)))}

(* The directories that can be reached from the root.                      *)
DirsOfTree ==
  LET Deeper(dirs) == dirs \cup {i \in UNION {Entries(d) : d \in dirs} : IsDir(InodeAt(Now, i))}
      within[n \in InodeId] == IF n = 0 THEN {0} ELSE Deeper(within[n - 1])
  IN  within[InodeNum - 1]

(* From the root every directory can be read, begins with a link to        *)
(* itself, and links only inodes that are in use, each of them once: the   *)
(* tree of the disk as any later mount finds it (fs.c:449-549, 590-623).   *)
TreeInOrder ==
  LET dirs == DirsOfTree
      linksOf(i) == {<<i, k>> : k \in 3 .. Len(ReadDir(Now, InodeAt(Now, i)))}
      links == UNION {linksOf(i) : i \in dirs}
      to(l) == ReadDir(Now, InodeAt(Now, l[1]))[l[2]].inode
  IN  /\ \A i \in dirs :
           /\ HoldsDirectory(Now, InodeAt(Now, i))
           /\ ReadDir(Now, InodeAt(Now, i))[1] = Link(".", i)
      /\ \A l \in links : to(l) \in InUse /\ \A k \in links : to(k) = to(l) => k = l

(* The files on the disk behave as FileStore says: a call changes one file *)
(* and no other, and a restart changes none (fs.c:331-432,                 *)
(* file_system_calls.c:27-54, 196-225).                                    *)
FilesOnDisk ==
  [i \in {j \in InUse : InodeAt(Now, j).type = File} |->
     [k \in 1 .. InodeAt(Now, i).allocated |-> disk[InodeAt(Now, i).blocks[k]]]]

Store == INSTANCE FileStore WITH FileId <- InodeId, files <- FilesOnDisk

FilesStay == Store!Spec

(* What was written is what is read, by whoever may read it and although   *)
(* every write moves the file to other blocks (fs.c:347-442,               *)
(* file_system_calls.c:196-256).                                           *)
ReadsBack ==
  [][\A p \in Procs, fd \in FdId, contents \in Contents :
       /\ Call("write")
       /\ ProcessHasFilePermission(open, held[p], fd, READ)
       /\ disk' # disk /\ Becomes(SysWrite(Now, p, fd, contents))
       => SysRead(Now, p, fd, Len(contents))' = contents]_vars

(* However much is asked for, a read returns blocks of files (fs.c:358).   *)
ReadsOnlyFiles ==
  \A p \in Procs, fd \in FdId, n \in 1 .. MaxInodeBlocks :
    \A block \in Range(SysRead(Now, p, fd, n)) : block \in UNION {Range(c) : c \in Contents}

(* As long as the root directory in memory is current, whatever ls lists   *)
(* is there for stat, and is not an inode that was given back              *)
(* (file_system_calls.c:258-302).                                          *)
ListedIsThere ==
  mounted /\ root = ReadDir(Now, InodeAt(Now, 0)) =>
    \A path \in Paths : \A name \in SysLs(Now, path) :
      SysStat(Now, Append(path, name)) \notin {NotThere, Unallocated}

(* A file is open at most once (fs.c:561-570).                             *)
OpenOnce ==
  \A j, k \in 1 .. Len(open) : open[j].inode = open[k].inode => j = k

(* The descriptors 0, 1 and 2, which libc and the programs know by number, *)
(* are the devices opened by mount, whatever is opened and closed          *)
(* (file_system_calls.c:57-68, fs.c:705-708, libc.h).                      *)
DevicesStayPut ==
  \A fd \in 0 .. 2 :
    /\ IsOpen(open, fd)
    /\ FdIdToFd(open, fd) = Fd(fd, IF fd = 0 THEN READ_GLOBAL ELSE WRITE_GLOBAL, fd + 2)

(* The inode a process reads or writes through a descriptor of its own.    *)
Reached(p, fd) ==
  IF /\ ProcFdOpen(held[p], fd) /\ IsOpen(open, fd)
     /\ FdIdToFd(open, fd).flags \notin Global
    THEN {FdIdToFd(open, fd).inode}
    ELSE {}

(* "Only one process can access a file at a time, unless marked as global" *)
(* (notes.md:52; file_system_calls.c:133-154).                             *)
ExclusiveAccess ==
  \A p, q \in Procs : \A a, b \in FdId :
    Reached(p, a) \cap Reached(q, b) # {} => p = q

(* Closing a file takes its descriptor from the process's list, "shift     *)
(* array left one" (processes.c:269), and no other.                        *)
OthersStayHeld ==
  [][\A p \in Procs, fd \in FdId :
       Call("close") /\ Becomes(SysClose(Now, p, fd))
         => Range(held[p]) \ {fd} \subseteq Range(held[p])']_vars

(* unmount is to "close all open files" (file_system_calls.c:78) but the   *)
(* devices.                                                                *)
UnmountClosesFiles ==
  [][Unmount => \A k \in 1 .. Len(open') : open'[k].flags \in Global]_vars

(* What a path names: nothing, when one of its parts is not there.         *)
Resolve(path) ==
  LET named[k \in 0 .. Len(path)] ==
        IF k = 0 THEN 0
        ELSE IF named[k - 1] = -1 THEN -1
        ELSE IF ~IsDir(InodeAt(Now, named[k - 1])) THEN -1
        ELSE DirectoryLookup(ReadDir(Now, InodeAt(Now, named[k - 1])), path[k])
  IN  named[Len(path)]

(* The walk along a path finds what the path names, "error before we       *)
(* finished the path" (fs.c:216) included.                                 *)
PathsResolve ==
  mounted => \A path \in Paths : PathToInodeId(Now, root, path, Blank) = Resolve(path)
=============================================================================
