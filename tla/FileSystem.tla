------------------------------ MODULE FileSystem ------------------------------
(***************************************************************************)
(* The file system of kernel/fs.c: the superblock with its two bitmaps,    *)
(* inodes, directories and the blocks that hold their contents.            *)
(*                                                                         *)
(* The operators act on a record                                           *)
(*     [disk |-> ..., sb |-> ..., seen |-> ..., ...]                       *)
(* disk is what the disk holds, block by block, sb the superblock in       *)
(* memory, and seen every image the disk has had since the call began: the *)
(* images a crash in the middle of it may leave behind.                    *)
(*                                                                         *)
(* A block holds a superblock, an inode, one part of a directory or one    *)
(* block of a file.  Sizes are counted in blocks; superblock and inode fit *)
(* in one each.  The disk does what it is told (device/disk.c, disk.py):   *)
(* it refuses only addresses that this code never uses.                    *)
(***************************************************************************)
EXTENDS Bitmap, Sequences, SequencesExt

CONSTANTS
  DiskBlocks,       \* disk_block_num
  MaxInodes,        \* MAX_NUMBER_OF_INODES
  MaxInodeBlocks,   \* MAX_INODE_BLOCKS
  DirectoryBlocks,  \* blocks a directory_t takes
  MaxFiles          \* MAX_FILES_IN_DIRECTORY

ASSUME DiskAssumption ==
  /\ {DiskBlocks, MaxInodes, MaxInodeBlocks, DirectoryBlocks, MaxFiles} \subseteq Nat \ {0}
  /\ DirectoryBlocks <= MaxInodeBlocks
  /\ DiskBlocks >= 5 * MaxInodeBlocks /\ MaxInodes >= 5  \* room for the root and /dev
  /\ MaxFiles >= 6

AtLeast(a, b) == IF a >= b THEN a ELSE b

InodeNum == IF DiskBlocks \div MaxInodeBlocks > MaxInodes
              THEN MaxInodes ELSE DiskBlocks \div MaxInodeBlocks

InodeId == 0 .. InodeNum - 1

InodeStart == 1

DataStart == InodeStart + InodeNum

Addr == 0 .. DiskBlocks - 1

DataAddr == DataStart .. DiskBlocks - 1

Unallocated == "unallocated"
File        == "file"
Directory   == "directory"
Device      == "device"

NewInode(id) ==
  [id        |-> id,
   type      |-> Unallocated,
   allocated |-> 0,                                \* blocks_allocated
   blocks    |-> [k \in 1 .. MaxInodeBlocks |-> 0]]

(* What an inode_t and a directory_t on the stack hold before they are     *)
(* written.                                                                *)
Blank == [inode |-> NewInode(0), dir |-> <<>>]

-----------------------------------------------------------------------------
(* Blocks and the superblock                                               *)

Put(m, a, block) ==
  LET image == [m.disk EXCEPT ![a] = block]
  IN  [m EXCEPT !.disk = image, !.seen = Append(@, image)]

AllocateBlock(m, a) == [m EXCEPT !.sb.blocks = SetBit(@, a)]

(* Inodes and the superblock are written through write_sequential_blocks,  *)
(* which marks their blocks too.                                           *)
WriteSuperblock(m) ==
  LET n == AllocateBlock(m, 0) IN Put(n, 0, [sb |-> n.sb])

FreeDataBlock(m) ==
  LET free == {a \in DataAddr : ~GetBit(m.sb.blocks, a)}
  IN  IF free = {} THEN 0 ELSE Min(free)

-----------------------------------------------------------------------------
(* Inodes                                                                  *)

InodeAddr(id) == InodeStart + id

InodeAt(m, id) == m.disk[InodeAddr(id)].inode

IsDir(inode) == inode.type = Directory

WriteInode(m, inode) ==
  LET a == InodeAddr(inode.id)
  IN  WriteSuperblock(Put(AllocateBlock(m, a), a, [inode |-> inode]))

FreeInodeId(m) ==
  LET free == {id \in InodeId : ~GetBit(m.sb.inodes, id)}
  IN  IF free = {} THEN -1 ELSE Min(free)

(* The new inode keeps what the stack held, but for its id and type.       *)
CreateInodeType(m, type, stack) ==
  LET id == FreeInodeId(m)
      n  == [m EXCEPT !.sb.inodes = SetBit(@, id)]
  IN  IF id = -1
        THEN [m |-> m, id |-> -1]
        ELSE [m |-> WriteInode(n, [stack.inode EXCEPT !.id = id, !.type = type]),
              id |-> id]

(* A variant with a fault, to test the properties: the inode is not reset. *)
DeleteInodeKept(m, inode) ==
  LET blocks == {inode.blocks[k] : k \in 1 .. inode.allocated}
      n == [m EXCEPT !.sb.blocks = {a \in @ : a \notin blocks},
                     !.sb.inodes = ClearBit(@, inode.id)]
  IN  WriteInode(n, inode)

(* Faulty variant: the bitmap on the disk still shows the inode in use.    *)
DeleteInodeLate(m, inode) ==
  LET n == WriteInode(m, NewInode(inode.id))
  IN  [n EXCEPT !.sb.inodes = ClearBit(@, inode.id)]

DeleteInode(m, inode) ==
  LET blocks == {inode.blocks[k] : k \in 1 .. inode.allocated}
      n == [m EXCEPT !.sb.blocks = {a \in @ : a \notin blocks},
                     !.sb.inodes = ClearBit(@, inode.id)]
  IN  WriteInode(n, NewInode(inode.id))

(* Faulty variant: the blocks written are not marked as taken.             *)
WriteNextUnmarked(w, k, block) ==
  LET a == FreeDataBlock(w.m)
  IN  [m |-> Put(w.m, a, block), inode |-> [w.inode EXCEPT !.blocks[k] = a]]

(* The k-th block of a file goes to a new place.                           *)
WriteNext(w, k, block) ==
  LET a == FreeDataBlock(w.m)
  IN  [m |-> Put(AllocateBlock(w.m, a), a, block),
       inode |-> [w.inode EXCEPT !.blocks[k] = a]]

WriteBlocks(m, inode, contents) ==
  LET after[k \in 0 .. Len(contents)] ==
        IF k = 0 THEN [m |-> m, inode |-> inode]
        ELSE WriteNext(after[k - 1], k, contents[k])
  IN  after[Len(contents)]

(* _rw_inode when it writes, from the start of the file: every block goes  *)
(* to a new place, the inode follows, and then the superblock.  The blocks *)
(* the file had are not given back.                                        *)
WriteToInode(m, inode, contents) ==
  LET longer == [inode EXCEPT !.allocated = AtLeast(Len(contents), @)]
      end == WriteBlocks(m, longer, contents)
  IN  IF Len(contents) > MaxInodeBlocks THEN m ELSE WriteInode(end.m, end.inode)

-----------------------------------------------------------------------------
(* Directories: sequences of links, the first of them "." and ".."         *)

Link(name, id) == [name |-> name, inode |-> id]

DirectoryParts(d) == [k \in 1 .. DirectoryBlocks |-> [dir |-> d, part |-> k]]

(* The directory an inode leads to.  All that counts is in the first part. *)
(* A block that holds something else is read as if it had no links: what   *)
(* the code would take for links there is not modelled.                    *)
HoldsDirectory(m, inode) ==
  LET block == m.disk[inode.blocks[1]]
  IN  "dir" \in DOMAIN block /\ block.part = 1

ReadDir(m, inode) ==
  IF HoldsDirectory(m, inode) THEN m.disk[inode.blocks[1]].dir ELSE <<>>

(* A directory goes to the inode its first link names.                     *)
WriteDir(m, d) == WriteToInode(m, InodeAt(m, d[1].inode), DirectoryParts(d))

LinksTo(d, name) == {k \in 1 .. Len(d) : d[k].name = name}

DirectoryLookup(d, name) ==
  IF LinksTo(d, name) = {} THEN -1 ELSE d[Min(LinksTo(d, name))].inode

(* Faulty variant: the link stays.                                         *)
KeepFileLink(d, name) == d

DeleteFileLink(d, name) ==
  IF LinksTo(d, name) = {} THEN d ELSE RemoveAt(d, Min(LinksTo(d, name)))

(* The new inode c, or none when they are all in use, gets its link in d. *)
AddLink(d, name, c) ==
  LET links == Append(d, Link(name, c.id))
  IN  IF c.id = -1
        THEN [m |-> c.m, id |-> -1, dir |-> d]
        ELSE [m |-> WriteDir(c.m, links), id |-> c.id, dir |-> links]

CreateFile(m, d, name, type, stack) ==
  IF DirectoryLookup(d, name) >= 0 \/ Len(d) + 1 >= MaxFiles
    THEN [m |-> m, id |-> -1, dir |-> d]
    ELSE AddLink(d, name, CreateInodeType(m, type, stack))

(* The second step of create_directory: the links of the new directory c.  *)
AddDots(parent, c) ==
  LET d == <<Link(".", c.id), Link("..", parent[1].inode)>>
  IN  IF c.id = -1
        THEN [m |-> c.m, id |-> -1, dir |-> <<>>]
        ELSE [m |-> WriteDir(c.m, d), id |-> c.id, dir |-> d]

CreateDirectory(m, parent, name, stack) ==
  AddDots(parent, CreateFile(m, parent, name, Directory, stack))

(* What an inode_t variable holds after a lookup that found id, or after   *)
(* one that failed and left it as it was.                                  *)
InodeOr(m, id, before) == IF id = -1 THEN before ELSE InodeAt(m, id)

DirOr(m, inode, before) == IF IsDir(inode) THEN ReadDir(m, inode) ELSE before

(* A name that is not there leaves the inode of the part before it in      *)
(* place, and the walk goes on from there.                                 *)
Enter(m, w, name) ==
  LET id == DirectoryLookup(w.dir, name)
      inode == InodeOr(m, id, w.inode)
  IN  IF w.stopped
        THEN [w EXCEPT !.id = -1]
        ELSE [id |-> id, inode |-> inode, stopped |-> ~IsDir(inode),
              dir |-> DirOr(m, inode, w.dir)]

PathToInodeId(m, d, path, stack) ==
  LET names == IF path = <<>> THEN <<".">> ELSE path
      walk[k \in 0 .. Len(names)] ==
        IF k = 0 THEN [id |-> -1, inode |-> stack.inode, stopped |-> FALSE, dir |-> d]
        ELSE Enter(m, walk[k - 1], names[k])
  IN  walk[Len(names)].id

-----------------------------------------------------------------------------
(* Preparing a disk                                                        *)

InitInodes(m) ==
  LET after[k \in 0 .. InodeNum] ==
        IF k = 0 THEN m ELSE WriteInode(after[k - 1], NewInode(k - 1))
  IN  after[InodeNum]

CreateRootDirectory(m) ==
  LET c == CreateInodeType(m, Directory, Blank)
      d == <<Link(".", c.id), Link("..", c.id)>>
  IN  [WriteDir(c.m, d) EXCEPT !.root = d]

InitDisk(m) ==
  LET sb == [num |-> DiskBlocks, inodes |-> {}, blocks |-> {}]
  IN  CreateRootDirectory(InitInodes(WriteSuperblock([m EXCEPT !.sb = sb])))

ReadRootDir(m) ==
  LET inode == InodeAt(m, 0)
  IN  IF IsDir(inode) THEN [m EXCEPT !.root = ReadDir(m, inode)] ELSE m

CreateDevice(c, name) == CreateFile(c.m, c.dir, name, Device, Blank)

(* create_directory has put the new entry in the parent it was given.      *)
CreateIoDevices(m) ==
  LET dev == CreateDirectory(m, m.root, "dev", Blank)
      end == CreateDevice(CreateDevice(CreateDevice(dev, "stdin"), "stdout"), "stderr")
  IN  [end.m EXCEPT !.root = Append(m.root, Link("dev", dev.id))]
=============================================================================
