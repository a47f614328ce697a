---------------------------- MODULE FileDescriptors ----------------------------
(***************************************************************************)
(* The table of open files (kernel/fs.c: fdid_to_fd, add_fd, close_file)   *)
(* and each process's own list of the descriptors it holds                 *)
(* (kernel/processes.c:234-284).  Both are sequences.                      *)
(***************************************************************************)
EXTENDS Integers, Sequences, SequencesExt

CONSTANTS
  MaxOpenFiles   \* MAX_OPEN_FILES

ASSUME OpenFilesAssumption == MaxOpenFiles \in Nat \ {0}

READ         == 0
WRITE        == 1
READ_WRITE   == 2
READ_GLOBAL  == 3
WRITE_GLOBAL == 4

Global == {READ_GLOBAL, WRITE_GLOBAL}

FdId == 0 .. MaxOpenFiles - 1

Fd(id, flags, inode) == [id |-> id, flags |-> flags, inode |-> inode]

FdsOf(open, fd) == {k \in 1 .. Len(open) : open[k].id = fd}

IsOpen(open, fd) == FdsOf(open, fd) # {}

FdIdToFd(open, fd) == open[Min(FdsOf(open, fd))]

(* A variant with a fault, to test the properties: a file can be opened    *)
(* though it is open.                                                      *)
AddFdTwice(open, inode, flags) ==
  IF Len(open) >= MaxOpenFiles
    THEN [open |-> open, fd |-> -1]
    ELSE [open |-> Append(open, Fd(Len(open), flags, inode)), fd |-> Len(open)]

(* Faulty variant: the table's size is not looked at.                      *)
AddFdUnbounded(open, inode, flags) ==
  LET ofInode == {k \in 1 .. Len(open) : open[k].inode = inode}
      f == open[Min(ofInode)]
  IN  IF ofInode # {}
        THEN [open |-> open, fd |-> IF f.flags \in Global THEN f.id ELSE -1]
        ELSE [open |-> Append(open, Fd(Len(open), flags, inode)), fd |-> Len(open)]

(* The id of a new descriptor is the number of files open.                 *)
AddFd(open, inode, flags) ==
  LET ofInode == {k \in 1 .. Len(open) : open[k].inode = inode}
      f == open[Min(ofInode)]
  IN  IF Len(open) >= MaxOpenFiles
        THEN [open |-> open, fd |-> -1]
        ELSE IF ofInode # {}
          THEN [open |-> open, fd |-> IF f.flags \in Global THEN f.id ELSE -1]
          ELSE [open |-> Append(open, Fd(Len(open), flags, inode)), fd |-> Len(open)]

(* Faulty variant: files open to everybody are closed like others.         *)
CloseFileGlobal(open, fd) ==
  IF ~IsOpen(open, fd) THEN open ELSE RemoveAt(open, Min(FdsOf(open, fd)))

CloseFile(open, fd) ==
  IF ~IsOpen(open, fd) \/ FdIdToFd(open, fd).flags \in Global
    THEN open
    ELSE RemoveAt(open, Min(FdsOf(open, fd)))

CloseKth(open, k) == IF k > Len(open) THEN open ELSE CloseFile(open, open[k].id)

(* unmount's loop: the table moves up under the index.                     *)
CloseAll(open) ==
  LET after[k \in 0 .. Len(open)] ==
        IF k = 0 THEN open ELSE CloseKth(after[k - 1], k)
  IN  after[Len(open)]

-----------------------------------------------------------------------------
(* A process's own list                                                    *)

AddProcessFd(held, fd) ==
  IF Len(held) >= MaxOpenFiles THEN held ELSE Append(held, fd)

HeldAt(held, fd) == {k \in 1 .. Len(held) : held[k] = fd}

(* The memmove goes the wrong way: the entries behind the removed one move *)
(* down a place instead of up, and the last one or two fall off the end.   *)
RemoveProcessFd(held, fd) ==
  IF HeldAt(held, fd) = {}
    THEN held
    ELSE [k \in 1 .. Len(held) - 1 |->
            IF k <= Min(HeldAt(held, fd)) THEN held[k] ELSE held[k - 1]]

ProcFdOpen(held, fd) == HeldAt(held, fd) # {}

ProcessHasFilePermission(open, held, fd, mode) ==
  /\ IsOpen(open, fd)
  /\ LET f == FdIdToFd(open, fd)
     IN  \/ mode = READ /\ f.flags = READ_GLOBAL
         \/ mode = WRITE /\ f.flags = WRITE_GLOBAL
         \/ f.flags \in {READ_WRITE, mode} /\ ProcFdOpen(held, fd)
=============================================================================
