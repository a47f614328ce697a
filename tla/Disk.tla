---------------------------------- MODULE Disk ----------------------------------
(***************************************************************************)
(* The disk driver of device/disk.c, the disk of device/disk.py and the    *)
(* line between them: UART2 and the socket the emulator ties it to, which  *)
(* keeps the order of what it carries and loses nothing.                   *)
(*                                                                         *)
(* Driver and disk run at the same time.  The driver puts a request on the *)
(* line and takes from the answer as much as it expects one of this kind   *)
(* to have; neither side marks or numbers what it sends.  A byte, which    *)
(* travels as two hexadecimal digits, is one symbol here, as the space and *)
(* the end of line are: PL011_puth and PL011_geth move whole bytes.        *)
(***************************************************************************)
EXTENDS Integers, Sequences

CONSTANTS
  BlockNum,  \* --block-num of the disk
  BlockLen,  \* --block-len of the disk
  Bytes,     \* what the file system stores
  Addrs,     \* the addresses it asks for
  Lengths,   \* the lengths n it takes a block to have
  Fifo,      \* symbols the line holds, in each direction
  NoCall

DISK_RETRY == 3

Byte == 0 .. 255
SP == 256
NL == 257
Symbol == Byte \cup {SP, NL}

LongMax == 2147483647

(* An address with its top bit set is negative for the disk, which stops;  *)
(* struct.pack( '<l', ... ) takes nothing larger either.                   *)
ASSUME DiskAssumption ==
  /\ BlockNum \in 1 .. LongMax /\ BlockLen \in 1 .. LongMax
  /\ Fifo \in Nat \ {0}
  /\ Bytes \subseteq Byte
  /\ Addrs \subseteq 0 .. LongMax
  /\ Lengths \subseteq Nat

VARIABLES
  call,      \* what the driver was called for, or NoCall
  tries,     \* the requests it has sent for it
  out,       \* what it has still to put on the line
  got,       \* what it has taken of the answer
  answer,    \* what the last call returned
  toDisk,    \* on the line to the disk
  toDriver,  \* on the line to the driver
  line,      \* what the disk's readline() has read
  reply,     \* what the disk has still to send
  image      \* what the disk holds

driver == <<call, tries, out, got, answer>>
disk == <<line, reply, image>>
vars == <<driver, disk, toDisk, toDriver>>

-----------------------------------------------------------------------------
(* Requests and answers                                                    *)

(* A variant with a fault, to test the properties: the high byte first.    *)
BytesHighFirst(n) ==
  <<(n \div 16777216) % 256, (n \div 65536) % 256, (n \div 256) % 256, n % 256>>

(* addr_puth, and struct.pack( '<l', ... ) at the other end.               *)
AddrBytes(n) ==
  <<n % 256, (n \div 256) % 256, (n \div 65536) % 256, (n \div 16777216) % 256>>

(* Four bytes as a signed number, the least of them first.                 *)
Number(b) ==
  b[1] + 256 * b[2] + 65536 * b[3] + 16777216 * (IF b[4] < 128 THEN b[4] ELSE b[4] - 256)

REQ_CONF == 0
REQ_WR   == 1
REQ_RD   == 2

Request(c) ==
  CASE c.op = "wr" -> <<REQ_WR, SP>> \o AddrBytes(c.addr) \o <<SP>> \o c.data \o <<NL>>
    [] c.op = "rd" -> <<REQ_RD, SP>> \o AddrBytes(c.addr) \o <<NL>>
    [] OTHER       -> <<REQ_CONF, NL>>

ACK_OKAY == 0
ACK_FAIL == 1

Failed == <<ACK_FAIL, NL>>

Data(bytes) == <<ACK_OKAY, SP>> \o bytes \o <<NL>>

-----------------------------------------------------------------------------
(* disk.c                                                                  *)

Called(op, a, x, n) == [op |-> op, addr |-> a, data |-> x, len |-> n]

Calls ==
  {Called(op, 0, <<>>, 8) : op \in {"num", "len"}}
    \cup {Called("rd", a, <<>>, n) : a \in Addrs, n \in Lengths}
    \cup UNION {{Called("wr", a, x, n) : a \in Addrs, x \in [1 .. n -> Bytes]} : n \in Lengths}

ASSUME NoCallAssumption == NoCall \notin Calls

Begin(c) ==
  /\ call = NoCall
  /\ call' = c
  /\ tries' = 1
  /\ out' = Request(c)
  /\ got' = <<>>
  /\ UNCHANGED <<answer, disk, toDisk, toDriver>>

disk_get_block_num == Begin(Called("num", 0, <<>>, 8))

disk_get_block_len == Begin(Called("len", 0, <<>>, 8))

disk_wr ==
  \E a \in Addrs, n \in Lengths : \E x \in [1 .. n -> Bytes] : Begin(Called("wr", a, x, n))

disk_rd == \E a \in Addrs, n \in Lengths : Begin(Called("rd", a, <<>>, n))

(* PL011_putc and PL011_getc wait for room and for something to come.      *)
Put ==
  /\ out # <<>> /\ Len(toDisk) < Fifo
  /\ toDisk' = Append(toDisk, Head(out))
  /\ out' = Tail(out)
  /\ UNCHANGED <<call, tries, got, answer, disk, toDriver>>

(* Faulty variant: the end of line after a write is left.                  *)
WantedWithoutEol(c, g) ==
  IF g = <<>> \/ c.op = "wr" THEN 1 ELSE IF Head(g) # ACK_OKAY THEN 2 ELSE 3 + c.len

(* How long the driver takes an answer to be that begins with g.           *)
Wanted(c, g) ==
  IF g = <<>> THEN 1
  ELSE IF Head(g) # ACK_OKAY \/ c.op = "wr" THEN 2
  ELSE 3 + c.len

Get ==
  /\ call # NoCall /\ out = <<>>
  /\ Len(got) < Wanted(call, got)
  /\ toDriver # <<>>
  /\ got' = Append(got, Head(toDriver))
  /\ toDriver' = Tail(toDriver)
  /\ UNCHANGED <<call, tries, out, answer, disk, toDisk>>

Answered == call # NoCall /\ out = <<>> /\ Len(got) = Wanted(call, got)

Value(c, g) ==
  CASE c.op = "num" -> <<Number(SubSeq(g, 3, 6))>>
    [] c.op = "len" -> <<Number(SubSeq(g, 7, 10))>>
    [] c.op = "rd"  -> SubSeq(g, 3, 2 + c.len)
    [] OTHER        -> <<>>

Return(ok, value) ==
  /\ answer' = [ok |-> ok, value |-> value]
  /\ call' = NoCall
  /\ got' = <<>>
  /\ tries' = 0
  /\ UNCHANGED <<out, disk, toDisk, toDriver>>

Succeed ==
  /\ Answered /\ Head(got) = ACK_OKAY
  /\ Return(TRUE, Value(call, got))

(* Faulty variant: the tries are not counted.                              *)
RetryForEver ==
  /\ Answered /\ Head(got) # ACK_OKAY
  /\ out' = Request(call)
  /\ got' = <<>>
  /\ UNCHANGED <<call, tries, answer, disk, toDisk, toDriver>>

Retry ==
  /\ Answered /\ Head(got) # ACK_OKAY /\ tries < DISK_RETRY
  /\ tries' = tries + 1
  /\ out' = Request(call)
  /\ got' = <<>>
  /\ UNCHANGED <<call, answer, disk, toDisk, toDriver>>

GiveUp ==
  /\ Answered /\ Head(got) # ACK_OKAY /\ tries = DISK_RETRY
  /\ Return(FALSE, <<>>)

-----------------------------------------------------------------------------
(* disk.py                                                                 *)

LineRead == IF line = <<>> THEN FALSE ELSE line[Len(line)] = NL

ReadSymbol ==
  /\ reply = <<>> /\ toDisk # <<>>
  /\ ~LineRead
  /\ line' = Append(line, Head(toDisk))
  /\ toDisk' = Tail(toDisk)
  /\ UNCHANGED <<driver, reply, image, toDriver>>

Ack(ack, blocks) ==
  /\ reply' = ack
  /\ image' = blocks
  /\ line' = <<>>
  /\ UNCHANGED <<driver, toDisk, toDriver>>

ServeConf ==
  /\ LineRead /\ line[1] = REQ_CONF
  /\ Ack(Data(AddrBytes(BlockNum) \o AddrBytes(BlockLen)), image)

LineAddr == Number(SubSeq(line, 3, 6))

LineData == SubSeq(line, 8, Len(line) - 1)

Torn(new, old, k) == [i \in 1 .. BlockLen |-> IF i <= k THEN new[i] ELSE old[i]]

(* Faulty variant: a block written in part is acknowledged.                *)
ServeWrUnchecked ==
  /\ LineRead /\ line[1] = REQ_WR
  /\ \/ (LineAddr >= BlockNum \/ Len(LineData) # BlockLen) /\ Ack(Failed, image)
     \/ /\ LineAddr < BlockNum /\ Len(LineData) = BlockLen
        /\ \E n \in 0 .. BlockLen :
             Ack(<<ACK_OKAY, NL>>, [image EXCEPT ![LineAddr] = Torn(LineData, @, n)])

(* os.write may store no more than the first n bytes.                      *)
ServeWr ==
  /\ LineRead /\ line[1] = REQ_WR
  /\ \/ (LineAddr >= BlockNum \/ Len(LineData) # BlockLen) /\ Ack(Failed, image)
     \/ /\ LineAddr < BlockNum /\ Len(LineData) = BlockLen
        /\ \E n \in 0 .. BlockLen :
             Ack(IF n = BlockLen THEN <<ACK_OKAY, NL>> ELSE Failed,
                 [image EXCEPT ![LineAddr] = Torn(LineData, @, n)])

(* os.read may come up short.  The driver makes no other kind of request.  *)
ServeRd ==
  /\ LineRead /\ line[1] = REQ_RD
  /\ \/ Ack(Failed, image)
     \/ LineAddr < BlockNum /\ Ack(Data(image[LineAddr]), image)

SendSymbol ==
  /\ reply # <<>> /\ Len(toDriver) < Fifo
  /\ toDriver' = Append(toDriver, Head(reply))
  /\ reply' = Tail(reply)
  /\ UNCHANGED <<driver, line, image, toDisk>>

-----------------------------------------------------------------------------
Init ==
  /\ call = NoCall
  /\ tries = 0
  /\ out = <<>> /\ got = <<>> /\ toDisk = <<>> /\ toDriver = <<>>
  /\ line = <<>> /\ reply = <<>>
  /\ answer = [ok |-> FALSE, value |-> <<>>]
  /\ image \in [0 .. BlockNum - 1 -> [1 .. BlockLen -> Bytes]]

DriverStep == Put \/ Get \/ Succeed \/ Retry \/ GiveUp

DiskStep ==
  \/ ReadSymbol \/ ServeConf \/ ServeWr \/ ServeRd \/ SendSymbol

Next ==
  \/ disk_get_block_num \/ disk_get_block_len \/ disk_wr \/ disk_rd
  \/ DriverStep \/ DiskStep

Spec == Init /\ [][Next]_vars

(* The driver polls and the disk is a program of its own: neither stops    *)
(* while it can go on.                                                     *)
FairSpec == Spec /\ WF_vars(DriverStep) /\ WF_vars(DiskStep)

-----------------------------------------------------------------------------
(* What the disk promises                                                  *)

(* Between two calls nothing is under way: what the driver takes for the   *)
(* answer to its next request is the answer to it, however often a request *)
(* was refused (disk.c:72-114, disk.py:109-130).                           *)
InStep ==
  call = NoCall => /\ toDisk = <<>> /\ toDriver = <<>>
                   /\ line = <<>> /\ reply = <<>>

(* To the file system driver and disk are a block device: what success and *)
(* failure of a call say about the blocks ("r < 0 means failure",          *)
(* disk.h:8-19).                                                           *)
Device ==
  INSTANCE BlockDevice WITH blocks <- image, Byte <- Bytes

IsBlockDevice == Device!Spec

(* Every call returns: driver and disk never wait for each other, however  *)
(* little the line holds, and a request is not repeated for ever           *)
(* (disk.c:73-91, PL011.c:44-56).                                          *)
CallsReturn == call # NoCall ~> call = NoCall
=============================================================================
