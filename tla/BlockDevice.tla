------------------------------ MODULE BlockDevice ------------------------------
(***************************************************************************)
(* What the disk driver promises the file system: one call at a time, a    *)
(* write that succeeds has stored the block, a read that succeeds returns  *)
(* it, and a call that fails has changed no block but the one it was to    *)
(* write, of which the first bytes may be new.                             *)
(***************************************************************************)
EXTENDS Integers, Sequences

CONSTANTS BlockNum, BlockLen, Byte, Calls, NoCall

VARIABLES
  blocks,  \* what the blocks hold
  call,    \* the call that is open, or NoCall
  answer   \* what the last call returned: [ok, value]

Block == [1 .. BlockLen -> Byte]

Stored(c) == 0 <= c.addr /\ c.addr < BlockNum /\ Len(c.data) = BlockLen

(* The first k bytes of the new block and the others of the old one.       *)
Torn(new, old, k) == [i \in 1 .. BlockLen |-> IF i <= k THEN new[i] ELSE old[i]]

Init ==
  /\ blocks \in [0 .. BlockNum - 1 -> Block]
  /\ call = NoCall
  /\ answer = [ok |-> FALSE, value |-> <<>>]

Ask ==
  /\ call = NoCall
  /\ call' \in Calls
  /\ UNCHANGED <<blocks, answer>>

Store ==
  /\ call # NoCall /\ call.op = "wr" /\ Stored(call)
  /\ \E k \in 0 .. BlockLen :
       blocks' = [blocks EXCEPT ![call.addr] = Torn(call.data, @, k)]
  /\ UNCHANGED <<call, answer>>

Succeed ==
  /\ call # NoCall
  /\ CASE call.op = "wr" -> /\ Stored(call) /\ blocks[call.addr] = call.data
                            /\ answer' = [ok |-> TRUE, value |-> <<>>]
       [] call.op = "rd" -> /\ call.addr \in DOMAIN blocks
                            /\ answer' = [ok |-> TRUE, value |-> blocks[call.addr]]
       [] call.op = "num" -> answer' = [ok |-> TRUE, value |-> <<BlockNum>>]
       [] call.op = "len" -> answer' = [ok |-> TRUE, value |-> <<BlockLen>>]
  /\ call' = NoCall
  /\ UNCHANGED blocks

(* Only what touches a block can fail.                                     *)
Fail ==
  /\ call # NoCall /\ call.op \in {"wr", "rd"}
  /\ answer' = [ok |-> FALSE, value |-> <<>>]
  /\ call' = NoCall
  /\ UNCHANGED blocks

Next == Ask \/ Store \/ Succeed \/ Fail

Spec == Init /\ [][Next]_<<blocks, call, answer>>
=============================================================================
