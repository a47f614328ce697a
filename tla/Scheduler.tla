------------------------------ MODULE Scheduler ------------------------------
(***************************************************************************)
(* kernel/scheduler.c: two queues, interactive and background, served in   *)
(* turn; within a queue the process that has waited longest goes first.    *)
(* Every call ages the processes that do not run; the switch happens when  *)
(* the time slice of the current process is used up.                       *)
(***************************************************************************)
EXTENDS Processes

CONSTANTS
  InteractiveSlice,  \* time_left given to an interactive process (1)
  BackgroundSlice    \* time_left given to a background process (6)

ASSUME SliceAssumption == InteractiveSlice \in Nat /\ BackgroundSlice \in Nat

NoPid == -1

Slice(type) == IF type = Interactive THEN InteractiveSlice ELSE BackgroundSlice

Toggle(type) == IF type = Background THEN Interactive ELSE Background

(* The place of p in the scan that starts after process c.                 *)
ScanRank(c, p) == (p - 1 - c) % MaxProcesses

(* A variant with a fault, to test the properties: processes that are not  *)
(* active can be chosen too.                                               *)
OfTypeAny(m, type) == {p \in Pid : m.pcb[p].type = type}

OfType(m, type) == {p \in ActivePids(m) : m.pcb[p].type = type}

(* p goes before q: it has waited longer, or as long and is met earlier.   *)
Before(m, p, q) ==
  \/ m.pcb[p].wait > m.pcb[q].wait
  \/ /\ m.pcb[p].wait = m.pcb[q].wait
     /\ ScanRank(m.current, p) <= ScanRank(m.current, q)

NextPidWithType(m, type) ==
  IF OfType(m, type) = {}
    THEN NoPid
    ELSE CHOOSE p \in OfType(m, type) : \A q \in OfType(m, type) : Before(m, p, q)

(* Faulty variant: the other queue's turn comes when this one is empty.    *)
NextPidOwnFirst(m) ==
  LET type == m.pcb[m.current].type
      own  == NextPidWithType(m, type)
  IN  IF own = NoPid THEN NextPidWithType(m, Toggle(type)) ELSE own

(* The second half of the code's condition, (pid == current->pid && ...),  *)
(* cannot hold: a pid found in the other queue is not the current one.     *)
NextPid(m) ==
  LET type  == m.pcb[m.current].type
      other == NextPidWithType(m, Toggle(type))
  IN  IF other = NoPid THEN NextPidWithType(m, type) ELSE other

UpdateWaiting(m) ==
  [m EXCEPT !.pcb = [p \in Pid |->
     IF Active(m, p) /\ p # m.current
       THEN [m.pcb[p] EXCEPT !.wait = @ + 1]
       ELSE m.pcb[p]]]

(* Waiting times are only compared, set to 0 and counted up together, all  *)
(* but the current process's 0.  Their order is therefore all that a later *)
(* step can see, and after each call they are replaced by their rank, with *)
(* 0 kept as 0: an exact abstraction of an unbounded counter.              *)
WaitTimes(m) == {0} \cup {m.pcb[p].wait : p \in ActivePids(m)}

WaitRank(m, p) ==
  IF Active(m, p)
    THEN Cardinality({w \in WaitTimes(m) : w < m.pcb[p].wait})
    ELSE 0

RankWaiting(m) ==
  [m EXCEPT !.pcb = [p \in Pid |-> [m.pcb[p] EXCEPT !.wait = WaitRank(m, p)]]]

SwitchTo(m, p) ==
  LET n == SetCurrent(m, p)
  IN  [n EXCEPT !.pcb[p].wait = 0, !.pcb[p].left = Slice(n.pcb[p].type)]

(* Faulty variant: a slice is counted down once too often.                 *)
ScheduleOnceMore(m) ==
  IF m.pcb[m.current].left >= 0
    THEN [m EXCEPT !.pcb[m.current].left = @ - 1]
    ELSE IF NextPid(m) = NoPid THEN m ELSE SwitchTo(m, NextPid(m))

Schedule(m) ==
  IF m.pcb[m.current].left > 0
    THEN [m EXCEPT !.pcb[m.current].left = @ - 1]
    ELSE IF NextPid(m) = NoPid THEN m ELSE SwitchTo(m, NextPid(m))

Scheduler(m) == RankWaiting(Schedule(UpdateWaiting(m)))
=============================================================================
