------------------------------ MODULE Processes ------------------------------
(***************************************************************************)
(* The process table of kernel/processes.c: process control blocks, the    *)
(* saved contexts, shared pointers with their lock, and the two tables by  *)
(* which one process waits for another (waiting[] in the waiter, waiters[] *)
(* in the process waited for).                                             *)
(*                                                                         *)
(* The operators act on a machine record                                   *)
(*     [pcb |-> ..., current |-> ..., frame |-> ..., intact |-> ...]       *)
(* so that the handlers that call each other compose by application.       *)
(***************************************************************************)
EXTENDS Integers, FiniteSets, FiniteSetsExt

CONSTANTS
  MaxProcesses,  \* MAX_PROCESSES
  MaxWaiting,    \* MAX_WAITING, waits a process can have open
  MaxWaiters,    \* MAX_WAITERS, processes that can wait for one process
  Null,          \* the address 0, as a pc and as a pointer
  Code,          \* the addresses programs run at
  Ptrs           \* the addresses programs share

ASSUME SizesAssumption ==
  /\ MaxProcesses \in Nat \ {0}
  /\ MaxWaiting \in Nat
  /\ MaxWaiters \in Nat

ASSUME NullAssumption == Null \notin Code /\ Null \notin Ptrs

Pid == 1 .. MaxProcesses

Background  == "background"
Interactive == "interactive"
ProcessType == {Background, Interactive}

(* waiting_t.pid = 0 marks a free slot; its result is read by nobody, so   *)
(* every free slot is kept as this one value.                              *)
NoWait == [pid |-> 0, result |-> -1]

-----------------------------------------------------------------------------
(* Types.  Of the registers a context keeps the pc, the register r0 that   *)
(* carries arguments and return values, and the stack sp points into,      *)
(* named by the pid it belongs to.                                         *)

Ctx == [pc : Code \cup {Null}, r0 : Int, sp : Pid]

Pcb == [ppid    : 0 .. MaxProcesses,
        ctx     : Ctx,
        type    : ProcessType,
        left    : Nat,                            \* priority.time_left
        wait    : Nat,                            \* priority.waiting_time
        shared  : [ptr : Ptrs \cup {Null}, locked : BOOLEAN],
        waiting : [1 .. MaxWaiting -> [pid : 0 .. MaxProcesses, result : Int]],
        waiters : [1 .. MaxWaiters -> 0 .. MaxProcesses]]

(* frame is the trap frame: the context of whatever the processor runs.    *)
(* intact is FALSE once a store through a NULL waiting_t* has hit the      *)
(* exception vector at address 4.                                          *)
Machine == [pcb : [Pid -> Pcb], current : Pid, frame : Ctx, intact : BOOLEAN]

-----------------------------------------------------------------------------
(* Creating, finding and switching processes                               *)

ResetCtx(p) == [pc |-> Null, r0 |-> 0, sp |-> p]

NewProcess(p, ppid) ==
  [ppid    |-> ppid,
   ctx     |-> ResetCtx(p),
   type    |-> Background,
   left    |-> 0,
   wait    |-> 0,
   shared  |-> [ptr |-> Null, locked |-> FALSE],
   waiting |-> [i \in 1 .. MaxWaiting |-> NoWait],
   waiters |-> [i \in 1 .. MaxWaiters |-> 0]]

(* A process is active by its SAVED context, also while it is running.     *)
Active(m, p) == m.pcb[p].ctx.pc # Null

ActivePids(m) == {p \in Pid : Active(m, p)}

FreePids(m) == Pid \ ActivePids(m)

FreePid(m) == Min(FreePids(m))

(* A variant with a fault, to test the properties: the context of the      *)
(* process that leaves the processor is not saved.                         *)
SetCurrentUnsaved(m, p) ==
  IF p = m.current THEN m ELSE [m EXCEPT !.current = p, !.frame = m.pcb[p].ctx]

SetCurrent(m, p) ==
  IF p = m.current
    THEN m
    ELSE [m EXCEPT !.pcb[m.current].ctx = m.frame,
                   !.current = p,
                   !.frame = m.pcb[p].ctx]

-----------------------------------------------------------------------------
(* Shared pointers.  SharedOwners is what is_shared can return: the pids   *)
(* whose shared_t it points at, or nothing.  A process without a parent    *)
(* makes the code read process(0), the memory in front of the table: that  *)
(* read finds the pointer (owner 0) or does not.                           *)

NotShared == -1

(* Faulty variant: the pointer is looked for in every process.             *)
SharedOwnersAnywhere(m, p, ptr) ==
  LET owners == {o \in Pid : m.pcb[o].shared.ptr = ptr}
  IN  IF owners = {} THEN {NotShared} ELSE owners

SharedOwners(m, p, ptr) ==
  LET parent == m.pcb[p].ppid
  IN  IF m.pcb[p].shared.ptr = ptr THEN {p}
      ELSE IF parent = 0 THEN {0, NotShared}
      ELSE IF m.pcb[parent].shared.ptr = ptr THEN {parent}
      ELSE {NotShared}

Share(m, p, ptr) ==
  IF m.pcb[p].shared.ptr # Null
    THEN [m EXCEPT !.frame.r0 = 0]
    ELSE [m EXCEPT !.pcb[p].shared.ptr = ptr, !.frame.r0 = 1]

(* unshare leaves the lock as it is.                                       *)
Unshare(m, p, ptr) ==
  IF m.pcb[p].shared.ptr # ptr
    THEN [m EXCEPT !.frame.r0 = 0]
    ELSE [m EXCEPT !.pcb[p].shared.ptr = Null, !.frame.r0 = 1]

(* Faulty variant: the lock is granted whether or not it is taken.         *)
LockTaken(m, owner) ==
  IF owner \in Pid
    THEN {[m EXCEPT !.pcb[owner].shared.locked = TRUE, !.frame.r0 = 1]}
    ELSE {[m EXCEPT !.frame.r0 = -1]}

(* The states lock may leave: nobody records who took the lock.  In front  *)
(* of the table "locked" is any word, and what is written there is no part *)
(* of the model.                                                           *)
Lock(m, owner) ==
  CASE owner = NotShared -> {[m EXCEPT !.frame.r0 = -1]}
    [] owner = 0         -> {[m EXCEPT !.frame.r0 = 0], [m EXCEPT !.frame.r0 = 1]}
    [] OTHER ->
         IF m.pcb[owner].shared.locked
           THEN {[m EXCEPT !.frame.r0 = 0]}
           ELSE {[m EXCEPT !.pcb[owner].shared.locked = TRUE, !.frame.r0 = 1]}

(* Faulty variant: the lock is not given back.                             *)
UnlockKept(m, owner) ==
  IF owner \in Pid
    THEN {[m EXCEPT !.frame.r0 = IF m.pcb[owner].shared.locked THEN 1 ELSE 0]}
    ELSE {[m EXCEPT !.frame.r0 = -1]}

Unlock(m, owner) ==
  CASE owner = NotShared -> {[m EXCEPT !.frame.r0 = -1]}
    [] owner = 0         -> {[m EXCEPT !.frame.r0 = 0], [m EXCEPT !.frame.r0 = 1]}
    [] OTHER ->
         IF m.pcb[owner].shared.locked
           THEN {[m EXCEPT !.pcb[owner].shared.locked = FALSE, !.frame.r0 = 1]}
           ELSE {[m EXCEPT !.frame.r0 = 0]}

-----------------------------------------------------------------------------
(* Waiting.  Slots are numbered from 1; 0 is "no such slot", the NULL that *)
(* get_waiting and set_waiting return.                                     *)

FirstOf(S) == IF S = {} THEN 0 ELSE Min(S)

GetWaiting(m, p, t) ==
  FirstOf({i \in 1 .. MaxWaiting : m.pcb[p].waiting[i].pid = t})

FreeWaiting(m, p) == GetWaiting(m, p, 0)

FreeWaiter(m, t) == FirstOf({i \in 1 .. MaxWaiters : m.pcb[t].waiters[i] = 0})

Waiters(m, t) == {m.pcb[t].waiters[i] : i \in 1 .. MaxWaiters} \ {0}

(* Faulty variant: every open wait of a waiter is answered, not the one    *)
(* for t.                                                                  *)
UpdateWaitersOpen(m, t, x) ==
  [m EXCEPT
    !.pcb = [q \in Pid |->
      [m.pcb[q] EXCEPT
        !.waiting = [i \in 1 .. MaxWaiting |->
                       IF q \in Waiters(m, t) /\ @[i].pid # 0 /\ @[i].result = -1
                         THEN [@[i] EXCEPT !.result = x]
                         ELSE @[i]],
        !.waiters = IF q = t THEN [i \in 1 .. MaxWaiters |-> 0] ELSE @]]]

(* Answers every waiter of t and clears t's waiters.  A waiter without an  *)
(* entry for t gets the answer written through the NULL of get_waiting.    *)
UpdateWaiters(m, t, x) ==
  [m EXCEPT
    !.pcb = [q \in Pid |->
      [m.pcb[q] EXCEPT
        !.waiting = IF q \in Waiters(m, t)
                      THEN [i \in 1 .. MaxWaiting |->
                             IF i = GetWaiting(m, q, t)
                               THEN [pid |-> t, result |-> x]
                               ELSE m.pcb[q].waiting[i]]
                      ELSE @,
        !.waiters = IF q = t THEN [i \in 1 .. MaxWaiters |-> 0] ELSE @]],
    !.intact = @ /\ \A q \in Waiters(m, t) : GetWaiting(m, q, t) # 0]

(* set_waiting in its two steps: the slot in the process waited for is     *)
(* taken first and stays taken when the waiter has no slot left.           *)
CanRegister(m, t) == Active(m, t) /\ FreeWaiter(m, t) # 0

SetWaiter(m, p, t) ==
  IF CanRegister(m, t)
    THEN [m EXCEPT !.pcb[t].waiters[FreeWaiter(m, t)] = p]
    ELSE m

(* Faulty variant: the wait is entered though t has no room for a waiter.  *)
SetWaitingAnyway(m, p, t) ==
  IF Active(m, t) /\ FreeWaiting(m, p) # 0
    THEN [SetWaiter(m, p, t) EXCEPT
            !.pcb[p].waiting[FreeWaiting(m, p)] = [pid |-> t, result |-> -1]]
    ELSE m

SetWaiting(m, p, t) ==
  IF CanRegister(m, t) /\ FreeWaiting(m, p) # 0
    THEN [SetWaiter(m, p, t) EXCEPT
            !.pcb[p].waiting[FreeWaiting(m, p)] = [pid |-> t, result |-> -1]]
    ELSE SetWaiter(m, p, t)
=============================================================================
