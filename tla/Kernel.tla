-------------------------------- MODULE Kernel --------------------------------
(***************************************************************************)
(* The process system calls (kernel/system_calls.c) as the supervisor-call *)
(* and timer handlers of kernel/hilevel.c run them, on behalf of programs  *)
(* that may make any call at any time.  The handlers run with interrupts   *)
(* masked, so a call or a timer tick is one step.                          *)
(*                                                                         *)
(* Calls names the calls the programs of an instance make; the kernel is   *)
(* the same for all of them.                                               *)
(***************************************************************************)
EXTENDS Scheduler

CONSTANTS
  Console,   \* the address of main_console
  Results,   \* the exit statuses programs use
  Calls      \* the calls programs make

CallName == {"fork", "fork_wait", "exit", "kill_self", "kill_other", "yield",
             "exec", "exec_null", "share", "unshare", "lock", "unlock", "wait"}

ASSUME KernelAssumption ==
  /\ Console \in Code
  /\ Results \subseteq Int
  /\ Calls \subseteq CallName

VARIABLES
  pcb,      \* the process table
  current,  \* the pid "current" points at
  frame,    \* the context of the running program
  intact    \* no answer was ever written through a NULL waiting_t*

vars == <<pcb, current, frame, intact>>

Now == [pcb |-> pcb, current |-> current, frame |-> frame, intact |-> intact]

Becomes(n) ==
  \E m \in {n} :
    /\ pcb' = m.pcb
    /\ current' = m.current
    /\ frame' = m.frame
    /\ intact' = m.intact

Returned(m, r) == [m EXCEPT !.frame.r0 = r]

-----------------------------------------------------------------------------
(* kernel/system_calls.c                                                   *)

SysFork(m) ==
  IF FreePids(m) = {}
    THEN Returned(m, -1)
    ELSE LET child == FreePid(m)
             n == [m EXCEPT
                     !.pcb[child] = [NewProcess(child, m.current) EXCEPT
                                       !.ctx = [m.frame EXCEPT !.r0 = 0]],
                     !.frame.r0 = child]
         IN  SetCurrent(n, child)

(* A variant with a fault, to test the properties: orphans are forgotten.  *)
KeepOrphans(m, ppid) == m

FixOrphanedProcesses(m, ppid) ==
  [m EXCEPT !.pcb = [p \in Pid |->
     IF m.pcb[p].ppid = ppid THEN [m.pcb[p] EXCEPT !.ppid = 0] ELSE m.pcb[p]]]

(* Faulty variant: a process leaves without telling its waiters.           *)
SysExitUntold(m, x) ==
  LET c == m.current
      n == FixOrphanedProcesses(m, c)
  IN  Scheduler([n EXCEPT !.pcb[c] = NewProcess(c, 0), !.frame = ResetCtx(c)])

SysExit(m, x) ==
  LET c == m.current
      n == FixOrphanedProcesses(UpdateWaiters(m, c, x), c)
  IN  Scheduler([n EXCEPT !.pcb[c] = NewProcess(c, 0), !.frame = ResetCtx(c)])

SIG_TERM == 0
SIG_QUIT == 1
EXIT_FAILURE == 1

(* The orphans and the answered waiters are those of the CALLER.  The      *)
(* status is written to the frame after the scheduler may have switched.   *)
SysKill(m, victim, sig) ==
  LET c == m.current
      n == UpdateWaiters(FixOrphanedProcesses(m, c), c, EXIT_FAILURE)
  IN  IF ~Active(m, victim) \/ sig # SIG_TERM THEN Returned(m, -1)
      ELSE IF victim = c
        THEN Returned(Scheduler([n EXCEPT !.frame = ResetCtx(c)]), 0)
        ELSE Returned([n EXCEPT !.pcb[victim].ctx = ResetCtx(victim)], 0)

SysYield(m) == Scheduler([m EXCEPT !.pcb[m.current].left = 0])

(* args is the argument string's address, carried in r0.                   *)
SysExec(m, x, interactive, args) ==
  LET c == m.current
      ctx == [ResetCtx(c) EXCEPT !.pc = x, !.r0 = args]
  IN  IF x = Null
        THEN SysExit(m, EXIT_FAILURE)
        ELSE [m EXCEPT !.pcb[c].ctx = ctx,
                       !.pcb[c].type = IF interactive THEN Interactive ELSE @,
                       !.frame = ctx]

(* sys_wait: its caller looks for an answer, and registers when there is   *)
(* no entry yet.  A result other than -1 is handed out once.               *)
WaitEntry(m, p, t) ==
  IF GetWaiting(m, p, t) # 0 THEN m ELSE SetWaiting(m, p, t)

WaitResult(m, p, t) ==
  LET n == WaitEntry(m, p, t)
      i == GetWaiting(n, p, t)
  IN  IF i = 0 THEN -2 ELSE n.pcb[p].waiting[i].result

(* Faulty variant: the entry is given up though there is no answer yet.    *)
SysWaitDropped(m, p, t) ==
  LET n == WaitEntry(m, p, t)
      i == GetWaiting(n, p, t)
  IN  IF i = 0 THEN n ELSE [n EXCEPT !.pcb[p].waiting[i] = NoWait]

SysWait(m, p, t) ==
  LET n == WaitEntry(m, p, t)
      i == GetWaiting(n, p, t)
  IN  IF i = 0 \/ n.pcb[p].waiting[i].result = -1
        THEN n
        ELSE [n EXCEPT !.pcb[p].waiting[i] = NoWait]

(* The parent waits for whoever runs after the fork: for itself when there *)
(* was no pid left.  The result is dropped.                                *)
SysForkWait(m) ==
  LET n == SysFork(m)
  IN  SysWait(n, m.current, n.current)

-----------------------------------------------------------------------------
(* kernel/hilevel.c                                                        *)

(* A frame with pc 0 sends the processor to the reset vector: the programs *)
(* of the model run no more.                                               *)
Running == frame.pc # Null

Call(name) == Running /\ name \in Calls

Init ==
  /\ pcb = [p \in Pid |->
       IF p = 1 THEN [NewProcess(1, 0) EXCEPT !.ctx.pc = Console,
                                              !.type = Interactive]
                ELSE NewProcess(p, 0)]
  /\ current = 1
  /\ frame = [ResetCtx(1) EXCEPT !.pc = Console]
  /\ intact = TRUE

Tick ==
  /\ Running
  /\ \E a \in {UpdateWaiting(Now)} : \E b \in {Schedule(a)} : Becomes(RankWaiting(b))

Fork == Call("fork") /\ Becomes(SysFork(Now))

ForkWait == Call("fork_wait") /\ Becomes(SysForkWait(Now))

Exit == \E x \in Results : Call("exit") /\ Becomes(SysExit(Now, x))

Kill ==
  \E victim \in Pid, sig \in {SIG_TERM, SIG_QUIT} :
    /\ Call(IF victim = current THEN "kill_self" ELSE "kill_other")
    /\ Becomes(SysKill(Now, victim, sig))

Yield == Call("yield") /\ Becomes(SysYield(Now))

Exec ==
  \E x \in Code \cup {Null}, interactive \in BOOLEAN :
    /\ Call(IF x = Null THEN "exec_null" ELSE "exec")
    /\ Becomes(SysExec(Now, x, interactive, 0))

SysShare ==
  \E ptr \in Ptrs : Call("share") /\ Becomes(Share(Now, current, ptr))

SysUnshare ==
  \E ptr \in Ptrs : Call("unshare") /\ Becomes(Unshare(Now, current, ptr))

SysLock ==
  \E ptr \in Ptrs : \E owner \in SharedOwners(Now, current, ptr) :
    Call("lock") /\ \E m \in Lock(Now, owner) : Becomes(m)

SysUnlock ==
  \E ptr \in Ptrs : \E owner \in SharedOwners(Now, current, ptr) :
    Call("unlock") /\ \E m \in Unlock(Now, owner) : Becomes(m)

Wait ==
  \E t \in Pid :
    /\ Call("wait")
    /\ Becomes(Returned(SysWait(Now, current, t), WaitResult(Now, current, t)))

Next ==
  \/ Tick \/ Fork \/ ForkWait \/ Exit \/ Kill \/ Yield \/ Exec
  \/ SysShare \/ SysUnshare \/ SysLock \/ SysUnlock \/ Wait

Spec == Init /\ [][Next]_vars

(* The timer is periodic and its interrupt is never switched off.          *)
FairSpec == Spec /\ WF_vars(Tick)

-----------------------------------------------------------------------------
(* What the kernel promises                                                *)

(* The table, the running context and the pid in "current" are well formed *)
(* (processes.h:69-78).                                                    *)
TypeOK == Now \in Machine

(* The program on the processor belongs to a process the table shows as    *)
(* active, so that its pid is not given away by free_pid; and only when no *)
(* process is left does the processor leave the programs for address 0.    *)
(* active_process reads the SAVED context, which the running process has   *)
(* long outrun (processes.c:69-71, scheduler.c:92-114).                    *)
ProcessorInUse ==
  /\ Running => Active(Now, current)
  /\ ~Running => ActivePids(Now) = {}

(* A parent pid names a living process or nobody: sharing looks up the     *)
(* parent's pointer by it (system_calls.c:138-147, processes.c:120).       *)
ParentsAlive ==
  \A p \in ActivePids(Now) : pcb[p].ppid # 0 => Active(Now, pcb[p].ppid)

(* A shared pointer and its lock are changed by their owner or a child of  *)
(* his, or given a fresh start with a new process: nobody else gets at     *)
(* them, also not the children of an earlier holder of the pid             *)
(* (processes.c:115-173, system_calls.c:138-147).                          *)
SharedWithinFamily ==
  [][\A o \in Pid :
       pcb'[o].shared # pcb[o].shared
         => \/ o = current
            \/ o = pcb[current].ppid /\ Active(Now, o)
            \/ ~Active(Now, o) /\ pcb'[o].shared = NewProcess(o, 0).shared]_vars

(* p waits for t and has no answer yet.                                    *)
Pending(p, t) ==
  \E i \in 1 .. MaxWaiting : pcb[p].waiting[i] = [pid |-> t, result |-> -1]

(* Whoever waits without an answer waits for a living process that knows   *)
(* of it and will answer when it ends (system_calls.c:211-233,             *)
(* processes.c:184-231): otherwise the loop in libc's waitp never ends.    *)
NoLostWakeup ==
  \A p \in ActivePids(Now), t \in Pid :
    Pending(p, t) => Active(Now, t) /\ p \in Waiters(Now, t)

(* An answer comes with the end of the process waited for, not before: the *)
(* slot of a wait is filled in by the step that ends it                    *)
(* (processes.c:184-192, called from system_calls.c:40 and :82).           *)
AnsweredAtItsEnd ==
  [][\A p, t \in Pid, i \in 1 .. MaxWaiting :
       /\ pcb[p].waiting[i] = [pid |-> t, result |-> -1]
       /\ pcb'[p].waiting[i].pid = t
       /\ pcb'[p].waiting[i].result # -1
       => ~Active(Now, t)']_vars

(* A process that is running is answered for by nobody: a wait for it has  *)
(* no status yet.  It is what waitp's caller relies on: "-1 is still       *)
(* waiting, ... other is exit status" (user/lib/libc.c:368).               *)
NoStatusOfTheLiving ==
  \A p, t \in ActivePids(Now), i \in 1 .. MaxWaiting :
    pcb[p].waiting[i].pid = t => pcb[p].waiting[i].result = -1

(* Every answer finds the slot it is meant for (processes.c:184-192).      *)
EveryAnswerHasASlot == intact

(* The context process p resumes with.                                     *)
UserCtx(p) == IF p = current THEN frame ELSE pcb[p].ctx

(* A step leaves the registers of every process but the caller as they     *)
(* are, or ends the process; a timer tick leaves the running one's as they *)
(* are too (processes.c:92-113, hilevel.c:47-222).                         *)
ContextIntegrity ==
  [][\A p \in ActivePids(Now) :
       p # current \/ Tick
         => UserCtx(p)' = UserCtx(p) \/ ~Active(Now, p)']_vars

(* No two processes run on one stack.                                      *)
StacksDisjoint ==
  \A p, q \in ActivePids(Now) : UserCtx(p).sp = UserCtx(q).sp => p = q

(* Every process that stays alive gets the processor again and again       *)
(* ("No chance of starvation", notes.md:22; scheduler.c:17-114).           *)
NoStarvation ==
  \A p \in Pid : Active(Now, p) ~> (current = p \/ ~Active(Now, p))
=============================================================================
