----------------------------- MODULE KernelProofs -----------------------------
(***************************************************************************)
(* Theorems about the kernel, for every number of processes, every size of *)
(* the wait tables and every set of programs.                              *)
(***************************************************************************)
EXTENDS Kernel, SchedulerProofs

USE SizesAssumption, NullAssumption DEF Pid

-----------------------------------------------------------------------------
(* The wait tables                                                         *)

LEMMA GetWaitingSlot ==
  ASSUME NEW m \in Machine, NEW p \in Pid, NEW t
  PROVE  /\ GetWaiting(m, p, t) \in 0 .. MaxWaiting
         /\ GetWaiting(m, p, t) = 0
              => \A i \in 1 .. MaxWaiting : m.pcb[p].waiting[i].pid # t
         /\ GetWaiting(m, p, t) # 0
              => /\ GetWaiting(m, p, t) \in 1 .. MaxWaiting
                 /\ m.pcb[p].waiting[GetWaiting(m, p, t)].pid = t
<1> DEFINE S == {i \in 1 .. MaxWaiting : m.pcb[p].waiting[i].pid = t}
<1>1. /\ FirstOf(S) \in 0 .. MaxWaiting
      /\ FirstOf(S) # 0 <=> S # {}
      /\ S # {} => FirstOf(S) \in S
  <2>1. S \subseteq 1 .. MaxWaiting
    OBVIOUS
  <2> HIDE DEF S
  <2> QED
    BY <2>1, FirstOfType
<1>2. GetWaiting(m, p, t) = FirstOf(S)
  BY DEF GetWaiting
<1> QED
  BY <1>1, <1>2

LEMMA FreeWaiterSlot ==
  ASSUME NEW m \in Machine, NEW t \in Pid, FreeWaiter(m, t) # 0
  PROVE  /\ FreeWaiter(m, t) \in 1 .. MaxWaiters
         /\ m.pcb[t].waiters[FreeWaiter(m, t)] = 0
<1> DEFINE S == {i \in 1 .. MaxWaiters : m.pcb[t].waiters[i] = 0}
<1>1. FirstOf(S) # 0 => FirstOf(S) \in S
  <2>1. S \subseteq 1 .. MaxWaiters
    OBVIOUS
  <2> HIDE DEF S
  <2> QED
    BY <2>1, FirstOfType
<1>2. FreeWaiter(m, t) = FirstOf(S)
  BY DEF FreeWaiter
<1> QED
  BY <1>1, <1>2

WaitingTable == [1 .. MaxWaiting -> [pid : 0 .. MaxProcesses, result : Int]]

WaitersTable == [1 .. MaxWaiters -> 0 .. MaxProcesses]

LEMMA TableRow ==
  ASSUME NEW m \in Machine, NEW q \in Pid
  PROVE  /\ m.pcb[q] \in Pcb
         /\ m.pcb[q].waiting \in WaitingTable
         /\ m.pcb[q].waiters \in WaitersTable
<1>1. m.pcb[q] \in Pcb
  BY DEF Machine
<1> QED
  BY <1>1 DEF Pcb, WaitingTable, WaitersTable

(* What is not about parents and waits.                                    *)
SameOthers(m, n) ==
  /\ n.current = m.current
  /\ n.frame = m.frame
  /\ \A q \in Pid :
       /\ n.pcb[q].ctx = m.pcb[q].ctx
       /\ n.pcb[q].shared = m.pcb[q].shared
       /\ n.pcb[q].left = m.pcb[q].left
       /\ n.pcb[q].wait = m.pcb[q].wait

LEMMA UpdateWaitersEffect ==
  ASSUME NEW m \in Machine, NEW t \in Pid, NEW x \in Int
  PROVE  LET n == UpdateWaiters(m, t, x)
         IN  /\ n \in Machine
             /\ SameOthers(m, n)
             /\ \A q \in Pid :
                  /\ n.pcb[q].ppid = m.pcb[q].ppid
                  /\ n.pcb[q].waiters = IF q = t THEN [i \in 1 .. MaxWaiters |-> 0]
                                                 ELSE m.pcb[q].waiters
                  /\ \A i \in 1 .. MaxWaiting :
                       n.pcb[q].waiting[i] =
                         IF q \in Waiters(m, t) /\ i = GetWaiting(m, q, t)
                           THEN [pid |-> t, result |-> x]
                           ELSE m.pcb[q].waiting[i]
<1> DEFINE w(q) == IF q \in Waiters(m, t)
                     THEN [i \in 1 .. MaxWaiting |->
                            IF i = GetWaiting(m, q, t)
                              THEN [pid |-> t, result |-> x]
                              ELSE m.pcb[q].waiting[i]]
                     ELSE m.pcb[q].waiting
           v(q) == IF q = t THEN [i \in 1 .. MaxWaiters |-> 0] ELSE m.pcb[q].waiters
           new == [q \in Pid |-> [m.pcb[q] EXCEPT !.waiting = w(q), !.waiters = v(q)]]
           ok == m.intact /\ \A q \in Waiters(m, t) : GetWaiting(m, q, t) # 0
           n == UpdateWaiters(m, t, x)
<1>1. n = [m EXCEPT !.pcb = new, !.intact = ok]
  BY DEF UpdateWaiters
<1>2. ASSUME NEW q \in Pid
      PROVE  /\ w(q) \in [1 .. MaxWaiting -> [pid : 0 .. MaxProcesses, result : Int]]
             /\ v(q) \in [1 .. MaxWaiters -> 0 .. MaxProcesses]
             /\ m.pcb[q] \in Pcb
  <2>1. m.pcb[q] \in Pcb
    BY DEF Machine
  <2>2. /\ m.pcb[q].waiting \in [1 .. MaxWaiting -> [pid : 0 .. MaxProcesses, result : Int]]
        /\ m.pcb[q].waiters \in [1 .. MaxWaiters -> 0 .. MaxProcesses]
    BY <2>1 DEF Pcb
  <2>3. [pid |-> t, result |-> x] \in [pid : 0 .. MaxProcesses, result : Int]
    OBVIOUS
  <2>4. v(q) \in [1 .. MaxWaiters -> 0 .. MaxProcesses]
    <3>1. [i \in 1 .. MaxWaiters |-> 0] \in [1 .. MaxWaiters -> 0 .. MaxProcesses]
      OBVIOUS
    <3> QED
      BY <2>2, <3>1
  <2>5. w(q) \in [1 .. MaxWaiting -> [pid : 0 .. MaxProcesses, result : Int]]
    <3>1. CASE q \in Waiters(m, t)
      <4>1. w(q) = [i \in 1 .. MaxWaiting |->
                      IF i = GetWaiting(m, q, t)
                        THEN [pid |-> t, result |-> x]
                        ELSE m.pcb[q].waiting[i]]
        BY <3>1
      <4> HIDE DEF w
      <4> QED
        BY <2>2, <2>3, <4>1
    <3>2. CASE q \notin Waiters(m, t)
      BY <2>2, <3>2
    <3> QED
      BY <3>1, <3>2
  <2> QED
    BY <2>1, <2>4, <2>5
<1>3. \A q \in Pid :
        /\ w(q) = new[q].waiting /\ v(q) = new[q].waiters /\ new[q] \in Pcb
        /\ new[q].ppid = m.pcb[q].ppid /\ new[q].shared = m.pcb[q].shared
        /\ new[q].ctx = m.pcb[q].ctx /\ new[q].left = m.pcb[q].left
        /\ new[q].wait = m.pcb[q].wait
  <2> TAKE q \in Pid
  <2>1. new[q] = [m.pcb[q] EXCEPT !.waiting = w(q), !.waiters = v(q)]
    <3> HIDE DEF w, v
    <3> QED
      BY DEF new
  <2>2. /\ w(q) \in [1 .. MaxWaiting -> [pid : 0 .. MaxProcesses, result : Int]]
        /\ v(q) \in [1 .. MaxWaiters -> 0 .. MaxProcesses]
        /\ m.pcb[q] \in Pcb
    BY <1>2
  <2> HIDE DEF new, w, v
  <2> DEFINE r == m.pcb[q]
             a == w(q)
             b == v(q)
             k == new[q]
  <2>3. /\ r \in Pcb /\ a \in WaitingTable /\ b \in WaitersTable
        /\ k = [r EXCEPT !.waiting = a, !.waiters = b]
    BY <2>1, <2>2 DEF WaitingTable, WaitersTable
  <2> HIDE DEF r, a, b, k
  <2>4. /\ k.waiting = a /\ k.waiters = b /\ k \in Pcb
        /\ k.ppid = r.ppid /\ k.shared = r.shared
        /\ k.ctx = r.ctx /\ k.left = r.left /\ k.wait = r.wait
    <3>1. k \in Pcb
      BY <2>3 DEF Pcb, WaitingTable, WaitersTable
    <3>2. k.waiting = a /\ k.waiters = b
      BY <2>3 DEF Pcb
    <3>3. /\ k.ppid = r.ppid /\ k.shared = r.shared /\ k.ctx = r.ctx
          /\ k.left = r.left /\ k.wait = r.wait
      BY <2>3 DEF Pcb
    <3> QED
      BY <3>1, <3>2, <3>3
  <2> QED
    BY <2>4 DEF r, a, b, k
<1>4. new \in [Pid -> Pcb]
  BY <1>3
<1>5. ok \in BOOLEAN
  BY DEF Machine
<1> HIDE DEF new, ok
<1>6. /\ n \in Machine
      /\ n.pcb = new /\ n.current = m.current /\ n.frame = m.frame
  BY <1>1, <1>4, <1>5 DEF Machine
<1>7. SameOthers(m, n)
  BY <1>3, <1>6 DEF SameOthers
<1>8. \A q \in Pid :
        /\ n.pcb[q].ppid = m.pcb[q].ppid
        /\ n.pcb[q].waiting = w(q)
        /\ n.pcb[q].waiters = v(q)
  <2> HIDE DEF w, v
  <2> QED
    BY <1>3, <1>6
<1>9. \A q \in Pid, i \in 1 .. MaxWaiting :
        w(q)[i] = IF q \in Waiters(m, t) /\ i = GetWaiting(m, q, t)
                    THEN [pid |-> t, result |-> x]
                    ELSE m.pcb[q].waiting[i]
  OBVIOUS
<1>10. \A q \in Pid : v(q) = IF q = t THEN [i \in 1 .. MaxWaiters |-> 0] ELSE m.pcb[q].waiters
  OBVIOUS
<1> HIDE DEF w, v, n
<1>11. \A q \in Pid, i \in 1 .. MaxWaiting :
         n.pcb[q].waiting[i] = IF q \in Waiters(m, t) /\ i = GetWaiting(m, q, t)
                                 THEN [pid |-> t, result |-> x]
                                 ELSE m.pcb[q].waiting[i]
  BY <1>8, <1>9
<1>12. \A q \in Pid : n.pcb[q].waiters = IF q = t THEN [i \in 1 .. MaxWaiters |-> 0]
                                          ELSE m.pcb[q].waiters
  BY <1>8, <1>10
<1> QED
  BY <1>6, <1>7, <1>8, <1>11, <1>12 DEF n

LEMMA PcbWithParent ==
  ASSUME NEW r \in Pcb, NEW n, n = [r EXCEPT !.ppid = 0]
  PROVE  /\ n \in Pcb
         /\ n.ppid = 0
         /\ n.waiting = r.waiting /\ n.waiters = r.waiters
         /\ n.shared = r.shared /\ n.ctx = r.ctx
         /\ n.left = r.left /\ n.wait = r.wait
<1>1. 0 \in 0 .. MaxProcesses
  OBVIOUS
<1>2. n \in Pcb
  BY <1>1 DEF Pcb
<1>3. n.ppid = 0
  BY DEF Pcb
<1>4. /\ n.waiting = r.waiting /\ n.waiters = r.waiters
      /\ n.shared = r.shared /\ n.ctx = r.ctx
      /\ n.left = r.left /\ n.wait = r.wait
  BY DEF Pcb
<1> QED
  BY <1>2, <1>3, <1>4

LEMMA FixOrphanedEffect ==
  ASSUME NEW m \in Machine, NEW c \in Pid
  PROVE  LET n == FixOrphanedProcesses(m, c)
         IN  /\ n \in Machine
             /\ SameOthers(m, n)
             /\ \A q \in Pid :
                  /\ n.pcb[q].ppid = IF m.pcb[q].ppid = c THEN 0 ELSE m.pcb[q].ppid
                  /\ n.pcb[q].waiting = m.pcb[q].waiting
                  /\ n.pcb[q].waiters = m.pcb[q].waiters
<1> DEFINE new == [p \in Pid |->
             IF m.pcb[p].ppid = c THEN [m.pcb[p] EXCEPT !.ppid = 0] ELSE m.pcb[p]]
           n == FixOrphanedProcesses(m, c)
<1>1. n = [m EXCEPT !.pcb = new]
  BY DEF FixOrphanedProcesses
<1>2. m.pcb \in [Pid -> Pcb]
  BY DEF Machine
<1>4. \A q \in Pid :
        /\ new[q] \in Pcb
        /\ new[q].ppid = IF m.pcb[q].ppid = c THEN 0 ELSE m.pcb[q].ppid
        /\ new[q].waiting = m.pcb[q].waiting /\ new[q].waiters = m.pcb[q].waiters
        /\ new[q].ctx = m.pcb[q].ctx /\ new[q].shared = m.pcb[q].shared
        /\ new[q].left = m.pcb[q].left /\ new[q].wait = m.pcb[q].wait
  <2> TAKE q \in Pid
  <2>1. m.pcb[q] \in Pcb
    BY <1>2
  <2>2. CASE m.pcb[q].ppid = c
    <3>1. new[q] = [m.pcb[q] EXCEPT !.ppid = 0]
      BY <2>2
    <3> HIDE DEF new
    <3> QED
      BY <2>1, <2>2, <3>1, PcbWithParent
  <2>3. CASE m.pcb[q].ppid # c
    BY <2>1, <2>3
  <2> QED
    BY <2>2, <2>3
<1>5. new \in [Pid -> Pcb]
  BY <1>4
<1> HIDE DEF new
<1>6. /\ n \in Machine
      /\ n.pcb = new /\ n.current = m.current /\ n.frame = m.frame
  BY <1>1, <1>5 DEF Machine
<1>7. SameOthers(m, n)
  BY <1>4, <1>6 DEF SameOthers
<1> QED
  BY <1>4, <1>6, <1>7

-----------------------------------------------------------------------------
(* Contexts and results                                                    *)

Typed(m) == m \in Machine /\ WaitsWithin(m, MaxProcesses + 1)

(* The parts of the table parents and waits are kept in, and who is active *)
SameFamilies(m, n) ==
  \A q \in Pid :
    /\ n.pcb[q].ppid = m.pcb[q].ppid
    /\ n.pcb[q].waiting = m.pcb[q].waiting
    /\ n.pcb[q].waiters = m.pcb[q].waiters

SameShared(m, n) == \A q \in Pid : n.pcb[q].shared = m.pcb[q].shared

SameActive(m, n) == \A q \in Pid : Active(n, q) <=> Active(m, q)

LEMMA CtxWithResult ==
  ASSUME NEW k \in Ctx, NEW r \in Int
  PROVE  LET n == [k EXCEPT !.r0 = r]
         IN  n \in Ctx /\ n.pc = k.pc /\ n.sp = k.sp /\ n.r0 = r
<1>1. [k EXCEPT !.r0 = r] \in Ctx
  BY DEF Ctx
<1> QED
  BY <1>1 DEF Ctx

(* A return value changes a register of the running program and no more.   *)
LEMMA ReturnedEffect ==
  ASSUME NEW m \in Machine, NEW r \in Int
  PROVE  LET n == Returned(m, r)
         IN  /\ n \in Machine
             /\ n.pcb = m.pcb /\ n.current = m.current /\ n.intact = m.intact
             /\ n.frame.pc = m.frame.pc /\ n.frame.r0 = r
<1> DEFINE k == [m.frame EXCEPT !.r0 = r]
<1>1. k \in Ctx /\ k.pc = m.frame.pc /\ k.r0 = r
  BY CtxWithResult DEF Machine
<1>2. Returned(m, r) = [m EXCEPT !.frame = k]
  BY DEF Returned
<1> HIDE DEF k
<1> QED
  BY <1>1, <1>2 DEF Machine

LEMMA FreePidChoice ==
  ASSUME NEW m, FreePids(m) # {}
  PROVE  FreePid(m) \in FreePids(m) /\ FreePid(m) \in Pid /\ ~Active(m, FreePid(m))
<1>1. FreePids(m) \subseteq Nat
  BY DEF FreePids
<1>2. FreePid(m) \in FreePids(m)
  BY <1>1, MinOfSet DEF FreePid
<1> QED
  BY <1>2 DEF FreePids, ActivePids

-----------------------------------------------------------------------------
(* The handlers: what each leaves in the table and on the processor        *)

(* The processor runs an active process, or nothing at all and then the    *)
(* running process is not active either.                                   *)
InUse(m) ==
  /\ m.frame.pc # Null => Active(m, m.current)
  /\ m.frame.pc = Null => ActivePids(m) = {}

(* What the scheduler is called with: a running process that is active, or *)
(* one that has just ended and has no time left.                           *)
Schedulable(m) ==
  /\ m.frame.pc # Null => Active(m, m.current)
  /\ m.frame.pc = Null => ~Active(m, m.current) /\ m.pcb[m.current].left = 0

(* The registers of process p, on the processor or saved in the table.     *)
RegistersOf(m, p) == IF p = m.current THEN m.frame ELSE m.pcb[p].ctx

(* Whoever is active, but c, keeps them or is over.                        *)
RegistersKept(m, n, c) ==
  \A q \in ActivePids(m) \ {c} : RegistersOf(n, q) = RegistersOf(m, q) \/ ~Active(n, q)

LEMMA SchedulerKeeps ==
  ASSUME NEW m, Typed(m), Schedulable(m)
  PROVE  LET n == Scheduler(m)
         IN  /\ Typed(n) /\ InUse(n)
             /\ SameFamilies(m, n) /\ SameShared(m, n) /\ SameActive(m, n)
             /\ n.intact = m.intact
<1> DEFINE n == Scheduler(m)
<1>0. m \in Machine /\ m.current \in Pid
  BY DEF Typed, Machine
<1>1. /\ n \in Machine /\ SameBooks(m, n) /\ n.intact = m.intact
      /\ WaitsWithin(n, MaxProcesses + 1)
      /\ \/ /\ SameContexts(m, n)
            /\ m.pcb[m.current].left > 0 \/ ActivePids(m) = {}
         \/ \E p \in ActivePids(m) : Switched(m, n, p)
  BY SchedulerEffect DEF Typed
<1> HIDE DEF n
<1>2. Typed(n)
  BY <1>1 DEF Typed
<1>3. SameFamilies(m, n) /\ SameShared(m, n)
  BY <1>1 DEF SameBooks, SameFamilies, SameShared
<1>4. CASE SameContexts(m, n) /\ (m.pcb[m.current].left > 0 \/ ActivePids(m) = {})
  <2>1. SameActive(m, n)
    BY <1>4 DEF SameContexts, SameActive, Active
  <2>2. ActivePids(n) = ActivePids(m)
    BY <2>1 DEF SameActive, ActivePids
  <2>3. n.frame = m.frame /\ n.current = m.current
    BY <1>4 DEF SameContexts
  <2>4. n.frame.pc # Null => Active(n, n.current)
    BY <1>0, <2>1, <2>3 DEF Schedulable, SameActive
  <2>5. n.frame.pc = Null => ActivePids(n) = {}
    BY <1>4, <2>2, <2>3 DEF Schedulable
  <2> QED
    BY <1>1, <1>2, <1>3, <2>1, <2>4, <2>5 DEF n, InUse
<1>5. ASSUME NEW p \in ActivePids(m), Switched(m, n, p)
      PROVE  SameActive(m, n) /\ InUse(n)
  <2>0. p \in Pid /\ Active(m, p)
    BY DEF ActivePids
  <2>1. SameActive(m, n)
    <3> SUFFICES ASSUME NEW q \in Pid
                 PROVE  Active(n, q) <=> Active(m, q)
      BY DEF SameActive
    <3>1. CASE q = m.current /\ p # q
      <4>1. n.pcb[q].ctx = m.frame
        BY <1>5, <3>1 DEF Switched
      <4> QED
        BY <3>1, <4>1 DEF Active, Schedulable
    <3>2. CASE ~(q = m.current /\ p # q)
      BY <1>5, <3>2 DEF Switched, Active
    <3> QED
      BY <3>1, <3>2
  <2>2. n.current = p /\ n.frame.pc # Null
    <3>1. CASE p = m.current
      BY <1>5, <2>0, <3>1 DEF Switched, Schedulable
    <3>2. CASE p # m.current
      BY <1>5, <2>0, <3>2 DEF Switched, Active
    <3> QED
      BY <3>1, <3>2
  <2> QED
    BY <2>0, <2>1, <2>2 DEF SameActive, InUse
<1> QED
  BY <1>1, <1>2, <1>3, <1>4, <1>5 DEF n

(* Whatever the scheduler is called with, the table stays well formed.     *)
LEMMA SchedulerTyped ==
  ASSUME NEW m, Typed(m)
  PROVE  Typed(Scheduler(m))
BY SchedulerEffect DEF Typed

(* Nobody's registers change when the processor changes hands.             *)
LEMMA SchedulerMoves ==
  ASSUME NEW m, Typed(m), NEW q \in Pid
  PROVE  RegistersOf(Scheduler(m), q) = RegistersOf(m, q)
<1> DEFINE n == Scheduler(m)
<1>1. SameContexts(m, n) \/ \E p \in ActivePids(m) : Switched(m, n, p)
  BY SchedulerEffect DEF Typed
<1> HIDE DEF n
<1>2. CASE SameContexts(m, n)
  BY <1>2 DEF SameContexts, RegistersOf, n
<1>3. ASSUME NEW p \in ActivePids(m), Switched(m, n, p)
      PROVE  RegistersOf(n, q) = RegistersOf(m, q)
  BY <1>3 DEF Switched, RegistersOf
<1> QED
  BY <1>1, <1>2, <1>3 DEF n

(* The child starts as a copy of the running program; the parent is put    *)
(* back into the table with the child's pid as its result.                 *)
Forked(m, n, c) ==
  /\ n.current = c
  /\ n.frame = [m.frame EXCEPT !.r0 = 0]
  /\ n.pcb[c] = [NewProcess(c, m.current) EXCEPT !.ctx = n.frame]
  /\ n.pcb[m.current] =
       [m.pcb[m.current] EXCEPT !.ctx = [m.frame EXCEPT !.r0 = c]]
  /\ \A q \in Pid \ {c, m.current} : n.pcb[q] = m.pcb[q]

LEMMA SysForkEffect ==
  ASSUME NEW m, Typed(m)
  PROVE  LET n == SysFork(m)
         IN  /\ Typed(n) /\ n.intact = m.intact
             /\ \/ FreePids(m) = {} /\ n = Returned(m, -1)
                \/ \E c \in Pid : ~Active(m, c) /\ (c # m.current => Forked(m, n, c))
<1> DEFINE n == SysFork(m)
<1>0. m \in Machine /\ m.current \in Pid /\ m.frame \in Ctx /\ m.pcb \in [Pid -> Pcb]
  BY DEF Typed, Machine
<1>1. CASE FreePids(m) = {}
  <2>1. n = Returned(m, -1)
    BY <1>1 DEF SysFork
  <2>2. n \in Machine /\ n.pcb = m.pcb /\ n.intact = m.intact
    <3>1. -1 \in Int
      OBVIOUS
    <3> HIDE DEF n
    <3> QED
      BY <1>0, <2>1, <3>1, ReturnedEffect
  <2> QED
    BY <1>1, <2>1, <2>2 DEF Typed, WaitsWithin
<1>2. CASE FreePids(m) # {}
  <2> DEFINE c == FreePid(m)
             k == [m.frame EXCEPT !.r0 = 0]
             l == [m.frame EXCEPT !.r0 = c]
             r == [NewProcess(c, m.current) EXCEPT !.ctx = k]
             f == [m.pcb EXCEPT ![c] = r]
             u == [m EXCEPT !.pcb = f, !.frame = l]
  <2>1. c \in Pid /\ ~Active(m, c)
    BY <1>2, FreePidChoice
  <2>2. n = SetCurrent(u, c)
    BY <1>0, <1>2 DEF SysFork, Machine
  <2> HIDE DEF c
  <2>3. k \in Ctx /\ l \in Ctx
    BY <1>0, <2>1, CtxWithResult
  <2>4. NewProcess(c, m.current) \in Pcb /\ NewProcess(c, m.current).wait = 0
    BY <1>0, <2>1, NewProcessType DEF NewProcess
  <2> HIDE DEF k, l
  <2>5. r \in Pcb /\ r.wait = 0 /\ r.ctx = k
    BY <2>3, <2>4, PcbWithCtx
  <2> HIDE DEF r
  <2>6. f \in [Pid -> Pcb] /\ f[c] = r /\ \A q \in Pid \ {c} : f[q] = m.pcb[q]
    BY <1>0, <2>1, <2>5
  <2> HIDE DEF f
  <2>7. /\ u \in Machine /\ u.pcb = f /\ u.frame = l
        /\ u.current = m.current /\ u.intact = m.intact
    BY <1>0, <2>3, <2>6 DEF Machine
  <2>8. WaitsWithin(u, MaxProcesses + 1)
    <3>1. \A q \in Pid : f[q].wait <= MaxProcesses + 1
      BY <2>5, <2>6 DEF Typed, WaitsWithin
    <3> QED
      BY <2>7, <3>1 DEF WaitsWithin
  <2> HIDE DEF u
  <2>9. n \in Machine /\ n.intact = m.intact
    <3>1. SetCurrent(u, c) \in Machine
      BY <2>1, <2>7, SetCurrentType
    <3>2. SetCurrent(u, c).intact = u.intact
      BY <2>7 DEF SetCurrent, Machine
    <3> QED
      BY <2>2, <2>7, <3>1, <3>2
  <2>10. CASE c = m.current
    BY <2>1, <2>2, <2>7, <2>8, <2>9, <2>10 DEF SetCurrent, Typed
  <2>11. CASE c # m.current
    <3> DEFINE g == [u.pcb EXCEPT ![u.current].ctx = u.frame]
    <3>1. n = [u EXCEPT !.pcb = g, !.current = c, !.frame = u.pcb[c].ctx]
      BY <2>2, <2>7, <2>11 DEF SetCurrent, Machine
    <3>2. /\ g[m.current] = [m.pcb[m.current] EXCEPT !.ctx = l]
          /\ g[c] = r
          /\ \A q \in Pid \ {c, m.current} : g[q] = m.pcb[q]
      BY <1>0, <2>1, <2>6, <2>7, <2>11
    <3> HIDE DEF g
    <3>3. n.pcb = g /\ n.current = c /\ n.frame = k
      BY <2>5, <2>6, <2>7, <3>1 DEF Machine
    <3>4. Forked(m, n, c)
      BY <3>2, <3>3 DEF Forked, k, l, r
    <3>5. g[m.current].wait = m.pcb[m.current].wait
      BY <1>0, <2>3, <3>2, PcbWithCtx
    <3>6. WaitsWithin(n, MaxProcesses + 1)
      <4>1. \A q \in Pid : g[q].wait <= MaxProcesses + 1
        <5> TAKE q \in Pid
        <5>1. CASE q = c
          BY <2>5, <3>2, <5>1
        <5>2. CASE q # c
          BY <3>2, <3>5, <5>2 DEF WaitsWithin, Typed
        <5> QED
          BY <5>1, <5>2
      <4> QED
        BY <3>3, <4>1 DEF WaitsWithin
    <3> QED
      BY <2>1, <2>9, <3>4, <3>6 DEF Typed
  <2> QED
    BY <2>10, <2>11
<1> QED
  BY <1>1, <1>2

(* Process c is over: its row is as new, its children are orphans, and     *)
(* whoever waited for it has the answer x in one slot.                     *)
Ended(m, n, c, x) ==
  /\ \A q \in Pid : Active(n, q) <=> Active(m, q) /\ q # c
  /\ n.pcb[c].ppid = 0
  /\ \A i \in 1 .. MaxWaiting : n.pcb[c].waiting[i] = NoWait
  /\ n.pcb[c].shared = NewProcess(c, 0).shared
  /\ \A q \in Pid \ {c} :
       /\ n.pcb[q].ppid = IF m.pcb[q].ppid = c THEN 0 ELSE m.pcb[q].ppid
       /\ n.pcb[q].waiters = m.pcb[q].waiters
       /\ n.pcb[q].shared = m.pcb[q].shared
       /\ \A i \in 1 .. MaxWaiting :
            n.pcb[q].waiting[i] =
              IF q \in Waiters(m, c) /\ i = GetWaiting(m, q, c)
                THEN [pid |-> c, result |-> x]
                ELSE m.pcb[q].waiting[i]

LEMMA SysExitEffect ==
  ASSUME NEW m, Typed(m), NEW x \in Int
  PROVE  LET n == SysExit(m, x)
         IN  /\ Typed(n) /\ InUse(n) /\ Ended(m, n, m.current, x)
             /\ RegistersKept(m, n, m.current)
<1> DEFINE c == m.current
           u == UpdateWaiters(m, c, x)
           v == FixOrphanedProcesses(u, c)
           f == [v.pcb EXCEPT ![c] = NewProcess(c, 0)]
           w == [v EXCEPT !.pcb = f, !.frame = ResetCtx(c)]
           n == SysExit(m, x)
<1>0. m \in Machine /\ c \in Pid /\ 0 \in 0 .. MaxProcesses
  BY DEF Typed, Machine
<1>1. /\ u \in Machine /\ SameOthers(m, u)
      /\ \A q \in Pid :
           /\ u.pcb[q].ppid = m.pcb[q].ppid
           /\ q # c => u.pcb[q].waiters = m.pcb[q].waiters
           /\ \A i \in 1 .. MaxWaiting :
                u.pcb[q].waiting[i] =
                  IF q \in Waiters(m, c) /\ i = GetWaiting(m, q, c)
                    THEN [pid |-> c, result |-> x]
                    ELSE m.pcb[q].waiting[i]
  <2>1. m \in Machine /\ c \in Pid /\ x \in Int
    BY <1>0
  <2> HIDE DEF c
  <2> QED
    BY <2>1, UpdateWaitersEffect
<1> HIDE DEF u
<1>2. /\ v \in Machine /\ SameOthers(u, v)
      /\ \A q \in Pid :
           /\ v.pcb[q].ppid = IF u.pcb[q].ppid = c THEN 0 ELSE u.pcb[q].ppid
           /\ v.pcb[q].waiting = u.pcb[q].waiting
           /\ v.pcb[q].waiters = u.pcb[q].waiters
  <2>1. u \in Machine /\ c \in Pid
    BY <1>0, <1>1
  <2> HIDE DEF c
  <2> QED
    BY <2>1, FixOrphanedEffect
<1> HIDE DEF v
<1>3. n = Scheduler(w)
  <2>1. v = [pcb |-> v.pcb, current |-> v.current, frame |-> v.frame, intact |-> v.intact]
    BY <1>2 DEF Machine
  <2>2. n = Scheduler([v EXCEPT !.pcb[c] = NewProcess(c, 0), !.frame = ResetCtx(c)])
    BY DEF SysExit, u, v
  <2>3. [v EXCEPT !.pcb[c] = NewProcess(c, 0), !.frame = ResetCtx(c)] = w
    BY <2>1
  <2> HIDE DEF n, w
  <2> QED
    BY <2>2, <2>3
<1>4. NewProcess(c, 0) \in Pcb /\ ResetCtx(c) \in Ctx
  BY <1>0, NewProcessType
<1>5. f \in [Pid -> Pcb] /\ f[c] = NewProcess(c, 0) /\ \A q \in Pid \ {c} : f[q] = v.pcb[q]
  BY <1>0, <1>2, <1>4 DEF Machine
<1> HIDE DEF f
<1>6. w \in Machine /\ w.pcb = f /\ w.frame = ResetCtx(c) /\ w.current = c
  <2>1. v.current = c
    BY <1>1, <1>2 DEF SameOthers
  <2> QED
    BY <1>2, <1>4, <1>5, <2>1 DEF Machine
<1> HIDE DEF w
<1>7. /\ NewProcess(c, 0).wait = 0 /\ NewProcess(c, 0).left = 0
      /\ NewProcess(c, 0).ctx.pc = Null /\ NewProcess(c, 0).ppid = 0
      /\ \A i \in 1 .. MaxWaiting : NewProcess(c, 0).waiting[i] = NoWait
  BY DEF NewProcess, ResetCtx
<1>8. Typed(w)
  <2>1. \A q \in Pid \ {c} : f[q].wait = m.pcb[q].wait
    BY <1>1, <1>2, <1>5 DEF SameOthers
  <2>2. \A q \in Pid : f[q].wait <= MaxProcesses + 1
    BY <1>5, <1>7, <2>1 DEF Typed, WaitsWithin
  <2> QED
    BY <1>6, <2>2 DEF Typed, WaitsWithin
<1>9. Schedulable(w)
  <2>1. w.frame.pc = Null
    BY <1>6 DEF ResetCtx
  <2>2. ~Active(w, w.current) /\ w.pcb[w.current].left = 0
    BY <1>5, <1>6, <1>7 DEF Active
  <2> QED
    BY <2>1, <2>2 DEF Schedulable
<1>10. Typed(n) /\ InUse(n) /\ SameFamilies(w, n) /\ SameShared(w, n) /\ SameActive(w, n)
  BY <1>3, <1>8, <1>9, SchedulerKeeps
<1>10a. RegistersKept(m, n, c)
  <2>1. ASSUME NEW q \in Pid \ {c}
        PROVE  RegistersOf(w, q) = RegistersOf(m, q)
    <3>1. f[q].ctx = m.pcb[q].ctx
      BY <1>1, <1>2, <1>5 DEF SameOthers
    <3>2. w.current = c /\ w.pcb = f
      BY <1>6
    <3> QED
      BY <3>1, <3>2 DEF RegistersOf
  <2>2. \A q \in Pid : RegistersOf(n, q) = RegistersOf(w, q)
    BY <1>3, <1>8, SchedulerMoves
  <2> HIDE DEF n
  <2> QED
    BY <2>1, <2>2 DEF RegistersKept, ActivePids
<1> HIDE DEF n
<1>11. \A q \in Pid : Active(n, q) <=> Active(m, q) /\ q # c
  <2>1. \A q \in Pid \ {c} : f[q].ctx = m.pcb[q].ctx
    BY <1>1, <1>2, <1>5 DEF SameOthers
  <2>2. \A q \in Pid : Active(w, q) <=> Active(m, q) /\ q # c
    BY <1>5, <1>6, <1>7, <2>1 DEF Active
  <2> QED
    BY <1>10, <2>2 DEF SameActive
<1>12. /\ n.pcb[c].ppid = 0
       /\ \A i \in 1 .. MaxWaiting : n.pcb[c].waiting[i] = NoWait
       /\ n.pcb[c].shared = NewProcess(c, 0).shared
  BY <1>0, <1>5, <1>6, <1>7, <1>10 DEF SameFamilies, SameShared
<1>13. ASSUME NEW q \in Pid \ {c}
       PROVE  /\ n.pcb[q].ppid = IF m.pcb[q].ppid = c THEN 0 ELSE m.pcb[q].ppid
              /\ n.pcb[q].waiters = m.pcb[q].waiters
              /\ n.pcb[q].shared = m.pcb[q].shared
              /\ \A i \in 1 .. MaxWaiting :
                   n.pcb[q].waiting[i] =
                     IF q \in Waiters(m, c) /\ i = GetWaiting(m, q, c)
                       THEN [pid |-> c, result |-> x]
                       ELSE m.pcb[q].waiting[i]
  <2>1. /\ n.pcb[q].ppid = v.pcb[q].ppid
        /\ n.pcb[q].waiting = v.pcb[q].waiting
        /\ n.pcb[q].waiters = v.pcb[q].waiters
        /\ n.pcb[q].shared = v.pcb[q].shared
    BY <1>5, <1>6, <1>10 DEF SameFamilies, SameShared
  <2>2. n.pcb[q].shared = m.pcb[q].shared
    BY <1>1, <1>2, <2>1 DEF SameOthers
  <2>3. n.pcb[q].ppid = IF m.pcb[q].ppid = c THEN 0 ELSE m.pcb[q].ppid
    BY <1>1, <1>2, <2>1
  <2>4. n.pcb[q].waiting = u.pcb[q].waiting /\ n.pcb[q].waiters = u.pcb[q].waiters
    BY <1>2, <2>1
  <2> QED
    BY <1>1, <2>2, <2>3, <2>4
<1>14. Ended(m, n, c, x)
  BY <1>11, <1>12, <1>13 DEF Ended
<1> QED
  BY <1>10, <1>10a, <1>14 DEF n

LEMMA SysYieldEffect ==
  ASSUME NEW m, Typed(m)
  PROVE  LET n == SysYield(m)
         IN  /\ Typed(n)
             /\ \A q \in Pid : RegistersOf(n, q) = RegistersOf(m, q)
             /\ m.frame.pc # Null /\ InUse(m)
                  => /\ InUse(n) /\ SameFamilies(m, n) /\ SameShared(m, n)
                     /\ SameActive(m, n)
<1> DEFINE c == m.current
           r == [m.pcb[c] EXCEPT !.left = 0]
           f == [m.pcb EXCEPT ![c] = r]
           u == [m EXCEPT !.pcb = f]
<1>0. m \in Machine /\ c \in Pid /\ m.pcb[c] \in Pcb /\ m.pcb \in [Pid -> Pcb]
  BY DEF Typed, Machine
<1>1. SysYield(m) = Scheduler(u)
  BY <1>0 DEF SysYield, Machine
<1>2. /\ r \in Pcb /\ r.ppid = m.pcb[c].ppid /\ r.shared = m.pcb[c].shared
      /\ r.waiting = m.pcb[c].waiting /\ r.waiters = m.pcb[c].waiters
      /\ r.ctx = m.pcb[c].ctx
  BY <1>0, PcbWithLeft
<1>3. r.wait = m.pcb[c].wait
  BY <1>0 DEF Pcb
<1> HIDE DEF r
<1>4. f \in [Pid -> Pcb] /\ f[c] = r /\ \A q \in Pid \ {c} : f[q] = m.pcb[q]
  BY <1>0, <1>2
<1> HIDE DEF f
<1>5. u \in Machine /\ u.pcb = f /\ u.frame = m.frame /\ u.current = c
  BY <1>0, <1>4 DEF Machine
<1> HIDE DEF u
<1>6. Typed(u)
  <2>1. \A q \in Pid : f[q].wait <= MaxProcesses + 1
    BY <1>3, <1>4 DEF Typed, WaitsWithin
  <2> QED
    BY <1>5, <2>1 DEF Typed, WaitsWithin
<1>7. SameFamilies(m, u) /\ SameShared(m, u) /\ SameActive(m, u)
  BY <1>2, <1>4, <1>5 DEF SameFamilies, SameShared, SameActive, Active
<1>8. m.frame.pc # Null /\ InUse(m) => Schedulable(u)
  BY <1>0, <1>5, <1>7 DEF InUse, Schedulable, SameActive
<1> DEFINE n == Scheduler(u)
<1>9. Typed(n)
  BY <1>6, SchedulerTyped
<1>10. Schedulable(u) => InUse(n) /\ SameFamilies(u, n) /\ SameShared(u, n) /\ SameActive(u, n)
  BY <1>6, SchedulerKeeps
<1> HIDE DEF n
<1>11. Schedulable(u) => SameFamilies(m, n) /\ SameShared(m, n) /\ SameActive(m, n)
  BY <1>7, <1>10 DEF SameFamilies, SameShared, SameActive
<1>12. \A q \in Pid : RegistersOf(n, q) = RegistersOf(m, q)
  <2>1. \A q \in Pid : RegistersOf(u, q) = RegistersOf(m, q)
    BY <1>2, <1>4, <1>5 DEF RegistersOf
  <2>2. \A q \in Pid : RegistersOf(n, q) = RegistersOf(u, q)
    BY <1>6, SchedulerMoves DEF n
  <2> QED
    BY <2>1, <2>2
<1> QED
  BY <1>1, <1>8, <1>9, <1>10, <1>11, <1>12 DEF n

(* A program replaced by another goes on as the same process.              *)
LEMMA SysExecEffect ==
  ASSUME NEW m, Typed(m), NEW x \in Code, NEW interactive \in BOOLEAN
  PROVE  LET n == SysExec(m, x, interactive, 0)
         IN  /\ Typed(n)
             /\ RegistersKept(m, n, m.current)
             /\ n.current = m.current /\ n.frame.pc = x /\ n.frame.r0 = 0
             /\ m.frame.pc # Null /\ InUse(m)
                  => /\ InUse(n) /\ SameFamilies(m, n) /\ SameShared(m, n)
                     /\ SameActive(m, n)
<1> DEFINE c == m.current
           k == [ResetCtx(c) EXCEPT !.pc = x, !.r0 = 0]
           t == IF interactive THEN Interactive ELSE m.pcb[c].type
           r == [m.pcb[c] EXCEPT !.ctx = k, !.type = t]
           f == [m.pcb EXCEPT ![c] = r]
           n == SysExec(m, x, interactive, 0)
<1>0. m \in Machine /\ c \in Pid /\ m.pcb[c] \in Pcb /\ m.pcb \in [Pid -> Pcb]
  BY DEF Typed, Machine
<1>1. x # Null
  OBVIOUS
<1>2. n = [m EXCEPT !.pcb = f, !.frame = k]
  <2>1. n = [m EXCEPT !.pcb[c].ctx = k,
                      !.pcb[c].type = IF interactive THEN Interactive ELSE @,
                      !.frame = k]
    BY <1>1 DEF SysExec
  <2> DEFINE g == [m.pcb EXCEPT ![c].ctx = k]
             h == [g EXCEPT ![c].type = IF interactive THEN Interactive ELSE @]
  <2>2. m = [pcb |-> m.pcb, current |-> m.current, frame |-> m.frame, intact |-> m.intact]
    BY <1>0 DEF Machine
  <2>3. h = f
    <3> HIDE DEF c, k
    <3>1. c \in Pid /\ m.pcb \in [Pid -> Pcb] /\ m.pcb[c] \in Pcb
      BY <1>0
    <3>2. g = [m.pcb EXCEPT ![c] = [m.pcb[c] EXCEPT !.ctx = k]]
      OBVIOUS
    <3>3. g[c] = [m.pcb[c] EXCEPT !.ctx = k] /\ g[c].type = m.pcb[c].type
      BY <3>1, <3>2 DEF Pcb
    <3> HIDE DEF g
    <3>4. h = [g EXCEPT ![c] = [g[c] EXCEPT !.type = t]]
      BY <3>3
    <3>5. [g[c] EXCEPT !.type = t] = r
      BY <3>3
    <3> HIDE DEF h, r
    <3>6. h = [g EXCEPT ![c] = r]
      BY <3>4, <3>5
    <3> DEFINE s == [m.pcb[c] EXCEPT !.ctx = k]
               table == m.pcb
    <3>7. g = [table EXCEPT ![c] = s] /\ table \in [Pid -> Pcb]
      BY <3>1, <3>2
    <3> HIDE DEF s, table
    <3>8. h = [table EXCEPT ![c] = r]
      BY <3>1, <3>6, <3>7
    <3> QED
      BY <3>8 DEF table
  <2>4. [m EXCEPT !.pcb[c].ctx = k,
                  !.pcb[c].type = IF interactive THEN Interactive ELSE @,
                  !.frame = k] = [m EXCEPT !.pcb = h, !.frame = k]
    <3> DEFINE m1 == [m EXCEPT !.pcb = g]
               m2 == [m1 EXCEPT !.pcb = [m1.pcb EXCEPT ![c].type =
                                           IF interactive THEN Interactive ELSE @]]
    <3> HIDE DEF c, k, g
    <3>1. m1.pcb = g /\ [m EXCEPT !.pcb = h] = [m1 EXCEPT !.pcb = h]
      BY <2>2
    <3>2. [m EXCEPT !.pcb[c].ctx = k,
                    !.pcb[c].type = IF interactive THEN Interactive ELSE @,
                    !.frame = k] = [m2 EXCEPT !.frame = k]
      BY DEF g
    <3> HIDE DEF m1
    <3>3. m2 = [m EXCEPT !.pcb = h]
      BY <3>1
    <3> HIDE DEF m2, h
    <3> QED
      BY <3>2, <3>3
  <2> HIDE DEF n, h, f, k
  <2> QED
    BY <2>1, <2>3, <2>4
<1>3. k \in Ctx /\ k.pc = x /\ k.r0 = 0
  <2>1. ResetCtx(c) \in Ctx
    BY <1>0, NewProcessType
  <2>2. ASSUME NEW y \in Ctx
        PROVE  [y EXCEPT !.pc = x] \in Ctx /\ [y EXCEPT !.pc = x].pc = x
    BY DEF Ctx
  <2> DEFINE z == [ResetCtx(c) EXCEPT !.pc = x]
  <2>3. z \in Ctx /\ z.pc = x /\ k = [z EXCEPT !.r0 = 0]
    BY <2>1, <2>2
  <2> HIDE DEF z, k
  <2>4. 0 \in Int
    OBVIOUS
  <2> QED
    BY <2>3, <2>4, CtxWithResult
<1>4. t \in ProcessType
  BY <1>0 DEF Pcb, ProcessType
<1> HIDE DEF k, t
<1>5. /\ r \in Pcb /\ r.ppid = m.pcb[c].ppid /\ r.shared = m.pcb[c].shared
      /\ r.waiting = m.pcb[c].waiting /\ r.waiters = m.pcb[c].waiters
      /\ r.ctx = k /\ r.wait = m.pcb[c].wait
  <2>1. r \in Pcb
    BY <1>0, <1>3, <1>4 DEF Pcb
  <2> QED
    BY <1>0, <2>1 DEF Pcb
<1> HIDE DEF r
<1>6. f \in [Pid -> Pcb] /\ f[c] = r /\ \A q \in Pid \ {c} : f[q] = m.pcb[q]
  BY <1>0, <1>5
<1> HIDE DEF f
<1>7. n \in Machine /\ n.pcb = f /\ n.frame = k /\ n.current = c
  BY <1>0, <1>2, <1>3, <1>6 DEF Machine
<1> HIDE DEF n
<1>8. Typed(n)
  <2>1. \A q \in Pid : f[q].wait <= MaxProcesses + 1
    BY <1>5, <1>6 DEF Typed, WaitsWithin
  <2> QED
    BY <1>7, <2>1 DEF Typed, WaitsWithin
<1>9. SameFamilies(m, n) /\ SameShared(m, n)
  BY <1>5, <1>6, <1>7 DEF SameFamilies, SameShared
<1>10. n.frame.pc # Null /\ Active(n, n.current)
  BY <1>0, <1>1, <1>3, <1>5, <1>6, <1>7 DEF Active
<1>11. InUse(m) /\ m.frame.pc # Null => SameActive(m, n)
  <2> SUFFICES ASSUME InUse(m), m.frame.pc # Null, NEW q \in Pid
               PROVE  Active(n, q) <=> Active(m, q)
    BY DEF SameActive
  <2>1. CASE q = c
    BY <1>7, <1>10, <2>1 DEF InUse
  <2>2. CASE q # c
    BY <1>6, <1>7, <2>2 DEF Active
  <2> QED
    BY <2>1, <2>2
<1>12. RegistersKept(m, n, c)
  BY <1>6, <1>7 DEF RegistersKept, RegistersOf, ActivePids
<1> QED
  BY <1>3, <1>7, <1>8, <1>9, <1>10, <1>11, <1>12 DEF n, InUse

(* The victim alone leaves the table, unless it is the caller.             *)
LEMMA SysKillEffect ==
  ASSUME NEW m, Typed(m), NEW victim \in Pid, NEW sig
  PROVE  LET n == SysKill(m, victim, sig)
         IN  /\ Typed(n)
             /\ victim # m.current /\ m.frame.pc # Null /\ InUse(m) => InUse(n)
             /\ victim # m.current => RegistersKept(m, n, m.current)
<1> DEFINE c == m.current
           u == FixOrphanedProcesses(m, c)
           v == UpdateWaiters(u, c, EXIT_FAILURE)
           n == SysKill(m, victim, sig)
<1>0. /\ m \in Machine /\ c \in Pid /\ EXIT_FAILURE \in Int /\ -1 \in Int /\ 0 \in Int
      /\ 0 \in 0 .. MaxProcesses
  BY DEF Typed, Machine, EXIT_FAILURE
<1>1. u \in Machine /\ SameOthers(m, u)
  BY <1>0, FixOrphanedEffect
<1> HIDE DEF u
<1>2. v \in Machine /\ SameOthers(u, v)
  BY <1>0, <1>1, UpdateWaitersEffect
<1> HIDE DEF v
<1>3. v \in Machine /\ SameOthers(m, v) /\ Typed(v)
  <2>1. SameOthers(m, v)
    BY <1>1, <1>2 DEF SameOthers
  <2> QED
    BY <1>2, <2>1 DEF Typed, WaitsWithin, SameOthers
<1>4. ASSUME NEW r \in Int, NEW w, Typed(w)
      PROVE  /\ Typed(Returned(w, r))
             /\ InUse(w) => InUse(Returned(w, r))
             /\ Returned(w, r).pcb = w.pcb /\ Returned(w, r).current = w.current
  <2>1. /\ Returned(w, r) \in Machine /\ Returned(w, r).pcb = w.pcb
        /\ Returned(w, r).current = w.current /\ Returned(w, r).frame.pc = w.frame.pc
    BY <1>4, ReturnedEffect DEF Typed
  <2> QED
    BY <1>4, <2>1 DEF Typed, WaitsWithin, InUse, Active, ActivePids
<1>5. CASE ~Active(m, victim) \/ sig # SIG_TERM
  <2>1. n = Returned(m, -1)
    BY <1>5 DEF SysKill
  <2> HIDE DEF n
  <2>2. Typed(n) /\ (InUse(m) => InUse(n)) /\ n.pcb = m.pcb /\ n.current = m.current
    BY <1>0, <1>4, <2>1
  <2>3. RegistersKept(m, n, c)
    BY <2>2 DEF RegistersKept, RegistersOf
  <2> QED
    BY <2>2, <2>3 DEF n
<1>6. CASE Active(m, victim) /\ sig = SIG_TERM /\ victim = c
  <2> DEFINE w == [v EXCEPT !.frame = ResetCtx(c)]
  <2>1. n = Returned(Scheduler(w), 0)
    BY <1>6 DEF SysKill, u, v
  <2>2. ResetCtx(c) \in Ctx
    BY <1>0, NewProcessType
  <2>3. Typed(w)
    BY <1>3, <2>2 DEF Typed, WaitsWithin, Machine
  <2> HIDE DEF w, n
  <2>4. Typed(Scheduler(w))
    BY <2>3, SchedulerTyped
  <2> QED
    BY <1>0, <1>4, <1>6, <2>1, <2>4 DEF n
<1>7. CASE Active(m, victim) /\ sig = SIG_TERM /\ victim # c
  <2> DEFINE k == ResetCtx(victim)
             r == [v.pcb[victim] EXCEPT !.ctx = k]
             f == [v.pcb EXCEPT ![victim] = r]
             w == [v EXCEPT !.pcb = f]
  <2>0. v.pcb \in [Pid -> Pcb] /\ v.pcb[victim] \in Pcb
    BY <1>3 DEF Machine
  <2>1. n = Returned(w, 0)
    BY <1>3, <1>7, <2>0 DEF SysKill, Machine, u, v
  <2>2. k \in Ctx
    BY <1>0, NewProcessType
  <2> HIDE DEF k
  <2>3. r \in Pcb /\ r.wait = v.pcb[victim].wait
    BY <2>0, <2>2, PcbWithCtx
  <2> HIDE DEF r
  <2>4. f \in [Pid -> Pcb] /\ f[victim] = r /\ \A q \in Pid \ {victim} : f[q] = v.pcb[q]
    BY <2>0, <2>3
  <2> HIDE DEF f
  <2>5. w \in Machine /\ w.pcb = f /\ w.current = c /\ w.frame = m.frame
    BY <1>3, <2>4 DEF Machine, SameOthers
  <2> HIDE DEF w
  <2>6. Typed(w)
    <3>1. \A q \in Pid : f[q].wait <= MaxProcesses + 1
      BY <1>3, <2>3, <2>4 DEF Typed, WaitsWithin
    <3> QED
      BY <2>5, <3>1 DEF Typed, WaitsWithin
  <2>7. m.frame.pc # Null /\ InUse(m) => InUse(w)
    <3> SUFFICES ASSUME m.frame.pc # Null, InUse(m)
                 PROVE  Active(w, c) /\ w.frame.pc # Null
      BY <2>5 DEF InUse
    <3>1. v.pcb[c].ctx = m.pcb[c].ctx
      BY <1>0, <1>3 DEF SameOthers
    <3> QED
      BY <1>0, <1>7, <2>4, <2>5, <3>1 DEF InUse, Active
  <2>8. f[victim].ctx.pc = Null
    BY <2>0, <2>2, <2>4, PcbWithCtx DEF r, k, ResetCtx
  <2> HIDE DEF n
  <2>9. Typed(n) /\ (InUse(w) => InUse(n)) /\ n.pcb = f /\ n.current = c
    BY <1>0, <1>4, <2>1, <2>5, <2>6
  <2>10. RegistersKept(m, n, c)
    <3> SUFFICES ASSUME NEW q \in Pid \ {c}, q # victim
                 PROVE  RegistersOf(n, q) = RegistersOf(m, q)
      BY <2>8, <2>9 DEF RegistersKept, ActivePids, Active
    <3> QED
      BY <1>3, <2>4, <2>9 DEF RegistersOf, SameOthers
  <2> QED
    BY <2>7, <2>9, <2>10 DEF n
<1> QED
  BY <1>5, <1>6, <1>7

-----------------------------------------------------------------------------
(* Waiting                                                                 *)

(* Nothing changes but the wait tables of process p.                       *)
SameButWaits(m, n, p) ==
  /\ n \in Machine
  /\ SameOthers(m, n)
  /\ \A q \in Pid : n.pcb[q].ppid = m.pcb[q].ppid
  /\ \A q \in Pid \ {p} : n.pcb[q] = m.pcb[q]

LEMMA WithWaiting ==
  ASSUME NEW m \in Machine, NEW p \in Pid, NEW i \in 1 .. MaxWaiting,
         NEW e \in [pid : 0 .. MaxProcesses, result : Int]
  PROVE  LET n == [m EXCEPT !.pcb[p].waiting[i] = e]
         IN  /\ SameButWaits(m, n, p)
             /\ n.pcb[p].waiting = [m.pcb[p].waiting EXCEPT ![i] = e]
             /\ n.pcb[p].waiters = m.pcb[p].waiters
<1> DEFINE w == [m.pcb[p].waiting EXCEPT ![i] = e]
           r == [m.pcb[p] EXCEPT !.waiting = w]
           f == [m.pcb EXCEPT ![p] = r]
           n == [m EXCEPT !.pcb[p].waiting[i] = e]
<1>1. m.pcb \in [Pid -> Pcb] /\ m.pcb[p] \in Pcb
  BY DEF Machine
<1>2. n = [m EXCEPT !.pcb = f]
  BY <1>1 DEF Machine, Pcb
<1>3. w \in WaitingTable
  BY <1>1 DEF Pcb, WaitingTable
<1> HIDE DEF w
<1>4. r \in Pcb
  BY <1>1, <1>3 DEF Pcb, WaitingTable
<1>5. /\ r.waiting = w /\ r.waiters = m.pcb[p].waiters /\ r.ppid = m.pcb[p].ppid
      /\ r.shared = m.pcb[p].shared /\ r.ctx = m.pcb[p].ctx
      /\ r.left = m.pcb[p].left /\ r.wait = m.pcb[p].wait
  BY <1>1 DEF Pcb
<1> HIDE DEF r
<1>6. f \in [Pid -> Pcb] /\ f[p] = r /\ \A q \in Pid \ {p} : f[q] = m.pcb[q]
  BY <1>1, <1>4
<1> HIDE DEF f
<1>7. n \in Machine /\ n.pcb = f /\ n.frame = m.frame /\ n.current = m.current
  BY <1>2, <1>6 DEF Machine
<1> HIDE DEF n
<1>8. SameButWaits(m, n, p)
  BY <1>5, <1>6, <1>7 DEF SameButWaits, SameOthers
<1> QED
  BY <1>5, <1>6, <1>7, <1>8 DEF n, w

LEMMA WithWaiter ==
  ASSUME NEW m \in Machine, NEW p \in Pid, NEW j \in 1 .. MaxWaiters, NEW q \in Pid
  PROVE  LET n == [m EXCEPT !.pcb[p].waiters[j] = q]
         IN  /\ SameButWaits(m, n, p)
             /\ n.pcb[p].waiters = [m.pcb[p].waiters EXCEPT ![j] = q]
             /\ n.pcb[p].waiting = m.pcb[p].waiting
<1> DEFINE v == [m.pcb[p].waiters EXCEPT ![j] = q]
           r == [m.pcb[p] EXCEPT !.waiters = v]
           f == [m.pcb EXCEPT ![p] = r]
           n == [m EXCEPT !.pcb[p].waiters[j] = q]
<1>1. m.pcb \in [Pid -> Pcb] /\ m.pcb[p] \in Pcb
  BY DEF Machine
<1>2. n = [m EXCEPT !.pcb = f]
  BY <1>1 DEF Machine, Pcb
<1>3. v \in WaitersTable
  <2>1. m.pcb[p].waiters \in WaitersTable
    BY <1>1 DEF Pcb, WaitersTable
  <2>2. q \in 0 .. MaxProcesses
    OBVIOUS
  <2>3. \A y \in WaitersTable : [y EXCEPT ![j] = q] \in WaitersTable
    BY <2>2 DEF WaitersTable
  <2> QED
    BY <2>1, <2>3
<1> HIDE DEF v
<1>4. r \in Pcb
  BY <1>1, <1>3 DEF Pcb, WaitersTable
<1>5. /\ r.waiters = v /\ r.waiting = m.pcb[p].waiting /\ r.ppid = m.pcb[p].ppid
      /\ r.shared = m.pcb[p].shared /\ r.ctx = m.pcb[p].ctx
      /\ r.left = m.pcb[p].left /\ r.wait = m.pcb[p].wait
  BY <1>1 DEF Pcb
<1> HIDE DEF r
<1>6. f \in [Pid -> Pcb] /\ f[p] = r /\ \A s \in Pid \ {p} : f[s] = m.pcb[s]
  BY <1>1, <1>4
<1> HIDE DEF f
<1>7. n \in Machine /\ n.pcb = f /\ n.frame = m.frame /\ n.current = m.current
  BY <1>2, <1>6 DEF Machine
<1> HIDE DEF n
<1>8. SameButWaits(m, n, p)
  BY <1>5, <1>6, <1>7 DEF SameButWaits, SameOthers
<1> QED
  BY <1>5, <1>6, <1>7, <1>8 DEF n, v

(* t gains a waiter p, and loses none.                                     *)
LEMMA SetWaiterEffect ==
  ASSUME NEW m \in Machine, NEW p \in Pid, NEW t \in Pid
  PROVE  LET n == SetWaiter(m, p, t)
         IN  /\ SameButWaits(m, n, t)
             /\ n.pcb[t].waiting = m.pcb[t].waiting
             /\ \A q \in Pid : Waiters(m, q) \subseteq Waiters(n, q)
             /\ CanRegister(m, t) => p \in Waiters(n, t)
<1> DEFINE n == SetWaiter(m, p, t)
           j == FreeWaiter(m, t)
<1>1. CASE ~CanRegister(m, t)
  <2>1. n = m
    BY <1>1 DEF SetWaiter
  <2> HIDE DEF n
  <2> QED
    BY <1>1, <2>1 DEF SameButWaits, SameOthers, n
<1>2. CASE CanRegister(m, t)
  <2>1. j \in 1 .. MaxWaiters /\ m.pcb[t].waiters[j] = 0
    BY <1>2, FreeWaiterSlot DEF CanRegister
  <2>2. n = [m EXCEPT !.pcb[t].waiters[j] = p]
    BY <1>2 DEF SetWaiter
  <2> HIDE DEF n, j
  <2>3. /\ SameButWaits(m, n, t)
        /\ n.pcb[t].waiters = [m.pcb[t].waiters EXCEPT ![j] = p]
        /\ n.pcb[t].waiting = m.pcb[t].waiting
    BY <2>1, <2>2, WithWaiter
  <2>4. m.pcb[t].waiters \in [1 .. MaxWaiters -> 0 .. MaxProcesses]
    BY TableRow DEF WaitersTable
  <2>5. n.pcb[t].waiters[j] = p /\ p # 0
    BY <2>1, <2>3, <2>4
  <2>6. p \in Waiters(n, t)
    BY <2>1, <2>5 DEF Waiters
  <2>7. Waiters(m, t) \subseteq Waiters(n, t)
    <3> SUFFICES ASSUME NEW i \in 1 .. MaxWaiters, m.pcb[t].waiters[i] # 0
                 PROVE  m.pcb[t].waiters[i] \in Waiters(n, t)
      BY DEF Waiters
    <3>1. i # j
      BY <2>1
    <3>2. n.pcb[t].waiters[i] = m.pcb[t].waiters[i]
      BY <2>1, <2>3, <2>4, <3>1
    <3> QED
      BY <3>2 DEF Waiters
  <2>8. \A q \in Pid \ {t} : Waiters(n, q) = Waiters(m, q)
    BY <2>3 DEF SameButWaits, Waiters
  <2> QED
    BY <2>3, <2>6, <2>7, <2>8 DEF n
<1> QED
  BY <1>1, <1>2

(* The wait of p for t is entered in a free slot, and t knows of it.       *)
Entered(m, n, p, t) ==
  /\ Active(m, t) /\ p \in Waiters(n, t)
  /\ \E i \in 1 .. MaxWaiting :
       /\ m.pcb[p].waiting[i].pid = 0
       /\ n.pcb[p].waiting = [m.pcb[p].waiting EXCEPT ![i] = [pid |-> t, result |-> -1]]

(* What a wait of p for t leaves alone.                                    *)
SameForWait(m, n, p) ==
  /\ n \in Machine
  /\ SameOthers(m, n)
  /\ \A q \in Pid : n.pcb[q].ppid = m.pcb[q].ppid
  /\ \A q \in Pid : Waiters(m, q) \subseteq Waiters(n, q)
  /\ \A q \in Pid \ {p} : n.pcb[q].waiting = m.pcb[q].waiting

LEMMA SetWaitingEffect ==
  ASSUME NEW m \in Machine, NEW p \in Pid, NEW t \in Pid
  PROVE  LET n == SetWaiting(m, p, t)
         IN  /\ SameForWait(m, n, p)
             /\ n.pcb[p].waiting = m.pcb[p].waiting \/ Entered(m, n, p, t)
             /\ CanRegister(m, t) /\ FreeWaiting(m, p) # 0 => Entered(m, n, p, t)
<1> DEFINE u == SetWaiter(m, p, t)
           i == FreeWaiting(m, p)
           e == [pid |-> t, result |-> -1]
           n == SetWaiting(m, p, t)
<1>1. /\ SameButWaits(m, u, t)
      /\ u.pcb[t].waiting = m.pcb[t].waiting
      /\ \A q \in Pid : Waiters(m, q) \subseteq Waiters(u, q)
      /\ CanRegister(m, t) => p \in Waiters(u, t)
  BY SetWaiterEffect
<1>2. \A q \in Pid : u.pcb[q].waiting = m.pcb[q].waiting
  BY <1>1 DEF SameButWaits
<1>3. CASE ~(CanRegister(m, t) /\ i # 0)
  <2>1. n = u
    BY <1>3 DEF SetWaiting
  <2> HIDE DEF n, u
  <2>2. SameForWait(m, n, p)
    BY <1>1, <1>2, <2>1 DEF SameForWait, SameButWaits
  <2> QED
    BY <1>2, <1>3, <2>1, <2>2 DEF n
<1>4. CASE CanRegister(m, t) /\ i # 0
  <2>1. i \in 1 .. MaxWaiting /\ m.pcb[p].waiting[i].pid = 0
    BY <1>4, GetWaitingSlot DEF FreeWaiting
  <2>2. n = [u EXCEPT !.pcb[p].waiting[i] = e]
    BY <1>4 DEF SetWaiting
  <2>3. e \in [pid : 0 .. MaxProcesses, result : Int]
    OBVIOUS
  <2>4. u \in Machine
    BY <1>1 DEF SameButWaits
  <2> HIDE DEF n, u, i, e
  <2>5. /\ SameButWaits(u, n, p)
        /\ n.pcb[p].waiting = [u.pcb[p].waiting EXCEPT ![i] = e]
        /\ n.pcb[p].waiters = u.pcb[p].waiters
    BY <2>1, <2>2, <2>3, <2>4, WithWaiting
  <2>6. \A q \in Pid : Waiters(n, q) = Waiters(u, q)
    BY <2>5 DEF SameButWaits, Waiters
  <2>7. SameOthers(m, n)
    BY <1>1, <2>5 DEF SameButWaits, SameOthers
  <2>8. SameForWait(m, n, p)
    BY <1>1, <1>2, <2>5, <2>6, <2>7 DEF SameForWait, SameButWaits
  <2>9. Active(m, t) /\ p \in Waiters(n, t)
    BY <1>1, <1>4, <2>6 DEF CanRegister
  <2>10. n.pcb[p].waiting = [m.pcb[p].waiting EXCEPT ![i] = e]
    BY <1>2, <2>5
  <2>11. Entered(m, n, p, t)
    BY <2>1, <2>9, <2>10 DEF Entered, e
  <2> QED
    BY <2>8, <2>11 DEF n
<1> QED
  BY <1>3, <1>4

(* A process has at most one entry for each process it waits for.          *)
OneEntry(m) ==
  \A p \in Pid, i, j \in 1 .. MaxWaiting :
    /\ m.pcb[p].waiting[i].pid # 0
    /\ m.pcb[p].waiting[i].pid = m.pcb[p].waiting[j].pid
    => i = j

(* An entry without an answer is known to the living process it is for.    *)
Known(m) ==
  \A p, t \in Pid, i \in 1 .. MaxWaiting :
    m.pcb[p].waiting[i] = [pid |-> t, result |-> -1]
      => Active(m, t) /\ p \in Waiters(m, t)

(* The parents of the living are alive.                                    *)
Families(m) ==
  \A p \in Pid :
    Active(m, p) /\ m.pcb[p].ppid # 0 => Active(m, m.pcb[p].ppid)

Books(m) == OneEntry(m) /\ Known(m) /\ Families(m)

LEMMA ParentRange ==
  ASSUME NEW m \in Machine, NEW p \in Pid
  PROVE  m.pcb[p].ppid # 0 => m.pcb[p].ppid \in Pid
<1>1. m.pcb[p] \in Pcb
  BY DEF Machine
<1>2. m.pcb[p].ppid \in 0 .. MaxProcesses
  BY <1>1 DEF Pcb
<1> QED
  BY <1>2

LEMMA SameKeepsBooks ==
  ASSUME NEW m \in Machine, NEW n \in Machine,
         SameFamilies(m, n), SameActive(m, n), Books(m)
  PROVE  Books(n)
<1>1. OneEntry(n)
  BY DEF Books, OneEntry, SameFamilies
<1>2. \A t \in Pid : Waiters(n, t) = Waiters(m, t)
  BY DEF SameFamilies, Waiters
<1>3. Known(n)
  BY <1>2 DEF Books, Known, SameFamilies, SameActive
<1>4. \A p \in Pid : m.pcb[p].ppid # 0 => m.pcb[p].ppid \in Pid
  BY ParentRange
<1>5. Families(n)
  BY <1>4 DEF Books, Families, SameFamilies, SameActive
<1> QED
  BY <1>1, <1>3, <1>5 DEF Books

(* What a wait leaves as it was for everyone but its caller.               *)
LEMMA SameForWaitKeeps ==
  ASSUME NEW m, NEW n, NEW p \in Pid, Typed(m), SameForWait(m, n, p)
  PROVE  /\ Typed(n)
         /\ SameActive(m, n) /\ SameShared(m, n)
         /\ InUse(m) => InUse(n)
         /\ Families(m) => Families(n)
         /\ n.current = m.current /\ n.frame = m.frame
<1>1. n \in Machine /\ m \in Machine /\ SameOthers(m, n) /\ n.current \in Pid
  BY DEF Typed, SameForWait, Machine
<1>2. Typed(n)
  BY <1>1 DEF Typed, WaitsWithin, SameOthers
<1>3. SameActive(m, n) /\ SameShared(m, n)
  BY <1>1 DEF SameActive, SameShared, Active, SameOthers
<1>4. n.current = m.current /\ n.frame = m.frame
  BY <1>1 DEF SameOthers
<1>5. ActivePids(n) = ActivePids(m)
  BY <1>3 DEF SameActive, ActivePids
<1>6. InUse(m) => InUse(n)
  BY <1>1, <1>3, <1>4, <1>5 DEF InUse, SameActive
<1>7. \A q \in Pid : m.pcb[q].ppid # 0 => m.pcb[q].ppid \in Pid
  BY <1>1, ParentRange
<1>8. Families(m) => Families(n)
  BY <1>3, <1>7 DEF Families, SameForWait, SameActive
<1> QED
  BY <1>2, <1>3, <1>4, <1>6, <1>8

LEMMA WaitEntryEffect ==
  ASSUME NEW m, Typed(m), NEW p \in Pid, NEW t \in Pid
  PROVE  LET n == WaitEntry(m, p, t)
         IN  SameForWait(m, n, p) /\ (Books(m) => Books(n))
<1> DEFINE n == WaitEntry(m, p, t)
<1>0. m \in Machine
  BY DEF Typed
<1>1. CASE GetWaiting(m, p, t) # 0
  <2>1. n = m
    BY <1>1 DEF WaitEntry
  <2> HIDE DEF n
  <2>2. SameForWait(m, n, p)
    BY <1>0, <2>1 DEF SameForWait, SameOthers
  <2> QED
    BY <2>1, <2>2 DEF n
<1>2. CASE GetWaiting(m, p, t) = 0
  <2>1. n = SetWaiting(m, p, t)
    BY <1>2 DEF WaitEntry
  <2> HIDE DEF n
  <2>2. /\ SameForWait(m, n, p)
        /\ n.pcb[p].waiting = m.pcb[p].waiting \/ Entered(m, n, p, t)
    BY <1>0, <2>1, SetWaitingEffect
  <2>3. SameActive(m, n) /\ (Families(m) => Families(n))
    BY <2>2, SameForWaitKeeps
  <2>4. ASSUME Books(m)
        PROVE  OneEntry(n) /\ Known(n)
    <3>1. CASE n.pcb[p].waiting = m.pcb[p].waiting
      <4>1. \A q \in Pid : n.pcb[q].waiting = m.pcb[q].waiting
        BY <2>2, <3>1 DEF SameForWait
      <4>2. OneEntry(n)
        BY <2>4, <4>1 DEF Books, OneEntry
      <4>3. Known(n)
        BY <2>2, <2>3, <2>4, <4>1 DEF Books, Known, SameForWait, SameActive
      <4> QED
        BY <4>2, <4>3
    <3>2. CASE Entered(m, n, p, t)
      <4>1. PICK k \in 1 .. MaxWaiting :
              /\ m.pcb[p].waiting[k].pid = 0
              /\ n.pcb[p].waiting = [m.pcb[p].waiting EXCEPT ![k] = [pid |-> t, result |-> -1]]
        BY <3>2 DEF Entered
      <4>2. \A i \in 1 .. MaxWaiting : m.pcb[p].waiting[i].pid # t
        BY <1>0, <1>2, GetWaitingSlot
      <4>3. /\ n.pcb[p].waiting[k] = [pid |-> t, result |-> -1]
            /\ \A i \in 1 .. MaxWaiting : i # k => n.pcb[p].waiting[i] = m.pcb[p].waiting[i]
        <5>1. m.pcb[p].waiting \in [1 .. MaxWaiting -> [pid : 0 .. MaxProcesses, result : Int]]
          BY <1>0 DEF Machine, Pcb
        <5> QED
          BY <4>1, <5>1
      <4>4. OneEntry(n)
        <5> SUFFICES ASSUME NEW q \in Pid, NEW i \in 1 .. MaxWaiting, NEW j \in 1 .. MaxWaiting,
                            n.pcb[q].waiting[i].pid # 0,
                            n.pcb[q].waiting[i].pid = n.pcb[q].waiting[j].pid
                     PROVE  i = j
          BY DEF OneEntry
        <5>1. CASE q # p
          <6>1. n.pcb[q].waiting = m.pcb[q].waiting
            BY <2>2, <5>1 DEF SameForWait
          <6> QED
            BY <2>4, <6>1 DEF Books, OneEntry
        <5>2. CASE q = p
          <6>1. CASE i = k \/ j = k
            <7>1. n.pcb[p].waiting[k].pid = t
              BY <4>3
            <7>2. \A x \in 1 .. MaxWaiting : x # k => n.pcb[p].waiting[x].pid # t
              BY <4>2, <4>3
            <7> QED
              BY <5>2, <6>1, <7>1, <7>2
          <6>2. CASE i # k /\ j # k
            <7>1. /\ n.pcb[p].waiting[i] = m.pcb[p].waiting[i]
                  /\ n.pcb[p].waiting[j] = m.pcb[p].waiting[j]
              BY <4>3, <6>2
            <7>2. /\ m.pcb[p].waiting[i].pid # 0
                  /\ m.pcb[p].waiting[i].pid = m.pcb[p].waiting[j].pid
              BY <5>2, <7>1
            <7>3. OneEntry(m)
              BY <2>4 DEF Books
            <7> QED
              BY <7>2, <7>3 DEF OneEntry
          <6> QED
            BY <6>1, <6>2
        <5> QED
          BY <5>1, <5>2
      <4>5. Known(n)
        <5> SUFFICES ASSUME NEW q \in Pid, NEW s \in Pid, NEW i \in 1 .. MaxWaiting,
                            n.pcb[q].waiting[i] = [pid |-> s, result |-> -1]
                     PROVE  Active(n, s) /\ q \in Waiters(n, s)
          BY DEF Known
        <5>1. CASE q = p /\ i = k
          <6>1. s = t
            BY <4>3, <5>1
          <6>2. Active(m, t) /\ p \in Waiters(n, t)
            BY <3>2 DEF Entered
          <6> QED
            BY <2>3, <5>1, <6>1, <6>2 DEF SameActive
        <5>2. CASE ~(q = p /\ i = k)
          <6>1. n.pcb[q].waiting[i] = m.pcb[q].waiting[i]
            BY <2>2, <4>3, <5>2 DEF SameForWait
          <6>2. Active(m, s) /\ q \in Waiters(m, s)
            BY <2>4, <6>1 DEF Books, Known
          <6> QED
            BY <2>2, <2>3, <6>2 DEF SameForWait, SameActive
        <5> QED
          BY <5>1, <5>2
      <4> QED
        BY <4>4, <4>5
    <3> QED
      BY <2>2, <3>1, <3>2
  <2> QED
    BY <2>2, <2>3, <2>4 DEF n, Books
<1> QED
  BY <1>1, <1>2

LEMMA SysWaitEffect ==
  ASSUME NEW m, Typed(m), NEW p \in Pid, NEW t \in Pid
  PROVE  LET n == SysWait(m, p, t)
         IN  /\ SameForWait(m, n, p)
             /\ Books(m) => Books(n)
             /\ WaitResult(m, p, t) \in Int
<1> DEFINE u == WaitEntry(m, p, t)
           i == GetWaiting(u, p, t)
           n == SysWait(m, p, t)
<1>1. SameForWait(m, u, p) /\ (Books(m) => Books(u))
  BY WaitEntryEffect
<1>2. u \in Machine
  BY <1>1 DEF SameForWait
<1>3. WaitResult(m, p, t) = IF i = 0 THEN -2 ELSE u.pcb[p].waiting[i].result
  BY DEF WaitResult
<1>4. n = IF i = 0 \/ u.pcb[p].waiting[i].result = -1
            THEN u ELSE [u EXCEPT !.pcb[p].waiting[i] = NoWait]
  BY DEF SysWait
<1> HIDE DEF u, n
<1>5. i # 0 => i \in 1 .. MaxWaiting
  BY <1>2, GetWaitingSlot
<1> HIDE DEF i
<1>6. u.pcb[p].waiting \in [1 .. MaxWaiting -> [pid : 0 .. MaxProcesses, result : Int]]
  BY <1>2 DEF Machine, Pcb
<1>7. WaitResult(m, p, t) \in Int
  BY <1>3, <1>5, <1>6
<1>8. CASE n = u
  BY <1>1, <1>7, <1>8 DEF n
<1>9. CASE i # 0 /\ n = [u EXCEPT !.pcb[p].waiting[i] = NoWait]
  <2>1. NoWait \in [pid : 0 .. MaxProcesses, result : Int]
    BY DEF NoWait
  <2>2. /\ SameButWaits(u, n, p)
        /\ n.pcb[p].waiting = [u.pcb[p].waiting EXCEPT ![i] = NoWait]
        /\ n.pcb[p].waiters = u.pcb[p].waiters
    BY <1>2, <1>5, <1>9, <2>1, WithWaiting
  <2>3. \A q \in Pid : Waiters(n, q) = Waiters(u, q)
    BY <2>2 DEF SameButWaits, Waiters
  <2>4. SameOthers(m, n)
    BY <1>1, <2>2 DEF SameForWait, SameButWaits, SameOthers
  <2>5. SameForWait(m, n, p)
    BY <1>1, <2>2, <2>3, <2>4 DEF SameForWait, SameButWaits
  <2>6. SameActive(u, n)
    BY <2>2 DEF SameButWaits, SameOthers, SameActive, Active
  <2>7. /\ n.pcb[p].waiting[i] = NoWait
        /\ \A j \in 1 .. MaxWaiting : j # i => n.pcb[p].waiting[j] = u.pcb[p].waiting[j]
        /\ \A q \in Pid \ {p} : n.pcb[q].waiting = u.pcb[q].waiting
    <3> DEFINE a == u.pcb[p].waiting
               b == n.pcb[p].waiting
    <3>1. b = [a EXCEPT ![i] = NoWait] /\ i \in 1 .. MaxWaiting
      BY <1>5, <1>9, <2>2
    <3>2. a \in [1 .. MaxWaiting -> [pid : 0 .. MaxProcesses, result : Int]]
      BY <1>6
    <3> HIDE DEF a, b
    <3>3. b[i] = NoWait /\ \A j \in 1 .. MaxWaiting : j # i => b[j] = a[j]
      BY <3>1, <3>2
    <3>4. \A q \in Pid \ {p} : n.pcb[q].waiting = u.pcb[q].waiting
      BY <2>2 DEF SameButWaits
    <3> QED
      BY <3>3, <3>4 DEF a, b
  <2>8. ASSUME Books(m)
        PROVE  Books(n)
    <3>1. OneEntry(n)
      <4> SUFFICES ASSUME NEW q \in Pid, NEW j \in 1 .. MaxWaiting, NEW k \in 1 .. MaxWaiting,
                          n.pcb[q].waiting[j].pid # 0,
                          n.pcb[q].waiting[j].pid = n.pcb[q].waiting[k].pid
                   PROVE  j = k
        BY DEF OneEntry
      <4>1. NoWait.pid = 0
        BY DEF NoWait
      <4>2. ~(q = p /\ j = i) /\ ~(q = p /\ k = i)
        BY <2>7, <4>1
      <4>3. /\ n.pcb[q].waiting[j] = u.pcb[q].waiting[j]
            /\ n.pcb[q].waiting[k] = u.pcb[q].waiting[k]
        BY <2>7, <4>2
      <4> QED
        BY <1>1, <2>8, <4>3 DEF Books, OneEntry
    <3>2. ASSUME NEW q \in Pid, NEW s \in Pid, NEW j \in 1 .. MaxWaiting,
                 n.pcb[q].waiting[j] = [pid |-> s, result |-> -1]
          PROVE  Active(n, s) /\ q \in Waiters(n, s)
      <4>1. ~(q = p /\ j = i)
        BY <2>7, <3>2 DEF NoWait
      <4>2. n.pcb[q].waiting[j] = u.pcb[q].waiting[j]
        BY <2>7, <4>1
      <4>3. Active(u, s) /\ q \in Waiters(u, s)
        BY <1>1, <2>8, <3>2, <4>2 DEF Books, Known
      <4> QED
        BY <2>3, <2>6, <4>3 DEF SameActive
    <3>3. Families(n)
      BY <2>5, <2>8, SameForWaitKeeps DEF Books
    <3> QED
      BY <3>1, <3>2, <3>3 DEF Books, Known
  <2> QED
    BY <1>7, <2>5, <2>8 DEF n
<1> QED
  BY <1>4, <1>8, <1>9

-----------------------------------------------------------------------------
(* Forking and exiting keep the books                                      *)

LEMMA SysForkKeeps ==
  ASSUME NEW m, Typed(m), InUse(m), m.frame.pc # Null
  PROVE  LET n == SysFork(m)
         IN  /\ Typed(n) /\ InUse(n) /\ n.frame.pc # Null
             /\ Books(m) => Books(n)
             /\ \/ n.pcb = m.pcb
                \/ \E c \in Pid \ {m.current} :
                     /\ ~Active(m, c)
                     /\ n.pcb[c].shared = NewProcess(c, 0).shared
                     /\ \A i \in 1 .. MaxWaiting : n.pcb[c].waiting[i] = NoWait
                     /\ \A q \in Pid \ {c} : /\ n.pcb[q].shared = m.pcb[q].shared
                                             /\ n.pcb[q].waiting = m.pcb[q].waiting
<1> DEFINE n == SysFork(m)
           d == m.current
<1>0. m \in Machine /\ d \in Pid /\ m.frame \in Ctx /\ Active(m, d) /\ m.pcb \in [Pid -> Pcb]
  BY DEF Typed, Machine, InUse
<1>1. /\ Typed(n)
      /\ \/ n = Returned(m, -1)
         \/ \E c \in Pid : ~Active(m, c) /\ (c # d => Forked(m, n, c))
  BY SysForkEffect
<1>2. CASE n = Returned(m, -1)
  <2> HIDE DEF n
  <2>1. -1 \in Int
    OBVIOUS
  <2>2. n.pcb = m.pcb /\ n.current = d /\ n.frame.pc = m.frame.pc /\ n \in Machine
    BY <1>0, <1>2, <2>1, ReturnedEffect
  <2>3. InUse(n)
    BY <2>2 DEF InUse, Active, ActivePids
  <2>4. SameFamilies(m, n) /\ SameActive(m, n)
    BY <2>2 DEF SameFamilies, SameActive, Active
  <2>5. Books(m) => Books(n)
    BY <1>0, <2>2, <2>4, SameKeepsBooks
  <2> QED
    BY <1>1, <2>2, <2>3, <2>5 DEF n
<1>3. ASSUME NEW c \in Pid, ~Active(m, c), c # d => Forked(m, n, c)
      PROVE  /\ InUse(n) /\ n.frame.pc # Null
             /\ Books(m) => Books(n)
             /\ c # d
             /\ n.pcb[c].shared = NewProcess(c, 0).shared
             /\ \A i \in 1 .. MaxWaiting : n.pcb[c].waiting[i] = NoWait
             /\ \A q \in Pid \ {c} : /\ n.pcb[q].shared = m.pcb[q].shared
                                     /\ n.pcb[q].waiting = m.pcb[q].waiting
  <2> HIDE DEF n
  <2>1. c # d /\ Forked(m, n, c) /\ d # 0
    BY <1>0, <1>3
  <2>2. n.frame \in Ctx /\ n.frame.pc = m.frame.pc /\ n.current = c
    <3>1. 0 \in Int
      OBVIOUS
    <3>2. n.frame = [m.frame EXCEPT !.r0 = 0] /\ n.current = c
      BY <2>1 DEF Forked
    <3> QED
      BY <1>0, <3>1, <3>2, CtxWithResult
  <2>3. /\ NewProcess(c, d) \in Pcb
        /\ NewProcess(c, d).ppid = d /\ NewProcess(c, d).shared = NewProcess(c, 0).shared
        /\ \A i \in 1 .. MaxWaiting : NewProcess(c, d).waiting[i] = NoWait
    <3>1. d \in 0 .. MaxProcesses
      BY <1>0
    <3> QED
      BY <3>1, NewProcessType DEF NewProcess
  <2>4. /\ n.pcb[c].ctx = n.frame /\ n.pcb[c].ppid = d
        /\ n.pcb[c].shared = NewProcess(c, 0).shared
        /\ \A i \in 1 .. MaxWaiting : n.pcb[c].waiting[i] = NoWait
    BY <2>1, <2>2, <2>3, PcbWithCtx DEF Forked
  <2>5. /\ n.pcb[d].ctx.pc = m.frame.pc /\ n.pcb[d].ppid = m.pcb[d].ppid
        /\ n.pcb[d].shared = m.pcb[d].shared
        /\ n.pcb[d].waiting = m.pcb[d].waiting /\ n.pcb[d].waiters = m.pcb[d].waiters
    <3> DEFINE k == [m.frame EXCEPT !.r0 = c]
    <3>1. k \in Ctx /\ k.pc = m.frame.pc
      BY <1>0, CtxWithResult
    <3>2. n.pcb[d] = [m.pcb[d] EXCEPT !.ctx = k] /\ m.pcb[d] \in Pcb
      BY <1>0, <2>1 DEF Forked
    <3> HIDE DEF k
    <3> QED
      BY <3>1, <3>2, PcbWithCtx
  <2>6. \A q \in Pid \ {c} :
          /\ n.pcb[q].ppid = m.pcb[q].ppid /\ n.pcb[q].shared = m.pcb[q].shared
          /\ n.pcb[q].waiting = m.pcb[q].waiting /\ n.pcb[q].waiters = m.pcb[q].waiters
    BY <2>1, <2>5 DEF Forked
  <2>7. \A q \in Pid : Active(n, q) <=> Active(m, q) \/ q = c
    <3> TAKE q \in Pid
    <3>1. CASE q = c
      BY <2>2, <2>4, <3>1 DEF Active
    <3>2. CASE q = d
      BY <1>0, <2>5, <3>2 DEF Active
    <3>3. CASE q # c /\ q # d
      BY <2>1, <3>3 DEF Forked, Active
    <3> QED
      BY <3>1, <3>2, <3>3
  <2>8. InUse(n) /\ n.frame.pc # Null
    BY <2>2, <2>7 DEF InUse
  <2>9. ASSUME Books(m)
        PROVE  Books(n)
    <3>1. OneEntry(n)
      <4>1. NoWait.pid = 0
        BY DEF NoWait
      <4> QED
        BY <2>4, <2>6, <2>9, <4>1 DEF Books, OneEntry
    <3>2. Known(n)
      <4> SUFFICES ASSUME NEW q \in Pid, NEW t \in Pid, NEW i \in 1 .. MaxWaiting,
                          n.pcb[q].waiting[i] = [pid |-> t, result |-> -1]
                   PROVE  Active(n, t) /\ q \in Waiters(n, t)
        BY DEF Known
      <4>1. q # c
        BY <2>4 DEF NoWait
      <4>2. Active(m, t) /\ q \in Waiters(m, t)
        BY <2>6, <2>9, <4>1 DEF Books, Known
      <4>3. t # c
        BY <1>3, <4>2
      <4>4. Waiters(n, t) = Waiters(m, t)
        BY <2>6, <4>3 DEF Waiters
      <4> QED
        BY <2>7, <4>2, <4>4
    <3>3. Families(n)
      <4> SUFFICES ASSUME NEW p \in Pid, Active(n, p), n.pcb[p].ppid # 0
                   PROVE  Active(n, n.pcb[p].ppid)
        BY DEF Families
      <4>1. CASE p = c
        BY <1>0, <2>4, <2>7, <4>1
      <4>2. CASE p # c
        <5>1. Active(m, m.pcb[p].ppid) /\ m.pcb[p].ppid \in Pid
          BY <1>0, <2>6, <2>7, <2>9, <4>2, ParentRange DEF Books, Families
        <5> QED
          BY <2>6, <2>7, <4>2, <5>1
      <4> QED
        BY <4>1, <4>2
    <3> QED
      BY <3>1, <3>2, <3>3 DEF Books
  <2> QED
    BY <2>1, <2>4, <2>6, <2>8, <2>9
<1> QED
  BY <1>1, <1>2, <1>3

LEMMA EndedKeepsBooks ==
  ASSUME NEW m \in Machine, NEW n \in Machine, NEW c \in Pid, NEW x \in Int, x # -1,
         Ended(m, n, c, x), Books(m)
  PROVE  Books(n)
<1>0. NoWait.pid = 0
  BY DEF NoWait
<1>1. ASSUME NEW q \in Pid \ {c}, NEW i \in 1 .. MaxWaiting
      PROVE  n.pcb[q].waiting[i].pid = m.pcb[q].waiting[i].pid
  <2>1. i = GetWaiting(m, q, c) => m.pcb[q].waiting[i].pid = c
    BY GetWaitingSlot
  <2>2. [pid |-> c, result |-> x].pid = c
    OBVIOUS
  <2> QED
    BY <2>1, <2>2 DEF Ended
<1>2. OneEntry(n)
  <2> SUFFICES ASSUME NEW q \in Pid, NEW i \in 1 .. MaxWaiting, NEW j \in 1 .. MaxWaiting,
                      n.pcb[q].waiting[i].pid # 0,
                      n.pcb[q].waiting[i].pid = n.pcb[q].waiting[j].pid
               PROVE  i = j
    BY DEF OneEntry
  <2>1. q # c
    BY <1>0 DEF Ended
  <2> QED
    BY <1>1, <2>1 DEF Books, OneEntry
<1>3. Known(n)
  <2> SUFFICES ASSUME NEW q \in Pid, NEW t \in Pid, NEW i \in 1 .. MaxWaiting,
                      n.pcb[q].waiting[i] = [pid |-> t, result |-> -1]
               PROVE  Active(n, t) /\ q \in Waiters(n, t)
    BY DEF Known
  <2>1. q # c
    <3>1. [pid |-> t, result |-> -1].pid # 0
      OBVIOUS
    <3> QED
      BY <1>0, <3>1 DEF Ended
  <2>2. ~(q \in Waiters(m, c) /\ i = GetWaiting(m, q, c))
    <3>1. [pid |-> t, result |-> -1].result # [pid |-> c, result |-> x].result
      OBVIOUS
    <3> QED
      BY <2>1, <3>1 DEF Ended
  <2>3. m.pcb[q].waiting[i] = [pid |-> t, result |-> -1]
    BY <2>1, <2>2 DEF Ended
  <2>4. Active(m, t) /\ q \in Waiters(m, t)
    BY <2>3 DEF Books, Known
  <2>5. t # c
    <3> SUFFICES ASSUME t = c
                 PROVE  FALSE
      OBVIOUS
    <3>1. m.pcb[q].waiting[i].pid = c
      BY <2>3
    <3>2. /\ GetWaiting(m, q, c) \in 1 .. MaxWaiting
          /\ m.pcb[q].waiting[GetWaiting(m, q, c)].pid = c
      BY <3>1, GetWaitingSlot
    <3>3. i = GetWaiting(m, q, c)
      BY <3>1, <3>2 DEF Books, OneEntry
    <3> QED
      BY <2>2, <2>4, <3>3
  <2>6. Waiters(n, t) = Waiters(m, t)
    BY <2>5 DEF Ended, Waiters
  <2> QED
    BY <2>4, <2>5, <2>6 DEF Ended
<1>4. Families(n)
  <2> SUFFICES ASSUME NEW p \in Pid, Active(n, p), n.pcb[p].ppid # 0
               PROVE  Active(n, n.pcb[p].ppid)
    BY DEF Families
  <2>1. p # c /\ Active(m, p)
    BY DEF Ended
  <2>2. m.pcb[p].ppid # c /\ n.pcb[p].ppid = m.pcb[p].ppid
    BY <2>1 DEF Ended
  <2>3. Active(m, m.pcb[p].ppid) /\ m.pcb[p].ppid \in Pid
    BY <2>1, <2>2, ParentRange DEF Books, Families
  <2> QED
    BY <2>2, <2>3 DEF Ended
<1> QED
  BY <1>2, <1>3, <1>4 DEF Books

-----------------------------------------------------------------------------
(* Sharing                                                                 *)

(* At most the shared pointer of process o and the caller's result change. *)
OnlyShared(m, n, o) ==
  /\ n \in Machine
  /\ n.current = m.current /\ n.frame.pc = m.frame.pc
  /\ \A q \in Pid :
       /\ n.pcb[q].ctx = m.pcb[q].ctx /\ n.pcb[q].wait = m.pcb[q].wait
       /\ n.pcb[q].ppid = m.pcb[q].ppid
       /\ n.pcb[q].waiting = m.pcb[q].waiting /\ n.pcb[q].waiters = m.pcb[q].waiters
       /\ q # o => n.pcb[q].shared = m.pcb[q].shared

LEMMA OnlyResult ==
  ASSUME NEW m \in Machine, NEW r \in Int, NEW o
  PROVE  OnlyShared(m, [m EXCEPT !.frame.r0 = r], o)
<1> DEFINE n == Returned(m, r)
<1>1. /\ n \in Machine /\ n.pcb = m.pcb /\ n.current = m.current
      /\ n.frame.pc = m.frame.pc
  BY ReturnedEffect
<1> HIDE DEF n
<1>2. OnlyShared(m, n, o)
  BY <1>1 DEF OnlyShared
<1> QED
  BY <1>2 DEF n, Returned

LEMMA WithShared ==
  ASSUME NEW m \in Machine, NEW o \in Pid, NEW r \in Int,
         NEW s \in [ptr : Ptrs \cup {Null}, locked : BOOLEAN],
         NEW n, n = [m EXCEPT !.pcb[o].shared = s, !.frame.r0 = r]
  PROVE  OnlyShared(m, n, o)
<1> DEFINE e == [m.pcb[o] EXCEPT !.shared = s]
           f == [m.pcb EXCEPT ![o] = e]
           k == [m.frame EXCEPT !.r0 = r]
<1>1. m.pcb \in [Pid -> Pcb] /\ m.pcb[o] \in Pcb /\ m.frame \in Ctx
  BY DEF Machine
<1>2. n = [m EXCEPT !.pcb = f, !.frame = k]
  BY <1>1 DEF Machine
<1>3. k \in Ctx /\ k.pc = m.frame.pc
  BY <1>1, CtxWithResult
<1> HIDE DEF k
<1>4. /\ e \in Pcb /\ e.ctx = m.pcb[o].ctx /\ e.wait = m.pcb[o].wait
      /\ e.ppid = m.pcb[o].ppid
      /\ e.waiting = m.pcb[o].waiting /\ e.waiters = m.pcb[o].waiters
  <2>1. e \in Pcb
    BY <1>1 DEF Pcb
  <2> QED
    BY <1>1, <2>1 DEF Pcb
<1> HIDE DEF e
<1>5. f \in [Pid -> Pcb] /\ f[o] = e /\ \A q \in Pid \ {o} : f[q] = m.pcb[q]
  BY <1>1, <1>4
<1> HIDE DEF f
<1>6. n \in Machine /\ n.pcb = f /\ n.frame = k /\ n.current = m.current
  BY <1>2, <1>3, <1>5 DEF Machine
<1> QED
  BY <1>3, <1>4, <1>5, <1>6 DEF OnlyShared

(* The fields of a shared pointer, one at a time.                          *)
LEMMA WithSharedField ==
  ASSUME NEW m \in Machine, NEW o \in Pid, NEW r \in Int,
         NEW ptr \in Ptrs \cup {Null}, NEW b \in BOOLEAN
  PROVE  /\ OnlyShared(m, [m EXCEPT !.pcb[o].shared.ptr = ptr, !.frame.r0 = r], o)
         /\ OnlyShared(m, [m EXCEPT !.pcb[o].shared.locked = b, !.frame.r0 = r], o)
<1> DEFINE s == m.pcb[o].shared
           S == [ptr : Ptrs \cup {Null}, locked : BOOLEAN]
           n1 == [m EXCEPT !.pcb[o].shared.ptr = ptr, !.frame.r0 = r]
           n2 == [m EXCEPT !.pcb[o].shared.locked = b, !.frame.r0 = r]
<1>1. m.pcb \in [Pid -> Pcb] /\ m.pcb[o] \in Pcb
  BY DEF Machine
<1>2. s \in S
  BY <1>1 DEF Pcb
<1>3. [s EXCEPT !.ptr = ptr] \in S /\ [s EXCEPT !.locked = b] \in S
  <2> HIDE DEF s
  <2> QED
    BY <1>2
<1>4. n1 = [m EXCEPT !.pcb[o].shared = [s EXCEPT !.ptr = ptr], !.frame.r0 = r]
  OBVIOUS
<1>5. n2 = [m EXCEPT !.pcb[o].shared = [s EXCEPT !.locked = b], !.frame.r0 = r]
  OBVIOUS
<1> HIDE DEF s, n1, n2
<1>6. OnlyShared(m, n1, o)
  BY <1>3, <1>4, WithShared
<1>7. OnlyShared(m, n2, o)
  BY <1>3, <1>5, WithShared
<1> QED
  BY <1>6, <1>7 DEF n1, n2

LEMMA ShareEffect ==
  ASSUME NEW m \in Machine, NEW p \in Pid, NEW ptr \in Ptrs
  PROVE  OnlyShared(m, Share(m, p, ptr), p) /\ OnlyShared(m, Unshare(m, p, ptr), p)
<1>0. 0 \in Int /\ 1 \in Int
  OBVIOUS
<1>1. OnlyShared(m, Share(m, p, ptr), p)
  BY <1>0, OnlyResult, WithSharedField DEF Share
<1>2. OnlyShared(m, Unshare(m, p, ptr), p)
  BY <1>0, OnlyResult, WithSharedField DEF Unshare
<1> QED
  BY <1>1, <1>2

LEMMA SharedOwnersRange ==
  ASSUME NEW m \in Machine, NEW p \in Pid, NEW ptr, NEW o \in SharedOwners(m, p, ptr)
  PROVE  o = p \/ o = 0 \/ o = NotShared \/ (o \in Pid /\ o = m.pcb[p].ppid)
<1>1. m.pcb[p].ppid # 0 => m.pcb[p].ppid \in Pid
  BY ParentRange
<1> QED
  BY <1>1 DEF SharedOwners

LEMMA LockEffect ==
  ASSUME NEW m \in Machine, NEW o, o \in Pid \/ o = 0 \/ o = NotShared,
         NEW n, n \in Lock(m, o) \/ n \in Unlock(m, o)
  PROVE  OnlyShared(m, n, o)
<1>0. 0 \in Int /\ 1 \in Int /\ -1 \in Int /\ TRUE \in BOOLEAN /\ FALSE \in BOOLEAN
  OBVIOUS
<1>1. CASE o = NotShared \/ o = 0
  <2>1. \E r \in {-1, 0, 1} : n = [m EXCEPT !.frame.r0 = r]
    BY <1>1 DEF Lock, Unlock, NotShared
  <2>2. PICK r \in {-1, 0, 1} : n = [m EXCEPT !.frame.r0 = r]
    BY <2>1
  <2> QED
    BY <2>2, OnlyResult
<1>2. CASE o \in Pid
  <2>1. o # NotShared /\ o # 0
    BY <1>2 DEF NotShared
  <2>2. \/ n = [m EXCEPT !.frame.r0 = 0]
        \/ n = [m EXCEPT !.pcb[o].shared.locked = TRUE, !.frame.r0 = 1]
        \/ n = [m EXCEPT !.pcb[o].shared.locked = FALSE, !.frame.r0 = 1]
    BY <2>1 DEF Lock, Unlock
  <2>3. Null \in Ptrs \cup {Null}
    OBVIOUS
  <2>4. CASE n = [m EXCEPT !.frame.r0 = 0]
    BY <1>0, <2>4, OnlyResult
  <2>5. CASE n = [m EXCEPT !.pcb[o].shared.locked = TRUE, !.frame.r0 = 1]
    <3>1. OnlyShared(m, [m EXCEPT !.pcb[o].shared.locked = TRUE, !.frame.r0 = 1], o)
      BY <1>0, <1>2, <2>3, WithSharedField
    <3> QED
      BY <2>5, <3>1
  <2>6. CASE n = [m EXCEPT !.pcb[o].shared.locked = FALSE, !.frame.r0 = 1]
    <3>1. OnlyShared(m, [m EXCEPT !.pcb[o].shared.locked = FALSE, !.frame.r0 = 1], o)
      BY <1>0, <1>2, <2>3, WithSharedField
    <3> QED
      BY <2>6, <3>1
  <2> QED
    BY <2>2, <2>4, <2>5, <2>6
<1> QED
  BY <1>1, <1>2

LEMMA OnlySharedKeeps ==
  ASSUME NEW m, NEW n, NEW o, Typed(m), OnlyShared(m, n, o)
  PROVE  /\ Typed(n)
         /\ InUse(m) => InUse(n)
         /\ Books(m) => Books(n)
         /\ \A q \in Pid : n.pcb[q].waiting = m.pcb[q].waiting
<1>1. m \in Machine /\ n \in Machine /\ n.current \in Pid
  BY DEF Typed, OnlyShared, Machine
<1>2. Typed(n)
  BY <1>1 DEF Typed, WaitsWithin, OnlyShared
<1>3. SameActive(m, n) /\ SameFamilies(m, n)
  BY DEF SameActive, Active, SameFamilies, OnlyShared
<1>4. InUse(m) => InUse(n)
  <2>1. ActivePids(n) = ActivePids(m)
    BY <1>3 DEF SameActive, ActivePids
  <2> QED
    BY <1>1, <1>3, <2>1 DEF InUse, SameActive, OnlyShared
<1>5. Books(m) => Books(n)
  BY <1>1, <1>3, SameKeepsBooks
<1> QED
  BY <1>2, <1>4, <1>5 DEF OnlyShared

-----------------------------------------------------------------------------
(* What every step keeps and promises                                      *)

NoKills == "kill_self" \notin Calls /\ "kill_other" \notin Calls

(* Entries of the wait tables are left, made without an answer, or freed.  *)
NothingAnswered(m, n) ==
  \A q \in Pid, i \in 1 .. MaxWaiting :
    \/ n.pcb[q].waiting[i] = m.pcb[q].waiting[i]
    \/ n.pcb[q].waiting[i].result = -1

SharedInFamily(m, n) ==
  \A o \in Pid :
    n.pcb[o].shared # m.pcb[o].shared
      => \/ o = m.current
         \/ o = m.pcb[m.current].ppid /\ Active(m, o)
         \/ ~Active(m, o) /\ n.pcb[o].shared = NewProcess(o, 0).shared

AnsweredAtEnd(m, n) ==
  \A p, t \in Pid, i \in 1 .. MaxWaiting :
    /\ m.pcb[p].waiting[i] = [pid |-> t, result |-> -1]
    /\ n.pcb[p].waiting[i].pid = t
    /\ n.pcb[p].waiting[i].result # -1
    => ~Active(n, t)

(* The step from m to n, in a state whose books are in order.              *)
GoodStep(m, n) == Books(n) /\ SharedInFamily(m, n) /\ AnsweredAtEnd(m, n)

Step(m, n) ==
  /\ Typed(n)
  /\ "kill_self" \notin Calls /\ InUse(m) => InUse(n)
  /\ NoKills /\ -1 \notin Results /\ InUse(m) /\ Books(m) => GoodStep(m, n)

LEMMA UnansweredIsFine ==
  ASSUME NEW m, NEW n, NothingAnswered(m, n)
  PROVE  AnsweredAtEnd(m, n)
<1> SUFFICES ASSUME NEW p \in Pid, NEW t \in Pid, NEW i \in 1 .. MaxWaiting,
                    m.pcb[p].waiting[i] = [pid |-> t, result |-> -1],
                    n.pcb[p].waiting[i].result # -1
             PROVE  FALSE
  BY DEF AnsweredAtEnd
<1>1. n.pcb[p].waiting[i] = m.pcb[p].waiting[i]
  BY DEF NothingAnswered
<1> QED
  BY <1>1

LEMMA QuietStep ==
  ASSUME NEW m, NEW n, Typed(m), Typed(n),
         SameFamilies(m, n), SameShared(m, n), SameActive(m, n), Books(m)
  PROVE  GoodStep(m, n)
<1>1. Books(n)
  BY SameKeepsBooks DEF Typed
<1>2. SharedInFamily(m, n)
  BY DEF SharedInFamily, SameShared
<1>3. NothingAnswered(m, n)
  BY DEF NothingAnswered, SameFamilies
<1> QED
  BY <1>1, <1>2, <1>3, UnansweredIsFine DEF GoodStep

LEMMA SchedulerStep ==
  ASSUME NEW m, Typed(m), m.frame.pc # Null
  PROVE  Step(m, Scheduler(m))
<1> DEFINE n == Scheduler(m)
<1>1. Typed(n)
  BY SchedulerTyped
<1>2. ASSUME InUse(m)
      PROVE  /\ InUse(n)
             /\ SameFamilies(m, n) /\ SameShared(m, n) /\ SameActive(m, n)
  <2>1. Schedulable(m)
    BY <1>2 DEF InUse, Schedulable
  <2> QED
    BY <2>1, SchedulerKeeps
<1> HIDE DEF n
<1>3. InUse(m) /\ Books(m) => GoodStep(m, n)
  BY <1>1, <1>2, QuietStep
<1> QED
  BY <1>1, <1>2, <1>3 DEF Step, n

LEMMA YieldStep ==
  ASSUME NEW m, Typed(m), m.frame.pc # Null
  PROVE  Step(m, SysYield(m))
<1> DEFINE n == SysYield(m)
<1>1. /\ Typed(n)
      /\ InUse(m) => /\ InUse(n) /\ SameFamilies(m, n) /\ SameShared(m, n)
                     /\ SameActive(m, n)
  BY SysYieldEffect
<1> HIDE DEF n
<1>2. InUse(m) /\ Books(m) => GoodStep(m, n)
  BY <1>1, QuietStep
<1> QED
  BY <1>1, <1>2 DEF Step, n

LEMMA ExitStep ==
  ASSUME NEW m, Typed(m), m.frame.pc # Null, NEW x \in Int
  PROVE  /\ Typed(SysExit(m, x)) /\ InUse(SysExit(m, x))
         /\ x # -1 /\ Books(m) => GoodStep(m, SysExit(m, x))
<1> DEFINE n == SysExit(m, x)
           c == m.current
<1>0. m \in Machine /\ c \in Pid
  BY DEF Typed, Machine
<1>1. Typed(n) /\ InUse(n) /\ Ended(m, n, c, x)
  BY SysExitEffect
<1> HIDE DEF n
<1>2. x # -1 /\ Books(m) => Books(n)
  BY <1>0, <1>1, EndedKeepsBooks DEF Typed
<1>3. SharedInFamily(m, n)
  BY <1>1 DEF SharedInFamily, Ended
<1>4. AnsweredAtEnd(m, n)
  <2> SUFFICES ASSUME NEW p \in Pid, NEW t \in Pid, NEW i \in 1 .. MaxWaiting,
                      m.pcb[p].waiting[i] = [pid |-> t, result |-> -1],
                      n.pcb[p].waiting[i].pid = t,
                      n.pcb[p].waiting[i].result # -1
               PROVE  ~Active(n, t)
    BY DEF AnsweredAtEnd
  <2>1. NoWait.result = -1 /\ [pid |-> c, result |-> x].pid = c
    BY DEF NoWait
  <2>2. p # c
    BY <1>1, <2>1 DEF Ended
  <2>3. n.pcb[p].waiting[i] = [pid |-> c, result |-> x]
    BY <1>1, <2>2 DEF Ended
  <2>4. t = c
    BY <2>1, <2>3
  <2> QED
    BY <1>0, <1>1, <2>4 DEF Ended
<1> QED
  BY <1>1, <1>2, <1>3, <1>4 DEF GoodStep, n

LEMMA ExecStep ==
  ASSUME NEW m, Typed(m), m.frame.pc # Null,
         NEW x \in Code \cup {Null}, NEW interactive \in BOOLEAN
  PROVE  Step(m, SysExec(m, x, interactive, 0))
<1> DEFINE n == SysExec(m, x, interactive, 0)
<1>1. CASE x = Null
  <2>1. EXIT_FAILURE \in Int /\ EXIT_FAILURE # -1
    BY DEF EXIT_FAILURE
  <2>2. n = SysExit(m, EXIT_FAILURE)
    BY <1>1 DEF SysExec
  <2> HIDE DEF n
  <2> QED
    BY <2>1, <2>2, ExitStep DEF Step, n
<1>2. CASE x # Null
  <2>1. x \in Code
    BY <1>2
  <2>2. /\ Typed(n)
        /\ InUse(m) => /\ InUse(n) /\ SameFamilies(m, n) /\ SameShared(m, n)
                       /\ SameActive(m, n)
    BY <2>1, SysExecEffect
  <2> HIDE DEF n
  <2>3. InUse(m) /\ Books(m) => GoodStep(m, n)
    BY <2>2, QuietStep
  <2> QED
    BY <2>2, <2>3 DEF Step, n
<1> QED
  BY <1>1, <1>2

(* A wait answers nobody: it looks for an answer, or enters the wait.      *)
LEMMA WaitAnswersNobody ==
  ASSUME NEW m, Typed(m), NEW p \in Pid, NEW t \in Pid
  PROVE  NothingAnswered(m, SysWait(m, p, t))
<1> DEFINE u == WaitEntry(m, p, t)
           i == GetWaiting(u, p, t)
           n == SysWait(m, p, t)
           Table == [1 .. MaxWaiting -> [pid : 0 .. MaxProcesses, result : Int]]
<1>0. m \in Machine /\ m.pcb[p].waiting \in Table
  BY DEF Typed, Machine, Pcb
<1>1. u \in Machine /\ \A q \in Pid \ {p} : u.pcb[q].waiting = m.pcb[q].waiting
  BY WaitEntryEffect DEF SameForWait
<1>2. \A k \in 1 .. MaxWaiting :
        u.pcb[p].waiting[k] = m.pcb[p].waiting[k] \/ u.pcb[p].waiting[k].result = -1
  <2>1. CASE GetWaiting(m, p, t) # 0
    BY <2>1 DEF WaitEntry
  <2>2. CASE GetWaiting(m, p, t) = 0
    <3>1. u.pcb[p].waiting = m.pcb[p].waiting \/ Entered(m, u, p, t)
      BY <1>0, <2>2, SetWaitingEffect DEF WaitEntry
    <3>2. ASSUME Entered(m, u, p, t), NEW k \in 1 .. MaxWaiting
          PROVE  u.pcb[p].waiting[k] = m.pcb[p].waiting[k] \/ u.pcb[p].waiting[k].result = -1
      <4> HIDE DEF u
      <4> DEFINE e == [pid |-> t, result |-> -1]
      <4>1. PICK j \in 1 .. MaxWaiting :
              u.pcb[p].waiting = [m.pcb[p].waiting EXCEPT ![j] = e]
        BY <3>2 DEF Entered
      <4>2. e.result = -1
        OBVIOUS
      <4> HIDE DEF e
      <4> QED
        BY <1>0, <4>1, <4>2
    <3> QED
      BY <3>1, <3>2
  <2> QED
    BY <2>1, <2>2
<1>3. n = u \/ (i # 0 /\ n = [u EXCEPT !.pcb[p].waiting[i] = NoWait])
  BY DEF SysWait
<1>4. i # 0 => i \in 1 .. MaxWaiting
  BY <1>1, GetWaitingSlot
<1>5. NoWait \in [pid : 0 .. MaxProcesses, result : Int] /\ NoWait.result = -1
  BY DEF NoWait
<1>6. u.pcb[p].waiting \in Table
  BY <1>1 DEF Machine, Pcb
<1> HIDE DEF u, n, i
<1>7. CASE n = u
  BY <1>1, <1>2, <1>7 DEF NothingAnswered, n
<1>8. CASE i # 0 /\ n = [u EXCEPT !.pcb[p].waiting[i] = NoWait]
  <2>1. /\ SameButWaits(u, n, p)
        /\ n.pcb[p].waiting = [u.pcb[p].waiting EXCEPT ![i] = NoWait]
    <3>1. /\ u \in Machine /\ i \in 1 .. MaxWaiting
          /\ NoWait \in [pid : 0 .. MaxProcesses, result : Int]
      BY <1>1, <1>4, <1>5, <1>8
    <3> DEFINE n1 == [u EXCEPT !.pcb[p].waiting[i] = NoWait]
    <3>2. SameButWaits(u, n1, p) /\ n1.pcb[p].waiting = [u.pcb[p].waiting EXCEPT ![i] = NoWait]
      BY <3>1, WithWaiting
    <3>3. n = n1
      BY <1>8
    <3> HIDE DEF n1
    <3> QED
      BY <3>2, <3>3
  <2>2. \A k \in 1 .. MaxWaiting :
          n.pcb[p].waiting[k] = u.pcb[p].waiting[k] \/ n.pcb[p].waiting[k].result = -1
    <3> DEFINE a == u.pcb[p].waiting
               b == n.pcb[p].waiting
    <3>1. b = [a EXCEPT ![i] = NoWait] /\ i \in 1 .. MaxWaiting
      BY <1>4, <1>8, <2>1
    <3>2. a \in Table
      BY <1>6
    <3> HIDE DEF a, b
    <3>3. \A k \in 1 .. MaxWaiting : b[k] = a[k] \/ b[k] = NoWait
      BY <3>1, <3>2
    <3> QED
      BY <1>5, <3>3 DEF a, b
  <2>3. \A q \in Pid \ {p} : n.pcb[q].waiting = m.pcb[q].waiting
    BY <1>1, <2>1 DEF SameButWaits
  <2> QED
    BY <1>2, <2>2, <2>3 DEF NothingAnswered, n
<1> QED
  BY <1>3, <1>7, <1>8

(* A result put into the caller's frame changes nothing of all this.       *)
LEMMA ReturnedStep ==
  ASSUME NEW m, NEW n, NEW r \in Int, Typed(n)
  PROVE  LET k == Returned(n, r)
         IN  /\ Typed(k)
             /\ InUse(n) => InUse(k)
             /\ GoodStep(m, n) => GoodStep(m, k)
<1> DEFINE k == Returned(n, r)
<1>1. /\ k \in Machine /\ n \in Machine /\ k.pcb = n.pcb /\ k.current = n.current
      /\ k.frame.pc = n.frame.pc
  BY ReturnedEffect DEF Typed
<1> HIDE DEF k
<1>2. Typed(k)
  BY <1>1 DEF Typed, WaitsWithin
<1>3. InUse(n) => InUse(k)
  BY <1>1 DEF InUse, Active, ActivePids
<1>4. SameFamilies(n, k) /\ SameActive(n, k)
  BY <1>1 DEF SameFamilies, SameActive, Active
<1>5. Books(n) => Books(k)
  BY <1>1, <1>4, SameKeepsBooks
<1>6. SharedInFamily(m, n) => SharedInFamily(m, k)
  BY <1>1 DEF SharedInFamily
<1>7. AnsweredAtEnd(m, n) => AnsweredAtEnd(m, k)
  BY <1>1 DEF AnsweredAtEnd, Active
<1> QED
  BY <1>2, <1>3, <1>5, <1>6, <1>7 DEF GoodStep, k

LEMMA WaitStep ==
  ASSUME NEW m, Typed(m), m.frame.pc # Null, NEW t \in Pid
  PROVE  Step(m, Returned(SysWait(m, m.current, t), WaitResult(m, m.current, t)))
<1> DEFINE c == m.current
           n == SysWait(m, c, t)
           r == WaitResult(m, c, t)
<1>0. c \in Pid
  BY DEF Typed, Machine
<1>1. SameForWait(m, n, c) /\ (Books(m) => Books(n)) /\ r \in Int
  BY <1>0, SysWaitEffect
<1>2. AnsweredAtEnd(m, n)
  BY <1>0, WaitAnswersNobody, UnansweredIsFine
<1> HIDE DEF n, r
<1>3. Typed(n) /\ SameShared(m, n) /\ (InUse(m) => InUse(n))
  BY <1>0, <1>1, SameForWaitKeeps
<1>4. Books(m) => GoodStep(m, n)
  BY <1>1, <1>2, <1>3 DEF GoodStep, SharedInFamily, SameShared
<1> QED
  BY <1>1, <1>3, <1>4, ReturnedStep DEF Step, n, r

LEMMA ForkStep ==
  ASSUME NEW m, Typed(m), m.frame.pc # Null
  PROVE  Step(m, SysFork(m)) /\ Step(m, SysForkWait(m))
<1> DEFINE n == SysFork(m)
           w == SysWait(n, m.current, n.current)
<1>0. /\ SysForkWait(m) = w /\ m \in Machine /\ m.current \in Pid
  BY DEF SysForkWait, Typed, Machine
<1>1. Typed(n)
  BY SysForkEffect
<1>2. ASSUME InUse(m)
      PROVE  /\ InUse(n) /\ (Books(m) => Books(n))
             /\ SharedInFamily(m, n) /\ NothingAnswered(m, n)
  <2>1. /\ InUse(n) /\ (Books(m) => Books(n))
        /\ \/ n.pcb = m.pcb
           \/ \E c \in Pid \ {m.current} :
                /\ ~Active(m, c)
                /\ n.pcb[c].shared = NewProcess(c, 0).shared
                /\ \A i \in 1 .. MaxWaiting : n.pcb[c].waiting[i] = NoWait
                /\ \A q \in Pid \ {c} : /\ n.pcb[q].shared = m.pcb[q].shared
                                        /\ n.pcb[q].waiting = m.pcb[q].waiting
    BY <1>2, SysForkKeeps
  <2>2. NoWait.result = -1
    BY DEF NoWait
  <2> HIDE DEF n
  <2>3. CASE n.pcb = m.pcb
    BY <2>1, <2>3 DEF SharedInFamily, NothingAnswered
  <2>4. ASSUME NEW c \in Pid \ {m.current},
               ~Active(m, c), n.pcb[c].shared = NewProcess(c, 0).shared,
               \A i \in 1 .. MaxWaiting : n.pcb[c].waiting[i] = NoWait,
               \A q \in Pid \ {c} : /\ n.pcb[q].shared = m.pcb[q].shared
                                    /\ n.pcb[q].waiting = m.pcb[q].waiting
        PROVE  SharedInFamily(m, n) /\ NothingAnswered(m, n)
    BY <2>2, <2>4 DEF SharedInFamily, NothingAnswered
  <2> QED
    BY <2>1, <2>3, <2>4
<1>3. Step(m, n)
  BY <1>1, <1>2, UnansweredIsFine DEF Step, GoodStep
<1>4. n.current \in Pid
  BY <1>1 DEF Typed, Machine
<1>5. SameForWait(n, w, m.current) /\ (Books(n) => Books(w)) /\ NothingAnswered(n, w)
  BY <1>0, <1>1, <1>4, SysWaitEffect, WaitAnswersNobody
<1> HIDE DEF n, w
<1>6. Typed(w) /\ SameShared(n, w) /\ (InUse(n) => InUse(w))
  BY <1>0, <1>1, <1>5, SameForWaitKeeps
<1>7. InUse(m) /\ Books(m) => GoodStep(m, w)
  <2> SUFFICES ASSUME InUse(m), Books(m)
               PROVE  GoodStep(m, w)
    OBVIOUS
  <2>1. NothingAnswered(m, w)
    BY <1>2, <1>5 DEF NothingAnswered
  <2>2. SharedInFamily(m, w)
    BY <1>2, <1>6 DEF SharedInFamily, SameShared
  <2> QED
    BY <1>2, <1>5, <2>1, <2>2, UnansweredIsFine DEF GoodStep
<1>8. Step(m, w)
  BY <1>2, <1>6, <1>7 DEF Step
<1> QED
  BY <1>0, <1>3, <1>8 DEF n

LEMMA KillStep ==
  ASSUME NEW m, Typed(m), m.frame.pc # Null, NEW victim \in Pid, NEW sig,
         (IF victim = m.current THEN "kill_self" ELSE "kill_other") \in Calls
  PROVE  Step(m, SysKill(m, victim, sig))
<1> DEFINE n == SysKill(m, victim, sig)
<1>1. Typed(n) /\ (victim # m.current /\ InUse(m) => InUse(n))
  BY SysKillEffect
<1>2. victim = m.current => "kill_self" \in Calls
  OBVIOUS
<1>3. ~NoKills
  BY DEF NoKills
<1> HIDE DEF n
<1> QED
  BY <1>1, <1>2, <1>3 DEF Step, n

LEMMA SharedStep ==
  ASSUME NEW m, NEW n, NEW o, Typed(m), OnlyShared(m, n, o),
         InUse(m) /\ Books(m) =>
           o = m.current \/ o \notin Pid \/ (o = m.pcb[m.current].ppid /\ Active(m, o))
  PROVE  Step(m, n)
<1>1. /\ Typed(n) /\ (InUse(m) => InUse(n)) /\ (Books(m) => Books(n))
      /\ \A q \in Pid : n.pcb[q].waiting = m.pcb[q].waiting
  BY OnlySharedKeeps
<1>2. AnsweredAtEnd(m, n)
  BY <1>1, UnansweredIsFine DEF NothingAnswered
<1>3. InUse(m) /\ Books(m) => SharedInFamily(m, n)
  BY DEF SharedInFamily, OnlyShared
<1> QED
  BY <1>1, <1>2, <1>3 DEF Step, GoodStep

LEMMA ShareStep ==
  ASSUME NEW m, Typed(m), NEW ptr \in Ptrs
  PROVE  Step(m, Share(m, m.current, ptr)) /\ Step(m, Unshare(m, m.current, ptr))
<1>1. m \in Machine /\ m.current \in Pid
  BY DEF Typed, Machine
<1>2. /\ OnlyShared(m, Share(m, m.current, ptr), m.current)
      /\ OnlyShared(m, Unshare(m, m.current, ptr), m.current)
  BY <1>1, ShareEffect
<1> QED
  BY <1>2, SharedStep

LEMMA LockStep ==
  ASSUME NEW m, Typed(m), m.frame.pc # Null, NEW ptr \in Ptrs,
         NEW o \in SharedOwners(m, m.current, ptr),
         NEW n, n \in Lock(m, o) \/ n \in Unlock(m, o)
  PROVE  Step(m, n)
<1>1. m \in Machine /\ m.current \in Pid
  BY DEF Typed, Machine
<1>2. \/ o = m.current \/ o = 0 \/ o = NotShared
      \/ o \in Pid /\ o = m.pcb[m.current].ppid
  BY <1>1, SharedOwnersRange
<1>3. OnlyShared(m, n, o)
  BY <1>1, <1>2, LockEffect
<1>4. ASSUME InUse(m), Books(m), o \in Pid, o # m.current
      PROVE  o = m.pcb[m.current].ppid /\ Active(m, o)
  <2>1. NotShared \notin Pid /\ 0 \notin Pid
    BY DEF NotShared
  <2>2. o = m.pcb[m.current].ppid /\ o # 0
    BY <1>2, <1>4, <2>1
  <2>3. Active(m, m.current)
    BY <1>4 DEF InUse
  <2> QED
    BY <1>1, <1>4, <2>2, <2>3 DEF Books, Families
<1> QED
  BY <1>3, <1>4, SharedStep

-----------------------------------------------------------------------------
(* The steps of the specification                                          *)

LEMMA NowBecomes ==
  ASSUME NEW n, n \in Machine, Becomes(n)
  PROVE  Now' = n
<1>1. pcb' = n.pcb /\ current' = n.current /\ frame' = n.frame /\ intact' = n.intact
  BY DEF Becomes
<1>2. n = [pcb |-> n.pcb, current |-> n.current, frame |-> n.frame, intact |-> n.intact]
  BY DEF Machine
<1> QED
  BY <1>1, <1>2 DEF Now

LEMMA StepTaken ==
  ASSUME NEW n, Step(Now, n), Becomes(n)
  PROVE  Step(Now, Now')
BY NowBecomes DEF Step, Typed

LEMMA TickIsScheduler == Tick => Running /\ Becomes(Scheduler(Now))
BY DEF Tick, Scheduler

(* The inductive invariant has three layers; each needs the one before.    *)
TypedNow == Typed(Now)

InUseNow == TypedNow /\ InUse(Now)

InOrder == InUseNow /\ Books(Now)

LEMMA NextSteps ==
  ASSUME TypedNow, Next
  PROVE  Step(Now, Now')
<1> USE DEF TypedNow
<1>0. /\ Running <=> Now.frame.pc # Null
      /\ Now.current = current
  BY DEF Running, Now
<1>1. CASE Tick
  BY <1>0, <1>1, TickIsScheduler, SchedulerStep, StepTaken
<1>2. CASE Fork
  BY <1>0, <1>2, ForkStep, StepTaken DEF Fork, Call
<1>3. CASE ForkWait
  BY <1>0, <1>3, ForkStep, StepTaken DEF ForkWait, Call
<1>4. CASE Exit
  <2>1. PICK x \in Results : Call("exit") /\ Becomes(SysExit(Now, x))
    BY <1>4 DEF Exit
  <2>2. x \in Int /\ Now.frame.pc # Null
    BY <1>0, <2>1, KernelAssumption DEF Call
  <2>3. Step(Now, SysExit(Now, x))
    BY <2>2, ExitStep DEF Step
  <2> QED
    BY <2>1, <2>3, StepTaken
<1>5. CASE Kill
  <2>1. PICK victim \in Pid, sig \in {SIG_TERM, SIG_QUIT} :
          /\ Call(IF victim = current THEN "kill_self" ELSE "kill_other")
          /\ Becomes(SysKill(Now, victim, sig))
    BY <1>5 DEF Kill
  <2>2. Step(Now, SysKill(Now, victim, sig))
    BY <1>0, <2>1, KillStep DEF Call
  <2> QED
    BY <2>1, <2>2, StepTaken
<1>6. CASE Yield
  BY <1>0, <1>6, YieldStep, StepTaken DEF Yield, Call
<1>7. CASE Exec
  <2>1. PICK x \in Code \cup {Null}, interactive \in BOOLEAN :
          /\ Call(IF x = Null THEN "exec_null" ELSE "exec")
          /\ Becomes(SysExec(Now, x, interactive, 0))
    BY <1>7 DEF Exec
  <2>2. Step(Now, SysExec(Now, x, interactive, 0))
    BY <1>0, <2>1, ExecStep DEF Call
  <2> QED
    BY <2>1, <2>2, StepTaken
<1>8. CASE SysShare
  BY <1>0, <1>8, ShareStep, StepTaken DEF SysShare
<1>9. CASE SysUnshare
  BY <1>0, <1>9, ShareStep, StepTaken DEF SysUnshare
<1>10. CASE SysLock
  <2>1. PICK ptr \in Ptrs : \E owner \in SharedOwners(Now, current, ptr) :
          Call("lock") /\ \E m \in Lock(Now, owner) : Becomes(m)
    BY <1>10 DEF SysLock
  <2>2. PICK owner \in SharedOwners(Now, current, ptr) :
          Call("lock") /\ \E m \in Lock(Now, owner) : Becomes(m)
    BY <2>1
  <2>3. PICK m \in Lock(Now, owner) : Becomes(m)
    BY <2>2
  <2>4. Step(Now, m)
    BY <1>0, <2>2, <2>3, LockStep DEF Call
  <2> QED
    BY <2>3, <2>4, StepTaken
<1>11. CASE SysUnlock
  <2>1. PICK ptr \in Ptrs : \E owner \in SharedOwners(Now, current, ptr) :
          Call("unlock") /\ \E m \in Unlock(Now, owner) : Becomes(m)
    BY <1>11 DEF SysUnlock
  <2>2. PICK owner \in SharedOwners(Now, current, ptr) :
          Call("unlock") /\ \E m \in Unlock(Now, owner) : Becomes(m)
    BY <2>1
  <2>3. PICK m \in Unlock(Now, owner) : Becomes(m)
    BY <2>2
  <2>4. Step(Now, m)
    BY <1>0, <2>2, <2>3, LockStep DEF Call
  <2> QED
    BY <2>3, <2>4, StepTaken
<1>12. CASE Wait
  <2>1. PICK t \in Pid :
          /\ Call("wait")
          /\ Becomes(Returned(SysWait(Now, current, t), WaitResult(Now, current, t)))
    BY <1>12 DEF Wait
  <2>2. Step(Now, Returned(SysWait(Now, current, t), WaitResult(Now, current, t)))
    BY <1>0, <2>1, WaitStep DEF Call
  <2> QED
    BY <2>1, <2>2, StepTaken
<1> QED
  BY <1>1, <1>2, <1>3, <1>4, <1>5, <1>6, <1>7, <1>8, <1>9, <1>10, <1>11, <1>12 DEF Next

LEMMA StutterSteps ==
  ASSUME UNCHANGED vars
  PROVE  Now' = Now
BY DEF vars, Now

(* The console alone, nobody waiting for anybody.                          *)
LEMMA InitInOrder == Init => InOrder
<1> SUFFICES ASSUME Init
             PROVE  InOrder
  OBVIOUS
<1> DEFINE first == [NewProcess(1, 0) EXCEPT !.ctx.pc = Console, !.type = Interactive]
<1>0. 1 \in Pid /\ 0 \in 0 .. MaxProcesses /\ Console \in Code /\ Console # Null
  BY KernelAssumption
<1>1. ASSUME NEW p \in Pid
      PROVE  /\ NewProcess(p, 0) \in Pcb
             /\ NewProcess(p, 0).ppid = 0 /\ NewProcess(p, 0).wait = 0
             /\ NewProcess(p, 0).ctx.pc = Null
             /\ \A i \in 1 .. MaxWaiting : NewProcess(p, 0).waiting[i] = NoWait
  BY <1>0, NewProcessType DEF NewProcess, ResetCtx
<1>2. ResetCtx(1) \in Ctx
  BY <1>0, NewProcessType
<1>3. Console \in Code \cup {Null} /\ Interactive \in ProcessType
  BY <1>0 DEF ProcessType
<1>4. \A k \in Ctx : [k EXCEPT !.pc = Console] \in Ctx /\ [k EXCEPT !.pc = Console].pc = Console
  BY <1>3 DEF Ctx
<1>5. /\ first \in Pcb /\ first.ctx.pc = Console
      /\ first.ppid = 0 /\ first.wait = 0
      /\ \A i \in 1 .. MaxWaiting : first.waiting[i] = NoWait
  <2> DEFINE r == NewProcess(1, 0)
             k == [r.ctx EXCEPT !.pc = Console]
  <2>1. r \in Pcb /\ r.ctx \in Ctx
    BY <1>0, <1>1 DEF Pcb
  <2>2. k \in Ctx /\ k.pc = Console
    BY <1>4, <2>1
  <2>3. first = [r EXCEPT !.ctx = k, !.type = Interactive]
    BY <2>1 DEF Pcb
  <2>4. r.ppid = 0 /\ r.wait = 0 /\ \A i \in 1 .. MaxWaiting : r.waiting[i] = NoWait
    BY <1>0, <1>1
  <2> HIDE DEF r, k, first
  <2>5. /\ first \in Pcb
    BY <1>3, <2>1, <2>2, <2>3 DEF Pcb
  <2>6. /\ first.ctx = k /\ first.ppid = r.ppid /\ first.wait = r.wait
        /\ first.waiting = r.waiting
    BY <2>1, <2>3 DEF Pcb
  <2> QED
    BY <2>2, <2>4, <2>5, <2>6 DEF first
<1> HIDE DEF first
<1>6. /\ pcb = [p \in Pid |-> IF p = 1 THEN first ELSE NewProcess(p, 0)]
      /\ current = 1 /\ frame = [ResetCtx(1) EXCEPT !.pc = Console] /\ intact = TRUE
  BY DEF Init, first
<1>7. /\ Now.pcb = pcb /\ Now.current = 1 /\ Now.frame = frame
      /\ frame \in Ctx /\ frame.pc = Console
  BY <1>2, <1>4, <1>6 DEF Now
<1>8. pcb \in [Pid -> Pcb]
  BY <1>1, <1>5, <1>6
<1>9. Now \in Machine
  BY <1>0, <1>6, <1>7, <1>8 DEF Now, Machine
<1>10. \A p \in Pid :
         /\ pcb[p].ppid = 0 /\ pcb[p].wait = 0
         /\ pcb[p].ctx.pc = IF p = 1 THEN Console ELSE Null
         /\ \A i \in 1 .. MaxWaiting : pcb[p].waiting[i] = NoWait
  BY <1>1, <1>5, <1>6
<1>11. Typed(Now)
  BY <1>7, <1>9, <1>10 DEF Typed, WaitsWithin
<1>12. InUse(Now)
  BY <1>0, <1>7, <1>10 DEF InUse, Active
<1>13. OneEntry(Now) /\ Known(Now)
  <2>1. NoWait.pid = 0
    BY DEF NoWait
  <2>2. \A t \in Pid : NoWait # [pid |-> t, result |-> -1]
    BY <2>1
  <2> QED
    BY <1>7, <1>10, <2>1, <2>2 DEF OneEntry, Known
<1>14. Families(Now)
  BY <1>7, <1>10 DEF Families
<1> QED
  BY <1>11, <1>12, <1>13, <1>14 DEF InOrder, InUseNow, TypedNow, Books

LEMMA TypedStep == TypedNow /\ [Next]_vars => TypedNow'
BY NextSteps, StutterSteps DEF TypedNow, Step

LEMMA InUseStep ==
  ASSUME "kill_self" \notin Calls
  PROVE  InUseNow /\ [Next]_vars => InUseNow'
BY NextSteps, StutterSteps DEF InUseNow, TypedNow, Step

LEMMA InOrderStep ==
  ASSUME NoKills, -1 \notin Results
  PROVE  InOrder /\ [Next]_vars => InOrder'
<1> SUFFICES ASSUME InOrder, [Next]_vars
             PROVE  InOrder'
  OBVIOUS
<1>1. CASE Next
  <2>1. Step(Now, Now')
    BY <1>1, NextSteps DEF InOrder, InUseNow
  <2> QED
    BY <2>1 DEF InOrder, InUseNow, TypedNow, Step, GoodStep, NoKills
<1>2. CASE UNCHANGED vars
  BY <1>2, StutterSteps DEF InOrder, InUseNow, TypedNow
<1> QED
  BY <1>1, <1>2

-----------------------------------------------------------------------------
(* Registers                                                               *)

LEMMA ReturnedKeeps ==
  ASSUME NEW m, NEW n \in Machine, NEW c, NEW r \in Int, RegistersKept(m, n, c),
         n.current = c
  PROVE  RegistersKept(m, Returned(n, r), c)
<1>1. Returned(n, r).pcb = n.pcb /\ Returned(n, r).current = n.current
  BY ReturnedEffect
<1> QED
  BY <1>1 DEF RegistersKept, RegistersOf, Active

LEMMA WaitKeeps ==
  ASSUME NEW m, NEW n, Typed(n), NEW p \in Pid, NEW t \in Pid, NEW c,
         RegistersKept(m, n, c)
  PROVE  /\ RegistersKept(m, SysWait(n, p, t), c)
         /\ SysWait(n, p, t) \in Machine /\ SysWait(n, p, t).current = n.current
<1> DEFINE s == SysWait(n, p, t)
<1>1. s \in Machine /\ SameOthers(n, s)
  BY SysWaitEffect DEF SameForWait
<1> HIDE DEF s
<1>2. \A q \in Pid : RegistersOf(s, q) = RegistersOf(n, q) /\ (Active(s, q) <=> Active(n, q))
  BY <1>1 DEF SameOthers, RegistersOf, Active
<1>3. RegistersKept(m, s, c)
  BY <1>2 DEF RegistersKept, ActivePids
<1> QED
  BY <1>1, <1>3 DEF SameOthers, s

(* The child gets a pid that nobody active has.                            *)
LEMMA ForkKeeps ==
  ASSUME NEW m, Typed(m), InUse(m), m.frame.pc # Null
  PROVE  RegistersKept(m, SysFork(m), m.current) /\ Typed(SysFork(m))
<1> DEFINE n == SysFork(m)
<1>1. Typed(n) /\ (n = Returned(m, -1) \/ \E c \in Pid : ~Active(m, c) /\ (c # m.current => Forked(m, n, c)))
  BY SysForkEffect
<1> HIDE DEF n
<1>2. CASE n = Returned(m, -1)
  <2>1. -1 \in Int /\ m \in Machine
    BY DEF Typed
  <2>2. RegistersKept(m, m, m.current)
    BY DEF RegistersKept
  <2> QED
    BY <1>1, <1>2, <2>1, <2>2, ReturnedKeeps DEF n
<1>3. ASSUME NEW c \in Pid, ~Active(m, c), c # m.current => Forked(m, n, c)
      PROVE  RegistersKept(m, n, m.current)
  <2>1. Forked(m, n, c)
    BY <1>3 DEF InUse
  <2> SUFFICES ASSUME NEW q \in ActivePids(m) \ {m.current}
               PROVE  RegistersOf(n, q) = RegistersOf(m, q)
    BY DEF RegistersKept
  <2>2. q \in Pid \ {c, m.current}
    BY <1>3 DEF ActivePids
  <2> QED
    BY <2>1, <2>2 DEF Forked, RegistersOf
<1> QED
  BY <1>1, <1>2, <1>3 DEF n

LEMMA OnlySharedRegisters ==
  ASSUME NEW m, NEW n, NEW o, OnlyShared(m, n, o)
  PROVE  RegistersKept(m, n, m.current)
BY DEF OnlyShared, RegistersKept, RegistersOf, ActivePids

(* Whatever is called, only the caller's registers change.                 *)
LEMMA NextKeepsRegisters ==
  ASSUME InUseNow, Next, "kill_self" \notin Calls
  PROVE  RegistersKept(Now, Now', current)
<1> DEFINE Kept(n) == RegistersKept(Now, n, current)
<1>0. /\ Typed(Now) /\ InUse(Now) /\ Now \in Machine /\ current \in Pid
      /\ Now.current = current /\ (Running <=> Now.frame.pc # Null)
  BY DEF InUseNow, TypedNow, Typed, Machine, Running, Now
<1>1. SUFFICES \E n \in Machine : Becomes(n) /\ Kept(n)
  BY NowBecomes
<1>2. RegistersKept(Now, Now, current)
  BY DEF RegistersKept
<1>3. CASE Tick
  <2>1. Becomes(Scheduler(Now))
    BY <1>3, TickIsScheduler
  <2>2. Kept(Scheduler(Now))
    BY <1>0, SchedulerMoves DEF RegistersKept, ActivePids
  <2> QED
    BY <1>0, <2>1, <2>2, SchedulerTyped DEF Typed
<1>4. CASE Fork
  BY <1>0, <1>4, ForkKeeps DEF Fork, Call, Typed
<1>5. CASE ForkWait
  <2>1. Running /\ Becomes(SysForkWait(Now))
    BY <1>5 DEF ForkWait, Call
  <2> DEFINE n == SysFork(Now)
  <2>2. Typed(n) /\ Kept(n)
    BY <1>0, <2>1, ForkKeeps
  <2>3. n.current \in Pid
    BY <2>2 DEF Typed, Machine
  <2>4. SysForkWait(Now) = SysWait(n, current, n.current)
    BY <1>0 DEF SysForkWait
  <2> HIDE DEF n
  <2> DEFINE s == SysWait(n, current, n.current)
  <2>5. s \in Machine /\ Kept(s)
    BY <1>0, <2>2, <2>3, WaitKeeps
  <2>6. Becomes(s)
    BY <2>1, <2>4
  <2> HIDE DEF s
  <2> QED
    BY <2>5, <2>6
<1>6. CASE Exit
  <2>1. PICK x \in Results : Becomes(SysExit(Now, x))
    BY <1>6 DEF Exit
  <2>2. x \in Int
    BY KernelAssumption
  <2> QED
    BY <1>0, <2>1, <2>2, SysExitEffect DEF Typed
<1>7. CASE Kill
  <2>1. PICK victim \in Pid, sig \in {SIG_TERM, SIG_QUIT} :
          /\ Call(IF victim = current THEN "kill_self" ELSE "kill_other")
          /\ Becomes(SysKill(Now, victim, sig))
    BY <1>7 DEF Kill
  <2>2. victim # current
    BY <2>1 DEF Call
  <2> QED
    BY <1>0, <2>1, <2>2, SysKillEffect DEF Typed
<1>8. CASE Yield
  <2> DEFINE n == SysYield(Now)
  <2>1. Typed(n) /\ \A q \in Pid : RegistersOf(n, q) = RegistersOf(Now, q)
    BY <1>0, SysYieldEffect
  <2>2. Becomes(n)
    BY <1>8 DEF Yield
  <2> HIDE DEF n
  <2>3. Kept(n)
    BY <2>1 DEF RegistersKept, ActivePids
  <2> QED
    BY <1>0, <2>1, <2>2, <2>3 DEF Typed
<1>9. CASE Exec
  <2>1. PICK x \in Code \cup {Null}, interactive \in BOOLEAN :
          Becomes(SysExec(Now, x, interactive, 0))
    BY <1>9 DEF Exec
  <2>2. CASE x = Null
    <3>1. SysExec(Now, x, interactive, 0) = SysExit(Now, EXIT_FAILURE) /\ EXIT_FAILURE \in Int
      BY <2>2 DEF SysExec, EXIT_FAILURE
    <3> QED
      BY <1>0, <2>1, <3>1, SysExitEffect DEF Typed
  <2>3. CASE x \in Code
    BY <1>0, <2>1, <2>3, SysExecEffect DEF Typed
  <2> QED
    BY <2>2, <2>3
<1>10. ASSUME NEW n, NEW o, Becomes(n), OnlyShared(Now, n, o)
       PROVE  \E k \in Machine : Becomes(k) /\ Kept(k)
  <2>1. n \in Machine
    BY <1>10 DEF OnlyShared
  <2> QED
    BY <1>0, <1>10, <2>1, OnlySharedRegisters
<1>11. CASE SysShare \/ SysUnshare
  <2>1. PICK ptr \in Ptrs :
          Becomes(Share(Now, current, ptr)) \/ Becomes(Unshare(Now, current, ptr))
    BY <1>11 DEF SysShare, SysUnshare
  <2> QED
    BY <1>0, <1>10, <2>1, ShareEffect
<1>12. CASE SysLock \/ SysUnlock
  <2>0. PICK ptr \in Ptrs : \E o \in SharedOwners(Now, current, ptr) :
          (\E n \in Lock(Now, o) : Becomes(n)) \/ (\E n \in Unlock(Now, o) : Becomes(n))
    BY <1>12 DEF SysLock, SysUnlock
  <2>1. PICK o \in SharedOwners(Now, current, ptr) :
          (\E n \in Lock(Now, o) : Becomes(n)) \/ (\E n \in Unlock(Now, o) : Becomes(n))
    BY <2>0
  <2>2. PICK n : (n \in Lock(Now, o) \/ n \in Unlock(Now, o)) /\ Becomes(n)
    BY <2>1
  <2>3. o \in Pid \/ o = 0 \/ o = NotShared
    BY <1>0, SharedOwnersRange
  <2> QED
    BY <1>0, <1>10, <2>2, <2>3, LockEffect
<1>13. CASE Wait
  <2>1. PICK t \in Pid : Becomes(Returned(SysWait(Now, current, t), WaitResult(Now, current, t)))
    BY <1>13 DEF Wait
  <2> DEFINE s == SysWait(Now, current, t)
             r == WaitResult(Now, current, t)
  <2>2. s \in Machine /\ s.current = current /\ Kept(s) /\ r \in Int
    BY <1>0, <1>2, WaitKeeps, SysWaitEffect
  <2>3. Becomes(Returned(s, r))
    BY <2>1
  <2> HIDE DEF s, r
  <2>4. Returned(s, r) \in Machine /\ Kept(Returned(s, r))
    BY <2>2, ReturnedEffect, ReturnedKeeps
  <2> QED
    BY <2>3, <2>4
<1> QED
  BY <1>3, <1>4, <1>5, <1>6, <1>7, <1>8, <1>9, <1>11, <1>12, <1>13 DEF Next

-----------------------------------------------------------------------------
(* The theorems                                                            *)

(* Whatever programs call, the table, the running context and the pid in   *)
(* "current" stay well formed: no time slice drops below 0, no slot number *)
(* leaves its table, no pid the range 1..MAX_PROCESSES.                    *)
THEOREM TypeCorrect == Spec => []TypeOK
<1>1. Init => TypedNow
  BY InitInOrder DEF InOrder, InUseNow
<1>2. TypedNow => TypeOK
  BY DEF TypedNow, Typed, TypeOK
<1> QED
  BY <1>1, <1>2, TypedStep, PTL DEF Spec

(* As long as no process kills itself, the program on the processor is     *)
(* that of a process the table shows as active, and the processor is given *)
(* up only when no process is left.                                        *)
THEOREM ProcessorStaysInUse ==
  ASSUME "kill_self" \notin Calls
  PROVE  Spec => []ProcessorInUse
<1>1. Init => InUseNow
  BY InitInOrder DEF InOrder
<1>2. InUseNow => ProcessorInUse
  BY DEF InUseNow, InUse, ProcessorInUse, Running, Now
<1> QED
  BY <1>1, <1>2, InUseStep, PTL DEF Spec

(* As long as nobody is killed and no program exits with -1, the books are *)
(* in order: this is the inductive invariant of the theorems below.        *)
THEOREM BooksInOrder ==
  ASSUME NoKills, -1 \notin Results
  PROVE  Spec => []InOrder
BY InitInOrder, InOrderStep, PTL DEF Spec

(* Under the same conditions a parent pid names a living process or nobody *)
(* (system_calls.c:140-147).                                               *)
THEOREM ParentsStayAlive ==
  ASSUME NoKills, -1 \notin Results
  PROVE  Spec => []ParentsAlive
<1>1. InOrder => ParentsAlive
  BY DEF InOrder, Books, Families, ParentsAlive, ActivePids, Now
<1> QED
  BY <1>1, BooksInOrder, PTL

(* Under the same conditions no wait is forgotten: whoever waits without   *)
(* an answer is known to the living process that will answer               *)
(* (processes.c:184-231, system_calls.c:211-233).                          *)
THEOREM NoWakeupIsLost ==
  ASSUME NoKills, -1 \notin Results
  PROVE  Spec => []NoLostWakeup
<1>1. InOrder => NoLostWakeup
  BY DEF InOrder, Books, Known, NoLostWakeup, Pending, ActivePids, Now
<1> QED
  BY <1>1, BooksInOrder, PTL

(* Under the same conditions a wait is answered by the end of the process  *)
(* waited for and by nothing else (processes.c:184-192).                   *)
THEOREM AnswersComeAtTheEnd ==
  ASSUME NoKills, -1 \notin Results
  PROVE  Spec => AnsweredAtItsEnd
<1> DEFINE A == \A p, t \in Pid, i \in 1 .. MaxWaiting :
                  /\ pcb[p].waiting[i] = [pid |-> t, result |-> -1]
                  /\ pcb'[p].waiting[i].pid = t
                  /\ pcb'[p].waiting[i].result # -1
                  => ~Active(Now, t)'
<1>1. InOrder /\ [Next]_vars => [A]_vars
  <2>1. SUFFICES ASSUME InOrder, Next
                 PROVE  A
    OBVIOUS
  <2>2. AnsweredAtEnd(Now, Now')
    BY <2>1, NextSteps DEF InOrder, InUseNow, TypedNow, Step, GoodStep, NoKills
  <2>3. Now.pcb = pcb /\ (Now').pcb = pcb'
    BY DEF Now
  <2> QED
    BY <2>2, <2>3 DEF AnsweredAtEnd
<1>2. Spec => []InOrder
  BY BooksInOrder
<1> QED
  BY <1>1, <1>2, PTL DEF Spec, AnsweredAtItsEnd

(* Under the same conditions a shared pointer and its lock are changed by  *)
(* their owner or a child of his only, or start afresh with a new process  *)
(* (processes.c:115-173).                                                  *)
THEOREM SharingStaysInTheFamily ==
  ASSUME NoKills, -1 \notin Results
  PROVE  Spec => SharedWithinFamily
<1> DEFINE A == \A o \in Pid :
       pcb'[o].shared # pcb[o].shared
         => \/ o = current
            \/ o = pcb[current].ppid /\ Active(Now, o)
            \/ ~Active(Now, o) /\ pcb'[o].shared = NewProcess(o, 0).shared
<1>1. InOrder /\ [Next]_vars => [A]_vars
  <2>1. SUFFICES ASSUME InOrder, Next
                 PROVE  A
    OBVIOUS
  <2>2. SharedInFamily(Now, Now')
    BY <2>1, NextSteps DEF InOrder, InUseNow, TypedNow, Step, GoodStep, NoKills
  <2>3. Now.pcb = pcb /\ (Now').pcb = pcb' /\ Now.current = current
    BY DEF Now
  <2> QED
    BY <2>2, <2>3 DEF SharedInFamily
<1>2. Spec => []InOrder
  BY BooksInOrder
<1> QED
  BY <1>1, <1>2, PTL DEF Spec, SharedWithinFamily

(* As long as no process kills itself, a call leaves the registers of      *)
(* everybody but the caller as they are, and a timer tick everybody's      *)
(* (processes.c:92-113, hilevel.c:47-222).                                 *)
THEOREM RegistersSurvive ==
  ASSUME "kill_self" \notin Calls
  PROVE  Spec => ContextIntegrity
<1> DEFINE A == \A p \in ActivePids(Now) :
                  p # current \/ Tick
                    => UserCtx(p)' = UserCtx(p) \/ ~Active(Now, p)'
<1>1. InUseNow /\ [Next]_vars => [A]_vars
  <2>1. SUFFICES ASSUME InUseNow, Next, NEW p \in ActivePids(Now), p # current \/ Tick
                 PROVE  UserCtx(p)' = UserCtx(p) \/ ~Active(Now, p)'
    OBVIOUS
  <2>2. UserCtx(p) = RegistersOf(Now, p) /\ UserCtx(p)' = RegistersOf(Now', p)
    BY DEF UserCtx, RegistersOf, Now
  <2>3. CASE p # current
    BY <2>1, <2>2, <2>3, NextKeepsRegisters DEF RegistersKept
  <2>4. CASE Tick
    <3>1. Typed(Now) /\ p \in Pid
      BY <2>1 DEF InUseNow, TypedNow, ActivePids
    <3>2. Now' = Scheduler(Now)
      BY <2>4, <3>1, TickIsScheduler, SchedulerTyped, NowBecomes DEF Typed
    <3> QED
      BY <2>2, <3>1, <3>2, SchedulerMoves
  <2> QED
    BY <2>1, <2>3, <2>4
<1>2. Init => InUseNow
  BY InitInOrder DEF InOrder
<1> QED
  BY <1>1, <1>2, InUseStep, PTL DEF Spec, ContextIntegrity
=============================================================================
