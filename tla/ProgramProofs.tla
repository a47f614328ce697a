----------------------------- MODULE ProgramProofs -----------------------------
(***************************************************************************)
(* What a program on the kernel sees of its calls: where it goes on and    *)
(* with what result, and that everybody else stays where they are, for     *)
(* every size of the tables.  The proofs about the philosophers rest on    *)
(* these lemmas and not on the process table.                              *)
(***************************************************************************)
EXTENDS KernelProofs

USE SizesAssumption, NullAssumption DEF Pid

Sound(m) == Typed(m) /\ InUse(m) /\ Books(m)

(* Where process p is in its program, and the register of its results.     *)
PcAt(m, p) == RegistersOf(m, p).pc
R0At(m, p) == RegistersOf(m, p).r0

OthersStay(m, n, c) ==
  \A q \in Pid \ {c} :
    /\ PcAt(n, q) = PcAt(m, q)
    /\ PcAt(m, q) # Null => R0At(n, q) = R0At(m, q)

(* The call takes its caller to l, with result r.                          *)
Goes(m, n, l, r) ==
  /\ PcAt(n, m.current) = l /\ R0At(n, m.current) = r
  /\ OthersStay(m, n, m.current)

SameWaits(m, n) == \A q \in Pid : n.pcb[q].waiting = m.pcb[q].waiting

SameParents(m, n) == \A q \in Pid : n.pcb[q].ppid = m.pcb[q].ppid

LEMMA SoundParts ==
  ASSUME NEW m, Sound(m)
  PROVE  /\ m \in Machine /\ m.current \in Pid /\ m.frame \in Ctx
         /\ PcAt(m, m.current) = m.frame.pc /\ R0At(m, m.current) = m.frame.r0
BY DEF Sound, Typed, Machine, PcAt, R0At, RegistersOf

LEMMA ActiveAt ==
  ASSUME NEW m, Sound(m), NEW q \in Pid
  PROVE  Active(m, q) <=> PcAt(m, q) # Null
<1>1. CASE q = m.current
  BY <1>1 DEF Sound, InUse, ActivePids, PcAt, RegistersOf
<1>2. CASE q # m.current
  BY <1>2 DEF Active, PcAt, RegistersOf
<1> QED
  BY <1>1, <1>2

(* The registers of who is running are in the frame, the others' are saved. *)
LEMMA PlaceOf ==
  ASSUME NEW m, NEW q
  PROVE  /\ q = m.current => PcAt(m, q) = m.frame.pc /\ R0At(m, q) = m.frame.r0
         /\ q # m.current => PcAt(m, q) = m.pcb[q].ctx.pc /\ R0At(m, q) = m.pcb[q].ctx.r0
BY DEF PcAt, R0At, RegistersOf

LEMMA RegistersTyped ==
  ASSUME NEW m, Sound(m), NEW q \in Pid
  PROVE  PcAt(m, q) \in Code \cup {Null} /\ R0At(m, q) \in Int
<1>1. RegistersOf(m, q) \in Ctx
  BY DEF Sound, Typed, Machine, Pcb, RegistersOf
<1> QED
  BY <1>1 DEF PcAt, R0At, Ctx

LEMMA KeptStay ==
  ASSUME NEW m, Sound(m), NEW n, Sound(n), NEW c \in Pid, RegistersKept(m, n, c),
         \A q \in Pid \ {c} : Active(n, q) <=> Active(m, q)
  PROVE  OthersStay(m, n, c)
<1> SUFFICES ASSUME NEW q \in Pid \ {c}
             PROVE  /\ PcAt(n, q) = PcAt(m, q)
                    /\ PcAt(m, q) # Null => R0At(n, q) = R0At(m, q)
  BY DEF OthersStay
<1>1. CASE Active(m, q)
  <2>1. RegistersOf(n, q) = RegistersOf(m, q)
    BY <1>1 DEF RegistersKept, ActivePids
  <2> QED
    BY <2>1 DEF PcAt, R0At
<1>2. CASE ~Active(m, q)
  BY <1>2, ActiveAt
<1> QED
  BY <1>1, <1>2

(* The program itself goes on to l.                                        *)
LEMMA WalkEffect ==
  ASSUME NEW m, Sound(m), m.frame.pc # Null, NEW l \in Code
  PROVE  LET n == [m EXCEPT !.frame.pc = l]
         IN  /\ Sound(n) /\ Goes(m, n, l, m.frame.r0)
             /\ n.pcb = m.pcb /\ n.current = m.current
             /\ n.frame.pc = l /\ n.frame.r0 = m.frame.r0
<1> DEFINE k == [m.frame EXCEPT !.pc = l]
           n == [m EXCEPT !.frame.pc = l]
<1>1. m \in Machine /\ m.frame \in Ctx
  BY SoundParts
<1>2. k \in Ctx /\ k.pc = l /\ k.r0 = m.frame.r0
  BY <1>1 DEF Ctx
<1>3. n = [m EXCEPT !.frame = k]
  OBVIOUS
<1> HIDE DEF k
<1>4. n \in Machine /\ n.pcb = m.pcb /\ n.current = m.current /\ n.frame = k
  BY <1>1, <1>2, <1>3 DEF Machine
<1> HIDE DEF n
<1>5. Typed(n) /\ SameFamilies(m, n) /\ SameActive(m, n)
  BY <1>4 DEF Sound, Typed, WaitsWithin, SameFamilies, SameActive, Active
<1>6. InUse(n)
  BY <1>2, <1>4 DEF Sound, InUse, Active
<1>7. Books(n)
  BY <1>1, <1>4, <1>5, SameKeepsBooks DEF Sound
<1>8. Goes(m, n, l, m.frame.r0)
  BY <1>2, <1>4 DEF Goes, OthersStay, PcAt, R0At, RegistersOf
<1> QED
  BY <1>2, <1>4, <1>5, <1>6, <1>7, <1>8 DEF n, Sound

LEMMA ReturnEffect ==
  ASSUME NEW m, Sound(m), NEW r \in Int
  PROVE  LET n == Returned(m, r)
         IN  /\ Sound(n) /\ Goes(m, n, m.frame.pc, r)
             /\ n.pcb = m.pcb /\ n.current = m.current
<1> DEFINE n == Returned(m, r)
<1>1. m \in Machine
  BY SoundParts
<1>2. /\ n \in Machine /\ n.pcb = m.pcb /\ n.current = m.current
      /\ n.frame.pc = m.frame.pc /\ n.frame.r0 = r
  BY <1>1, ReturnedEffect
<1> HIDE DEF n
<1>3. Typed(n) /\ SameFamilies(m, n) /\ SameActive(m, n)
  BY <1>2 DEF Sound, Typed, WaitsWithin, SameFamilies, SameActive, Active
<1>4. InUse(n)
  BY <1>2 DEF Sound, InUse, Active, ActivePids
<1>5. Books(n)
  BY <1>1, <1>2, <1>3, SameKeepsBooks DEF Sound
<1>6. Goes(m, n, m.frame.pc, r)
  BY <1>2 DEF Goes, OthersStay, PcAt, R0At, RegistersOf
<1> QED
  BY <1>2, <1>3, <1>4, <1>5, <1>6 DEF n, Sound

LEMMA YieldEffect ==
  ASSUME NEW m, Sound(m), m.frame.pc # Null
  PROVE  LET n == SysYield(m)
         IN  /\ Sound(n) /\ Goes(m, n, m.frame.pc, m.frame.r0)
             /\ SameFamilies(m, n) /\ SameShared(m, n)
<1> DEFINE n == SysYield(m)
<1>1. /\ Typed(n) /\ InUse(n) /\ SameFamilies(m, n) /\ SameShared(m, n) /\ SameActive(m, n)
      /\ \A q \in Pid : RegistersOf(n, q) = RegistersOf(m, q)
  BY SysYieldEffect DEF Sound
<1> HIDE DEF n
<1>2. Books(n)
  BY <1>1, SameKeepsBooks DEF Sound, Typed
<1>3. Goes(m, n, m.frame.pc, m.frame.r0)
  BY <1>1, SoundParts DEF Goes, OthersStay, PcAt, R0At
<1> QED
  BY <1>1, <1>2, <1>3 DEF n, Sound

LEMMA TickEffect ==
  ASSUME NEW m, Sound(m), m.frame.pc # Null
  PROVE  LET n == Scheduler(m)
         IN  /\ Sound(n)
             /\ \A q \in Pid : PcAt(n, q) = PcAt(m, q) /\ R0At(n, q) = R0At(m, q)
             /\ SameFamilies(m, n) /\ SameShared(m, n)
<1> DEFINE n == Scheduler(m)
<1>1. /\ Typed(n) /\ InUse(n) /\ SameFamilies(m, n) /\ SameShared(m, n) /\ SameActive(m, n)
  BY SchedulerKeeps DEF Sound, InUse, Schedulable
<1>2. \A q \in Pid : RegistersOf(n, q) = RegistersOf(m, q)
  BY SchedulerMoves DEF Sound
<1> HIDE DEF n
<1>3. Books(n)
  BY <1>1, SameKeepsBooks DEF Sound, Typed
<1> QED
  BY <1>1, <1>2, <1>3 DEF n, Sound, PcAt, R0At

LEMMA ExecEffect ==
  ASSUME NEW m, Sound(m), m.frame.pc # Null, NEW x \in Code, NEW interactive \in BOOLEAN
  PROVE  LET n == SysExec(m, x, interactive, 0)
         IN  /\ Sound(n) /\ Goes(m, n, x, 0)
             /\ SameFamilies(m, n) /\ SameShared(m, n)
<1> DEFINE n == SysExec(m, x, interactive, 0)
<1>1. /\ Typed(n) /\ InUse(n) /\ SameFamilies(m, n) /\ SameShared(m, n) /\ SameActive(m, n)
      /\ RegistersKept(m, n, m.current)
      /\ n.current = m.current /\ n.frame.pc = x /\ n.frame.r0 = 0
  BY SysExecEffect DEF Sound
<1> HIDE DEF n
<1>2. Sound(n)
  BY <1>1, SameKeepsBooks DEF Sound, Typed
<1>3. OthersStay(m, n, m.current)
  BY <1>1, <1>2, KeptStay, SoundParts DEF SameActive
<1>4. Goes(m, n, x, 0)
  BY <1>1, <1>2, <1>3, SoundParts DEF Goes
<1> QED
  BY <1>1, <1>2, <1>4 DEF n

LEMMA ExitEffect ==
  ASSUME NEW m, Sound(m), m.frame.pc # Null, NEW x \in Int, x # -1
  PROVE  LET n == SysExit(m, x)
         IN  /\ Sound(n) /\ Ended(m, n, m.current, x)
             /\ PcAt(n, m.current) = Null
             /\ OthersStay(m, n, m.current)
<1> DEFINE n == SysExit(m, x)
<1>0. m \in Machine /\ m.current \in Pid
  BY SoundParts
<1>1. /\ Typed(n) /\ InUse(n) /\ Ended(m, n, m.current, x)
      /\ RegistersKept(m, n, m.current)
  BY SysExitEffect DEF Sound
<1> HIDE DEF n
<1>2. Books(n)
  BY <1>0, <1>1, EndedKeepsBooks DEF Sound, Typed
<1>3. Sound(n)
  BY <1>1, <1>2 DEF Sound
<1>4. ~Active(n, m.current) /\ \A q \in Pid \ {m.current} : Active(n, q) <=> Active(m, q)
  BY <1>0, <1>1 DEF Ended
<1>5. PcAt(n, m.current) = Null
  BY <1>0, <1>3, <1>4, ActiveAt
<1>6. OthersStay(m, n, m.current)
  BY <1>0, <1>1, <1>3, <1>4, KeptStay
<1> QED
  BY <1>1, <1>3, <1>5, <1>6 DEF n

-----------------------------------------------------------------------------
(* Sharing and locking                                                     *)

(* o's shared pointer becomes v, and nobody else's changes.                *)
NowShares(m, n, o, v) ==
  /\ n.pcb[o].shared = v
  /\ \A q \in Pid \ {o} : n.pcb[q].shared = m.pcb[q].shared

LEMMA SharedEffect ==
  ASSUME NEW m, Sound(m), NEW o \in Pid, NEW r \in Int,
         NEW v \in [ptr : Ptrs \cup {Null}, locked : BOOLEAN],
         NEW n, n = [m EXCEPT !.pcb[o].shared = v, !.frame.r0 = r]
  PROVE  /\ Sound(n) /\ Goes(m, n, m.frame.pc, r)
         /\ n.current = m.current
         /\ SameWaits(m, n) /\ SameParents(m, n) /\ NowShares(m, n, o, v)
<1>1. m \in Machine /\ m.pcb \in [Pid -> Pcb] /\ m.frame \in Ctx
  BY SoundParts DEF Machine
<1>2. OnlyShared(m, n, o)
  BY <1>1, WithShared
<1>3. Sound(n) /\ SameWaits(m, n)
  BY <1>2, OnlySharedKeeps DEF Sound, SameWaits
<1>4. n.frame.r0 = r /\ n.pcb[o].shared = v
  <2>1. n.frame = [m.frame EXCEPT !.r0 = r]
    BY <1>1 DEF Machine
  <2>2. n.pcb = [m.pcb EXCEPT ![o].shared = v]
    BY <1>1 DEF Machine
  <2> QED
    BY <1>1, <2>1, <2>2 DEF Ctx, Pcb
<1>5. NowShares(m, n, o, v) /\ SameParents(m, n)
  BY <1>2, <1>4 DEF OnlyShared, NowShares, SameParents
<1>6. Goes(m, n, m.frame.pc, r)
  BY <1>2, <1>4 DEF OnlyShared, Goes, OthersStay, PcAt, R0At, RegistersOf
<1> QED
  BY <1>2, <1>3, <1>5, <1>6 DEF OnlyShared

LEMMA SharedRow ==
  ASSUME NEW m, Sound(m), NEW o \in Pid
  PROVE  m.pcb[o].shared \in [ptr : Ptrs \cup {Null}, locked : BOOLEAN]
BY SoundParts DEF Machine, Pcb

LEMMA LockedEffect ==
  ASSUME NEW m, Sound(m), NEW o \in Pid, NEW b \in BOOLEAN,
         NEW n, n = [m EXCEPT !.pcb[o].shared.locked = b, !.frame.r0 = 1]
  PROVE  /\ Sound(n) /\ Goes(m, n, m.frame.pc, 1)
         /\ n.current = m.current
         /\ SameWaits(m, n) /\ SameParents(m, n)
         /\ NowShares(m, n, o, [m.pcb[o].shared EXCEPT !.locked = b])
<1> DEFINE s == m.pcb[o].shared
           v == [s EXCEPT !.locked = b]
<1>1. s \in [ptr : Ptrs \cup {Null}, locked : BOOLEAN]
  BY SharedRow
<1>2. n = [m EXCEPT !.pcb[o].shared = v, !.frame.r0 = 1]
  OBVIOUS
<1> HIDE DEF s
<1>3. v \in [ptr : Ptrs \cup {Null}, locked : BOOLEAN] /\ 1 \in Int
  BY <1>1
<1> HIDE DEF v
<1>4. /\ Sound(n) /\ Goes(m, n, m.frame.pc, 1)
      /\ n.current = m.current
      /\ SameWaits(m, n) /\ SameParents(m, n) /\ NowShares(m, n, o, v)
  BY <1>2, <1>3, SharedEffect
<1> QED
  BY <1>4 DEF v, s

WithPointer(m, o, ptr) == [m EXCEPT !.pcb[o].shared.ptr = ptr, !.frame.r0 = 1]

LEMMA PointerEffect ==
  ASSUME NEW m, Sound(m), NEW o \in Pid, NEW ptr \in Ptrs \cup {Null},
         NEW n, n = WithPointer(m, o, ptr)
  PROVE  /\ Sound(n) /\ Goes(m, n, m.frame.pc, 1)
         /\ n.current = m.current
         /\ SameWaits(m, n) /\ SameParents(m, n)
         /\ NowShares(m, n, o, [m.pcb[o].shared EXCEPT !.ptr = ptr])
<1> DEFINE s == m.pcb[o].shared
           v == [s EXCEPT !.ptr = ptr]
<1>1. s \in [ptr : Ptrs \cup {Null}, locked : BOOLEAN]
  BY SharedRow
<1>2. n = [m EXCEPT !.pcb[o].shared = v, !.frame.r0 = 1]
  BY DEF WithPointer
<1> HIDE DEF s
<1>3. v \in [ptr : Ptrs \cup {Null}, locked : BOOLEAN] /\ 1 \in Int
  BY <1>1
<1> HIDE DEF v
<1>4. /\ Sound(n) /\ Goes(m, n, m.frame.pc, 1)
      /\ n.current = m.current
      /\ SameWaits(m, n) /\ SameParents(m, n) /\ NowShares(m, n, o, v)
  BY <1>2, <1>3, SharedEffect
<1> QED
  BY <1>4 DEF v, s

(* With a result of 1 the lock has changed hands, with 0 nothing has.      *)
LockTurned(m, n, o, b) ==
  /\ Sound(n) /\ n.current = m.current
  /\ SameWaits(m, n) /\ SameParents(m, n)
  /\ \/ /\ m.pcb[o].shared.locked = b
        /\ Goes(m, n, m.frame.pc, 0) /\ SameShared(m, n)
     \/ /\ m.pcb[o].shared.locked = ~b
        /\ Goes(m, n, m.frame.pc, 1)
        /\ NowShares(m, n, o, [m.pcb[o].shared EXCEPT !.locked = b])

LEMMA LockRefused ==
  ASSUME NEW m, Sound(m), NEW o \in Pid, NEW b, m.pcb[o].shared.locked = b,
         NEW n, n = Returned(m, 0)
  PROVE  LockTurned(m, n, o, b)
<1>1. 0 \in Int
  OBVIOUS
<1>2. /\ Sound(n) /\ Goes(m, n, m.frame.pc, 0)
      /\ n.pcb = m.pcb /\ n.current = m.current
  BY <1>1, ReturnEffect
<1> QED
  BY <1>2 DEF LockTurned, SameWaits, SameParents, SameShared

LEMMA LockPlaces ==
  ASSUME NEW m, Sound(m), NEW o \in Pid, NEW n \in Lock(m, o)
  PROVE  LockTurned(m, n, o, TRUE)
<1> DEFINE y == [m EXCEPT !.pcb[o].shared.locked = TRUE, !.frame.r0 = 1]
           z == Returned(m, 0)
           b == m.pcb[o].shared.locked
<1>1. o # NotShared /\ o # 0
  BY DEF NotShared
<1>2. Lock(m, o) = IF b THEN {z} ELSE {y}
  BY <1>1, Zenon DEF Lock, Returned
<1>3. b = TRUE \/ b = FALSE
  BY SharedRow
<1>4. /\ Sound(y) /\ Goes(m, y, m.frame.pc, 1)
      /\ y.current = m.current
      /\ SameWaits(m, y) /\ SameParents(m, y)
      /\ NowShares(m, y, o, [m.pcb[o].shared EXCEPT !.locked = TRUE])
  BY LockedEffect
<1> HIDE DEF y, z
<1>5. CASE b = TRUE
  <2>1. n = z
    BY <1>2, <1>5
  <2> QED
    BY <1>5, <2>1, LockRefused DEF z
<1>6. CASE b = FALSE
  <2>1. n = y
    BY <1>2, <1>6
  <2> QED
    BY <1>4, <1>6, <2>1, Zenon DEF LockTurned
<1> QED
  BY <1>3, <1>5, <1>6

LEMMA UnlockPlaces ==
  ASSUME NEW m, Sound(m), NEW o \in Pid, NEW n \in Unlock(m, o)
  PROVE  LockTurned(m, n, o, FALSE)
<1> DEFINE y == [m EXCEPT !.pcb[o].shared.locked = FALSE, !.frame.r0 = 1]
           z == Returned(m, 0)
           b == m.pcb[o].shared.locked
<1>1. o # NotShared /\ o # 0
  BY DEF NotShared
<1>2. Unlock(m, o) = IF b THEN {y} ELSE {z}
  BY <1>1, Zenon DEF Unlock, Returned
<1>3. b = TRUE \/ b = FALSE
  BY SharedRow
<1>4. /\ Sound(y) /\ Goes(m, y, m.frame.pc, 1)
      /\ y.current = m.current
      /\ SameWaits(m, y) /\ SameParents(m, y)
      /\ NowShares(m, y, o, [m.pcb[o].shared EXCEPT !.locked = FALSE])
  BY LockedEffect
<1> HIDE DEF y, z
<1>5. CASE b = FALSE
  <2>1. n = z
    BY <1>2, <1>5
  <2> QED
    BY <1>5, <2>1, LockRefused DEF z
<1>6. CASE b = TRUE
  <2>1. n = y
    BY <1>2, <1>6
  <2> QED
    BY <1>4, <1>6, <2>1, Zenon DEF LockTurned
<1> QED
  BY <1>3, <1>5, <1>6

-----------------------------------------------------------------------------
(* Forking and waiting                                                     *)

(* An entry of a wait table is filled, or made free.                       *)
EntryBecomes(m, n, c, i, v) ==
  /\ n.pcb[c].waiting[i] = v
  /\ \A j \in 1 .. MaxWaiting : j # i => n.pcb[c].waiting[j] = m.pcb[c].waiting[j]

(* k is a new child of the caller, where its parent is in the program; the *)
(* parent waits for it.                                                    *)
Spawned(m, n, c, k) ==
  /\ PcAt(m, k) = Null /\ k # c
  /\ PcAt(n, k) = m.frame.pc /\ R0At(n, k) = 0
  /\ PcAt(n, c) = m.frame.pc /\ R0At(n, c) = k
  /\ \A q \in Pid \ {c, k} : PcAt(n, q) = PcAt(m, q) /\ R0At(n, q) = R0At(m, q)
  /\ n.pcb[k].ppid = c /\ n.pcb[k].shared = NewProcess(k, 0).shared
  /\ \A q \in Pid \ {k} : /\ n.pcb[q].ppid = m.pcb[q].ppid
                          /\ n.pcb[q].shared = m.pcb[q].shared
  /\ \E i \in 1 .. MaxWaiting :
       /\ m.pcb[c].waiting[i].pid = 0
       /\ EntryBecomes(m, n, c, i, [pid |-> k, result |-> -1])

LEMMA SlotOfFree ==
  ASSUME NEW m \in Machine, NEW p \in Pid, NEW t,
         \E i \in 1 .. MaxWaiting : m.pcb[p].waiting[i].pid = t
  PROVE  GetWaiting(m, p, t) # 0
BY GetWaitingSlot

LEMMA RoomForWaiter ==
  ASSUME NEW m \in Machine, NEW t \in Pid, NEW i \in 1 .. MaxWaiters,
         m.pcb[t].waiters[i] = 0
  PROVE  FreeWaiter(m, t) # 0
<1> DEFINE S == {j \in 1 .. MaxWaiters : m.pcb[t].waiters[j] = 0}
<1>1. S \subseteq 1 .. MaxWaiters /\ i \in S
  OBVIOUS
<1>2. FreeWaiter(m, t) = FirstOf(S)
  BY DEF FreeWaiter
<1> HIDE DEF S
<1> QED
  BY <1>1, <1>2, FirstOfType

LEMMA ForkWaitEffect ==
  ASSUME NEW m, Sound(m), m.frame.pc # Null, MaxWaiters > 0,
         \E q \in Pid : PcAt(m, q) = Null,
         \E i \in 1 .. MaxWaiting : m.pcb[m.current].waiting[i].pid = 0,
         \A i \in 1 .. MaxWaiting : LET q == m.pcb[m.current].waiting[i].pid
                                    IN  q # 0 => PcAt(m, q) # Null
  PROVE  LET n == SysForkWait(m)
         IN  Sound(n) /\ \E k \in Pid : Spawned(m, n, m.current, k)
<1> DEFINE c == m.current
           u == SysFork(m)
           k == u.current
           n == SysForkWait(m)
           fresh == [pid |-> k, result |-> -1]
<1>0. /\ m \in Machine /\ c \in Pid /\ m.frame \in Ctx /\ m.pcb \in [Pid -> Pcb]
      /\ m.pcb[c] \in Pcb /\ Active(m, c)
  BY SoundParts DEF Sound, Machine, InUse
<1>1. FreePids(m) # {}
  BY ActiveAt DEF FreePids, ActivePids
<1>2. /\ Typed(u)
      /\ \E q \in Pid : ~Active(m, q) /\ (q # c => Forked(m, u, q))
  BY <1>1, SysForkEffect DEF Sound
<1>3. InUse(u) /\ Books(u) /\ u.frame.pc # Null
  BY SysForkKeeps DEF Sound
<1>4. n = SysWait(u, c, k)
  BY DEF SysForkWait
<1> HIDE DEF u, n
<1>5. PICK q \in Pid : ~Active(m, q) /\ Forked(m, u, q)
  BY <1>0, <1>2
<1>6. q = k /\ k # c /\ k \in Pid /\ ~Active(m, k) /\ Forked(m, u, k)
  BY <1>0, <1>5 DEF Forked
<1>7. /\ u.frame = [m.frame EXCEPT !.r0 = 0]
      /\ u.frame.pc = m.frame.pc /\ u.frame.r0 = 0 /\ u.frame \in Ctx
  <2> DEFINE z == [m.frame EXCEPT !.r0 = 0]
  <2>1. 0 \in Int
    OBVIOUS
  <2>2. z \in Ctx /\ z.pc = m.frame.pc /\ z.r0 = 0
    BY <1>0, <2>1, CtxWithResult
  <2>3. u.frame = z
    BY <1>6 DEF Forked
  <2> HIDE DEF z
  <2>4. /\ u.frame = z
        /\ u.frame.pc = m.frame.pc /\ u.frame.r0 = 0 /\ u.frame \in Ctx
    BY <2>2, <2>3
  <2> QED
    BY <2>4 DEF z
<1>8. /\ u.pcb[k].ctx = u.frame
      /\ u.pcb[k].ppid = c
      /\ u.pcb[k].shared = NewProcess(k, 0).shared
      /\ u.pcb[k].waiting = NewProcess(k, 0).waiting
      /\ u.pcb[k].waiters = NewProcess(k, 0).waiters
  <2>1. NewProcess(k, c) \in Pcb
    BY <1>0, <1>6, NewProcessType
  <2>2. u.pcb[k] = [NewProcess(k, c) EXCEPT !.ctx = u.frame]
    BY <1>6 DEF Forked
  <2>3. /\ NewProcess(k, c).ppid = c /\ NewProcess(k, c).shared = NewProcess(k, 0).shared
        /\ NewProcess(k, c).waiting = NewProcess(k, 0).waiting
        /\ NewProcess(k, c).waiters = NewProcess(k, 0).waiters
    BY DEF NewProcess
  <2> QED
    BY <1>7, <2>1, <2>2, <2>3, PcbWithCtx
<1>9. /\ u.pcb[c].ctx.pc = m.frame.pc /\ u.pcb[c].ctx.r0 = k
      /\ u.pcb[c].ppid = m.pcb[c].ppid /\ u.pcb[c].shared = m.pcb[c].shared
      /\ u.pcb[c].waiting = m.pcb[c].waiting
  <2> DEFINE r == [m.frame EXCEPT !.r0 = k]
  <2>1. r \in Ctx /\ r.pc = m.frame.pc /\ r.r0 = k
    BY <1>0, <1>6, CtxWithResult
  <2>2. u.pcb[c] = [m.pcb[c] EXCEPT !.ctx = r]
    BY <1>6 DEF Forked
  <2> HIDE DEF r
  <2> QED
    BY <1>0, <2>1, <2>2, PcbWithCtx
<1>10. \A p \in Pid \ {c, k} : u.pcb[p] = m.pcb[p]
  BY <1>6 DEF Forked
<1>11. CanRegister(u, k)
  <2>1. 1 \in 1 .. MaxWaiters
    BY SizesAssumption
  <2>2. u.pcb[k].waiters[1] = 0
    BY <1>8, <2>1 DEF NewProcess
  <2>3. FreeWaiter(u, k) # 0
    BY <1>2, <1>6, <2>1, <2>2, RoomForWaiter DEF Typed
  <2>4. Active(u, k)
    BY <1>3, <1>8 DEF Active
  <2> QED
    BY <2>3, <2>4 DEF CanRegister
<1>12. FreeWaiting(u, c) # 0
  BY <1>0, <1>2, <1>9, SlotOfFree DEF FreeWaiting, Typed
<1>13. \A i \in 1 .. MaxWaiting : u.pcb[c].waiting[i].pid # k
  <2>1. PcAt(m, k) = Null /\ k # 0
    BY <1>6, ActiveAt
  <2> QED
    BY <1>9, <2>1
<1>14. WaitEntry(u, c, k) = SetWaiting(u, c, k)
  <2>1. GetWaiting(u, c, k) = 0
    BY <1>0, <1>2, <1>13, GetWaitingSlot DEF Typed
  <2> QED
    BY <2>1 DEF WaitEntry
<1> DEFINE v == SetWaiting(u, c, k)
<1>15. SameForWait(u, v, c) /\ Entered(u, v, c, k)
  BY <1>0, <1>2, <1>6, <1>11, <1>12, SetWaitingEffect DEF Typed
<1> HIDE DEF v
<1>16. PICK i \in 1 .. MaxWaiting :
         /\ u.pcb[c].waiting[i].pid = 0
         /\ v.pcb[c].waiting = [u.pcb[c].waiting EXCEPT ![i] = fresh]
  BY <1>15 DEF Entered
<1>17. /\ v.pcb[c].waiting[i] = fresh
       /\ \A j \in 1 .. MaxWaiting : j # i => v.pcb[c].waiting[j] = u.pcb[c].waiting[j]
  <2> DEFINE a == u.pcb[c].waiting
             b == v.pcb[c].waiting
  <2>1. a \in [1 .. MaxWaiting -> [pid : 0 .. MaxProcesses, result : Int]]
    BY <1>0, <1>9 DEF Pcb
  <2>2. b = [a EXCEPT ![i] = fresh]
    BY <1>16
  <2> HIDE DEF a, b, fresh
  <2>3. b[i] = fresh /\ \A j \in 1 .. MaxWaiting : j # i => b[j] = a[j]
    BY <2>1, <2>2
  <2> QED
    BY <2>3 DEF a, b
<1>18. n = v
  <2> DEFINE g == GetWaiting(v, c, k)
  <2>1. v \in Machine
    BY <1>15 DEF SameForWait
  <2>2. \A j \in 1 .. MaxWaiting : v.pcb[c].waiting[j].pid = k => j = i
    BY <1>13, <1>17
  <2>3. g # 0 /\ g \in 1 .. MaxWaiting /\ v.pcb[c].waiting[g].pid = k
    <3>1. v.pcb[c].waiting[i].pid = k
      BY <1>17
    <3>2. g # 0
      BY <1>0, <2>1, <3>1, SlotOfFree
    <3> QED
      BY <1>0, <2>1, <3>2, GetWaitingSlot
  <2>4. g = i
    BY <2>2, <2>3
  <2>5. v.pcb[c].waiting[g].result = -1
    BY <1>17, <2>4
  <2>6. n = IF g = 0 \/ v.pcb[c].waiting[g].result = -1
              THEN v ELSE [v EXCEPT !.pcb[c].waiting[g] = NoWait]
    BY <1>4, <1>14 DEF SysWait, v
  <2> HIDE DEF g
  <2> QED
    BY <2>5, <2>6
<1>19. Sound(n)
  <2>1. Typed(n) /\ InUse(n)
    BY <1>0, <1>2, <1>3, <1>15, <1>18, SameForWaitKeeps
  <2>2. Books(n)
    BY <1>0, <1>2, <1>3, <1>4, <1>6, SysWaitEffect
  <2> QED
    BY <2>1, <2>2 DEF Sound
<1>20. /\ n.current = k /\ n.frame = u.frame
       /\ \A p \in Pid : /\ n.pcb[p].ctx = u.pcb[p].ctx
                         /\ n.pcb[p].ppid = u.pcb[p].ppid
                         /\ n.pcb[p].shared = u.pcb[p].shared
  BY <1>15, <1>18 DEF SameForWait, SameOthers
<1> HIDE DEF c, k
<1>21. Spawned(m, n, c, k)
  <2>1. PcAt(m, k) = Null
    <3>1. k \in Pid /\ ~Active(m, k)
      BY <1>6
    <3> QED
      BY <3>1, ActiveAt
  <2>2. PcAt(n, k) = m.frame.pc /\ R0At(n, k) = 0
    <3>1. n.current = k /\ n.frame.pc = m.frame.pc /\ n.frame.r0 = 0
      BY <1>7, <1>20
    <3> QED
      BY <3>1, PlaceOf
  <2>3. PcAt(n, c) = m.frame.pc /\ R0At(n, c) = k
    <3>1. c # n.current /\ n.pcb[c].ctx = u.pcb[c].ctx
      BY <1>0, <1>6, <1>20
    <3> QED
      BY <1>9, <3>1, PlaceOf
  <2>4. \A p \in Pid \ {c, k} : PcAt(n, p) = PcAt(m, p) /\ R0At(n, p) = R0At(m, p)
    <3> SUFFICES ASSUME NEW p \in Pid \ {c, k}
                 PROVE  PcAt(n, p) = PcAt(m, p) /\ R0At(n, p) = R0At(m, p)
      OBVIOUS
    <3>1. n.pcb[p].ctx = m.pcb[p].ctx /\ p # n.current /\ p # m.current
      BY <1>10, <1>20 DEF c
    <3> QED
      BY <3>1, PlaceOf
  <2>5. n.pcb[k].ppid = c /\ n.pcb[k].shared = NewProcess(k, 0).shared
    BY <1>6, <1>8, <1>20
  <2>6. \A p \in Pid \ {k} : /\ n.pcb[p].ppid = m.pcb[p].ppid
                             /\ n.pcb[p].shared = m.pcb[p].shared
    <3> SUFFICES ASSUME NEW p \in Pid \ {k}
                 PROVE  n.pcb[p].ppid = m.pcb[p].ppid /\ n.pcb[p].shared = m.pcb[p].shared
      OBVIOUS
    <3>1. n.pcb[p].ppid = u.pcb[p].ppid /\ n.pcb[p].shared = u.pcb[p].shared
      BY <1>20
    <3> QED
      BY <1>9, <1>10, <3>1
  <2>7. m.pcb[c].waiting[i].pid = 0 /\ EntryBecomes(m, n, c, i, fresh)
    <3>1. m.pcb[c].waiting[i].pid = 0
      BY <1>9, <1>16
    <3> QED
      BY <1>9, <1>17, <1>18, <3>1 DEF EntryBecomes
  <2> QED
    BY <1>6, <2>1, <2>2, <2>3, <2>4, <2>5, <2>6, <2>7 DEF Spawned
<1> QED
  BY <1>6, <1>19, <1>21 DEF n, c

LEMMA EntrySlot ==
  ASSUME NEW m, Sound(m), NEW p \in Pid, NEW t \in Pid,
         NEW i \in 1 .. MaxWaiting, m.pcb[p].waiting[i].pid = t
  PROVE  /\ GetWaiting(m, p, t) = i /\ i # 0
         /\ WaitEntry(m, p, t) = m
         /\ WaitResult(m, p, t) = m.pcb[p].waiting[i].result
<1> DEFINE g == GetWaiting(m, p, t)
<1>1. g # 0
  BY SoundParts, SlotOfFree
<1>2. g \in 1 .. MaxWaiting /\ m.pcb[p].waiting[g].pid = t
  BY <1>1, SoundParts, GetWaitingSlot
<1> HIDE DEF g
<1>3. g = i
  <2>1. OneEntry(m) /\ t # 0
    BY DEF Sound, Books
  <2>2. /\ m.pcb[p].waiting[g].pid # 0
        /\ m.pcb[p].waiting[g].pid = m.pcb[p].waiting[i].pid
    BY <1>2, <2>1
  <2> QED
    BY <1>2, <2>1, <2>2 DEF OneEntry
<1> QED
  BY <1>1, <1>3 DEF g, WaitEntry, WaitResult

(* A call that moves nobody, and the result written after it.              *)
LEMMA AfterReturn ==
  ASSUME NEW m, NEW u, NEW n, NEW r, u.current = m.current, u.frame = m.frame,
         n.pcb = u.pcb, Goes(u, n, u.frame.pc, r), SameShared(m, u), SameParents(m, u),
         \A q \in Pid : PcAt(u, q) = PcAt(m, q) /\ R0At(u, q) = R0At(m, q)
  PROVE  /\ Goes(m, n, m.frame.pc, r) /\ SameShared(m, n) /\ SameParents(m, n)
         /\ SameWaits(m, u) => SameWaits(m, n)
         /\ \A c, i, v : EntryBecomes(m, u, c, i, v) => EntryBecomes(m, n, c, i, v)
<1> DEFINE c == m.current
<1>0. PcAt(n, c) = m.frame.pc /\ R0At(n, c) = r /\ OthersStay(u, n, c)
  BY DEF Goes
<1> HIDE DEF c
<1>1. Goes(m, n, m.frame.pc, r)
  <2> SUFFICES ASSUME NEW q \in Pid \ {c}
               PROVE  PcAt(n, q) = PcAt(m, q) /\ (PcAt(m, q) # Null => R0At(n, q) = R0At(m, q))
    BY <1>0 DEF c, Goes, OthersStay
  <2>1. PcAt(n, q) = PcAt(u, q) /\ (PcAt(u, q) # Null => R0At(n, q) = R0At(u, q))
    BY <1>0 DEF OthersStay
  <2> QED
    BY <2>1
<1>2. SameShared(m, n) /\ SameParents(m, n)
  BY DEF SameShared, SameParents
<1>3. SameWaits(m, u) => SameWaits(m, n)
  BY DEF SameWaits
<1>4. ASSUME NEW p, NEW i, NEW v, EntryBecomes(m, u, p, i, v)
      PROVE  EntryBecomes(m, n, p, i, v)
  BY <1>4 DEF EntryBecomes
<1> QED
  BY <1>1, <1>2, <1>3, <1>4

(* The caller waits for t, for which it has entry i with result r.         *)
Collects(m, n, t, i, r) ==
  /\ m.pcb[m.current].waiting[i].pid = t /\ m.pcb[m.current].waiting[i].result = r
  /\ n = Returned(SysWait(m, m.current, t), r)

(* The entry is given up with the answer, and kept while there is none.    *)
LEMMA CollectEffect ==
  ASSUME NEW m, Sound(m), m.frame.pc # Null, NEW t \in Pid,
         NEW i \in 1 .. MaxWaiting, NEW r, NEW n, Collects(m, n, t, i, r)
  PROVE  /\ Sound(n) /\ Goes(m, n, m.frame.pc, r)
         /\ SameShared(m, n) /\ SameParents(m, n)
         /\ r = -1 => SameWaits(m, n)
         /\ r # -1 => EntryBecomes(m, n, m.current, i, NoWait)
<1> DEFINE c == m.current
           u == SysWait(m, c, t)
<1>0. m \in Machine /\ c \in Pid
  BY SoundParts
<1>1. /\ GetWaiting(m, c, t) = i /\ i # 0 /\ WaitEntry(m, c, t) = m
      /\ m.pcb[c].waiting[i].result = r
  BY <1>0, EntrySlot DEF Collects
<1>2. u = IF r = -1 THEN m ELSE [m EXCEPT !.pcb[c].waiting[i] = NoWait]
  BY <1>1 DEF SysWait
<1>3. SameForWait(m, u, c) /\ Books(u)
  BY <1>0, SysWaitEffect DEF Sound
<1>4. /\ Typed(u) /\ InUse(u) /\ SameActive(m, u) /\ SameShared(m, u)
      /\ u.current = c /\ u.frame = m.frame
  BY <1>0, <1>3, SameForWaitKeeps DEF Sound
<1>5. /\ r = -1 => SameWaits(m, u)
      /\ r # -1 => EntryBecomes(m, u, c, i, NoWait)
  <2>1. CASE r = -1
    BY <1>2, <2>1 DEF SameWaits
  <2>2. CASE r # -1
    <3>1. NoWait \in [pid : 0 .. MaxProcesses, result : Int]
      BY DEF NoWait
    <3>2. u = [m EXCEPT !.pcb[c].waiting[i] = NoWait]
      BY <1>2, <2>2
    <3> DEFINE a == m.pcb[c].waiting
               b == u.pcb[c].waiting
    <3> HIDE DEF u, c
    <3>3. b = [a EXCEPT ![i] = NoWait]
      BY <1>0, <3>1, <3>2, WithWaiting
    <3>4. a \in [1 .. MaxWaiting -> [pid : 0 .. MaxProcesses, result : Int]]
      BY <1>0, TableRow DEF Machine, Pcb
    <3> HIDE DEF a, b
    <3>5. b[i] = NoWait /\ \A j \in 1 .. MaxWaiting : j # i => b[j] = a[j]
      BY <3>3, <3>4
    <3> QED
      BY <2>2, <3>5 DEF a, b, EntryBecomes
  <2> QED
    BY <2>1, <2>2
<1> HIDE DEF u
<1>6. Sound(u)
  BY <1>3, <1>4 DEF Sound
<1>7. r \in Int /\ c = m.current
  <2>1. m.pcb[c].waiting \in [1 .. MaxWaiting -> [pid : 0 .. MaxProcesses, result : Int]]
    BY <1>0, TableRow DEF Machine, Pcb
  <2> QED
    BY <1>1, <2>1
<1>8. Sound(n) /\ Goes(u, n, u.frame.pc, r) /\ n.pcb = u.pcb /\ n.current = u.current
  <2>1. n = Returned(u, r)
    BY DEF Collects, u
  <2> QED
    BY <1>6, <1>7, <2>1, ReturnEffect
<1> HIDE DEF c
<1>9. \A q \in Pid : PcAt(u, q) = PcAt(m, q) /\ R0At(u, q) = R0At(m, q)
  <2> SUFFICES ASSUME NEW q \in Pid
               PROVE  PcAt(u, q) = PcAt(m, q) /\ R0At(u, q) = R0At(m, q)
    OBVIOUS
  <2>1. u.pcb[q].ctx = m.pcb[q].ctx /\ u.frame = m.frame /\ u.current = m.current
    BY <1>3 DEF SameForWait, SameOthers
  <2> QED
    BY <2>1, PlaceOf
<1>10. SameParents(m, u)
  BY <1>3 DEF SameParents, SameForWait
<1> QED
  <2>1. u.current = m.current
    BY <1>4, <1>7, Zenon
  <2>2. /\ Goes(m, n, m.frame.pc, r) /\ SameShared(m, n) /\ SameParents(m, n)
        /\ SameWaits(m, u) => SameWaits(m, n)
        /\ EntryBecomes(m, u, c, i, NoWait) => EntryBecomes(m, n, c, i, NoWait)
    BY <1>4, <1>8, <1>9, <1>10, <2>1, AfterReturn
  <2> QED
    <3>1. r = -1 => SameWaits(m, n)
      BY <1>5, <2>2, Zenon
    <3>2. r # -1 => EntryBecomes(m, n, c, i, NoWait)
      BY <1>5, <2>2, Zenon
    <3> QED
      BY <1>8, <2>2, <3>1, <3>2, Zenon DEF c

-----------------------------------------------------------------------------
(* A step of a program: it goes on to l, and makes a call there            *)

Onward(m, l) == [m EXCEPT !.frame.pc = l]

(* The caller is at l with result r; nobody's waits or parents change.     *)
Stepped(m, n, l, r) ==
  Sound(n) /\ Goes(m, n, l, r) /\ SameWaits(m, n) /\ SameParents(m, n)

LEMMA OnwardEffect ==
  ASSUME NEW m, Sound(m), m.frame.pc # Null, NEW l \in Code
  PROVE  LET u == Onward(m, l)
         IN  /\ Stepped(m, u, l, m.frame.r0)
             /\ u.pcb = m.pcb /\ u.current = m.current
             /\ u.frame.pc = l /\ u.frame.r0 = m.frame.r0 /\ u.frame.pc # Null
<1> DEFINE u == Onward(m, l)
<1>1. /\ Sound(u) /\ Goes(m, u, l, m.frame.r0)
      /\ u.pcb = m.pcb /\ u.current = m.current
      /\ u.frame.pc = l /\ u.frame.r0 = m.frame.r0
  BY WalkEffect DEF Onward
<1> HIDE DEF u
<1> QED
  BY <1>1 DEF u, Stepped, SameWaits, SameParents

LEMMA GoesOn ==
  ASSUME NEW m, NEW u, NEW n, NEW l, NEW r, NEW s,
         u.pcb = m.pcb, u.current = m.current, Goes(m, u, l, r), Goes(u, n, l, s)
  PROVE  Goes(m, n, l, s)
BY DEF Goes, OthersStay

LEMMA YieldedAt ==
  ASSUME NEW m, Sound(m), m.frame.pc # Null, NEW l \in Code,
         NEW n, n = SysYield(Onward(m, l))
  PROVE  Stepped(m, n, l, m.frame.r0) /\ SameShared(m, n)
<1> DEFINE u == Onward(m, l)
<1>1. /\ Stepped(m, u, l, m.frame.r0) /\ u.pcb = m.pcb /\ u.current = m.current
      /\ u.frame.pc = l /\ u.frame.r0 = m.frame.r0 /\ u.frame.pc # Null
  BY OnwardEffect
<1> HIDE DEF u
<1>2. Sound(n) /\ Goes(u, n, l, m.frame.r0) /\ SameFamilies(u, n) /\ SameShared(u, n)
  BY <1>1, YieldEffect DEF Stepped, u
<1>3. Goes(m, n, l, m.frame.r0)
  BY <1>1, <1>2, GoesOn DEF Stepped
<1> QED
  BY <1>1, <1>2, <1>3 DEF Stepped, SameFamilies, SameShared, SameWaits, SameParents

(* A call on the lock of o: with 1 it has changed hands, with 0 it was     *)
(* already as asked for.                                                   *)
LEMMA LockAt ==
  ASSUME NEW m, Sound(m), m.frame.pc # Null, NEW l \in Code, NEW o \in Pid, NEW n,
         NEW b \in BOOLEAN,
         \/ b = TRUE /\ n \in Lock(Onward(m, l), o)
         \/ b = FALSE /\ n \in Unlock(Onward(m, l), o)
  PROVE  \/ /\ m.pcb[o].shared.locked = b
            /\ Stepped(m, n, l, 0) /\ SameShared(m, n)
         \/ /\ m.pcb[o].shared.locked = ~b
            /\ Stepped(m, n, l, 1)
            /\ NowShares(m, n, o, [m.pcb[o].shared EXCEPT !.locked = b])
<1> DEFINE u == Onward(m, l)
<1>1. /\ Stepped(m, u, l, m.frame.r0) /\ u.pcb = m.pcb /\ u.current = m.current
      /\ u.frame.pc = l
  BY OnwardEffect
<1> HIDE DEF u
<1>2. LockTurned(u, n, o, b)
  BY <1>1, LockPlaces, UnlockPlaces DEF Stepped, u
<1>3. \A r : Goes(u, n, l, r) => Goes(m, n, l, r)
  BY <1>1, GoesOn DEF Stepped
<1>4. Sound(n) /\ SameWaits(m, n) /\ SameParents(m, n)
  BY <1>1, <1>2 DEF LockTurned, SameWaits, SameParents
<1> QED
  BY <1>1, <1>2, <1>3, <1>4 DEF LockTurned, Stepped, SameShared, NowShares

LEMMA ShareAt ==
  ASSUME NEW m, Sound(m), m.frame.pc # Null, NEW l \in Code, NEW ptr \in Ptrs,
         NEW p, p = m.current, NEW n, NEW q,
         \/ /\ m.pcb[p].shared.ptr = Null /\ q = ptr
            /\ n = Share(Onward(m, l), p, ptr)
         \/ /\ m.pcb[p].shared.ptr = ptr /\ q = Null
            /\ n = Unshare(Onward(m, l), p, ptr)
  PROVE  /\ Stepped(m, n, l, 1)
         /\ NowShares(m, n, p, [m.pcb[p].shared EXCEPT !.ptr = q])
<1> DEFINE u == Onward(m, l)
<1>1. /\ Stepped(m, u, l, m.frame.r0) /\ u.pcb = m.pcb /\ u.current = m.current
      /\ u.frame.pc = l
  BY OnwardEffect
<1> HIDE DEF u
<1>2. p \in Pid /\ q \in Ptrs \cup {Null} /\ ptr # Null
  BY SoundParts
<1>3. n = WithPointer(u, p, q)
  <2>1. CASE q = ptr /\ n = Share(u, p, ptr) /\ m.pcb[p].shared.ptr = Null
    BY <1>1, <2>1 DEF Share, WithPointer
  <2>2. CASE q = Null /\ n = Unshare(u, p, ptr) /\ m.pcb[p].shared.ptr = ptr
    BY <1>1, <2>2 DEF Unshare, WithPointer
  <2> QED
    BY <2>1, <2>2 DEF u
<1>4. /\ Sound(n) /\ Goes(u, n, l, 1)
      /\ SameWaits(u, n) /\ SameParents(u, n)
      /\ NowShares(u, n, p, [u.pcb[p].shared EXCEPT !.ptr = q])
  <2>1. Sound(u)
    BY <1>1 DEF Stepped
  <2>2. /\ Sound(n) /\ Goes(u, n, u.frame.pc, 1)
        /\ SameWaits(u, n) /\ SameParents(u, n)
        /\ NowShares(u, n, p, [u.pcb[p].shared EXCEPT !.ptr = q])
    BY <1>2, <1>3, <2>1, PointerEffect
  <2> QED
    BY <1>1, <2>2
<1>5. Goes(m, n, l, 1)
  BY <1>1, <1>4, GoesOn DEF Stepped
<1> QED
  BY <1>1, <1>4, <1>5 DEF Stepped, SameWaits, SameParents, NowShares
=============================================================================
