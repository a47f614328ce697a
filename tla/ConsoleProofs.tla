----------------------------- MODULE ConsoleProofs -----------------------------
(***************************************************************************)
(* Theorems about the console, for every table of programs, every set of   *)
(* lines typed and every number of processes and waits.                    *)
(***************************************************************************)
EXTENDS Console, ProgramProofs

USE SizesAssumption, NullAssumption DEF Pid

-----------------------------------------------------------------------------
(* Calls, with what they do to the tables of waits                         *)

SameWaiters(m, n, q) == n.pcb[q].waiters = m.pcb[q].waiters

(* Process p goes on to l, with r as its result; the tables stay.          *)
Moved(m, n, p, l, r) ==
  Sound(n) /\ m.current = p /\ Goes(m, n, l, r) /\ SameFamilies(m, n)

(* p is back at l from a fork, and so is its child k.                      *)
HasChild(m, n, p, k, l) ==
  /\ Sound(n) /\ m.current = p
  /\ k # p /\ PcAt(m, k) = Null
  /\ PcAt(n, k) = l /\ R0At(n, k) = 0
  /\ PcAt(n, p) = l /\ R0At(n, p) = k
  /\ \A q \in Pid \ {p, k} :
       /\ PcAt(n, q) = PcAt(m, q)
       /\ PcAt(m, q) # Null => R0At(n, q) = R0At(m, q)

(* k's tables of waits are as new, the others' as they were.               *)
FreshTables(m, n, k) ==
  /\ \A j \in 1 .. MaxWaiters : n.pcb[k].waiters[j] = 0
  /\ \A q \in Pid \ {k} : SameWaiters(m, n, q) /\ n.pcb[q].waiting = m.pcb[q].waiting

ForkFailed(m, n, p, l) ==
  Moved(m, n, p, l, -1) /\ \A q \in Pid : PcAt(m, q) # Null

LEMMA SameFamiliesOf ==
  ASSUME NEW m, NEW n, n.pcb = m.pcb
  PROVE  SameFamilies(m, n)
BY DEF SameFamilies

LEMMA MovedOnward ==
  ASSUME NEW m, Sound(m), m.frame.pc # Null, NEW l \in Code
  PROVE  LET n == Onward(m, l)
         IN  /\ Moved(m, n, m.current, l, m.frame.r0)
             /\ n.pcb = m.pcb /\ n.current = m.current
             /\ n.frame.pc = l /\ n.frame.r0 = m.frame.r0
<1> DEFINE n == Onward(m, l)
<1>1. /\ Stepped(m, n, l, m.frame.r0) /\ n.pcb = m.pcb /\ n.current = m.current
      /\ n.frame.pc = l /\ n.frame.r0 = m.frame.r0
  BY OnwardEffect
<1> HIDE DEF n
<1>2. SameFamilies(m, n)
  BY <1>1, SameFamiliesOf
<1> QED
  BY <1>1, <1>2 DEF n, Moved, Stepped

(* A call made after going on to l.                                        *)
LEMMA MovedAfter ==
  ASSUME NEW m, NEW u, NEW n, NEW l, NEW r, NEW s, NEW k,
         Moved(m, u, m.current, l, r), u.pcb = m.pcb, u.current = m.current,
         Moved(u, n, u.current, k, s)
  PROVE  Moved(m, n, m.current, k, s)
<1>1. Goes(m, n, k, s)
  BY DEF Moved, Goes, OthersStay
<1>2. SameFamilies(m, n)
  BY DEF Moved, SameFamilies
<1> QED
  BY <1>1, <1>2 DEF Moved

LEMMA MovedByReturn ==
  ASSUME NEW m, Sound(m), NEW r \in Int
  PROVE  Moved(m, Returned(m, r), m.current, m.frame.pc, r)
<1> DEFINE n == Returned(m, r)
<1>1. /\ Sound(n) /\ Goes(m, n, m.frame.pc, r)
      /\ n.pcb = m.pcb /\ n.current = m.current
  BY ReturnEffect
<1> HIDE DEF n
<1>2. SameFamilies(m, n)
  BY <1>1, SameFamiliesOf
<1> QED
  BY <1>1, <1>2 DEF n, Moved

LEMMA MovedByYield ==
  ASSUME NEW m, Sound(m), m.frame.pc # Null
  PROVE  Moved(m, SysYield(m), m.current, m.frame.pc, m.frame.r0)
BY YieldEffect DEF Moved

LEMMA MovedByTick ==
  ASSUME NEW m, Sound(m), m.frame.pc # Null
  PROVE  Moved(m, Scheduler(m), m.current, m.frame.pc, m.frame.r0)
<1> DEFINE n == Scheduler(m)
<1>1. /\ Sound(n) /\ SameFamilies(m, n)
      /\ \A q \in Pid : PcAt(n, q) = PcAt(m, q) /\ R0At(n, q) = R0At(m, q)
  BY TickEffect
<1> HIDE DEF n
<1>2. Goes(m, n, m.frame.pc, m.frame.r0)
  BY <1>1, SoundParts DEF Goes, OthersStay
<1> QED
  BY <1>1, <1>2 DEF n, Moved

LEMMA MovedByExec ==
  ASSUME NEW m, Sound(m), m.frame.pc # Null, NEW x \in Code, NEW interactive \in BOOLEAN
  PROVE  Moved(m, SysExec(m, x, interactive, 0), m.current, x, 0)
BY ExecEffect DEF Moved

(* Nobody moves.                                                           *)
LEMMA MovedNowhere ==
  ASSUME NEW m, Sound(m)
  PROVE  Moved(m, m, m.current, m.frame.pc, m.frame.r0)
BY SoundParts DEF Moved, Goes, OthersStay, SameFamilies

LEMMA ForkPlaces ==
  ASSUME NEW m, Sound(m), m.frame.pc # Null
  PROVE  LET n == SysFork(m)
         IN  /\ n.frame.pc = m.frame.pc
             /\ \/ ForkFailed(m, n, m.current, m.frame.pc) /\ n.current = m.current
                \/ \E k \in Pid : /\ HasChild(m, n, m.current, k, m.frame.pc)
                                  /\ FreshTables(m, n, k) /\ n.current = k
<1> DEFINE c == m.current
           n == SysFork(m)
<1>0. m \in Machine /\ c \in Pid /\ m.frame \in Ctx /\ m.pcb[c] \in Pcb /\ Active(m, c)
  BY SoundParts DEF Sound, InUse, Machine
<1>1. /\ Typed(n)
      /\ \/ FreePids(m) = {} /\ n = Returned(m, -1)
         \/ \E k \in Pid : ~Active(m, k) /\ (k # c => Forked(m, n, k))
  BY SysForkEffect DEF Sound
<1>2. InUse(n) /\ Books(n)
  BY SysForkKeeps DEF Sound
<1> HIDE DEF n
<1>3. Sound(n)
  BY <1>1, <1>2 DEF Sound
<1>4. CASE FreePids(m) = {} /\ n = Returned(m, -1)
  <2>1. Moved(m, n, c, m.frame.pc, -1)
    BY <1>4, MovedByReturn
  <2>2. \A q \in Pid : PcAt(m, q) # Null
    BY <1>4, ActiveAt DEF FreePids, ActivePids
  <2>3. n.current = m.current /\ n.frame.pc = m.frame.pc
    <3>1. -1 \in Int
      OBVIOUS
    <3> QED
      BY <1>0, <1>4, <3>1, ReturnedEffect
  <2> QED
    BY <2>1, <2>2, <2>3 DEF ForkFailed, n
<1>5. ASSUME NEW k \in Pid, ~Active(m, k), k # c => Forked(m, n, k)
      PROVE  /\ n.frame.pc = m.frame.pc /\ n.current = k
             /\ HasChild(m, n, c, k, m.frame.pc) /\ FreshTables(m, n, k)
  <2>1. k # c /\ Forked(m, n, k)
    BY <1>0, <1>5
  <2>2. n.current = k /\ n.frame.pc = m.frame.pc /\ n.frame.r0 = 0 /\ n.frame \in Ctx
    <3> DEFINE z == [m.frame EXCEPT !.r0 = 0]
    <3>1. 0 \in Int
      OBVIOUS
    <3>2. z \in Ctx /\ z.pc = m.frame.pc /\ z.r0 = 0
      BY <1>0, <3>1, CtxWithResult
    <3>3. n.frame = z /\ n.current = k
      BY <2>1 DEF Forked
    <3> HIDE DEF z
    <3> QED
      BY <3>2, <3>3
  <2>3. n.pcb[k].waiters = NewProcess(k, 0).waiters
    <3>1. NewProcess(k, c) \in Pcb
      BY <1>0, NewProcessType
    <3>2. n.pcb[k] = [NewProcess(k, c) EXCEPT !.ctx = n.frame]
      BY <2>1 DEF Forked
    <3>3. NewProcess(k, c).waiters = NewProcess(k, 0).waiters
      BY DEF NewProcess
    <3> QED
      BY <2>2, <3>1, <3>2, <3>3, PcbWithCtx
  <2>4. /\ n.pcb[c].ctx.pc = m.frame.pc /\ n.pcb[c].ctx.r0 = k
        /\ n.pcb[c].waiting = m.pcb[c].waiting /\ n.pcb[c].waiters = m.pcb[c].waiters
    <3> DEFINE r == [m.frame EXCEPT !.r0 = k]
    <3>1. r \in Ctx /\ r.pc = m.frame.pc /\ r.r0 = k
      BY <1>0, CtxWithResult
    <3>2. n.pcb[c] = [m.pcb[c] EXCEPT !.ctx = r]
      BY <2>1 DEF Forked
    <3> HIDE DEF r
    <3> QED
      BY <1>0, <3>1, <3>2, PcbWithCtx
  <2>5. \A q \in Pid \ {c, k} : n.pcb[q] = m.pcb[q]
    BY <2>1 DEF Forked
  <2>6. FreshTables(m, n, k)
    <3>1. \A j \in 1 .. MaxWaiters : NewProcess(k, 0).waiters[j] = 0
      BY DEF NewProcess
    <3> QED
      BY <2>3, <2>4, <2>5, <3>1 DEF FreshTables, SameWaiters
  <2>7. PcAt(n, k) = m.frame.pc /\ R0At(n, k) = 0
    BY <2>2, PlaceOf
  <2>8. PcAt(n, c) = m.frame.pc /\ R0At(n, c) = k
    BY <2>1, <2>2, <2>4, PlaceOf
  <2>9. ASSUME NEW q \in Pid \ {c, k}
        PROVE  PcAt(n, q) = PcAt(m, q) /\ R0At(n, q) = R0At(m, q)
    <3>1. q # n.current /\ q # m.current /\ n.pcb[q] = m.pcb[q]
      BY <2>2, <2>5
    <3> QED
      BY <3>1, PlaceOf
  <2>10. PcAt(m, k) = Null
    BY <1>5, ActiveAt
  <2> HIDE DEF c
  <2>11. HasChild(m, n, c, k, m.frame.pc)
    BY <1>3, <2>1, <2>7, <2>8, <2>9, <2>10 DEF HasChild, c
  <2> QED
    BY <2>2, <2>6, <2>11
<1> QED
  <2>1. CASE \E k \in Pid : ~Active(m, k) /\ (k # c => Forked(m, n, k))
    BY <1>5, <2>1 DEF n
  <2> QED
    BY <1>1, <1>4, <2>1 DEF n

-----------------------------------------------------------------------------
(* How a wait comes out                                                    *)

NoEntry(m, p, t) == \A i \in 1 .. MaxWaiting : m.pcb[p].waiting[i].pid # t

(* Nobody has t told that he waits for it.                                 *)
Unheard(m, t) == \A j \in 1 .. MaxWaiters : m.pcb[t].waiters[j] = 0

SameWaitersBut(m, n, t) == \A q \in Pid \ {t} : SameWaiters(m, n, q)

(* p has an entry for t, and gives it up with the answer r.                *)
Looked(m, n, p, t, r) ==
  /\ \A q \in Pid : SameWaiters(m, n, q)
  /\ \E i \in 1 .. MaxWaiting :
       /\ m.pcb[p].waiting[i].pid = t /\ m.pcb[p].waiting[i].result = r
       /\ \/ r = -1 /\ n.pcb[p].waiting = m.pcb[p].waiting
          \/ r # -1 /\ EntryBecomes(m, n, p, i, NoWait)

(* p makes an entry for t, which is alive.                                 *)
Registered(m, n, p, t, r) ==
  /\ r = -1 /\ NoEntry(m, p, t) /\ Active(m, t)
  /\ SameWaitersBut(m, n, t)
  /\ \E i \in 1 .. MaxWaiting :
       /\ m.pcb[p].waiting[i].pid = 0
       /\ EntryBecomes(m, n, p, i, [pid |-> t, result |-> -1])

(* p gets no entry: t is not alive, or one of the tables is full.          *)
TurnedDown(m, n, p, t, r) ==
  /\ r = -2 /\ NoEntry(m, p, t)
  /\ n.pcb[p].waiting = m.pcb[p].waiting
  /\ SameWaitersBut(m, n, t)
  /\ ~Active(m, t) => SameWaiters(m, n, t)
  /\ Active(m, t) /\ Unheard(m, t) /\ MaxWaiters > 0 => NoEntry(m, p, 0)

LEMMA SetWaiterOthers ==
  ASSUME NEW m \in Machine, NEW p \in Pid, NEW t \in Pid
  PROVE  SameWaitersBut(m, SetWaiter(m, p, t), t)
<1> DEFINE u == SetWaiter(m, p, t)
<1>1. SameButWaits(m, u, t)
  BY SetWaiterEffect
<1> HIDE DEF u
<1>2. SameWaitersBut(m, u, t)
  BY <1>1 DEF SameButWaits, SameWaitersBut, SameWaiters
<1> QED
  BY <1>2 DEF u

LEMMA SetWaitingOthers ==
  ASSUME NEW m \in Machine, NEW p \in Pid, NEW t \in Pid
  PROVE  SameWaitersBut(m, SetWaiting(m, p, t), t)
<1> DEFINE u == SetWaiter(m, p, t)
           i == FreeWaiting(m, p)
           e == [pid |-> t, result |-> -1]
           n == SetWaiting(m, p, t)
<1>1. SameWaitersBut(m, u, t) /\ u \in Machine
  BY SetWaiterOthers, SetWaiterEffect DEF SameButWaits
<1>2. CASE ~(CanRegister(m, t) /\ i # 0)
  BY <1>1, <1>2 DEF SetWaiting
<1>3. CASE CanRegister(m, t) /\ i # 0
  <2>1. i \in 1 .. MaxWaiting
    BY <1>3, GetWaitingSlot DEF FreeWaiting
  <2>2. n = [u EXCEPT !.pcb[p].waiting[i] = e]
    BY <1>3 DEF SetWaiting
  <2>3. e \in [pid : 0 .. MaxProcesses, result : Int]
    OBVIOUS
  <2>3a. u \in Machine
    BY <1>1
  <2> HIDE DEF n, u, i, e
  <2>4. /\ SameButWaits(u, n, p)
        /\ n.pcb[p].waiting = [u.pcb[p].waiting EXCEPT ![i] = e]
        /\ n.pcb[p].waiters = u.pcb[p].waiters
    BY <2>1, <2>2, <2>3, <2>3a, WithWaiting
  <2>5. \A q \in Pid : n.pcb[q].waiters = u.pcb[q].waiters
    BY <2>4 DEF SameButWaits
  <2>6. SameWaitersBut(m, n, t)
    BY <1>1, <2>5 DEF SameWaitersBut, SameWaiters
  <2> QED
    BY <2>6 DEF n
<1> QED
  BY <1>2, <1>3

LEMMA LooksUp ==
  ASSUME NEW m, Sound(m), NEW p \in Pid, NEW t \in Pid, ~NoEntry(m, p, t)
  PROVE  Looked(m, SysWait(m, p, t), p, t, WaitResult(m, p, t))
<1> DEFINE n == SysWait(m, p, t)
           r == WaitResult(m, p, t)
           a == m.pcb[p].waiting
           b == n.pcb[p].waiting
<1>0. m \in Machine /\ NoWait \in [pid : 0 .. MaxProcesses, result : Int]
  BY SoundParts DEF NoWait
<1>1. PICK i \in 1 .. MaxWaiting : a[i].pid = t
  BY DEF NoEntry
<1>2. GetWaiting(m, p, t) = i /\ i # 0 /\ WaitEntry(m, p, t) = m /\ r = a[i].result
  BY <1>1, EntrySlot
<1>3. n = IF r = -1 THEN m ELSE [m EXCEPT !.pcb[p].waiting[i] = NoWait]
  BY <1>2 DEF SysWait
<1> HIDE DEF n, r, a
<1>4. CASE r = -1
  <2>1. n = m
    BY <1>3, <1>4
  <2>2. Looked(m, n, p, t, r)
    BY <1>1, <1>2, <1>4, <2>1 DEF Looked, SameWaiters, a
  <2> QED
    BY <2>2 DEF n, r
<1>5. CASE r # -1
  <2>1. n = [m EXCEPT !.pcb[p].waiting[i] = NoWait]
    BY <1>3, <1>5
  <2>2. /\ SameButWaits(m, n, p) /\ b = [a EXCEPT ![i] = NoWait]
        /\ n.pcb[p].waiters = m.pcb[p].waiters
    BY <1>0, <2>1, WithWaiting DEF a
  <2>3. \A q \in Pid : SameWaiters(m, n, q)
    BY <2>2 DEF SameButWaits, SameWaiters
  <2>4. a \in [1 .. MaxWaiting -> [pid : 0 .. MaxProcesses, result : Int]]
    BY <1>0, TableRow DEF WaitingTable, a
  <2> HIDE DEF b
  <2>5. b[i] = NoWait /\ \A j \in 1 .. MaxWaiting : j # i => b[j] = a[j]
    BY <2>2, <2>4
  <2>6. EntryBecomes(m, n, p, i, NoWait)
    BY <2>5 DEF EntryBecomes, a, b
  <2>7. Looked(m, n, p, t, r)
    BY <1>1, <1>2, <1>5, <2>3, <2>6 DEF Looked, a
  <2> QED
    BY <2>7 DEF n, r
<1> QED
  BY <1>4, <1>5

LEMMA Registers ==
  ASSUME NEW m, Sound(m), NEW p \in Pid, NEW t \in Pid, NoEntry(m, p, t),
         CanRegister(m, t), FreeWaiting(m, p) # 0
  PROVE  Registered(m, SysWait(m, p, t), p, t, WaitResult(m, p, t))
<1> DEFINE u == SetWaiting(m, p, t)
           n == SysWait(m, p, t)
           r == WaitResult(m, p, t)
           e == [pid |-> t, result |-> -1]
           a == m.pcb[p].waiting
           b == u.pcb[p].waiting
<1>0. m \in Machine
  BY SoundParts
<1>1. WaitEntry(m, p, t) = u
  BY <1>0, GetWaitingSlot DEF NoEntry, WaitEntry
<1>2. SameForWait(m, u, p) /\ Entered(m, u, p, t) /\ SameWaitersBut(m, u, t)
  BY <1>0, SetWaitingEffect, SetWaitingOthers
<1> HIDE DEF u
<1>3. PICK i \in 1 .. MaxWaiting : a[i].pid = 0 /\ b = [a EXCEPT ![i] = e]
  BY <1>2 DEF Entered
<1>4. a \in [1 .. MaxWaiting -> [pid : 0 .. MaxProcesses, result : Int]]
  BY <1>0, TableRow DEF WaitingTable
<1> HIDE DEF a, b, e
<1>5. b[i] = e /\ \A j \in 1 .. MaxWaiting : j # i => b[j] = a[j]
  BY <1>3, <1>4
<1>6. e.pid = t /\ e.result = -1
  BY DEF e
<1>7. GetWaiting(u, p, t) = i
  <2> DEFINE g == GetWaiting(u, p, t)
  <2>1. u \in Machine
    BY <1>2 DEF SameForWait
  <2>2. \A j \in 1 .. MaxWaiting : j # i => b[j].pid # t
    BY <1>5 DEF NoEntry, a
  <2>3. g # 0
    BY <1>5, <1>6, <2>1, GetWaitingSlot DEF b
  <2>4. g \in 1 .. MaxWaiting /\ b[g].pid = t
    BY <2>1, <2>3, GetWaitingSlot DEF b
  <2> HIDE DEF g
  <2> QED
    BY <2>2, <2>4 DEF g
<1>8. n = u /\ r = -1
  <2>1. i # 0
    OBVIOUS
  <2>2. u.pcb[p].waiting[i].result = -1
    BY <1>5, <1>6 DEF b
  <2> QED
    BY <1>1, <1>7, <2>1, <2>2 DEF SysWait, WaitResult
<1> HIDE DEF n, r
<1>9. EntryBecomes(m, n, p, i, [pid |-> t, result |-> -1])
  BY <1>5, <1>8 DEF EntryBecomes, a, b, e
<1>10. Registered(m, n, p, t, r)
  BY <1>2, <1>3, <1>8, <1>9 DEF Registered, Entered, a
<1> QED
  BY <1>10 DEF n, r

LEMMA IsTurnedDown ==
  ASSUME NEW m, Sound(m), NEW p \in Pid, NEW t \in Pid, NoEntry(m, p, t),
         ~(CanRegister(m, t) /\ FreeWaiting(m, p) # 0)
  PROVE  TurnedDown(m, SysWait(m, p, t), p, t, WaitResult(m, p, t))
<1> DEFINE u == SetWaiter(m, p, t)
           n == SysWait(m, p, t)
           r == WaitResult(m, p, t)
<1>0. m \in Machine
  BY SoundParts
<1>1. WaitEntry(m, p, t) = u
  <2>1. SetWaiting(m, p, t) = u
    BY DEF SetWaiting
  <2>2. GetWaiting(m, p, t) = 0
    BY <1>0, GetWaitingSlot DEF NoEntry
  <2> QED
    BY <2>1, <2>2 DEF WaitEntry
<1>2. /\ u \in Machine /\ SameWaitersBut(m, u, t)
      /\ u.pcb[p].waiting = m.pcb[p].waiting
  BY <1>0, SetWaiterEffect, SetWaiterOthers DEF SameButWaits
<1>3. ~CanRegister(m, t) => u = m
  BY DEF SetWaiter
<1> HIDE DEF u
<1>4. GetWaiting(u, p, t) = 0
  BY <1>2, GetWaitingSlot DEF NoEntry
<1>5. n = u /\ r = -2
  BY <1>1, <1>4 DEF SysWait, WaitResult
<1> HIDE DEF n, r
<1>6. ~Active(m, t) => SameWaiters(m, n, t)
  BY <1>3, <1>5 DEF CanRegister, SameWaiters
<1>7. ASSUME Active(m, t), Unheard(m, t), MaxWaiters > 0
      PROVE  NoEntry(m, p, 0)
  <2>1. 1 \in 1 .. MaxWaiters
    BY <1>7
  <2>2. m.pcb[t].waiters[1] = 0
    BY <1>7, <2>1 DEF Unheard
  <2>3. FreeWaiter(m, t) # 0
    BY <1>0, <2>1, <2>2, RoomForWaiter
  <2>4. GetWaiting(m, p, 0) = 0
    BY <1>7, <2>3 DEF CanRegister, FreeWaiting
  <2> QED
    BY <1>0, <2>4, GetWaitingSlot DEF NoEntry
<1>8. TurnedDown(m, n, p, t, r)
  BY <1>2, <1>5, <1>6, <1>7 DEF TurnedDown
<1> QED
  BY <1>8 DEF n, r

(* p's wait for t comes out as r.                                          *)
Outcome(m, n, p, t, r) ==
  /\ \A q \in Pid \ {p} : n.pcb[q].waiting = m.pcb[q].waiting
  /\ \/ Looked(m, n, p, t, r) \/ Registered(m, n, p, t, r)
     \/ TurnedDown(m, n, p, t, r)

SamePlaces(m, n) == \A q \in Pid : PcAt(n, q) = PcAt(m, q) /\ R0At(n, q) = R0At(m, q)

LEMMA OutcomeOfTables ==
  ASSUME NEW m, NEW n, NEW u, NEW v, NEW p, NEW t, NEW r,
         u.pcb = m.pcb, n.pcb = v.pcb, Outcome(u, v, p, t, r)
  PROVE  Outcome(m, n, p, t, r)
<1>1. CASE Looked(u, v, p, t, r)
  BY <1>1 DEF Outcome, Looked, EntryBecomes, SameWaiters
<1>2. CASE Registered(u, v, p, t, r)
  BY <1>2 DEF Outcome, Registered, EntryBecomes, SameWaiters, SameWaitersBut, NoEntry, Active
<1>3. CASE TurnedDown(u, v, p, t, r)
  BY <1>3 DEF Outcome, TurnedDown, SameWaiters, SameWaitersBut, NoEntry, Unheard, Active
<1> QED
  BY <1>1, <1>2, <1>3 DEF Outcome

LEMMA WaitKeepsPlaces ==
  ASSUME NEW m, Sound(m), NEW p \in Pid, NEW t \in Pid
  PROVE  LET v == SysWait(m, p, t)
             r == WaitResult(m, p, t)
         IN  /\ Sound(v) /\ v.current = m.current /\ v.frame = m.frame
             /\ SamePlaces(m, v) /\ r \in Int /\ Outcome(m, v, p, t, r)
<1> DEFINE v == SysWait(m, p, t)
           r == WaitResult(m, p, t)
<1>1. SameForWait(m, v, p) /\ Books(v) /\ r \in Int
  BY SysWaitEffect DEF Sound
<1>2. \/ Looked(m, v, p, t, r) \/ Registered(m, v, p, t, r)
      \/ TurnedDown(m, v, p, t, r)
  BY LooksUp, Registers, IsTurnedDown
<1> HIDE DEF v, r
<1>3. Typed(v) /\ InUse(v) /\ v.current = m.current /\ v.frame = m.frame
  BY <1>1, SameForWaitKeeps DEF Sound
<1>4. Sound(v)
  BY <1>1, <1>3 DEF Sound
<1>5. ASSUME NEW q \in Pid
      PROVE  PcAt(v, q) = PcAt(m, q) /\ R0At(v, q) = R0At(m, q)
  <2>1. v.pcb[q].ctx = m.pcb[q].ctx
    BY <1>1 DEF SameForWait, SameOthers
  <2> QED
    BY <1>3, <2>1, PlaceOf
<1>6. \A q \in Pid \ {p} : v.pcb[q].waiting = m.pcb[q].waiting
  BY <1>1 DEF SameForWait
<1>7. Outcome(m, v, p, t, r) /\ SamePlaces(m, v)
  BY <1>2, <1>5, <1>6 DEF Outcome, SamePlaces
<1> QED
  BY <1>1, <1>3, <1>4, <1>7 DEF v, r

-----------------------------------------------------------------------------
(* The calls as the console makes them: at the label l                     *)

LEMMA ForkAt ==
  ASSUME NEW m, Sound(m), m.frame.pc # Null, NEW l \in Code
  PROVE  LET n == SysFork(Onward(m, l))
         IN  /\ Sound(n)
             /\ \/ ForkFailed(m, n, m.current, l) /\ n.current = m.current
                \/ \E k \in Pid : /\ HasChild(m, n, m.current, k, l)
                                  /\ FreshTables(m, n, k) /\ n.current = k
<1> DEFINE u == Onward(m, l)
           n == SysFork(u)
           c == m.current
<1>1. /\ Moved(m, u, c, l, m.frame.r0) /\ u.pcb = m.pcb /\ u.current = m.current
      /\ u.frame.pc = l
  BY MovedOnward
<1>2. Sound(u) /\ u.frame.pc # Null
  BY <1>1 DEF Moved
<1> HIDE DEF u
<1>3. \/ ForkFailed(u, n, c, l) /\ n.current = c
      \/ \E k \in Pid : HasChild(u, n, c, k, l) /\ FreshTables(u, n, k) /\ n.current = k
  BY <1>1, <1>2, ForkPlaces
<1> HIDE DEF n
<1>4. OthersStay(m, u, c)
  BY <1>1 DEF Moved, Goes
<1>5. CASE ForkFailed(u, n, c, l) /\ n.current = c
  <2>1. Moved(u, n, u.current, l, -1)
    BY <1>1, <1>5 DEF ForkFailed
  <2>2. Moved(m, n, c, l, -1)
    BY <1>1, <2>1, MovedAfter
  <2>3. \A q \in Pid : PcAt(m, q) # Null
    BY <1>4, <1>5, SoundParts DEF ForkFailed, OthersStay
  <2>4. Sound(n) /\ ForkFailed(m, n, c, l)
    BY <2>2, <2>3 DEF ForkFailed, Moved
  <2> QED
    BY <1>5, <2>4 DEF n, u
<1>6. ASSUME NEW k \in Pid, HasChild(u, n, c, k, l), FreshTables(u, n, k)
      PROVE  Sound(n) /\ HasChild(m, n, c, k, l) /\ FreshTables(m, n, k)
  <2>1. FreshTables(m, n, k)
    BY <1>1, <1>6 DEF FreshTables, SameWaiters
  <2>2. PcAt(m, k) = Null /\ k # c
    BY <1>4, <1>6 DEF HasChild, OthersStay
  <2>3. ASSUME NEW q \in Pid \ {c, k}
        PROVE  /\ PcAt(n, q) = PcAt(m, q)
               /\ PcAt(m, q) # Null => R0At(n, q) = R0At(m, q)
    BY <1>4, <1>6 DEF HasChild, OthersStay
  <2> HIDE DEF c
  <2>4. HasChild(m, n, c, k, l)
    BY <1>6, <2>2, <2>3 DEF HasChild, c
  <2> QED
    BY <1>6, <2>1, <2>4 DEF HasChild
<1> QED
  BY <1>3, <1>5, <1>6 DEF n, u

LEMMA WaitResultOfTable ==
  ASSUME NEW m, Sound(m), NEW u, Sound(u), u.pcb = m.pcb, NEW p \in Pid, NEW t \in Pid
  PROVE  WaitResult(u, p, t) = WaitResult(m, p, t)
<1>1. CASE ~NoEntry(m, p, t)
  <2>1. PICK i \in 1 .. MaxWaiting : m.pcb[p].waiting[i].pid = t
    BY <1>1 DEF NoEntry
  <2>2. u.pcb[p].waiting[i].pid = t
    BY <2>1
  <2>3. WaitResult(m, p, t) = m.pcb[p].waiting[i].result
    BY <2>1, EntrySlot
  <2>4. WaitResult(u, p, t) = u.pcb[p].waiting[i].result
    BY <2>2, EntrySlot
  <2> QED
    BY <2>3, <2>4
<1>2. CASE NoEntry(m, p, t)
  <2>1. NoEntry(u, p, t)
    BY <1>2 DEF NoEntry
  <2>2. /\ CanRegister(u, t) <=> CanRegister(m, t)
        /\ FreeWaiting(u, p) = FreeWaiting(m, p)
    BY DEF CanRegister, Active, FreeWaiter, FreeWaiting, GetWaiting
  <2>3. CASE CanRegister(m, t) /\ FreeWaiting(m, p) # 0
    <3>1. WaitResult(m, p, t) = -1
      BY <1>2, <2>3, Registers DEF Registered
    <3>2. WaitResult(u, p, t) = -1
      BY <2>1, <2>2, <2>3, Registers DEF Registered
    <3> QED
      BY <3>1, <3>2
  <2>4. CASE ~(CanRegister(m, t) /\ FreeWaiting(m, p) # 0)
    <3>1. WaitResult(m, p, t) = -2
      BY <1>2, <2>4, IsTurnedDown DEF TurnedDown
    <3>2. WaitResult(u, p, t) = -2
      BY <2>1, <2>2, <2>4, IsTurnedDown DEF TurnedDown
    <3> QED
      BY <3>1, <3>2
  <2> QED
    BY <2>3, <2>4
<1> QED
  BY <1>1, <1>2

(* The caller asks for t's answer and gets r.                              *)
Asks(m, n, p, t, l, r) ==
  Sound(n) /\ m.current = p /\ Goes(m, n, l, r) /\ Outcome(m, n, p, t, r)

LEMMA AskAt ==
  ASSUME NEW m, Sound(m), m.frame.pc # Null, NEW l \in Code, NEW t \in Pid,
         NEW p, p = m.current, NEW v, v = SysWait(Onward(m, l), p, t),
         NEW r, r = WaitResult(m, p, t)
  PROVE  Asks(m, Returned(v, r), p, t, l, r)
<1> DEFINE u == Onward(m, l)
           n == Returned(v, r)
<1>1. /\ Moved(m, u, p, l, m.frame.r0) /\ u.pcb = m.pcb /\ u.current = p
      /\ u.frame.pc = l
  BY MovedOnward
<1>2. p \in Pid /\ Sound(u)
  BY <1>1, SoundParts DEF Moved
<1>3. WaitResult(u, p, t) = r
  BY <1>1, <1>2, WaitResultOfTable
<1>3a. v = SysWait(u, p, t)
  OBVIOUS
<1> HIDE DEF u
<1>4. /\ Sound(v) /\ v.current = u.current /\ v.frame = u.frame
      /\ SamePlaces(u, v) /\ r \in Int /\ Outcome(u, v, p, t, r)
  <2> DEFINE y == SysWait(u, p, t)
             z == WaitResult(u, p, t)
  <2>1. /\ Sound(y) /\ y.current = u.current /\ y.frame = u.frame
        /\ SamePlaces(u, y) /\ z \in Int /\ Outcome(u, y, p, t, z)
    BY <1>2, WaitKeepsPlaces
  <2> QED
    BY <1>3, <1>3a, <2>1
<1>5. Sound(n) /\ Goes(v, n, l, r) /\ n.pcb = v.pcb
  BY <1>1, <1>4, ReturnEffect
<1> HIDE DEF n
<1>6. Goes(m, n, l, r)
  BY <1>1, <1>4, <1>5 DEF Goes, OthersStay, SamePlaces, Moved
<1>7. Outcome(m, n, p, t, r)
  <2>1. u.pcb = m.pcb /\ n.pcb = v.pcb /\ Outcome(u, v, p, t, r)
    BY <1>1, <1>4, <1>5
  <2> QED
    BY <2>1, OutcomeOfTables, Zenon
<1> QED
  BY <1>5, <1>6, <1>7 DEF Asks, n

(* Process p is over, and with it its part of the tables.                  *)
Exited(m, n, p, x) ==
  /\ Sound(n) /\ m.current = p
  /\ Ended(m, n, p, x) /\ PcAt(n, p) = Null /\ OthersStay(m, n, p)

LEMMA ExitHere ==
  ASSUME NEW m, Sound(m), m.frame.pc # Null, NEW x \in Int, x # -1
  PROVE  Exited(m, SysExit(m, x), m.current, x)
BY ExitEffect DEF Exited

LEMMA EndedOfTables ==
  ASSUME NEW m, NEW u, NEW n, NEW c, NEW x, u.pcb = m.pcb, Ended(u, n, c, x)
  PROVE  Ended(m, n, c, x)
<1>1. \A q : Active(u, q) <=> Active(m, q)
  BY DEF Active
<1>2. Waiters(u, c) = Waiters(m, c)
  BY DEF Waiters
<1>3. \A q : GetWaiting(u, q, c) = GetWaiting(m, q, c)
  BY DEF GetWaiting
<1> QED
  BY <1>1, <1>2, <1>3 DEF Ended

(* A program executed at l, or the end of the process when there is none.  *)
LEMMA ExecAt ==
  ASSUME NEW m, Sound(m), m.frame.pc # Null, NEW l \in Code,
         NEW x \in Code \cup {Null}, NEW interactive \in BOOLEAN
  PROVE  LET n == SysExec(Onward(m, l), x, interactive, 0)
         IN  IF x = Null THEN Exited(m, n, m.current, EXIT_FAILURE)
                         ELSE Moved(m, n, m.current, x, 0)
<1> DEFINE u == Onward(m, l)
           n == SysExec(u, x, interactive, 0)
           c == m.current
<1>1. /\ Moved(m, u, c, l, m.frame.r0) /\ u.pcb = m.pcb /\ u.current = c
      /\ u.frame.pc = l
  BY MovedOnward
<1>2. Sound(u) /\ u.frame.pc # Null
  BY <1>1 DEF Moved
<1> HIDE DEF u
<1>3. CASE x = Null
  <2>1. n = SysExit(u, EXIT_FAILURE)
    BY <1>3 DEF SysExec
  <2>2. EXIT_FAILURE \in Int /\ EXIT_FAILURE # -1
    BY DEF EXIT_FAILURE
  <2> HIDE DEF n
  <2>3. Exited(u, n, c, EXIT_FAILURE)
    BY <1>1, <1>2, <2>1, <2>2, ExitHere
  <2>4. Ended(m, n, c, EXIT_FAILURE)
    BY <1>1, <2>3, EndedOfTables DEF Exited
  <2>5. OthersStay(m, n, c)
    BY <1>1, <2>3 DEF Exited, OthersStay, Moved, Goes
  <2>6. Exited(m, n, c, EXIT_FAILURE)
    BY <2>3, <2>4, <2>5 DEF Exited
  <2> QED
    BY <1>3, <2>6 DEF n, u
<1>4. CASE x # Null
  <2>1. Moved(u, n, u.current, x, 0)
    BY <1>2, <1>4, MovedByExec
  <2> HIDE DEF n
  <2>2. Moved(m, n, c, x, 0)
    BY <1>1, <2>1, MovedAfter
  <2> QED
    BY <1>4, <2>2 DEF n, u
<1> QED
  BY <1>3, <1>4

-----------------------------------------------------------------------------
(* Where the console and its children can be                               *)

ParentAt(l, r) ==
  l \in Labels \cup {Null} /\ (l \in {"forked", "fork_waited"} => r # 0)

ChildAt(l, r) ==
  /\ l \in {Null, "forked", "fork_waited"} \cup Programs
  /\ l \in {"forked", "fork_waited"} => r = 0

Places(m) ==
  /\ ParentAt(PcAt(m, 1), R0At(m, 1))
  /\ \A p \in Pid \ {1} : ChildAt(PcAt(m, p), R0At(m, p))

LEMMA LabelFacts ==
  /\ Labels \subseteq Code /\ Programs \subseteq Code /\ Null \notin Code
  /\ Programs \cap Labels = {} /\ Console = "prompt"
  /\ 1 \in Pid
BY ConsoleAssumption

LEMMA PlacesOfMove ==
  ASSUME NEW m, Places(m), NEW p \in Pid, NEW l, NEW r, NEW n, Moved(m, n, p, l, r),
         p = 1 => ParentAt(l, r), p # 1 => ChildAt(l, r)
  PROVE  Places(n)
<1>1. PcAt(n, p) = l /\ R0At(n, p) = r /\ OthersStay(m, n, p)
  BY DEF Moved, Goes
<1>2. ASSUME NEW q \in Pid \ {p}
      PROVE  /\ q = 1 => ParentAt(PcAt(n, q), R0At(n, q))
             /\ q # 1 => ChildAt(PcAt(n, q), R0At(n, q))
  <2>1. PcAt(n, q) = PcAt(m, q) /\ (PcAt(m, q) # Null => R0At(n, q) = R0At(m, q))
    BY <1>1 DEF OthersStay
  <2>2. Null \notin {"forked", "fork_waited"}
    BY LabelFacts DEF Labels
  <2> QED
    BY <2>1, <2>2 DEF Places, ParentAt, ChildAt
<1> QED
  BY <1>1, <1>2, LabelFacts DEF Places

LEMMA PlacesOfChild ==
  ASSUME NEW m, Places(m), NEW k \in Pid, NEW l \in {"forked", "fork_waited"},
         NEW n, HasChild(m, n, 1, k, l)
  PROVE  Places(n)
<1>1. ParentAt(PcAt(n, 1), R0At(n, 1))
  BY DEF HasChild, ParentAt, Labels
<1>2. ASSUME NEW q \in Pid \ {1}
      PROVE  ChildAt(PcAt(n, q), R0At(n, q))
  <2>1. CASE q = k
    BY <2>1 DEF HasChild, ChildAt
  <2>2. CASE q # k
    <3>1. PcAt(n, q) = PcAt(m, q) /\ (PcAt(m, q) # Null => R0At(n, q) = R0At(m, q))
      BY <2>2 DEF HasChild
    <3>2. Null \notin {"forked", "fork_waited"}
      BY LabelFacts DEF Labels
    <3> QED
      BY <3>1, <3>2 DEF Places, ChildAt
  <2> QED
    BY <2>1, <2>2
<1> QED
  BY <1>1, <1>2 DEF Places

LEMMA PlacesOfExit ==
  ASSUME NEW m, Places(m), NEW p \in Pid, NEW x, NEW n, Exited(m, n, p, x)
  PROVE  Places(n)
<1>1. PcAt(n, p) = Null /\ OthersStay(m, n, p) /\ Null \notin {"forked", "fork_waited"}
  BY LabelFacts DEF Exited, Labels
<1>2. ASSUME NEW q \in Pid \ {p}
      PROVE  /\ q = 1 => ParentAt(PcAt(n, q), R0At(n, q))
             /\ q # 1 => ChildAt(PcAt(n, q), R0At(n, q))
  <2>1. PcAt(n, q) = PcAt(m, q) /\ (PcAt(m, q) # Null => R0At(n, q) = R0At(m, q))
    BY <1>1 DEF OthersStay
  <2> QED
    BY <1>1, <2>1 DEF Places, ParentAt, ChildAt
<1>3. ParentAt(Null, R0At(n, p)) /\ ChildAt(Null, R0At(n, p))
  BY <1>1 DEF ParentAt, ChildAt
<1> QED
  BY <1>1, <1>2, <1>3, LabelFacts DEF Places

LEMMA PlacesOfSame ==
  ASSUME NEW m, Places(m), NEW n, SamePlaces(m, n)
  PROVE  Places(n)
BY LabelFacts DEF Places, SamePlaces

LEMMA PlacesOfAsk ==
  ASSUME NEW m, Places(m), NEW n, NEW t, NEW r, Asks(m, n, 1, t, "asked", r)
  PROVE  Places(n)
<1>1. PcAt(n, 1) = "asked" /\ OthersStay(m, n, 1)
  BY DEF Asks, Goes
<1>2. \A q \in Pid \ {1} : ChildAt(PcAt(n, q), R0At(n, q))
  BY <1>1, LabelFacts DEF Places, OthersStay, ChildAt, Labels
<1> QED
  BY <1>1, <1>2 DEF Places, ParentAt, Labels

-----------------------------------------------------------------------------
(* What each action is                                                     *)

InPlace == Sound(Now) /\ Places(Now)

LEMMA NowIs ==
  ASSUME NEW n, Sound(n), Becomes(n)
  PROVE  Now' = n
BY NowBecomes DEF Sound, Typed

LEMMA OntoIsOnward == \A l : Onto(l) = Onward(Now, l)
BY DEF Onto, Onward

LEMMA HereNow ==
  ASSUME InPlace
  PROVE  /\ current \in Pid /\ Now.current = current /\ Now.pcb = pcb
         /\ Now.frame.pc = frame.pc /\ Now.frame.r0 = frame.r0
         /\ PcAt(Now, current) = frame.pc /\ R0At(Now, current) = frame.r0
         /\ \A p \in Pid : Active(Now, p) <=> PcAt(Now, p) # Null
         /\ \A p : UserCtx(p).pc = PcAt(Now, p)
<1>1. Now.current = current /\ Now.frame = frame /\ Now.pcb = pcb
  BY DEF Now
<1>2. \A p : UserCtx(p).pc = PcAt(Now, p)
  BY <1>1 DEF UserCtx, PcAt, RegistersOf
<1> QED
  BY <1>1, <1>2, SoundParts, ActiveAt DEF InPlace

(* Only the console is where only the console can be.                      *)
LEMMA ConsolesTurn ==
  ASSUME InPlace, frame.pc \in Labels \ {"forked", "fork_waited"}
  PROVE  /\ current = 1 /\ frame.pc # Null
         /\ PcAt(Now, 1) = frame.pc /\ R0At(Now, 1) = frame.r0
<1>1. current \in Pid /\ PcAt(Now, current) = frame.pc /\ R0At(Now, current) = frame.r0
  BY HereNow
<1>2. frame.pc \notin {Null, "forked", "fork_waited"} \cup Programs
  BY LabelFacts
<1>3. current = 1
  BY <1>1, <1>2 DEF InPlace, Places, ChildAt
<1> QED
  BY <1>1, <1>2, <1>3

(* The result of a fork tells parent and child apart.                      *)
LEMMA ForkersTurn ==
  ASSUME InPlace, frame.pc \in {"forked", "fork_waited"}
  PROVE  /\ frame.pc # Null /\ PcAt(Now, current) = frame.pc
         /\ frame.r0 # 0 => current = 1 /\ R0At(Now, 1) = frame.r0
         /\ frame.r0 = 0 => current \in Pid \ {1}
<1>1. current \in Pid /\ PcAt(Now, current) = frame.pc /\ R0At(Now, current) = frame.r0
  BY HereNow
<1>2. frame.pc # Null
  BY LabelFacts DEF Labels
<1>3. current # 1 => frame.r0 = 0
  BY <1>1 DEF InPlace, Places, ChildAt
<1>4. current = 1 => frame.r0 # 0
  BY <1>1 DEF InPlace, Places, ParentAt
<1> QED
  BY <1>1, <1>2, <1>3, <1>4

LEMMA GoesOnTo ==
  ASSUME InPlace, frame.pc # Null, NEW l \in Labels, Becomes(Onto(l))
  PROVE  Moved(Now, Now', current, l, frame.r0)
<1> DEFINE n == Onward(Now, l)
<1>1. Moved(Now, n, current, l, frame.r0)
  BY HereNow, LabelFacts, MovedOnward DEF InPlace
<1>2. Becomes(n)
  BY OntoIsOnward
<1> HIDE DEF n
<1>3. Now' = n
  BY <1>1, <1>2, NowIs DEF Moved
<1> QED
  BY <1>1, <1>3

LEMMA YieldsAt ==
  ASSUME InPlace, frame.pc # Null, NEW l \in Labels, Becomes(SysYield(Onto(l)))
  PROVE  Moved(Now, Now', current, l, frame.r0)
<1> DEFINE u == Onward(Now, l)
           n == SysYield(u)
<1>1. /\ Moved(Now, u, current, l, frame.r0) /\ u.pcb = Now.pcb /\ u.current = Now.current
      /\ u.frame.pc = l /\ u.frame.r0 = frame.r0
  BY HereNow, LabelFacts, MovedOnward DEF InPlace
<1>2. Becomes(n)
  BY OntoIsOnward
<1> HIDE DEF u
<1>3. Moved(u, n, u.current, l, frame.r0)
  BY <1>1, LabelFacts, MovedByYield DEF Moved
<1> HIDE DEF n
<1>4. Moved(Now, n, current, l, frame.r0)
  BY <1>1, <1>3, HereNow, MovedAfter
<1>5. Now' = n
  BY <1>2, <1>4, NowIs DEF Moved
<1> QED
  BY <1>4, <1>5

LEMMA ReturnsAt ==
  ASSUME InPlace, frame.pc # Null, NEW l \in Labels, NEW r \in Int,
         Becomes(Returned(Onto(l), r))
  PROVE  Moved(Now, Now', current, l, r)
<1> DEFINE u == Onward(Now, l)
           n == Returned(u, r)
<1>1. /\ Moved(Now, u, current, l, frame.r0) /\ u.pcb = Now.pcb /\ u.current = Now.current
      /\ u.frame.pc = l
  BY HereNow, LabelFacts, MovedOnward DEF InPlace
<1>2. Becomes(n)
  BY OntoIsOnward
<1> HIDE DEF u
<1>3. Moved(u, n, u.current, l, r)
  BY <1>1, MovedByReturn DEF Moved
<1> HIDE DEF n
<1>4. Moved(Now, n, current, l, r)
  BY <1>1, <1>3, HereNow, MovedAfter
<1>5. Now' = n
  BY <1>2, <1>4, NowIs DEF Moved
<1> QED
  BY <1>4, <1>5

LEMMA TicksOn ==
  ASSUME InPlace, Tick
  PROVE  Moved(Now, Now', current, frame.pc, frame.r0)
<1> DEFINE n == Scheduler(Now)
<1>1. frame.pc # Null /\ Becomes(n)
  BY TickIsScheduler DEF Running
<1>2. Moved(Now, n, current, frame.pc, frame.r0)
  BY <1>1, HereNow, MovedByTick DEF InPlace
<1> HIDE DEF n
<1>3. Now' = n
  BY <1>1, <1>2, NowIs DEF Moved
<1> QED
  BY <1>2, <1>3

LEMMA StaysHere ==
  ASSUME InPlace, UNCHANGED cvars
  PROVE  Moved(Now, Now', current, frame.pc, frame.r0)
<1>1. Now' = Now
  BY StutterSteps DEF cvars
<1>2. Moved(Now, Now, current, frame.pc, frame.r0)
  BY HereNow, MovedNowhere DEF InPlace
<1> QED
  BY <1>1, <1>2

LEMMA ExitsHere ==
  ASSUME InPlace, frame.pc # Null, NEW x \in Int, x # -1, Becomes(SysExit(Now, x))
  PROVE  Exited(Now, Now', current, x)
<1> DEFINE n == SysExit(Now, x)
<1>1. Exited(Now, n, current, x)
  BY HereNow, ExitHere DEF InPlace
<1> HIDE DEF n
<1>2. Now' = n
  BY <1>1, NowIs DEF Exited, n
<1> QED
  BY <1>1, <1>2

LEMMA ExecsAt ==
  ASSUME InPlace, frame.pc # Null, NEW l \in Labels, NEW x \in Programs \cup {Null},
         NEW interactive \in BOOLEAN, Becomes(SysExec(Onto(l), x, interactive, 0))
  PROVE  IF x = Null THEN Exited(Now, Now', current, EXIT_FAILURE)
                     ELSE Moved(Now, Now', current, x, 0)
<1> DEFINE n == SysExec(Onward(Now, l), x, interactive, 0)
<1>1. IF x = Null THEN Exited(Now, n, current, EXIT_FAILURE)
                  ELSE Moved(Now, n, current, x, 0)
  BY HereNow, LabelFacts, ExecAt DEF InPlace
<1>2. Becomes(n)
  BY OntoIsOnward
<1> HIDE DEF n
<1>3. Now' = n
  BY <1>1, <1>2, NowIs DEF Exited, Moved
<1> QED
  BY <1>1, <1>3

LEMMA ForksAt ==
  ASSUME InPlace, frame.pc # Null, NEW l \in Labels, Becomes(SysFork(Onto(l)))
  PROVE  \/ ForkFailed(Now, Now', current, l)
         \/ \E k \in Pid : HasChild(Now, Now', current, k, l) /\ FreshTables(Now, Now', k)
<1> DEFINE n == SysFork(Onward(Now, l))
<1>1. /\ Sound(n)
      /\ \/ ForkFailed(Now, n, current, l)
         \/ \E k \in Pid : HasChild(Now, n, current, k, l) /\ FreshTables(Now, n, k)
  BY HereNow, LabelFacts, ForkAt DEF InPlace
<1>2. Becomes(n)
  BY OntoIsOnward
<1> HIDE DEF n
<1>3. Now' = n
  BY <1>1, <1>2, NowIs
<1> QED
  BY <1>1, <1>3

(* A fork, after which the parent waits for whoever runs then.             *)
LEMMA ForkWaitsAt ==
  ASSUME InPlace, frame.pc # Null, NEW l \in Labels, Becomes(SysForkWait(Onto(l)))
  PROVE  \E u, t, r :
           /\ \/ ForkFailed(Now, u, current, l) /\ t = current
              \/ t \in Pid /\ HasChild(Now, u, current, t, l) /\ FreshTables(Now, u, t)
           /\ Sound(Now') /\ SamePlaces(u, Now') /\ Outcome(u, Now', current, t, r)
           /\ r \in Int
<1> DEFINE u == SysFork(Onward(Now, l))
           t == u.current
           n == SysWait(u, current, t)
           r == WaitResult(u, current, t)
<1>1. /\ Sound(u)
      /\ \/ ForkFailed(Now, u, current, l) /\ t = current
         \/ \E k \in Pid : /\ HasChild(Now, u, current, k, l)
                           /\ FreshTables(Now, u, k) /\ t = k
  BY HereNow, LabelFacts, ForkAt DEF InPlace
<1>2. Becomes(n)
  <2>1. Onto(l).current = current
    BY DEF Onto, Now
  <2> QED
    BY <2>1, OntoIsOnward DEF SysForkWait
<1> HIDE DEF u
<1>3. current \in Pid /\ t \in Pid
  BY <1>1, HereNow
<1> HIDE DEF t
<1>4. Sound(n) /\ SamePlaces(u, n) /\ r \in Int /\ Outcome(u, n, current, t, r)
  BY <1>1, <1>3, WaitKeepsPlaces
<1> HIDE DEF n, r
<1>5. Now' = n
  BY <1>2, <1>4, NowIs
<1>6. \/ ForkFailed(Now, u, current, l) /\ t = current
      \/ t \in Pid /\ HasChild(Now, u, current, t, l) /\ FreshTables(Now, u, t)
  BY <1>1
<1> QED
  BY <1>4, <1>5, <1>6

LEMMA AsksAt ==
  ASSUME InPlace, frame.pc # Null, NEW l \in Labels, NEW t \in Pid,
         Becomes(Returned(SysWait(Onto(l), current, t), WaitResult(Now, current, t)))
  PROVE  \E r : Asks(Now, Now', current, t, l, r)
<1> DEFINE v == SysWait(Onward(Now, l), current, t)
           r == WaitResult(Now, current, t)
           n == Returned(v, r)
<1>1. Asks(Now, n, current, t, l, r)
  BY HereNow, LabelFacts, AskAt DEF InPlace
<1>2. Becomes(n)
  BY OntoIsOnward
<1> HIDE DEF v, r, n
<1>3. Now' = n
  BY <1>1, <1>2, NowIs DEF Asks
<1> QED
  BY <1>1, <1>3

-----------------------------------------------------------------------------
(* One console                                                             *)

LEMMA InPlaceOfMove ==
  ASSUME InPlace, NEW l, NEW r, Moved(Now, Now', current, l, r),
         \/ current = 1 /\ ParentAt(l, r)
         \/ current # 1 /\ ChildAt(l, r)
  PROVE  InPlace'
<1>1. Places(Now')
  BY HereNow, PlacesOfMove DEF InPlace
<1> QED
  BY <1>1 DEF InPlace, Moved

LEMMA InPlaceOfExit ==
  ASSUME InPlace, NEW x, Exited(Now, Now', current, x)
  PROVE  InPlace'
<1>1. Places(Now')
  BY HereNow, PlacesOfExit DEF InPlace
<1> QED
  BY <1>1 DEF InPlace, Exited

LEMMA InPlaceOfFork ==
  ASSUME InPlace, current = 1, NEW l \in {"forked", "fork_waited"}, NEW u,
         \/ ForkFailed(Now, u, current, l)
         \/ \E k \in Pid : HasChild(Now, u, current, k, l)
  PROVE  Places(u) /\ Sound(u)
<1>1. CASE ForkFailed(Now, u, current, l)
  <2>1. Moved(Now, u, 1, l, -1)
    BY <1>1 DEF ForkFailed
  <2>2. ParentAt(l, -1) /\ 1 \in Pid
    BY LabelFacts DEF ParentAt, Labels
  <2> QED
    BY <2>1, <2>2, PlacesOfMove DEF InPlace, Moved
<1>2. CASE \E k \in Pid : HasChild(Now, u, current, k, l)
  BY <1>2, PlacesOfChild DEF InPlace, HasChild
<1> QED
  BY <1>1, <1>2

LEMMA ConsolePlaces ==
  \A r : /\ ParentAt("prompt", r) /\ ParentAt("gets", r) /\ ParentAt("handle_cmd", r)
         /\ ParentAt("waitp", r) /\ ParentAt("asked", r)
         /\ \A l \in Programs : ChildAt(l, r)
BY LabelFacts DEF ParentAt, ChildAt, Labels

(* What a command can be a program of.                                     *)
LEMMA LoadedRange ==
  ASSUME NEW words
  PROVE  Loaded(words) \subseteq Programs \cup {Null}
BY DEF Loaded

LEMMA InPlaceStep ==
  ASSUME -1 \notin Results, InPlace, [ConsoleNext]_cvars
  PROVE  InPlace'
<1> USE DEF At
<1>0. {"prompt", "gets", "handle_cmd", "forked", "fork_waited", "waitp", "asked"} = Labels
  BY DEF Labels
<1>1. CASE Prompt
  BY <1>0, <1>1, ConsolesTurn, GoesOnTo, ConsolePlaces, InPlaceOfMove DEF Prompt
<1>2. CASE Gets
  <2>1. PICK l \in {"prompt", "handle_cmd"} : Becomes(Onto(l))
    BY <1>2 DEF Gets
  <2> QED
    BY <1>0, <1>2, <2>1, ConsolesTurn, GoesOnTo, ConsolePlaces, InPlaceOfMove DEF Gets
<1>3. CASE UnknownCommand
  BY <1>0, <1>3, ConsolesTurn, GoesOnTo, ConsolePlaces, InPlaceOfMove DEF UnknownCommand
<1>4. CASE Shutdown
  <2>1. Exited(Now, Now', current, 0)
    BY <1>0, <1>4, ConsolesTurn, ExitsHere DEF Shutdown
  <2> QED
    BY <2>1, InPlaceOfExit
<1>5. CASE ForkForeground
  <2>1. current = 1 /\ frame.pc # Null
    BY <1>0, <1>5, ConsolesTurn DEF ForkForeground
  <2>2. \/ ForkFailed(Now, Now', current, "forked")
        \/ \E k \in Pid : HasChild(Now, Now', current, k, "forked")
    BY <1>0, <1>5, <2>1, ForksAt DEF ForkForeground
  <2> QED
    BY <2>1, <2>2, InPlaceOfFork DEF InPlace
<1>6. CASE ForkBackground
  <2>1. current = 1 /\ frame.pc # Null
    BY <1>0, <1>6, ConsolesTurn DEF ForkBackground
  <2>2. PICK u, t, r :
           /\ \/ ForkFailed(Now, u, current, "fork_waited")
              \/ t \in Pid /\ HasChild(Now, u, current, t, "fork_waited")
           /\ Sound(Now') /\ SamePlaces(u, Now') /\ Outcome(u, Now', current, t, r)
    BY <1>0, <1>6, <2>1, ForkWaitsAt DEF ForkBackground
  <2>3. Places(u)
    BY <2>1, <2>2, InPlaceOfFork
  <2> QED
    BY <2>2, <2>3, PlacesOfSame DEF InPlace
<1>7. ASSUME NEW words, NEW l \in Labels, NEW i \in BOOLEAN,
             frame.pc \in {"forked", "fork_waited"}, frame.r0 = 0,
             \E addr \in Loaded(words) : Becomes(SysExec(Onto(l), addr, i, 0))
      PROVE  InPlace'
  <2>1. current # 1 /\ frame.pc # Null
    BY <1>7, ForkersTurn
  <2>2. PICK x \in Programs \cup {Null} : Becomes(SysExec(Onto(l), x, i, 0))
    BY <1>7, LoadedRange
  <2>3. \/ Exited(Now, Now', current, EXIT_FAILURE)
        \/ x \in Programs /\ Moved(Now, Now', current, x, 0)
    BY <2>1, <2>2, ExecsAt
  <2> QED
    BY <2>1, <2>3, ConsolePlaces, InPlaceOfExit, InPlaceOfMove
<1>8. CASE ExecForeground
  BY <1>0, <1>7, <1>8 DEF ExecForeground
<1>9. CASE ExecBackground
  BY <1>0, <1>7, <1>9 DEF ExecBackground
<1>10. CASE KeepPid
  BY <1>0, <1>10, ForkersTurn, GoesOnTo, ConsolePlaces, InPlaceOfMove DEF KeepPid
<1>11. CASE LeaveRunning
  BY <1>0, <1>11, ForkersTurn, GoesOnTo, ConsolePlaces, InPlaceOfMove DEF LeaveRunning
<1>12. CASE AskForResult
  <2>1. current = 1 /\ frame.pc # Null /\ pid \in Pid
    BY <1>0, <1>12, ConsolesTurn DEF AskForResult
  <2>2. PICK r : Asks(Now, Now', 1, pid, "asked", r)
    BY <1>0, <1>12, <2>1, AsksAt DEF AskForResult
  <2> QED
    BY <2>2, PlacesOfAsk DEF InPlace, Asks
<1>13. CASE AskForNobody
  <2>1. PICK r \in {-1, -2} : Becomes(Returned(Onto("asked"), r))
    BY <1>13 DEF AskForNobody
  <2>2. current = 1 /\ frame.pc # Null
    BY <1>0, <1>13, ConsolesTurn DEF AskForNobody
  <2>3. Moved(Now, Now', current, "asked", r)
    BY <1>0, <2>1, <2>2, ReturnsAt
  <2> QED
    BY <2>2, <2>3, ConsolePlaces, InPlaceOfMove
<1>14. CASE AskAgain
  BY <1>0, <1>14, ConsolesTurn, YieldsAt, ConsolePlaces, InPlaceOfMove DEF AskAgain
<1>15. CASE Answered
  BY <1>0, <1>15, ConsolesTurn, GoesOnTo, ConsolePlaces, InPlaceOfMove DEF Answered
<1>16. CASE Finish
  <2>1. frame.pc # Null
    BY <1>16, LabelFacts DEF Finish
  <2>2. PICK x \in Results : Becomes(SysExit(Now, x))
    BY <1>16 DEF Finish
  <2>3. x \in Int /\ x # -1
    BY KernelAssumption
  <2> QED
    BY <2>1, <2>2, <2>3, ExitsHere, InPlaceOfExit
<1>17. ASSUME Moved(Now, Now', current, frame.pc, frame.r0)
       PROVE  InPlace'
  <2>1. /\ current = 1 => ParentAt(frame.pc, frame.r0)
        /\ current # 1 => ChildAt(frame.pc, frame.r0)
    BY HereNow DEF InPlace, Places
  <2> QED
    BY <1>17, <2>1, InPlaceOfMove
<1>18. CASE Tick
  BY <1>17, <1>18, TicksOn
<1>19. CASE UNCHANGED cvars
  BY <1>17, <1>19, StaysHere
<1> QED
  BY <1>1, <1>2, <1>3, <1>4, <1>5, <1>6, <1>8, <1>9, <1>10, <1>11, <1>12, <1>13, <1>14,
     <1>15, <1>16, <1>18, <1>19 DEF ConsoleNext, Program

(* The console alone, at its prompt, and nobody waits.                     *)
AtFirst(m) ==
  /\ PcAt(m, 1) = "prompt"
  /\ \A p \in Pid \ {1} : PcAt(m, p) = Null
  /\ \A p \in Pid : Unheard(m, p) /\ \A i \in 1 .. MaxWaiting : m.pcb[p].waiting[i] = NoWait

LEMMA AloneAtFirst ==
  ASSUME Init
  PROVE  Sound(Now) /\ AtFirst(Now)
<1>1. Sound(Now)
  BY InitInOrder DEF InOrder, InUseNow, TypedNow, Sound
<1>2. /\ Now.current = 1 /\ Now.frame = [ResetCtx(1) EXCEPT !.pc = Console]
      /\ \A p \in Pid \ {1} : Now.pcb[p] = NewProcess(p, 0)
  BY DEF Init, Now
<1>3. Now.frame.pc = "prompt"
  BY <1>2, LabelFacts DEF ResetCtx
<1>4. \A p \in Pid \ {1} : Now.pcb[p].ctx.pc = Null
  <2>1. \A p : NewProcess(p, 0).ctx.pc = Null
    BY DEF NewProcess, ResetCtx
  <2> QED
    BY <1>2, <2>1
<1>5. ASSUME NEW p \in Pid
      PROVE  /\ Now.pcb[p].waiting = NewProcess(p, 0).waiting
             /\ Now.pcb[p].waiters = NewProcess(p, 0).waiters
  <2> DEFINE r == NewProcess(1, 0)
             k == [r.ctx EXCEPT !.pc = Console]
             first == [NewProcess(1, 0) EXCEPT !.ctx.pc = Console, !.type = Interactive]
  <2>1. r \in Pcb
    BY LabelFacts, NewProcessType
  <2>2. first = [r EXCEPT !.ctx = k, !.type = Interactive]
    BY <2>1 DEF Pcb
  <2>3. Now.pcb[1] = first
    BY LabelFacts DEF Init, Now
  <2> HIDE DEF r, k, first
  <2>4. first.waiting = r.waiting /\ first.waiters = r.waiters
    BY <2>1, <2>2 DEF Pcb
  <2>5. CASE p = 1
    BY <2>3, <2>4, <2>5 DEF r
  <2> QED
    BY <1>2, <2>5
<1>6. ASSUME NEW p \in Pid
      PROVE  Unheard(Now, p) /\ \A i \in 1 .. MaxWaiting : Now.pcb[p].waiting[i] = NoWait
  BY <1>5 DEF NewProcess, Unheard
<1>7. PcAt(Now, 1) = "prompt"
  BY <1>2, <1>3, PlaceOf, LabelFacts
<1>8. \A p \in Pid \ {1} : PcAt(Now, p) = Null
  BY <1>2, <1>4, PlaceOf
<1> QED
  BY <1>1, <1>6, <1>7, <1>8 DEF AtFirst

LEMMA InPlaceAtFirst == ConsoleInit => InPlace
<1>1. SUFFICES ASSUME Init PROVE InPlace
  BY DEF ConsoleInit
<1>2. Sound(Now) /\ AtFirst(Now)
  BY <1>1, AloneAtFirst
<1>3. ParentAt(PcAt(Now, 1), R0At(Now, 1))
  BY <1>2, ConsolePlaces DEF AtFirst
<1>4. \A r : ChildAt(Null, r)
  BY LabelFacts DEF ChildAt, Labels
<1>5. \A p \in Pid \ {1} : ChildAt(PcAt(Now, p), R0At(Now, p))
  BY <1>2, <1>4 DEF AtFirst
<1> QED
  BY <1>2, <1>3, <1>5 DEF InPlace, Places

(* As long as no program exits with -1, a child of the console only ever   *)
(* runs the part of its code that executes the program                     *)
(* (console.c:90-101, system_calls.c:115-136).                             *)
THEOREM OneConsoleOnly ==
  ASSUME -1 \notin Results
  PROVE  ConsoleSpec => []OneConsole
<1>1. ConsoleInit => InPlace
  BY InPlaceAtFirst
<1>2. InPlace => OneConsole
  <2>1. SUFFICES ASSUME InPlace, NEW p \in Children
                 PROVE  UserCtx(p).pc \in {"forked", "fork_waited"} \cup Programs
    BY DEF OneConsole
  <2>2. p \in Pid \ {1} /\ Active(Now, p)
    BY DEF Children, ActivePids
  <2>3. PcAt(Now, p) # Null /\ UserCtx(p).pc = PcAt(Now, p)
    BY <2>1, <2>2, HereNow
  <2>4. ChildAt(PcAt(Now, p), R0At(Now, p))
    BY <2>1, <2>2 DEF InPlace, Places
  <2> QED
    BY <2>3, <2>4 DEF ChildAt
<1>3. InPlace /\ [ConsoleNext]_cvars => InPlace'
  BY InPlaceStep
<1> QED
  BY <1>1, <1>2, <1>3, PTL DEF ConsoleSpec

-----------------------------------------------------------------------------
(* Who has been told, and who has asked                                    *)

(* The console has an entry without an answer for t.                       *)
Asked(m, t) == \E i \in 1 .. MaxWaiting : m.pcb[1].waiting[i] = [pid |-> t, result |-> -1]

(* A process that knows of a wait is one that the console waits for: no    *)
(* registration is left over from an earlier life or a refused wait.       *)
Heard(m) ==
  PcAt(m, 1) # Null =>
    \A t \in Pid : PcAt(m, t) # Null => Asked(m, t) \/ Unheard(m, t)

(* Nobody comes to life or ends.                                           *)
SameAlive(m, n) == \A q \in Pid : PcAt(n, q) = Null <=> PcAt(m, q) = Null

LEMMA HeardWhenSame ==
  ASSUME NEW m, NEW n, Heard(m), SameAlive(m, n), 1 \in Pid,
         \A q \in Pid : SameWaiters(m, n, q),
         \A t \in Pid : Asked(m, t) => Asked(n, t)
  PROVE  Heard(n)
BY DEF Heard, SameAlive, Unheard, SameWaiters

LEMMA HeardOfMove ==
  ASSUME NEW m, Sound(m), Heard(m), NEW n, NEW p \in Pid, NEW l, NEW r,
         Moved(m, n, p, l, r), PcAt(m, p) # Null, l # Null
  PROVE  Heard(n)
<1>1. SameAlive(m, n)
  BY DEF SameAlive, Moved, Goes, OthersStay
<1>2. \A t \in Pid : Asked(m, t) => Asked(n, t)
  BY LabelFacts DEF Asked, Moved, SameFamilies
<1>3. \A q \in Pid : SameWaiters(m, n, q)
  BY DEF Moved, SameFamilies, SameWaiters
<1> QED
  BY <1>1, <1>2, <1>3, LabelFacts, HeardWhenSame

LEMMA HeardOfChild ==
  ASSUME NEW m, Sound(m), Heard(m), PcAt(m, 1) # Null, NEW n, NEW k \in Pid, NEW l,
         HasChild(m, n, 1, k, l), FreshTables(m, n, k)
  PROVE  Heard(n)
<1>1. SUFFICES ASSUME NEW t \in Pid, PcAt(n, t) # Null
               PROVE  Asked(n, t) \/ Unheard(n, t)
  BY DEF Heard
<1>2. CASE t = k
  BY <1>2 DEF FreshTables, Unheard
<1>3. CASE t # k
  <2>1. PcAt(m, t) # Null
    BY <1>1, <1>3 DEF HasChild
  <2>2. Asked(m, t) \/ Unheard(m, t)
    BY <2>1 DEF Heard
  <2>3. Unheard(m, t) => Unheard(n, t)
    BY <1>3 DEF FreshTables, Unheard, SameWaiters
  <2>4. n.pcb[1].waiting = m.pcb[1].waiting
    BY LabelFacts DEF HasChild, FreshTables
  <2>5. Asked(m, t) => Asked(n, t)
    BY <2>4 DEF Asked
  <2> QED
    BY <2>2, <2>3, <2>5
<1> QED
  BY <1>2, <1>3

(* What the end of process p does to the entries of the console.           *)
Answers(m, n, p, x) ==
  \A i \in 1 .. MaxWaiting :
    \/ n.pcb[1].waiting[i] = m.pcb[1].waiting[i]
    \/ m.pcb[1].waiting[i].pid = p /\ n.pcb[1].waiting[i] = [pid |-> p, result |-> x]

LEMMA AnswersOfExit ==
  ASSUME NEW m, Sound(m), NEW n, NEW p \in Pid \ {1}, NEW x, Exited(m, n, p, x)
  PROVE  Answers(m, n, p, x)
<1>1. SUFFICES ASSUME NEW i \in 1 .. MaxWaiting,
                      n.pcb[1].waiting[i] # m.pcb[1].waiting[i]
               PROVE  /\ m.pcb[1].waiting[i].pid = p
                      /\ n.pcb[1].waiting[i] = [pid |-> p, result |-> x]
  BY DEF Answers
<1>2. i = GetWaiting(m, 1, p) /\ n.pcb[1].waiting[i] = [pid |-> p, result |-> x]
  BY <1>1, LabelFacts DEF Exited, Ended
<1>3. i # 0
  OBVIOUS
<1>4. m.pcb[1].waiting[i].pid = p
  BY <1>2, <1>3, LabelFacts, SoundParts, GetWaitingSlot
<1> QED
  BY <1>2, <1>4

LEMMA HeardOfExit ==
  ASSUME NEW m, Sound(m), Heard(m), NEW n, NEW p \in Pid, NEW x, Exited(m, n, p, x)
  PROVE  Heard(n)
<1>1. SUFFICES ASSUME PcAt(n, 1) # Null, NEW t \in Pid, PcAt(n, t) # Null
               PROVE  Asked(n, t) \/ Unheard(n, t)
  BY DEF Heard
<1>2. p # 1 /\ t # p
  BY <1>1 DEF Exited
<1>3. PcAt(m, 1) # Null /\ PcAt(m, t) # Null
  BY <1>1, <1>2, LabelFacts DEF Exited, OthersStay
<1>4. Asked(m, t) \/ Unheard(m, t)
  BY <1>3 DEF Heard
<1>5. Unheard(m, t) => Unheard(n, t)
  BY <1>2 DEF Exited, Ended, Unheard
<1>6. ASSUME NEW i \in 1 .. MaxWaiting, m.pcb[1].waiting[i] = [pid |-> t, result |-> -1]
      PROVE  n.pcb[1].waiting[i] = [pid |-> t, result |-> -1]
  <2>1. m.pcb[1].waiting[i].pid # p
    BY <1>2, <1>6
  <2>2. Answers(m, n, p, x)
    BY <1>2, AnswersOfExit
  <2> QED
    BY <1>6, <2>1, <2>2 DEF Answers
<1> QED
  BY <1>4, <1>5, <1>6 DEF Asked

(* The console's table is not full for t.                                  *)
RoomFor(m, t) == NoEntry(m, 1, t) => ~NoEntry(m, 1, 0)

(* Then only a wait for somebody who is not there is refused.              *)
LEMMA OnlyTheDead ==
  ASSUME NEW m, Sound(m), Heard(m), PcAt(m, 1) # Null, MaxWaiters > 0,
         NEW t \in Pid, RoomFor(m, t), NEW n, NEW r, TurnedDown(m, n, 1, t, r)
  PROVE  PcAt(m, t) = Null
<1>1. SUFFICES ASSUME PcAt(m, t) # Null PROVE FALSE
  OBVIOUS
<1>2. NoEntry(m, 1, t) /\ (Active(m, t) /\ Unheard(m, t) => NoEntry(m, 1, 0))
  BY DEF TurnedDown
<1>3. Active(m, t)
  BY <1>1, ActiveAt
<1>4. ~Unheard(m, t)
  BY <1>2, <1>3 DEF RoomFor
<1>5. Asked(m, t)
  BY <1>1, <1>4 DEF Heard
<1>6. PICK i \in 1 .. MaxWaiting : m.pcb[1].waiting[i] = [pid |-> t, result |-> -1]
  BY <1>5 DEF Asked
<1>7. m.pcb[1].waiting[i].pid = t
  BY <1>6
<1> QED
  BY <1>2, <1>7 DEF NoEntry

(* An entry for t without an answer stays, unless it is given up.          *)
LEMMA AskedStays ==
  ASSUME NEW m, Sound(m), NEW t \in Pid, NEW n, NEW r, Looked(m, n, 1, t, r),
         NEW q \in Pid, Asked(m, q)
  PROVE  Asked(n, q)
<1>1. PICK i \in 1 .. MaxWaiting : 
        /\ m.pcb[1].waiting[i].pid = t /\ m.pcb[1].waiting[i].result = r
        /\ \/ r = -1 /\ n.pcb[1].waiting = m.pcb[1].waiting
           \/ r # -1 /\ EntryBecomes(m, n, 1, i, NoWait)
  BY DEF Looked
<1>2. PICK j \in 1 .. MaxWaiting : m.pcb[1].waiting[j] = [pid |-> q, result |-> -1]
  BY DEF Asked
<1>3. m.pcb[1].waiting[j].pid = q /\ m.pcb[1].waiting[j].result = -1
  BY <1>2
<1>4. n.pcb[1].waiting[j] = m.pcb[1].waiting[j]
  BY <1>1, <1>3 DEF EntryBecomes
<1> QED
  BY <1>2, <1>4 DEF Asked

LEMMA HeardOfOutcome ==
  ASSUME NEW m, Sound(m), Heard(m), PcAt(m, 1) # Null, MaxWaiters > 0,
         NEW n, SameAlive(m, n), NEW t \in Pid, RoomFor(m, t), NEW r, Outcome(m, n, 1, t, r)
  PROVE  Heard(n)
<1>1. CASE Looked(m, n, 1, t, r)
  <2>1. \A q \in Pid : Asked(m, q) => Asked(n, q)
    BY <1>1, AskedStays
  <2> QED
    BY <1>1, <2>1, LabelFacts, HeardWhenSame DEF Looked
<1>2. CASE Registered(m, n, 1, t, r)
  <2>1. PICK i \in 1 .. MaxWaiting :
          /\ m.pcb[1].waiting[i].pid = 0
          /\ EntryBecomes(m, n, 1, i, [pid |-> t, result |-> -1])
    BY <1>2 DEF Registered
  <2>2. ASSUME NEW q \in Pid, Asked(m, q)
        PROVE  Asked(n, q)
    <3>1. PICK j \in 1 .. MaxWaiting : m.pcb[1].waiting[j] = [pid |-> q, result |-> -1]
      BY <2>2 DEF Asked
    <3>2. m.pcb[1].waiting[j].pid = q /\ q # 0
      BY <3>1
    <3>3. n.pcb[1].waiting[j] = m.pcb[1].waiting[j]
      BY <2>1, <3>2 DEF EntryBecomes
    <3> QED
      BY <3>1, <3>3 DEF Asked
  <2>3. Asked(n, t)
    BY <2>1 DEF EntryBecomes, Asked
  <2>4. ASSUME NEW q \in Pid, PcAt(n, q) # Null
        PROVE  Asked(n, q) \/ Unheard(n, q)
    <3>1. CASE q # t
      <4>1. PcAt(m, q) # Null
        BY <2>4 DEF SameAlive
      <4>2. Asked(m, q) \/ Unheard(m, q)
        BY <4>1 DEF Heard
      <4>3. Unheard(m, q) => Unheard(n, q)
        BY <1>2, <3>1 DEF Registered, SameWaitersBut, SameWaiters, Unheard
      <4> QED
        BY <2>2, <4>2, <4>3
    <3> QED
      BY <2>3, <3>1
  <2> QED
    BY <2>4 DEF Heard
<1>3. CASE TurnedDown(m, n, 1, t, r)
  <2>1. PcAt(m, t) = Null
    BY <1>3, OnlyTheDead
  <2>2. ~Active(m, t)
    BY <2>1, ActiveAt
  <2>3. \A q \in Pid : SameWaiters(m, n, q)
    BY <1>3, <2>2 DEF TurnedDown, SameWaitersBut
  <2>4. \A q \in Pid : Asked(m, q) => Asked(n, q)
    BY <1>3 DEF TurnedDown, Asked
  <2> QED
    BY <2>3, <2>4, LabelFacts, HeardWhenSame
<1> QED
  BY <1>1, <1>2, <1>3 DEF Outcome

-----------------------------------------------------------------------------
(* Until the first "fork"                                                  *)

Words(line) == {line[i] : i \in DOMAIN line}

(* Process p is the one the console has just forked, or waits for.         *)
Awaited(m, p, awaited) ==
  \/ PcAt(m, 1) = "forked" /\ R0At(m, 1) = p
  \/ PcAt(m, 1) = "waitp" /\ awaited = p
  \/ PcAt(m, 1) = "asked" /\ R0At(m, 1) = -1 /\ awaited = p

(* The console has an entry for that process only, while it waits.         *)
OnlyAwaited(m, awaited) ==
  \A i \in 1 .. MaxWaiting :
    m.pcb[1].waiting[i].pid # 0 =>
      /\ m.pcb[1].waiting[i].pid = awaited
      /\ PcAt(m, 1) = "waitp" \/ (PcAt(m, 1) = "asked" /\ R0At(m, 1) = -1)
      /\ m.pcb[1].waiting[i].result = -1 \/ PcAt(m, awaited) = Null

Commanded(m, line) ==
  /\ line \in Seq(STRING)
  /\ PcAt(m, 1) \in {"handle_cmd", "forked", "waitp", "asked"} => line # <<>>
  /\ PcAt(m, 1) # "fork_waited"

Foreground(m, line, awaited) ==
  /\ \A p \in Pid \ {1} :
       PcAt(m, p) # Null =>
         /\ PcAt(m, p) \in {"forked"} \cup Words(line) /\ PcAt(m, p) # "fork_waited"
         /\ Awaited(m, p, awaited)
  /\ OnlyAwaited(m, awaited)
  /\ Commanded(m, line)

InForeground == InPlace /\ (~forked => Heard(Now) /\ Foreground(Now, input, pid))

(* No child, and the console waits for nobody.                             *)
Quiet(m) ==
  /\ \A p \in Pid \ {1} : PcAt(m, p) = Null
  /\ \A i \in 1 .. MaxWaiting : m.pcb[1].waiting[i].pid = 0

LEMMA EntryRange ==
  ASSUME NEW m, Sound(m), NEW i \in 1 .. MaxWaiting
  PROVE  m.pcb[1].waiting[i].pid \in 0 .. MaxProcesses
<1>1. m.pcb[1].waiting \in WaitingTable
  BY SoundParts, TableRow, LabelFacts
<1> QED
  BY <1>1 DEF WaitingTable

LEMMA QuietOutsideOfWaits ==
  ASSUME NEW m, NEW line, NEW awaited, Foreground(m, line, awaited),
         \/ PcAt(m, 1) \in {"prompt", "gets", "handle_cmd"}
         \/ PcAt(m, 1) = "asked" /\ R0At(m, 1) # -1
  PROVE  Quiet(m)
BY DEF Foreground, OnlyAwaited, Awaited, Quiet

LEMMA QuietWithNobody ==
  ASSUME NEW m, Sound(m), NEW line, Foreground(m, line, -1), PcAt(m, 1) = "waitp"
  PROVE  Quiet(m)
<1>1. ASSUME NEW i \in 1 .. MaxWaiting
      PROVE  m.pcb[1].waiting[i].pid = 0
  <2>2. m.pcb[1].waiting[i].pid \in 0 .. MaxProcesses
    BY EntryRange
  <2>3. m.pcb[1].waiting[i].pid # -1
    BY <2>2
  <2> QED
    BY <2>3 DEF Foreground, OnlyAwaited
<1>2. ASSUME NEW p \in Pid \ {1}
      PROVE  PcAt(m, p) = Null
  <2>1. p # -1
    OBVIOUS
  <2> QED
    BY <2>1 DEF Foreground, Awaited
<1> QED
  BY <1>1, <1>2 DEF Quiet

LEMMA ForegroundOfQuiet ==
  ASSUME NEW m, Quiet(m), NEW line, NEW awaited, Commanded(m, line)
  PROVE  Foreground(m, line, awaited)
BY DEF Quiet, Foreground, OnlyAwaited

LEMMA QuietMove ==
  ASSUME NEW m, Quiet(m), NEW n, NEW l, NEW r, Moved(m, n, 1, l, r)
  PROVE  Quiet(n) /\ PcAt(n, 1) = l
BY LabelFacts DEF Quiet, Moved, Goes, OthersStay, SameFamilies

LEMMA QuietAtEnd ==
  ASSUME NEW m, Quiet(m), NEW n, NEW x, Exited(m, n, 1, x)
  PROVE  Quiet(n) /\ PcAt(n, 1) = Null
BY LabelFacts DEF Quiet, Exited, OthersStay, Ended, NoWait

(* The console has forked k.                                               *)
LEMMA ForegroundOfChild ==
  ASSUME NEW m, Sound(m), Quiet(m), NEW n, NEW k \in Pid,
         HasChild(m, n, 1, k, "forked"), FreshTables(m, n, k),
         NEW line \in Seq(STRING), line # <<>>, NEW awaited
  PROVE  Foreground(n, line, awaited)
<1>1. k # 1 /\ PcAt(n, 1) = "forked" /\ R0At(n, 1) = k /\ PcAt(n, k) = "forked"
  BY DEF HasChild
<1>2. ASSUME NEW p \in Pid \ {1}, p # k
      PROVE  PcAt(n, p) = Null
  BY <1>2 DEF HasChild, Quiet
<1>3. \A i \in 1 .. MaxWaiting : n.pcb[1].waiting[i].pid = 0
  <2>1. n.pcb[1].waiting = m.pcb[1].waiting
    BY <1>1, LabelFacts DEF FreshTables
  <2> QED
    BY <2>1 DEF Quiet
<1>4. Commanded(n, line)
  BY <1>1 DEF Commanded
<1>5. OnlyAwaited(n, awaited)
  BY <1>3 DEF OnlyAwaited
<1>6. ASSUME NEW p \in Pid \ {1}, PcAt(n, p) # Null
      PROVE  PcAt(n, p) = "forked" /\ Awaited(n, p, awaited)
  BY <1>1, <1>2, <1>6 DEF Awaited
<1> QED
  BY <1>4, <1>5, <1>6 DEF Foreground

(* It keeps its pid.                                                       *)
LEMMA ForegroundOfPid ==
  ASSUME NEW m, Sound(m), NEW line, NEW before, Foreground(m, line, before),
         PcAt(m, 1) = "forked", NEW n, NEW r, Moved(m, n, 1, "waitp", r)
  PROVE  Foreground(n, line, R0At(m, 1))
<1>1. PcAt(n, 1) = "waitp" /\ \A p \in Pid \ {1} : PcAt(n, p) = PcAt(m, p)
  BY DEF Moved, Goes, OthersStay
<1>2. n.pcb[1].waiting = m.pcb[1].waiting
  BY LabelFacts DEF Moved, SameFamilies
<1>3. \A i \in 1 .. MaxWaiting : m.pcb[1].waiting[i].pid = 0
  BY DEF Foreground, OnlyAwaited
<1>4. OnlyAwaited(n, R0At(m, 1))
  BY <1>2, <1>3 DEF OnlyAwaited
<1>5. Commanded(n, line)
  BY <1>1 DEF Foreground, Commanded
<1>6. ASSUME NEW p \in Pid \ {1}, PcAt(n, p) # Null
      PROVE  /\ PcAt(n, p) \in {"forked"} \cup Words(line) /\ PcAt(n, p) # "fork_waited"
             /\ Awaited(n, p, R0At(m, 1))
  BY <1>1, <1>6 DEF Foreground, Awaited
<1> QED
  BY <1>4, <1>5, <1>6 DEF Foreground

(* It goes on to ask again.                                                *)
LEMMA ForegroundOfYield ==
  ASSUME NEW m, Sound(m), NEW line, NEW awaited, Foreground(m, line, awaited),
         PcAt(m, 1) = "asked", R0At(m, 1) = -1, NEW n, NEW r, Moved(m, n, 1, "waitp", r)
  PROVE  Foreground(n, line, awaited)
<1>1. PcAt(n, 1) = "waitp" /\ \A p \in Pid \ {1} : PcAt(n, p) = PcAt(m, p)
  BY DEF Moved, Goes, OthersStay
<1>2. n.pcb[1].waiting = m.pcb[1].waiting
  BY LabelFacts DEF Moved, SameFamilies
<1>3. ASSUME NEW i \in 1 .. MaxWaiting, n.pcb[1].waiting[i].pid # 0
      PROVE  /\ n.pcb[1].waiting[i].pid = awaited
             /\ n.pcb[1].waiting[i].result = -1 \/ PcAt(n, awaited) = Null
  <2>1. /\ n.pcb[1].waiting[i].pid = awaited
        /\ n.pcb[1].waiting[i].result = -1 \/ PcAt(m, awaited) = Null
    BY <1>2, <1>3 DEF Foreground, OnlyAwaited
  <2>2. m.pcb[1].waiting[i].pid \in 0 .. MaxProcesses
    BY EntryRange
  <2>3. awaited \in Pid
    BY <1>2, <1>3, <2>1, <2>2
  <2>4. PcAt(m, 1) # Null
    BY LabelFacts DEF Labels
  <2> QED
    BY <1>1, <2>1, <2>3, <2>4
<1>4. OnlyAwaited(n, awaited)
  BY <1>1, <1>3 DEF OnlyAwaited
<1>5. Commanded(n, line)
  BY <1>1 DEF Foreground, Commanded
<1>6. ASSUME NEW p \in Pid \ {1}, PcAt(n, p) # Null
      PROVE  /\ PcAt(n, p) \in {"forked"} \cup Words(line) /\ PcAt(n, p) # "fork_waited"
             /\ Awaited(n, p, awaited)
  BY <1>1, <1>6 DEF Foreground, Awaited
<1> QED
  BY <1>4, <1>5, <1>6 DEF Foreground

(* Nothing but the schedule changes, or a child goes on.                   *)
LEMMA ForegroundOfOthers ==
  ASSUME NEW m, Sound(m), NEW line, NEW awaited, Foreground(m, line, awaited),
         NEW n, NEW p \in Pid, PcAt(m, p) # Null, NEW l, NEW r, Moved(m, n, p, l, r),
         l # Null, PcAt(m, 1) # Null,
         p = 1 => l = PcAt(m, 1) /\ r = R0At(m, 1),
         p # 1 => l \in {"forked"} \cup Words(line) /\ l # "fork_waited"
  PROVE  Foreground(n, line, awaited)
<1>1. /\ PcAt(n, 1) = PcAt(m, 1) /\ R0At(n, 1) = R0At(m, 1)
      /\ \A q \in Pid \ {p} : PcAt(n, q) = PcAt(m, q)
      /\ PcAt(n, p) = l
  BY LabelFacts DEF Moved, Goes, OthersStay
<1>2. n.pcb[1].waiting = m.pcb[1].waiting
  BY LabelFacts DEF Moved, SameFamilies
<1>3. ASSUME NEW i \in 1 .. MaxWaiting, n.pcb[1].waiting[i].pid # 0
      PROVE  /\ n.pcb[1].waiting[i].pid = awaited
             /\ PcAt(n, 1) = "waitp" \/ (PcAt(n, 1) = "asked" /\ R0At(n, 1) = -1)
             /\ n.pcb[1].waiting[i].result = -1 \/ PcAt(n, awaited) = Null
  <2>1. /\ n.pcb[1].waiting[i].pid = awaited
        /\ PcAt(m, 1) = "waitp" \/ (PcAt(m, 1) = "asked" /\ R0At(m, 1) = -1)
        /\ n.pcb[1].waiting[i].result = -1 \/ PcAt(m, awaited) = Null
    BY <1>2, <1>3 DEF Foreground, OnlyAwaited
  <2>2. m.pcb[1].waiting[i].pid \in 0 .. MaxProcesses
    BY EntryRange
  <2>3. awaited \in Pid
    BY <1>2, <1>3, <2>1, <2>2
  <2>4. PcAt(m, awaited) = Null => PcAt(n, awaited) = Null
    BY <1>1, <2>3
  <2> QED
    BY <1>1, <2>1, <2>4
<1>4. OnlyAwaited(n, awaited)
  BY <1>3 DEF OnlyAwaited
<1>5. Commanded(n, line)
  BY <1>1 DEF Foreground, Commanded
<1>6. ASSUME NEW q \in Pid \ {1}, PcAt(n, q) # Null
      PROVE  /\ PcAt(n, q) \in {"forked"} \cup Words(line) /\ PcAt(n, q) # "fork_waited"
             /\ Awaited(n, q, awaited)
  <2>1. PcAt(m, q) # Null
    BY <1>1, <1>6
  <2>2. /\ PcAt(m, q) \in {"forked"} \cup Words(line) /\ PcAt(m, q) # "fork_waited"
        /\ Awaited(m, q, awaited)
    BY <2>1 DEF Foreground
  <2>3. Awaited(n, q, awaited)
    BY <1>1, <2>2 DEF Awaited
  <2>4. PcAt(n, q) \in {"forked"} \cup Words(line) /\ PcAt(n, q) # "fork_waited"
    BY <1>1, <2>2
  <2> QED
    BY <2>3, <2>4
<1> QED
  BY <1>4, <1>5, <1>6 DEF Foreground

(* A child is over.                                                        *)
LEMMA ForegroundOfExit ==
  ASSUME NEW m, Sound(m), NEW line, NEW awaited, Foreground(m, line, awaited),
         NEW n, NEW p \in Pid \ {1}, PcAt(m, 1) # Null, NEW x, Exited(m, n, p, x)
  PROVE  Foreground(n, line, awaited)
<1>1. /\ PcAt(n, 1) = PcAt(m, 1) /\ R0At(n, 1) = R0At(m, 1)
      /\ \A q \in Pid \ {p} : PcAt(n, q) = PcAt(m, q)
      /\ PcAt(n, p) = Null
  BY LabelFacts DEF Exited, OthersStay
<1>2. Answers(m, n, p, x)
  BY AnswersOfExit
<1>3. ASSUME NEW i \in 1 .. MaxWaiting, n.pcb[1].waiting[i].pid # 0
      PROVE  /\ n.pcb[1].waiting[i].pid = awaited
             /\ PcAt(n, 1) = "waitp" \/ (PcAt(n, 1) = "asked" /\ R0At(n, 1) = -1)
             /\ n.pcb[1].waiting[i].result = -1 \/ PcAt(n, awaited) = Null
  <2>1. /\ n.pcb[1].waiting[i].pid = m.pcb[1].waiting[i].pid
        /\ \/ n.pcb[1].waiting[i].result = m.pcb[1].waiting[i].result
           \/ m.pcb[1].waiting[i].pid = p
    <3>1. [pid |-> p, result |-> x].pid = p
      OBVIOUS
    <3> QED
      BY <1>2, <3>1 DEF Answers
  <2>2. /\ m.pcb[1].waiting[i].pid = awaited
        /\ PcAt(m, 1) = "waitp" \/ (PcAt(m, 1) = "asked" /\ R0At(m, 1) = -1)
        /\ m.pcb[1].waiting[i].result = -1 \/ PcAt(m, awaited) = Null
    BY <1>3, <2>1 DEF Foreground, OnlyAwaited
  <2>3. m.pcb[1].waiting[i].pid \in 0 .. MaxProcesses
    BY EntryRange
  <2>4. awaited \in Pid
    BY <1>3, <2>1, <2>2, <2>3
  <2>5. PcAt(m, awaited) = Null \/ awaited = p => PcAt(n, awaited) = Null
    BY <1>1, <2>4
  <2> QED
    BY <1>1, <2>1, <2>2, <2>5
<1>4. OnlyAwaited(n, awaited)
  BY <1>3 DEF OnlyAwaited
<1>5. Commanded(n, line)
  BY <1>1 DEF Foreground, Commanded
<1>6. ASSUME NEW q \in Pid \ {1}, PcAt(n, q) # Null
      PROVE  /\ PcAt(n, q) \in {"forked"} \cup Words(line) /\ PcAt(n, q) # "fork_waited"
             /\ Awaited(n, q, awaited)
  <2>1. q # p /\ PcAt(n, q) = PcAt(m, q)
    BY <1>1, <1>6
  <2>2. /\ PcAt(m, q) \in {"forked"} \cup Words(line) /\ PcAt(m, q) # "fork_waited"
        /\ Awaited(m, q, awaited)
    BY <1>6, <2>1 DEF Foreground
  <2>3. Awaited(n, q, awaited)
    BY <1>1, <2>2 DEF Awaited
  <2> QED
    BY <2>1, <2>2, <2>3
<1> QED
  BY <1>4, <1>5, <1>6 DEF Foreground

(* The console's only entry, if any, is the one it asks for.               *)
LEMMA ForegroundHasRoom ==
  ASSUME NEW m, NEW line, NEW t, Foreground(m, line, t), MaxWaiting > 0
  PROVE  RoomFor(m, t)
<1>1. 1 \in 1 .. MaxWaiting
  OBVIOUS
<1> QED
  BY <1>1 DEF Foreground, OnlyAwaited, RoomFor, NoEntry

(* It asks: the answer is that the child runs, or there is no child.       *)
LEMMA ForegroundOfAsk ==
  ASSUME NEW m, Sound(m), Heard(m), MaxWaiters > 0, MaxWaiting > 0,
         NEW line, NEW t \in Pid, Foreground(m, line, t), PcAt(m, 1) = "waitp",
         NEW n, NEW r, Asks(m, n, 1, t, "asked", r)
  PROVE  Foreground(n, line, t)
<1> DEFINE a == m.pcb[1].waiting
           b == n.pcb[1].waiting
<1>0. PcAt(m, 1) # Null
  BY LabelFacts DEF Labels
<1>1. /\ PcAt(n, 1) = "asked" /\ R0At(n, 1) = r
      /\ \A q \in Pid \ {1} : PcAt(n, q) = PcAt(m, q)
  BY DEF Asks, Goes, OthersStay
<1>2. Commanded(n, line)
  BY <1>1 DEF Foreground, Commanded
<1>3. \A i \in 1 .. MaxWaiting : a[i].pid # 0 =>
        a[i].pid = t /\ (a[i].result = -1 \/ PcAt(m, t) = Null)
  BY DEF Foreground, OnlyAwaited
<1>4. ASSUME PcAt(m, t) = Null, \A i \in 1 .. MaxWaiting : b[i].pid = 0
      PROVE  Foreground(n, line, t)
  <2>1. \A p \in Pid \ {1} : PcAt(m, p) = Null
    BY <1>4 DEF Foreground, Awaited
  <2>2. Quiet(n)
    BY <1>1, <1>4, <2>1 DEF Quiet
  <2> QED
    BY <1>2, <2>2, ForegroundOfQuiet
<1>5. ASSUME r = -1,
             \A i \in 1 .. MaxWaiting : b[i] = a[i] \/ b[i] = [pid |-> t, result |-> -1]
      PROVE  Foreground(n, line, t)
  <2>1. ASSUME NEW i \in 1 .. MaxWaiting, b[i].pid # 0
        PROVE  b[i].pid = t /\ (b[i].result = -1 \/ PcAt(n, t) = Null)
    <3>1. CASE b[i] = [pid |-> t, result |-> -1]
      BY <3>1
    <3>2. CASE b[i] = a[i]
      <4>1. b[i].pid = t /\ (b[i].result = -1 \/ PcAt(m, t) = Null)
        BY <1>3, <2>1, <3>2
      <4>2. PcAt(m, t) = Null => PcAt(n, t) = Null
        BY <1>0, <1>1
      <4> QED
        BY <4>1, <4>2
    <3> QED
      BY <1>5, <3>1, <3>2
  <2>2. OnlyAwaited(n, t)
    BY <1>1, <1>5, <2>1 DEF OnlyAwaited
  <2>3. ASSUME NEW p \in Pid \ {1}, PcAt(n, p) # Null
        PROVE  /\ PcAt(n, p) \in {"forked"} \cup Words(line) /\ PcAt(n, p) # "fork_waited"
               /\ Awaited(n, p, t)
    <3>1. PcAt(m, p) # Null /\ PcAt(n, p) = PcAt(m, p)
      BY <1>1, <2>3
    <3>2. /\ PcAt(m, p) \in {"forked"} \cup Words(line) /\ PcAt(m, p) # "fork_waited"
          /\ t = p
      BY <3>1 DEF Foreground, Awaited
    <3> QED
      BY <1>1, <1>5, <3>1, <3>2 DEF Awaited
  <2> QED
    BY <1>2, <2>2, <2>3 DEF Foreground
<1> HIDE DEF a, b
<1>6. CASE Looked(m, n, 1, t, r)
  <2>1. PICK i \in 1 .. MaxWaiting :
          /\ a[i].pid = t /\ a[i].result = r
          /\ \/ r = -1 /\ b = a
             \/ r # -1 /\ EntryBecomes(m, n, 1, i, NoWait)
    BY <1>6 DEF Looked, a, b
  <2>2. CASE r = -1
    BY <1>5, <2>1, <2>2
  <2>3. CASE r # -1
    <3>1. PcAt(m, t) = Null
      BY <1>3, <2>1, <2>3
    <3>2. ASSUME NEW j \in 1 .. MaxWaiting
          PROVE  b[j].pid = 0
      <4>1. CASE j = i
        BY <2>1, <2>3, <4>1 DEF EntryBecomes, NoWait, b
      <4>2. CASE j # i
        <5>1. b[j] = a[j]
          BY <2>1, <2>3, <4>2 DEF EntryBecomes, a, b
        <5>2. OneEntry(m) /\ 1 \in Pid
          BY LabelFacts DEF Sound, Books
        <5>3. a[j].pid = t => FALSE
          BY <2>1, <4>2, <5>2 DEF OneEntry, a
        <5> QED
          BY <1>3, <5>1, <5>3
      <4> QED
        BY <4>1, <4>2
    <3> QED
      BY <1>4, <3>1, <3>2
  <2> QED
    BY <2>2, <2>3
<1>7. CASE Registered(m, n, 1, t, r)
  <2>1. PICK i \in 1 .. MaxWaiting : EntryBecomes(m, n, 1, i, [pid |-> t, result |-> -1])
    BY <1>7 DEF Registered
  <2>2. \A j \in 1 .. MaxWaiting : b[j] = a[j] \/ b[j] = [pid |-> t, result |-> -1]
    BY <2>1 DEF EntryBecomes, a, b
  <2>3. r = -1
    BY <1>7 DEF Registered
  <2> QED
    BY <1>5, <2>2, <2>3
<1>8. CASE TurnedDown(m, n, 1, t, r)
  <2>1. RoomFor(m, t)
    BY ForegroundHasRoom
  <2>2. PcAt(m, t) = Null
    BY <1>0, <1>8, <2>1, OnlyTheDead
  <2>3. \A i \in 1 .. MaxWaiting : b[i].pid = 0
    <3>1. b = a /\ \A i \in 1 .. MaxWaiting : a[i].pid # t
      BY <1>8 DEF TurnedDown, NoEntry, a, b
    <3> QED
      BY <1>3, <3>1
  <2> QED
    BY <1>4, <2>2, <2>3
<1> QED
  BY <1>6, <1>7, <1>8 DEF Asks, Outcome

LEMMA HeardHere ==
  ASSUME InPlace, Heard(Now), frame.pc # Null
  PROVE  /\ \A l, r : Moved(Now, Now', current, l, r) /\ l # Null => Heard(Now')
         /\ \A x : Exited(Now, Now', current, x) => Heard(Now')
<1>1. current \in Pid /\ PcAt(Now, current) # Null /\ Sound(Now)
  BY HereNow DEF InPlace
<1> QED
  BY <1>1, HeardOfMove, HeardOfExit

(* The console goes on with nobody around.                                 *)
LEMMA GoesOnAlone ==
  ASSUME InPlace, Heard(Now), frame.pc # Null, current = 1, Quiet(Now),
         NEW l \in Labels \ {"fork_waited"}, NEW r, Moved(Now, Now', current, l, r),
         NEW line \in Seq(STRING), NEW awaited,
         l \in {"handle_cmd", "forked", "waitp", "asked"} => line # <<>>
  PROVE  Heard(Now') /\ Foreground(Now', line, awaited)
<1>1. Heard(Now')
  BY LabelFacts, HeardHere
<1>2. Quiet(Now') /\ PcAt(Now', 1) = l
  BY QuietMove
<1>3. Commanded(Now', line)
  BY <1>2 DEF Commanded
<1> QED
  BY <1>1, <1>2, <1>3, ForegroundOfQuiet

LEMMA IdlesAlone ==
  ASSUME InPlace, Heard(Now), frame.pc # Null, current = 1, Quiet(Now),
         NEW l \in {"prompt", "gets"}, NEW r, Moved(Now, Now', current, l, r),
         NEW line \in Seq(STRING), NEW awaited
  PROVE  Heard(Now') /\ Foreground(Now', line, awaited)
<1>1. l \in Labels \ {"fork_waited"} /\ l \notin {"handle_cmd", "forked", "waitp", "asked"}
  BY DEF Labels
<1> QED
  BY <1>1, GoesOnAlone

LEMMA InForegroundAtFirst == ConsoleInit => InForeground
<1>1. SUFFICES ASSUME ConsoleInit PROVE InForeground
  OBVIOUS
<1>2. InPlace /\ AtFirst(Now) /\ input = <<>>
  BY <1>1, InPlaceAtFirst, AloneAtFirst DEF ConsoleInit
<1>3. Heard(Now)
  BY <1>2 DEF AtFirst, Heard
<1>4. Quiet(Now)
  BY <1>2, LabelFacts DEF AtFirst, Quiet, NoWait
<1>5. Commanded(Now, input)
  BY <1>2 DEF AtFirst, Commanded
<1> QED
  BY <1>2, <1>3, <1>4, <1>5, ForegroundOfQuiet DEF InForeground

LEMMA InForegroundStep ==
  ASSUME -1 \notin Results, MaxWaiting > 0, MaxWaiters > 0,
         InForeground, [ConsoleNext]_cvars
  PROVE  InForeground'
<1> USE DEF At
<1>0. {"prompt", "gets", "handle_cmd", "forked", "fork_waited", "waitp", "asked"} = Labels
  BY DEF Labels
<1>1. InPlace /\ InPlace'
  BY InPlaceStep DEF InForeground
<1>2. SUFFICES ASSUME ~forked'
               PROVE  Heard(Now') /\ Foreground(Now', input', pid')
  BY <1>1 DEF InForeground
<1>3. ASSUME forked' = forked
      PROVE  /\ Heard(Now) /\ Foreground(Now, input, pid)
             /\ input \in Seq(STRING)
             /\ PcAt(Now, 1) \in {"handle_cmd", "forked", "waitp", "asked"} => input # <<>>
             /\ PcAt(Now, 1) # "fork_waited"
  BY <1>2, <1>3 DEF InForeground, Foreground, Commanded
<1>4. CASE Prompt
  <2>1. /\ forked' = forked /\ Becomes(Onto("gets")) /\ input' = <<>>
        /\ frame.pc = "prompt" /\ input' \in Seq(STRING)
    BY <1>4 DEF Prompt
  <2>2. current = 1 /\ frame.pc # Null /\ PcAt(Now, 1) = frame.pc
    BY <1>0, <1>1, <2>1, ConsolesTurn
  <2>3. Heard(Now) /\ Quiet(Now)
    BY <1>3, <2>1, <2>2, QuietOutsideOfWaits
  <2>4. Moved(Now, Now', current, "gets", frame.r0)
    BY <1>0, <1>1, <2>1, <2>2, GoesOnTo
  <2> QED
    BY <1>1, <2>1, <2>2, <2>3, <2>4, IdlesAlone
<1>5. CASE Gets
  <2>1. PICK typed \in Lines :
          input' = typed /\ Becomes(Onto(IF typed = <<>> THEN "prompt" ELSE "handle_cmd"))
    BY <1>5 DEF Gets
  <2>2. forked' = forked /\ frame.pc = "gets" /\ input' \in Seq(STRING)
    BY <1>5, <2>1, ConsoleAssumption DEF Gets
  <2>3. current = 1 /\ frame.pc # Null /\ PcAt(Now, 1) = frame.pc
    BY <1>0, <1>1, <2>2, ConsolesTurn
  <2>4. Heard(Now) /\ Quiet(Now)
    BY <1>3, <2>2, <2>3, QuietOutsideOfWaits
  <2>5. PICK l \in {"prompt", "handle_cmd"} :
          Becomes(Onto(l)) /\ (l = "handle_cmd" => input' # <<>>)
    BY <2>1
  <2>6. Moved(Now, Now', current, l, frame.r0)
    BY <1>0, <1>1, <2>3, <2>5, GoesOnTo
  <2> QED
    BY <1>0, <1>1, <2>2, <2>3, <2>4, <2>5, <2>6, GoesOnAlone
<1>6. CASE UnknownCommand
  <2>1. /\ forked' = forked /\ input' = input /\ pid' = pid
        /\ Becomes(Onto("prompt")) /\ frame.pc = "handle_cmd"
    BY <1>6 DEF UnknownCommand, shell
  <2>2. current = 1 /\ frame.pc # Null /\ PcAt(Now, 1) = frame.pc
    BY <1>0, <1>1, <2>1, ConsolesTurn
  <2>3. Heard(Now) /\ Quiet(Now) /\ input \in Seq(STRING)
    BY <1>3, <2>1, <2>2, QuietOutsideOfWaits
  <2>4. Moved(Now, Now', current, "prompt", frame.r0)
    BY <1>0, <1>1, <2>1, <2>2, GoesOnTo
  <2> QED
    BY <1>1, <2>1, <2>2, <2>3, <2>4, IdlesAlone
<1>7. CASE Shutdown
  <2>1. /\ forked' = forked /\ input' = input /\ pid' = pid
        /\ Becomes(SysExit(Now, 0)) /\ frame.pc = "handle_cmd"
    BY <1>7 DEF Shutdown, shell
  <2>2. current = 1 /\ frame.pc # Null /\ PcAt(Now, 1) = frame.pc
    BY <1>0, <1>1, <2>1, ConsolesTurn
  <2>3. Heard(Now) /\ Quiet(Now) /\ input \in Seq(STRING)
    BY <1>3, <2>1, <2>2, QuietOutsideOfWaits
  <2>4. Exited(Now, Now', current, 0)
    BY <1>1, <2>1, <2>2, ExitsHere
  <2>5. Quiet(Now') /\ PcAt(Now', 1) = Null
    BY <2>2, <2>3, <2>4, QuietAtEnd
  <2>6. Commanded(Now', input)
    BY <1>0, <2>3, <2>5, LabelFacts DEF Commanded
  <2>7. Heard(Now')
    BY <1>1, <2>2, <2>3, <2>4, HeardHere
  <2> QED
    BY <2>1, <2>5, <2>6, <2>7, ForegroundOfQuiet
<1>8. CASE ForkForeground
  <2>1. /\ forked' = forked /\ input' = input /\ pid' = pid
        /\ Becomes(SysFork(Onto("forked"))) /\ frame.pc = "handle_cmd"
    BY <1>8 DEF ForkForeground, shell
  <2>2. current = 1 /\ frame.pc # Null /\ PcAt(Now, 1) = frame.pc
    BY <1>0, <1>1, <2>1, ConsolesTurn
  <2>3. Heard(Now) /\ Quiet(Now) /\ input \in Seq(STRING) /\ input # <<>>
    BY <1>3, <2>1, <2>2, QuietOutsideOfWaits
  <2>4. \/ ForkFailed(Now, Now', 1, "forked")
        \/ \E k \in Pid : HasChild(Now, Now', 1, k, "forked") /\ FreshTables(Now, Now', k)
    BY <1>0, <1>1, <2>1, <2>2, ForksAt
  <2>5. CASE ForkFailed(Now, Now', 1, "forked")
    <3>1. Moved(Now, Now', current, "forked", -1)
      BY <2>2, <2>5 DEF ForkFailed
    <3> QED
      BY <1>0, <1>1, <2>1, <2>2, <2>3, <3>1, GoesOnAlone
  <2>6. ASSUME NEW k \in Pid, HasChild(Now, Now', 1, k, "forked"), FreshTables(Now, Now', k)
        PROVE  Heard(Now') /\ Foreground(Now', input', pid')
    <3>1. Sound(Now) /\ PcAt(Now, 1) # Null
      BY <1>1, <2>2 DEF InPlace
    <3>2. Heard(Now')
      BY <2>3, <2>6, <3>1, HeardOfChild
    <3> QED
      BY <2>1, <2>3, <2>6, <3>1, <3>2, ForegroundOfChild
  <2> QED
    BY <2>4, <2>5, <2>6
<1>9. CASE ForkBackground
  BY <1>2, <1>9 DEF ForkBackground
<1>10. CASE ExecForeground
  <2>1. /\ forked' = forked /\ input' = input /\ pid' = pid
        /\ frame.pc = "forked" /\ frame.r0 = 0
    BY <1>10 DEF ExecForeground, shell
  <2>2. PICK x \in Loaded(input) : Becomes(SysExec(Onto("waitp"), x, TRUE, 0))
    BY <1>10 DEF ExecForeground
  <2>3. current \in Pid \ {1} /\ frame.pc # Null /\ PcAt(Now, current) = frame.pc
    BY <1>0, <1>1, <2>1, ForkersTurn
  <2>4. Heard(Now) /\ Foreground(Now, input, pid)
    BY <1>3, <2>1
  <2>5. Awaited(Now, current, pid)
    BY <2>3, <2>4 DEF Foreground
  <2>6. PcAt(Now, 1) # Null /\ input # <<>> /\ input \in Seq(STRING)
    BY <1>0, <1>3, <2>1, <2>5, LabelFacts DEF Awaited
  <2>7. x = Null \/ (x \in Programs /\ x \in Words(input))
    <3>1. Head(input) = input[1] /\ 1 \in DOMAIN input
      BY <2>6
    <3>2. x \in {IF Head(input) \in Programs THEN Head(input) ELSE Null}
      BY <2>2, <2>6 DEF Loaded
    <3> QED
      BY <3>1, <3>2 DEF Words
  <2>8. \/ Exited(Now, Now', current, EXIT_FAILURE)
        \/ x # Null /\ Moved(Now, Now', current, x, 0)
    BY <1>0, <1>1, <2>2, <2>3, <2>7, ExecsAt
  <2>9. Heard(Now')
    BY <1>1, <2>3, <2>4, <2>8, HeardHere
  <2>10. x # Null => x # "fork_waited"
    BY <1>0, <2>7, LabelFacts
  <2>11. Foreground(Now', input, pid)
    BY <1>1, <2>3, <2>4, <2>6, <2>7, <2>8, <2>10, ForegroundOfOthers, ForegroundOfExit
       DEF InPlace
  <2> QED
    BY <2>1, <2>9, <2>11
<1>11. CASE ExecBackground
  <2>1. forked' = forked /\ frame.pc = "fork_waited" /\ frame.r0 = 0
    BY <1>11 DEF ExecBackground, shell
  <2>2. current \in Pid \ {1} /\ frame.pc # Null /\ PcAt(Now, current) = frame.pc
    BY <1>0, <1>1, <2>1, ForkersTurn
  <2>3. Foreground(Now, input, pid)
    BY <1>3, <2>1
  <2> QED
    BY <2>1, <2>2, <2>3 DEF Foreground
<1>12. CASE KeepPid
  <2>1. /\ forked' = forked /\ input' = input /\ pid' = frame.r0
        /\ Becomes(Onto("waitp")) /\ frame.pc = "forked" /\ frame.r0 # 0
    BY <1>12 DEF KeepPid
  <2>2. current = 1 /\ frame.pc # Null /\ PcAt(Now, 1) = frame.pc /\ R0At(Now, 1) = frame.r0
    BY <1>0, <1>1, <2>1, ForkersTurn
  <2>3. Heard(Now) /\ Foreground(Now, input, pid)
    BY <1>3, <2>1
  <2>4. Moved(Now, Now', current, "waitp", frame.r0)
    BY <1>0, <1>1, <2>1, <2>2, GoesOnTo
  <2>5. Heard(Now')
    BY <1>0, <1>1, <2>2, <2>3, <2>4, LabelFacts, HeardHere
  <2>6. Foreground(Now', input, R0At(Now, 1))
    BY <1>1, <2>1, <2>2, <2>3, <2>4, ForegroundOfPid DEF InPlace
  <2> QED
    BY <2>1, <2>2, <2>5, <2>6
<1>13. CASE LeaveRunning
  <2>1. forked' = forked /\ frame.pc = "fork_waited" /\ frame.r0 # 0
    BY <1>13 DEF LeaveRunning, shell
  <2>2. PcAt(Now, 1) = frame.pc
    BY <1>0, <1>1, <2>1, ForkersTurn
  <2> QED
    BY <1>3, <2>1, <2>2
<1>14. CASE AskForResult
  <2>1. /\ forked' = forked /\ input' = input /\ pid' = pid
        /\ frame.pc = "waitp" /\ pid \in Pid
        /\ Becomes(Returned(SysWait(Onto("asked"), current, pid),
                            WaitResult(Now, current, pid)))
    BY <1>14 DEF AskForResult, shell
  <2>2. current = 1 /\ frame.pc # Null /\ PcAt(Now, 1) = frame.pc
    BY <1>0, <1>1, <2>1, ConsolesTurn
  <2>3. Heard(Now) /\ Foreground(Now, input, pid) /\ Sound(Now)
    BY <1>1, <1>3, <2>1 DEF InPlace
  <2>4. PICK r : Asks(Now, Now', 1, pid, "asked", r)
    BY <1>0, <1>1, <2>1, <2>2, AsksAt
  <2>5. Foreground(Now', input, pid)
    BY <2>1, <2>2, <2>3, <2>4, ForegroundOfAsk
  <2>6. Heard(Now')
    <3>1. SameAlive(Now, Now') /\ Outcome(Now, Now', 1, pid, r)
      BY <1>0, <2>2, <2>4, LabelFacts DEF Asks, Goes, OthersStay, SameAlive
    <3>2. RoomFor(Now, pid)
      BY <2>3, ForegroundHasRoom
    <3> QED
      BY <2>1, <2>2, <2>3, <3>1, <3>2, HeardOfOutcome
  <2> QED
    BY <2>1, <2>5, <2>6
<1>15. CASE AskForNobody
  <2>1. PICK r \in {-1, -2} : Becomes(Returned(Onto("asked"), r))
    BY <1>15 DEF AskForNobody
  <2>2. /\ forked' = forked /\ input' = input /\ pid' = pid
        /\ frame.pc = "waitp" /\ pid = -1
    BY <1>15 DEF AskForNobody, shell
  <2>3. current = 1 /\ frame.pc # Null /\ PcAt(Now, 1) = frame.pc
    BY <1>0, <1>1, <2>2, ConsolesTurn
  <2>4. Heard(Now) /\ Quiet(Now) /\ input \in Seq(STRING) /\ input # <<>>
    BY <1>1, <1>3, <2>2, <2>3, QuietWithNobody DEF InPlace
  <2>5. Moved(Now, Now', current, "asked", r)
    BY <1>0, <1>1, <2>1, <2>3, ReturnsAt
  <2> QED
    BY <1>0, <1>1, <2>2, <2>3, <2>4, <2>5, GoesOnAlone
<1>16. CASE AskAgain
  <2>1. /\ forked' = forked /\ input' = input /\ pid' = pid
        /\ Becomes(SysYield(Onto("waitp"))) /\ frame.pc = "asked" /\ frame.r0 = -1
    BY <1>16 DEF AskAgain, shell
  <2>2. current = 1 /\ frame.pc # Null /\ PcAt(Now, 1) = frame.pc /\ R0At(Now, 1) = frame.r0
    BY <1>0, <1>1, <2>1, ConsolesTurn
  <2>3. Heard(Now) /\ Foreground(Now, input, pid)
    BY <1>3, <2>1
  <2>4. Moved(Now, Now', current, "waitp", frame.r0)
    BY <1>0, <1>1, <2>1, <2>2, YieldsAt
  <2>5. Heard(Now')
    BY <1>0, <1>1, <2>2, <2>3, <2>4, LabelFacts, HeardHere
  <2>6. Foreground(Now', input, pid)
    BY <1>1, <2>1, <2>2, <2>3, <2>4, ForegroundOfYield DEF InPlace
  <2> QED
    BY <2>1, <2>5, <2>6
<1>17. CASE Answered
  <2>1. /\ forked' = forked /\ input' = input
        /\ Becomes(Onto("prompt")) /\ frame.pc = "asked" /\ frame.r0 # -1
    BY <1>17 DEF Answered
  <2>2. current = 1 /\ frame.pc # Null /\ PcAt(Now, 1) = frame.pc /\ R0At(Now, 1) = frame.r0
    BY <1>0, <1>1, <2>1, ConsolesTurn
  <2>3. Heard(Now) /\ Quiet(Now) /\ input \in Seq(STRING)
    BY <1>3, <2>1, <2>2, QuietOutsideOfWaits
  <2>4. Moved(Now, Now', current, "prompt", frame.r0)
    BY <1>0, <1>1, <2>1, <2>2, GoesOnTo
  <2> QED
    BY <1>1, <2>1, <2>2, <2>3, <2>4, IdlesAlone
<1>18. CASE Finish
  <2>1. forked' = forked /\ input' = input /\ pid' = pid /\ frame.pc \in Programs
    BY <1>18 DEF Finish, shell
  <2>2. PICK x \in Results : Becomes(SysExit(Now, x))
    BY <1>18 DEF Finish
  <2>3. x \in Int /\ x # -1 /\ frame.pc # Null
    BY <2>1, LabelFacts, KernelAssumption
  <2>4. Exited(Now, Now', current, x)
    BY <1>1, <2>2, <2>3, ExitsHere
  <2>5. PcAt(Now, current) = frame.pc /\ current \in Pid
    BY <1>1, HereNow
  <2>6. current # 1
    BY <1>1, <2>1, <2>3, <2>5, LabelFacts DEF InPlace, Places, ParentAt
  <2>7. Heard(Now) /\ Foreground(Now, input, pid)
    BY <1>3, <2>1
  <2>8. Awaited(Now, current, pid)
    BY <2>3, <2>5, <2>6, <2>7 DEF Foreground
  <2>9. PcAt(Now, 1) # Null
    BY <1>0, <2>8, LabelFacts DEF Awaited
  <2>10. Heard(Now')
    BY <1>1, <2>3, <2>4, <2>7, HeardHere
  <2>11. Foreground(Now', input, pid)
    BY <1>1, <2>4, <2>5, <2>6, <2>7, <2>9, ForegroundOfExit DEF InPlace
  <2> QED
    BY <2>1, <2>10, <2>11
<1>19. ASSUME forked' = forked, input' = input, pid' = pid, frame.pc # Null,
              Moved(Now, Now', current, frame.pc, frame.r0)
       PROVE  Heard(Now') /\ Foreground(Now', input', pid')
  <2>1. /\ PcAt(Now, current) = frame.pc /\ current \in Pid
        /\ R0At(Now, current) = frame.r0
    BY <1>1, HereNow
  <2>2. Heard(Now) /\ Foreground(Now, input, pid)
    BY <1>3, <1>19
  <2>3. Heard(Now')
    BY <1>1, <1>19, <2>2, HeardHere
  <2>4. current # 1 => Awaited(Now, current, pid)
    BY <1>19, <2>1, <2>2 DEF Foreground
  <2>5. PcAt(Now, 1) # Null
    BY <1>0, <1>19, <2>1, <2>4, LabelFacts DEF Awaited
  <2>6. current # 1 => /\ frame.pc \in {"forked"} \cup Words(input)
                       /\ frame.pc # "fork_waited"
    BY <1>19, <2>1, <2>2 DEF Foreground
  <2>7. Foreground(Now', input, pid)
    BY <1>1, <1>19, <2>1, <2>2, <2>5, <2>6, ForegroundOfOthers DEF InPlace
  <2> QED
    BY <1>19, <2>3, <2>7
<1>20. CASE Tick /\ UNCHANGED shell
  <2>1. frame.pc # Null
    BY <1>20 DEF Tick, Running
  <2> QED
    BY <1>1, <1>19, <1>20, <2>1, TicksOn DEF shell
<1>21. CASE UNCHANGED cvars
  <2>1. Now' = Now /\ forked' = forked /\ input' = input /\ pid' = pid
    BY <1>21, StutterSteps DEF cvars, shell
  <2> QED
    BY <1>3, <2>1
<1> QED
  BY <1>4, <1>5, <1>6, <1>7, <1>8, <1>9, <1>10, <1>11, <1>12, <1>13, <1>14, <1>15, <1>16,
     <1>17, <1>18, <1>20, <1>21 DEF ConsoleNext, Program

(* Provided no program exits with -1 and there is room for a wait: until   *)
(* the first "fork" only the program typed last runs, and the prompt comes *)
(* when it has ended (console.c:82-116, libc.c:373-385).                   *)
THEOREM ForegroundComesFirst ==
  ASSUME -1 \notin Results, MaxWaiting > 0, MaxWaiters > 0
  PROVE  ConsoleSpec => []ForegroundFirst
<1>1. ConsoleInit => InForeground
  BY InForegroundAtFirst
<1>2. InForeground => ForegroundFirst
  <2>1. SUFFICES ASSUME InForeground, ~forked
                 PROVE  /\ \A p \in Children :
                             UserCtx(p).pc \in {"forked"} \cup Words(input)
                        /\ UserCtx(1).pc \in {"prompt", "gets", "handle_cmd"} => Children = {}
    BY DEF ForegroundFirst, Words
  <2>2. InPlace /\ Foreground(Now, input, pid)
    BY <2>1 DEF InForeground
  <2>3. \A p \in Children : p \in Pid \ {1} /\ PcAt(Now, p) # Null
    BY <2>2, HereNow DEF Children, ActivePids
  <2>4. \A p : UserCtx(p).pc = PcAt(Now, p)
    BY <2>2, HereNow
  <2>5. PcAt(Now, 1) \in {"prompt", "gets", "handle_cmd"} => Children = {}
    BY <2>2, <2>3, QuietOutsideOfWaits DEF Quiet
  <2> QED
    BY <2>2, <2>3, <2>4, <2>5 DEF Foreground
<1>3. InForeground /\ [ConsoleNext]_cvars => InForeground'
  BY InForegroundStep
<1> QED
  BY <1>1, <1>2, <1>3, PTL DEF ConsoleSpec

-----------------------------------------------------------------------------
(* With room for every wait                                                *)

(* There can be no full table: the console has room for every process but  *)
(* the one it is about to wait for, and itself when it never waits for     *)
(* itself.                                                                 *)
Room == MaxWaiting >= MaxProcesses \/ (KeepRoom /\ MaxWaiting >= MaxProcesses - 1)

NeverItself(m, awaited) ==
  /\ awaited # 1
  /\ PcAt(m, 1) = "forked" => R0At(m, 1) # 1
  /\ KeepRoom => NoEntry(m, 1, 1)
  /\ KeepRoom /\ PcAt(m, 1) = "handle_cmd" => \E q \in Pid : PcAt(m, q) = Null

RefusedTheDead(m, awaited) ==
  /\ \A i \in 1 .. MaxWaiting : m.pcb[1].waiting[i].result # -2
  /\ PcAt(m, 1) = "asked" /\ R0At(m, 1) = -2 /\ awaited \in Pid => PcAt(m, awaited) = Null

Accepting == InPlace /\ Heard(Now) /\ NeverItself(Now, pid) /\ RefusedTheDead(Now, pid)

LEMMA IntervalSize ==
  ASSUME NEW a \in Nat
  PROVE  IsFiniteSet(1 .. a) /\ Cardinality(1 .. a) = a
BY FS_Interval

LEMMA MoreThanFit ==
  ASSUME NEW a \in Nat, NEW S, IsFiniteSet(S), Cardinality(S) < a, NEW f \in [1 .. a -> S]
  PROVE  \E i, j \in 1 .. a : i # j /\ f[i] = f[j]
<1>1. IsFiniteSet(1 .. a) /\ Cardinality(1 .. a) = a
  BY IntervalSize
<1> QED
  BY <1>1, FS_PigeonHole

(* A full table has as many entries as there are processes in it.          *)
LEMMA FullTable ==
  ASSUME NEW m, Sound(m), NEW S, IsFiniteSet(S),
         \A i \in 1 .. MaxWaiting : m.pcb[1].waiting[i].pid \in S \ {0}
  PROVE  MaxWaiting <= Cardinality(S)
<1> DEFINE f == [i \in 1 .. MaxWaiting |-> m.pcb[1].waiting[i].pid]
<1>1. Cardinality(S) \in Nat
  BY FS_CardinalityType
<1>2. SUFFICES ASSUME Cardinality(S) < MaxWaiting PROVE FALSE
  BY <1>1
<1>3. f \in [1 .. MaxWaiting -> S]
  OBVIOUS
<1>4. MaxWaiting \in Nat
  OBVIOUS
<1> HIDE DEF f
<1>5. PICK i \in 1 .. MaxWaiting, j \in 1 .. MaxWaiting : i # j /\ f[i] = f[j]
  BY <1>2, <1>3, <1>4, MoreThanFit
<1>6. m.pcb[1].waiting[i].pid = m.pcb[1].waiting[j].pid
  BY <1>5 DEF f
<1> QED
  BY <1>5, <1>6, LabelFacts DEF Sound, Books, OneEntry

LEMMA AlwaysRoom ==
  ASSUME Room, NEW m, Sound(m), KeepRoom => NoEntry(m, 1, 1),
         NEW t \in Pid, KeepRoom => t # 1
  PROVE  RoomFor(m, t)
<1>1. SUFFICES ASSUME NoEntry(m, 1, t), NoEntry(m, 1, 0) PROVE FALSE
  BY DEF RoomFor
<1>2. IsFiniteSet(Pid) /\ Cardinality(Pid) = MaxProcesses
  BY IntervalSize
<1>3. ASSUME NEW i \in 1 .. MaxWaiting
      PROVE  m.pcb[1].waiting[i].pid \in Pid \ {0, t}
  BY <1>1, <1>3, EntryRange DEF NoEntry
<1> HIDE DEF Pid
<1> DEFINE S == Pid \ {t}
<1>4. IsFiniteSet(S) /\ Cardinality(S) = MaxProcesses - 1
  BY <1>2, FS_RemoveElement
<1>5. MaxWaiting <= MaxProcesses - 1
  <2>1. \A i \in 1 .. MaxWaiting : m.pcb[1].waiting[i].pid \in S \ {0}
    BY <1>3
  <2> HIDE DEF S
  <2> QED
    BY <1>4, <2>1, FullTable
<1>6. KeepRoom /\ MaxWaiting >= MaxProcesses - 1
  BY <1>5 DEF Room
<1>7. t # 1 /\ \A i \in 1 .. MaxWaiting : m.pcb[1].waiting[i].pid \in (S \ {1}) \ {0}
  BY <1>3, <1>6 DEF NoEntry
<1>8. IsFiniteSet(S \ {1}) /\ Cardinality(S \ {1}) = MaxProcesses - 2
  <2>1. 1 \in S
    BY <1>7, LabelFacts
  <2> HIDE DEF S
  <2>2. IsFiniteSet(S \ {1}) /\ Cardinality(S \ {1}) = Cardinality(S) - 1
    BY <1>4, <2>1, FS_RemoveElement
  <2> QED
    BY <1>4, <2>2
<1> HIDE DEF S
<1>9. MaxWaiting <= Cardinality(S \ {1})
  BY <1>7, <1>8, FullTable
<1> QED
  BY <1>6, <1>8, <1>9

(* The console moves on: what it waits for, and its entries.               *)
LEMMA AcceptingMove ==
  ASSUME NEW m, Sound(m), PcAt(m, 1) # Null,
         NEW awaited, NeverItself(m, awaited), RefusedTheDead(m, awaited),
         NEW n, NEW l, NEW r, Moved(m, n, 1, l, r), NEW next, next # 1,
         l = "forked" => r # 1,
         l = "handle_cmd" /\ KeepRoom => \E q \in Pid : PcAt(m, q) = Null,
         l = "asked" /\ r = -2 /\ next \in Pid => PcAt(m, next) = Null
  PROVE  NeverItself(n, next) /\ RefusedTheDead(n, next)
<1>1. /\ PcAt(n, 1) = l /\ R0At(n, 1) = r
      /\ \A q \in Pid \ {1} : PcAt(n, q) = PcAt(m, q)
      /\ n.pcb[1].waiting = m.pcb[1].waiting
  BY LabelFacts DEF Moved, Goes, OthersStay, SameFamilies
<1>2. NeverItself(n, next)
  BY <1>1, LabelFacts DEF NeverItself, NoEntry
<1>3. RefusedTheDead(n, next)
  BY <1>1 DEF RefusedTheDead
<1> QED
  BY <1>2, <1>3

LEMMA AcceptingOthers ==
  ASSUME NEW m, Sound(m), PcAt(m, 1) # Null,
         NEW awaited, NeverItself(m, awaited), RefusedTheDead(m, awaited),
         NEW n, NEW p \in Pid, PcAt(m, p) # Null, NEW l, NEW r, Moved(m, n, p, l, r),
         p = 1 => l = PcAt(m, 1) /\ r = R0At(m, 1)
  PROVE  NeverItself(n, awaited) /\ RefusedTheDead(n, awaited)
<1>1. /\ PcAt(n, 1) = PcAt(m, 1) /\ R0At(n, 1) = R0At(m, 1)
      /\ \A q \in Pid : PcAt(m, q) = Null => PcAt(n, q) = Null
      /\ n.pcb[1].waiting = m.pcb[1].waiting
  BY LabelFacts DEF Moved, Goes, OthersStay, SameFamilies
<1>2. NeverItself(n, awaited)
  BY <1>1 DEF NeverItself, NoEntry
<1>3. RefusedTheDead(n, awaited)
  BY <1>1 DEF RefusedTheDead
<1> QED
  BY <1>2, <1>3

(* Somebody goes on when the console is over.                              *)
LEMMA AcceptingAfterIt ==
  ASSUME NEW m, Sound(m), PcAt(m, 1) = Null,
         NEW awaited, NeverItself(m, awaited), RefusedTheDead(m, awaited),
         NEW n, NEW p \in Pid, PcAt(m, p) # Null, NEW l, NEW r, Moved(m, n, p, l, r)
  PROVE  NeverItself(n, awaited) /\ RefusedTheDead(n, awaited)
<1>1. PcAt(n, 1) = Null /\ n.pcb[1].waiting = m.pcb[1].waiting
  BY LabelFacts DEF Moved, Goes, OthersStay, SameFamilies
<1>2. "forked" # Null /\ "handle_cmd" # Null /\ "asked" # Null
  BY LabelFacts DEF Labels
<1>3. NeverItself(n, awaited)
  BY <1>1, <1>2 DEF NeverItself, NoEntry
<1>4. RefusedTheDead(n, awaited)
  BY <1>1, <1>2 DEF RefusedTheDead
<1> QED
  BY <1>3, <1>4

LEMMA AcceptingExit ==
  ASSUME NEW m, Sound(m),
         NEW awaited, NeverItself(m, awaited), RefusedTheDead(m, awaited),
         NEW n, NEW p \in Pid, NEW x, x # -2, Exited(m, n, p, x)
  PROVE  NeverItself(n, awaited) /\ RefusedTheDead(n, awaited)
<1>1. PcAt(n, p) = Null /\ \A q \in Pid : PcAt(m, q) = Null => PcAt(n, q) = Null
  BY DEF Exited, OthersStay
<1>2. CASE p = 1
  <2>1. \A i \in 1 .. MaxWaiting :
          n.pcb[1].waiting[i].pid = 0 /\ n.pcb[1].waiting[i].result = -1
    BY <1>2 DEF Exited, Ended, NoWait
  <2>2. "forked" # Null /\ "handle_cmd" # Null /\ "asked" # Null
    BY LabelFacts DEF Labels
  <2>3. NeverItself(n, awaited)
    BY <1>1, <1>2, <2>1, <2>2 DEF NeverItself, NoEntry
  <2>4. RefusedTheDead(n, awaited)
    BY <1>1, <1>2, <2>1, <2>2 DEF RefusedTheDead
  <2> QED
    BY <2>3, <2>4
<1>3. CASE p # 1
  <2>1. Answers(m, n, p, x)
    BY <1>3, AnswersOfExit
  <2>2. [pid |-> p, result |-> x].pid = p /\ [pid |-> p, result |-> x].result = x
    OBVIOUS
  <2>3. PcAt(n, 1) = PcAt(m, 1) /\ (PcAt(m, 1) # Null => R0At(n, 1) = R0At(m, 1))
    BY <1>3, LabelFacts DEF Exited, OthersStay
  <2>4. "forked" # Null /\ "asked" # Null
    BY LabelFacts DEF Labels
  <2>5. NoEntry(m, 1, 1) => NoEntry(n, 1, 1)
    BY <1>3, <2>1, <2>2 DEF Answers, NoEntry
  <2>6. \A i \in 1 .. MaxWaiting : n.pcb[1].waiting[i].result # -2
    BY <2>1, <2>2 DEF Answers, RefusedTheDead
  <2>7. NeverItself(n, awaited)
    BY <1>1, <2>3, <2>4, <2>5 DEF NeverItself
  <2>8. RefusedTheDead(n, awaited)
    BY <1>1, <2>3, <2>4, <2>6 DEF RefusedTheDead
  <2> QED
    BY <2>7, <2>8
<1> QED
  BY <1>2, <1>3

(* The console has forked k.                                               *)
LEMMA AcceptingChild ==
  ASSUME NEW m, Sound(m),
         NEW awaited, NeverItself(m, awaited), RefusedTheDead(m, awaited),
         NEW n, NEW k \in Pid, NEW l \in {"forked", "fork_waited"},
         HasChild(m, n, 1, k, l), FreshTables(m, n, k)
  PROVE  NeverItself(n, awaited) /\ RefusedTheDead(n, awaited)
<1>1. /\ PcAt(n, 1) = l /\ R0At(n, 1) = k /\ k # 1
      /\ n.pcb[1].waiting = m.pcb[1].waiting
  BY LabelFacts DEF HasChild, FreshTables
<1>2. NeverItself(n, awaited)
  BY <1>1 DEF NeverItself, NoEntry
<1>3. RefusedTheDead(n, awaited)
  BY <1>1 DEF RefusedTheDead
<1> QED
  BY <1>2, <1>3

(* What a wait of the console does to its entries.                         *)
LEMMA AcceptingEntries ==
  ASSUME NEW m, Sound(m), NEW n, NEW t \in Pid, NEW r, Outcome(m, n, 1, t, r)
  PROVE  \A i \in 1 .. MaxWaiting :
           \/ n.pcb[1].waiting[i] = m.pcb[1].waiting[i]
           \/ n.pcb[1].waiting[i].pid \in {0, t} /\ n.pcb[1].waiting[i].result = -1
<1>1. NoWait.pid = 0 /\ NoWait.result = -1
  BY DEF NoWait
<1>2. CASE Looked(m, n, 1, t, r)
  BY <1>1, <1>2 DEF Looked, EntryBecomes
<1>3. CASE Registered(m, n, 1, t, r)
  <2>1. PICK i \in 1 .. MaxWaiting : EntryBecomes(m, n, 1, i, [pid |-> t, result |-> -1])
    BY <1>3 DEF Registered
  <2> QED
    BY <2>1 DEF EntryBecomes
<1>4. CASE TurnedDown(m, n, 1, t, r)
  BY <1>4 DEF TurnedDown
<1> QED
  BY <1>2, <1>3, <1>4 DEF Outcome

LEMMA AcceptingOutcome ==
  ASSUME NEW m, Sound(m), NEW awaited, NeverItself(m, awaited), RefusedTheDead(m, awaited),
         NEW n, NEW t \in Pid, KeepRoom => t # 1, NEW r, Outcome(m, n, 1, t, r)
  PROVE  /\ KeepRoom => NoEntry(n, 1, 1)
         /\ \A i \in 1 .. MaxWaiting : n.pcb[1].waiting[i].result # -2
<1>1. \A i \in 1 .. MaxWaiting :
           \/ n.pcb[1].waiting[i] = m.pcb[1].waiting[i]
           \/ n.pcb[1].waiting[i].pid \in {0, t} /\ n.pcb[1].waiting[i].result = -1
  BY AcceptingEntries
<1>2. KeepRoom => NoEntry(n, 1, 1)
  BY <1>1 DEF NeverItself, NoEntry
<1>3. \A i \in 1 .. MaxWaiting : n.pcb[1].waiting[i].result # -2
  BY <1>1 DEF RefusedTheDead
<1> QED
  BY <1>2, <1>3

(* A wait of the console is refused only for somebody who is not there.    *)
LEMMA RefusedOnly ==
  ASSUME NEW m, Sound(m), Heard(m), PcAt(m, 1) # Null, MaxWaiters > 0,
         NEW awaited, RefusedTheDead(m, awaited),
         NEW t \in Pid, RoomFor(m, t), NEW n, Outcome(m, n, 1, t, -2)
  PROVE  PcAt(m, t) = Null
<1>1. ~Looked(m, n, 1, t, -2)
  BY DEF Looked, RefusedTheDead
<1>2. ~Registered(m, n, 1, t, -2)
  BY DEF Registered
<1> QED
  BY <1>1, <1>2, OnlyTheDead DEF Outcome

LEMMA AcceptingAtFirst == ConsoleInit => Accepting
<1>1. SUFFICES ASSUME ConsoleInit PROVE Accepting
  OBVIOUS
<1>2. InPlace /\ AtFirst(Now) /\ pid = 0
  BY <1>1, InPlaceAtFirst, AloneAtFirst DEF ConsoleInit
<1>3. Heard(Now)
  BY <1>2 DEF AtFirst, Heard
<1>4. \A i \in 1 .. MaxWaiting :
        Now.pcb[1].waiting[i].pid = 0 /\ Now.pcb[1].waiting[i].result = -1
  BY <1>2, LabelFacts DEF AtFirst, NoWait
<1>5. NeverItself(Now, pid)
  BY <1>2, <1>4 DEF AtFirst, NeverItself, NoEntry
<1>6. RefusedTheDead(Now, pid)
  BY <1>2, <1>4 DEF AtFirst, RefusedTheDead
<1> QED
  BY <1>2, <1>3, <1>5, <1>6 DEF Accepting

LEMMA AcceptingStep ==
  ASSUME -1 \notin Results, -2 \notin Results, MaxWaiters > 0, Room,
         Accepting, [ConsoleNext]_cvars
  PROVE  Accepting'
<1> USE DEF At
<1>0. {"prompt", "gets", "handle_cmd", "forked", "fork_waited", "waitp", "asked"} = Labels
  BY DEF Labels
<1>1. InPlace /\ InPlace' /\ Sound(Now)
  BY InPlaceStep DEF Accepting, InPlace
<1>2. Heard(Now) /\ NeverItself(Now, pid) /\ RefusedTheDead(Now, pid)
  BY DEF Accepting
<1>3. SUFFICES Heard(Now') /\ NeverItself(Now', pid') /\ RefusedTheDead(Now', pid')
  BY <1>1 DEF Accepting
<1>4. ASSUME current = 1, frame.pc # Null, PcAt(Now, 1) = frame.pc,
             NEW l \in Labels, NEW r, Moved(Now, Now', current, l, r), pid' # 1,
             l = "forked" => r # 1,
             l = "handle_cmd" /\ KeepRoom => \E q \in Pid : PcAt(Now, q) = Null,
             l = "asked" /\ r = -2 /\ pid' \in Pid => PcAt(Now, pid') = Null
      PROVE  Heard(Now') /\ NeverItself(Now', pid') /\ RefusedTheDead(Now', pid')
  <2>1. l # Null
    BY LabelFacts
  <2>2. Heard(Now')
    BY <1>1, <1>2, <1>4, <2>1, HeardHere
  <2>3. NeverItself(Now', pid') /\ RefusedTheDead(Now', pid')
    BY <1>1, <1>2, <1>4, AcceptingMove
  <2> QED
    BY <2>2, <2>3
<1>5. ASSUME pid' = pid, frame.pc # Null, NEW x, x # -2, Exited(Now, Now', current, x)
      PROVE  Heard(Now') /\ NeverItself(Now', pid') /\ RefusedTheDead(Now', pid')
  <2>1. Heard(Now')
    BY <1>1, <1>2, <1>5, HeardHere
  <2>2. current \in Pid
    BY <1>1, HereNow
  <2>3. NeverItself(Now', pid') /\ RefusedTheDead(Now', pid')
    BY <1>1, <1>2, <1>5, <2>2, AcceptingExit
  <2> QED
    BY <2>1, <2>3
<1>6. pid # 1
  BY <1>2 DEF NeverItself
<1>7. CASE Prompt
  <2>1. Becomes(Onto("gets")) /\ pid' = pid /\ frame.pc = "prompt"
    BY <1>7 DEF Prompt
  <2>2. current = 1 /\ frame.pc # Null /\ PcAt(Now, 1) = frame.pc
    BY <1>0, <1>1, <2>1, ConsolesTurn
  <2>3. Moved(Now, Now', current, "gets", frame.r0)
    BY <1>0, <1>1, <2>1, <2>2, GoesOnTo
  <2> QED
    BY <1>0, <1>4, <1>6, <2>1, <2>2, <2>3
<1>8. CASE Gets
  <2>1. PICK l \in {"prompt", "handle_cmd"} : Becomes(Onto(l))
    BY <1>8 DEF Gets
  <2>2. pid' = pid /\ frame.pc = "gets" /\ (KeepRoom => FreePids(Now) # {})
    BY <1>8 DEF Gets
  <2>3. current = 1 /\ frame.pc # Null /\ PcAt(Now, 1) = frame.pc
    BY <1>0, <1>1, <2>2, ConsolesTurn
  <2>4. Moved(Now, Now', current, l, frame.r0)
    BY <1>0, <1>1, <2>1, <2>3, GoesOnTo
  <2>5. KeepRoom => \E q \in Pid : PcAt(Now, q) = Null
    BY <1>1, <2>2, ActiveAt DEF FreePids, ActivePids
  <2>6. l \in Labels /\ l # "forked" /\ l # "asked"
    BY <1>0, <2>1
  <2> QED
    BY <1>4, <1>6, <2>2, <2>3, <2>4, <2>5, <2>6
<1>9. CASE UnknownCommand
  <2>1. Becomes(Onto("prompt")) /\ pid' = pid /\ frame.pc = "handle_cmd"
    BY <1>9 DEF UnknownCommand, shell
  <2>2. current = 1 /\ frame.pc # Null /\ PcAt(Now, 1) = frame.pc
    BY <1>0, <1>1, <2>1, ConsolesTurn
  <2>3. Moved(Now, Now', current, "prompt", frame.r0)
    BY <1>0, <1>1, <2>1, <2>2, GoesOnTo
  <2> QED
    BY <1>0, <1>4, <1>6, <2>1, <2>2, <2>3
<1>10. CASE Shutdown
  <2>1. pid' = pid /\ Becomes(SysExit(Now, 0)) /\ frame.pc = "handle_cmd"
    BY <1>10 DEF Shutdown, shell
  <2>2. current = 1 /\ frame.pc # Null
    BY <1>0, <1>1, <2>1, ConsolesTurn
  <2>3. Exited(Now, Now', current, 0)
    BY <1>1, <2>1, <2>2, ExitsHere
  <2> QED
    BY <1>5, <2>1, <2>2, <2>3
<1>11. CASE ForkForeground
  <2>1. pid' = pid /\ Becomes(SysFork(Onto("forked"))) /\ frame.pc = "handle_cmd"
    BY <1>11 DEF ForkForeground, shell
  <2>2. current = 1 /\ frame.pc # Null /\ PcAt(Now, 1) = frame.pc
    BY <1>0, <1>1, <2>1, ConsolesTurn
  <2>3. \/ ForkFailed(Now, Now', 1, "forked")
        \/ \E k \in Pid : HasChild(Now, Now', 1, k, "forked") /\ FreshTables(Now, Now', k)
    BY <1>0, <1>1, <2>1, <2>2, ForksAt
  <2>4. CASE ForkFailed(Now, Now', 1, "forked")
    <3>1. Moved(Now, Now', current, "forked", -1)
      BY <2>2, <2>4 DEF ForkFailed
    <3> QED
      BY <1>0, <1>4, <1>6, <2>1, <2>2, <3>1
  <2>5. ASSUME NEW k \in Pid, HasChild(Now, Now', 1, k, "forked"), FreshTables(Now, Now', k)
        PROVE  Heard(Now') /\ NeverItself(Now', pid') /\ RefusedTheDead(Now', pid')
    <3>1. Heard(Now')
      BY <1>1, <1>2, <2>2, <2>5, HeardOfChild
    <3>2. NeverItself(Now', pid') /\ RefusedTheDead(Now', pid')
      BY <1>1, <1>2, <2>1, <2>5, AcceptingChild
    <3> QED
      BY <3>1, <3>2
  <2> QED
    BY <2>3, <2>4, <2>5
<1>12. CASE ForkBackground
  <2> DEFINE l == "fork_waited"
  <2>1. pid' = pid /\ Becomes(SysForkWait(Onto(l))) /\ frame.pc = "handle_cmd"
    BY <1>12 DEF ForkBackground
  <2>2. current = 1 /\ frame.pc # Null /\ PcAt(Now, 1) = frame.pc
    BY <1>0, <1>1, <2>1, ConsolesTurn
  <2>3. PICK u, t, r :
          /\ \/ ForkFailed(Now, u, 1, l) /\ t = 1
             \/ t \in Pid /\ HasChild(Now, u, 1, t, l) /\ FreshTables(Now, u, t)
          /\ Sound(Now') /\ SamePlaces(u, Now') /\ Outcome(u, Now', 1, t, r)
    BY <1>0, <1>1, <2>1, <2>2, ForkWaitsAt
  <2>4. /\ Heard(u) /\ NeverItself(u, pid) /\ RefusedTheDead(u, pid) /\ Sound(u)
        /\ t \in Pid /\ (KeepRoom => t # 1) /\ PcAt(u, 1) = l
    <3>1. CASE ForkFailed(Now, u, 1, l) /\ t = 1
      <4>1. Moved(Now, u, 1, l, -1) /\ \A q \in Pid : PcAt(Now, q) # Null
        BY <3>1 DEF ForkFailed
      <4>2. ~KeepRoom
        BY <1>2, <2>1, <2>2, <4>1 DEF NeverItself
      <4>3. l # Null /\ PcAt(Now, 1) # Null
        BY <1>0, <2>2, LabelFacts
      <4>4. Heard(u)
        BY <1>1, <1>2, <4>1, <4>3, LabelFacts, HeardOfMove
      <4>5. NeverItself(u, pid) /\ RefusedTheDead(u, pid)
        BY <1>1, <1>2, <1>6, <4>1, <4>3, AcceptingMove
      <4>6. Sound(u) /\ PcAt(u, 1) = l
        BY <4>1 DEF Moved, Goes
      <4> QED
        BY <3>1, <4>2, <4>4, <4>5, <4>6, LabelFacts
    <3>2. CASE t \in Pid /\ HasChild(Now, u, 1, t, l) /\ FreshTables(Now, u, t)
      <4>1. Heard(u)
        BY <1>1, <1>2, <2>2, <3>2, HeardOfChild
      <4>2. NeverItself(u, pid) /\ RefusedTheDead(u, pid)
        BY <1>1, <1>2, <3>2, AcceptingChild
      <4> QED
        BY <3>2, <4>1, <4>2 DEF HasChild
    <3> QED
      BY <2>3, <3>1, <3>2
  <2>5. RoomFor(u, t)
    BY <2>4, AlwaysRoom DEF NeverItself
  <2>6. PcAt(u, 1) # Null /\ SameAlive(u, Now')
    BY <1>0, <2>3, <2>4, LabelFacts DEF SamePlaces, SameAlive
  <2>7. Heard(Now')
    BY <2>3, <2>4, <2>5, <2>6, HeardOfOutcome
  <2>8. PcAt(Now', 1) = l
    BY <2>3, <2>4, LabelFacts DEF SamePlaces
  <2>9. /\ KeepRoom => NoEntry(Now', 1, 1)
        /\ \A i \in 1 .. MaxWaiting : Now'.pcb[1].waiting[i].result # -2
    BY <2>3, <2>4, AcceptingOutcome
  <2>10. NeverItself(Now', pid') /\ RefusedTheDead(Now', pid')
    BY <1>6, <2>1, <2>8, <2>9 DEF NeverItself, RefusedTheDead
  <2> QED
    BY <2>7, <2>10
<1>13. ASSUME pid' = pid, NEW words, NEW l \in Labels, NEW i \in BOOLEAN,
              frame.pc \in {"forked", "fork_waited"}, frame.r0 = 0,
              \E addr \in Loaded(words) : Becomes(SysExec(Onto(l), addr, i, 0))
       PROVE  Heard(Now') /\ NeverItself(Now', pid') /\ RefusedTheDead(Now', pid')
  <2>1. current \in Pid \ {1} /\ frame.pc # Null /\ PcAt(Now, current) = frame.pc
    BY <1>1, <1>13, ForkersTurn
  <2>2. PICK x \in Programs \cup {Null} : Becomes(SysExec(Onto(l), x, i, 0))
    BY <1>13, LoadedRange
  <2>3. \/ Exited(Now, Now', current, EXIT_FAILURE)
        \/ x # Null /\ Moved(Now, Now', current, x, 0)
    BY <1>1, <2>1, <2>2, ExecsAt
  <2>4. CASE Exited(Now, Now', current, EXIT_FAILURE)
    BY <1>5, <1>13, <2>1, <2>4 DEF EXIT_FAILURE
  <2>5. CASE x # Null /\ Moved(Now, Now', current, x, 0)
    <3>1. Heard(Now')
      BY <1>1, <1>2, <2>1, <2>5, HeardHere
    <3>2. NeverItself(Now', pid') /\ RefusedTheDead(Now', pid')
      <4>1. CASE PcAt(Now, 1) # Null
        BY <1>1, <1>2, <1>13, <2>1, <2>5, <4>1, AcceptingOthers
      <4>2. CASE PcAt(Now, 1) = Null
        BY <1>1, <1>2, <1>13, <2>1, <2>5, <4>2, AcceptingAfterIt
      <4> QED
        BY <4>1, <4>2
    <3> QED
      BY <3>1, <3>2
  <2> QED
    BY <2>3, <2>4, <2>5
<1>14. CASE ExecForeground
  <2>1. /\ pid' = pid /\ frame.pc = "forked" /\ frame.r0 = 0
        /\ \E addr \in Loaded(input) : Becomes(SysExec(Onto("waitp"), addr, TRUE, 0))
    BY <1>14 DEF ExecForeground, shell
  <2> QED
    BY <1>0, <1>13, <2>1
<1>15. CASE ExecBackground
  <2>1. /\ pid' = pid /\ frame.pc = "fork_waited" /\ frame.r0 = 0
        /\ \E addr \in Loaded(args) : Becomes(SysExec(Onto("prompt"), addr, FALSE, 0))
    BY <1>15 DEF ExecBackground, shell
  <2> QED
    BY <1>0, <1>13, <2>1
<1>16. CASE KeepPid
  <2>1. /\ pid' = frame.r0 /\ Becomes(Onto("waitp"))
        /\ frame.pc = "forked" /\ frame.r0 # 0
    BY <1>16 DEF KeepPid
  <2>2. current = 1 /\ frame.pc # Null /\ PcAt(Now, 1) = frame.pc /\ R0At(Now, 1) = frame.r0
    BY <1>0, <1>1, <2>1, ForkersTurn
  <2>3. Moved(Now, Now', current, "waitp", frame.r0)
    BY <1>0, <1>1, <2>1, <2>2, GoesOnTo
  <2>4. pid' # 1
    BY <1>2, <2>1, <2>2 DEF NeverItself
  <2> QED
    BY <1>0, <1>4, <2>2, <2>3, <2>4
<1>17. CASE LeaveRunning
  <2>1. pid' = pid /\ Becomes(Onto("prompt")) /\ frame.pc = "fork_waited" /\ frame.r0 # 0
    BY <1>17 DEF LeaveRunning, shell
  <2>2. current = 1 /\ frame.pc # Null /\ PcAt(Now, 1) = frame.pc
    BY <1>0, <1>1, <2>1, ForkersTurn
  <2>3. Moved(Now, Now', current, "prompt", frame.r0)
    BY <1>0, <1>1, <2>1, <2>2, GoesOnTo
  <2> QED
    BY <1>0, <1>4, <1>6, <2>1, <2>2, <2>3
<1>18. CASE AskForResult
  <2>1. /\ pid' = pid /\ frame.pc = "waitp" /\ pid \in Pid
        /\ Becomes(Returned(SysWait(Onto("asked"), current, pid),
                            WaitResult(Now, current, pid)))
    BY <1>18 DEF AskForResult, shell
  <2>2. current = 1 /\ frame.pc # Null /\ PcAt(Now, 1) = frame.pc
    BY <1>0, <1>1, <2>1, ConsolesTurn
  <2>3. PICK r : Asks(Now, Now', 1, pid, "asked", r)
    BY <1>0, <1>1, <2>1, <2>2, AsksAt
  <2>4. Outcome(Now, Now', 1, pid, r) /\ PcAt(Now', 1) = "asked" /\ R0At(Now', 1) = r
        /\ OthersStay(Now, Now', 1)
    BY <2>3 DEF Asks, Goes
  <2>5. RoomFor(Now, pid)
    BY <1>1, <1>2, <1>6, <2>1, AlwaysRoom DEF NeverItself
  <2>6. SameAlive(Now, Now')
    BY <1>0, <2>2, <2>4, LabelFacts DEF OthersStay, SameAlive
  <2>7. Heard(Now')
    BY <1>1, <1>2, <2>1, <2>2, <2>4, <2>5, <2>6, HeardOfOutcome
  <2>8. /\ KeepRoom => NoEntry(Now', 1, 1)
        /\ \A i \in 1 .. MaxWaiting : Now'.pcb[1].waiting[i].result # -2
    BY <1>1, <1>2, <1>6, <2>1, <2>4, AcceptingOutcome
  <2>9. r = -2 => PcAt(Now', pid) = Null
    <3>1. r = -2 => PcAt(Now, pid) = Null
      BY <1>1, <1>2, <2>1, <2>2, <2>4, <2>5, RefusedOnly
    <3> QED
      BY <2>1, <2>6, <3>1 DEF SameAlive
  <2>10. NeverItself(Now', pid) /\ RefusedTheDead(Now', pid)
    BY <1>6, <2>4, <2>8, <2>9 DEF NeverItself, RefusedTheDead
  <2> QED
    BY <2>1, <2>7, <2>10
<1>19. CASE AskForNobody
  <2>1. PICK r \in {-1, -2} : Becomes(Returned(Onto("asked"), r))
    BY <1>19 DEF AskForNobody
  <2>2. frame.pc = "waitp" /\ pid = -1 /\ pid' = pid
    BY <1>19 DEF AskForNobody, shell
  <2>3. current = 1 /\ frame.pc # Null /\ PcAt(Now, 1) = frame.pc
    BY <1>0, <1>1, <2>2, ConsolesTurn
  <2>4. Moved(Now, Now', current, "asked", r)
    BY <1>0, <1>1, <2>1, <2>3, ReturnsAt
  <2>5. pid' \notin Pid
    BY <2>2
  <2> QED
    BY <1>0, <1>4, <1>6, <2>2, <2>3, <2>4, <2>5
<1>20. CASE AskAgain
  <2>1. pid' = pid /\ Becomes(SysYield(Onto("waitp"))) /\ frame.pc = "asked"
    BY <1>20 DEF AskAgain, shell
  <2>2. current = 1 /\ frame.pc # Null /\ PcAt(Now, 1) = frame.pc
    BY <1>0, <1>1, <2>1, ConsolesTurn
  <2>3. Moved(Now, Now', current, "waitp", frame.r0)
    BY <1>0, <1>1, <2>1, <2>2, YieldsAt
  <2> QED
    BY <1>0, <1>4, <1>6, <2>1, <2>2, <2>3
<1>21. CASE Answered
  <2>1. pid' = 0 /\ Becomes(Onto("prompt")) /\ frame.pc = "asked"
    BY <1>21 DEF Answered
  <2>2. current = 1 /\ frame.pc # Null /\ PcAt(Now, 1) = frame.pc
    BY <1>0, <1>1, <2>1, ConsolesTurn
  <2>3. Moved(Now, Now', current, "prompt", frame.r0)
    BY <1>0, <1>1, <2>1, <2>2, GoesOnTo
  <2> QED
    BY <1>0, <1>4, <2>1, <2>2, <2>3
<1>22. CASE Finish
  <2>1. pid' = pid /\ frame.pc # Null
    BY <1>22, LabelFacts DEF Finish, shell
  <2>2. PICK x \in Results : Becomes(SysExit(Now, x))
    BY <1>22 DEF Finish
  <2>3. x \in Int /\ x # -1 /\ x # -2
    BY KernelAssumption
  <2>4. Exited(Now, Now', current, x)
    BY <1>1, <2>1, <2>2, <2>3, ExitsHere
  <2> QED
    BY <1>5, <2>1, <2>3, <2>4
<1>23. CASE Tick /\ UNCHANGED shell
  <2>1. frame.pc # Null /\ pid' = pid /\ Moved(Now, Now', current, frame.pc, frame.r0)
    BY <1>1, <1>23, TicksOn DEF Tick, Running, shell
  <2>2. /\ PcAt(Now, current) = frame.pc /\ current \in Pid
        /\ R0At(Now, current) = frame.r0
    BY <1>1, HereNow
  <2>3. Heard(Now')
    BY <1>1, <1>2, <2>1, HeardHere
  <2>4. CASE PcAt(Now, 1) # Null
    BY <1>1, <1>2, <2>1, <2>2, <2>3, <2>4, AcceptingOthers
  <2>5. CASE PcAt(Now, 1) = Null
    BY <1>1, <1>2, <2>1, <2>2, <2>3, <2>5, AcceptingAfterIt
  <2> QED
    BY <2>4, <2>5
<1>24. CASE UNCHANGED cvars
  <2>1. Now' = Now /\ pid' = pid
    BY <1>24, StutterSteps DEF cvars, shell
  <2> QED
    BY <1>2, <2>1
<1> QED
  BY <1>7, <1>8, <1>9, <1>10, <1>11, <1>12, <1>14, <1>15, <1>16, <1>17, <1>18, <1>19,
     <1>20, <1>21, <1>22, <1>23, <1>24 DEF ConsoleNext, Program

(* Provided there is room for as many waits as there can be processes to   *)
(* wait for, and no program exits with -1 or -2: the console's wait for a  *)
(* program is refused only when that has ended ("-2 is error", libc.c:368; *)
(* processes.c:194-231).                                                   *)
THEOREM WaitsAreAccepted ==
  ASSUME -1 \notin Results, -2 \notin Results, MaxWaiters > 0, Room
  PROVE  ConsoleSpec => []WaitsAccepted
<1>1. ConsoleInit => Accepting
  BY AcceptingAtFirst
<1>2. Accepting => WaitsAccepted
  <2>1. SUFFICES ASSUME Accepting, frame.pc = "asked", frame.r0 = -2, pid \in Pid
                 PROVE  ~Active(Now, pid)
    BY DEF WaitsAccepted, At
  <2>2. InPlace /\ RefusedTheDead(Now, pid)
    BY <2>1 DEF Accepting
  <2>3. PcAt(Now, 1) = "asked" /\ R0At(Now, 1) = -2
    BY <2>1, <2>2, ConsolesTurn DEF Labels
  <2> QED
    BY <2>1, <2>2, <2>3, HereNow DEF RefusedTheDead
<1>3. Accepting /\ [ConsoleNext]_cvars => Accepting'
  BY AcceptingStep
<1> QED
  BY <1>1, <1>2, <1>3, PTL DEF ConsoleSpec
=============================================================================
