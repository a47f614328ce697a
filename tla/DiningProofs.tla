----------------------------- MODULE DiningProofs -----------------------------
(***************************************************************************)
(* Theorems about the philosophers, for every number of them, of rounds,   *)
(* and of processes and waits the kernel has room for: the invariant of    *)
(* module DiningInvariant is kept by each action.                          *)
(***************************************************************************)
EXTENDS DiningInvariant

USE SizesAssumption, NullAssumption DEF Pid

-----------------------------------------------------------------------------
(* The steps of the specification                                          *)

FineStep == Fine(Now', Dinner') /\ \E c \in Pid : OneMoves(Now, Now', c)

LEMMA Taken ==
  ASSUME NEW n, NEW c \in Pid, Becomes(n), Fine(n, Dinner'), OneMoves(Now, n, c)
  PROVE  FineStep
<1>1. n \in Machine
  BY SoundParts DEF Fine
<1>2. Now' = n
  BY <1>1, NowBecomes
<1> QED
  BY <1>2 DEF FineStep

LEMMA DinnerFields ==
  /\ Dinner.forks = forks /\ Dinner.ids = ids /\ Dinner.state = state
  /\ Dinner.local = local /\ Dinner.pids = philosopherPids /\ Dinner.answers = answers
  /\ Now.frame = frame /\ Now.current = current /\ Now.pcb = pcb
  /\ \A l : Onto(l) = Onward(Now, l)
BY DEF Dinner, Now, Onto, Onward

LEMMA DinnerFieldsNext ==
  /\ Dinner'.forks = forks' /\ Dinner'.ids = ids' /\ Dinner'.state = state'
  /\ Dinner'.local = local' /\ Dinner'.pids = philosopherPids' /\ Dinner'.answers = answers'
BY DEF Dinner

LEMMA DinnerSame ==
  ASSUME UNCHANGED dinner
  PROVE  Dinner' = Dinner
BY DEF dinner, Dinner

(* The lock calls of the philosophers.                                     *)
LEMMA LockCalls ==
  ASSUME Fine(Now, Dinner), UNCHANGED dinner,
         \/ LockForId \/ LockForks \/ UnlockAfterId \/ UnlockForks
  PROVE  FineStep
<1> DEFINE m == Now
           d == Dinner
           k == frame.pc
<1>1. PICK l \in Labels, b \in BOOLEAN :
        /\ \/ k = "philosopher" /\ l = "get_id" /\ b = TRUE
           \/ k = "hungry" /\ l = "forks" /\ b = TRUE
           \/ k = "got_id" /\ l = "await" /\ b = FALSE
           \/ k = "full" /\ l = "think" /\ b = FALSE
        /\ \/ b = TRUE /\ TryLock(l)
           \/ b = FALSE /\ TryUnlock(l)
  <2>1. CASE LockForId
    BY <2>1 DEF LockForId, At, Labels
  <2>2. CASE LockForks
    BY <2>2 DEF LockForks, At, Labels
  <2>3. CASE UnlockAfterId
    BY <2>3 DEF UnlockAfterId, At, Labels
  <2>4. CASE UnlockForks
    BY <2>4 DEF UnlockForks, At, Labels
  <2> QED
    BY <2>1, <2>2, <2>3, <2>4
<1>2. /\ m.frame.pc = k /\ k \in GuestLabels \ {"spawned"}
      /\ l \in Code
  BY <1>1, DinnerFields, LabelsAreCode DEF GuestLabels, NoSeat, PastId, AtForks, Labels
<1>3. /\ m.current \in Pid \ {1} /\ PcAt(m, m.current) = k
      /\ m.frame.pc # Null /\ Sound(m) /\ PcAt(m, 1) # Null
      /\ SharedOwners(m, m.current, arbitrator) = {1}
  BY <1>2, GuestHere
<1>4. PICK n : /\ Becomes(n)
               /\ \/ b = TRUE /\ n \in Lock(Onward(m, l), 1)
                  \/ b = FALSE /\ n \in Unlock(Onward(m, l), 1)
  BY <1>1, <1>3, DinnerFields DEF TryLock, TryUnlock
<1> HIDE DEF m, d, k
<1>5. \/ /\ m.pcb[1].shared.locked = b
         /\ Stepped(m, n, l, 0) /\ SameShared(m, n)
      \/ /\ m.pcb[1].shared.locked = ~b
         /\ Stepped(m, n, l, 1)
         /\ NowShares(m, n, 1, [m.pcb[1].shared EXCEPT !.locked = b])
  <2>1. 1 \in Pid
    BY SizesAssumption
  <2> QED
    BY <1>2, <1>3, <1>4, <2>1, LockAt
<1>6. Fine(n, d) /\ OneMoves(m, n, m.current)
  <2>1. CASE b = TRUE /\ m.pcb[1].shared.locked = ~b
    BY <1>1, <1>2, <1>5, <2>1, LockGained DEF m, d
  <2>2. CASE b = TRUE /\ m.pcb[1].shared.locked = b
    <3>1. Stepped(m, n, l, 0) /\ SameShared(m, n)
      BY <1>5, <2>2
    <3>2. DinnerTyped(d) /\ TableKept(d, d, m.current)
      BY DEF Fine, TableKept, d
    <3>3. Philosophers > 1 => MealAt(l, d.local[m.current])
      <4>1. Philosophers > 1 => MealAt(k, d.local[m.current])
        BY <1>3 DEF Fine, MealsOk, m, d
      <4> QED
        BY <1>1, <2>2, <4>1 DEF MealAt, Early, NoSeat
    <3> QED
      BY <1>1, <1>2, <2>2, <3>1, <3>2, <3>3, WalksOn DEF m, d
  <2>3. CASE b = FALSE
    <3>1. Holds(m, m.current)
      BY <1>1, <1>3, <2>3 DEF Holds, InGetId, AtForks
    <3>2. m.pcb[1].shared.locked = TRUE
      BY <1>3, <3>1 DEF Fine, LockOk, m
    <3>3. Stepped(m, n, l, 1) /\ NowShares(m, n, 1, [m.pcb[1].shared EXCEPT !.locked = FALSE])
      BY <1>5, <2>3, <3>2
    <3> QED
      BY <1>1, <1>2, <2>3, <3>3, LockReturned DEF m, d
  <2> QED
    BY <1>5, <2>1, <2>2, <2>3
<1> QED
  BY <1>3, <1>4, <1>6, Taken, DinnerSame DEF m, d

(* A row of local changes as the program has it.                           *)
LEMMA LocalRow ==
  ASSUME Fine(Now, Dinner), NEW c \in Pid, NEW x, local' = [local EXCEPT ![c] = x],
         x \in [id : Seat \cup {-1}, j : Nat, eaten : Nat]
  PROVE  /\ local' \in [Pid -> [id : Seat \cup {-1}, j : Nat, eaten : Nat]]
         /\ local'[c] = x /\ \A q \in Pid \ {c} : local'[q] = local[q]
         /\ local[c] \in [id : Seat \cup {-1}, j : Nat, eaten : Nat]
<1>1. local \in [Pid -> [id : Seat \cup {-1}, j : Nat, eaten : Nat]]
  BY DinnerFields DEF Fine, DinnerTyped
<1> QED
  BY <1>1

LEMMA MeRow ==
  ASSUME Fine(Now, Dinner)
  PROVE  /\ current \in Pid
         /\ local[current] \in [id : Seat \cup {-1}, j : Nat, eaten : Nat]
<1>1. local \in [Pid -> [id : Seat \cup {-1}, j : Nat, eaten : Nat]]
  BY DinnerFields DEF Fine, DinnerTyped
<1>2. current \in Pid
  BY SoundParts, DinnerFields DEF Fine
<1> QED
  BY <1>1, <1>2

LEMMA BecomePhilosopherFine ==
  ASSUME Fine(Now, Dinner), BecomePhilosopher
  PROVE  FineStep
<1> DEFINE m == Now
           d == Dinner
           e == Dinner'
           x == [id |-> -1, j |-> 0, eaten |-> 0]
           n == SysExec(m, "philosopher", FALSE, 0)
<1>1. /\ m.frame.pc = "spawned" /\ m.frame.r0 = 0 /\ Becomes(n)
      /\ local' = [local EXCEPT ![current] = x]
      /\ UNCHANGED <<forks, ids, state, philosopherPids, answers>>
  BY DinnerFields DEF BecomePhilosopher, At
<1>2. "spawned" \in GuestLabels /\ "philosopher" \in Code /\ FALSE \in BOOLEAN
  BY LabelsAreCode DEF GuestLabels, NoSeat, Labels
<1>3. /\ m.current \in Pid \ {1} /\ PcAt(m, m.current) = "spawned"
      /\ m.frame.pc # Null /\ Sound(m) /\ m.current = current
  BY <1>1, <1>2, GuestHere, DinnerFields
<1>4. /\ local' \in [Pid -> [id : Seat \cup {-1}, j : Nat, eaten : Nat]]
      /\ local'[current] = x /\ \A q \in Pid \ {current} : local'[q] = local[q]
  <2>1. x \in [id : Seat \cup {-1}, j : Nat, eaten : Nat]
    OBVIOUS
  <2>2. current \in Pid
    BY <1>3
  <2>3. local' = [local EXCEPT ![current] = x]
    BY <1>1
  <2> HIDE DEF x
  <2> QED
    BY <2>1, <2>2, <2>3, LocalRow
<1>5. /\ Sound(n) /\ Goes(m, n, "philosopher", 0)
      /\ SameFamilies(m, n) /\ SameShared(m, n)
  BY <1>2, <1>3, ExecEffect
<1> HIDE DEF n
<1>6. Stepped(m, n, "philosopher", 0)
  BY <1>5 DEF Stepped, SameFamilies, SameWaits, SameParents
<1>7. DinnerTyped(e)
  BY <1>1, <1>4, DinnerFields, DinnerFieldsNext DEF Fine, DinnerTyped
<1>8. local[current].id = -1
  BY <1>3, DinnerFields DEF Fine, SeatsOk, NoSeat
<1>9. TableKept(d, e, m.current) /\ e.forks = d.forks
  BY <1>1, <1>3, <1>4, <1>8, DinnerFields, DinnerFieldsNext DEF TableKept
<1>10. Philosophers > 1 => MealAt("philosopher", e.local[m.current])
  <2>1. e.local[m.current].j = 0 /\ e.local[m.current].eaten = 0
    BY <1>3, <1>4, DinnerFieldsNext
  <2> QED
    BY <2>1, DinnerAssumption DEF MealAt
<1> HIDE DEF m, d, e
<1>11. Fine(n, e) /\ OneMoves(m, n, m.current)
  BY <1>1, <1>6, <1>5, <1>7, <1>9, <1>10, WalksOn DEF m, d
<1> QED
  BY <1>1, <1>3, <1>11, Taken DEF m, e

(* Steps to a yield, or along the program, without the lock.               *)
LEMMA QuietSteps ==
  ASSUME Fine(Now, Dinner), UNCHANGED dinner,
         \/ LockForIdAgain \/ LockForksAgain \/ AwaitStart \/ Start
  PROVE  FineStep
<1> DEFINE m == Now
           d == Dinner
           k == frame.pc
<1>1. PICK l \in Labels :
        /\ \/ k = "get_id" /\ frame.r0 = 0 /\ l = "philosopher"
           \/ k = "forks" /\ frame.r0 = 0 /\ l = "hungry"
           \/ k = "await" /\ l = "await"
           \/ k = "await" /\ l = "think" /\ state = 1
        /\ \/ Becomes(SysYield(Onward(m, l)))
           \/ Becomes(Onward(m, l))
  <2>1. CASE LockForIdAgain
    BY <2>1, DinnerFields DEF LockForIdAgain, At, Labels
  <2>2. CASE LockForksAgain
    BY <2>2, DinnerFields DEF LockForksAgain, At, Labels
  <2>3. CASE AwaitStart
    <3>1. k = "await" /\ Becomes(SysYield(m))
      BY <2>3 DEF AwaitStart, At
    <3>2. m \in Machine /\ m.frame.pc = "await"
      BY <3>1, DinnerFields, SoundParts DEF Fine
    <3>3. Onward(m, "await") = m
      BY <3>2 DEF Onward, Machine, Ctx
    <3> QED
      BY <3>1, <3>3 DEF Labels
  <2>4. CASE Start
    BY <2>4, DinnerFields DEF Start, At, Labels
  <2> QED
    BY <2>1, <2>2, <2>3, <2>4
<1>2. /\ m.frame.pc = k /\ k \in GuestLabels \ {"spawned"} /\ l \in Code
      /\ m.frame.r0 = frame.r0 /\ d.state = state
  BY <1>1, DinnerFields, LabelsAreCode DEF GuestLabels, NoSeat, PastId, AtForks
<1>3. /\ m.current \in Pid \ {1} /\ PcAt(m, m.current) = k
      /\ m.frame.pc # Null /\ Sound(m)
  BY <1>2, GuestHere
<1> HIDE DEF m, d, k
<1>4. PICK n : /\ Becomes(n)
               /\ n = SysYield(Onward(m, l)) \/ n = Onward(m, l)
  BY <1>1
<1>5. Stepped(m, n, l, m.frame.r0) /\ SameShared(m, n)
  <2>1. CASE n = SysYield(Onward(m, l))
    BY <1>2, <1>3, <2>1, YieldedAt
  <2>2. CASE n = Onward(m, l)
    BY <1>2, <1>3, <2>2, OnwardEffect DEF SameShared
  <2> QED
    BY <1>4, <2>1, <2>2
<1>6. DinnerTyped(d) /\ TableKept(d, d, m.current)
  BY DEF Fine, TableKept, d
<1>7. Philosophers > 1 => MealAt(l, d.local[m.current])
  <2>1. Philosophers > 1 => MealAt(k, d.local[m.current])
    BY <1>3 DEF Fine, MealsOk, m, d
  <2>2. CASE k = "await"
    <3>1. "await" \in Early \ {"spawned"}
      BY DEF Early
    <3> QED
      BY <1>1, <2>1, <2>2, <3>1 DEF MealAt, Early, NoSeat
  <2>3. CASE k # "await"
    BY <1>1, <2>1, <2>3 DEF MealAt, Early, NoSeat
  <2> QED
    BY <2>2, <2>3
<1>8. Fine(n, d) /\ OneMoves(m, n, m.current)
  BY <1>1, <1>2, <1>5, <1>6, <1>7, WalksOn DEF m, d
<1> QED
  BY <1>3, <1>4, <1>8, Taken, DinnerSame DEF m, d

LEMMA ThinkFine ==
  ASSUME Fine(Now, Dinner), Think
  PROVE  FineStep
<1> DEFINE m == Now
           d == Dinner
           e == Dinner'
           n == SysYield(Onward(m, "hungry"))
           x == [local[current] EXCEPT !.j = @ + 1]
<1>1. /\ m.frame.pc = "think" /\ Becomes(n) /\ local[current].j < Rounds
      /\ local' = [local EXCEPT ![current] = x]
      /\ UNCHANGED <<forks, ids, state, philosopherPids, answers>>
  BY DinnerFields DEF Think, At, me
<1>2. "think" \in GuestLabels \ {"spawned"} /\ "hungry" \in Code
  BY LabelsAreCode DEF GuestLabels, PastId, Labels
<1>3. /\ m.current \in Pid \ {1} /\ PcAt(m, m.current) = "think"
      /\ m.frame.pc # Null /\ Sound(m) /\ m.current = current
  BY <1>1, <1>2, GuestHere, DinnerFields
<1>4. /\ x \in [id : Seat \cup {-1}, j : Nat, eaten : Nat]
      /\ x.id = local[current].id /\ x.j = local[current].j + 1
      /\ x.eaten = local[current].eaten
  BY MeRow
<1> HIDE DEF x
<1>5. /\ local' \in [Pid -> [id : Seat \cup {-1}, j : Nat, eaten : Nat]]
      /\ local'[current] = x /\ \A q \in Pid \ {current} : local'[q] = local[q]
  BY <1>1, <1>3, <1>4, LocalRow
<1>6. Stepped(m, n, "hungry", m.frame.r0) /\ SameShared(m, n)
  BY <1>2, <1>3, YieldedAt
<1> HIDE DEF n
<1>7. DinnerTyped(e)
  BY <1>1, <1>5, DinnerFields, DinnerFieldsNext DEF Fine, DinnerTyped
<1>8. TableKept(d, e, m.current) /\ e.forks = d.forks
  BY <1>1, <1>3, <1>4, <1>5, DinnerFields, DinnerFieldsNext DEF TableKept
<1>9. Philosophers > 1 => MealAt("hungry", e.local[m.current])
  <2>1. Philosophers > 1 => MealAt("think", local[current])
    BY <1>3, DinnerFields DEF Fine, MealsOk
  <2>2. e.local[m.current] = x /\ local[current].j \in Nat /\ Rounds \in Nat
    BY <1>3, <1>5, DinnerFieldsNext, MeRow, DinnerAssumption
  <2> QED
    BY <1>1, <1>4, <2>1, <2>2 DEF MealAt, Early, NoSeat
<1> HIDE DEF m, d, e
<1>10. Fine(n, e) /\ OneMoves(m, n, m.current)
  BY <1>1, <1>6, <1>7, <1>8, <1>9, WalksOn DEF m, d
<1> QED
  BY <1>1, <1>3, <1>10, Taken DEF m, e

LEMMA FindIdFine ==
  ASSUME Fine(Now, Dinner), FindId
  PROVE  FineStep
<1> DEFINE m == Now
           d == Dinner
           e == Dinner'
           n == Onward(m, "id_found")
           free == {i \in Seat : ids[i] # -1}
           i == Min(free)
           x == [local[current] EXCEPT !.id = ids[i]]
<1>1. /\ m.frame.pc = "get_id" /\ m.frame.r0 # 0
      /\ UNCHANGED <<forks, ids, state, philosopherPids, answers>>
  BY DinnerFields DEF FindId, At
<1>2. "get_id" \in GuestLabels \ {"spawned"} /\ "get_id" \in NoSeat
  BY DEF GuestLabels, NoSeat
<1>3. m.current \in Pid \ {1} /\ PcAt(m, m.current) = "get_id" /\ m.current = current
  BY <1>1, <1>2, GuestHere, DinnerFields
<1>4. free # {}
  <2>1. \E j \in Seat : d.ids[j] # -1
    BY <1>2, <1>3, SomeIdFree
  <2> QED
    BY <2>1, DinnerFields
<1>5. Becomes(n) /\ local' = [local EXCEPT ![current] = x]
  BY <1>4, DinnerFields DEF FindId
<1>6. i \in Seat /\ ids[i] # -1 /\ \A j \in Seat : ids[j] # -1 => i <= j
  <2>1. free \subseteq Nat
    BY DEF Seat
  <2> QED
    BY <1>4, <2>1, MinOfSet
<1> HIDE DEF n, free, i
<1>7. /\ x \in [id : Seat \cup {-1}, j : Nat, eaten : Nat]
      /\ x.id = ids[i] /\ x.j = local[current].j /\ x.eaten = local[current].eaten
  <2>1. ids[i] \in Seat \cup {-1}
    BY <1>6, DinnerFields DEF Fine, DinnerTyped
  <2> QED
    BY <2>1, MeRow
<1> HIDE DEF x
<1>8. /\ local' \in [Pid -> [id : Seat \cup {-1}, j : Nat, eaten : Nat]]
      /\ local'[current] = x /\ \A q \in Pid \ {current} : local'[q] = local[q]
  BY <1>3, <1>5, <1>7, LocalRow
<1>9. DinnerTyped(e)
  BY <1>1, <1>8, DinnerFields, DinnerFieldsNext DEF Fine, DinnerTyped
<1>10. /\ e.forks = d.forks /\ e.ids = d.ids /\ e.state = d.state
       /\ e.pids = d.pids /\ e.answers = d.answers
       /\ \A q \in Pid \ {m.current} : e.local[q] = d.local[q]
       /\ e.local[m.current].id = d.ids[i] /\ e.local[m.current].j = d.local[m.current].j
       /\ e.local[m.current].eaten = d.local[m.current].eaten
  BY <1>1, <1>3, <1>7, <1>8, DinnerFields, DinnerFieldsNext
<1>11. d.ids[i] # -1 /\ \A j \in Seat : d.ids[j] # -1 => i <= j
  BY <1>6, DinnerFields
<1> HIDE DEF m, d, e
<1>12. Fine(n, e) /\ OneMoves(m, n, m.current)
  BY <1>1, <1>6, <1>9, <1>10, <1>11, FindsId DEF m, d, n
<1> QED
  BY <1>3, <1>5, <1>12, Taken DEF m, e

LEMMA TakeIdFine ==
  ASSUME Fine(Now, Dinner), TakeId
  PROVE  FineStep
<1> DEFINE m == Now
           d == Dinner
           e == Dinner'
           n == Onward(m, "got_id")
           i == local[current].id
<1>1. /\ m.frame.pc = "id_found" /\ Becomes(n)
      /\ ids' = [ids EXCEPT ![i] = -1]
      /\ state' = IF i = Philosophers - 1 THEN 1 ELSE state
      /\ UNCHANGED <<forks, local, philosopherPids, answers>>
  BY DinnerFields DEF TakeId, At, me
<1>2. "id_found" \in GuestLabels \ {"spawned"}
  BY DEF GuestLabels
<1>3. m.current \in Pid \ {1} /\ m.current = current
  BY <1>1, <1>2, GuestHere, DinnerFields
<1> HIDE DEF n, i
<1>4. DinnerTyped(e)
  <2>1. ids' \in [Seat -> Seat \cup {-1}] /\ state' \in {0, 1}
    BY <1>1, DinnerFields DEF Fine, DinnerTyped
  <2> QED
    BY <1>1, <2>1, DinnerFields, DinnerFieldsNext DEF Fine, DinnerTyped
<1>5. /\ e.forks = d.forks /\ e.local = d.local
      /\ e.pids = d.pids /\ e.answers = d.answers
      /\ IdGone(d, e, m.current)
  BY <1>1, <1>3, DinnerFields, DinnerFieldsNext DEF i, IdGone
<1> HIDE DEF m, d, e
<1>6. Fine(n, e) /\ OneMoves(m, n, m.current)
  BY <1>1, <1>4, <1>5, TakesId DEF m, d, n
<1> QED
  BY <1>1, <1>3, <1>6, Taken DEF m, e

LEMMA TakeLeftForkFine ==
  ASSUME Fine(Now, Dinner), TakeLeftFork
  PROVE  FineStep
<1> DEFINE m == Now
           d == Dinner
           e == Dinner'
           i == local[current].id
           n == Onward(m, IF forks[i] = 1 THEN "left" ELSE "no_left")
<1>1. /\ m.frame.pc = "forks" /\ m.frame.r0 = 1 /\ Becomes(n)
      /\ forks' = [forks EXCEPT ![i] = 0]
      /\ UNCHANGED <<ids, state, local, philosopherPids, answers>>
  BY DinnerFields DEF TakeLeftFork, At, me
<1>2. "forks" \in GuestLabels \ {"spawned"}
  BY DEF GuestLabels, PastId
<1>3. m.current \in Pid \ {1} /\ m.current = current
  BY <1>1, <1>2, GuestHere, DinnerFields
<1>4. DinnerTyped(e)
  <2>1. forks' \in [Seat -> {0, 1}]
    BY <1>1, DinnerFields DEF Fine, DinnerTyped
  <2> QED
    BY <1>1, <2>1, DinnerFields, DinnerFieldsNext DEF Fine, DinnerTyped
<1>5. /\ TableKept(d, e, m.current) /\ e.local = d.local
      /\ e.forks = [d.forks EXCEPT ![d.local[m.current].id] = 0]
  <2>1. /\ e.ids = d.ids /\ e.state = d.state /\ e.local = d.local
        /\ e.pids = d.pids /\ e.answers = d.answers /\ e.forks = [d.forks EXCEPT ![i] = 0]
    BY <1>1, DinnerFields, DinnerFieldsNext
  <2>2. i = d.local[m.current].id
    BY <1>3, DinnerFields
  <2> HIDE DEF d, e, i
  <2> QED
    BY <2>1, <2>2 DEF TableKept
<1>6. n = Onward(m, IF d.forks[d.local[m.current].id] = 1 THEN "left" ELSE "no_left")
  <2>1. d.forks = forks /\ d.local = local /\ m.current = current
    BY DinnerFields
  <2> HIDE DEF m, d, e
  <2> QED
    BY <2>1
<1> HIDE DEF m, d, e, n
<1>7. Fine(n, e) /\ OneMoves(m, n, m.current)
  BY <1>1, <1>4, <1>5, <1>6, LeftTaken DEF m, d
<1> QED
  BY <1>1, <1>3, <1>7, Taken DEF m, e

LEMMA TakeRightForkFine ==
  ASSUME Fine(Now, Dinner), TakeRightFork
  PROVE  FineStep
<1> DEFINE m == Now
           d == Dinner
           e == Dinner'
           g == Right(local[current].id)
           n == Onward(m, IF forks[g] = 1 THEN "eat" ELSE "only_left")
<1>0. m.frame.pc # "no_left"
  <2>1. \A p \in Pid : PcAt(m, p) # "no_left"
    BY DEF Fine, ForksOk
  <2>2. m.current \in Pid /\ PcAt(m, m.current) = m.frame.pc
    BY SoundParts DEF Fine
  <2> QED
    BY <2>1, <2>2
<1>1. /\ m.frame.pc = "left"
      /\ forks' = [forks EXCEPT ![g] = 0]
      /\ UNCHANGED <<ids, state, local, philosopherPids, answers>>
  BY <1>0, DinnerFields DEF TakeRightFork, me
<1>2. Becomes(n)
  BY <1>1, DinnerFields DEF TakeRightFork, At, me
<1>3. "left" \in GuestLabels \ {"spawned"}
  BY DEF GuestLabels, PastId, AtForks
<1>4. m.current \in Pid \ {1} /\ m.current = current
  BY <1>1, <1>3, GuestHere, DinnerFields
<1>5. DinnerTyped(e)
  <2>1. forks' \in [Seat -> {0, 1}]
    BY <1>1, DinnerFields DEF Fine, DinnerTyped
  <2> QED
    BY <1>1, <2>1, DinnerFields, DinnerFieldsNext DEF Fine, DinnerTyped
<1>6. /\ TableKept(d, e, m.current) /\ e.local = d.local
      /\ e.forks = [d.forks EXCEPT ![g] = 0] /\ g = Right(d.local[m.current].id)
      /\ n = Onward(m, IF d.forks[g] = 1 THEN "eat" ELSE "only_left")
  BY <1>1, <1>4, DinnerFields, DinnerFieldsNext DEF TableKept
<1> HIDE DEF m, d, e, n, g
<1>7. Fine(n, e) /\ OneMoves(m, n, m.current)
  BY <1>1, <1>5, <1>6, RightTaken DEF m, d
<1> QED
  BY <1>2, <1>4, <1>7, Taken DEF m, e

LEMMA PutForksBackFine ==
  ASSUME Fine(Now, Dinner), PutForksBack
  PROVE  FineStep
<1> DEFINE m == Now
           d == Dinner
           e == Dinner'
           k == frame.pc
           n == Onward(m, "full")
           y == local[current]
           x == [y EXCEPT !.eaten = IF k = "eat" THEN @ + 1 ELSE @]
           back == (IF k \in {"eat", "only_left"} THEN {y.id} ELSE {})
                   \cup (IF k \in {"eat", "only_right"} THEN {Right(y.id)} ELSE {})
<1>0. m.frame.pc \notin {"only_right", "no_fork"}
  <2>1. \A p \in Pid : PcAt(m, p) \notin {"only_right", "no_fork"}
    BY DEF Fine, ForksOk
  <2>2. m.current \in Pid /\ PcAt(m, m.current) = m.frame.pc
    BY SoundParts DEF Fine
  <2> QED
    BY <2>1, <2>2
<1>1. /\ m.frame.pc = k /\ k \in {"eat", "only_left"} /\ Becomes(n)
      /\ forks' = [f \in Seat |-> IF f \in back THEN 1 ELSE forks[f]]
      /\ local' = [local EXCEPT ![current] = x]
      /\ UNCHANGED <<ids, state, philosopherPids, answers>>
  BY <1>0, DinnerFields DEF PutForksBack, At, me
<1>2. k \in GuestLabels \ {"spawned"}
  BY <1>1 DEF GuestLabels, PastId, AtForks
<1>3. m.current \in Pid \ {1} /\ m.current = current
  BY <1>1, <1>2, GuestHere, DinnerFields
<1>4. /\ x \in [id : Seat \cup {-1}, j : Nat, eaten : Nat]
      /\ x.id = y.id /\ x.j = y.j /\ (k = "eat" => x.eaten = y.eaten + 1)
  BY MeRow
<1>5. \A f \in Seat : f \in ForksAt(k, y.id) => f \in back
  BY <1>1 DEF ForksAt
<1> HIDE DEF n, x, k, back
<1>6. /\ local' \in [Pid -> [id : Seat \cup {-1}, j : Nat, eaten : Nat]]
      /\ local'[current] = x /\ \A q \in Pid \ {current} : local'[q] = local[q]
  BY <1>1, <1>3, <1>4, LocalRow
<1>7. forks' \in [Seat -> {0, 1}] /\ \A f \in Seat : forks'[f] = IF f \in back THEN 1 ELSE forks[f]
  BY <1>1, DinnerFields DEF Fine, DinnerTyped
<1>8. DinnerTyped(e)
  BY <1>1, <1>6, <1>7, DinnerFields, DinnerFieldsNext DEF Fine, DinnerTyped
<1>9. /\ TableKept(d, e, m.current)
      /\ e.local[m.current].j = d.local[m.current].j
      /\ k = "eat" => e.local[m.current].eaten = d.local[m.current].eaten + 1
  BY <1>1, <1>3, <1>4, <1>6, DinnerFields, DinnerFieldsNext DEF TableKept
<1>10. /\ \A f \in ForksAt(k, d.local[m.current].id) : e.forks[f] = 1
       /\ \A f \in Seat : d.forks[f] # 0 => e.forks[f] # 0
  BY <1>3, <1>5, <1>7, DinnerFields, DinnerFieldsNext DEF ForksAt
<1> HIDE DEF m, d, e
<1>11. Fine(n, e) /\ OneMoves(m, n, m.current)
  BY <1>1, <1>8, <1>9, <1>10, PutBack DEF m, d, n
<1> QED
  BY <1>1, <1>3, <1>11, Taken DEF m, e

LEMMA GoHomeFine ==
  ASSUME Fine(Now, Dinner), GoHome
  PROVE  FineStep
<1> DEFINE m == Now
           d == Dinner
           x == d.local[m.current].eaten
           n == SysExit(m, x)
<1>1. frame.pc = "think" /\ local[current].j = Rounds
  <2> SUFFICES ASSUME frame.pc = "forks", frame.r0 = -1
               PROVE  FALSE
    BY DEF GoHome, At, me
  <2>1. "forks" \in GuestLabels \ {"spawned"}
    BY DEF GuestLabels, PastId
  <2>2. /\ m.current \in Pid \ {1} /\ PcAt(m, m.current) = "forks"
        /\ R0At(m, m.current) = -1
    BY <2>1, GuestHere, DinnerFields
  <2>3. R0At(m, m.current) \in {0, 1}
    BY <2>2 DEF Fine, GuestsOk
  <2> QED
    BY <2>2, <2>3
<1>2. Becomes(n) /\ UNCHANGED dinner
  BY <1>1, DinnerFields DEF GoHome, At, me
<1>3. m.frame.pc = "think" /\ d.local[m.current].j = Rounds /\ m.current \in Pid
  BY <1>1, DinnerFields, MeRow
<1> HIDE DEF n
<1>4. Fine(n, d) /\ OneMoves(m, n, m.current)
  BY <1>3, GuestLeaves DEF n
<1> QED
  BY <1>2, <1>3, <1>4, Taken, DinnerSame

LEMMA MainStepFine ==
  ASSUME Fine(Now, Dinner), MainStep
  PROVE  FineStep
<1> DEFINE m == Now
           d == Dinner
           e == Dinner'
<1>0. /\ 1 \in Pid /\ DinnerTyped(d) /\ Philosophers \in Nat
      /\ {"main_dp", "spawn", "asked", "done"} \subseteq MainLabels \ {"spawned"}
      /\ "spawned" \in MainLabels /\ "spawn" \in Code
  BY SizesAssumption, DinnerAssumption, LabelsAreCode DEF Fine, MainLabels, Labels
<1>1. CASE ShareArbitrator
  <2> DEFINE n == Share(Onward(m, "spawn"), m.current, arbitrator)
  <2>1. m.frame.pc = "main_dp" /\ Becomes(n) /\ UNCHANGED dinner
    BY <1>1, DinnerFields DEF ShareArbitrator, At
  <2> HIDE DEF n
  <2>2. Fine(n, d) /\ OneMoves(m, n, 1)
    BY <2>1, SharedPointer DEF n
  <2> QED
    BY <1>0, <2>1, <2>2, Taken, DinnerSame
<1>2. CASE Spawn
  <2> DEFINE n == SysForkWait(Onward(m, "spawned"))
  <2>1. /\ m.frame.pc = "spawn" /\ Len(d.pids) < Philosophers
        /\ Becomes(n) /\ UNCHANGED dinner
    BY <1>2, DinnerFields DEF Spawn, At
  <2> HIDE DEF n
  <2>2. Fine(n, d) /\ OneMoves(m, n, 1)
    BY <2>1, Spawns DEF n
  <2> QED
    BY <1>0, <2>1, <2>2, Taken, DinnerSame
<1>3. CASE BecomePhilosopher
  BY <1>3, BecomePhilosopherFine
<1>4. CASE KeepPid
  <2> DEFINE n == Onward(m, "spawn")
  <2>1. /\ m.frame.pc = "spawned" /\ m.frame.r0 # 0 /\ Becomes(n)
        /\ philosopherPids' = Append(philosopherPids, m.frame.r0)
        /\ UNCHANGED <<forks, ids, state, local, answers>>
    BY <1>4, DinnerFields DEF KeepPid, At
  <2>2. e.pids = Append(d.pids, m.frame.r0) /\ e.answers = d.answers
    BY <2>1, DinnerFields, DinnerFieldsNext
  <2>3. m.frame.r0 \in Pid
    <3>1. PcAt(m, 1) = "spawned" /\ R0At(m, 1) = m.frame.r0
      BY <1>0, <2>1, MainHere
    <3>2. /\ GuestCount(m, d) = Len(d.pids) + 1 /\ Len(d.pids) \in Nat
      BY <1>0, <3>1, CountsTyped
    <3>3. GuestAt(m, d, Len(d.pids) + 1) = R0At(m, 1)
      BY <3>2 DEF GuestAt
    <3> QED
      BY <3>1, <3>2, <3>3 DEF Fine, GuestsOk
  <2>4. e.pids \in Seq(Pid)
    BY <1>0, <2>2, <2>3 DEF DinnerTyped
  <2>5. /\ e.ids = d.ids /\ e.state = d.state /\ e.local = d.local /\ e.forks = d.forks
    BY <2>1, DinnerFields, DinnerFieldsNext
  <2> HIDE DEF n, e
  <2>6. DinnerTyped(e)
    BY <1>0, <2>2, <2>4, <2>5 DEF DinnerTyped
  <2>7. Fine(n, e) /\ OneMoves(m, n, 1)
    BY <2>1, <2>2, <2>5, <2>6, PidKept DEF n
  <2> QED
    BY <1>0, <2>1, <2>7, Taken DEF e
<1>5. CASE AskForResult
  <2> DEFINE t == d.pids[Len(d.answers) + 1]
             n == Returned(SysWait(Onward(m, "asked"), m.current, t),
                           WaitResult(m, m.current, t))
  <2>1. /\ m.frame.pc = "spawn" /\ Len(d.pids) = Philosophers
        /\ Len(d.answers) < Philosophers /\ Becomes(n) /\ UNCHANGED dinner
    BY <1>5, DinnerFields DEF AskForResult, At
  <2> HIDE DEF n
  <2>2. Fine(n, d) /\ OneMoves(m, n, 1)
    <3>1. Asks(m, n, d, t)
      BY DEF n, Asks
    <3> QED
      BY <2>1, <3>1, AsksForResult
  <2> QED
    BY <1>0, <2>1, <2>2, Taken, DinnerSame
<1>6. CASE AskAgain
  <2> DEFINE n == SysYield(Onward(m, "spawn"))
  <2>1. m.frame.pc = "asked" /\ m.frame.r0 = -1 /\ Becomes(n) /\ UNCHANGED dinner
    BY <1>6, DinnerFields DEF AskAgain, At
  <2>2. m.frame.pc # Null /\ Sound(m)
    BY <1>0, <2>1, MainHere
  <2>3. Stepped(m, n, "spawn", m.frame.r0) /\ SameShared(m, n)
    BY <1>0, <2>2, YieldedAt
  <2> HIDE DEF n
  <2>4. Fine(n, d) /\ OneMoves(m, n, 1)
    <3>1. TakesResult(d, d, m.frame.r0)
      BY <2>1 DEF TakesResult
    <3> QED
      BY <1>0, <2>1, <2>3, <3>1, ResultKept
  <2> QED
    BY <1>0, <2>1, <2>4, Taken, DinnerSame
<1>7. CASE KeepResult
  <2> DEFINE n == Onward(m, "spawn")
             r == m.frame.r0
  <2>1. /\ m.frame.pc = "asked" /\ r # -1 /\ Becomes(n)
        /\ answers' = Append(answers, IF r = -2 THEN -1 ELSE r)
        /\ UNCHANGED <<forks, ids, state, local, philosopherPids>>
    BY <1>7, DinnerFields DEF KeepResult, At
  <2>2. /\ m.frame.pc # Null /\ Sound(m) /\ r \in Nat
    <3>1. /\ m.frame.pc # Null /\ Sound(m) /\ PcAt(m, 1) = "asked" /\ R0At(m, 1) = r
      BY <1>0, <2>1, MainHere
    <3> QED
      BY <2>1, <3>1 DEF Fine, MainOk
  <2>3. Stepped(m, n, "spawn", r) /\ SameShared(m, n)
    BY <1>0, <2>2, OnwardEffect DEF SameShared
  <2>4. e.answers = Append(d.answers, r)
    BY <2>1, <2>2, DinnerFields, DinnerFieldsNext
  <2>5. /\ e.ids = d.ids /\ e.state = d.state /\ e.local = d.local /\ e.forks = d.forks
        /\ e.pids = d.pids
    BY <2>1, DinnerFields, DinnerFieldsNext
  <2>6. e.answers \in Seq(Int)
    BY <1>0, <2>2, <2>4 DEF DinnerTyped
  <2> HIDE DEF n, e
  <2>7. DinnerTyped(e)
    BY <1>0, <2>5, <2>6 DEF DinnerTyped
  <2>8. Fine(n, e) /\ OneMoves(m, n, 1)
    <3>1. TakesResult(d, e, m.frame.r0)
      BY <2>1, <2>4 DEF TakesResult
    <3> QED
      BY <2>1, <2>3, <2>5, <2>7, <3>1, ResultKept
  <2> QED
    BY <1>0, <2>1, <2>8, Taken DEF e
<1>8. CASE UnshareArbitrator
  <2> DEFINE n == Unshare(Onward(m, "done"), m.current, arbitrator)
  <2>1. /\ m.frame.pc = "spawn" /\ Len(d.answers) = Philosophers
        /\ Becomes(n) /\ UNCHANGED dinner
    BY <1>8, DinnerFields DEF UnshareArbitrator, At
  <2> HIDE DEF n
  <2>2. Fine(n, d) /\ OneMoves(m, n, 1)
    BY <2>1, SharedPointer DEF n
  <2> QED
    BY <1>0, <2>1, <2>2, Taken, DinnerSame
<1>9. CASE Leave
  <2> DEFINE n == SysExit(m, 0)
  <2>1. m.frame.pc = "done" /\ Becomes(n) /\ UNCHANGED dinner
    BY <1>9, DinnerFields DEF Leave, At
  <2> HIDE DEF n
  <2>2. Fine(n, d) /\ OneMoves(m, n, 1)
    BY <2>1, MainLeaves DEF n
  <2> QED
    BY <1>0, <2>1, <2>2, Taken, DinnerSame
<1> QED
  BY <1>1, <1>2, <1>3, <1>4, <1>5, <1>6, <1>7, <1>8, <1>9 DEF MainStep

LEMMA PhilosopherStepFine ==
  ASSUME Fine(Now, Dinner), PhilosopherStep
  PROVE  FineStep
<1>1. CASE LockForId \/ LockForks \/ UnlockAfterId \/ UnlockForks
  <2>1. UNCHANGED dinner
    BY <1>1 DEF LockForId, LockForks, UnlockAfterId, UnlockForks
  <2> QED
    BY <1>1, <2>1, LockCalls
<1>2. CASE LockForIdAgain \/ LockForksAgain \/ AwaitStart \/ Start
  <2>1. UNCHANGED dinner
    BY <1>2 DEF LockForIdAgain, LockForksAgain, AwaitStart, Start
  <2> QED
    BY <1>2, <2>1, QuietSteps
<1>3. CASE FindId \/ TakeId \/ Think
  BY <1>3, FindIdFine, TakeIdFine, ThinkFine
<1>4. CASE TakeLeftFork \/ TakeRightFork \/ PutForksBack \/ GoHome
  BY <1>4, TakeLeftForkFine, TakeRightForkFine, PutForksBackFine, GoHomeFine
<1> QED
  BY <1>1, <1>2, <1>3, <1>4 DEF PhilosopherStep

LEMMA DinnerStepFine ==
  ASSUME Fine(Now, Dinner), [DinnerNext]_dpvars
  PROVE  FineStep
<1>1. CASE Program
  BY <1>1, MainStepFine, PhilosopherStepFine DEF Program
<1>2. CASE Tick /\ UNCHANGED dinner
  <2> DEFINE n == Scheduler(Now)
  <2>1. Now.frame.pc # Null /\ Becomes(n)
    BY <1>2, TickIsScheduler, DinnerFields DEF Running
  <2>2. /\ Sound(n)
        /\ \A q \in Pid : PcAt(n, q) = PcAt(Now, q) /\ R0At(n, q) = R0At(Now, q)
        /\ SameFamilies(Now, n) /\ SameShared(Now, n)
    BY <2>1, TickEffect DEF Fine
  <2> HIDE DEF n
  <2>3. Fine(n, Dinner) /\ OneMoves(Now, n, 1) /\ 1 \in Pid
    BY <2>2, StaysFine, SizesAssumption
  <2> QED
    BY <1>2, <2>1, <2>3, Taken, DinnerSame
<1>3. CASE UNCHANGED dpvars
  <2>1. Now' = Now /\ Dinner' = Dinner /\ 1 \in Pid
    BY <1>3, SizesAssumption DEF dpvars, vars, dinner, Now, Dinner
  <2> QED
    BY <2>1 DEF FineStep, OneMoves
<1> QED
  BY <1>1, <1>2, <1>3 DEF DinnerNext

-----------------------------------------------------------------------------
(* At the start: main_dp alone, everything on the table                    *)

LEMMA InitMachine ==
  ASSUME Init
  PROVE  /\ Sound(Now)
         /\ PcAt(Now, 1) = "main_dp"
         /\ \A p \in Pid \ {1} : PcAt(Now, p) = Null
         /\ \A p \in Pid : Now.pcb[p].shared = [ptr |-> Null, locked |-> FALSE]
         /\ \A p \in Pid, i \in 1 .. MaxWaiting : Now.pcb[p].waiting[i].pid = 0
<1> DEFINE first == [NewProcess(1, 0) EXCEPT !.ctx.pc = Console, !.type = Interactive]
<1>1. Sound(Now)
  BY InitInOrder DEF InOrder, InUseNow, TypedNow, Sound
<1>2. ASSUME NEW p \in Pid
      PROVE  /\ NewProcess(p, 0).ctx.pc = Null
             /\ NewProcess(p, 0).shared = [ptr |-> Null, locked |-> FALSE]
             /\ \A i \in 1 .. MaxWaiting : NewProcess(p, 0).waiting[i] = NoWait
  BY DEF NewProcess, ResetCtx
<1>3. first.shared = NewProcess(1, 0).shared /\ first.waiting = NewProcess(1, 0).waiting
  BY DEF NewProcess
<1> HIDE DEF first
<1>4. /\ Now.pcb = [p \in Pid |-> IF p = 1 THEN first ELSE NewProcess(p, 0)]
      /\ Now.current = 1 /\ Now.frame = [ResetCtx(1) EXCEPT !.pc = Console]
  BY DEF Init, Now, first
<1>5. 1 \in Pid /\ Now.pcb[1] = first /\ \A p \in Pid \ {1} : Now.pcb[p] = NewProcess(p, 0)
  BY <1>4
<1>6. PcAt(Now, 1) = "main_dp"
  BY <1>4, DinnerAssumption DEF PcAt, RegistersOf, ResetCtx
<1>7. \A p \in Pid \ {1} : PcAt(Now, p) = Null
  BY <1>2, <1>4, <1>5 DEF PcAt, RegistersOf
<1>8. ASSUME NEW p \in Pid
      PROVE  /\ Now.pcb[p].shared = [ptr |-> Null, locked |-> FALSE]
             /\ \A i \in 1 .. MaxWaiting : Now.pcb[p].waiting[i] = NoWait
  <2>1. CASE p = 1
    BY <1>2, <1>3, <1>5, <2>1
  <2>2. CASE p # 1
    BY <1>2, <1>5, <2>2
  <2> QED
    BY <2>1, <2>2
<1>9. ASSUME NEW p \in Pid, NEW i \in 1 .. MaxWaiting
      PROVE  Now.pcb[p].waiting[i].pid = 0
  <2>1. Now.pcb[p].waiting[i] = NoWait
    BY <1>8
  <2> QED
    BY <2>1 DEF NoWait
<1>10. \A p \in Pid : Now.pcb[p].shared = [ptr |-> Null, locked |-> FALSE]
  BY <1>8
<1> QED
  BY <1>1, <1>6, <1>7, <1>9, <1>10

FineNow == Fine(Now, Dinner)

LEMMA DinnerInitFine ==
  ASSUME DinnerInit
  PROVE  FineNow
<1> DEFINE m == Now
           d == Dinner
<1>1. /\ Sound(m) /\ PcAt(m, 1) = "main_dp"
      /\ \A p \in Pid \ {1} : PcAt(m, p) = Null
      /\ \A p \in Pid : m.pcb[p].shared = [ptr |-> Null, locked |-> FALSE]
      /\ \A p \in Pid, i \in 1 .. MaxWaiting : m.pcb[p].waiting[i].pid = 0
  BY InitMachine DEF DinnerInit
<1>2. /\ d.forks = [f \in Seat |-> 1] /\ d.ids = [i \in Seat |-> i] /\ d.state = 0
      /\ d.local = [p \in Pid |-> [id |-> -1, j |-> 0, eaten |-> 0]]
      /\ d.pids = <<>> /\ d.answers = <<>>
  BY DinnerFields DEF DinnerInit
<1> HIDE DEF m, d
<1>3. Len(d.pids) = 0 /\ Len(d.answers) = 0
  BY <1>2
<1>4. DinnerTyped(d)
  BY <1>2 DEF DinnerTyped
<1>5. GuestCount(m, d) = 0
  BY <1>1, <1>3 DEF GuestCount
<1>6. \A p : ~Guest(m, d, p)
  BY <1>5 DEF Guest
<1>7. Philosophers \in Nat \ {0} /\ arbitrator # Null
  BY DinnerAssumption
<1>8. Null \notin Labels
  BY LabelsAreCode
<1>9. MainOk(m, d)
  <2>1. m.pcb[1].shared = [ptr |-> Null, locked |-> FALSE]
    <3>1. 1 \in Pid
      BY SizesAssumption
    <3> QED
      BY <1>1, <3>1
  <2>2. "main_dp" \notin {"spawn", "spawned", "asked", "done", Null}
    BY <1>8 DEF Labels
  <2> QED
    BY <2>1, <2>2, <1>1, <1>3, <1>7, <1>8 DEF MainOk, MainLabels, Labels
<1>10. GuestsOk(m, d)
  BY <1>1, <1>5, <1>7, <1>8 DEF GuestsOk, Labels
<1>11. WaitsOk(m, d)
  BY <1>1, <1>5 DEF WaitsOk
<1>12. StartOk(m, d)
  BY <1>2, <1>5 DEF StartOk
<1>13. \A p \in Pid : ~Holds(m, p)
  <2>1. \A p \in Pid : PcAt(m, p) \in {"main_dp", Null}
    BY <1>1
  <2> QED
    BY <1>8, <2>1 DEF Holds, InGetId, AtForks, Labels
<1>14. LockOk(m)
  BY <1>1, <1>13 DEF LockOk
<1>15. SeatsOk(m, d)
  <2>1. \A p \in Pid : d.local[p].id = -1
    BY <1>2
  <2>2. \A i \in Seat : d.ids[i] = i /\ i # -1
    BY <1>2, <1>7 DEF Seat
  <2>3. \A p \in Pid \ {1} : PcAt(m, p) \notin {"id_found"} \cup PastId
    BY <1>1, <1>8 DEF PastId, AtForks, Labels
  <2> QED
    BY <2>1, <2>2, <2>3 DEF SeatsOk
<1>16. ForksOk(m, d)
  BY <1>1, <1>2, <1>8 DEF ForksOk, Labels
<1>17. MealsOk(m, d)
  <2>1. \A p \in Pid \ {1} : MealAt(PcAt(m, p), d.local[p])
    BY <1>1, <1>2, <1>8, DinnerAssumption DEF MealAt, Labels, Early, NoSeat
  <2> QED
    BY <1>1, <1>3, <2>1 DEF MealsOk
<1> QED
  BY <1>1, <1>4, <1>9, <1>10, <1>11, <1>12, <1>14, <1>15, <1>16, <1>17 DEF Fine, FineNow, m, d

-----------------------------------------------------------------------------
(* The properties of the runs, in terms of the invariant                   *)

LEMMA ContextNow ==
  ASSUME NEW p \in Pid
  PROVE  /\ UserCtx(p).pc = PcAt(Now, p) /\ UserCtx(p).r0 = R0At(Now, p)
         /\ UserCtx(p)'.pc = PcAt(Now', p) /\ UserCtx(p)'.r0 = R0At(Now', p)
BY DEF UserCtx, PcAt, R0At, RegistersOf, Now

LEMMA HoldersPlaces ==
  ASSUME NEW m, NEW p, Holds(m, p)
  PROVE  PcAt(m, p) # Null
<1>1. PcAt(m, p) \in Labels
  BY DEF Holds, InGetId, AtForks, Labels
<1> QED
  BY <1>1, LabelsAreCode

LEMMA HoldingIs ==
  ASSUME FineNow, NEW p \in Pid
  PROVE  Holding(p) <=> Holds(Now, p)
<1>1. Active(Now, p) <=> PcAt(Now, p) # Null
  BY ActiveAt DEF FineNow, Fine
<1> QED
  BY <1>1, ContextNow, HoldersPlaces DEF Holding, Holds

LEMMA HoldingNextIs ==
  ASSUME FineNow', NEW p \in Pid
  PROVE  Holding(p)' <=> Holds(Now', p)
<1>1. Active(Now', p) <=> PcAt(Now', p) # Null
  BY ActiveAt DEF FineNow, Fine
<1>2. Active(Now, p)' <=> Active(Now', p)
  BY DEF Active
<1> QED
  BY <1>1, <1>2, ContextNow, HoldersPlaces DEF Holding, Holds

(* A step gives the lock to nobody, to c, or takes it from c.              *)
LEMMA LockMoves ==
  ASSUME NEW m, NEW n, LockOk(m), LockOk(n), NEW c \in Pid, OneMoves(m, n, c)
  PROVE  LET H == {p \in Pid : Holds(m, p)}
             K == {p \in Pid : Holds(n, p)}
         IN  K = H \/ (H = {} /\ K = {c}) \/ (H = {c} /\ K = {})
<1>1. CASE Holds(m, c) <=> Holds(n, c)
  BY <1>1 DEF OneMoves
<1>2. CASE Holds(m, c) /\ ~Holds(n, c)
  BY <1>2 DEF OneMoves, LockOk
<1>3. CASE ~Holds(m, c) /\ Holds(n, c)
  BY <1>3 DEF OneMoves, LockOk
<1> QED
  BY <1>1, <1>2, <1>3

LEMMA ForksInHands ==
  ASSUME NEW p \in Pid, NEW f \in ForksAt(PcAt(Now, p), Dinner.local[p].id)
  PROVE  f \in ForksOf(p)
BY ContextNow, DinnerFields DEF ForksAt, ForksOf

LEMMA FineTable ==
  ASSUME FineNow
  PROVE  TableInOrder
<1>1. \A p \in Pid : Holding(p) <=> Holds(Now, p)
  BY HoldingIs
<1>2. 1 \in Pid
  BY SizesAssumption
<1>3. Active(Now, 1) => PcAt(Now, 1) # Null
  BY <1>2, ActiveAt DEF FineNow, Fine
<1>4. pcb[1].shared.locked \in BOOLEAN
  BY <1>2, SharedRow, SoundParts, DinnerFields DEF FineNow, Fine
<1>5. PcAt(Now, 1) # Null =>
        (pcb[1].shared.locked = TRUE <=> \E p \in Pid : Holds(Now, p))
  BY DinnerFields DEF FineNow, Fine, LockOk
<1>6. ASSUME NEW f \in Seat, forks[f] = 0
      PROVE  \E p \in Pid : Holding(p) /\ f \in ForksOf(p)
  <2>1. PICK p \in Pid : Holds(Now, p) /\ f \in ForksAt(PcAt(Now, p), Dinner.local[p].id)
    BY <1>6, DinnerFields DEF FineNow, Fine, ForksOk
  <2> QED
    BY <1>1, <2>1, ForksInHands
<1> QED
  BY <1>1, <1>3, <1>4, <1>5, <1>6 DEF TableInOrder

LEMMA FineSeats ==
  ASSUME FineNow
  PROVE  SeatsTakenOnce
<1> SUFFICES ASSUME NEW p \in ActivePids(Now), NEW q \in ActivePids(Now)
             PROVE  /\ local[p].id # -1 /\ local[p].id = local[q].id => p = q
                    /\ UserCtx(p).pc \in {"await", "think", "hungry", "forks"} \cup AtForks
                         => local[p].id \in Seat
  BY DEF SeatsTakenOnce
<1>1. p \in Pid /\ q \in Pid /\ PcAt(Now, p) # Null /\ PcAt(Now, q) # Null
  BY ActiveAt DEF ActivePids, FineNow, Fine
<1>2. SeatsOk(Now, Dinner) /\ MainOk(Now, Dinner)
  BY DEF FineNow, Fine
<1>3. local[p].id # -1 /\ local[p].id = local[q].id => p = q
  BY <1>1, <1>2, DinnerFields DEF SeatsOk
<1>4. CASE p # 1
  <2>1. PcAt(Now, p) \in PastId => local[p].id \in Seat
    BY <1>1, <1>2, <1>4, DinnerFields DEF SeatsOk
  <2> QED
    BY <1>1, <1>3, <2>1, ContextNow DEF PastId
<1>5. CASE p = 1
  <2>1. PcAt(Now, p) \in MainLabels
    BY <1>1, <1>2, <1>5 DEF MainOk
  <2>2. UserCtx(p).pc \notin {"await", "think", "hungry", "forks"} \cup AtForks
    BY <1>1, <2>1, ContextNow DEF MainLabels, AtForks
  <2> QED
    BY <1>3, <2>2
<1> QED
  BY <1>4, <1>5

-----------------------------------------------------------------------------
(* The theorems                                                            *)

(* However the timer cuts in, the dinner stays in order: this is the       *)
(* inductive invariant of the theorems below.                              *)
THEOREM DinnerStaysFine == DinnerSpec => []FineNow
<1>1. DinnerInit => FineNow
  BY DinnerInitFine
<1>2. FineNow /\ [DinnerNext]_dpvars => FineNow'
  BY DinnerStepFine DEF FineNow, FineStep
<1> QED
  BY <1>1, <1>2, PTL DEF DinnerSpec

(* The lock bit of the first process's PCB, as lockm and unlockm use it,   *)
(* is a mutex: for any number of philosophers no two are between lockm and *)
(* unlockm (libc.c:253-286, processes.c:145-173).                          *)
THEOREM ArbitratorIsMutex == DinnerSpec => LockIsMutex
<1> DEFINE H == {p \in Pid : Holding(p)}
<1>1. DinnerInit => ArbitratorLock!Init
  <2> SUFFICES ASSUME DinnerInit
               PROVE  H = {}
    BY DEF ArbitratorLock!Init
  <2>1. \A p \in Pid : PcAt(Now, p) \in {"main_dp", Null}
    BY InitMachine DEF DinnerInit
  <2>2. \A p \in Pid : ~Holds(Now, p)
    BY <2>1, HoldersPlaces DEF Holds, InGetId, AtForks
  <2> QED
    BY <2>2, HoldingIs, DinnerInitFine
<1>2. FineNow /\ [DinnerNext]_dpvars => [ArbitratorLock!Next]_H
  <2> SUFFICES ASSUME FineNow, [DinnerNext]_dpvars
               PROVE  ArbitratorLock!Next \/ H' = H
    OBVIOUS
  <2>1. FineNow' /\ \E c \in Pid : OneMoves(Now, Now', c)
    BY DinnerStepFine DEF FineNow, FineStep
  <2>2. PICK c \in Pid : OneMoves(Now, Now', c)
    BY <2>1
  <2>3. H = {p \in Pid : Holds(Now, p)}
    BY HoldingIs
  <2>4. H' = {p \in Pid : Holds(Now', p)}
    BY <2>1, HoldingNextIs
  <2>5. LockOk(Now) /\ LockOk(Now')
    BY <2>1 DEF FineNow, Fine
  <2>6. H' = H \/ (H = {} /\ H' = {c}) \/ (H = {c} /\ H' = {})
    <3> DEFINE G == {p \in Pid : Holds(Now, p)}
               K == {p \in Pid : Holds(Now', p)}
    <3>1. K = G \/ (G = {} /\ K = {c}) \/ (G = {c} /\ K = {})
      BY <2>2, <2>5, LockMoves
    <3>2. H = G /\ H' = K
      BY <2>3, <2>4
    <3> HIDE DEF H, G, K
    <3> QED
      BY <3>1, <3>2
  <2> QED
    BY <2>6 DEF ArbitratorLock!Next, ArbitratorLock!Acquire, ArbitratorLock!Release
<1> QED
  BY <1>1, <1>2, DinnerStaysFine, PTL
     DEF DinnerSpec, LockIsMutex, ArbitratorLock!Spec

(* The lock bit says whether somebody holds the lock, and a fork that is   *)
(* off the table is in the hands of its holder, for any number of          *)
(* philosophers (dinning_philosophers.c:33-56, 76-89).                     *)
THEOREM TableStaysInOrder == DinnerSpec => []TableInOrder
<1>1. FineNow => TableInOrder
  BY FineTable
<1> QED
  BY <1>1, DinnerStaysFine, PTL

(* get_id gives every philosopher an id of its own, for any number of them *)
(* (dinning_philosophers.c:16-31).                                         *)
THEOREM SeatsAreTakenOnce == DinnerSpec => []SeatsTakenOnce
<1>1. FineNow => SeatsTakenOnce
  BY FineSeats
<1> QED
  BY <1>1, DinnerStaysFine, PTL

(* With two philosophers or more, and however many rounds, every exit      *)
(* status main_dp collects is the number of rounds: no meal is missed and  *)
(* no status is another philosopher's or lost                              *)
(* (dinning_philosophers.c:72-92, 126-131; system_calls.c:211-233).        *)
THEOREM EveryRoundIsAMeal ==
  ASSUME Philosophers > 1
  PROVE  DinnerSpec => []EveryRoundAMeal
<1>1. FineNow => EveryRoundAMeal
  BY DinnerFields DEF FineNow, Fine, MealsOk, EveryRoundAMeal
<1> QED
  BY <1>1, DinnerStaysFine, PTL
=============================================================================
