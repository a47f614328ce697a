---------------------------- MODULE DiningInvariant ----------------------------
(***************************************************************************)
(* The inductive invariant of the philosophers, and how each kind of step  *)
(* keeps it, for every number of philosophers, of rounds, and of processes *)
(* and waits the kernel has room for.  m and n are the machine before and  *)
(* after a step, d and e what the program keeps.                           *)
(***************************************************************************)
EXTENDS DiningPhilosophers, ProgramProofs, FiniteSetTheorems

USE SizesAssumption, NullAssumption DEF Pid

Dinner ==
  [forks |-> forks, ids |-> ids, state |-> state, local |-> local,
   pids |-> philosopherPids, answers |-> answers]

-----------------------------------------------------------------------------
(* The philosophers that have been forked, in that order                   *)

GuestCount(m, d) == Len(d.pids) + IF PcAt(m, 1) = "spawned" THEN 1 ELSE 0

GuestAt(m, d, i) == IF i <= Len(d.pids) THEN d.pids[i] ELSE R0At(m, 1)

Guest(m, d, p) == \E i \in 1 .. GuestCount(m, d) : p = GuestAt(m, d, i)

-----------------------------------------------------------------------------
(* The inductive invariant                                                 *)

MainLabels == {"main_dp", "spawn", "spawned", "asked", "done"}
NoSeat == {"spawned", "philosopher", "get_id"}
PastId == {"got_id", "await", "think", "hungry", "forks"} \cup AtForks
Early == NoSeat \cup {"id_found", "got_id", "await"}
GuestLabels == NoSeat \cup {"id_found"} \cup PastId

DinnerTyped(d) ==
  /\ d.forks \in [Seat -> {0, 1}]
  /\ d.ids \in [Seat -> Seat \cup {-1}]
  /\ d.state \in {0, 1}
  /\ d.local \in [Pid -> [id : Seat \cup {-1}, j : Nat, eaten : Nat]]
  /\ d.pids \in Seq(Pid)
  /\ d.answers \in Seq(Int)

(* main_dp counts up to the number of philosophers, twice.                 *)
MainOk(m, d) ==
  /\ PcAt(m, 1) \in MainLabels \cup {Null}
  /\ Len(d.pids) <= Philosophers /\ Len(d.answers) <= Philosophers
  /\ Len(d.answers) > 0 => Len(d.pids) = Philosophers
  /\ PcAt(m, 1) = "main_dp" =>
       Len(d.pids) = 0 /\ m.pcb[1].shared = [ptr |-> Null, locked |-> FALSE]
  /\ PcAt(m, 1) \in {"spawn", "spawned", "asked"} => m.pcb[1].shared.ptr = arbitrator
  /\ PcAt(m, 1) = "spawned" => Len(d.pids) < Philosophers
  /\ PcAt(m, 1) = "asked" =>
       /\ Len(d.pids) = Philosophers /\ Len(d.answers) < Philosophers
       /\ R0At(m, 1) \in Nat \cup {-1}
  /\ PcAt(m, 1) \in {"done", Null} =>
       Len(d.pids) = Philosophers /\ Len(d.answers) = Philosophers

(* Everybody else is a philosopher, forked by main_dp.                     *)
GuestsOk(m, d) ==
  /\ \A i \in 1 .. GuestCount(m, d) : GuestAt(m, d, i) \in Pid \ {1}
  /\ \A i, j \in 1 .. GuestCount(m, d) : GuestAt(m, d, i) = GuestAt(m, d, j) => i = j
  /\ \A p \in Pid \ {1} :
       /\ PcAt(m, p) \in GuestLabels \cup {Null}
       /\ PcAt(m, p) # Null => Guest(m, d, p) /\ m.pcb[p].ppid = 1
       /\ PcAt(m, p) = "spawned" => R0At(m, p) = 0
       /\ PcAt(m, p) \in {"get_id", "forks"} => R0At(m, p) \in {0, 1}
       /\ m.pcb[p].shared.ptr # arbitrator

(* main_dp has an entry for each of them until it has collected the        *)
(* status, and an answer in it when the philosopher has gone.              *)
Awaited(m, t) ==
  \E i \in 1 .. MaxWaiting :
    /\ m.pcb[1].waiting[i].pid = t
    /\ \/ m.pcb[1].waiting[i].result = -1
       \/ PcAt(m, t) = Null /\ m.pcb[1].waiting[i].result \in Nat

Collected(m, d, i) ==
  \/ i <= Len(d.answers)
  \/ i = Len(d.answers) + 1 /\ PcAt(m, 1) = "asked" /\ R0At(m, 1) # -1

WaitsOk(m, d) ==
  /\ \A i \in 1 .. GuestCount(m, d) :
       IF Collected(m, d, i) THEN PcAt(m, GuestAt(m, d, i)) = Null
                             ELSE Awaited(m, GuestAt(m, d, i))
  /\ \A i \in 1 .. MaxWaiting :
       LET t == m.pcb[1].waiting[i].pid IN t # 0 => Guest(m, d, t)

(* Nobody goes past await before all philosophers have been forked.        *)
StartOk(m, d) ==
  /\ d.state = 0 => \A i \in 1 .. GuestCount(m, d) : PcAt(m, GuestAt(m, d, i)) \in Early
  /\ d.state = 1 => GuestCount(m, d) = Philosophers

(* p has the arbitrator's lock.                                            *)
Holds(m, p) ==
  \/ PcAt(m, p) \in InGetId \cup AtForks
  \/ PcAt(m, p) \in {"get_id", "forks"} /\ R0At(m, p) # 0

LockOk(m) ==
  /\ \A p, q \in Pid : Holds(m, p) /\ Holds(m, q) => p = q
  /\ PcAt(m, 1) # Null => (m.pcb[1].shared.locked = TRUE <=> \E p \in Pid : Holds(m, p))

(* Ids are handed out in order, each to one philosopher, who keeps it.     *)
SeatsOk(m, d) ==
  /\ \A i \in Seat : d.ids[i] \in {i, -1}
  /\ \A p \in Pid : ~Guest(m, d, p) => d.local[p].id = -1
  /\ \A i \in Seat : d.ids[i] = -1 =>
       /\ \E p \in Pid : /\ Guest(m, d, p) /\ d.local[p].id = i
                         /\ PcAt(m, p) \in PastId \cup {Null}
       /\ \A j \in Seat : j < i => d.ids[j] = -1
  /\ \A p \in Pid \ {1} :
       /\ PcAt(m, p) \in NoSeat => d.local[p].id = -1
       /\ PcAt(m, p) = "id_found" =>
            /\ d.local[p].id \in Seat
            /\ d.ids[d.local[p].id] # -1
            /\ \A j \in Seat : j < d.local[p].id => d.ids[j] = -1
       /\ PcAt(m, p) \in PastId => d.local[p].id \in Seat /\ d.ids[d.local[p].id] = -1
  /\ \A p, q \in Pid :
       /\ PcAt(m, p) # Null /\ PcAt(m, q) # Null
       /\ d.local[p].id # -1 /\ d.local[p].id = d.local[q].id
       => p = q

(* The forks in the hands of a philosopher with that id, at that label.    *)
ForksAt(l, id) ==
  {f \in Seat : \/ f = id /\ l \in {"left", "eat", "only_left"}
                \/ f = Right(id) /\ l \in {"eat", "only_right"}}

(* A fork is off the table in the hands of whoever has the lock.           *)
ForksOk(m, d) ==
  /\ \A f \in Seat : d.forks[f] = 0 =>
       \E p \in Pid : Holds(m, p) /\ f \in ForksAt(PcAt(m, p), d.local[p].id)
  /\ \A p \in Pid : PcAt(m, p) \notin {"no_left", "only_right", "no_fork"}

(* What a philosopher at l has counted; with two or more of them there is  *)
(* always a second fork.                                                   *)
MealAt(l, x) ==
  /\ l # "only_left" /\ x.j <= Rounds
  /\ l \in Early \ {"spawned"} => x.j = 0 /\ x.eaten = 0
  /\ l \in {"think", "full"} => x.eaten = x.j
  /\ l \in {"hungry", "forks", "left", "eat"} => x.eaten = x.j - 1

MealsOk(m, d) ==
  Philosophers > 1 =>
    /\ \A p \in Pid \ {1} : MealAt(PcAt(m, p), d.local[p])
    /\ \A i \in 1 .. MaxWaiting :
         m.pcb[1].waiting[i].pid # 0 => m.pcb[1].waiting[i].result \in {-1, Rounds}
    /\ PcAt(m, 1) = "asked" => R0At(m, 1) \in {-1, Rounds}
    /\ \A i \in 1 .. Len(d.answers) : d.answers[i] = Rounds

Fine(m, d) ==
  /\ Sound(m) /\ DinnerTyped(d)
  /\ MainOk(m, d) /\ GuestsOk(m, d) /\ WaitsOk(m, d)
  /\ StartOk(m, d) /\ LockOk(m) /\ SeatsOk(m, d)
  /\ ForksOk(m, d) /\ MealsOk(m, d)

LEMMA LabelsAreCode ==
  /\ \A l \in Labels : l \in Code /\ l # Null
  /\ MainLabels \subseteq Labels /\ GuestLabels \subseteq Labels
BY DinnerAssumption
   DEF Labels, MainLabels, GuestLabels, NoSeat, PastId, AtForks

LEMMA CountsTyped ==
  ASSUME NEW m, NEW d, DinnerTyped(d)
  PROVE  /\ Len(d.pids) \in Nat /\ Len(d.answers) \in Nat /\ GuestCount(m, d) \in Nat
         /\ PcAt(m, 1) = "spawned" => GuestCount(m, d) = Len(d.pids) + 1
         /\ PcAt(m, 1) # "spawned" => GuestCount(m, d) = Len(d.pids)
<1>1. Len(d.pids) \in Nat /\ Len(d.answers) \in Nat
  BY DEF DinnerTyped
<1> DEFINE k == Len(d.pids)
<1>2. GuestCount(m, d) = k + IF PcAt(m, 1) = "spawned" THEN 1 ELSE 0
  BY DEF GuestCount
<1> HIDE DEF k
<1>3. CASE PcAt(m, 1) = "spawned"
  <2>1. GuestCount(m, d) = k + 1
    BY <1>2, <1>3
  <2> QED
    BY <1>1, <1>3, <2>1 DEF k
<1>4. CASE PcAt(m, 1) # "spawned"
  <2>1. GuestCount(m, d) = k + 0
    BY <1>2, <1>4
  <2> QED
    BY <1>1, <1>4, <2>1 DEF k
<1> QED
  BY <1>3, <1>4

(* Two members of S that f gives the same value.                           *)
Twice(f, S) == \E x, y \in S : x # y /\ f[x] = f[y]

LEMMA Pigeons ==
  ASSUME NEW a \in Nat, NEW b \in Nat, a > b, NEW f \in [1 .. a -> 1 .. b]
  PROVE  Twice(f, 1 .. a)
<1>1. /\ IsFiniteSet(1 .. a) /\ Cardinality(1 .. a) = a
      /\ IsFiniteSet(1 .. b) /\ Cardinality(1 .. b) = b
  BY FS_Interval
<1>2. \E x, y \in 1 .. a : x # y /\ f[x] = f[y]
  BY <1>1, FS_PigeonHole
<1> QED
  BY <1>2 DEF Twice

(* While a philosopher is at it, main_dp is between sharing the arbitrator *)
(* and taking it back.                                                     *)
LEMMA MainStays ==
  ASSUME NEW m, NEW d, Fine(m, d), NEW c \in Pid \ {1}, PcAt(m, c) # Null
  PROVE  PcAt(m, 1) \in {"spawn", "spawned", "asked"} /\ m.pcb[1].shared.ptr = arbitrator
<1>1. Guest(m, d, c)
  BY DEF Fine, GuestsOk
<1>2. PICK i \in 1 .. GuestCount(m, d) : c = GuestAt(m, d, i)
  BY <1>1 DEF Guest
<1>3. Len(d.pids) \in Nat /\ Len(d.answers) \in Nat
  BY CountsTyped DEF Fine
<1>4. PcAt(m, 1) # "main_dp"
  <2> SUFFICES ASSUME PcAt(m, 1) = "main_dp"
               PROVE  FALSE
    OBVIOUS
  <2>1. GuestCount(m, d) = Len(d.pids) /\ Len(d.pids) = 0
    BY CountsTyped DEF Fine, MainOk
  <2> QED
    BY <1>2, <2>1
<1>5. PcAt(m, 1) \notin {"done", Null}
  <2> SUFFICES ASSUME PcAt(m, 1) \in {"done", Null}
               PROVE  FALSE
    OBVIOUS
  <2>1. Len(d.answers) = Philosophers /\ Len(d.pids) = Philosophers
    BY DEF Fine, MainOk
  <2>2. PcAt(m, 1) # "spawned"
    BY LabelsAreCode DEF Labels
  <2>3. i <= Len(d.answers)
    BY <1>2, <1>3, <2>1, <2>2, CountsTyped DEF Fine
  <2>4. PcAt(m, c) = Null
    BY <1>2, <2>3 DEF Fine, WaitsOk, Collected
  <2> QED
    BY <2>4
<1>6. PcAt(m, 1) \in {"spawn", "spawned", "asked"}
  BY <1>4, <1>5 DEF Fine, MainOk, MainLabels
<1> QED
  BY <1>6 DEF Fine, MainOk

-----------------------------------------------------------------------------
(* A philosopher's step                                                    *)

(* Philosopher c goes to l, with r in the register of results.             *)
GuestStep(m, d, n, e, c, l, r) ==
  /\ c \in Pid \ {1} /\ PcAt(m, c) # Null
  /\ Sound(n)
  /\ PcAt(n, c) = l /\ R0At(n, c) = r /\ OthersStay(m, n, c)
  /\ SameWaits(m, n) /\ SameParents(m, n)
  /\ \A q \in Pid : n.pcb[q].shared.ptr = m.pcb[q].shared.ptr
  /\ l \in GuestLabels \ {"spawned"}
  /\ l \in {"get_id", "forks"} => r \in {0, 1}
  /\ DinnerTyped(e) /\ e.pids = d.pids /\ e.answers = d.answers
  /\ \A q \in Pid \ {c} : e.local[q] = d.local[q]

LEMMA GuestStepCounts ==
  ASSUME NEW m, NEW n, NEW d, NEW e, NEW c, NEW l, NEW r, Fine(m, d), GuestStep(m, d, n, e, c, l, r)
  PROVE  /\ PcAt(n, 1) = PcAt(m, 1) /\ R0At(n, 1) = R0At(m, 1) /\ PcAt(m, 1) # Null
         /\ GuestCount(n, e) = GuestCount(m, d)
         /\ \A i \in 1 .. GuestCount(m, d) : GuestAt(n, e, i) = GuestAt(m, d, i)
         /\ \A p : Guest(n, e, p) <=> Guest(m, d, p)
<1>1. PcAt(m, 1) \in {"spawn", "spawned", "asked"}
  BY MainStays DEF GuestStep
<1>2. PcAt(m, 1) # Null /\ 1 \in Pid \ {c}
  BY <1>1, LabelsAreCode DEF Labels, GuestStep
<1>3. PcAt(n, 1) = PcAt(m, 1) /\ R0At(n, 1) = R0At(m, 1)
  BY <1>2 DEF GuestStep, OthersStay
<1>4. GuestCount(n, e) = GuestCount(m, d) /\ \A i : GuestAt(n, e, i) = GuestAt(m, d, i)
  BY <1>3 DEF GuestCount, GuestAt, GuestStep
<1> QED
  BY <1>2, <1>3, <1>4 DEF Guest

LEMMA GuestStepKeeps ==
  ASSUME NEW m, NEW n, NEW d, NEW e, NEW c, NEW l, NEW r, Fine(m, d), GuestStep(m, d, n, e, c, l, r)
  PROVE  MainOk(n, e) /\ GuestsOk(n, e) /\ WaitsOk(n, e)
<1>1. /\ PcAt(n, 1) = PcAt(m, 1) /\ R0At(n, 1) = R0At(m, 1) /\ PcAt(m, 1) # Null
      /\ GuestCount(n, e) = GuestCount(m, d)
      /\ \A i \in 1 .. GuestCount(m, d) : GuestAt(n, e, i) = GuestAt(m, d, i)
      /\ \A p : Guest(n, e, p) <=> Guest(m, d, p)
  BY GuestStepCounts
<1>2. /\ m.pcb[1].shared.ptr = n.pcb[1].shared.ptr
      /\ PcAt(m, 1) \in {"spawn", "spawned", "asked"}
  BY MainStays DEF GuestStep
<1>3. MainOk(n, e)
  BY <1>1, <1>2 DEF Fine, MainOk, GuestStep
<1>4. l # Null /\ l \in GuestLabels /\ l # "spawned"
  BY LabelsAreCode DEF GuestStep
<1>5. GuestsOk(n, e)
  <2>1. \A i \in 1 .. GuestCount(n, e) : GuestAt(n, e, i) \in Pid \ {1}
    BY <1>1 DEF Fine, GuestsOk
  <2>2. \A i, j \in 1 .. GuestCount(n, e) : GuestAt(n, e, i) = GuestAt(n, e, j) => i = j
    BY <1>1 DEF Fine, GuestsOk
  <2>3. ASSUME NEW p \in Pid \ {1}
        PROVE  /\ PcAt(n, p) \in GuestLabels \cup {Null}
               /\ PcAt(n, p) # Null => Guest(n, e, p) /\ n.pcb[p].ppid = 1
               /\ PcAt(n, p) = "spawned" => R0At(n, p) = 0
               /\ PcAt(n, p) \in {"get_id", "forks"} => R0At(n, p) \in {0, 1}
               /\ n.pcb[p].shared.ptr # arbitrator
    <3>1. n.pcb[p].shared.ptr # arbitrator /\ n.pcb[p].ppid = m.pcb[p].ppid
      BY DEF Fine, GuestsOk, GuestStep, SameParents
    <3>2. CASE p = c
      BY <1>1, <1>4, <3>1, <3>2 DEF Fine, GuestsOk, GuestStep
    <3>3. CASE p # c
      <4>1. PcAt(n, p) = PcAt(m, p) /\ (PcAt(m, p) # Null => R0At(n, p) = R0At(m, p))
        BY <3>3 DEF GuestStep, OthersStay
      <4>2. Null \notin {"get_id", "forks", "spawned"}
        BY LabelsAreCode DEF Labels
      <4> QED
        BY <1>1, <3>1, <4>1, <4>2 DEF Fine, GuestsOk
    <3> QED
      BY <3>2, <3>3
  <2> QED
    BY <2>1, <2>2, <2>3 DEF GuestsOk
<1>6. WaitsOk(n, e)
  <2>1. \A i : Collected(n, e, i) <=> Collected(m, d, i)
    BY <1>1 DEF Collected, GuestStep
  <2>2. \A i \in 1 .. MaxWaiting : n.pcb[1].waiting[i] = m.pcb[1].waiting[i]
    BY DEF GuestStep, SameWaits
  <2>3. ASSUME NEW i \in 1 .. GuestCount(m, d), NEW t, t = GuestAt(m, d, i)
        PROVE  IF Collected(n, e, i) THEN PcAt(n, t) = Null ELSE Awaited(n, t)
    <3>1. IF Collected(m, d, i) THEN PcAt(m, t) = Null ELSE Awaited(m, t)
      BY <2>3 DEF Fine, WaitsOk
    <3>2. t \in Pid
      BY <2>3 DEF Fine, GuestsOk
    <3>3. CASE t = c
      BY <2>1, <2>2, <3>1, <3>3 DEF Awaited, GuestStep
    <3>4. CASE t # c
      <4>1. PcAt(n, t) = PcAt(m, t)
        BY <3>2, <3>4 DEF GuestStep, OthersStay
      <4> QED
        BY <2>1, <2>2, <3>1, <4>1 DEF Awaited
    <3> QED
      BY <3>3, <3>4
  <2>4. \A i \in 1 .. MaxWaiting :
          LET t == n.pcb[1].waiting[i].pid IN t # 0 => Guest(n, e, t)
    BY <1>1, <2>2 DEF Fine, WaitsOk
  <2> QED
    BY <1>1, <2>3, <2>4 DEF WaitsOk
<1> QED
  BY <1>3, <1>5, <1>6

(* Who holds the lock is up to c alone in a step of c.                     *)
OneMoves(m, n, c) == \A p \in Pid \ {c} : Holds(n, p) <=> Holds(m, p)

LEMMA OthersHold ==
  ASSUME NEW m, NEW n, NEW c, OthersStay(m, n, c)
  PROVE  OneMoves(m, n, c)
<1> SUFFICES ASSUME NEW p \in Pid \ {c}
             PROVE  Holds(n, p) <=> Holds(m, p)
  BY DEF OneMoves
<1>1. PcAt(n, p) = PcAt(m, p) /\ (PcAt(m, p) # Null => R0At(n, p) = R0At(m, p))
  BY DEF OthersStay
<1>2. Null \notin {"get_id", "forks"}
  BY LabelsAreCode DEF Labels
<1> QED
  BY <1>1, <1>2 DEF Holds

LEMMA StartKept ==
  ASSUME NEW m, NEW n, NEW d, NEW e, NEW c, NEW l, NEW r, Fine(m, d), GuestStep(m, d, n, e, c, l, r),
         e.state = d.state, PcAt(m, c) \in Early => l \in Early \/ d.state = 1
  PROVE  StartOk(n, e)
<1>1. /\ GuestCount(n, e) = GuestCount(m, d)
      /\ \A i \in 1 .. GuestCount(m, d) : GuestAt(n, e, i) = GuestAt(m, d, i)
  BY GuestStepCounts
<1>2. ASSUME d.state = 0, NEW i \in 1 .. GuestCount(m, d), NEW t, t = GuestAt(m, d, i)
      PROVE  PcAt(n, t) \in Early
  <2>1. PcAt(m, t) \in Early /\ t \in Pid
    BY <1>2 DEF Fine, StartOk, GuestsOk
  <2>2. CASE t = c
    BY <1>2, <2>1, <2>2 DEF GuestStep
  <2>3. CASE t # c
    BY <2>1, <2>3 DEF GuestStep, OthersStay
  <2> QED
    BY <2>2, <2>3
<1> QED
  BY <1>1, <1>2 DEF Fine, StartOk

LEMMA LockKept ==
  ASSUME NEW m, NEW n, NEW c \in Pid, OneMoves(m, n, c), LockOk(m),
         PcAt(n, 1) # Null => PcAt(m, 1) # Null,
         Holds(n, c) <=> Holds(m, c), n.pcb[1].shared.locked = m.pcb[1].shared.locked
  PROVE  LockOk(n)
BY DEF LockOk, OneMoves

LEMMA LockPassed ==
  ASSUME NEW m, NEW n, NEW c \in Pid, OneMoves(m, n, c), LockOk(m), PcAt(m, 1) # Null,
         \/ /\ m.pcb[1].shared.locked = FALSE /\ Holds(n, c)
            /\ n.pcb[1].shared.locked = TRUE
         \/ /\ Holds(m, c) /\ ~Holds(n, c)
            /\ n.pcb[1].shared.locked = FALSE
  PROVE  LockOk(n)
BY DEF LockOk, OneMoves

(* The list of ids is not touched, nor is the id of c.                     *)
LEMMA SeatsKept ==
  ASSUME NEW m, NEW n, NEW d, NEW e, NEW c, NEW l, NEW r, Fine(m, d), GuestStep(m, d, n, e, c, l, r),
         e.ids = d.ids, e.local[c].id = d.local[c].id,
         PcAt(m, c) \in PastId <=> l \in PastId,
         l \in NoSeat => PcAt(m, c) \in NoSeat,
         l # "id_found"
  PROVE  SeatsOk(n, e)
<1>1. \A p : Guest(n, e, p) <=> Guest(m, d, p)
  BY GuestStepCounts
<1>2. /\ c \in Pid \ {1} /\ PcAt(n, c) = l /\ PcAt(m, c) # Null
      /\ \A q \in Pid \ {c} : PcAt(n, q) = PcAt(m, q)
      /\ \A q \in Pid : e.local[q].id = d.local[q].id
  BY DEF GuestStep, OthersStay
<1>3. l # Null
  BY LabelsAreCode DEF GuestStep
<1>4. SeatsOk(m, d)
  BY DEF Fine
<1>5. \A i \in Seat : e.ids[i] \in {i, -1}
  BY <1>4 DEF SeatsOk
<1>6. \A p \in Pid : ~Guest(n, e, p) => e.local[p].id = -1
  BY <1>1, <1>2, <1>4 DEF SeatsOk
<1>7. ASSUME NEW i \in Seat, e.ids[i] = -1
      PROVE  /\ \E p \in Pid : /\ Guest(n, e, p) /\ e.local[p].id = i
                               /\ PcAt(n, p) \in PastId \cup {Null}
             /\ \A j \in Seat : j < i => e.ids[j] = -1
  BY <1>1, <1>2, <1>4, <1>7 DEF SeatsOk
<1>8. ASSUME NEW p \in Pid \ {1}
      PROVE  /\ PcAt(n, p) \in NoSeat => e.local[p].id = -1
             /\ PcAt(n, p) = "id_found" =>
                  /\ e.local[p].id \in Seat
                  /\ e.ids[e.local[p].id] # -1
                  /\ \A j \in Seat : j < e.local[p].id => e.ids[j] = -1
             /\ PcAt(n, p) \in PastId => e.local[p].id \in Seat /\ e.ids[e.local[p].id] = -1
  <2>1. CASE p = c
    BY <1>2, <1>4, <2>1 DEF SeatsOk
  <2>2. CASE p # c
    BY <1>2, <1>4, <2>2 DEF SeatsOk
  <2> QED
    BY <2>1, <2>2
<1>9. \A p, q \in Pid :
        /\ PcAt(n, p) # Null /\ PcAt(n, q) # Null
        /\ e.local[p].id # -1 /\ e.local[p].id = e.local[q].id
        => p = q
  BY <1>2, <1>3, <1>4 DEF SeatsOk
<1> QED
  BY <1>5, <1>6, <1>7, <1>8, <1>9 DEF SeatsOk

LEMMA GuestBound ==
  ASSUME NEW m, NEW d, Fine(m, d)
  PROVE  GuestCount(m, d) <= Philosophers /\ GuestCount(m, d) \in Nat
<1>1. Len(d.pids) <= Philosophers /\ (PcAt(m, 1) = "spawned" => Len(d.pids) < Philosophers)
  BY DEF Fine, MainOk
<1> QED
  BY <1>1, CountsTyped, DinnerAssumption DEF Fine

(* k ids that are handed out have k owners, and c is one more.             *)
LEMMA EnoughGuests ==
  ASSUME NEW m, NEW d, Fine(m, d), NEW c \in Pid \ {1}, PcAt(m, c) # Null,
         NEW k \in 0 .. Philosophers, \A j \in Seat : j < k => d.ids[j] = -1,
         d.local[c].id \notin 0 .. k - 1
  PROVE  GuestCount(m, d) >= k + 1
<1> DEFINE g == GuestCount(m, d)
           Owns(x, i) == IF x = k + 1 THEN GuestAt(m, d, i) = c
                                      ELSE d.local[GuestAt(m, d, i)].id = x - 1
           f == [x \in 1 .. k + 1 |-> CHOOSE i \in 1 .. g : Owns(x, i)]
<1>0. g \in Nat /\ k \in Nat /\ Philosophers \in Nat
  BY GuestBound, DinnerAssumption
<1> HIDE DEF g
<1>1. ASSUME NEW x \in 1 .. k + 1
      PROVE  \E i \in 1 .. g : Owns(x, i)
  <2>1. CASE x = k + 1
    <3>1. Guest(m, d, c)
      BY DEF Fine, GuestsOk
    <3> QED
      BY <2>1, <3>1 DEF Guest, g
  <2>2. CASE x # k + 1
    <3>1. x - 1 \in Seat /\ x - 1 < k
      BY <1>0, <2>2 DEF Seat
    <3>2. \E p \in Pid : Guest(m, d, p) /\ d.local[p].id = x - 1
      BY <3>1 DEF Fine, SeatsOk
    <3> QED
      BY <2>2, <3>2 DEF Guest, g
  <2> QED
    BY <2>1, <2>2
<1>2. ASSUME NEW x \in 1 .. k + 1
      PROVE  f[x] \in 1 .. g /\ Owns(x, f[x])
  BY <1>1, <1>2, Zenon
<1>3. ASSUME NEW x \in 1 .. k + 1, NEW y \in 1 .. k + 1, f[x] = f[y]
      PROVE  x = y
  <2>1. Owns(x, f[x]) /\ Owns(y, f[x])
    BY <1>2, <1>3
  <2> HIDE DEF f
  <2>2. CASE x # k + 1 /\ y # k + 1
    BY <1>0, <2>1, <2>2
  <2>3. CASE x = k + 1 /\ y # k + 1
    <3>1. d.local[c].id = y - 1
      BY <2>1, <2>3
    <3> QED
      BY <1>0, <2>3, <3>1
  <2>4. CASE x # k + 1 /\ y = k + 1
    <3>1. d.local[c].id = x - 1
      BY <2>1, <2>4
    <3> QED
      BY <1>0, <2>4, <3>1
  <2>5. CASE x = k + 1 /\ y = k + 1
    BY <2>5
  <2> QED
    BY <2>2, <2>3, <2>4, <2>5
<1>4. f \in [1 .. k + 1 -> 1 .. g]
  BY <1>2
<1> HIDE DEF f, Owns
<1>5. ~(k + 1 > g)
  <2> SUFFICES ASSUME k + 1 > g
               PROVE  FALSE
    OBVIOUS
  <2>1. \E x, y \in 1 .. k + 1 : x # y /\ f[x] = f[y]
    <3> DEFINE a == k + 1
    <3>1. a \in Nat /\ g \in Nat /\ a > g /\ f \in [1 .. a -> 1 .. g]
      BY <1>0, <1>4
    <3> HIDE DEF a
    <3>2. Twice(f, 1 .. a)
      BY <3>1, Pigeons
    <3> QED
      BY <3>2 DEF a, Twice
  <2> QED
    BY <1>3, <2>1
<1> QED
  BY <1>0, <1>5 DEF g

(* Who looks for an id finds one.                                          *)
LEMMA SomeIdFree ==
  ASSUME NEW m, NEW d, Fine(m, d), NEW c \in Pid \ {1}, PcAt(m, c) \in NoSeat
  PROVE  \E i \in Seat : d.ids[i] # -1
<1> SUFFICES ASSUME \A i \in Seat : d.ids[i] = -1
             PROVE  FALSE
  OBVIOUS
<1>1. Philosophers \in 0 .. Philosophers /\ Philosophers \in Nat
  BY DinnerAssumption
<1>2. PcAt(m, c) # Null
  BY LabelsAreCode DEF GuestLabels
<1>3. d.local[c].id \notin 0 .. Philosophers - 1
  BY DEF Fine, SeatsOk
<1>4. GuestCount(m, d) >= Philosophers + 1
  BY <1>1, <1>2, <1>3, EnoughGuests
<1> QED
  BY <1>1, <1>4, GuestBound

LEMMA IdFound ==
  ASSUME NEW m, NEW n, NEW d, NEW e, NEW c, NEW r, Fine(m, d),
         GuestStep(m, d, n, e, c, "id_found", r),
         PcAt(m, c) = "get_id", Holds(m, c),
         NEW i \in Seat, d.ids[i] # -1, \A j \in Seat : j < i => d.ids[j] = -1,
         e.ids = d.ids, e.local[c].id = i
  PROVE  SeatsOk(n, e)
<1>1. \A p : Guest(n, e, p) <=> Guest(m, d, p)
  BY GuestStepCounts
<1>2. /\ c \in Pid \ {1} /\ PcAt(n, c) = "id_found" /\ PcAt(m, c) # Null
      /\ \A q \in Pid \ {c} : PcAt(n, q) = PcAt(m, q) /\ e.local[q].id = d.local[q].id
  BY DEF GuestStep, OthersStay
<1>3. SeatsOk(m, d) /\ LockOk(m)
  BY DEF Fine
<1>4. d.local[c].id = -1
  BY <1>2, <1>3 DEF SeatsOk, NoSeat
<1>5. Guest(m, d, c) /\ ~Guest(m, d, 1)
  BY <1>2 DEF Fine, GuestsOk, Guest
<1>6. \A k \in Seat : e.ids[k] \in {k, -1}
  BY <1>3 DEF SeatsOk
<1>7. \A p \in Pid : ~Guest(n, e, p) => e.local[p].id = -1
  BY <1>1, <1>2, <1>3, <1>5 DEF SeatsOk
<1>8. ASSUME NEW k \in Seat, e.ids[k] = -1
      PROVE  /\ \E p \in Pid : /\ Guest(n, e, p) /\ e.local[p].id = k
                               /\ PcAt(n, p) \in PastId \cup {Null}
             /\ \A j \in Seat : j < k => e.ids[j] = -1
  <2>1. PICK p \in Pid : /\ Guest(m, d, p) /\ d.local[p].id = k
                         /\ PcAt(m, p) \in PastId \cup {Null}
    BY <1>3, <1>8 DEF SeatsOk
  <2>2. p # c
    BY <1>4, <2>1 DEF Seat
  <2>3. \A j \in Seat : j < k => e.ids[j] = -1
    BY <1>3, <1>8 DEF SeatsOk
  <2> QED
    BY <1>1, <1>2, <2>1, <2>2, <2>3
<1>9. ASSUME NEW p \in Pid \ {1}
      PROVE  /\ PcAt(n, p) \in NoSeat => e.local[p].id = -1
             /\ PcAt(n, p) = "id_found" =>
                  /\ e.local[p].id \in Seat
                  /\ e.ids[e.local[p].id] # -1
                  /\ \A j \in Seat : j < e.local[p].id => e.ids[j] = -1
             /\ PcAt(n, p) \in PastId => e.local[p].id \in Seat /\ e.ids[e.local[p].id] = -1
  <2>1. CASE p = c
    BY <1>2, <2>1 DEF NoSeat, PastId, AtForks
  <2>2. CASE p # c
    BY <1>2, <1>3, <2>2 DEF SeatsOk
  <2> QED
    BY <2>1, <2>2
<1>10. ASSUME NEW p \in Pid, p # c, PcAt(m, p) # Null
       PROVE  d.local[p].id # i
  <2>1. CASE p = 1
    BY <1>3, <1>5, <2>1 DEF SeatsOk, Seat
  <2>2. CASE p # 1
    <3>1. PcAt(m, p) \in GuestLabels
      BY <1>10, <2>2 DEF Fine, GuestsOk
    <3>2. PcAt(m, p) # "id_found"
      BY <1>2, <1>3, <1>10 DEF LockOk, Holds, InGetId
    <3>3. PcAt(m, p) \in NoSeat \/ PcAt(m, p) \in PastId
      BY <3>1, <3>2 DEF GuestLabels
    <3> QED
      BY <1>3, <2>2, <3>3 DEF SeatsOk, Seat
  <2> QED
    BY <2>1, <2>2
<1>11. \A p, q \in Pid :
        /\ PcAt(n, p) # Null /\ PcAt(n, q) # Null
        /\ e.local[p].id # -1 /\ e.local[p].id = e.local[q].id
        => p = q
  BY <1>2, <1>3, <1>10 DEF SeatsOk
<1> QED
  BY <1>6, <1>7, <1>8, <1>9, <1>11 DEF SeatsOk

(* c's id is not free any more, and with the last one the dinner starts.   *)
IdGone(d, e, c) ==
  /\ e.ids = [d.ids EXCEPT ![d.local[c].id] = -1]
  /\ e.state = IF d.local[c].id = Philosophers - 1 THEN 1 ELSE d.state

LEMMA IdTaken ==
  ASSUME NEW m, NEW n, NEW d, NEW e, NEW c, NEW r, Fine(m, d),
         GuestStep(m, d, n, e, c, "got_id", r),
         PcAt(m, c) = "id_found", IdGone(d, e, c), e.local = d.local
  PROVE  SeatsOk(n, e) /\ StartOk(n, e)
<1> DEFINE i == d.local[c].id
<1>0. /\ d.ids \in [Seat -> Seat \cup {-1}]
      /\ SeatsOk(m, d) /\ LockOk(m)
  BY DEF Fine, DinnerTyped
<1>1. /\ \A p : Guest(n, e, p) <=> Guest(m, d, p)
      /\ GuestCount(n, e) = GuestCount(m, d)
      /\ \A j \in 1 .. GuestCount(m, d) : GuestAt(n, e, j) = GuestAt(m, d, j)
  BY GuestStepCounts
<1>2. /\ c \in Pid \ {1} /\ PcAt(n, c) = "got_id" /\ PcAt(m, c) # Null
      /\ \A q \in Pid \ {c} : PcAt(n, q) = PcAt(m, q)
  BY DEF GuestStep, OthersStay
<1>3. i \in Seat /\ d.ids[i] # -1 /\ \A j \in Seat : j < i => d.ids[j] = -1
  BY <1>0, <1>2 DEF SeatsOk
<1>4. Guest(m, d, c)
  BY <1>2 DEF Fine, GuestsOk
<1>5. e.ids[i] = -1 /\ \A j \in Seat : j # i => e.ids[j] = d.ids[j]
  BY <1>0, <1>3 DEF IdGone
<1>6. "got_id" \in PastId /\ "got_id" \notin NoSeat /\ "got_id" \in Early
  BY DEF PastId, NoSeat, Early
<1> HIDE DEF i
<1>7. SeatsOk(n, e)
  <2>1. \A k \in Seat : e.ids[k] \in {k, -1}
    BY <1>0, <1>5 DEF SeatsOk
  <2>2. \A p \in Pid : ~Guest(n, e, p) => e.local[p].id = -1
    BY <1>0, <1>1 DEF SeatsOk
  <2>3. ASSUME NEW k \in Seat, e.ids[k] = -1
        PROVE  /\ \E p \in Pid : /\ Guest(n, e, p) /\ e.local[p].id = k
                                 /\ PcAt(n, p) \in PastId \cup {Null}
               /\ \A j \in Seat : j < k => e.ids[j] = -1
    <3>1. CASE k = i
      <4>1. \A j \in Seat : j < k => j # i
        BY <1>3, <3>1 DEF Seat
      <4> QED
        BY <1>1, <1>2, <1>3, <1>4, <1>5, <1>6, <3>1, <4>1 DEF i
    <3>2. CASE k # i
      <4>1. d.ids[k] = -1
        BY <1>5, <2>3, <3>2
      <4>2. PICK p \in Pid : /\ Guest(m, d, p) /\ d.local[p].id = k
                             /\ PcAt(m, p) \in PastId \cup {Null}
        BY <1>0, <4>1 DEF SeatsOk
      <4>3. p # c
        BY <3>2, <4>2 DEF i
      <4>4. \A j \in Seat : j < k => d.ids[j] = -1
        BY <1>0, <4>1 DEF SeatsOk
      <4> QED
        BY <1>1, <1>2, <1>5, <4>2, <4>3, <4>4
    <3> QED
      BY <3>1, <3>2
  <2>4. ASSUME NEW p \in Pid \ {1}
        PROVE  /\ PcAt(n, p) \in NoSeat => e.local[p].id = -1
               /\ PcAt(n, p) = "id_found" =>
                    /\ e.local[p].id \in Seat
                    /\ e.ids[e.local[p].id] # -1
                    /\ \A j \in Seat : j < e.local[p].id => e.ids[j] = -1
               /\ PcAt(n, p) \in PastId => e.local[p].id \in Seat /\ e.ids[e.local[p].id] = -1
    <3>1. CASE p = c
      BY <1>2, <1>3, <1>5, <1>6, <3>1 DEF i
    <3>2. CASE p # c
      <4>1. PcAt(m, p) # "id_found"
        BY <1>0, <1>2, <3>2 DEF LockOk, Holds, InGetId
      <4> QED
        BY <1>0, <1>2, <1>3, <1>5, <3>2, <4>1 DEF SeatsOk
    <3> QED
      BY <3>1, <3>2
  <2>5. \A p, q \in Pid :
          /\ PcAt(n, p) # Null /\ PcAt(n, q) # Null
          /\ e.local[p].id # -1 /\ e.local[p].id = e.local[q].id
          => p = q
    <3>1. \A p \in Pid : PcAt(n, p) # Null => PcAt(m, p) # Null
      BY <1>2
    <3> QED
      BY <1>0, <3>1 DEF SeatsOk
  <2> QED
    BY <2>1, <2>2, <2>3, <2>4, <2>5 DEF SeatsOk
<1>8. StartOk(n, e)
  <2>1. CASE i = Philosophers - 1
    <3>1. Philosophers \in Nat /\ Philosophers - 1 \in 0 .. Philosophers
      BY DinnerAssumption
    <3>2. i \notin 0 .. (Philosophers - 1) - 1
      BY <2>1, <3>1
    <3>3. GuestCount(m, d) >= (Philosophers - 1) + 1
      BY <1>2, <1>3, <2>1, <3>1, <3>2, EnoughGuests DEF i
    <3>4. GuestCount(m, d) = Philosophers
      BY <3>1, <3>3, GuestBound
    <3>5. e.state = 1
      BY <2>1 DEF i, IdGone
    <3> QED
      BY <1>1, <3>4, <3>5 DEF StartOk
  <2>2. CASE i # Philosophers - 1
    <3>1. e.state = d.state
      BY <2>2 DEF i, IdGone
    <3> QED
      BY <1>6, <3>1, StartKept
  <2> QED
    BY <2>1, <2>2
<1> QED
  BY <1>7, <1>8

(* A philosopher that does not hold the lock goes home.                    *)
LEMMA GuestGone ==
  ASSUME NEW m, NEW n, NEW d, NEW c \in Pid \ {1}, NEW x \in Nat, Fine(m, d),
         PcAt(m, c) \in PastId, ~Holds(m, c), d.state = 1,
         Sound(n), Ended(m, n, c, x), PcAt(n, c) = Null, OthersStay(m, n, c),
         Philosophers > 1 => x = Rounds
  PROVE  Fine(n, d)
<1>0. /\ DinnerTyped(d) /\ MainOk(m, d) /\ GuestsOk(m, d) /\ WaitsOk(m, d)
      /\ StartOk(m, d) /\ LockOk(m) /\ SeatsOk(m, d) /\ Sound(m)
      /\ ForksOk(m, d) /\ MealsOk(m, d)
  BY DEF Fine
<1>1. PcAt(m, c) # Null /\ Null \notin GuestLabels \cup MainLabels
  BY LabelsAreCode DEF GuestLabels
<1>2. /\ PcAt(m, 1) \in {"spawn", "spawned", "asked"} /\ PcAt(m, 1) # Null
      /\ m.pcb[1].shared.ptr = arbitrator
  BY <1>1, MainStays, LabelsAreCode DEF Labels
<1>3. /\ PcAt(n, 1) = PcAt(m, 1) /\ R0At(n, 1) = R0At(m, 1)
      /\ \A q \in Pid \ {c} : PcAt(n, q) = PcAt(m, q)
  BY <1>2 DEF OthersStay
<1>4. GuestCount(n, d) = GuestCount(m, d) /\ \A i : GuestAt(n, d, i) = GuestAt(m, d, i)
  BY <1>3 DEF GuestCount, GuestAt
<1>5. \A p : Guest(n, d, p) <=> Guest(m, d, p)
  BY <1>4 DEF Guest
<1>6. \A q \in Pid \ {c} : n.pcb[q].shared = m.pcb[q].shared
  BY DEF Ended
<1>7. MainOk(n, d)
  BY <1>0, <1>2, <1>3, <1>6 DEF MainOk
<1>8. GuestsOk(n, d)
  <2>1. ASSUME NEW p \in Pid \ {1}
        PROVE  /\ PcAt(n, p) \in GuestLabels \cup {Null}
               /\ PcAt(n, p) # Null => Guest(n, d, p) /\ n.pcb[p].ppid = 1
               /\ PcAt(n, p) = "spawned" => R0At(n, p) = 0
               /\ PcAt(n, p) \in {"get_id", "forks"} => R0At(n, p) \in {0, 1}
               /\ n.pcb[p].shared.ptr # arbitrator
    <3>1. Null \notin {"get_id", "forks", "spawned"}
      BY LabelsAreCode DEF Labels
    <3>2. CASE p = c
      <4>1. n.pcb[c].shared.ptr = Null
        BY DEF Ended, NewProcess
      <4>2. arbitrator # Null
        BY DinnerAssumption
      <4> QED
        BY <3>1, <3>2, <4>1, <4>2
    <3>3. CASE p # c
      <4>1. PcAt(m, p) # Null => m.pcb[p].ppid = 1
        BY <1>0 DEF GuestsOk
      <4>2. PcAt(n, p) # Null => n.pcb[p].ppid = 1
        BY <1>3, <3>3, <4>1 DEF Ended
      <4>3. PcAt(n, p) # Null => R0At(n, p) = R0At(m, p)
        BY <1>3, <3>3 DEF OthersStay
      <4> QED
        BY <1>0, <1>3, <1>5, <1>6, <3>1, <3>3, <4>2, <4>3 DEF GuestsOk
    <3> QED
      BY <3>2, <3>3
  <2> QED
    BY <1>0, <1>4, <2>1 DEF GuestsOk
<1>9. WaitsOk(n, d)
  <2>1. PICK i \in 1 .. MaxWaiting :
          m.pcb[1].waiting[i].pid = c /\ m.pcb[1].waiting[i].result = -1
    <3>1. PICK k \in 1 .. GuestCount(m, d) : c = GuestAt(m, d, k)
      BY <1>0, <1>1 DEF GuestsOk, Guest
    <3>2. Awaited(m, c)
      BY <1>0, <1>1, <3>1 DEF WaitsOk
    <3> QED
      BY <1>1, <3>2 DEF Awaited
  <2>2. /\ GetWaiting(m, 1, c) = i /\ 1 \in Pid
        /\ m.pcb[1].waiting \in [1 .. MaxWaiting -> [pid : 0 .. MaxProcesses, result : Int]]
    <3>1. 1 \in Pid
      BY SizesAssumption
    <3>2. GetWaiting(m, 1, c) = i
      BY <1>0, <2>1, <3>1, EntrySlot
    <3>3. m \in Machine
      BY <1>0, SoundParts
    <3>4. m.pcb[1].waiting \in [1 .. MaxWaiting -> [pid : 0 .. MaxProcesses, result : Int]]
      BY <3>1, <3>3 DEF Machine, Pcb
    <3> QED
      BY <3>1, <3>2, <3>4
  <2>3. m.pcb[1].waiting[i] = [pid |-> c, result |-> -1]
    BY <2>1, <2>2
  <2>4. 1 \in Waiters(m, c)
    BY <1>0, <2>2, <2>3 DEF Sound, Books, Known
  <2>5. /\ n.pcb[1].waiting[i] = [pid |-> c, result |-> x]
        /\ \A j \in 1 .. MaxWaiting : j # i => n.pcb[1].waiting[j] = m.pcb[1].waiting[j]
    BY <2>2, <2>4 DEF Ended
  <2>6. \A j \in 1 .. MaxWaiting : n.pcb[1].waiting[j].pid = m.pcb[1].waiting[j].pid
    BY <2>3, <2>5
  <2>7. \A j \in 1 .. MaxWaiting :
          LET t == n.pcb[1].waiting[j].pid IN t # 0 => Guest(n, d, t)
    BY <1>0, <1>5, <2>6 DEF WaitsOk
  <2>8. \A k : Collected(n, d, k) <=> Collected(m, d, k)
    BY <1>3 DEF Collected
  <2>9. ASSUME NEW k \in 1 .. GuestCount(m, d), NEW t, t = GuestAt(m, d, k)
        PROVE  IF Collected(n, d, k) THEN PcAt(n, t) = Null ELSE Awaited(n, t)
    <3>1. t \in Pid
      BY <1>0, <2>9 DEF GuestsOk
    <3>2. CASE t = c
      BY <2>5, <3>2 DEF Awaited
    <3>3. CASE t # c
      <4>1. PcAt(n, t) = PcAt(m, t)
        BY <1>3, <3>1, <3>3
      <4>2. CASE Collected(m, d, k)
        BY <1>0, <2>8, <2>9, <4>1, <4>2 DEF WaitsOk
      <4>3. CASE ~Collected(m, d, k)
        <5>1. Awaited(m, t)
          BY <1>0, <2>9, <4>3 DEF WaitsOk
        <5>2. Awaited(n, t)
          BY <2>1, <2>5, <3>3, <4>1, <5>1 DEF Awaited
        <5> QED
          BY <2>8, <4>3, <5>2
      <4> QED
        BY <4>2, <4>3
    <3> QED
      BY <3>2, <3>3
  <2> QED
    BY <1>4, <2>7, <2>9 DEF WaitsOk
<1>10. StartOk(n, d)
  BY <1>0, <1>4 DEF StartOk
<1>11. LockOk(n)
  <2>1. ~Holds(n, c)
    BY LabelsAreCode DEF Holds, InGetId, AtForks, Labels
  <2>2. 1 \in Pid \ {c}
    BY SizesAssumption
  <2> QED
    BY <1>0, <1>2, <1>6, <2>1, <2>2, OthersHold, LockKept
<1>12. SeatsOk(n, d)
  <2>1. \A p \in Pid : PcAt(n, p) # Null => PcAt(m, p) = PcAt(n, p)
    BY <1>3
  <2>2. \A p \in Pid : PcAt(m, p) \in PastId \cup {Null} => PcAt(n, p) \in PastId \cup {Null}
    BY <1>3
  <2>3. Null \notin NoSeat \cup {"id_found"} \cup PastId
    BY <1>1 DEF GuestLabels
  <2> QED
    BY <1>0, <1>5, <2>1, <2>2, <2>3 DEF SeatsOk
<1>13. ForksOk(n, d)
  <2>1. \A p \in Pid : Holds(m, p) => Holds(n, p) /\ PcAt(n, p) = PcAt(m, p)
    BY <1>3, OthersHold DEF OneMoves
  <2>2. \A p \in Pid : PcAt(n, p) \notin {"no_left", "only_right", "no_fork"}
    BY <1>0, <1>1, <1>3 DEF ForksOk, GuestLabels, PastId, AtForks
  <2> QED
    BY <1>0, <2>1, <2>2 DEF ForksOk
<1>14. MealsOk(n, d)
  <2> SUFFICES ASSUME Philosophers > 1
               PROVE  /\ \A p \in Pid \ {1} : MealAt(PcAt(n, p), d.local[p])
                      /\ \A j \in 1 .. MaxWaiting :
                           n.pcb[1].waiting[j].pid # 0 =>
                             n.pcb[1].waiting[j].result \in {-1, Rounds}
                      /\ PcAt(n, 1) = "asked" => R0At(n, 1) \in {-1, Rounds}
                      /\ \A j \in 1 .. Len(d.answers) : d.answers[j] = Rounds
    BY DEF MealsOk
  <2>1. ASSUME NEW p \in Pid \ {1}
        PROVE  MealAt(PcAt(n, p), d.local[p])
    <3>1. MealAt(PcAt(m, p), d.local[p])
      BY <1>0 DEF MealsOk
    <3>2. CASE p = c
      <4>1. Null \notin {"only_left", "think", "full", "hungry", "forks", "left", "eat"} \cup Early
        BY <1>1 DEF GuestLabels, PastId, AtForks, Early, NoSeat
      <4> QED
        BY <3>1, <3>2, <4>1 DEF MealAt
    <3>3. CASE p # c
      BY <1>3, <3>1, <3>3
    <3> QED
      BY <3>2, <3>3
  <2>2. ASSUME NEW j \in 1 .. MaxWaiting, n.pcb[1].waiting[j].pid # 0
        PROVE  n.pcb[1].waiting[j].result \in {-1, Rounds}
    <3>1. \/ n.pcb[1].waiting[j] = [pid |-> c, result |-> x]
          \/ n.pcb[1].waiting[j] = m.pcb[1].waiting[j]
      BY SizesAssumption DEF Ended
    <3> QED
      BY <1>0, <2>2, <3>1 DEF MealsOk
  <2>3. PcAt(n, 1) = "asked" => R0At(n, 1) \in {-1, Rounds}
    BY <1>0, <1>3 DEF MealsOk
  <2> QED
    BY <1>0, <2>1, <2>2, <2>3 DEF MealsOk
<1> QED
  BY <1>0, <1>7, <1>8, <1>9, <1>10, <1>11, <1>12, <1>13, <1>14 DEF Fine

-----------------------------------------------------------------------------
(* A step of main_dp                                                       *)

(* main_dp goes to l; the philosophers and their table stay as they are.   *)
MainGoes(m, d, n, e, l, r) ==
  /\ Sound(n)
  /\ PcAt(m, 1) # Null /\ PcAt(n, 1) = l /\ R0At(n, 1) = r /\ OthersStay(m, n, 1)
  /\ SameParents(m, n)
  /\ \A q \in Pid \ {1} : n.pcb[q].shared = m.pcb[q].shared
  /\ n.pcb[1].shared.locked = m.pcb[1].shared.locked
  /\ l \in MainLabels
  /\ DinnerTyped(e)
  /\ e.ids = d.ids /\ e.state = d.state /\ e.local = d.local /\ e.forks = d.forks
  /\ GuestCount(n, e) = GuestCount(m, d)
  /\ \A i \in 1 .. GuestCount(m, d) : GuestAt(n, e, i) = GuestAt(m, d, i)

LEMMA MainGoesKeeps ==
  ASSUME NEW m, NEW n, NEW d, NEW e, NEW l, NEW r, Fine(m, d), MainGoes(m, d, n, e, l, r)
  PROVE  /\ GuestsOk(n, e) /\ StartOk(n, e) /\ LockOk(n) /\ SeatsOk(n, e)
         /\ ForksOk(n, e)
         /\ \A p : Guest(n, e, p) <=> Guest(m, d, p)
<1>0. /\ MainOk(m, d) /\ GuestsOk(m, d) /\ StartOk(m, d) /\ LockOk(m) /\ SeatsOk(m, d)
      /\ ForksOk(m, d) /\ 1 \in Pid
  BY SizesAssumption DEF Fine
<1>1. \A q \in Pid \ {1} : /\ PcAt(n, q) = PcAt(m, q)
                           /\ PcAt(m, q) # Null => R0At(n, q) = R0At(m, q)
  BY DEF MainGoes, OthersStay
<1>2. /\ GuestCount(n, e) = GuestCount(m, d)
      /\ \A i \in 1 .. GuestCount(m, d) : GuestAt(n, e, i) = GuestAt(m, d, i)
      /\ \A p : Guest(n, e, p) <=> Guest(m, d, p)
  BY DEF MainGoes, Guest
<1>3. GuestsOk(n, e)
  <2>1. Null \notin {"get_id", "forks", "spawned"}
    BY LabelsAreCode DEF Labels
  <2> QED
    BY <1>0, <1>1, <1>2, <2>1 DEF GuestsOk, MainGoes, SameParents
<1>4. StartOk(n, e)
  <2>1. \A i \in 1 .. GuestCount(m, d) : GuestAt(m, d, i) \in Pid \ {1}
    BY <1>0 DEF GuestsOk
  <2> QED
    BY <1>0, <1>1, <1>2, <2>1 DEF StartOk, MainGoes
<1>5. LockOk(n)
  <2>1. ~Holds(m, 1) /\ ~Holds(n, 1)
    BY <1>0, LabelsAreCode DEF MainOk, Holds, MainGoes, MainLabels, InGetId, AtForks, Labels
  <2> QED
    BY <1>0, <2>1, OthersHold, LockKept DEF MainGoes
<1>6. SeatsOk(n, e)
  <2>1. \A p \in Pid : PcAt(n, p) # Null => PcAt(m, p) # Null
    BY <1>1 DEF MainGoes
  <2>2. \A p : Guest(m, d, p) => p \in Pid \ {1}
    BY <1>0 DEF Guest, GuestsOk
  <2>3. e.ids = d.ids /\ e.local = d.local
    BY DEF MainGoes
  <2> QED
    BY <1>0, <1>1, <1>2, <2>1, <2>2, <2>3 DEF SeatsOk
<1>7. ForksOk(n, e)
  <2>1. ~Holds(m, 1) /\ PcAt(n, 1) \notin {"no_left", "only_right", "no_fork"}
    BY <1>0, LabelsAreCode DEF MainOk, Holds, MainGoes, MainLabels, InGetId, AtForks, Labels
  <2>2. \A p \in Pid : Holds(m, p) => Holds(n, p) /\ PcAt(n, p) = PcAt(m, p)
    BY <1>1, <2>1, OthersHold DEF OneMoves, MainGoes
  <2> QED
    BY <1>0, <1>1, <2>1, <2>2 DEF ForksOk, MainGoes
<1> QED
  BY <1>2, <1>3, <1>4, <1>5, <1>6, <1>7

(* What main_dp adds to the count of meals: what waits and answers say.    *)
LEMMA MainMeals ==
  ASSUME NEW m, NEW n, NEW d, NEW e, NEW l, NEW r, Fine(m, d), MainGoes(m, d, n, e, l, r),
         Philosophers > 1 =>
           /\ \A i \in 1 .. MaxWaiting :
                n.pcb[1].waiting[i].pid # 0 => n.pcb[1].waiting[i].result \in {-1, Rounds}
           /\ l = "asked" => r \in {-1, Rounds}
           /\ \A i \in 1 .. Len(e.answers) : e.answers[i] = Rounds
  PROVE  MealsOk(n, e)
BY DEF Fine, MainGoes, MealsOk, OthersStay

LEMMA WaitsKept ==
  ASSUME NEW m, NEW n, NEW d, NEW e, NEW l, NEW r, Fine(m, d), MainGoes(m, d, n, e, l, r),
         n.pcb[1].waiting = m.pcb[1].waiting,
         \A i \in 1 .. GuestCount(m, d) : Collected(n, e, i) <=> Collected(m, d, i)
  PROVE  WaitsOk(n, e)
<1>1. /\ GuestCount(n, e) = GuestCount(m, d)
      /\ \A i \in 1 .. GuestCount(m, d) : GuestAt(n, e, i) = GuestAt(m, d, i)
      /\ \A p : Guest(n, e, p) <=> Guest(m, d, p)
  BY MainGoesKeeps DEF MainGoes
<1>2. ASSUME NEW i \in 1 .. GuestCount(m, d), NEW t, t = GuestAt(m, d, i)
      PROVE  IF Collected(n, e, i) THEN PcAt(n, t) = Null ELSE Awaited(n, t)
  <2>1. t \in Pid \ {1}
    BY <1>2 DEF Fine, GuestsOk
  <2>2. PcAt(n, t) = PcAt(m, t)
    BY <2>1 DEF MainGoes, OthersStay
  <2>3. IF Collected(m, d, i) THEN PcAt(m, t) = Null ELSE Awaited(m, t)
    BY <1>2 DEF Fine, WaitsOk
  <2> QED
    BY <2>2, <2>3 DEF Awaited
<1>3. \A i \in 1 .. MaxWaiting :
        LET t == n.pcb[1].waiting[i].pid IN t # 0 => Guest(n, e, t)
  BY <1>1 DEF Fine, WaitsOk
<1> QED
  BY <1>1, <1>2, <1>3 DEF WaitsOk

(* main_dp moves on without touching its waits.                            *)
LEMMA MainWalks ==
  ASSUME NEW m, NEW n, NEW d, NEW e, NEW l, NEW r, Fine(m, d), MainGoes(m, d, n, e, l, r),
         n.pcb[1].waiting = m.pcb[1].waiting,
         MainOk(n, e), MealsOk(n, e),
         \A i \in 1 .. GuestCount(m, d) : Collected(n, e, i) <=> Collected(m, d, i)
  PROVE  Fine(n, e)
BY WaitsKept, MainGoesKeeps DEF Fine, MainGoes

(* waitp finds the answer of the next philosopher, or that there is none.  *)
LEMMA NextEntry ==
  ASSUME NEW m, NEW d, Fine(m, d), PcAt(m, 1) = "spawn",
         Len(d.pids) = Philosophers, Len(d.answers) < Philosophers
  PROVE  LET k == Len(d.answers) + 1
             t == d.pids[k]
         IN  /\ k \in 1 .. GuestCount(m, d) /\ GuestAt(m, d, k) = t /\ t \in Pid \ {1}
             /\ \E i \in 1 .. MaxWaiting :
                  /\ m.pcb[1].waiting[i].pid = t
                  /\ \/ m.pcb[1].waiting[i].result = -1
                     \/ PcAt(m, t) = Null /\ m.pcb[1].waiting[i].result \in Nat
<1> DEFINE k == Len(d.answers) + 1
<1>1. /\ Len(d.answers) \in Nat /\ Philosophers \in Nat
      /\ GuestCount(m, d) = Philosophers
  BY CountsTyped, DinnerAssumption DEF Fine
<1>2. k \in 1 .. GuestCount(m, d) /\ k <= Len(d.pids) /\ ~(k <= Len(d.answers))
  BY <1>1
<1>3. GuestAt(m, d, k) = d.pids[k]
  BY <1>2 DEF GuestAt
<1>4. ~Collected(m, d, k)
  BY <1>2 DEF Collected
<1> HIDE DEF k
<1>5. Awaited(m, d.pids[k]) /\ d.pids[k] \in Pid \ {1}
  BY <1>2, <1>3, <1>4 DEF Fine, WaitsOk, GuestsOk
<1> QED
  BY <1>2, <1>3, <1>5 DEF Awaited, k

LEMMA MainCollects ==
  ASSUME NEW m, NEW n, NEW d, NEW r \in Nat \cup {-1}, Fine(m, d), MainGoes(m, d, n, d, "asked", r),
         PcAt(m, 1) = "spawn", Len(d.pids) = Philosophers, Len(d.answers) < Philosophers,
         n.pcb[1].shared = m.pcb[1].shared,
         NEW t, t = d.pids[Len(d.answers) + 1],
         NEW i \in 1 .. MaxWaiting, m.pcb[1].waiting[i].pid = t,
         r = m.pcb[1].waiting[i].result, r # -1 => PcAt(m, t) = Null,
         r = -1 => n.pcb[1].waiting = m.pcb[1].waiting,
         r # -1 => EntryBecomes(m, n, 1, i, NoWait)
  PROVE  Fine(n, d)
<1> DEFINE k == Len(d.answers) + 1
<1>0. /\ MainOk(m, d) /\ GuestsOk(m, d) /\ WaitsOk(m, d) /\ 1 \in Pid
      /\ Len(d.answers) \in Nat /\ MealsOk(m, d)
  BY CountsTyped, SizesAssumption DEF Fine
<1>1. k \in 1 .. GuestCount(m, d) /\ GuestAt(m, d, k) = t /\ t \in Pid \ {1} /\ t # 0
  <2>1. k \in 1 .. GuestCount(m, d) /\ GuestAt(m, d, k) = t /\ t \in Pid \ {1}
    BY NextEntry
  <2> QED
    BY <2>1
<1>2. PcAt(n, 1) = "asked" /\ R0At(n, 1) = r
  BY DEF MainGoes
<1>3. MainOk(n, d)
  <2>1. "asked" \notin {"main_dp", "spawned", "done"} /\ "asked" # Null
    BY LabelsAreCode DEF Labels
  <2> QED
    BY <1>0, <1>2, <2>1 DEF MainOk, MainLabels
<1>4. ASSUME NEW j \in 1 .. GuestCount(m, d)
      PROVE  Collected(n, d, j) <=> Collected(m, d, j) \/ (j = k /\ r # -1)
  BY <1>2 DEF Collected
<1>7. MealsOk(n, d)
  <2>1. ASSUME NEW j \in 1 .. MaxWaiting, n.pcb[1].waiting[j].pid # 0
        PROVE  n.pcb[1].waiting[j] = m.pcb[1].waiting[j]
    <3>1. NoWait.pid = 0
      BY DEF NoWait
    <3> QED
      BY <2>1, <3>1 DEF EntryBecomes
  <2> QED
    BY <1>0, <1>1, <2>1, MainMeals DEF MealsOk
<1>5. CASE r = -1
  <2>1. \A j \in 1 .. GuestCount(m, d) : Collected(n, d, j) <=> Collected(m, d, j)
    BY <1>4, <1>5
  <2> QED
    BY <1>3, <1>5, <1>7, <2>1, MainWalks
<1>6. CASE r # -1
  <2>1. /\ n.pcb[1].waiting[i].pid = 0
        /\ \A j \in 1 .. MaxWaiting : j # i => n.pcb[1].waiting[j] = m.pcb[1].waiting[j]
    <3>1. EntryBecomes(m, n, 1, i, NoWait) /\ NoWait.pid = 0
      BY <1>6 DEF NoWait
    <3> QED
      BY <3>1 DEF EntryBecomes
  <2>2. /\ GuestCount(n, d) = GuestCount(m, d)
        /\ \A j \in 1 .. GuestCount(m, d) : GuestAt(n, d, j) = GuestAt(m, d, j)
        /\ \A p : Guest(n, d, p) <=> Guest(m, d, p)
    BY MainGoesKeeps DEF MainGoes
  <2>3. ASSUME NEW j \in 1 .. GuestCount(m, d), NEW q, q = GuestAt(m, d, j)
        PROVE  IF Collected(n, d, j) THEN PcAt(n, q) = Null ELSE Awaited(n, q)
    <3>1. q \in Pid \ {1}
      BY <1>0, <2>3 DEF GuestsOk
    <3>2. PcAt(n, q) = PcAt(m, q)
      BY <3>1 DEF MainGoes, OthersStay
    <3>3. CASE j = k
      <4>1. q = t /\ PcAt(m, t) = Null
        BY <1>1, <1>6, <2>3, <3>3
      <4>2. Collected(n, d, j)
        BY <1>4, <1>6, <3>3
      <4> QED
        BY <3>2, <4>1, <4>2
    <3>4. CASE j # k
      <4>1. Collected(n, d, j) <=> Collected(m, d, j)
        BY <1>4, <3>4
      <4>2. q # t
        BY <1>0, <1>1, <2>3, <3>4 DEF GuestsOk
      <4>3. IF Collected(m, d, j) THEN PcAt(m, q) = Null ELSE Awaited(m, q)
        BY <1>0, <2>3 DEF WaitsOk
      <4>4. Awaited(m, q) => Awaited(n, q)
        BY <2>1, <3>2, <4>2 DEF Awaited
      <4> QED
        BY <3>2, <4>1, <4>3, <4>4
    <3> QED
      BY <3>3, <3>4
  <2>4. \A j \in 1 .. MaxWaiting :
          LET q == n.pcb[1].waiting[j].pid IN q # 0 => Guest(n, d, q)
    BY <1>0, <2>1, <2>2 DEF WaitsOk
  <2>5. WaitsOk(n, d)
    BY <2>2, <2>3, <2>4 DEF WaitsOk
  <2> QED
    BY <1>3, <1>7, <2>5, MainGoesKeeps DEF Fine, MainGoes
<1> QED
  BY <1>5, <1>6

(* main_dp goes last.                                                      *)
LEMMA MainGone ==
  ASSUME NEW m, NEW n, NEW d, Fine(m, d), PcAt(m, 1) = "done",
         Sound(n), Ended(m, n, 1, 0), PcAt(n, 1) = Null, OthersStay(m, n, 1)
  PROVE  Fine(n, d)
<1>0. /\ DinnerTyped(d) /\ MainOk(m, d) /\ GuestsOk(m, d) /\ WaitsOk(m, d)
      /\ StartOk(m, d) /\ LockOk(m) /\ SeatsOk(m, d) /\ Sound(m)
      /\ ForksOk(m, d) /\ MealsOk(m, d)
  BY DEF Fine
<1>1. \A q \in Pid \ {1} : PcAt(n, q) = PcAt(m, q) /\ PcAt(m, q) = Null
  <2>1. Null # "done" /\ "done" \notin {"spawn", "spawned", "asked"}
    BY LabelsAreCode DEF Labels
  <2>2. \A q \in Pid \ {1} : PcAt(m, q) = Null
    BY <2>1, MainStays
  <2> QED
    BY <2>2 DEF OthersStay
<1>2. /\ GuestCount(n, d) = GuestCount(m, d) /\ GuestCount(m, d) = Len(d.pids)
      /\ \A i \in 1 .. GuestCount(m, d) : GuestAt(n, d, i) = GuestAt(m, d, i)
  <2>1. PcAt(n, 1) # "spawned"
    BY LabelsAreCode DEF Labels
  <2>2. GuestCount(n, d) = Len(d.pids) /\ GuestCount(m, d) = Len(d.pids)
    BY <1>0, <2>1, CountsTyped
  <2>3. Len(d.pids) \in Nat
    BY <1>0, CountsTyped
  <2> QED
    BY <2>2, <2>3 DEF GuestAt
<1>3. \A p : Guest(n, d, p) <=> Guest(m, d, p)
  BY <1>2 DEF Guest
<1>4. Null \notin Labels /\ Null \notin NoSeat \cup {"id_found"} \cup PastId
  BY LabelsAreCode DEF GuestLabels
<1>5. MainOk(n, d)
  BY <1>0, <1>4 DEF MainOk, Labels
<1>6. GuestsOk(n, d)
  <2>1. \A p \in Pid \ {1} : n.pcb[p].shared.ptr # arbitrator
    BY <1>0 DEF GuestsOk, Ended
  <2>2. Null \notin {"get_id", "forks", "spawned"}
    BY <1>4 DEF Labels
  <2> QED
    BY <1>0, <1>1, <1>2, <2>1, <2>2 DEF GuestsOk
<1>7. WaitsOk(n, d)
  <2>1. \A i \in 1 .. MaxWaiting : n.pcb[1].waiting[i].pid = 0
    BY DEF Ended, NoWait
  <2>2. \A i \in 1 .. GuestCount(m, d) : Collected(n, d, i)
    BY <1>0, <1>2 DEF MainOk, Collected
  <2>3. \A i \in 1 .. GuestCount(m, d) : PcAt(n, GuestAt(m, d, i)) = Null
    BY <1>0, <1>1 DEF GuestsOk
  <2> QED
    BY <1>2, <2>1, <2>2, <2>3 DEF WaitsOk
<1>8. StartOk(n, d)
  BY <1>0, <1>1, <1>2 DEF StartOk, GuestsOk
<1>9. LockOk(n)
  <2>1. \A p \in Pid : PcAt(n, p) = Null
    BY <1>1
  <2>2. \A p \in Pid : ~Holds(n, p)
    BY <1>4, <2>1 DEF Holds, InGetId, AtForks, Labels
  <2> QED
    BY <2>1, <2>2, SizesAssumption DEF LockOk
<1>10. SeatsOk(n, d)
  <2>1. \A p \in Pid : PcAt(n, p) = Null
    BY <1>1
  <2> QED
    BY <1>0, <1>3, <1>4, <2>1 DEF SeatsOk
<1>11. ForksOk(n, d)
  <2>1. \A p \in Pid : ~Holds(m, p)
    BY <1>1, <1>4 DEF Holds, InGetId, AtForks, Labels
  <2>2. \A p \in Pid : PcAt(n, p) = Null
    BY <1>1
  <2> QED
    BY <1>0, <1>4, <2>1, <2>2 DEF ForksOk, Labels
<1>12. MealsOk(n, d)
  <2>1. \A i \in 1 .. MaxWaiting : n.pcb[1].waiting[i].pid = 0
    BY DEF Ended, NoWait
  <2> QED
    BY <1>0, <1>1, <1>4, <2>1 DEF MealsOk, Labels
<1> QED
  BY <1>0, <1>5, <1>6, <1>7, <1>8, <1>9, <1>10, <1>11, <1>12 DEF Fine

-----------------------------------------------------------------------------
(* Forking a philosopher                                                   *)

(* Before the last philosopher is forked all the others are still there,   *)
(* and the kernel has room for one more.                                   *)
LEMMA RoomToSpawn ==
  ASSUME NEW m, NEW d, Fine(m, d), PcAt(m, 1) = "spawn", Len(d.pids) < Philosophers
  PROVE  /\ GuestCount(m, d) = Len(d.pids) /\ d.state = 0
         /\ \A p : Guest(m, d, p) => p \in Pid \ {1} /\ PcAt(m, p) \in Early
         /\ \E q \in Pid : PcAt(m, q) = Null
         /\ \E i \in 1 .. MaxWaiting : m.pcb[1].waiting[i].pid = 0
<1> DEFINE g == GuestCount(m, d)
<1>0. /\ g = Len(d.pids) /\ g \in Nat /\ Philosophers \in Nat /\ g < Philosophers
      /\ 1 \in Pid
  BY CountsTyped, DinnerAssumption, SizesAssumption DEF Fine
<1> HIDE DEF g
<1>1. d.state = 0
  BY <1>0 DEF Fine, StartOk, DinnerTyped, g
<1>2. \A p : Guest(m, d, p) => p \in Pid \ {1} /\ PcAt(m, p) \in Early
  BY <1>1 DEF Fine, GuestsOk, StartOk, Guest
<1>3. \E q \in Pid : PcAt(m, q) = Null
  <2> SUFFICES ASSUME \A q \in Pid : PcAt(m, q) # Null
               PROVE  FALSE
    OBVIOUS
  <2> DEFINE Numbers(p, i) == IF p = 1 THEN i = g + 1 ELSE i <= g /\ GuestAt(m, d, i) = p
             f == [p \in 1 .. MaxProcesses |-> CHOOSE i \in 1 .. g + 1 : Numbers(p, i)]
  <2>1. ASSUME NEW p \in 1 .. MaxProcesses
        PROVE  \E i \in 1 .. g + 1 : Numbers(p, i)
    <3>1. CASE p = 1
      BY <1>0, <3>1
    <3>2. CASE p # 1
      <4>1. Guest(m, d, p)
        BY <2>1, <3>2 DEF Fine, GuestsOk
      <4>2. PICK i \in 1 .. g : p = GuestAt(m, d, i)
        BY <4>1 DEF Guest, g
      <4> QED
        BY <1>0, <3>2, <4>2
    <3> QED
      BY <3>1, <3>2
  <2>2. ASSUME NEW p \in 1 .. MaxProcesses
        PROVE  f[p] \in 1 .. g + 1 /\ Numbers(p, f[p])
    BY <2>1, <2>2, Zenon
  <2>3. f \in [1 .. MaxProcesses -> 1 .. g + 1]
    BY <2>2
  <2>4. ASSUME NEW p \in 1 .. MaxProcesses, NEW q \in 1 .. MaxProcesses, f[p] = f[q]
        PROVE  p = q
    <3>1. Numbers(p, f[p]) /\ Numbers(q, f[p])
      BY <2>2, <2>4
    <3> HIDE DEF f
    <3> QED
      BY <1>0, <3>1
  <2> HIDE DEF f, Numbers
  <2>5. MaxProcesses > g + 1 /\ g + 1 \in Nat /\ MaxProcesses \in Nat
    BY <1>0, DinnerAssumption
  <2>6. Twice(f, 1 .. MaxProcesses)
    BY <2>3, <2>5, Pigeons
  <2> QED
    BY <2>4, <2>6 DEF Twice
<1>4. \E i \in 1 .. MaxWaiting : m.pcb[1].waiting[i].pid = 0
  <2> SUFFICES ASSUME \A i \in 1 .. MaxWaiting : m.pcb[1].waiting[i].pid # 0
               PROVE  FALSE
    OBVIOUS
  <2> DEFINE w(i) == m.pcb[1].waiting[i].pid
             f == [i \in 1 .. MaxWaiting |-> CHOOSE j \in 1 .. g : GuestAt(m, d, j) = w(i)]
  <2>1. ASSUME NEW i \in 1 .. MaxWaiting
        PROVE  \E j \in 1 .. g : GuestAt(m, d, j) = w(i)
    <3>1. Guest(m, d, w(i))
      BY DEF Fine, WaitsOk
    <3> QED
      BY <3>1 DEF Guest, g
  <2>2. ASSUME NEW i \in 1 .. MaxWaiting
        PROVE  f[i] \in 1 .. g /\ GuestAt(m, d, f[i]) = w(i)
    BY <2>1, <2>2, Zenon
  <2>3. f \in [1 .. MaxWaiting -> 1 .. g]
    BY <2>2
  <2>4. ASSUME NEW i \in 1 .. MaxWaiting, NEW j \in 1 .. MaxWaiting, f[i] = f[j]
        PROVE  i = j
    <3>1. w(i) = w(j)
      BY <2>2, <2>4
    <3> QED
      BY <1>0, <3>1 DEF Fine, Sound, Books, OneEntry
  <2> HIDE DEF f
  <2>5. MaxWaiting \in Nat /\ MaxWaiting > g
    BY <1>0, DinnerAssumption
  <2>6. Twice(f, 1 .. MaxWaiting)
    <3>1. g \in Nat
      BY <1>0
    <3> QED
      BY <2>3, <2>5, <3>1, Pigeons
  <2> QED
    BY <2>4, <2>6 DEF Twice
<1> QED
  BY <1>0, <1>1, <1>2, <1>3, <1>4 DEF g

(* u is the machine with which fork_wait is called.                        *)
LEMMA SpawnKeeps ==
  ASSUME NEW m, NEW d, Fine(m, d), PcAt(m, 1) = "spawn", Len(d.pids) < Philosophers,
         NEW u, u.pcb = m.pcb, u.frame.pc = "spawned", OthersStay(m, u, 1),
         NEW n, NEW k \in Pid, Sound(n), Spawned(u, n, 1, k)
  PROVE  Fine(n, d) /\ OneMoves(m, n, 1)
<1>0. /\ DinnerTyped(d) /\ MainOk(m, d) /\ GuestsOk(m, d) /\ WaitsOk(m, d)
      /\ StartOk(m, d) /\ LockOk(m) /\ SeatsOk(m, d) /\ 1 \in Pid
      /\ ForksOk(m, d) /\ MealsOk(m, d)
  BY SizesAssumption DEF Fine
<1>1. k # 1 /\ PcAt(m, k) = Null
  BY DEF Spawned, OthersStay
<1>2. /\ PcAt(n, k) = "spawned" /\ R0At(n, k) = 0
      /\ PcAt(n, 1) = "spawned" /\ R0At(n, 1) = k
  BY DEF Spawned
<1>3. \A q \in Pid \ {1, k} :
        PcAt(n, q) = PcAt(m, q) /\ (PcAt(m, q) # Null => R0At(n, q) = R0At(m, q))
  BY DEF Spawned, OthersStay
<1>4. /\ n.pcb[k].ppid = 1 /\ n.pcb[k].shared.ptr = Null
      /\ \A q \in Pid \ {k} : /\ n.pcb[q].ppid = m.pcb[q].ppid
                              /\ n.pcb[q].shared = m.pcb[q].shared
  BY DEF Spawned, NewProcess
<1>5. PICK i \in 1 .. MaxWaiting :
        /\ m.pcb[1].waiting[i].pid = 0
        /\ n.pcb[1].waiting[i] = [pid |-> k, result |-> -1]
        /\ \A j \in 1 .. MaxWaiting : j # i => n.pcb[1].waiting[j] = m.pcb[1].waiting[j]
  BY DEF Spawned, EntryBecomes
<1> DEFINE g == GuestCount(m, d)
<1>6. /\ g = Len(d.pids) /\ g \in Nat /\ g < Philosophers /\ Philosophers \in Nat
      /\ d.state = 0
      /\ \A p : Guest(m, d, p) => p \in Pid \ {1} /\ PcAt(m, p) \in Early
  BY CountsTyped, RoomToSpawn, DinnerAssumption DEF Fine
<1>7. GuestCount(n, d) = g + 1
  BY <1>0, <1>2, <1>6, CountsTyped
<1>8. /\ \A j \in 1 .. g : GuestAt(n, d, j) = GuestAt(m, d, j)
      /\ GuestAt(n, d, g + 1) = k
  BY <1>2, <1>6 DEF GuestAt
<1>9. Null \notin Labels /\ Null \notin GuestLabels
  BY LabelsAreCode
<1>10. ~Guest(m, d, k)
  BY <1>1, <1>6, <1>9 DEF Early, NoSeat, GuestLabels, PastId
<1> HIDE DEF g
<1>11. \A p : Guest(n, d, p) <=> Guest(m, d, p) \/ p = k
  <2>1. \A p : Guest(n, d, p) <=> \E j \in 1 .. g + 1 : p = GuestAt(n, d, j)
    BY <1>7 DEF Guest
  <2>2. \A p : Guest(m, d, p) <=> \E j \in 1 .. g : p = GuestAt(m, d, j)
    BY DEF Guest, g
  <2> QED
    BY <1>6, <1>8, <2>1, <2>2
<1>12. MainOk(n, d)
  <2>1. "spawned" \notin {"main_dp", "asked", "done", Null}
    BY <1>9 DEF Labels
  <2>2. n.pcb[1].shared = m.pcb[1].shared /\ m.pcb[1].shared.ptr = arbitrator
    BY <1>0, <1>1, <1>4 DEF MainOk
  <2> QED
    BY <1>0, <1>2, <2>1, <2>2 DEF MainOk, MainLabels
<1>13. GuestsOk(n, d)
  <2>1. ASSUME NEW j \in 1 .. g + 1
        PROVE  GuestAt(n, d, j) \in Pid \ {1}
    <3>1. CASE j = g + 1
      BY <1>1, <1>8, <3>1
    <3>2. CASE j \in 1 .. g
      BY <1>0, <1>8, <3>2 DEF GuestsOk, g
    <3> QED
      BY <1>6, <3>1, <3>2
  <2>2. ASSUME NEW j \in 1 .. g
        PROVE  GuestAt(m, d, j) # k
    BY <1>10 DEF Guest, g
  <2>3. ASSUME NEW j \in 1 .. g + 1, NEW h \in 1 .. g + 1, GuestAt(n, d, j) = GuestAt(n, d, h)
        PROVE  j = h
    <3>1. CASE j \in 1 .. g /\ h \in 1 .. g
      BY <1>0, <1>8, <2>3, <3>1 DEF GuestsOk, g
    <3>2. CASE j = g + 1 \/ h = g + 1
      BY <1>6, <1>8, <2>2, <2>3, <3>2
    <3> QED
      BY <1>6, <3>1, <3>2
  <2>4. ASSUME NEW p \in Pid \ {1}
        PROVE  /\ PcAt(n, p) \in GuestLabels \cup {Null}
               /\ PcAt(n, p) # Null => Guest(n, d, p) /\ n.pcb[p].ppid = 1
               /\ PcAt(n, p) = "spawned" => R0At(n, p) = 0
               /\ PcAt(n, p) \in {"get_id", "forks"} => R0At(n, p) \in {0, 1}
               /\ n.pcb[p].shared.ptr # arbitrator
    <3>1. CASE p = k
      <4>1. arbitrator # Null
        BY DinnerAssumption
      <4> QED
        BY <1>2, <1>4, <1>11, <3>1, <4>1 DEF GuestLabels, NoSeat
    <3>2. CASE p # k
      <4>1. Null \notin {"get_id", "forks", "spawned"}
        BY <1>9 DEF Labels
      <4> QED
        BY <1>0, <1>3, <1>4, <1>11, <3>2, <4>1 DEF GuestsOk
    <3> QED
      BY <3>1, <3>2
  <2> QED
    BY <1>7, <2>1, <2>3, <2>4 DEF GuestsOk
<1>14. WaitsOk(n, d)
  <2>1. Len(d.answers) = 0
    BY <1>0, <1>6, CountsTyped DEF MainOk
  <2>2. \A j \in 1 .. g + 1 : ~Collected(n, d, j)
    BY <1>2, <1>6, <2>1 DEF Collected
  <2>3. ASSUME NEW j \in 1 .. g + 1, NEW t, t = GuestAt(n, d, j)
        PROVE  Awaited(n, t)
    <3>1. CASE j = g + 1
      <4>1. t = k
        BY <1>8, <2>3, <3>1
      <4> QED
        BY <1>5, <4>1 DEF Awaited
    <3>2. CASE j \in 1 .. g
      <4>1. t = GuestAt(m, d, j) /\ Guest(m, d, t)
        BY <1>8, <2>3, <3>2 DEF Guest, g
      <4>2. ~Collected(m, d, j)
        BY <2>1, <3>2, <1>6 DEF Collected
      <4>3. Awaited(m, t)
        BY <1>0, <3>2, <4>1, <4>2 DEF WaitsOk, g
      <4>4. t # k /\ t \in Pid \ {1} /\ t # 0
        BY <1>6, <1>10, <4>1
      <4>5. PcAt(n, t) = PcAt(m, t)
        BY <1>3, <4>4
      <4> QED
        BY <1>5, <4>3, <4>4, <4>5 DEF Awaited
    <3> QED
      BY <1>6, <3>1, <3>2
  <2>4. ASSUME NEW j \in 1 .. MaxWaiting, NEW t, t = n.pcb[1].waiting[j].pid, t # 0
        PROVE  Guest(n, d, t)
    <3>1. CASE j = i
      BY <1>5, <1>11, <2>4, <3>1
    <3>2. CASE j # i
      BY <1>0, <1>5, <1>11, <2>4, <3>2 DEF WaitsOk
    <3> QED
      BY <3>1, <3>2
  <2> QED
    BY <1>7, <2>2, <2>3, <2>4 DEF WaitsOk
<1>15. StartOk(n, d)
  <2>1. ASSUME NEW j \in 1 .. g + 1
        PROVE  PcAt(n, GuestAt(n, d, j)) \in Early
    <3>1. CASE j = g + 1
      BY <1>2, <1>8, <3>1 DEF Early, NoSeat
    <3>2. CASE j \in 1 .. g
      <4> DEFINE t == GuestAt(m, d, j)
      <4>1. GuestAt(n, d, j) = t /\ Guest(m, d, t)
        BY <1>8, <3>2 DEF Guest, g
      <4> HIDE DEF t
      <4>2. t # k /\ t \in Pid \ {1} /\ PcAt(m, t) \in Early
        BY <1>6, <1>10, <4>1
      <4> QED
        BY <1>3, <4>1, <4>2
    <3> QED
      BY <1>6, <3>1, <3>2
  <2> QED
    BY <1>6, <1>7, <2>1 DEF StartOk
<1>16. \A p \in Pid : Holds(n, p) <=> Holds(m, p)
  <2>1. ~Holds(n, k) /\ ~Holds(m, k) /\ ~Holds(n, 1) /\ ~Holds(m, 1)
    BY <1>1, <1>2, <1>9 DEF Holds, InGetId, AtForks, Labels
  <2>2. ASSUME NEW p \in Pid \ {1, k}
        PROVE  Holds(n, p) <=> Holds(m, p)
    <3>1. Null \notin {"get_id", "forks"}
      BY <1>9 DEF Labels
    <3> QED
      BY <1>3, <2>2, <3>1 DEF Holds
  <2> QED
    BY <2>1, <2>2
<1>17. LockOk(n)
  <2>1. n.pcb[1].shared = m.pcb[1].shared /\ PcAt(m, 1) # Null
    BY <1>0, <1>1, <1>4, <1>9 DEF Labels
  <2> QED
    BY <1>0, <1>16, <2>1 DEF LockOk
<1>18. SeatsOk(n, d)
  <2>1. d.local[k].id = -1
    BY <1>0, <1>10 DEF SeatsOk
  <2>2. \A i1 \in Seat : d.ids[i1] \in {i1, -1}
    BY <1>0 DEF SeatsOk
  <2>3. \A p \in Pid : ~Guest(n, d, p) => d.local[p].id = -1
    BY <1>0, <1>11 DEF SeatsOk
  <2>4. ASSUME NEW j \in Seat, d.ids[j] = -1
        PROVE  /\ \E p \in Pid : /\ Guest(n, d, p) /\ d.local[p].id = j
                                 /\ PcAt(n, p) \in PastId \cup {Null}
               /\ \A h \in Seat : h < j => d.ids[h] = -1
    <3>1. PICK p \in Pid : /\ Guest(m, d, p) /\ d.local[p].id = j
                           /\ PcAt(m, p) \in PastId \cup {Null}
      BY <1>0, <2>4 DEF SeatsOk
    <3>2. PcAt(n, p) = PcAt(m, p)
      BY <1>3, <1>6, <1>10, <3>1
    <3>3. \A h \in Seat : h < j => d.ids[h] = -1
      BY <1>0, <2>4 DEF SeatsOk
    <3> QED
      BY <1>11, <3>1, <3>2, <3>3
  <2>5. ASSUME NEW p \in Pid \ {1}
        PROVE  /\ PcAt(n, p) \in NoSeat => d.local[p].id = -1
               /\ PcAt(n, p) = "id_found" =>
                    /\ d.local[p].id \in Seat
                    /\ d.ids[d.local[p].id] # -1
                    /\ \A j \in Seat : j < d.local[p].id => d.ids[j] = -1
               /\ PcAt(n, p) \in PastId => d.local[p].id \in Seat /\ d.ids[d.local[p].id] = -1
    <3>1. CASE p = k
      BY <1>2, <2>1, <3>1 DEF PastId, AtForks
    <3>2. CASE p # k
      BY <1>0, <1>3, <3>2 DEF SeatsOk
    <3> QED
      BY <3>1, <3>2
  <2>6. ASSUME NEW p \in Pid, NEW q \in Pid, PcAt(n, p) # Null, PcAt(n, q) # Null,
               d.local[p].id # -1, d.local[p].id = d.local[q].id
        PROVE  p = q
    <3>1. p # k /\ q # k
      BY <2>1, <2>6
    <3>2. PcAt(m, 1) # Null
      BY <1>9 DEF Labels
    <3>3. PcAt(m, p) # Null /\ PcAt(m, q) # Null
      BY <1>3, <2>6, <3>1, <3>2
    <3> QED
      BY <1>0, <2>6, <3>3 DEF SeatsOk
  <2> QED
    BY <2>2, <2>3, <2>4, <2>5, <2>6 DEF SeatsOk
<1>19. ForksOk(n, d)
  <2>1. "spawned" \notin {"no_left", "only_right", "no_fork"}
    OBVIOUS
  <2>2. \A p \in Pid : PcAt(n, p) \notin {"no_left", "only_right", "no_fork"}
    BY <1>0, <1>2, <1>3, <2>1 DEF ForksOk
  <2>3. \A p \in Pid : Holds(m, p) => PcAt(n, p) = PcAt(m, p)
    <3>1. ~Holds(m, 1) /\ ~Holds(m, k)
      BY <1>1, <1>9 DEF Holds, InGetId, AtForks, Labels
    <3> QED
      BY <1>3, <3>1
  <2> QED
    BY <1>0, <1>16, <2>2, <2>3 DEF ForksOk
<1>20. MealsOk(n, d)
  <2> SUFFICES ASSUME Philosophers > 1
               PROVE  /\ \A p \in Pid \ {1} : MealAt(PcAt(n, p), d.local[p])
                      /\ \A j \in 1 .. MaxWaiting :
                           n.pcb[1].waiting[j].pid # 0 =>
                             n.pcb[1].waiting[j].result \in {-1, Rounds}
    BY <1>0, <1>2 DEF MealsOk
  <2>1. ASSUME NEW p \in Pid \ {1}
        PROVE  MealAt(PcAt(n, p), d.local[p])
    <3>1. MealAt(PcAt(m, p), d.local[p])
      BY <1>0 DEF MealsOk
    <3>2. CASE p = k
      BY <1>2, <3>1, <3>2 DEF MealAt
    <3>3. CASE p # k
      BY <1>3, <3>1, <3>3
    <3> QED
      BY <3>2, <3>3
  <2>2. ASSUME NEW j \in 1 .. MaxWaiting, n.pcb[1].waiting[j].pid # 0
        PROVE  n.pcb[1].waiting[j].result \in {-1, Rounds}
    <3>1. CASE j = i
      BY <1>5, <3>1
    <3>2. CASE j # i
      <4>1. n.pcb[1].waiting[j] = m.pcb[1].waiting[j]
        BY <1>5, <3>2
      <4>2. m.pcb[1].waiting[j].pid # 0 => m.pcb[1].waiting[j].result \in {-1, Rounds}
        BY <1>0 DEF MealsOk
      <4> QED
        BY <2>2, <4>1, <4>2
    <3> QED
      BY <3>1, <3>2
  <2> QED
    BY <2>1, <2>2
<1> QED
  BY <1>0, <1>12, <1>13, <1>14, <1>15, <1>16, <1>17, <1>18, <1>19, <1>20 DEF Fine, OneMoves

(* Whoever has the lock has all the forks that are off the table.          *)
LEMMA HolderForks ==
  ASSUME NEW m, NEW d, Fine(m, d), NEW c \in Pid, Holds(m, c),
         NEW f \in Seat, d.forks[f] = 0
  PROVE  f \in ForksAt(PcAt(m, c), d.local[c].id)
BY DEF Fine, ForksOk, LockOk

LEMMA ForksKept ==
  ASSUME NEW m, NEW n, NEW d, NEW e, NEW c, NEW l, NEW r, Fine(m, d), GuestStep(m, d, n, e, c, l, r),
         e.forks = d.forks,
         PcAt(m, c) \notin {"left", "eat", "only_left"},
         l \notin {"no_left", "only_right", "no_fork"}
  PROVE  ForksOk(n, e)
<1>1. ForksOk(m, d)
  BY DEF Fine
<1>2. /\ c \in Pid /\ PcAt(n, c) = l /\ OthersStay(m, n, c)
      /\ \A q \in Pid \ {c} : e.local[q] = d.local[q]
  BY DEF GuestStep
<1>3. ASSUME NEW f \in Seat, e.forks[f] = 0
      PROVE  \E p \in Pid : Holds(n, p) /\ f \in ForksAt(PcAt(n, p), e.local[p].id)
  <2>1. PICK p \in Pid : Holds(m, p) /\ f \in ForksAt(PcAt(m, p), d.local[p].id)
    BY <1>1, <1>3 DEF ForksOk
  <2>2. p # c
    BY <1>1, <1>2, <2>1 DEF ForksAt, ForksOk
  <2>3. Holds(n, p) /\ PcAt(n, p) = PcAt(m, p) /\ e.local[p] = d.local[p]
    BY <1>2, <2>1, <2>2, OthersHold DEF OneMoves, OthersStay
  <2> QED
    BY <2>1, <2>3
<1>4. \A p \in Pid : PcAt(n, p) \notin {"no_left", "only_right", "no_fork"}
  BY <1>1, <1>2 DEF ForksOk, OthersStay
<1> QED
  BY <1>3, <1>4 DEF ForksOk

(* The forks off the table are in the hands of c after its step.           *)
LEMMA ForksMoved ==
  ASSUME NEW m, NEW n, NEW d, NEW e, NEW c, NEW l, NEW r, Fine(m, d), GuestStep(m, d, n, e, c, l, r),
         l \in AtForks \ {"no_left", "only_right", "no_fork"},
         \A f \in Seat : e.forks[f] = 0 => f \in ForksAt(l, e.local[c].id)
  PROVE  ForksOk(n, e)
<1>1. c \in Pid /\ PcAt(n, c) = l /\ OthersStay(m, n, c)
  BY DEF GuestStep
<1>2. Holds(n, c)
  BY <1>1 DEF Holds
<1> QED
  BY <1>1, <1>2 DEF Fine, ForksOk, OthersStay

(* What is left to show of a step of a philosopher.                        *)
LEMMA GuestFine ==
  ASSUME NEW m, NEW n, NEW d, NEW e, NEW c, NEW l, NEW r, Fine(m, d), GuestStep(m, d, n, e, c, l, r),
         StartOk(n, e), LockOk(n), SeatsOk(n, e), ForksOk(n, e),
         Philosophers > 1 => MealAt(l, e.local[c])
  PROVE  Fine(n, e) /\ OneMoves(m, n, c)
<1>1. MealsOk(n, e)
  <2> SUFFICES ASSUME Philosophers > 1
               PROVE  MealsOk(n, e)
    BY DEF MealsOk
  <2>1. /\ PcAt(n, 1) = PcAt(m, 1) /\ R0At(n, 1) = R0At(m, 1)
        /\ n.pcb[1].waiting = m.pcb[1].waiting /\ e.answers = d.answers
    <3>1. 1 \in Pid
      BY SizesAssumption
    <3>2. PcAt(n, 1) = PcAt(m, 1) /\ R0At(n, 1) = R0At(m, 1)
      BY GuestStepCounts
    <3> QED
      BY <3>1, <3>2 DEF GuestStep, SameWaits
  <2>2. ASSUME NEW p \in Pid \ {1}
        PROVE  MealAt(PcAt(n, p), e.local[p])
    <3>1. CASE p = c
      BY <3>1 DEF GuestStep
    <3>2. CASE p # c
      <4>1. PcAt(n, p) = PcAt(m, p) /\ e.local[p] = d.local[p]
        BY <3>2 DEF GuestStep, OthersStay
      <4>2. MealAt(PcAt(m, p), d.local[p])
        BY DEF Fine, MealsOk
      <4> QED
        BY <4>1, <4>2
    <3> QED
      BY <3>1, <3>2
  <2> QED
    BY <2>1, <2>2 DEF Fine, MealsOk
<1>2. MainOk(n, e) /\ GuestsOk(n, e) /\ WaitsOk(n, e)
  BY GuestStepKeeps
<1>3. OneMoves(m, n, c)
  BY OthersHold DEF GuestStep
<1> QED
  BY <1>1, <1>2, <1>3 DEF Fine, GuestStep

(* A step in which nothing changes but where c is.                         *)
LEMMA GuestWalks ==
  ASSUME NEW m, NEW n, NEW d, NEW e, NEW c, NEW l, NEW r, Fine(m, d), GuestStep(m, d, n, e, c, l, r),
         e.forks = d.forks, e.ids = d.ids, e.state = d.state, e.local[c].id = d.local[c].id,
         LockOk(n),
         PcAt(m, c) \in Early => l \in Early \/ d.state = 1,
         PcAt(m, c) \in PastId <=> l \in PastId,
         l \in NoSeat => PcAt(m, c) \in NoSeat,
         l # "id_found",
         PcAt(m, c) \notin {"left", "eat", "only_left"},
         l \notin {"no_left", "only_right", "no_fork"},
         Philosophers > 1 => MealAt(l, e.local[c])
  PROVE  Fine(n, e) /\ OneMoves(m, n, c)
<1>1. StartOk(n, e)
  BY StartKept
<1>2. SeatsOk(n, e)
  BY SeatsKept
<1>3. ForksOk(n, e)
  BY ForksKept
<1> QED
  BY <1>1, <1>2, <1>3, GuestFine

(* The lock as it was, while c has it or while c has not.                  *)
LEMMA GuestLock ==
  ASSUME NEW m, NEW n, NEW d, NEW e, NEW c, NEW l, NEW r, Fine(m, d), GuestStep(m, d, n, e, c, l, r),
         \/ /\ SameShared(m, n)
            /\ Holds(n, c) <=> Holds(m, c)
         \/ /\ m.pcb[1].shared.locked = FALSE /\ Holds(n, c)
            /\ n.pcb[1].shared.locked = TRUE
         \/ /\ Holds(m, c) /\ ~Holds(n, c)
            /\ n.pcb[1].shared.locked = FALSE
  PROVE  LockOk(n)
<1>1. c \in Pid /\ 1 \in Pid /\ LockOk(m) /\ OneMoves(m, n, c)
  BY OthersHold, SizesAssumption DEF Fine, GuestStep
<1>2. PcAt(n, 1) = PcAt(m, 1) /\ PcAt(m, 1) # Null
  BY GuestStepCounts
<1>3. SameShared(m, n) => n.pcb[1].shared.locked = m.pcb[1].shared.locked
  BY <1>1 DEF SameShared
<1>4. CASE SameShared(m, n) /\ (Holds(n, c) <=> Holds(m, c))
  BY <1>1, <1>2, <1>3, <1>4, LockKept
<1>5. CASE ~(SameShared(m, n) /\ (Holds(n, c) <=> Holds(m, c)))
  BY <1>1, <1>2, <1>5, LockPassed
<1> QED
  BY <1>4, <1>5

-----------------------------------------------------------------------------
(* Who is at a label                                                       *)

LEMMA GuestHere ==
  ASSUME NEW m, NEW d, Fine(m, d), m.frame.pc \in GuestLabels,
         m.frame.pc = "spawned" => m.frame.r0 = 0
  PROVE  /\ m.current \in Pid \ {1} /\ PcAt(m, m.current) = m.frame.pc
         /\ R0At(m, m.current) = m.frame.r0
         /\ m.frame.pc # Null /\ Sound(m) /\ PcAt(m, 1) # Null
         /\ SharedOwners(m, m.current, arbitrator) = {1}
<1>1. /\ Sound(m) /\ m.current \in Pid
      /\ PcAt(m, m.current) = m.frame.pc /\ R0At(m, m.current) = m.frame.r0
  BY SoundParts DEF Fine
<1>2. m.frame.pc # Null
  BY LabelsAreCode
<1>3. m.current # 1
  <2> SUFFICES ASSUME m.current = 1
               PROVE  FALSE
    OBVIOUS
  <2>1. PcAt(m, 1) \in MainLabels
    BY <1>1, <1>2 DEF Fine, MainOk
  <2>2. PcAt(m, 1) = "spawned"
    BY <1>1, <2>1 DEF MainLabels, GuestLabels, NoSeat, PastId, AtForks
  <2>3. /\ GuestCount(m, d) = Len(d.pids) + 1 /\ Len(d.pids) \in Nat
        /\ GuestAt(m, d, Len(d.pids) + 1) = R0At(m, 1)
    BY <2>2, CountsTyped DEF Fine, GuestAt
  <2>4. R0At(m, 1) \in Pid
    BY <2>3 DEF Fine, GuestsOk
  <2> QED
    BY <1>1, <2>2, <2>4
<1>4. PcAt(m, 1) \in {"spawn", "spawned", "asked"} /\ m.pcb[1].shared.ptr = arbitrator
  BY <1>1, <1>2, <1>3, MainStays
<1>5. PcAt(m, 1) # Null
  BY <1>4, LabelsAreCode DEF Labels
<1>6. m.pcb[m.current].ppid = 1 /\ m.pcb[m.current].shared.ptr # arbitrator
  BY <1>1, <1>2, <1>3 DEF Fine, GuestsOk
<1>7. SharedOwners(m, m.current, arbitrator) = {1}
  BY <1>4, <1>6 DEF SharedOwners
<1> QED
  BY <1>1, <1>2, <1>3, <1>5, <1>7

LEMMA MainHere ==
  ASSUME NEW m, NEW d, Fine(m, d), m.frame.pc \in MainLabels,
         m.frame.pc = "spawned" => m.frame.r0 # 0
  PROVE  /\ m.current = 1 /\ PcAt(m, 1) = m.frame.pc /\ R0At(m, 1) = m.frame.r0
         /\ m.frame.pc # Null /\ Sound(m)
<1>1. /\ Sound(m) /\ m.current \in Pid
      /\ PcAt(m, m.current) = m.frame.pc /\ R0At(m, m.current) = m.frame.r0
  BY SoundParts DEF Fine
<1>2. m.frame.pc # Null
  BY LabelsAreCode
<1>3. m.current = 1
  <2> SUFFICES ASSUME m.current # 1
               PROVE  FALSE
    OBVIOUS
  <2>1. PcAt(m, m.current) \in GuestLabels
    BY <1>1, <1>2 DEF Fine, GuestsOk
  <2>2. PcAt(m, m.current) = "spawned"
    BY <1>1, <2>1 DEF MainLabels, GuestLabels, NoSeat, PastId, AtForks
  <2> QED
    BY <1>1, <2>2 DEF Fine, GuestsOk
<1> QED
  BY <1>1, <1>2, <1>3

-----------------------------------------------------------------------------
(* The steps of a philosopher                                              *)

(* c keeps its seat, and the others keep all that is theirs.               *)
TableKept(d, e, c) ==
  /\ e.ids = d.ids /\ e.state = d.state /\ e.pids = d.pids /\ e.answers = d.answers
  /\ e.local[c].id = d.local[c].id
  /\ \A q \in Pid \ {c} : e.local[q] = d.local[q]

LEMMA Stepping ==
  ASSUME NEW m, NEW n, NEW d, NEW e, NEW c \in Pid \ {1}, NEW l, NEW r, Fine(m, d),
         c = m.current, PcAt(m, c) # Null, Stepped(m, n, l, r),
         \/ SameShared(m, n)
         \/ \E b \in BOOLEAN : NowShares(m, n, 1, [m.pcb[1].shared EXCEPT !.locked = b]),
         l \in GuestLabels \ {"spawned"},
         l \in {"get_id", "forks"} => r \in {0, 1},
         DinnerTyped(e), e.pids = d.pids, e.answers = d.answers,
         \A q \in Pid \ {c} : e.local[q] = d.local[q]
  PROVE  GuestStep(m, d, n, e, c, l, r)
<1>1. \A q \in Pid : n.pcb[q].shared.ptr = m.pcb[q].shared.ptr
  <2>1. CASE SameShared(m, n)
    BY <2>1 DEF SameShared
  <2>2. ASSUME NEW b \in BOOLEAN, NowShares(m, n, 1, [m.pcb[1].shared EXCEPT !.locked = b])
        PROVE  \A q \in Pid : n.pcb[q].shared.ptr = m.pcb[q].shared.ptr
    <3> DEFINE s == m.pcb[1].shared
    <3>1. 1 \in Pid /\ s \in [ptr : Ptrs \cup {Null}, locked : BOOLEAN]
      BY SizesAssumption, SharedRow DEF Fine
    <3> HIDE DEF s
    <3>2. [s EXCEPT !.locked = b].ptr = s.ptr
      BY <3>1
    <3> QED
      BY <2>2, <3>2 DEF NowShares, s
  <2> QED
    BY <2>1, <2>2
<1> QED
  BY <1>1 DEF GuestStep, Stepped, Goes

(* Steps that leave lock, ids and forks alone.                             *)
LEMMA WalksOn ==
  ASSUME NEW m, NEW n, NEW d, NEW e, NEW k, NEW l, NEW r, Fine(m, d), m.frame.pc = k,
         k \in {"spawned", "get_id", "forks"} => m.frame.r0 = 0,
         l \in {"get_id", "forks"} => r = 0,
         Stepped(m, n, l, r), SameShared(m, n),
         \/ k = "spawned" /\ l = "philosopher"
         \/ k = "philosopher" /\ l = "get_id"
         \/ k = "get_id" /\ l = "philosopher"
         \/ k = "await" /\ l = "await"
         \/ k = "await" /\ l = "think" /\ d.state = 1
         \/ k = "think" /\ l = "hungry"
         \/ k = "hungry" /\ l = "forks"
         \/ k = "forks" /\ l = "hungry",
         DinnerTyped(e), TableKept(d, e, m.current), e.forks = d.forks,
         Philosophers > 1 => MealAt(l, e.local[m.current])
  PROVE  Fine(n, e) /\ OneMoves(m, n, m.current)
<1> DEFINE c == m.current
<1>0. k \in GuestLabels /\ l \in GuestLabels \ {"spawned"}
  BY DEF GuestLabels, NoSeat, PastId
<1>1. c \in Pid \ {1} /\ PcAt(m, c) = k /\ R0At(m, c) = m.frame.r0 /\ PcAt(m, c) # Null
  BY <1>0, GuestHere
<1> HIDE DEF c
<1>2. GuestStep(m, d, n, e, c, l, r)
  BY <1>0, <1>1, Stepping DEF TableKept, c
<1>3. PcAt(n, c) = l /\ R0At(n, c) = r
  BY <1>2 DEF GuestStep
<1>4. ~Holds(m, c) /\ ~Holds(n, c)
  BY <1>1, <1>3 DEF Holds, InGetId, AtForks
<1>5. LockOk(n)
  BY <1>2, <1>4, GuestLock
<1>6. /\ k \in Early => l \in Early \/ d.state = 1
      /\ k \in PastId <=> l \in PastId
      /\ l \in NoSeat => k \in NoSeat
      /\ l # "id_found" /\ k \notin {"left", "eat", "only_left"}
      /\ l \notin {"no_left", "only_right", "no_fork"}
  BY DEF Early, PastId, NoSeat, AtForks
<1> QED
  BY <1>1, <1>2, <1>5, <1>6, GuestWalks DEF TableKept, c

(* lockm has the lock.                                                     *)
LEMMA LockGained ==
  ASSUME NEW m, NEW n, NEW d, NEW k, NEW l, Fine(m, d), m.frame.pc = k,
         Stepped(m, n, l, 1),
         m.pcb[1].shared.locked = FALSE,
         NowShares(m, n, 1, [m.pcb[1].shared EXCEPT !.locked = TRUE]),
         \/ k = "philosopher" /\ l = "get_id"
         \/ k = "hungry" /\ l = "forks"
  PROVE  Fine(n, d) /\ OneMoves(m, n, m.current)
<1> DEFINE c == m.current
<1>0. /\ k \in GuestLabels /\ l \in GuestLabels \ {"spawned"} /\ k # "spawned"
      /\ DinnerTyped(d)
  BY DEF GuestLabels, NoSeat, PastId, Fine
<1>1. c \in Pid \ {1} /\ PcAt(m, c) = k /\ PcAt(m, c) # Null
  BY <1>0, GuestHere
<1> HIDE DEF c
<1>2. GuestStep(m, d, n, d, c, l, 1)
  BY <1>0, <1>1, Stepping DEF c
<1>3. Holds(n, c)
  BY <1>2 DEF Holds, GuestStep
<1>4. n.pcb[1].shared.locked = TRUE
  <2> DEFINE s == m.pcb[1].shared
  <2>1. 1 \in Pid /\ s \in [ptr : Ptrs \cup {Null}, locked : BOOLEAN]
    BY SizesAssumption, SharedRow DEF Fine
  <2>2. n.pcb[1].shared = [s EXCEPT !.locked = TRUE]
    BY DEF NowShares
  <2> HIDE DEF s
  <2> QED
    BY <2>1, <2>2
<1>5. LockOk(n)
  BY <1>2, <1>3, <1>4, GuestLock
<1>6. /\ k \in Early => l \in Early \/ d.state = 1
      /\ k \in PastId <=> l \in PastId
      /\ l \in NoSeat => k \in NoSeat
      /\ l # "id_found" /\ k \notin {"left", "eat", "only_left"}
      /\ l \notin {"no_left", "only_right", "no_fork"}
  BY DEF Early, PastId, NoSeat, AtForks
<1>7. Philosophers > 1 => MealAt(l, d.local[c])
  <2>1. Philosophers > 1 => MealAt(k, d.local[c])
    BY <1>1 DEF Fine, MealsOk
  <2> QED
    BY <2>1 DEF MealAt, Early, NoSeat
<1> QED
  BY <1>1, <1>2, <1>5, <1>6, <1>7, GuestWalks DEF c

(* unlockm gives it back.                                                  *)
LEMMA LockReturned ==
  ASSUME NEW m, NEW n, NEW d, NEW k, NEW l, Fine(m, d), m.frame.pc = k,
         Stepped(m, n, l, 1),
         NowShares(m, n, 1, [m.pcb[1].shared EXCEPT !.locked = FALSE]),
         \/ k = "got_id" /\ l = "await"
         \/ k = "full" /\ l = "think"
  PROVE  Fine(n, d) /\ OneMoves(m, n, m.current)
<1> DEFINE c == m.current
<1>0. /\ k \in GuestLabels /\ l \in GuestLabels \ {"spawned"} /\ k # "spawned"
      /\ l \notin {"get_id", "forks"} /\ DinnerTyped(d)
  BY DEF GuestLabels, NoSeat, PastId, AtForks, Fine
<1>1. c \in Pid \ {1} /\ PcAt(m, c) = k /\ PcAt(m, c) # Null
  BY <1>0, GuestHere
<1> HIDE DEF c
<1>2. GuestStep(m, d, n, d, c, l, 1)
  BY <1>0, <1>1, Stepping DEF c
<1>3. Holds(m, c) /\ ~Holds(n, c)
  BY <1>1, <1>2 DEF Holds, GuestStep, InGetId, AtForks
<1>4. n.pcb[1].shared.locked = FALSE
  <2> DEFINE s == m.pcb[1].shared
  <2>1. 1 \in Pid /\ s \in [ptr : Ptrs \cup {Null}, locked : BOOLEAN]
    BY SizesAssumption, SharedRow DEF Fine
  <2>2. n.pcb[1].shared = [s EXCEPT !.locked = FALSE]
    BY DEF NowShares
  <2> HIDE DEF s
  <2> QED
    BY <2>1, <2>2
<1>5. LockOk(n)
  BY <1>2, <1>3, <1>4, GuestLock
<1>6. /\ k \in Early => l \in Early \/ d.state = 1
      /\ k \in PastId <=> l \in PastId
      /\ l \in NoSeat => k \in NoSeat
      /\ l # "id_found" /\ k \notin {"left", "eat", "only_left"}
      /\ l \notin {"no_left", "only_right", "no_fork"}
  BY DEF Early, PastId, NoSeat, AtForks
<1>7. Philosophers > 1 => MealAt(l, d.local[c])
  <2>1. Philosophers > 1 => MealAt(k, d.local[c])
    BY <1>1 DEF Fine, MealsOk
  <2> QED
    BY <2>1 DEF MealAt, Early, NoSeat
<1> QED
  BY <1>1, <1>2, <1>5, <1>6, <1>7, GuestWalks DEF c

(* get_id finds the first id that is free.                                 *)
LEMMA FindsId ==
  ASSUME NEW m, NEW n, NEW d, NEW e, Fine(m, d), m.frame.pc = "get_id", m.frame.r0 # 0,
         n = Onward(m, "id_found"),
         NEW i \in Seat, d.ids[i] # -1, \A j \in Seat : d.ids[j] # -1 => i <= j,
         DinnerTyped(e), e.forks = d.forks, e.ids = d.ids, e.state = d.state,
         e.pids = d.pids, e.answers = d.answers,
         \A q \in Pid \ {m.current} : e.local[q] = d.local[q],
         e.local[m.current].id = d.ids[i], e.local[m.current].j = d.local[m.current].j,
         e.local[m.current].eaten = d.local[m.current].eaten
  PROVE  Fine(n, e) /\ OneMoves(m, n, m.current)
<1> DEFINE c == m.current
<1>0. "get_id" \in GuestLabels /\ "id_found" \in GuestLabels \ {"spawned", "get_id", "forks"}
  BY DEF GuestLabels, NoSeat
<1>1. /\ c \in Pid \ {1} /\ PcAt(m, c) = "get_id" /\ PcAt(m, c) # Null
      /\ R0At(m, c) = m.frame.r0 /\ m.frame.pc # Null /\ Sound(m)
  BY <1>0, GuestHere
<1>2. Stepped(m, n, "id_found", m.frame.r0) /\ SameShared(m, n)
  <2>1. "id_found" \in Code
    BY LabelsAreCode DEF Labels
  <2> QED
    BY <1>1, <2>1, OnwardEffect DEF SameShared
<1> HIDE DEF c
<1>3. \A q \in Pid \ {c} : e.local[q] = d.local[q]
  BY DEF c
<1>4. d.ids[i] = i
  BY DEF Fine, SeatsOk
<1>5. e.local[c].id = i /\ e.local[c].j = d.local[c].j /\ e.local[c].eaten = d.local[c].eaten
  BY <1>4 DEF c
<1>6. GuestStep(m, d, n, e, c, "id_found", m.frame.r0)
  BY <1>0, <1>1, <1>2, <1>3, Stepping DEF c
<1>7. Holds(m, c) /\ Holds(n, c)
  BY <1>1, <1>6 DEF Holds, GuestStep, InGetId
<1>8. LockOk(n)
  BY <1>2, <1>6, <1>7, GuestLock
<1>9. StartOk(n, e)
  BY <1>6, StartKept DEF Early
<1>10. \A j \in Seat : j < i => d.ids[j] = -1
  BY DEF Seat
<1>11. SeatsOk(n, e)
  BY <1>1, <1>5, <1>6, <1>7, <1>10, IdFound
<1>12. ForksOk(n, e)
  BY <1>1, <1>6, ForksKept
<1>13. Philosophers > 1 => MealAt("id_found", e.local[c])
  <2>1. Philosophers > 1 => MealAt("get_id", d.local[c])
    BY <1>1 DEF Fine, MealsOk
  <2> QED
    BY <1>5, <2>1 DEF MealAt, Early, NoSeat
<1> QED
  BY <1>6, <1>8, <1>9, <1>11, <1>12, <1>13, GuestFine DEF c

LEMMA TakesId ==
  ASSUME NEW m, NEW n, NEW d, NEW e, Fine(m, d), m.frame.pc = "id_found",
         n = Onward(m, "got_id"),
         DinnerTyped(e), e.forks = d.forks, e.local = d.local,
         e.pids = d.pids, e.answers = d.answers,
         IdGone(d, e, m.current)
  PROVE  Fine(n, e) /\ OneMoves(m, n, m.current)
<1> DEFINE c == m.current
           k == "id_found"
           l == "got_id"
<1>0. k \in GuestLabels \ {"spawned"} /\ l \in GuestLabels \ {"spawned", "get_id", "forks"}
  BY DEF GuestLabels, NoSeat, PastId
<1>1. /\ c \in Pid \ {1} /\ PcAt(m, c) = k /\ PcAt(m, c) # Null
      /\ m.frame.pc # Null /\ Sound(m)
  BY <1>0, GuestHere
<1>2. Stepped(m, n, l, m.frame.r0) /\ SameShared(m, n)
  <2>1. l \in Code
    BY LabelsAreCode DEF Labels
  <2> QED
    BY <1>1, <2>1, OnwardEffect DEF SameShared
<1> HIDE DEF c
<1>3. GuestStep(m, d, n, e, c, l, m.frame.r0)
  BY <1>0, <1>1, <1>2, Stepping DEF c
<1>4. Holds(m, c) /\ Holds(n, c)
  BY <1>1, <1>3 DEF Holds, GuestStep, InGetId
<1>5. LockOk(n)
  BY <1>2, <1>3, <1>4, GuestLock
<1>6. SeatsOk(n, e) /\ StartOk(n, e)
  BY <1>1, <1>3, IdTaken DEF c
<1>7. ForksOk(n, e)
  BY <1>1, <1>3, ForksKept
<1>8. Philosophers > 1 => MealAt(l, e.local[c])
  <2>1. Philosophers > 1 => MealAt(k, d.local[c])
    BY <1>1 DEF Fine, MealsOk
  <2> QED
    BY <2>1 DEF MealAt, Early, NoSeat
<1> QED
  BY <1>3, <1>5, <1>6, <1>7, <1>8, GuestFine DEF c

-----------------------------------------------------------------------------
(* The forks                                                               *)

LEMMA RightSeat ==
  ASSUME NEW i \in Seat
  PROVE  Right(i) \in Seat /\ (Philosophers > 1 => Right(i) # i)
<1>1. Philosophers \in Nat /\ Philosophers > 0 /\ i \in Nat /\ i < Philosophers
  BY DinnerAssumption DEF Seat
<1>2. CASE i + 1 < Philosophers
  <2>1. (i + 1) % Philosophers = i + 1
    BY <1>1, <1>2
  <2> QED
    BY <1>1, <1>2, <2>1 DEF Right, Seat
<1>3. CASE i + 1 = Philosophers
  <2>1. (i + 1) % Philosophers = 0
    BY <1>1, <1>3
  <2> QED
    BY <1>1, <1>3, <2>1 DEF Right, Seat
<1> QED
  BY <1>1, <1>2, <1>3

(* A step of the holder of the lock from k to l, with the forks.           *)
LEMMA ForksStep ==
  ASSUME NEW m, NEW n, NEW d, NEW e, NEW k, NEW l, Fine(m, d), m.frame.pc = k,
         k = "forks" => m.frame.r0 = 1,
         k \in {"forks", "left", "eat", "only_left"},
         l \in {"left", "eat", "only_left", "full"},
         n = Onward(m, l),
         DinnerTyped(e), TableKept(d, e, m.current),
         \A f \in Seat : e.forks[f] = 0 => f \in ForksAt(l, e.local[m.current].id),
         Philosophers > 1 => MealAt(l, e.local[m.current])
  PROVE  Fine(n, e) /\ OneMoves(m, n, m.current)
<1> DEFINE c == m.current
<1>0. k \in GuestLabels \ {"spawned"} /\ l \in GuestLabels \ {"spawned", "get_id", "forks"}
  BY DEF GuestLabels, NoSeat, PastId, AtForks
<1>1. /\ c \in Pid \ {1} /\ PcAt(m, c) = k /\ PcAt(m, c) # Null
      /\ R0At(m, c) = m.frame.r0 /\ m.frame.pc # Null /\ Sound(m)
  BY <1>0, GuestHere
<1>2. Stepped(m, n, l, m.frame.r0) /\ SameShared(m, n)
  <2>1. l \in Code
    BY <1>0, LabelsAreCode
  <2> QED
    BY <1>1, <2>1, OnwardEffect DEF SameShared
<1> HIDE DEF c
<1>3. GuestStep(m, d, n, e, c, l, m.frame.r0)
  BY <1>0, <1>1, <1>2, Stepping DEF c, TableKept
<1>4. Holds(m, c) /\ Holds(n, c)
  <2>1. Holds(m, c)
    BY <1>1 DEF Holds, AtForks
  <2>2. PcAt(n, c) = l
    BY <1>3 DEF GuestStep
  <2> QED
    BY <2>1, <2>2 DEF Holds, AtForks
<1>5. LockOk(n)
  BY <1>2, <1>3, <1>4, GuestLock
<1>6. ~(k \in Early) /\ k \in PastId /\ l \in PastId /\ l \notin NoSeat /\ l # "id_found"
  BY DEF Early, PastId, NoSeat, AtForks
<1>7. StartOk(n, e)
  BY <1>1, <1>3, <1>6, StartKept DEF TableKept
<1>8. SeatsOk(n, e)
  BY <1>1, <1>3, <1>6, SeatsKept DEF TableKept, c
<1>9. ForksOk(n, e)
  BY <1>3, ForksMoved DEF AtForks, c
<1> QED
  BY <1>3, <1>5, <1>7, <1>8, <1>9, GuestFine DEF c

LEMMA LeftTaken ==
  ASSUME NEW m, NEW n, NEW d, NEW e, Fine(m, d), m.frame.pc = "forks", m.frame.r0 = 1,
         n = Onward(m, IF d.forks[d.local[m.current].id] = 1 THEN "left" ELSE "no_left"),
         DinnerTyped(e), TableKept(d, e, m.current), e.local = d.local,
         e.forks = [d.forks EXCEPT ![d.local[m.current].id] = 0]
  PROVE  Fine(n, e) /\ OneMoves(m, n, m.current)
<1> DEFINE c == m.current
           i == d.local[c].id
<1>0. "forks" \in GuestLabels \ {"spawned"} /\ "forks" \in PastId
  BY DEF GuestLabels, PastId
<1>1. c \in Pid \ {1} /\ PcAt(m, c) = "forks" /\ R0At(m, c) = 1
  BY <1>0, GuestHere
<1>2. Holds(m, c) /\ i \in Seat /\ d.forks \in [Seat -> {0, 1}]
  <2>1. Holds(m, c)
    BY <1>1 DEF Holds
  <2>2. SeatsOk(m, d) /\ DinnerTyped(d)
    BY DEF Fine
  <2>3. i \in Seat
    BY <1>0, <1>1, <2>2 DEF SeatsOk
  <2> QED
    BY <2>1, <2>2, <2>3 DEF DinnerTyped
<1>3. \A f \in Seat : d.forks[f] # 0
  BY <1>1, <1>2, HolderForks DEF ForksAt
<1>4. d.forks[i] = 1
  BY <1>2, <1>3
<1>5. n = Onward(m, "left")
  BY <1>4
<1>6. \A f \in Seat : e.forks[f] = 0 => f \in ForksAt("left", e.local[c].id)
  BY <1>2, <1>3 DEF ForksAt
<1>7. Philosophers > 1 => MealAt("left", e.local[c])
  <2>1. Philosophers > 1 => MealAt("forks", d.local[c])
    BY <1>1 DEF Fine, MealsOk
  <2> QED
    BY <2>1 DEF MealAt, Early, NoSeat
<1> QED
  BY <1>5, <1>6, <1>7, ForksStep

LEMMA RightTaken ==
  ASSUME NEW m, NEW n, NEW d, NEW e, Fine(m, d), m.frame.pc = "left",
         NEW g, g = Right(d.local[m.current].id),
         n = Onward(m, IF d.forks[g] = 1 THEN "eat" ELSE "only_left"),
         DinnerTyped(e), TableKept(d, e, m.current), e.local = d.local,
         e.forks = [d.forks EXCEPT ![g] = 0]
  PROVE  Fine(n, e) /\ OneMoves(m, n, m.current)
<1> DEFINE c == m.current
           i == d.local[c].id
           l == IF d.forks[g] = 1 THEN "eat" ELSE "only_left"
<1>0. "left" \in GuestLabels \ {"spawned"} /\ "left" \in PastId
  BY DEF GuestLabels, PastId, AtForks
<1>1. c \in Pid \ {1} /\ PcAt(m, c) = "left"
  BY <1>0, GuestHere
<1>2. Holds(m, c) /\ i \in Seat /\ d.forks \in [Seat -> {0, 1}]
  <2>1. Holds(m, c)
    BY <1>1 DEF Holds, AtForks
  <2>2. SeatsOk(m, d) /\ DinnerTyped(d)
    BY DEF Fine
  <2>3. i \in Seat
    BY <1>0, <1>1, <2>2 DEF SeatsOk
  <2> QED
    BY <2>1, <2>2, <2>3 DEF DinnerTyped
<1>3. \A f \in Seat : d.forks[f] = 0 => f = i
  BY <1>1, <1>2, HolderForks DEF ForksAt
<1>4. g \in Seat /\ (Philosophers > 1 => g # i)
  BY <1>2, RightSeat
<1>5. d.forks[g] # 1 => g = i /\ ~(Philosophers > 1)
  BY <1>2, <1>3, <1>4
<1>6. \A f \in Seat : e.forks[f] = 0 => f \in ForksAt(l, e.local[c].id)
  BY <1>2, <1>3, <1>4, <1>5 DEF ForksAt
<1>7. Philosophers > 1 => MealAt(l, e.local[c])
  <2>1. Philosophers > 1 => MealAt("left", d.local[c])
    BY <1>1 DEF Fine, MealsOk
  <2> QED
    BY <1>5, <2>1 DEF MealAt, Early, NoSeat
<1> QED
  BY <1>6, <1>7, ForksStep

LEMMA PutBack ==
  ASSUME NEW m, NEW n, NEW d, NEW e, NEW k \in {"eat", "only_left"},
         Fine(m, d), m.frame.pc = k, n = Onward(m, "full"),
         DinnerTyped(e), TableKept(d, e, m.current),
         \A f \in ForksAt(k, d.local[m.current].id) : e.forks[f] = 1,
         \A f \in Seat : d.forks[f] # 0 => e.forks[f] # 0,
         e.local[m.current].j = d.local[m.current].j,
         k = "eat" => e.local[m.current].eaten = d.local[m.current].eaten + 1
  PROVE  Fine(n, e) /\ OneMoves(m, n, m.current)
<1> DEFINE c == m.current
<1>0. k \in GuestLabels \ {"spawned"}
  BY DEF GuestLabels, PastId, AtForks
<1>1. c \in Pid \ {1} /\ PcAt(m, c) = k
  BY <1>0, GuestHere
<1>2. Holds(m, c) /\ d.local[c].j \in Nat /\ d.local[c].eaten \in Nat
  BY <1>1 DEF Holds, AtForks, Fine, DinnerTyped
<1>3. \A f \in Seat : e.forks[f] # 0
  BY <1>1, <1>2, HolderForks
<1>4. Philosophers > 1 => MealAt("full", e.local[c])
  <2>1. Philosophers > 1 => MealAt(k, d.local[c])
    BY <1>1 DEF Fine, MealsOk
  <2>2. Philosophers > 1 => k = "eat"
    BY <2>1 DEF MealAt
  <2> QED
    BY <1>2, <2>1, <2>2 DEF MealAt, Early, NoSeat
<1> QED
  BY <1>3, <1>4, ForksStep

LEMMA GuestLeaves ==
  ASSUME NEW m, NEW n, NEW d, NEW x, Fine(m, d), n = SysExit(m, x),
         m.frame.pc = "think", x = d.local[m.current].eaten, d.local[m.current].j = Rounds
  PROVE  Fine(n, d) /\ OneMoves(m, n, m.current)
<1> DEFINE c == m.current
<1>0. "think" \in GuestLabels \ {"spawned"} /\ "think" \in PastId /\ "think" \notin Early
  BY DEF GuestLabels, PastId, Early, NoSeat
<1>1. c \in Pid \ {1} /\ PcAt(m, c) = "think" /\ m.frame.pc # Null /\ Sound(m)
  BY <1>0, GuestHere
<1>2. x \in Nat /\ x # -1 /\ x \in Int
  BY <1>1 DEF Fine, DinnerTyped
<1>3. /\ Sound(n) /\ Ended(m, n, c, x) /\ PcAt(n, c) = Null /\ OthersStay(m, n, c)
  BY <1>1, <1>2, ExitEffect
<1>4. ~Holds(m, c)
  BY <1>1 DEF Holds, InGetId, AtForks
<1>5. d.state = 1
  <2>1. d.state \in {0, 1}
    BY DEF Fine, DinnerTyped
  <2>2. Guest(m, d, c)
    BY <1>0, <1>1 DEF Fine, GuestsOk
  <2> QED
    BY <1>0, <1>1, <2>1, <2>2 DEF Fine, StartOk, Guest
<1>6. Philosophers > 1 => x = Rounds
  BY <1>1 DEF Fine, MealsOk, MealAt
<1> QED
  BY <1>0, <1>1, <1>2, <1>3, <1>4, <1>5, <1>6, GuestGone, OthersHold

-----------------------------------------------------------------------------
(* The steps of main_dp                                                    *)

LEMMA MainMoves ==
  ASSUME NEW m, NEW n, NEW d, NEW e, NEW l, NEW r, Fine(m, d),
         m.current = 1, PcAt(m, 1) # Null, Stepped(m, n, l, r), l \in MainLabels,
         \A q \in Pid \ {1} : n.pcb[q].shared = m.pcb[q].shared,
         n.pcb[1].shared.locked = m.pcb[1].shared.locked,
         DinnerTyped(e),
         e.ids = d.ids, e.state = d.state, e.local = d.local, e.forks = d.forks,
         GuestCount(n, e) = GuestCount(m, d),
         \A i \in 1 .. GuestCount(m, d) : GuestAt(n, e, i) = GuestAt(m, d, i),
         MainOk(n, e),
         \A i \in 1 .. GuestCount(m, d) : Collected(n, e, i) <=> Collected(m, d, i),
         Philosophers > 1 =>
           /\ l = "asked" => r \in {-1, Rounds}
           /\ \A i \in 1 .. Len(e.answers) : e.answers[i] = Rounds
  PROVE  Fine(n, e) /\ OneMoves(m, n, 1)
<1>1. MainGoes(m, d, n, e, l, r) /\ OthersStay(m, n, 1)
  BY DEF MainGoes, Stepped, Goes
<1>2. n.pcb[1].waiting = m.pcb[1].waiting
  BY SizesAssumption DEF Stepped, SameWaits
<1>3. MealsOk(n, e)
  BY <1>1, <1>2, MainMeals DEF Fine, MealsOk
<1> QED
  BY <1>1, <1>2, <1>3, MainWalks, OthersHold

(* main_dp has spawned the same philosophers.                              *)
SameGuestList(m, n, d) ==
  /\ GuestCount(n, d) = GuestCount(m, d)
  /\ \A i \in 1 .. GuestCount(m, d) : GuestAt(n, d, i) = GuestAt(m, d, i)

(* Without a philosopher whose pid is in a register only.                  *)
LEMMA SameGuests ==
  ASSUME NEW m, NEW n, NEW d, DinnerTyped(d),
         PcAt(m, 1) # "spawned", PcAt(n, 1) # "spawned"
  PROVE  SameGuestList(m, n, d)
<1>1. GuestCount(n, d) = Len(d.pids) /\ GuestCount(m, d) = Len(d.pids)
  BY CountsTyped
<1>2. Len(d.pids) \in Nat
  BY CountsTyped
<1> QED
  BY <1>1, <1>2 DEF GuestAt, SameGuestList

(* main_dp shares the arbitrator, and takes it back.                       *)
LEMMA SharedPointer ==
  ASSUME NEW m, NEW n, NEW d, Fine(m, d), NEW k, NEW l, NEW q, m.frame.pc = k,
         \/ /\ k = "main_dp" /\ l = "spawn" /\ q = arbitrator
            /\ n = Share(Onward(m, l), m.current, arbitrator)
         \/ /\ k = "spawn" /\ l = "done" /\ q = Null /\ Len(d.answers) = Philosophers
            /\ n = Unshare(Onward(m, l), m.current, arbitrator)
  PROVE  Fine(n, d) /\ OneMoves(m, n, 1)
<1>0. /\ k \in MainLabels \ {"spawned", "asked"} /\ l \in MainLabels \ {"spawned", "asked"}
      /\ l \in Code /\ arbitrator \in Ptrs /\ 1 \in Pid /\ l # Null
  BY LabelsAreCode, DinnerAssumption, SizesAssumption DEF MainLabels, Labels
<1>1. m.current = 1 /\ PcAt(m, 1) = k /\ m.frame.pc # Null /\ Sound(m)
  BY <1>0, MainHere
<1>2. /\ k = "main_dp" => m.pcb[1].shared.ptr = Null /\ Len(d.pids) = 0
      /\ k = "spawn" => m.pcb[1].shared.ptr = arbitrator
      /\ DinnerTyped(d)
  <2>1. k = "main_dp" => m.pcb[1].shared = [ptr |-> Null, locked |-> FALSE] /\ Len(d.pids) = 0
    BY <1>1 DEF Fine, MainOk
  <2> QED
    BY <1>1, <2>1 DEF Fine, MainOk
<1>3. /\ Stepped(m, n, l, 1)
      /\ NowShares(m, n, 1, [m.pcb[1].shared EXCEPT !.ptr = q])
  <2>1. CASE k = "main_dp"
    BY <1>0, <1>1, <1>2, <2>1, ShareAt
  <2>2. CASE k # "main_dp"
    BY <1>0, <1>1, <1>2, <2>2, ShareAt
  <2> QED
    BY <2>1, <2>2
<1>4. n.pcb[1].shared.ptr = q /\ n.pcb[1].shared.locked = m.pcb[1].shared.locked
  <2> DEFINE s == m.pcb[1].shared
  <2>1. s \in [ptr : Ptrs \cup {Null}, locked : BOOLEAN]
    BY <1>0, <1>1, SharedRow
  <2>2. n.pcb[1].shared = [s EXCEPT !.ptr = q]
    BY <1>3 DEF NowShares
  <2> HIDE DEF s
  <2> QED
    BY <2>1, <2>2 DEF s
<1>5. PcAt(n, 1) = l
  BY <1>1, <1>3 DEF Stepped, Goes
<1>6. /\ GuestCount(n, d) = GuestCount(m, d)
      /\ \A i \in 1 .. GuestCount(m, d) : GuestAt(n, d, i) = GuestAt(m, d, i)
  BY <1>0, <1>1, <1>2, <1>5, SameGuests DEF SameGuestList
<1>7. MainOk(n, d)
  <2>1. MainOk(m, d) /\ Len(d.answers) \in Nat /\ Philosophers \in Nat \ {0}
    BY CountsTyped, DinnerAssumption DEF Fine
  <2>2. CASE k = "main_dp"
    <3>1. Len(d.answers) = 0
      BY <1>2, <2>1, <2>2 DEF MainOk
    <3> QED
      BY <1>0, <1>4, <1>5, <2>1, <2>2, <3>1 DEF MainOk
  <2>3. CASE k # "main_dp"
    BY <1>0, <1>4, <1>5, <2>1, <2>3 DEF MainOk
  <2> QED
    BY <2>2, <2>3
<1>8. \A i \in 1 .. GuestCount(m, d) : Collected(n, d, i) <=> Collected(m, d, i)
  BY <1>0, <1>1, <1>5 DEF Collected
<1>9. Philosophers > 1 => \A i \in 1 .. Len(d.answers) : d.answers[i] = Rounds
  BY DEF Fine, MealsOk
<1>10. \A p \in Pid \ {1} : n.pcb[p].shared = m.pcb[p].shared
  BY <1>3 DEF NowShares
<1>11. PcAt(m, 1) # Null
  BY <1>1
<1> QED
  BY <1>0, <1>1, <1>2, <1>3, <1>4, <1>6, <1>7, <1>8, <1>9, <1>10, <1>11, MainMoves

LEMMA PidKept ==
  ASSUME NEW m, NEW n, NEW d, NEW e, Fine(m, d), m.frame.pc = "spawned", m.frame.r0 # 0,
         n = Onward(m, "spawn"), DinnerTyped(e),
         e.ids = d.ids, e.state = d.state, e.local = d.local, e.forks = d.forks,
         e.answers = d.answers, e.pids = Append(d.pids, m.frame.r0)
  PROVE  Fine(n, e) /\ OneMoves(m, n, 1)
<1>0. "spawned" \in MainLabels /\ "spawn" \in MainLabels /\ "spawn" \in Code /\ 1 \in Pid
  BY LabelsAreCode, SizesAssumption DEF MainLabels, Labels
<1>1. /\ m.current = 1 /\ PcAt(m, 1) = "spawned" /\ R0At(m, 1) = m.frame.r0
      /\ m.frame.pc # Null /\ Sound(m)
  BY <1>0, MainHere
<1>2. /\ Stepped(m, n, "spawn", m.frame.r0) /\ n.pcb = m.pcb
  BY <1>0, <1>1, OnwardEffect
<1>3. PcAt(n, 1) = "spawn"
  BY <1>1, <1>2 DEF Stepped, Goes
<1> DEFINE k == Len(d.pids)
<1>4. /\ k \in Nat /\ GuestCount(m, d) = k + 1 /\ d.pids \in Seq(Pid)
      /\ GuestCount(n, e) = Len(e.pids)
  BY <1>1, <1>3, CountsTyped DEF Fine, DinnerTyped
<1>5. /\ Len(e.pids) = k + 1 /\ e.pids[k + 1] = m.frame.r0
      /\ \A i \in 1 .. k : e.pids[i] = d.pids[i]
  BY <1>4
<1> HIDE DEF k
<1>6. \A i \in 1 .. GuestCount(m, d) : GuestAt(n, e, i) = GuestAt(m, d, i)
  BY <1>1, <1>4, <1>5 DEF GuestAt, k
<1>7. MainOk(n, e)
  <2>1. MainOk(m, d) /\ Philosophers \in Nat /\ Len(d.answers) \in Nat
    BY DinnerAssumption, CountsTyped DEF Fine
  <2>2. k < Philosophers /\ Len(d.answers) = 0 /\ m.pcb[1].shared.ptr = arbitrator
    BY <1>1, <1>4, <2>1 DEF MainOk, k
  <2>3. "spawn" \notin {"main_dp", "spawned", "asked", "done", Null}
    BY LabelsAreCode DEF Labels
  <2> QED
    BY <1>0, <1>2, <1>3, <1>4, <1>5, <2>1, <2>2, <2>3 DEF MainOk
<1>8. \A i \in 1 .. GuestCount(m, d) : Collected(n, e, i) <=> Collected(m, d, i)
  BY <1>1, <1>3 DEF Collected
<1>9. Philosophers > 1 => \A i \in 1 .. Len(e.answers) : e.answers[i] = Rounds
  BY DEF Fine, MealsOk
<1> QED
  <2>1. PcAt(m, 1) # Null /\ GuestCount(n, e) = GuestCount(m, d)
    BY <1>1, <1>4, <1>5
  <2>2. "spawn" # "asked"
    OBVIOUS
  <2> QED
    BY <1>0, <1>1, <1>2, <1>6, <1>7, <1>8, <1>9, <2>1, <2>2, MainMoves

(* waitp takes what it is told, or asks again.                             *)
TakesResult(d, e, r) ==
  e.answers = IF r = -1 THEN d.answers ELSE Append(d.answers, r)

LEMMA ResultKept ==
  ASSUME NEW m, NEW n, NEW d, NEW e, Fine(m, d), m.frame.pc = "asked",
         Stepped(m, n, "spawn", m.frame.r0), SameShared(m, n), DinnerTyped(e),
         e.ids = d.ids, e.state = d.state, e.local = d.local, e.forks = d.forks,
         e.pids = d.pids, TakesResult(d, e, m.frame.r0)
  PROVE  Fine(n, e) /\ OneMoves(m, n, 1)
<1> DEFINE r == m.frame.r0
           k == Len(d.answers)
<1>0. "asked" \in MainLabels /\ "spawn" \in MainLabels /\ 1 \in Pid
  BY SizesAssumption DEF MainLabels
<1>1. m.current = 1 /\ PcAt(m, 1) = "asked" /\ R0At(m, 1) = r /\ PcAt(m, 1) # Null
  BY <1>0, MainHere
<1>2. PcAt(n, 1) = "spawn"
  BY <1>1 DEF Stepped, Goes
<1>3. /\ MainOk(m, d) /\ k \in Nat /\ d.answers \in Seq(Int) /\ Philosophers \in Nat
      /\ DinnerTyped(d)
  BY DinnerAssumption, CountsTyped DEF Fine, DinnerTyped
<1>4. /\ r \in Nat \cup {-1} /\ Len(d.pids) = Philosophers /\ k < Philosophers
      /\ m.pcb[1].shared.ptr = arbitrator
  BY <1>1, <1>3 DEF MainOk
<1>5. /\ r = -1 => e.answers = d.answers /\ Len(e.answers) = k
      /\ r # -1 => /\ Len(e.answers) = k + 1 /\ e.answers[k + 1] = r
                   /\ \A i \in 1 .. k : e.answers[i] = d.answers[i]
  BY <1>3, <1>4 DEF TakesResult
<1>6. /\ GuestCount(n, e) = GuestCount(m, d)
      /\ \A i \in 1 .. GuestCount(m, d) : GuestAt(n, e, i) = GuestAt(m, d, i)
  <2>1. GuestCount(n, e) = Len(d.pids) /\ GuestCount(m, d) = Len(d.pids) /\ Len(d.pids) \in Nat
    BY <1>1, <1>2, <1>3, CountsTyped
  <2> QED
    BY <2>1 DEF GuestAt
<1> HIDE DEF k, r
<1>7. MainOk(n, e)
  <2>1. "spawn" \notin {"main_dp", "spawned", "asked", "done", Null}
    BY LabelsAreCode DEF Labels
  <2>2. n.pcb[1].shared.ptr = arbitrator /\ Len(e.answers) <= Philosophers
    BY <1>0, <1>3, <1>4, <1>5 DEF SameShared
  <2> QED
    BY <1>0, <1>2, <1>3, <1>4, <2>1, <2>2 DEF MainOk
<1>8. ASSUME NEW i \in 1 .. GuestCount(m, d)
      PROVE  Collected(n, e, i) <=> Collected(m, d, i)
  <2>1. Collected(n, e, i) <=> i <= Len(e.answers)
    BY <1>2 DEF Collected
  <2>2. Collected(m, d, i) <=> i <= k \/ (i = k + 1 /\ r # -1)
    BY <1>1 DEF Collected, k
  <2>3. GuestCount(m, d) \in Nat
    BY <1>3, CountsTyped
  <2> QED
    BY <1>3, <1>5, <2>1, <2>2, <2>3
<1>9. ASSUME Philosophers > 1, NEW i \in 1 .. Len(e.answers)
      PROVE  e.answers[i] = Rounds
  <2>1. r \in {-1, Rounds} /\ \A j \in 1 .. k : d.answers[j] = Rounds
    BY <1>1, <1>9 DEF Fine, MealsOk, k
  <2>2. CASE r = -1
    BY <1>5, <1>9, <2>1, <2>2
  <2>3. CASE r # -1
    <3>1. i \in 1 .. k \/ i = k + 1
      BY <1>3, <1>5, <1>9, <2>3
    <3> QED
      BY <1>5, <2>1, <2>3, <3>1
  <2> QED
    BY <2>2, <2>3
<1>10. /\ \A q \in Pid \ {1} : n.pcb[q].shared = m.pcb[q].shared
       /\ n.pcb[1].shared.locked = m.pcb[1].shared.locked
  <2>1. \A q \in Pid : n.pcb[q].shared = m.pcb[q].shared
    BY DEF SameShared
  <2> QED
    BY <1>0, <2>1
<1> QED
  <2>1. "spawn" # "asked" /\ Stepped(m, n, "spawn", r)
    BY DEF r
  <2> QED
    BY <1>0, <1>1, <1>6, <1>7, <1>8, <1>9, <1>10, <2>1, MainMoves

(* main_dp waits for the next philosopher, t.                              *)
Asks(m, n, d, t) ==
  /\ t = d.pids[Len(d.answers) + 1]
  /\ n = Returned(SysWait(Onward(m, "asked"), m.current, t), WaitResult(m, m.current, t))

LEMMA AsksForResult ==
  ASSUME NEW m, NEW n, NEW d, Fine(m, d), m.frame.pc = "spawn",
         Len(d.pids) = Philosophers, Len(d.answers) < Philosophers,
         NEW t, Asks(m, n, d, t)
  PROVE  Fine(n, d) /\ OneMoves(m, n, 1)
<1> DEFINE u == Onward(m, "asked")
<1>0. "asked" \in MainLabels /\ "spawn" \in MainLabels /\ "asked" \in Code /\ 1 \in Pid
  BY LabelsAreCode, SizesAssumption DEF MainLabels, Labels
<1>1. /\ m.current = 1 /\ PcAt(m, 1) = "spawn" /\ PcAt(m, 1) # Null /\ m.frame.pc # Null
      /\ Sound(m)
  BY <1>0, MainHere
<1>2. PICK i \in 1 .. MaxWaiting :
        /\ m.pcb[1].waiting[i].pid = t
        /\ \/ m.pcb[1].waiting[i].result = -1
           \/ PcAt(m, t) = Null /\ m.pcb[1].waiting[i].result \in Nat
  BY <1>1, NextEntry DEF Asks
<1>3. t \in Pid /\ t = d.pids[Len(d.answers) + 1]
  BY <1>1, NextEntry DEF Asks
<1> DEFINE r == m.pcb[1].waiting[i].result
<1>4. WaitResult(m, 1, t) = r
  <2>1. m.pcb[1].waiting[i].pid = t /\ Sound(m) /\ 1 \in Pid
    BY <1>0, <1>1, <1>2
  <2> HIDE DEF u
  <2> QED
    BY <1>3, <2>1, EntrySlot DEF r
<1>5. /\ Stepped(m, u, "asked", m.frame.r0) /\ u.pcb = m.pcb /\ u.current = 1
      /\ u.frame.pc = "asked" /\ u.frame.pc # Null
  BY <1>0, <1>1, OnwardEffect
<1> HIDE DEF u
<1>6. Collects(u, n, t, i, r)
  BY <1>1, <1>2, <1>4, <1>5 DEF u, Collects, Asks
<1>7. /\ Sound(n) /\ Goes(u, n, "asked", r)
      /\ SameShared(u, n) /\ SameParents(u, n)
      /\ r = -1 => SameWaits(u, n)
      /\ r # -1 => EntryBecomes(u, n, 1, i, NoWait)
  BY <1>2, <1>3, <1>5, <1>6, CollectEffect DEF Stepped
<1>8. Goes(m, n, "asked", r)
  BY <1>1, <1>5, <1>7, GoesOn DEF Stepped
<1>9. r \in Nat \cup {-1} /\ (r # -1 => PcAt(m, t) = Null) /\ r = m.pcb[1].waiting[i].result
  BY <1>2
<1> HIDE DEF r
<1>10. MainGoes(m, d, n, d, "asked", r)
  <2>1. PcAt(n, 1) = "asked" /\ R0At(n, 1) = r /\ OthersStay(m, n, 1)
    BY <1>1, <1>8 DEF Goes
  <2>2. SameParents(m, n) /\ \A q \in Pid : n.pcb[q].shared = m.pcb[q].shared
    BY <1>5, <1>7 DEF SameParents, SameShared
  <2>3. DinnerTyped(d)
    BY DEF Fine
  <2>4. /\ GuestCount(n, d) = GuestCount(m, d)
        /\ \A j \in 1 .. GuestCount(m, d) : GuestAt(n, d, j) = GuestAt(m, d, j)
    <3>1. PcAt(n, 1) # "spawned"
      BY <2>1
    <3>2. PcAt(m, 1) # "spawned"
      BY <1>1
    <3>3. SameGuestList(m, n, d)
      BY <2>3, <3>1, <3>2, SameGuests
    <3> QED
      BY <3>3 DEF SameGuestList
  <2> QED
    BY <1>0, <1>1, <1>7, <2>1, <2>2, <2>3, <2>4 DEF MainGoes
<1>11. /\ r = -1 => n.pcb[1].waiting = m.pcb[1].waiting
       /\ r # -1 => EntryBecomes(m, n, 1, i, NoWait)
       /\ n.pcb[1].shared = m.pcb[1].shared
  <2>1. r = -1 => n.pcb[1].waiting = m.pcb[1].waiting
    BY <1>0, <1>5, <1>7 DEF SameWaits
  <2>2. r # -1 => EntryBecomes(m, n, 1, i, NoWait)
    BY <1>5, <1>7 DEF EntryBecomes
  <2>3. n.pcb[1].shared = m.pcb[1].shared
    BY <1>0, <1>5, <1>7 DEF SameShared
  <2> QED
    BY <2>1, <2>2, <2>3
<1>12. Fine(n, d)
  BY <1>1, <1>2, <1>3, <1>9, <1>10, <1>11, MainCollects
<1> QED
  BY <1>10, <1>12, OthersHold DEF MainGoes

LEMMA Spawns ==
  ASSUME NEW m, NEW n, NEW d, Fine(m, d), m.frame.pc = "spawn",
         Len(d.pids) < Philosophers, n = SysForkWait(Onward(m, "spawned"))
  PROVE  Fine(n, d) /\ OneMoves(m, n, 1)
<1> DEFINE u == Onward(m, "spawned")
<1>0. "spawned" \in Code /\ "spawn" \in MainLabels /\ 1 \in Pid /\ MaxWaiters > 0
  BY LabelsAreCode, SizesAssumption, DinnerAssumption DEF MainLabels, Labels
<1>1. m.current = 1 /\ PcAt(m, 1) = "spawn" /\ m.frame.pc # Null /\ Sound(m)
  BY <1>0, MainHere
<1>2. /\ Stepped(m, u, "spawned", m.frame.r0) /\ u.pcb = m.pcb /\ u.current = 1
      /\ u.frame.pc = "spawned" /\ u.frame.pc # Null
  BY <1>0, <1>1, OnwardEffect
<1> HIDE DEF u
<1>3. /\ \A p : Guest(m, d, p) => p \in Pid \ {1} /\ PcAt(m, p) \in Early
      /\ \E q \in Pid : PcAt(m, q) = Null
      /\ \E i \in 1 .. MaxWaiting : m.pcb[1].waiting[i].pid = 0
  BY <1>1, RoomToSpawn
<1>4. OthersStay(m, u, 1)
  BY <1>1, <1>2 DEF Stepped, Goes
<1>5. Null \notin Early /\ PcAt(m, 1) # Null
  BY <1>1, LabelsAreCode DEF Early, NoSeat, Labels
<1>6. \E q \in Pid : PcAt(u, q) = Null
  BY <1>3, <1>4, <1>5 DEF OthersStay
<1>7. ASSUME NEW i \in 1 .. MaxWaiting, NEW q, q = u.pcb[1].waiting[i].pid, q # 0
      PROVE  PcAt(u, q) # Null
  <2>1. Guest(m, d, q)
    BY <1>2, <1>7 DEF Fine, WaitsOk
  <2>2. q \in Pid \ {1} /\ PcAt(m, q) \in Early
    BY <1>3, <2>1
  <2> QED
    BY <1>4, <1>5, <2>2 DEF OthersStay
<1>8. Sound(n) /\ \E k \in Pid : Spawned(u, n, 1, k)
  <2>1. \E i \in 1 .. MaxWaiting : u.pcb[1].waiting[i].pid = 0
    BY <1>2, <1>3
  <2>2. n = SysForkWait(u)
    BY DEF u
  <2> QED
    BY <1>0, <1>2, <1>6, <1>7, <2>1, <2>2, ForkWaitEffect DEF Stepped
<1> QED
  BY <1>1, <1>2, <1>4, <1>8, SpawnKeeps

LEMMA MainLeaves ==
  ASSUME NEW m, NEW n, NEW d, Fine(m, d), m.frame.pc = "done", n = SysExit(m, 0)
  PROVE  Fine(n, d) /\ OneMoves(m, n, 1)
<1>1. "done" \in MainLabels /\ 0 \in Int /\ 0 # -1
  BY DEF MainLabels
<1>2. m.current = 1 /\ PcAt(m, 1) = "done" /\ m.frame.pc # Null /\ Sound(m)
  BY <1>1, MainHere
<1>3. Sound(n) /\ Ended(m, n, 1, 0) /\ PcAt(n, 1) = Null /\ OthersStay(m, n, 1)
  BY <1>1, <1>2, ExitEffect
<1> QED
  BY <1>2, <1>3, MainGone, OthersHold

-----------------------------------------------------------------------------
(* A timer tick: everybody stays where they are                            *)

LEMMA StaysFine ==
  ASSUME NEW m, NEW n, NEW d, Fine(m, d), Sound(n),
         \A q \in Pid : PcAt(n, q) = PcAt(m, q) /\ R0At(n, q) = R0At(m, q),
         SameFamilies(m, n), SameShared(m, n)
  PROVE  Fine(n, d) /\ OneMoves(m, n, 1)
<1>0. 1 \in Pid
  BY SizesAssumption
<1>1. PcAt(n, 1) = PcAt(m, 1) /\ R0At(n, 1) = R0At(m, 1)
  BY <1>0
<1>2. /\ n.pcb[1].shared = m.pcb[1].shared /\ n.pcb[1].waiting = m.pcb[1].waiting
      /\ \A q \in Pid : n.pcb[q].ppid = m.pcb[q].ppid /\ n.pcb[q].shared = m.pcb[q].shared
  BY <1>0 DEF SameFamilies, SameShared
<1>3. /\ GuestCount(n, d) = GuestCount(m, d)
      /\ \A i : GuestAt(n, d, i) = GuestAt(m, d, i)
  BY <1>1 DEF GuestCount, GuestAt
<1>4. \A p : Guest(n, d, p) <=> Guest(m, d, p)
  BY <1>3 DEF Guest
<1>5. \A p \in Pid : Holds(n, p) <=> Holds(m, p)
  BY DEF Holds
<1>6. MainOk(n, d)
  BY <1>1, <1>2 DEF Fine, MainOk
<1>7. GuestsOk(n, d)
  BY <1>2, <1>3, <1>4 DEF Fine, GuestsOk
<1>8. WaitsOk(n, d)
  <2>1. \A i : Collected(n, d, i) <=> Collected(m, d, i)
    BY <1>1 DEF Collected
  <2>2. \A t \in Pid : Awaited(n, t) <=> Awaited(m, t)
    BY <1>2 DEF Awaited
  <2>3. \A i \in 1 .. GuestCount(m, d) : GuestAt(m, d, i) \in Pid
    BY DEF Fine, GuestsOk
  <2> QED
    BY <1>2, <1>3, <1>4, <2>1, <2>2, <2>3 DEF Fine, WaitsOk
<1>9. StartOk(n, d)
  <2>1. \A i \in 1 .. GuestCount(m, d) : GuestAt(m, d, i) \in Pid
    BY DEF Fine, GuestsOk
  <2> QED
    BY <1>3, <2>1 DEF Fine, StartOk
<1>10. LockOk(n)
  BY <1>1, <1>2, <1>5 DEF Fine, LockOk
<1>11. SeatsOk(n, d)
  BY <1>4 DEF Fine, SeatsOk
<1>12. ForksOk(n, d)
  BY <1>5 DEF Fine, ForksOk
<1>13. MealsOk(n, d)
  BY <1>1, <1>2 DEF Fine, MealsOk
<1> QED
  BY <1>5, <1>6, <1>7, <1>8, <1>9, <1>10, <1>11, <1>12, <1>13 DEF Fine, OneMoves
=============================================================================
