---------------------------- MODULE SchedulerProofs ----------------------------
(***************************************************************************)
(* What the operators of Processes and Scheduler preserve and choose, for  *)
(* every table size.  The main lemma, SchedulerEffect, says all that the   *)
(* kernel's proofs need to know of a call of the scheduler.                *)
(***************************************************************************)
EXTENDS Scheduler, FiniteSetTheorems, FunctionTheorems, WellFoundedInduction, TLAPS

USE SizesAssumption, NullAssumption DEF Pid

-----------------------------------------------------------------------------
(* Numbers and sets                                                        *)

(* A nonempty set of naturals has a least element.                         *)
LEMMA LeastNatural ==
  ASSUME NEW S, S \subseteq Nat, S # {}
  PROVE  \E x \in S : \A y \in S : x <= y
<1> DEFINE R == {ss \in Nat \X Nat : ss[1] < ss[2]}
<1>1. IsWellFoundedOn(R, Nat)
  BY NatLessThanWellFounded DEF OpToRel
<1>2. ASSUME NEW x \in Nat, NEW y \in Nat, x < y
      PROVE  <<x, y>> \in R
  <2>1. <<x, y>> \in Nat \X Nat
    OBVIOUS
  <2> QED
    BY <1>2, <2>1
<1> HIDE DEF R
<1>3. PICK x \in S : \A y \in S : ~ (<<y, x>> \in R)
  BY <1>1, WFMin
<1>4. ASSUME NEW y \in S PROVE x <= y
  <2>1. x \in Nat /\ y \in Nat
    BY <1>3
  <2>2. ~ (y < x)
    BY <1>2, <1>3, <2>1
  <2> QED
    BY <2>1, <2>2
<1> QED
  BY <1>3, <1>4

LEMMA MinOfSet ==
  ASSUME NEW S, S \subseteq Nat, S # {}
  PROVE  Min(S) \in S /\ \A y \in S : Min(S) <= y
BY LeastNatural DEF Min

LEMMA FirstOfType ==
  ASSUME NEW n \in Nat, NEW S, S \subseteq 1 .. n
  PROVE  /\ FirstOf(S) \in 0 .. n
         /\ FirstOf(S) # 0 <=> S # {}
         /\ S # {} => FirstOf(S) \in S
<1>1. CASE S = {}
  BY <1>1 DEF FirstOf
<1>2. CASE S # {}
  <2>1. S \subseteq Nat
    OBVIOUS
  <2>2. Min(S) \in S
    BY <1>2, <2>1, MinOfSet
  <2>3. FirstOf(S) = Min(S)
    BY <1>2 DEF FirstOf
  <2>4. FirstOf(S) \in S /\ FirstOf(S) \in 1 .. n
    BY <2>2, <2>3
  <2>5. FirstOf(S) \in 0 .. n /\ FirstOf(S) # 0
    BY <2>4
  <2> QED
    BY <1>2, <2>4, <2>5
<1> QED
  BY <1>1, <1>2

(* The largest of bounded naturals, by way of the least.                   *)
LEMMA GreatestNatural ==
  ASSUME NEW B \in Nat, NEW S, S \subseteq 0 .. B, S # {}
  PROVE  \E x \in S : \A y \in S : y <= x
<1> DEFINE T == {B - x : x \in S}
<1>1. \A x \in S : B - x \in Nat
  OBVIOUS
<1>2. PICK t \in T : \A u \in T : t <= u
  <2>1. T \subseteq Nat /\ T # {}
    BY <1>1
  <2> QED
    BY <2>1, LeastNatural
<1>3. PICK x \in S : t = B - x
  OBVIOUS
<1>4. \A y \in S : y <= x
  BY <1>2, <1>3
<1> QED
  BY <1>4
-----------------------------------------------------------------------------
(* Process table                                                           *)

LEMMA NewProcessType ==
  ASSUME NEW p \in Pid, NEW ppid \in 0 .. MaxProcesses
  PROVE  /\ ResetCtx(p) \in Ctx
         /\ NewProcess(p, ppid) \in Pcb
BY DEF ResetCtx, NewProcess, Ctx, Pcb, NoWait, ProcessType, Background

LEMMA PcbWithWait ==
  ASSUME NEW r \in Pcb, NEW w \in Nat
  PROVE  LET n == [r EXCEPT !.wait = w]
         IN  /\ n \in Pcb /\ n.wait = w
             /\ n.ppid = r.ppid /\ n.shared = r.shared
             /\ n.waiting = r.waiting /\ n.waiters = r.waiters
             /\ n.ctx = r.ctx /\ n.left = r.left /\ n.type = r.type
<1>1. [r EXCEPT !.wait = w] \in Pcb
  BY DEF Pcb
<1> QED
  BY <1>1 DEF Pcb

LEMMA PcbWithLeft ==
  ASSUME NEW r \in Pcb, NEW l \in Nat
  PROVE  LET n == [r EXCEPT !.left = l]
         IN  /\ n \in Pcb
             /\ n.ppid = r.ppid /\ n.shared = r.shared
             /\ n.waiting = r.waiting /\ n.waiters = r.waiters
             /\ n.ctx = r.ctx
<1>1. [r EXCEPT !.left = l] \in Pcb
  BY DEF Pcb
<1> QED
  BY <1>1 DEF Pcb

(* The running process' PCB with the registers put into it.                *)
LEMMA PcbWithCtx ==
  ASSUME NEW r \in Pcb, NEW k \in Ctx
  PROVE  LET n == [r EXCEPT !.ctx = k]
         IN  /\ n \in Pcb
             /\ n.ppid = r.ppid /\ n.shared = r.shared
             /\ n.waiting = r.waiting /\ n.waiters = r.waiters
             /\ n.left = r.left /\ n.wait = r.wait
             /\ n.type = r.type /\ n.ctx = k
<1>1. [r EXCEPT !.ctx = k] \in Pcb
  BY DEF Pcb
<1> QED
  BY <1>1 DEF Pcb

(* The table with the registers saved, entry by entry.                     *)
LEMMA SavedTable ==
  ASSUME NEW m \in Machine
  PROVE  LET new == [m.pcb EXCEPT ![m.current].ctx = m.frame]
         IN  /\ new \in [Pid -> Pcb]
             /\ \A q \in Pid : /\ new[q].ppid = m.pcb[q].ppid
                               /\ new[q].shared = m.pcb[q].shared
                               /\ new[q].waiting = m.pcb[q].waiting
                               /\ new[q].waiters = m.pcb[q].waiters
                               /\ new[q].type = m.pcb[q].type
                               /\ new[q].ctx = IF q = m.current THEN m.frame ELSE m.pcb[q].ctx
<1> DEFINE t == m.pcb
           c == m.current
           r == [t[c] EXCEPT !.ctx = m.frame]
           new == [t EXCEPT ![c] = r]
<1>1. t \in [Pid -> Pcb] /\ c \in Pid /\ m.frame \in Ctx
  BY DEF Machine
<1> HIDE DEF t, c
<1>2. /\ r \in Pcb
      /\ r.ppid = t[c].ppid /\ r.shared = t[c].shared
      /\ r.waiting = t[c].waiting /\ r.waiters = t[c].waiters
      /\ r.type = t[c].type /\ r.ctx = m.frame
  BY <1>1, PcbWithCtx
<1> HIDE DEF r
<1>3. new \in [Pid -> Pcb]
  BY <1>1, <1>2
<1>4. new[c] = r /\ \A q \in Pid : q # c => new[q] = t[q]
  BY <1>1
<1> HIDE DEF new
<1>5. \A q \in Pid : /\ new[q].ppid = t[q].ppid
                     /\ new[q].shared = t[q].shared
                     /\ new[q].waiting = t[q].waiting
                     /\ new[q].waiters = t[q].waiters
                     /\ new[q].type = t[q].type
                     /\ new[q].ctx = IF q = c THEN m.frame ELSE t[q].ctx
  BY <1>1, <1>2, <1>4
<1> QED
  BY <1>3, <1>5 DEF new, r, t, c

LEMMA SetCurrentType ==
  ASSUME NEW m \in Machine, NEW p \in Pid
  PROVE  SetCurrent(m, p) \in Machine
<1>1. CASE p = m.current
  BY <1>1 DEF SetCurrent
<1>2. CASE p # m.current
  <2> DEFINE new == [m.pcb EXCEPT ![m.current].ctx = m.frame]
  <2>1. SetCurrent(m, p) = [m EXCEPT !.pcb = new, !.current = p, !.frame = m.pcb[p].ctx]
    BY <1>2 DEF SetCurrent, Machine
  <2>2. new \in [Pid -> Pcb]
    BY SavedTable
  <2>3. m.pcb[p].ctx \in Ctx
    <3>1. m.pcb[p] \in Pcb
      BY DEF Machine
    <3> QED
      BY <3>1 DEF Pcb
  <2> HIDE DEF new
  <2> QED
    BY <2>1, <2>2, <2>3 DEF Machine
<1> QED
  BY <1>1, <1>2

(* The parts of the table the scheduler does not touch.                    *)
SameBooks(m, n) ==
  \A q \in Pid :
    /\ n.pcb[q].ppid = m.pcb[q].ppid
    /\ n.pcb[q].shared = m.pcb[q].shared
    /\ n.pcb[q].waiting = m.pcb[q].waiting
    /\ n.pcb[q].waiters = m.pcb[q].waiters

SameContexts(m, n) ==
  /\ n.current = m.current
  /\ n.frame = m.frame
  /\ \A q \in Pid : n.pcb[q].ctx = m.pcb[q].ctx

WaitsWithin(m, B) == \A q \in Pid : m.pcb[q].wait <= B

LEMMA UpdateWaitingEffect ==
  ASSUME NEW m \in Machine, NEW B \in Nat, WaitsWithin(m, B)
  PROVE  LET n == UpdateWaiting(m)
         IN  /\ n \in Machine
             /\ SameBooks(m, n)
             /\ SameContexts(m, n)
             /\ n.intact = m.intact
             /\ \A q \in Pid : n.pcb[q].left = m.pcb[q].left /\ n.pcb[q].type = m.pcb[q].type
             /\ WaitsWithin(n, B + 1)
<1> DEFINE new == [p \in Pid |->
     IF Active(m, p) /\ p # m.current
       THEN [m.pcb[p] EXCEPT !.wait = @ + 1]
       ELSE m.pcb[p]]
<1> DEFINE n == UpdateWaiting(m)
<1>1. n = [m EXCEPT !.pcb = new]
  BY DEF UpdateWaiting
<1>2. \A q \in Pid : /\ m.pcb[q] \in Pcb
                     /\ new[q] \in Pcb
                     /\ new[q].ppid = m.pcb[q].ppid
                     /\ new[q].shared = m.pcb[q].shared
                     /\ new[q].waiting = m.pcb[q].waiting
                     /\ new[q].waiters = m.pcb[q].waiters
                     /\ new[q].ctx = m.pcb[q].ctx
                     /\ new[q].left = m.pcb[q].left
                     /\ new[q].type = m.pcb[q].type
                     /\ new[q].wait <= B + 1
  <2> TAKE q \in Pid
  <2>1. m.pcb[q] \in Pcb
    BY DEF Machine
  <2>2. m.pcb[q].wait \in Nat /\ m.pcb[q].wait <= B
    BY <2>1 DEF Pcb, WaitsWithin
  <2>3. new[q] = m.pcb[q] \/ new[q] = [m.pcb[q] EXCEPT !.wait = @ + 1]
    OBVIOUS
  <2> HIDE DEF new
  <2>4. CASE new[q] = m.pcb[q]
    BY <2>1, <2>2, <2>4
  <2>5. CASE new[q] = [m.pcb[q] EXCEPT !.wait = @ + 1]
    <3> DEFINE w == m.pcb[q].wait + 1
    <3>1. w \in Nat /\ w <= B + 1
      BY <2>2
    <3>2. new[q] = [m.pcb[q] EXCEPT !.wait = w]
      BY <2>5
    <3> HIDE DEF w
    <3> QED
      BY <2>1, <3>1, <3>2, PcbWithWait
  <2> QED
    BY <2>3, <2>4, <2>5
<1>3. new \in [Pid -> Pcb]
  BY <1>2
<1> HIDE DEF new
<1>4. n \in Machine
  BY <1>1, <1>3 DEF Machine
<1>5. n.pcb = new /\ n.current = m.current /\ n.frame = m.frame /\ n.intact = m.intact
  BY <1>1 DEF Machine
<1>6. SameBooks(m, n)
  BY <1>2, <1>5 DEF SameBooks
<1>7. SameContexts(m, n)
  BY <1>2, <1>5 DEF SameContexts
<1>8. WaitsWithin(n, B + 1)
  BY <1>2, <1>5 DEF WaitsWithin
<1>9. \A q \in Pid : n.pcb[q].left = m.pcb[q].left /\ n.pcb[q].type = m.pcb[q].type
  BY <1>2, <1>5
<1> QED
  BY <1>4, <1>5, <1>6, <1>7, <1>8, <1>9
(* The candidates have a first one: longest waiting, then first in scan.   *)
LEMMA NextPidWithTypeChoice ==
  ASSUME NEW m \in Machine, NEW B \in Nat, WaitsWithin(m, B), NEW type
  PROVE  IF OfType(m, type) = {} THEN NextPidWithType(m, type) = NoPid
                                 ELSE NextPidWithType(m, type) \in OfType(m, type)
<1> DEFINE T == OfType(m, type)
<1>1. CASE T = {}
  BY <1>1 DEF NextPidWithType
<1>2. CASE T # {}
  <2> DEFINE W == {m.pcb[p].wait : p \in T}
  <2>1. T \subseteq Pid /\ \A p \in Pid : m.pcb[p].wait \in 0 .. B
    <3>1. T \subseteq Pid
      BY DEF OfType, ActivePids
    <3>2. ASSUME NEW p \in Pid
          PROVE  m.pcb[p].wait \in 0 .. B
      <4>1. m.pcb[p] \in Pcb
        BY DEF Machine
      <4>2. m.pcb[p].wait \in Nat
        BY <4>1 DEF Pcb
      <4> QED
        BY <4>2 DEF WaitsWithin
    <3> QED
      BY <3>1, <3>2
  <2>2. W \subseteq 0 .. B /\ W # {}
    BY <1>2, <2>1
  <2>3. PICK w \in W : \A v \in W : v <= w
    BY <2>2, GreatestNatural
  <2> DEFINE L == {p \in T : m.pcb[p].wait = w}
  <2> DEFINE rank(p) == ScanRank(m.current, p)
  <2> DEFINE R == {rank(p) : p \in L}
  <2>4. \A p \in Pid : rank(p) \in Nat
    BY DEF ScanRank, Machine
  <2> HIDE DEF rank
  <2>5. R \subseteq Nat /\ R # {}
    BY <2>1, <2>3, <2>4
  <2>6. PICK r \in R : \A s \in R : r <= s
    BY <2>5, LeastNatural
  <2>7. PICK p \in L : rank(p) = r
    BY <2>6
  <2>8. ASSUME NEW q \in T
        PROVE  Before(m, p, q)
    <3>1. m.pcb[p].wait = w /\ m.pcb[q].wait <= w /\ m.pcb[q].wait \in Nat /\ w \in Nat
      BY <2>1, <2>2, <2>3
    <3>2. CASE m.pcb[q].wait = w
      <4>1. rank(p) <= rank(q)
        BY <2>6, <2>7, <3>2
      <4> QED
        BY <3>1, <3>2, <4>1 DEF Before, rank
    <3>3. CASE m.pcb[q].wait # w
      BY <3>1, <3>3 DEF Before
    <3> QED
      BY <3>2, <3>3
  <2>9. \E x \in T : \A q \in T : Before(m, x, q)
    BY <2>8
  <2>10. NextPidWithType(m, type) = CHOOSE x \in T : \A q \in T : Before(m, x, q)
    BY <1>2 DEF NextPidWithType
  <2>11. NextPidWithType(m, type) \in T
    <3> HIDE DEF T
    <3> QED
      BY <2>9, <2>10
  <2> QED
    BY <1>2, <2>11
<1> QED
  BY <1>1, <1>2

(* next_pid finds nobody only when nobody is active.                       *)
LEMMA NextPidChoice ==
  ASSUME NEW m \in Machine, NEW B \in Nat, WaitsWithin(m, B)
  PROVE  IF ActivePids(m) = {} THEN NextPid(m) = NoPid
                               ELSE NextPid(m) \in ActivePids(m)
<1> DEFINE type == m.pcb[m.current].type
<1>1. type \in ProcessType
  BY DEF Machine, Pcb
<1>2. \A p \in ActivePids(m) : p \in OfType(m, type) \/ p \in OfType(m, Toggle(type))
  BY <1>1 DEF ActivePids, OfType, Toggle, Machine, Pcb, ProcessType
<1>3. \A t : OfType(m, t) \subseteq ActivePids(m)
  BY DEF OfType
<1>4. NoPid \notin ActivePids(m)
  BY DEF NoPid, ActivePids
<1> HIDE DEF type
<1>5. NextPid(m) = IF NextPidWithType(m, Toggle(type)) = NoPid
                     THEN NextPidWithType(m, type)
                     ELSE NextPidWithType(m, Toggle(type))
  BY DEF NextPid, type
<1>6. \A t : IF OfType(m, t) = {} THEN NextPidWithType(m, t) = NoPid
                                  ELSE NextPidWithType(m, t) \in OfType(m, t)
  BY NextPidWithTypeChoice
<1> QED
  BY <1>2, <1>3, <1>4, <1>5, <1>6
-----------------------------------------------------------------------------
(* Ranking waiting times                                                   *)

(* There are no more ranks than processes and the value 0.                 *)
LEMMA WaitRankBound ==
  ASSUME NEW m \in Machine, NEW p \in Pid
  PROVE  WaitRank(m, p) \in 0 .. MaxProcesses + 1
<1> DEFINE f == [q \in Pid |-> m.pcb[q].wait]
           W == {m.pcb[q].wait : q \in Pid}
           below == {w \in WaitTimes(m) : w < m.pcb[p].wait}
<1>1. f \in Surjection(Pid, W)
  <2>1. f \in [Pid -> W]
    OBVIOUS
  <2>2. \A w \in W : \E q \in Pid : f[q] = w
    OBVIOUS
  <2> QED
    BY <2>1, <2>2 DEF Surjection
<1>2. IsFiniteSet(Pid) /\ Cardinality(Pid) = MaxProcesses
  BY FS_Interval
<1>3. IsFiniteSet(W) /\ Cardinality(W) <= MaxProcesses /\ Cardinality(W) \in Nat
  <2> HIDE DEF f, W, Pid
  <2> QED
    BY <1>1, <1>2, FS_Surjection, FS_CardinalityType
<1>4. IsFiniteSet(W \cup {0}) /\ Cardinality(W \cup {0}) <= MaxProcesses + 1
  <2> HIDE DEF W
  <2> QED
    BY <1>3, FS_AddElement
<1>5. below \subseteq W \cup {0}
  BY DEF WaitTimes, ActivePids
<1>6. Cardinality(below) \in Nat /\ Cardinality(below) <= MaxProcesses + 1
  <2> HIDE DEF below, W
  <2>1. Cardinality(W \cup {0}) \in Nat
    BY <1>4, FS_CardinalityType
  <2>2. IsFiniteSet(below) /\ Cardinality(below) <= Cardinality(W \cup {0})
    BY <1>4, <1>5, FS_Subset
  <2>3. Cardinality(below) \in Nat
    BY <2>2, FS_CardinalityType
  <2> QED
    BY <1>4, <2>1, <2>2, <2>3
<1>7. WaitRank(m, p) = IF Active(m, p) THEN Cardinality(below) ELSE 0
  BY DEF WaitRank
<1> HIDE DEF below
<1> QED
  BY <1>6, <1>7

LEMMA RankWaitingEffect ==
  ASSUME NEW m \in Machine
  PROVE  LET n == RankWaiting(m)
         IN  /\ n \in Machine
             /\ SameBooks(m, n)
             /\ SameContexts(m, n)
             /\ n.intact = m.intact
             /\ WaitsWithin(n, MaxProcesses + 1)
<1> DEFINE new == [p \in Pid |-> [m.pcb[p] EXCEPT !.wait = WaitRank(m, p)]]
           n == RankWaiting(m)
<1>1. n = [m EXCEPT !.pcb = new]
  BY DEF RankWaiting
<1>2. \A q \in Pid : /\ m.pcb[q] \in Pcb
                     /\ new[q] \in Pcb
                     /\ new[q].ppid = m.pcb[q].ppid
                     /\ new[q].shared = m.pcb[q].shared
                     /\ new[q].waiting = m.pcb[q].waiting
                     /\ new[q].waiters = m.pcb[q].waiters
                     /\ new[q].ctx = m.pcb[q].ctx
                     /\ new[q].wait <= MaxProcesses + 1
  <2> TAKE q \in Pid
  <2>1. m.pcb[q] \in Pcb
    BY DEF Machine
  <2>2. WaitRank(m, q) \in Nat /\ WaitRank(m, q) <= MaxProcesses + 1
    BY WaitRankBound
  <2>3. new[q] = [m.pcb[q] EXCEPT !.wait = WaitRank(m, q)]
    OBVIOUS
  <2> HIDE DEF new
  <2> QED
    BY <2>1, <2>2, <2>3, PcbWithWait
<1>3. new \in [Pid -> Pcb]
  BY <1>2
<1> HIDE DEF new
<1>4. n \in Machine
  BY <1>1, <1>3 DEF Machine
<1>5. n.pcb = new /\ n.current = m.current /\ n.frame = m.frame /\ n.intact = m.intact
  BY <1>1 DEF Machine
<1>6. SameBooks(m, n)
  BY <1>2, <1>5 DEF SameBooks
<1>7. SameContexts(m, n)
  BY <1>2, <1>5 DEF SameContexts
<1>8. WaitsWithin(n, MaxProcesses + 1)
  BY <1>2, <1>5 DEF WaitsWithin
<1> QED
  BY <1>4, <1>5, <1>6, <1>7, <1>8
-----------------------------------------------------------------------------
(* A call of the scheduler                                                 *)

(* n is m with p brought onto the processor.                               *)
Switched(m, n, p) ==
  /\ n.current = p
  /\ n.frame = IF p = m.current THEN m.frame ELSE m.pcb[p].ctx
  /\ \A q \in Pid :
       n.pcb[q].ctx = IF q = m.current /\ p # q THEN m.frame ELSE m.pcb[q].ctx

LEMMA SetCurrentEffect ==
  ASSUME NEW m \in Machine, NEW p \in Pid
  PROVE  LET n == SetCurrent(m, p)
         IN  /\ SameBooks(m, n)
             /\ Switched(m, n, p)
             /\ n.intact = m.intact
             /\ \A q \in Pid : n.pcb[q].type = m.pcb[q].type
<1> DEFINE n == SetCurrent(m, p)
<1>1. CASE p = m.current
  BY <1>1 DEF SetCurrent, SameBooks, Switched
<1>2. CASE p # m.current
  <2> DEFINE new == [m.pcb EXCEPT ![m.current].ctx = m.frame]
  <2>1. n = [m EXCEPT !.pcb = new, !.current = p, !.frame = m.pcb[p].ctx]
    BY <1>2 DEF SetCurrent, Machine
  <2>2. n.pcb = new /\ n.current = p /\ n.frame = m.pcb[p].ctx /\ n.intact = m.intact
    BY <2>1 DEF Machine
  <2>3. \A q \in Pid : /\ new[q].ppid = m.pcb[q].ppid
                       /\ new[q].shared = m.pcb[q].shared
                       /\ new[q].waiting = m.pcb[q].waiting
                       /\ new[q].waiters = m.pcb[q].waiters
                       /\ new[q].type = m.pcb[q].type
                       /\ new[q].ctx = IF q = m.current THEN m.frame ELSE m.pcb[q].ctx
    BY SavedTable
  <2> HIDE DEF new
  <2>4. SameBooks(m, n)
    BY <2>2, <2>3 DEF SameBooks
  <2>5. Switched(m, n, p)
    BY <1>2, <2>2, <2>3 DEF Switched
  <2> QED
    BY <2>2, <2>3, <2>4, <2>5
<1> QED
  BY <1>1, <1>2

LEMMA SwitchToEffect ==
  ASSUME NEW m \in Machine, NEW p \in Pid
  PROVE  LET n == SwitchTo(m, p)
         IN  /\ n \in Machine
             /\ SameBooks(m, n)
             /\ Switched(m, n, p)
             /\ n.intact = m.intact
<1> DEFINE s == SetCurrent(m, p)
           n == SwitchTo(m, p)
           new == [s.pcb EXCEPT ![p].wait = 0, ![p].left = Slice(s.pcb[p].type)]
<1>1. s \in Machine /\ SameBooks(m, s) /\ Switched(m, s, p) /\ s.intact = m.intact
  BY SetCurrentType, SetCurrentEffect
<1>2. n = [s EXCEPT !.pcb = new]
  <2> HIDE DEF s
  <2>1. SwitchTo(m, p) = [s EXCEPT !.pcb[p].wait = 0, !.pcb[p].left = Slice(s.pcb[p].type)]
    BY DEF SwitchTo, s
  <2>2. s = [pcb |-> s.pcb, current |-> s.current, frame |-> s.frame, intact |-> s.intact]
    BY <1>1 DEF Machine
  <2> HIDE DEF n
  <2> QED
    BY <2>1, <2>2 DEF n
<1>3. Slice(s.pcb[p].type) \in Nat
  BY SliceAssumption DEF Slice
<1> HIDE DEF s
<1>4. new \in [Pid -> Pcb] /\ \A q \in Pid :
        /\ new[q].ppid = s.pcb[q].ppid /\ new[q].shared = s.pcb[q].shared
        /\ new[q].waiting = s.pcb[q].waiting /\ new[q].waiters = s.pcb[q].waiters
        /\ new[q].ctx = s.pcb[q].ctx
  <2>1. s.pcb \in [Pid -> Pcb]
    BY <1>1 DEF Machine
  <2> DEFINE r == [s.pcb[p] EXCEPT !.wait = 0]
  <2>2. /\ r \in Pcb
        /\ r.ppid = s.pcb[p].ppid /\ r.shared = s.pcb[p].shared
        /\ r.waiting = s.pcb[p].waiting /\ r.waiters = s.pcb[p].waiters
        /\ r.ctx = s.pcb[p].ctx
    <3> DEFINE x == s.pcb[p]
               y == [x EXCEPT !.wait = 0]
    <3>1. x \in Pcb /\ 0 \in Nat
      BY <2>1
    <3> HIDE DEF x
    <3>2. y \in Pcb
      BY <3>1 DEF Pcb
    <3>3. /\ y.ppid = x.ppid /\ y.shared = x.shared
          /\ y.waiting = x.waiting /\ y.waiters = x.waiters /\ y.ctx = x.ctx
      BY <3>1 DEF Pcb
    <3> QED
      BY <3>2, <3>3 DEF x
  <2>3. new = [s.pcb EXCEPT ![p] = [r EXCEPT !.left = Slice(s.pcb[p].type)]]
    BY <2>1
  <2> HIDE DEF r
  <2> DEFINE t == [r EXCEPT !.left = Slice(s.pcb[p].type)]
  <2>4. /\ t \in Pcb
        /\ t.ppid = r.ppid /\ t.shared = r.shared
        /\ t.waiting = r.waiting /\ t.waiters = r.waiters
        /\ t.ctx = r.ctx
    BY <1>3, <2>2, PcbWithLeft
  <2>5. new = [s.pcb EXCEPT ![p] = t]
    BY <2>3
  <2> HIDE DEF t, new
  <2>6. new[p] = t /\ \A q \in Pid : q # p => new[q] = s.pcb[q]
    BY <2>1, <2>5
  <2>7. new \in [Pid -> Pcb]
    BY <2>1, <2>4, <2>5
  <2>8. ASSUME NEW q \in Pid
        PROVE  /\ new[q].ppid = s.pcb[q].ppid /\ new[q].shared = s.pcb[q].shared
               /\ new[q].waiting = s.pcb[q].waiting /\ new[q].waiters = s.pcb[q].waiters
               /\ new[q].ctx = s.pcb[q].ctx
    <3>1. CASE q = p
      BY <2>2, <2>4, <2>6, <3>1
    <3>2. CASE q # p
      BY <2>6, <3>2
    <3> QED
      BY <3>1, <3>2
  <2> QED
    BY <2>7, <2>8
<1> HIDE DEF new
<1>5. n.pcb = new /\ n.current = s.current /\ n.frame = s.frame /\ n.intact = s.intact
  BY <1>1, <1>2 DEF Machine
<1>6. n \in Machine
  BY <1>1, <1>2, <1>4 DEF Machine
<1>7. SameBooks(m, n)
  BY <1>1, <1>4, <1>5 DEF SameBooks
<1>8. Switched(m, n, p)
  BY <1>1, <1>4, <1>5 DEF Switched
<1> QED
  BY <1>1, <1>5, <1>6, <1>7, <1>8

(* The scheduler leaves parents, shared pointers and waits alone.  It      *)
(* keeps the running context when the slice is not used up or when nobody  *)
(* is active, and switches to an active process otherwise.                 *)
LEMMA SchedulerEffect ==
  ASSUME NEW m \in Machine, WaitsWithin(m, MaxProcesses + 1)
  PROVE  LET n == Scheduler(m)
         IN  /\ n \in Machine
             /\ SameBooks(m, n)
             /\ n.intact = m.intact
             /\ WaitsWithin(n, MaxProcesses + 1)
             /\ \/ /\ SameContexts(m, n)
                   /\ m.pcb[m.current].left > 0 \/ ActivePids(m) = {}
                \/ \E p \in ActivePids(m) : Switched(m, n, p)
<1> DEFINE u == UpdateWaiting(m)
           v == Schedule(u)
           n == Scheduler(m)
           c == m.current
<1>1. /\ u \in Machine /\ SameBooks(m, u) /\ SameContexts(m, u) /\ u.intact = m.intact
      /\ \A q \in Pid : u.pcb[q].left = m.pcb[q].left
      /\ WaitsWithin(u, MaxProcesses + 2)
  <2>1. MaxProcesses + 1 \in Nat /\ (MaxProcesses + 1) + 1 = MaxProcesses + 2
    OBVIOUS
  <2> HIDE DEF WaitsWithin
  <2> QED
    BY <2>1, UpdateWaitingEffect
<1>2. ActivePids(u) = ActivePids(m)
  BY <1>1 DEF ActivePids, Active, SameContexts
<1> HIDE DEF u
<1>3. /\ v \in Machine /\ SameBooks(m, v) /\ v.intact = m.intact
      /\ \/ /\ SameContexts(m, v)
            /\ m.pcb[c].left > 0 \/ ActivePids(m) = {}
         \/ \E p \in ActivePids(m) : Switched(m, v, p)
  <2>0. u.current = c /\ c \in Pid /\ u.pcb[c].left = m.pcb[c].left /\ m.pcb[c].left \in Nat
    BY <1>1 DEF SameContexts, Machine, Pcb
  <2>1. CASE m.pcb[c].left > 0
    <3> DEFINE new == [u.pcb EXCEPT ![c].left = @ - 1]
    <3>1. v = [u EXCEPT !.pcb = new]
      BY <1>1, <2>0, <2>1 DEF Schedule, Machine
    <3>2. u.pcb[c].left - 1 \in Nat
      BY <2>0, <2>1
    <3>3. new \in [Pid -> Pcb] /\ \A q \in Pid :
            /\ new[q].ppid = u.pcb[q].ppid /\ new[q].shared = u.pcb[q].shared
            /\ new[q].waiting = u.pcb[q].waiting /\ new[q].waiters = u.pcb[q].waiters
            /\ new[q].ctx = u.pcb[q].ctx
      <4>1. u.pcb \in [Pid -> Pcb] /\ u.pcb[c] \in Pcb
        BY <1>1, <2>0 DEF Machine
      <4> DEFINE t == [u.pcb[c] EXCEPT !.left = @ - 1]
      <4>2. new = [u.pcb EXCEPT ![c] = t]
        BY <4>1
      <4>3. /\ t \in Pcb
            /\ t.ppid = u.pcb[c].ppid /\ t.shared = u.pcb[c].shared
            /\ t.waiting = u.pcb[c].waiting /\ t.waiters = u.pcb[c].waiters
            /\ t.ctx = u.pcb[c].ctx
        BY <3>2, <4>1, PcbWithLeft
      <4> HIDE DEF t, new
      <4> QED
        BY <2>0, <4>1, <4>2, <4>3
    <3> HIDE DEF new
    <3>4. v.pcb = new /\ v.current = u.current /\ v.frame = u.frame /\ v.intact = u.intact
      BY <1>1, <3>1 DEF Machine
    <3>5. v \in Machine
      BY <1>1, <3>1, <3>3 DEF Machine
    <3>6. SameBooks(m, v)
      BY <1>1, <3>3, <3>4 DEF SameBooks
    <3>7. SameContexts(m, v)
      BY <1>1, <3>3, <3>4 DEF SameContexts
    <3> QED
      BY <1>1, <2>1, <3>4, <3>5, <3>6, <3>7
  <2>2. CASE ~(m.pcb[c].left > 0) /\ ActivePids(m) = {}
    <3>1. NextPid(u) = NoPid
      BY <1>1, <1>2, <2>2, NextPidChoice
    <3>2. v = u
      BY <2>0, <2>2, <3>1 DEF Schedule
    <3> QED
      BY <1>1, <2>2, <3>2
  <2>3. CASE ~(m.pcb[c].left > 0) /\ ActivePids(m) # {}
    <3> DEFINE p == NextPid(u)
    <3>1. p \in ActivePids(m) /\ p \in Pid /\ p # NoPid
      <4>1. p \in ActivePids(u)
        BY <1>1, <1>2, <2>3, NextPidChoice
      <4> QED
        BY <1>2, <4>1 DEF ActivePids, NoPid
    <3>2. v = SwitchTo(u, p)
      BY <2>0, <2>3, <3>1 DEF Schedule
    <3> HIDE DEF p
    <3>3. v \in Machine /\ SameBooks(u, v) /\ Switched(u, v, p) /\ v.intact = u.intact
      BY <1>1, <3>1, <3>2, SwitchToEffect
    <3>4. SameBooks(m, v)
      BY <1>1, <3>3 DEF SameBooks
    <3>5. Switched(m, v, p)
      BY <1>1, <3>1, <3>3 DEF Switched, SameContexts
    <3>6. v.intact = m.intact
      BY <1>1, <3>3
    <3> QED
      BY <3>1, <3>3, <3>4, <3>5, <3>6
  <2> QED
    BY <2>1, <2>2, <2>3
<1> HIDE DEF v
<1>4. n = RankWaiting(v)
  BY DEF Scheduler, u, v
<1>5. /\ n \in Machine /\ SameBooks(v, n) /\ SameContexts(v, n) /\ n.intact = v.intact
      /\ WaitsWithin(n, MaxProcesses + 1)
  BY <1>3, <1>4, RankWaitingEffect
<1> HIDE DEF n
<1>6. SameBooks(m, n)
  BY <1>3, <1>5 DEF SameBooks
<1>7. SameContexts(m, v) => SameContexts(m, n)
  BY <1>5 DEF SameContexts
<1>8. \A p \in Pid : Switched(m, v, p) => Switched(m, n, p)
  BY <1>5 DEF Switched, SameContexts
<1>9. ActivePids(m) \subseteq Pid
  BY DEF ActivePids
<1> QED
  BY <1>3, <1>5, <1>6, <1>7, <1>8, <1>9 DEF n
=============================================================================
