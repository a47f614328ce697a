-------------------------- MODULE DiningPhilosophers --------------------------
(***************************************************************************)
(* user/bin/dinning_philosophers.c with the libc loops it runs (lockm,     *)
(* waitp), on the kernel of module Kernel: main_dp, the first process,     *)
(* shares the arbitrator, forks the philosophers and collects their exit   *)
(* statuses; the philosophers take both forks while they hold the          *)
(* arbitrator's lock.                                                      *)
(*                                                                         *)
(* The pc of a context is a label.  A step runs from one label to the next *)
(* one: one system call, or one look at or change of the arbitrator (the   *)
(* search for a free id, one fork, the forks put back).  The timer may     *)
(* strike between any two steps.  Locals belong to a process, as the       *)
(* registers do in which the compiler keeps them.                          *)
(***************************************************************************)
EXTENDS Kernel, Sequences

CONSTANTS
  Philosophers,  \* PHILOSOPHERS
  Rounds,        \* iterations of a philosopher (10)
  arbitrator     \* the address of the arbitrator

(* The labels of the program are addresses it runs at.                     *)
Labels == {"main_dp", "spawn", "spawned", "asked", "done", "philosopher",
           "get_id", "id_found", "got_id", "await", "think", "hungry", "forks", "left",
           "no_left", "eat", "only_left", "only_right", "no_fork", "full"}

ASSUME DinnerAssumption ==
  /\ Labels \subseteq Code /\ Console = "main_dp"
  /\ Philosophers \in Nat \ {0}
  /\ MaxProcesses > Philosophers
  /\ MaxWaiting >= Philosophers
  /\ MaxWaiters > 0
  /\ Rounds \in Nat
  /\ arbitrator \in Ptrs

VARIABLES
  forks,      \* arbitrator->forks
  ids,        \* arbitrator->ids, -1 when handed out
  state,      \* arbitrator->state
  local,      \* each process's id, j and eat_count
  philosopherPids,
  answers     \* what waitp returned for them

dinner == <<forks, ids, state, local, philosopherPids, answers>>
dpvars == <<vars, dinner>>

Seat == 0 .. Philosophers - 1

Right(id) == (id + 1) % Philosophers

me == local[current]

At(label) == frame.pc = label

(* The machine as the program leaves it for label, before a call.          *)
Onto(label) == [Now EXCEPT !.frame.pc = label]

TryLock(label) ==
  \E owner \in SharedOwners(Now, current, arbitrator) :
    \E m \in Lock(Onto(label), owner) : Becomes(m)

TryUnlock(label) ==
  \E owner \in SharedOwners(Now, current, arbitrator) :
    \E m \in Unlock(Onto(label), owner) : Becomes(m)

DinnerInit ==
  /\ Init
  /\ forks = [f \in Seat |-> 1]
  /\ ids = [i \in Seat |-> i]
  /\ state = 0
  /\ local = [p \in Pid |-> [id |-> -1, j |-> 0, eaten |-> 0]]
  /\ philosopherPids = <<>>
  /\ answers = <<>>

-----------------------------------------------------------------------------
(* main_dp                                                                 *)

ShareArbitrator ==
  /\ At("main_dp")
  /\ Becomes(Share(Onto("spawn"), current, arbitrator))
  /\ UNCHANGED dinner

Spawn ==
  /\ At("spawn") /\ Len(philosopherPids) < Philosophers
  /\ Becomes(SysForkWait(Onto("spawned")))
  /\ UNCHANGED dinner

(* fork_wait has returned, 0 in the child.                                 *)
BecomePhilosopher ==
  /\ At("spawned") /\ frame.r0 = 0
  /\ Becomes(SysExec(Now, "philosopher", FALSE, 0))
  /\ local' = [local EXCEPT ![current] = [id |-> -1, j |-> 0, eaten |-> 0]]
  /\ UNCHANGED <<forks, ids, state, philosopherPids, answers>>

KeepPid ==
  /\ At("spawned") /\ frame.r0 # 0
  /\ philosopherPids' = Append(philosopherPids, frame.r0)
  /\ Becomes(Onto("spawn"))
  /\ UNCHANGED <<forks, ids, state, local, answers>>

(* waitp: ask, and yield for as long as the answer is -1.                  *)
AskForResult ==
  /\ At("spawn") /\ Len(philosopherPids) = Philosophers
  /\ Len(answers) < Philosophers
  /\ LET t == philosopherPids[Len(answers) + 1]
     IN  Becomes(Returned(SysWait(Onto("asked"), current, t),
                          WaitResult(Now, current, t)))
  /\ UNCHANGED dinner

AskAgain ==
  /\ At("asked") /\ frame.r0 = -1
  /\ Becomes(SysYield(Onto("spawn")))
  /\ UNCHANGED dinner

KeepResult ==
  /\ At("asked") /\ frame.r0 # -1
  /\ answers' = Append(answers, IF frame.r0 = -2 THEN -1 ELSE frame.r0)
  /\ Becomes(Onto("spawn"))
  /\ UNCHANGED <<forks, ids, state, local, philosopherPids>>

UnshareArbitrator ==
  /\ At("spawn") /\ Len(answers) = Philosophers
  /\ Becomes(Unshare(Onto("done"), current, arbitrator))
  /\ UNCHANGED dinner

Leave ==
  /\ At("done")
  /\ Becomes(SysExit(Now, 0))
  /\ UNCHANGED dinner

-----------------------------------------------------------------------------
(* get_id                                                                  *)

LockForId ==
  /\ At("philosopher")
  /\ TryLock("get_id")
  /\ UNCHANGED dinner

LockForIdAgain ==
  /\ At("get_id") /\ frame.r0 = 0
  /\ Becomes(SysYield(Onto("philosopher")))
  /\ UNCHANGED dinner

(* lockm returns on anything but 0, so also when the lock was refused.     *)
FindId ==
  /\ At("get_id") /\ frame.r0 # 0
  /\ LET free == {i \in Seat : ids[i] # -1}
     IN  IF free = {}
           THEN Becomes(Onto("got_id")) /\ UNCHANGED local
           ELSE /\ Becomes(Onto("id_found"))
                /\ local' = [local EXCEPT ![current].id = ids[Min(free)]]
  /\ UNCHANGED <<forks, ids, state, philosopherPids, answers>>

(* A variant with a fault, to test the properties: the id is not taken out *)
(* of the list.                                                            *)
TakeIdKept ==
  /\ At("id_found")
  /\ state' = IF me.id = Philosophers - 1 THEN 1 ELSE state
  /\ Becomes(Onto("got_id"))
  /\ UNCHANGED <<forks, ids, local, philosopherPids, answers>>

(* ids[i] is i until it is handed out.                                     *)
TakeId ==
  /\ At("id_found")
  /\ ids' = [ids EXCEPT ![me.id] = -1]
  /\ state' = IF me.id = Philosophers - 1 THEN 1 ELSE state
  /\ Becomes(Onto("got_id"))
  /\ UNCHANGED <<forks, local, philosopherPids, answers>>

UnlockAfterId ==
  /\ At("got_id")
  /\ TryUnlock("await")
  /\ UNCHANGED dinner

AwaitStart ==
  /\ At("await") /\ state = 0
  /\ Becomes(SysYield(Now))
  /\ UNCHANGED dinner

-----------------------------------------------------------------------------
(* philosopher                                                             *)

Start ==
  /\ At("await") /\ state = 1
  /\ Becomes(Onto("think"))
  /\ UNCHANGED dinner

Think ==
  /\ At("think") /\ me.j < Rounds
  /\ Becomes(SysYield(Onto("hungry")))
  /\ local' = [local EXCEPT ![current].j = @ + 1]
  /\ UNCHANGED <<forks, ids, state, philosopherPids, answers>>

LockForks ==
  /\ At("hungry")
  /\ TryLock("forks")
  /\ UNCHANGED dinner

LockForksAgain ==
  /\ At("forks") /\ frame.r0 = 0
  /\ Becomes(SysYield(Onto("hungry")))
  /\ UNCHANGED dinner

TakeLeftFork ==
  /\ At("forks") /\ frame.r0 = 1
  /\ forks' = [forks EXCEPT ![me.id] = 0]
  /\ Becomes(Onto(IF forks[me.id] = 1 THEN "left" ELSE "no_left"))
  /\ UNCHANGED <<ids, state, local, philosopherPids, answers>>

TakeRightFork ==
  /\ frame.pc \in {"left", "no_left"}
  /\ forks' = [forks EXCEPT ![Right(me.id)] = 0]
  /\ LET right == forks[Right(me.id)] = 1
     IN  Becomes(Onto(IF At("left") THEN IF right THEN "eat" ELSE "only_left"
                                    ELSE IF right THEN "only_right" ELSE "no_fork"))
  /\ UNCHANGED <<ids, state, local, philosopherPids, answers>>

(* Faulty variant: the right fork is kept.                                 *)
PutLeftForkBack ==
  /\ frame.pc \in {"eat", "only_left", "only_right", "no_fork"}
  /\ forks' = IF frame.pc \in {"eat", "only_left"} THEN [forks EXCEPT ![me.id] = 1]
                                                   ELSE forks
  /\ local' = [local EXCEPT ![current].eaten = IF At("eat") THEN @ + 1 ELSE @]
  /\ Becomes(Onto("full"))
  /\ UNCHANGED <<ids, state, philosopherPids, answers>>

PutForksBack ==
  /\ frame.pc \in {"eat", "only_left", "only_right", "no_fork"}
  /\ LET back == (IF frame.pc \in {"eat", "only_left"} THEN {me.id} ELSE {})
                 \cup (IF frame.pc \in {"eat", "only_right"} THEN {Right(me.id)} ELSE {})
     IN  forks' = [f \in Seat |-> IF f \in back THEN 1 ELSE forks[f]]
  /\ local' = [local EXCEPT ![current].eaten = IF At("eat") THEN @ + 1 ELSE @]
  /\ Becomes(Onto("full"))
  /\ UNCHANGED <<ids, state, philosopherPids, answers>>

UnlockForks ==
  /\ At("full")
  /\ TryUnlock("think")
  /\ UNCHANGED dinner

(* With its count of meals, or with a failure when the lock is refused.    *)
GoHome ==
  /\ (At("think") /\ me.j = Rounds) \/ (At("forks") /\ frame.r0 = -1)
  /\ Becomes(SysExit(Now, IF At("think") THEN me.eaten ELSE EXIT_FAILURE))
  /\ UNCHANGED dinner

-----------------------------------------------------------------------------
MainStep ==
  \/ ShareArbitrator \/ Spawn \/ BecomePhilosopher \/ KeepPid
  \/ AskForResult \/ AskAgain \/ KeepResult \/ UnshareArbitrator \/ Leave

PhilosopherStep ==
  \/ LockForId \/ LockForIdAgain \/ FindId \/ TakeId \/ UnlockAfterId \/ AwaitStart
  \/ Start \/ Think \/ LockForks \/ LockForksAgain
  \/ TakeLeftFork \/ TakeRightFork \/ PutForksBack \/ UnlockForks \/ GoHome

Program == Running /\ (MainStep \/ PhilosopherStep)

DinnerNext == Program \/ (Tick /\ UNCHANGED dinner)

DinnerSpec == DinnerInit /\ [][DinnerNext]_dpvars

(* A running program always has a step to take, and a time slice is long   *)
(* enough for one: who gets the processor again and again takes steps      *)
(* again and again.  (Strong fairness of Program for each process, whose   *)
(* guard is that it is the one running.)                                   *)
DinnerFairness ==
  \A p \in Pid :
    []<>(Running /\ current = p) => []<><<Program /\ current = p>>_dpvars

FairDinnerSpec == DinnerSpec /\ DinnerFairness

-----------------------------------------------------------------------------
(* What the program promises                                               *)

(* The labels between lockm and unlockm.                                   *)
InGetId == {"id_found", "got_id"}
AtForks == {"left", "no_left", "eat", "only_left", "only_right", "no_fork", "full"}

(* p has been told that the arbitrator's lock is its own, and has not      *)
(* given it back.                                                          *)
Holding(p) ==
  /\ Active(Now, p)
  /\ \/ UserCtx(p).pc \in InGetId \cup AtForks
     \/ UserCtx(p).pc \in {"get_id", "forks"} /\ UserCtx(p).r0 # 0

(* The forks in p's hands.                                                 *)
ForksOf(p) ==
  (IF UserCtx(p).pc \in {"left", "eat", "only_left"} THEN {local[p].id} ELSE {})
    \cup (IF UserCtx(p).pc \in {"eat", "only_right"} THEN {Right(local[p].id)} ELSE {})

(* The lock calls of the kernel, as lockm uses them, are a lock            *)
(* (libc.c:253-286, processes.c:145-173): no two processes are between     *)
(* lockm and unlockm, across preemption and yields while they spin.        *)
ArbitratorLock ==
  INSTANCE Mutex WITH Holder <- Pid, holders <- {p \in Pid : Holding(p)}

LockIsMutex == ArbitratorLock!Spec

(* The lock bit in the first process's PCB says whether somebody holds the *)
(* lock, and forks are off the table only in a holder's hands              *)
(* (dinning_philosophers.c:33-56, 76-89).                                  *)
TableInOrder ==
  /\ Active(Now, 1) =>
       (pcb[1].shared.locked <=> \E p \in Pid : Holding(p))
  /\ \A f \in Seat :
       forks[f] = 0 => \E p \in Pid : Holding(p) /\ f \in ForksOf(p)

(* No two philosophers have the same id, and one past get_id has one       *)
(* (dinning_philosophers.c:16-31).                                         *)
SeatsTakenOnce ==
  \A p, q \in ActivePids(Now) :
    /\ local[p].id # -1 /\ local[p].id = local[q].id => p = q
    /\ UserCtx(p).pc \in {"await", "think", "hungry", "forks"} \cup AtForks
         => local[p].id \in Seat

(* Every status waitp collects is that philosopher's own count of meals,   *)
(* and the lock makes every round a meal: none is lost to a neighbour      *)
(* (dinning_philosophers.c:72-92, 126-131; system_calls.c:211-233).        *)
EveryRoundAMeal == \A i \in 1 .. Len(answers) : answers[i] = Rounds

(* The dinner ends: all philosophers are waited for and the last process   *)
(* leaves, whatever the timer does.                                        *)
DinnerEnds == <>(Len(answers) = Philosophers /\ ~Running)
=============================================================================
