--------------------------------- MODULE Mutex ---------------------------------
(***************************************************************************)
(* What lockm and unlockm promise the programs that use them: the lock is  *)
(* taken when nobody holds it and given back by its holder.                *)
(***************************************************************************)
CONSTANT Holder

VARIABLE holders

Init == holders = {}

Acquire(p) == holders = {} /\ holders' = {p}

Release(p) == holders = {p} /\ holders' = {}

Next == \E p \in Holder : Acquire(p) \/ Release(p)

Spec == Init /\ [][Next]_holders
=============================================================================
