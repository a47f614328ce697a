------------------------------- MODULE MCKernel -------------------------------
(* Instances of Kernel for TLC.                                            *)
EXTENDS Kernel

(* The handlers write the registers r0 and sp of a context and the flag    *)
(* intact and never read them: states that differ in them alone have the   *)
(* same future, and a run whose properties do not speak of them may take   *)
(* them for one.                                                           *)
Tables == <<[p \in Pid |-> [pcb[p] EXCEPT !.ctx = @.pc]], current, frame.pc>>
=============================================================================
