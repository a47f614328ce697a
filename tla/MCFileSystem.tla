----------------------------- MODULE MCFileSystem -----------------------------
(* Instances of FileSystemCalls for TLC.                                   *)
EXTENDS FileSystemCalls

RootOnly == {<<>>}
RootAndA == {<<>>, <<"a">>}
DevOnly == {<<"dev">>}
PathsOfThree == {<<"dev", name, "stdin">> : name \in {"a", "stdin", "."}}

X == [data |-> "x"]
Y == [data |-> "y"]

(* A process is its list of descriptors: which of them is which is nothing *)
(* that a call or a property asks.                                         *)
ProcsAlike == Permutations(Procs)

OneBlock == {<<X>>}
OneOrTwoBlocks == {<<X>>, <<Y, Y>>}
=============================================================================
