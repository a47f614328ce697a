------------------------------- MODULE FileStore -------------------------------
(***************************************************************************)
(* What the file system promises about the files on its disk: a step       *)
(* makes, removes or overwrites at most one file and leaves every other    *)
(* file as it is.                                                          *)
(***************************************************************************)
EXTENDS Naturals, Sequences

CONSTANT FileId

VARIABLE files   \* the contents of each file there is

Init == files = [i \in {} |-> <<>>]

Others(i) == [j \in DOMAIN files \ {i} |-> files[j]]

Create(i) ==
  /\ i \notin DOMAIN files
  /\ DOMAIN files' = DOMAIN files \cup {i}
  /\ \A j \in DOMAIN files : files'[j] = files[j]

(* A file never gets shorter.                                              *)
Overwrite(i) ==
  /\ i \in DOMAIN files
  /\ DOMAIN files' = DOMAIN files
  /\ \A j \in DOMAIN files \ {i} : files'[j] = files[j]
  /\ Len(files'[i]) >= Len(files[i])

Remove(i) == i \in DOMAIN files /\ files' = Others(i)

Next == \E i \in FileId : Create(i) \/ Overwrite(i) \/ Remove(i)

Spec == Init /\ [][Next]_files
=============================================================================
