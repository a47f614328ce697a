------------------------------- MODULE MCConsole -------------------------------
(* Instances of Console for TLC.                                           *)
EXTENDS Console

(* The labels of the programs are their addresses.                         *)
Addresses == Programs \cup Labels

SomeLines == {<<"P3">>, <<"P5">>, <<"fork">>, <<"fork", "P4">>, <<"shutdown">>}
=============================================================================
