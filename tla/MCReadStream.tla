---------------------------- MODULE MCReadStream ----------------------------
(* Small instances of ReadStream for TLC.                                    *)
EXTENDS ReadStream

CONSTANTS c1, c2

(* One caller alone, or beside another one, or with something that fails.    *)
Calls(m, n) == (c1 :> m) @@ (c2 :> n)
SomeBudgets == [calls : {Calls(3, 0), Calls(2, 1)}, faults : {0}, faulty : {FALSE}]
          \cup [calls : {Calls(2, 0), Calls(1, 1)}, faults : {1}, faulty : {FALSE}]

(* One caller that reads.                                                    *)
OneReader == [calls : {Calls(2, 0)}, faults : {0}, faulty : {FALSE}]
=============================================================================
