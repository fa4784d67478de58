------------------------------ MODULE MCPgSync ------------------------------
(***************************************************************************)
(* Small instances of PgSync for TLC.  The values of the constants are in  *)
(* the .cfg files.                                                         *)
(***************************************************************************)
EXTENDS PgSync, TLC

\* Two rows that differ in the fraction of a second only, and a third one.
MCData == {[time |-> 1500, other |-> "a"], [time |-> 1700, other |-> "a"],
           [time |-> 1500, other |-> "b"]}

\* Two rows whose fractions are dropped and that still differ afterwards.
MCTwoData == {[time |-> 1500, other |-> "a"], [time |-> 2700, other |-> "a"]}

\* The instances of the program run the same code under the same group id.
Symmetry == Permutations(Consumers)
=============================================================================
