----------------------------- MODULE PgSyncView -----------------------------
(***************************************************************************)
(* What solutions/pg-sync promises to a reader of the target database: the *)
(* source table goes through a sequence of versions, and the target shows  *)
(* one of them at a time, in order, without skipping one and without ever  *)
(* going back, whatever crashes, rebalances and redeliveries happen.  It   *)
(* shows a version the way its values are converted (`Shown'): versions    *)
(* that differ in what the conversion drops look the same.                 *)
(***************************************************************************)
EXTENDS Naturals, Sequences

CONSTANTS Table, Shown(_)

VARIABLES history, target, applied

Init ==
    /\ \E t \in Table : history = <<t>> /\ target = Shown(t)
    /\ applied = 0

\* The source gets one or more new versions.
Change ==
    /\ \E t \in Table :
        \/ history' = Append(history, t)
        \/ history' = history \o <<t, t>>
    /\ UNCHANGED <<target, applied>>

\* The target moves on to the next version.
Advance ==
    /\ applied + 1 < Len(history)
    /\ applied' = applied + 1
    /\ target' = Shown(history[applied' + 1])
    /\ UNCHANGED history

Next == Change \/ Advance

Spec == Init /\ [][Next]_<<history, target, applied>>
=============================================================================
