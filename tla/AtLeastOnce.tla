----------------------------- MODULE AtLeastOnce -----------------------------
(***************************************************************************)
(* What a Kafka consumer group promises to who feeds the topic: messages   *)
(* are taken in the order of the topic, perhaps several times after a      *)
(* crash, and an offset is committed only when every message below it was  *)
(* taken.                                                                  *)
(***************************************************************************)
EXTENDS Naturals

VARIABLES
    sent,       \* messages in the topic
    taken,      \* messages the program was handed and answers for
    committed   \* the group's committed offset

Init == sent = 0 /\ taken = {} /\ committed = 0

Send == sent' = sent + 1 /\ UNCHANGED <<taken, committed>>

\* The first message that was not taken yet; taking an older one again is no step.
Take ==
    /\ \E i \in 1..sent : 1..i - 1 \subseteq taken /\ taken' = taken \cup {i}
    /\ UNCHANGED <<sent, committed>>

Commit ==
    /\ committed' \in committed..sent
    /\ 1..committed' \subseteq taken
    /\ UNCHANGED <<sent, taken>>

Next == Send \/ Take \/ Commit

Spec == Init /\ [][Next]_<<sent, taken, committed>>
=============================================================================
