---------------------------- MODULE PgSyncProofs ----------------------------
(***************************************************************************)
(* Proofs about PgSync, for any number of keys, rows, instances, messages  *)
(* and faults: the type invariant, the two safety invariants that make the *)
(* target a faithful copy, and the origin of stale writes.                 *)
(***************************************************************************)
EXTENDS PgSync, TLAPS

\* Each version of the source table differs from the one before it by the
\* message between them, whose before image is the row it replaces.
HistoryInv ==
    \A i \in 1..Len(topic) :
        /\ topic[i].before = history[i][topic[i].key]
        /\ history[i + 1] = [history[i] EXCEPT ![topic[i].key] = topic[i].after]

\* Where each instance is relative to the committed offset.
PositionInv ==
    /\ committed <= Len(topic)
    /\ \A c \in Consumers :
        /\ pc[c] \in {"apply", "commit"} =>
            position[c] \in 1..Len(topic) /\ position[c] <= committed + 1
        /\ owner = c /\ pc[c] = "poll" => position[c] = committed
        /\ owner = c /\ pc[c] = "apply" => position[c] = committed + 1
        /\ owner = c /\ pc[c] = "commit" => position[c] \in {committed, committed + 1}
        /\ owner = c => pc[c] # "down"

\* What has taken effect, relative to the committed offset.
AppliedInv ==
    /\ applied <= Len(topic)
    /\ CommittedAfterApplied
    /\ \A c \in Consumers :
        Undisturbed /\ pc[c] = "commit" => position[c] <= applied

\* An instance that works on a message without owning the partition was evicted.
EvictedInv ==
    /\ StaleWriteNeedsEviction
    /\ \A c \in Consumers :
        pc[c] \in {"apply", "commit"} /\ owner # c => spent["evict"] > 0

IInv ==
    /\ TypeOK
    /\ HistoryInv
    /\ PositionInv
    /\ AppliedInv
    /\ EvictedInv
    /\ TargetIsSourceVersion

-----------------------------------------------------------------------------
\* Appending one element, or one element twice, keeps the older elements.
LEMMA AppendFacts ==
    ASSUME NEW S, NEW s \in Seq(S), NEW e \in S
    PROVE  /\ Append(s, e) \in Seq(S)
           /\ Len(Append(s, e)) = Len(s) + 1
           /\ \A i \in 1..Len(s) : Append(s, e)[i] = s[i]
           /\ Append(s, e)[Len(s) + 1] = e
  OBVIOUS

LEMMA ConcatPairFacts ==
    ASSUME NEW S, NEW s \in Seq(S), NEW d \in S, NEW e \in S
    PROVE  /\ s \o <<d, e>> \in Seq(S)
           /\ Len(s \o <<d, e>>) = Len(s) + 2
           /\ \A i \in 1..Len(s) : (s \o <<d, e>>)[i] = s[i]
           /\ (s \o <<d, e>>)[Len(s) + 1] = d
           /\ (s \o <<d, e>>)[Len(s) + 2] = e
  <1>1. <<d, e>> \in Seq(S) /\ Len(<<d, e>>) = 2
        /\ <<d, e>>[1] = d /\ <<d, e>>[2] = e
    OBVIOUS
  <1> QED
    BY <1>1

LEMMA InitIInv == Init => IInv
  <1> SUFFICES ASSUME Init PROVE IInv
    OBVIOUS
  <1> USE DEF Init
  <1>1. [k \in Keys |-> NoRow] \in Table /\ [k \in Keys |-> NoRow] \in Target
    BY DEF Table, Row, Target
  <1>2. TypeOK
    <2>1. history \in Seq(Table) /\ Len(history) = 1
      BY <1>1
    <2>2. topic \in Seq(Message) /\ Len(topic) = 0
      OBVIOUS
    <2>3. /\ target \in Target /\ owner \in Consumers \cup {NoOne}
          /\ committed \in Nat /\ applied \in Nat /\ staleWrite \in BOOLEAN
      BY <1>1
    <2>4. /\ pc \in [Consumers -> {"down", "poll", "apply", "commit"}]
          /\ position \in [Consumers -> Nat]
          /\ spent \in [Faults -> Nat]
      OBVIOUS
    <2> HIDE DEF Init
    <2> QED
      BY <2>1, <2>2, <2>3, <2>4 DEF TypeOK
  <1>3. Len(topic) = 0
    OBVIOUS
  <1>4. HistoryInv /\ PositionInv /\ AppliedInv /\ EvictedInv
    BY <1>3, ConstantsAssumption DEF HistoryInv, PositionInv, AppliedInv, EvictedInv,
       CommittedAfterApplied, StaleWriteNeedsEviction
  <1>5. TargetIsSourceVersion
    BY DEF TargetIsSourceVersion, Shown, Cast
  <1> QED
    BY <1>2, <1>4, <1>5 DEF IInv

LEMMA PublishIInv ==
    ASSUME IInv, NEW k \in Keys, NEW after \in Row, Publish(k, after)
    PROVE  IInv'
  <1> DEFINE change    == [key |-> k, before |-> SourceTable[k], after |-> after]
             tombstone == [key |-> k, before |-> NoRow, after |-> NoRow]
             table     == [SourceTable EXCEPT ![k] = after]
             n         == Len(topic)
  <1> USE DEF IInv
  <1>1. /\ topic \in Seq(Message) /\ history \in Seq(Table)
        /\ n \in Nat /\ Len(history) = n + 1
    BY DEF TypeOK
  <1>2. SourceTable = history[n + 1] /\ SourceTable \in Table
    BY <1>1 DEF SourceTable
  <1>3. change \in Message /\ tombstone \in Message /\ table \in Table
    BY <1>2 DEF Message, Table, Row
  <1>4. UNCHANGED <<target, owner, committed, pc, position, spent, applied, staleWrite>>
    BY DEF Publish
  <1>5. /\ topic' \in Seq(Message) /\ history' \in Seq(Table)
        /\ Len(topic') \in Nat /\ Len(topic') >= n
        /\ Len(history') = Len(topic') + 1
        /\ \A i \in 1..(n + 1) : history'[i] = history[i]
        /\ HistoryInv'
    <2>1. CASE after = NoRow
      <3>1. topic' = topic \o <<change, tombstone>> /\ history' = history \o <<table, table>>
        BY <2>1 DEF Publish
      <3>2. /\ topic' \in Seq(Message) /\ Len(topic') = n + 2
            /\ \A i \in 1..n : topic'[i] = topic[i]
            /\ topic'[n + 1] = change /\ topic'[n + 2] = tombstone
        BY <3>1, <1>1, <1>3, ConcatPairFacts
      <3>3. /\ history' \in Seq(Table) /\ Len(history') = n + 3
            /\ \A i \in 1..(n + 1) : history'[i] = history[i]
            /\ history'[n + 2] = table /\ history'[n + 3] = table
        <4> HIDE DEF table, n
        <4>1. Len(history) + 1 = n + 2 /\ Len(history) + 2 = n + 3
          BY <1>1
        <4> QED
          BY <3>1, <1>1, <1>3, <4>1, ConcatPairFacts
      <3>4. HistoryInv'
        <4> SUFFICES ASSUME NEW i \in 1..(n + 2)
                     PROVE  /\ topic'[i].before = history'[i][topic'[i].key]
                            /\ history'[i + 1] =
                                 [history'[i] EXCEPT ![topic'[i].key] = topic'[i].after]
          BY <3>2 DEF HistoryInv
        <4>1. CASE i \in 1..n
          <5>1. topic'[i] = topic[i] /\ history'[i] = history[i] /\ history'[i + 1] = history[i + 1]
            BY <4>1, <3>2, <3>3, <1>1
          <5> QED
            BY <4>1, <5>1 DEF HistoryInv
        <4>2. CASE i = n + 1
          <5>1. topic'[i] = change /\ history'[i] = SourceTable /\ history'[i + 1] = table
            BY <4>2, <3>2, <3>3, <1>1, <1>2
          <5> QED
            BY <5>1
        <4>3. CASE i = n + 2
          BY <4>3, <3>2, <3>3, <1>1, <1>2, <2>1 DEF Table
        <4> QED
          BY <4>1, <4>2, <4>3, <1>1
      <3> QED
        BY <3>2, <3>3, <3>4, <1>1
    <2>2. CASE after # NoRow
      <3>1. topic' = Append(topic, change) /\ history' = Append(history, table)
        BY <2>2 DEF Publish
      <3>2. /\ topic' \in Seq(Message) /\ Len(topic') = n + 1
            /\ \A i \in 1..n : topic'[i] = topic[i]
            /\ topic'[n + 1] = change
        BY <3>1, <1>1, <1>3, AppendFacts
      <3>3. /\ history' \in Seq(Table) /\ Len(history') = n + 2
            /\ \A i \in 1..(n + 1) : history'[i] = history[i]
            /\ history'[n + 2] = table
        <4> HIDE DEF table, n
        <4>1. Len(history) + 1 = n + 2
          BY <1>1
        <4> QED
          BY <3>1, <1>1, <1>3, <4>1, AppendFacts
      <3>4. HistoryInv'
        <4> SUFFICES ASSUME NEW i \in 1..(n + 1)
                     PROVE  /\ topic'[i].before = history'[i][topic'[i].key]
                            /\ history'[i + 1] =
                                 [history'[i] EXCEPT ![topic'[i].key] = topic'[i].after]
          BY <3>2 DEF HistoryInv
        <4>1. CASE i \in 1..n
          <5>1. topic'[i] = topic[i] /\ history'[i] = history[i] /\ history'[i + 1] = history[i + 1]
            BY <4>1, <3>2, <3>3, <1>1
          <5> QED
            BY <4>1, <5>1 DEF HistoryInv
        <4>2. CASE i = n + 1
          <5>1. topic'[i] = change /\ history'[i] = SourceTable /\ history'[i + 1] = table
            BY <4>2, <3>2, <3>3, <1>1, <1>2
          <5> QED
            BY <5>1
        <4> QED
          BY <4>1, <4>2, <1>1
      <3> QED
        BY <3>2, <3>3, <3>4, <1>1
    <2> QED
      BY <2>1, <2>2
  <1>6. TypeOK'
    BY <1>4, <1>5 DEF TypeOK
  <1>7. PositionInv'
    BY <1>1, <1>4, <1>5 DEF TypeOK, PositionInv
  <1>8. AppliedInv' /\ EvictedInv'
    BY <1>1, <1>4, <1>5 DEF TypeOK, AppliedInv, EvictedInv, CommittedAfterApplied,
       StaleWriteNeedsEviction, Undisturbed
  <1>9. TargetIsSourceVersion'
    <2>1. applied + 1 \in 1..(n + 1)
      BY <1>1 DEF TypeOK, AppliedInv
    <2> QED
      BY <2>1, <1>4, <1>5 DEF TargetIsSourceVersion, Undisturbed
  <1> QED
    BY <1>5, <1>6, <1>7, <1>8, <1>9

\* The steps of an instance leave the topic and its history alone.
LEMMA SourceUnchanged ==
    ASSUME HistoryInv, UNCHANGED source
    PROVE  HistoryInv'
  BY DEF HistoryInv, source

\* Spending a fault keeps the record of evictions.
LEMMA SpendFacts ==
    ASSUME spent \in [Faults -> Nat], NEW f \in Faults, Spend(f)
    PROVE  /\ spent' \in [Faults -> Nat]
           /\ spent["evict"] \in Nat /\ spent'["evict"] \in Nat
           /\ spent'["evict"] >= spent["evict"]
           /\ f = "evict" => spent'["evict"] > 0
  BY DEF Spend, Faults

LEMMA AssignIInv ==
    ASSUME IInv, NEW c \in Consumers, Assign(c)
    PROVE  IInv'
  <1> USE DEF IInv
  <1>1. TypeOK'
    BY ConstantsAssumption DEF Assign, StartOffset, TypeOK, source, group
  <1>2. HistoryInv'
    BY SourceUnchanged DEF Assign, StartOffset, source
  <1>3. PositionInv'
    BY ConstantsAssumption DEF Assign, StartOffset, TypeOK, PositionInv, source, group
  <1>4. AppliedInv'
    BY ConstantsAssumption DEF Assign, StartOffset, TypeOK, PositionInv, AppliedInv, CommittedAfterApplied,
       Undisturbed, source, group
  <1>5. EvictedInv'
    BY ConstantsAssumption DEF Assign, StartOffset, TypeOK, EvictedInv, StaleWriteNeedsEviction, source, group
  <1>6. TargetIsSourceVersion'
    BY DEF Assign, StartOffset, TargetIsSourceVersion, Undisturbed, source
  <1> QED
    BY <1>1, <1>2, <1>3, <1>4, <1>5, <1>6

LEMMA DeliverIInv ==
    ASSUME IInv, NEW c \in Consumers, Deliver(c)
    PROVE  IInv'
  <1> USE DEF IInv
  <1>1. TypeOK'
    BY ConstantsAssumption DEF Deliver, TypeOK, source, group
  <1>2. HistoryInv'
    BY SourceUnchanged DEF Deliver, source
  <1>3. PositionInv'
    BY ConstantsAssumption DEF Deliver, TypeOK, PositionInv, source, group
  <1>4. AppliedInv'
    BY ConstantsAssumption DEF Deliver, TypeOK, PositionInv, AppliedInv, CommittedAfterApplied,
       Undisturbed, source, group
  <1>5. EvictedInv'
    BY ConstantsAssumption DEF Deliver, TypeOK, EvictedInv, StaleWriteNeedsEviction, source, group
  <1>6. TargetIsSourceVersion'
    BY DEF Deliver, TargetIsSourceVersion, Undisturbed, source
  <1> QED
    BY <1>1, <1>2, <1>3, <1>4, <1>5, <1>6

LEMMA RestartIInv ==
    ASSUME IInv, NEW c \in Consumers, Restart(c)
    PROVE  IInv'
  <1> USE DEF IInv
  <1>1. TypeOK'
    BY ConstantsAssumption DEF Restart, TypeOK, source, group
  <1>2. HistoryInv'
    BY SourceUnchanged DEF Restart, source
  <1>3. PositionInv'
    BY ConstantsAssumption DEF Restart, TypeOK, PositionInv, source, group
  <1>4. AppliedInv'
    BY ConstantsAssumption DEF Restart, TypeOK, PositionInv, AppliedInv, CommittedAfterApplied,
       Undisturbed, source, group
  <1>5. EvictedInv'
    BY ConstantsAssumption DEF Restart, TypeOK, EvictedInv, StaleWriteNeedsEviction, source, group
  <1>6. TargetIsSourceVersion'
    BY DEF Restart, TargetIsSourceVersion, Undisturbed, source
  <1> QED
    BY <1>1, <1>2, <1>3, <1>4, <1>5, <1>6

LEMMA RebalanceIInv ==
    ASSUME IInv, NEW c \in Consumers, Rebalance(c)
    PROVE  IInv'
  <1> USE DEF IInv
  <1>0. /\ spent' \in [Faults -> Nat] /\ spent'["evict"] >= spent["evict"]
        /\ spent["evict"] \in Nat /\ spent'["evict"] \in Nat
    BY SpendFacts DEF Rebalance, Revoke, Faults, TypeOK
  <1>1. TypeOK'
    BY <1>0, ConstantsAssumption DEF Rebalance, Revoke, TypeOK, source, group
  <1>2. HistoryInv'
    BY SourceUnchanged DEF Rebalance, Revoke, source
  <1>3. PositionInv'
    BY <1>0, ConstantsAssumption DEF Rebalance, Revoke, TypeOK, PositionInv, source, group
  <1>4. AppliedInv'
    BY <1>0, ConstantsAssumption DEF Rebalance, Revoke, TypeOK, PositionInv, AppliedInv, CommittedAfterApplied,
       Undisturbed, source, group
  <1>5. EvictedInv'
    BY <1>0, ConstantsAssumption DEF Rebalance, Revoke, TypeOK, EvictedInv, StaleWriteNeedsEviction, source, group
  <1>6. TargetIsSourceVersion'
    BY DEF Rebalance, Revoke, TargetIsSourceVersion, Undisturbed, source
  <1> QED
    BY <1>1, <1>2, <1>3, <1>4, <1>5, <1>6

LEMMA EvictIInv ==
    ASSUME IInv, NEW c \in Consumers, Evict(c)
    PROVE  IInv'
  <1> USE DEF IInv
  <1>0. spent' \in [Faults -> Nat] /\ spent'["evict"] > 0
    BY SpendFacts DEF Evict, Revoke, Faults, TypeOK
  <1>1. TypeOK'
    BY <1>0, ConstantsAssumption DEF Evict, Revoke, TypeOK, source, group
  <1>2. HistoryInv'
    BY SourceUnchanged DEF Evict, Revoke, source
  <1>3. PositionInv'
    BY <1>0, ConstantsAssumption DEF Evict, Revoke, TypeOK, PositionInv, source, group
  <1>4. AppliedInv'
    BY <1>0, ConstantsAssumption DEF Evict, Revoke, TypeOK, PositionInv, AppliedInv, CommittedAfterApplied,
       Undisturbed, source, group
  <1>5. EvictedInv'
    BY <1>0, ConstantsAssumption DEF Evict, Revoke, TypeOK, EvictedInv, StaleWriteNeedsEviction, source, group
  <1>6. TargetIsSourceVersion'
    BY DEF Evict, Revoke, TargetIsSourceVersion, Undisturbed, source
  <1> QED
    BY <1>1, <1>2, <1>3, <1>4, <1>5, <1>6

LEMMA CrashIInv ==
    ASSUME IInv, NEW c \in Consumers, Crash(c)
    PROVE  IInv'
  <1> USE DEF IInv
  <1>0. /\ spent' \in [Faults -> Nat] /\ spent'["evict"] >= spent["evict"]
        /\ spent["evict"] \in Nat /\ spent'["evict"] \in Nat
    BY SpendFacts DEF Crash, Faults, TypeOK
  <1>1. TypeOK'
    BY <1>0, ConstantsAssumption DEF Crash, TypeOK, source, group
  <1>2. HistoryInv'
    BY SourceUnchanged DEF Crash, source
  <1>3. PositionInv'
    BY <1>0, ConstantsAssumption DEF Crash, TypeOK, PositionInv, source, group
  <1>4. AppliedInv'
    BY <1>0, ConstantsAssumption DEF Crash, TypeOK, PositionInv, AppliedInv, CommittedAfterApplied,
       Undisturbed, source, group
  <1>5. EvictedInv'
    BY <1>0, ConstantsAssumption DEF Crash, TypeOK, EvictedInv, StaleWriteNeedsEviction, source, group
  <1>6. TargetIsSourceVersion'
    BY DEF Crash, TargetIsSourceVersion, Undisturbed, source
  <1> QED
    BY <1>1, <1>2, <1>3, <1>4, <1>5, <1>6

LEMMA CommitIInv ==
    ASSUME IInv, NEW c \in Consumers, NEW acked \in BOOLEAN, Commit(c, acked)
    PROVE  IInv'
  <1> USE DEF IInv
  <1>0. /\ spent' \in [Faults -> Nat] /\ spent'["evict"] >= spent["evict"]
        /\ spent["evict"] \in Nat /\ spent'["evict"] \in Nat
    BY SpendFacts DEF Commit, Faults, TypeOK
  <1>1. TypeOK'
    BY <1>0, ConstantsAssumption DEF Commit, AcceptCommit, OffsetToCommit, TypeOK, source, group
  <1>2. HistoryInv'
    BY SourceUnchanged DEF Commit, AcceptCommit, OffsetToCommit, source
  <1>3. PositionInv'
    BY <1>0, ConstantsAssumption DEF Commit, AcceptCommit, OffsetToCommit, TypeOK, PositionInv, source, group
  <1>4. AppliedInv'
    <2>1. /\ committed' = position[c] /\ owner = c /\ pc[c] = "commit"
          /\ UNCHANGED <<source, target, position, applied, staleWrite>>
          /\ pc' = pc \/ pc' = [pc EXCEPT ![c] = "poll"]
      BY DEF Commit, AcceptCommit, OffsetToCommit
    <2>2. position[c] \in {committed, committed + 1} /\ committed \in Nat /\ applied \in Nat
      BY <2>1 DEF PositionInv, TypeOK
    <2>3. Undisturbed => position[c] <= applied
      BY <2>1 DEF AppliedInv
    <2>4. \A d \in Consumers : pc'[d] = "commit" => pc[d] = "commit"
      BY <2>1 DEF TypeOK
    <2> QED
      BY <2>1, <2>2, <2>3, <2>4 DEF AppliedInv, CommittedAfterApplied, Undisturbed, source
  <1>5. EvictedInv'
    BY <1>0, ConstantsAssumption DEF Commit, AcceptCommit, OffsetToCommit, TypeOK, EvictedInv, StaleWriteNeedsEviction, source, group
  <1>6. TargetIsSourceVersion'
    BY DEF Commit, AcceptCommit, OffsetToCommit, TargetIsSourceVersion, Undisturbed, source
  <1> QED
    BY <1>1, <1>2, <1>3, <1>4, <1>5, <1>6

\* What is known of the message an instance holds: it turns one version of
\* the source table into the next.
LEMMA HeldMessage ==
    ASSUME IInv, NEW c \in Consumers, pc[c] = "apply"
    PROVE  LET p == position[c]
               m == topic[p]
           IN  /\ p \in 1..Len(topic) /\ p <= committed + 1
               /\ p \in Nat /\ committed \in Nat /\ applied \in Nat
               /\ m.key \in Keys /\ m.before \in Row /\ m.after \in Row
               /\ history[p] \in Table /\ history[p + 1] \in Table
               /\ m.before = history[p][m.key]
               /\ history[p + 1] = [history[p] EXCEPT ![m.key] = m.after]
               /\ Undisturbed /\ p = committed + 1 => applied \in {p - 1, p}
  <1> DEFINE p == position[c]
             m == topic[p]
  <1>1. /\ p \in 1..Len(topic) /\ p <= committed + 1
        /\ p \in Nat /\ committed \in Nat /\ applied \in Nat
    BY DEF IInv, PositionInv, TypeOK
  <1>2. m \in Message /\ history[p] \in Table /\ history[p + 1] \in Table
    BY <1>1 DEF IInv, TypeOK
  <1>3. /\ m.before = history[p][m.key]
        /\ history[p + 1] = [history[p] EXCEPT ![m.key] = m.after]
    BY <1>1 DEF IInv, HistoryInv
  <1>4. Undisturbed /\ p = committed + 1 => applied \in {p - 1, p}
    BY <1>1 DEF IInv, AppliedInv, CommittedAfterApplied
  <1>5. m.key \in Keys /\ m.before \in Row /\ m.after \in Row
    BY <1>2 DEF Message
  <1> QED
    BY <1>1, <1>2, <1>3, <1>4, <1>5

\* What cast_values makes of a row is a row of the target, and only of no row
\* it makes none.
LEMMA CastFacts ==
    ASSUME NEW row \in Row
    PROVE  /\ Cast(row) \in CastData \cup {NoRow}
           /\ Cast(row) = NoRow <=> row = NoRow
  <1>1. row # NoRow => CastValues(row) \in CastData
    BY DEF CastData, Row
  <1>2. NoRow \notin CastData
    BY ConstantsAssumption
  <1> QED
    BY <1>1, <1>2 DEF Cast

\* To change a row of the source is to change the same row as it is shown.
LEMMA ShownExcept ==
    ASSUME NEW t \in Table, NEW k \in Keys, NEW row
    PROVE  Shown([t EXCEPT ![k] = row]) = [Shown(t) EXCEPT ![k] = Cast(row)]
  BY DEF Shown, Table

\* A statement executed on the version before its message, or again on the
\* version after it, leaves the version after it.
LEMMA ReplayIsExact ==
    ASSUME IInv, NEW c \in Consumers, pc[c] = "apply", Undisturbed,
           position[c] = committed + 1,
           ~IsTombstone(topic[position[c]]),
           ~RaisesUniqueViolation(topic[position[c]])
    PROVE  Replayed(topic[position[c]]) = Shown(history[position[c] + 1])
  <1> DEFINE p == position[c]
             m == topic[p]
             t == history[p]
  <1>1. /\ p \in Nat /\ applied \in {p - 1, p}
        /\ m.key \in Keys /\ m.before \in Row /\ m.after \in Row /\ t \in Table
        /\ m.before = t[m.key]
        /\ history[p + 1] = [t EXCEPT ![m.key] = m.after]
    BY HeldMessage
  <1>2. target = Shown(history[applied + 1])
    BY DEF IInv, TargetIsSourceVersion
  <1>3. Shown(history[p + 1]) = [Shown(t) EXCEPT ![m.key] = Cast(m.after)]
    BY <1>1, ShownExcept
  <1>4. m.before # NoRow /\ target[m.key] # NoRow =>
            Matches(target[m.key], m.before) \/ target[m.key] # Cast(m.before)
    BY <1>1, ConstantsAssumption DEF Matches, Undisturbed, PreciseRows, Row
  <1>5. Shown(t) \in [Keys -> CastData \cup {NoRow}] /\ Shown(t)[m.key] = Cast(m.before)
    BY <1>1, CastFacts DEF Shown, Table
  <1>6. Cast(m.before) = NoRow <=> m.before = NoRow
    BY <1>1, CastFacts
  <1> HIDE DEF m, t, p
  <1>7. CASE applied = p - 1
    <2>1. target = Shown(t)
      BY <1>1, <1>2, <1>7 DEF t, p
    <2>2. IsInsert(m) \/ m.before # NoRow
      BY DEF IsInsert, IsTombstone, m, p
    <2>3. IsInsert(m) \/ Matches(target[m.key], m.before)
      BY <2>1, <2>2, <1>4, <1>5, <1>6
    <2> QED
      BY <2>1, <2>3, <1>3 DEF Replayed, m, p
  <1>8. CASE applied = p
    <2>1. target = [Shown(t) EXCEPT ![m.key] = Cast(m.after)]
      BY <1>2, <1>3, <1>8
    <2>2. target[m.key] = Cast(m.after)
      BY <2>1, <1>1, <1>5
    <2>3. ~IsInsert(m)
      BY <2>2, <1>1, CastFacts DEF RaisesUniqueViolation, IsInsert, m, p
    <2>4. [target EXCEPT ![m.key] = Cast(m.after)] = target
      BY <2>1, <2>2, <1>5
    <2> QED
      BY <2>1, <2>3, <2>4, <1>3 DEF Replayed, m, p
  <1> QED
    BY <1>1, <1>7, <1>8 DEF p

LEMMA SkipTombstoneIInv ==
    ASSUME IInv, NEW c \in Consumers, SkipTombstone(c)
    PROVE  IInv'
  <1> USE DEF IInv
  <1> DEFINE p == position[c]
             m == topic[p]
  <1>1. /\ pc[c] = "apply" /\ IsTombstone(m)
        /\ pc' = [pc EXCEPT ![c] = "commit"]
        /\ applied' = IF p > applied THEN p ELSE applied
        /\ UNCHANGED <<topic, history, target, owner, committed, position, spent, staleWrite>>
    BY DEF SkipTombstone, source, group
  <1>2. /\ p \in 1..Len(topic) /\ p <= committed + 1
        /\ p \in Nat /\ committed \in Nat /\ applied \in Nat
        /\ m.key \in Keys /\ history[p] \in Table
        /\ m.before = history[p][m.key]
        /\ history[p + 1] = [history[p] EXCEPT ![m.key] = m.after]
    BY <1>1, HeldMessage
  <1>3. Undisturbed' = Undisturbed
    BY <1>1 DEF Undisturbed
  <1>4. TypeOK'
    BY <1>1, <1>2 DEF TypeOK
  <1>5. HistoryInv'
    BY <1>1 DEF HistoryInv
  <1>6. PositionInv'
    BY <1>1, <1>2 DEF TypeOK, PositionInv
  <1>7. AppliedInv'
    <2>1. \A d \in Consumers : pc'[d] = "commit" => pc[d] = "commit" \/ d = c
      BY <1>1 DEF TypeOK
    <2>2. applied' \in Nat /\ applied <= applied' /\ p <= applied' /\ applied' \in {p, applied}
      BY <1>1, <1>2
    <2> QED
      BY <1>1, <1>2, <1>3, <2>1, <2>2 DEF TypeOK, AppliedInv, CommittedAfterApplied
  <1>8. EvictedInv'
    BY <1>1 DEF TypeOK, EvictedInv, StaleWriteNeedsEviction
  <1>9. TargetIsSourceVersion'
    <2> SUFFICES ASSUME Undisturbed PROVE target = Shown(history[applied' + 1])
      BY <1>1, <1>3 DEF TargetIsSourceVersion
    <2>1. target = Shown(history[applied + 1]) /\ committed <= applied
      BY DEF TargetIsSourceVersion, AppliedInv, CommittedAfterApplied
    <2>2. CASE p > applied
      <3>1. applied + 1 = p /\ applied' = p
        BY <1>1, <1>2, <2>1, <2>2
      <3>2. history[p + 1] = history[p]
        BY <1>1, <1>2 DEF IsTombstone, Table
      <3> QED
        BY <3>1, <3>2, <2>1
    <2>3. CASE ~(p > applied)
      BY <1>1, <2>1, <2>3
    <2> QED
      BY <2>2, <2>3
  <1> QED
    BY <1>4, <1>5, <1>6, <1>7, <1>8, <1>9

LEMMA SkipRecordIInv ==
    ASSUME IInv, NEW c \in Consumers, SkipRecord(c)
    PROVE  IInv'
  <1> USE DEF IInv
  <1> DEFINE p == position[c]
             m == topic[p]
  <1>1. /\ pc[c] = "apply" /\ RaisesUniqueViolation(m)
        /\ pc' = [pc EXCEPT ![c] = "commit"]
        /\ UNCHANGED <<topic, history, target, owner, committed, position, spent, applied,
                       staleWrite>>
    BY DEF SkipRecord, source, group
  <1>2. /\ p \in 1..Len(topic) /\ p <= committed + 1
        /\ p \in Nat /\ committed \in Nat /\ applied \in Nat
        /\ m.key \in Keys /\ history[p] \in Table
        /\ m.before = history[p][m.key] /\ m.before \in Row
    BY <1>1, HeldMessage
  <1>3. Undisturbed' = Undisturbed
    BY <1>1 DEF Undisturbed
  <1>4. TypeOK' /\ HistoryInv' /\ EvictedInv' /\ TargetIsSourceVersion'
    BY <1>1, <1>3 DEF TypeOK, HistoryInv, EvictedInv, StaleWriteNeedsEviction,
       TargetIsSourceVersion
  <1>5. PositionInv'
    BY <1>1, <1>2 DEF TypeOK, PositionInv
  <1>6. Undisturbed => p <= applied
    <2> SUFFICES ASSUME Undisturbed, p = applied + 1 PROVE FALSE
      BY <1>2 DEF AppliedInv, CommittedAfterApplied
    <2>1. target[m.key] = Cast(m.before)
      BY <1>2 DEF TargetIsSourceVersion, Shown
    <2> QED
      BY <1>1, <1>2, <2>1, CastFacts DEF RaisesUniqueViolation, IsInsert
  <1>7. AppliedInv'
    <2>1. \A d \in Consumers : pc'[d] = "commit" => pc[d] = "commit" \/ d = c
      BY <1>1 DEF TypeOK
    <2> QED
      BY <1>1, <1>2, <1>3, <1>6, <2>1 DEF AppliedInv, CommittedAfterApplied
  <1> QED
    BY <1>4, <1>5, <1>7

LEMMA ExecuteIInv ==
    ASSUME IInv, NEW c \in Consumers, NEW acked \in BOOLEAN, Execute(c, acked)
    PROVE  IInv'
  <1> USE DEF IInv
  <1> DEFINE p == position[c]
             m == topic[p]
  <1>1. /\ pc[c] = "apply" /\ ~IsTombstone(m) /\ ~RaisesUniqueViolation(m)
        /\ target' = Replayed(m)
        /\ applied' = IF p > applied THEN p ELSE applied
        /\ staleWrite' = (staleWrite \/ p <= committed)
        /\ pc' = [pc EXCEPT ![c] = "commit"] \/ pc' = pc
        /\ spent' = spent \/ Spend("lostack")
        /\ UNCHANGED <<topic, history, owner, committed, position>>
    BY DEF Execute, source, group
  <1>2. /\ p \in 1..Len(topic) /\ p <= committed + 1
        /\ p \in Nat /\ committed \in Nat /\ applied \in Nat
        /\ m.key \in Keys /\ m.before \in Row /\ m.after \in Row /\ history[p] \in Table
        /\ history[p + 1] \in Table
        /\ Undisturbed /\ p = committed + 1 => applied \in {p - 1, p}
    BY <1>1, HeldMessage
  <1>3. /\ spent' \in [Faults -> Nat] /\ spent'["evict"] >= spent["evict"]
        /\ spent["evict"] \in Nat /\ spent'["evict"] \in Nat
    BY <1>1, SpendFacts DEF TypeOK, Faults
  <1>4. Undisturbed' => Undisturbed /\ p = committed + 1
    <2>1. ~(p <= committed) => p = committed + 1
      BY <1>2
    <2> QED
      BY <1>1, <2>1, Zenon DEF Undisturbed
  <1>5. TypeOK'
    <2>1. target' \in Target
      <3>1. Cast(m.after) \in CastData \cup {NoRow}
        BY <1>2, CastFacts
      <3> QED
        BY <1>1, <1>2, <3>1 DEF TypeOK, Replayed, Target
    <2>2. staleWrite' \in BOOLEAN
      BY <1>1 DEF TypeOK
    <2> QED
      BY <1>1, <1>2, <1>3, <2>1, <2>2 DEF TypeOK
  <1>6. HistoryInv'
    BY <1>1 DEF HistoryInv
  <1>7. PositionInv'
    BY <1>1, <1>2 DEF TypeOK, PositionInv
  <1>8. \A d \in Consumers : pc'[d] = "commit" => pc[d] = "commit" \/ d = c
    BY <1>1 DEF TypeOK
  <1>9. applied' \in Nat /\ applied <= applied' /\ p <= applied' /\ applied' \in {p, applied}
    BY <1>1, <1>2
  <1>10. AppliedInv'
    BY <1>1, <1>2, <1>4, <1>8, <1>9 DEF TypeOK, AppliedInv, CommittedAfterApplied
  <1>11. EvictedInv'
    <2>1. p <= committed => spent["evict"] > 0
      BY <1>1, <1>2 DEF EvictedInv, PositionInv
    <2>2. StaleWriteNeedsEviction'
      <3>1. spent["evict"] > 0 => spent'["evict"] > 0
        BY <1>3
      <3> QED
        BY <1>1, <2>1, <3>1, Zenon DEF EvictedInv, StaleWriteNeedsEviction
    <2> QED
      BY <1>1, <1>3, <2>2 DEF TypeOK, EvictedInv
  <1>12. TargetIsSourceVersion'
    <2> SUFFICES ASSUME Undisturbed' PROVE target' = Shown(history'[applied' + 1])
      BY DEF TargetIsSourceVersion
    <2>1. target' = Shown(history[p + 1])
      BY <1>1, <1>4, ReplayIsExact
    <2>2. applied' = p
      BY <1>1, <1>2, <1>4
    <2> QED
      BY <1>1, <2>1, <2>2
  <1> QED
    BY <1>5, <1>6, <1>7, <1>10, <1>11, <1>12

LEMMA NextIInv == IInv /\ [Next]_vars => IInv'
  <1> SUFFICES ASSUME IInv, [Next]_vars PROVE IInv'
    OBVIOUS
  <1>1. ASSUME NEW k \in Keys, NEW after \in Row, Publish(k, after) PROVE IInv'
    BY <1>1, PublishIInv
  <1>2. ASSUME NEW c \in Consumers, Step(c) PROVE IInv'
    BY <1>2, AssignIInv, DeliverIInv, SkipTombstoneIInv, ExecuteIInv, SkipRecordIInv,
       CommitIInv, RestartIInv DEF Step
  <1>3. ASSUME NEW c \in Consumers, Failure(c) PROVE IInv'
    BY <1>3, RebalanceIInv, EvictIInv, ExecuteIInv, CommitIInv, CrashIInv DEF Failure
  <1>4. CASE UNCHANGED vars
    BY <1>4 DEF vars, IInv, TypeOK, HistoryInv, PositionInv, AppliedInv, EvictedInv,
       CommittedAfterApplied, StaleWriteNeedsEviction, TargetIsSourceVersion, Undisturbed
  <1> QED
    BY <1>1, <1>2, <1>3, <1>4 DEF Next

LEMMA Invariance == Spec => []IInv
  <1>1. Init => IInv
    BY InitIInv
  <1>2. IInv /\ [Next]_vars => IInv'
    BY NextIInv
  <1> QED
    BY <1>1, <1>2, PTL DEF Spec

-----------------------------------------------------------------------------
\* The state of the replicator stays within its types: in particular every
\* instance's position and the committed offset stay natural numbers, and the
\* target holds rows that cast_values made only.
THEOREM TypeCorrect == Spec => []TypeOK
  <1>1. IInv => TypeOK
    BY DEF IInv
  <1> QED
    BY <1>1, Invariance, PTL

\* Whatever the number of instances, messages, crashes, lost acks, rebalances
\* and evictions, no message is committed that did not take effect and at most
\* one message is ahead of the commit.
THEOREM CommitFollowsEffect == Spec => []CommittedAfterApplied
  <1>1. IInv => CommittedAfterApplied
    BY DEF IInv, AppliedInv
  <1> QED
    BY <1>1, Invariance, PTL

\* The at-least-once replay has an exactly-once effect: as long as rows can be
\* identified and no evicted instance wrote late, the target is what cast_values
\* makes of a version of the source table, the one after the newest applied
\* message.  The fractions of seconds that milli_time drops are the only loss.
THEOREM ReplicaIsFaithful == Spec => []TargetIsSourceVersion
  <1>1. IInv => TargetIsSourceVersion
    BY DEF IInv
  <1> QED
    BY <1>1, Invariance, PTL

\* The group's offset never moves back and never skips a message, in any step.
THEOREM CommitMonotone == Spec => CommitAdvancesByOne
  <1>1. IInv /\ [Next]_vars => [committed' \in {committed, committed + 1}]_vars
    <2> SUFFICES ASSUME IInv, Next PROVE committed' \in {committed, committed + 1}
      OBVIOUS
    <2>1. ASSUME NEW c \in Consumers, NEW acked \in BOOLEAN, Commit(c, acked)
          PROVE  committed' \in {committed, committed + 1}
      BY <2>1 DEF Commit, AcceptCommit, OffsetToCommit, IInv, PositionInv
    <2>2. ASSUME NEW k \in Keys, NEW after \in Row, Publish(k, after)
          PROVE  committed' = committed
      BY <2>2 DEF Publish
    <2>3. ASSUME NEW c \in Consumers, Step(c) \/ Failure(c)
          PROVE  committed' = committed \/ \E acked \in BOOLEAN : Commit(c, acked)
      BY <2>3 DEF Step, Failure, Assign, Deliver, SkipTombstone, Execute, SkipRecord,
         Restart, Rebalance, Evict, Revoke, Crash, group
    <2> QED
      BY <2>1, <2>2, <2>3 DEF Next
  <1> QED
    BY <1>1, Invariance, PTL DEF Spec, CommitAdvancesByOne

\* Late statements come from evicted instances only.
THEOREM StaleWritesAreEvictions == Spec => []StaleWriteNeedsEviction
  <1>1. IInv => StaleWriteNeedsEviction
    BY DEF IInv, EvictedInv
  <1> QED
    BY <1>1, Invariance, PTL

-----------------------------------------------------------------------------
\* The bound on evictions is kept.
EvictionBound == spent \in [Faults -> Nat] /\ spent["evict"] <= MaxEvictions

LEMMA EvictionsAreBounded == Spec => []EvictionBound
  <1>1. Init => EvictionBound
    BY BoundsAssumption DEF Init, EvictionBound, Faults
  <1>2. EvictionBound /\ [Next]_vars => EvictionBound'
    <2> SUFFICES ASSUME EvictionBound, [Next]_vars PROVE EvictionBound'
      OBVIOUS
    <2>1. ASSUME NEW f \in Faults, Spend(f) PROVE EvictionBound'
      BY <2>1, BoundsAssumption DEF Spend, Limit, EvictionBound, Faults
    <2>2. spent' = spent \/ \E f \in Faults : Spend(f)
      <3>1. ASSUME NEW k \in Keys, NEW after \in Row, Publish(k, after) PROVE spent' = spent
        BY <3>1 DEF Publish
      <3>2. ASSUME NEW c \in Consumers, Step(c) \/ Failure(c)
            PROVE  \/ spent' = spent \/ Spend("lostack") \/ Spend("crash")
                   \/ Spend("evict") \/ Spend("rebalance")
        BY <3>2 DEF Step, Failure, Assign, Deliver, SkipTombstone, Execute, SkipRecord,
           Commit, Restart, Rebalance, Evict, Revoke, Crash
      <3> QED
        BY <3>1, <3>2 DEF Next, vars, Faults
    <2> QED
      BY <2>1, <2>2 DEF EvictionBound
  <1> QED
    BY <1>1, <1>2, PTL DEF Spec

\* One step of an instance moves the newest applied message by at most one.
LEMMA AppliedSteps ==
    ASSUME IInv, Undisturbed, NEW c \in Consumers, Step(c) \/ Failure(c)
    PROVE  UNCHANGED history /\ applied' \in {applied, applied + 1}
  <1>1. UNCHANGED history
    BY DEF Step, Failure, Assign, Deliver, SkipTombstone, Execute, SkipRecord,
       Commit, Restart, Rebalance, Evict, Revoke, Crash, source
  <1>2. \/ applied' = applied
        \/ pc[c] = "apply" /\ applied' = position[c] /\ position[c] > applied
    BY DEF Step, Failure, Assign, Deliver, SkipTombstone, Execute, SkipRecord,
       Commit, Restart, Rebalance, Evict, Revoke, Crash
  <1>3. ASSUME pc[c] = "apply", position[c] > applied PROVE position[c] = applied + 1
    <2>1. committed <= applied
      BY DEF IInv, AppliedInv, CommittedAfterApplied
    <2>2. /\ position[c] \in Nat /\ committed \in Nat /\ applied \in Nat
          /\ position[c] <= committed + 1
      BY <1>3, HeldMessage
    <2> QED
      BY <1>3, <2>1, <2>2
  <1> QED
    BY <1>1, <1>2, <1>3

\* Without evictions, and with rows that can be identified, both programs
\* implement the abstract view: a reader of the target sees the versions of the
\* source table, as cast_values converts them, one after the other, none skipped
\* and none shown again, however many instances run, crash and are redelivered
\* messages.
THEOREM ImplementsView ==
    ASSUME PreciseRows, MaxEvictions = 0
    PROVE  Spec => ViewSpec
  <1> DEFINE Inv == IInv /\ EvictionBound
  <1>1. Inv => Undisturbed
    <2> SUFFICES ASSUME Inv PROVE ~staleWrite
      BY DEF Undisturbed
    <2>1. ~(spent["evict"] > 0)
      BY DEF EvictionBound, Faults
    <2> QED
      BY <2>1, Zenon DEF IInv, EvictedInv, StaleWriteNeedsEviction
  <1>2. Init => View!Init
    <2> SUFFICES ASSUME Init PROVE View!Init
      OBVIOUS
    <2>1. [k \in Keys |-> NoRow] \in Table
      BY DEF Table, Row
    <2>2. target = Shown([k \in Keys |-> NoRow])
      BY DEF Init, Shown, Cast
    <2> QED
      BY <2>1, <2>2 DEF Init, View!Init
  <1>3. Inv /\ Inv' /\ [Next]_vars => [View!Next]_<<history, target, applied>>
    <2> SUFFICES ASSUME Inv, Inv', Next PROVE [View!Next]_<<history, target, applied>>
      BY DEF vars
    <2>1. ASSUME NEW k \in Keys, NEW after \in Row, Publish(k, after) PROVE View!Change
      <3>1. [SourceTable EXCEPT ![k] = after] \in Table
        <4>1. SourceTable \in Table
          BY DEF IInv, TypeOK, SourceTable
        <4> QED
          BY <4>1 DEF Table
      <3> QED
        BY <2>1, <3>1 DEF Publish, View!Change
    <2>2. ASSUME NEW c \in Consumers, Step(c) \/ Failure(c)
          PROVE  View!Advance \/ UNCHANGED <<history, target, applied>>
      <3>1. UNCHANGED history /\ applied' \in {applied, applied + 1}
        BY <2>2, <1>1, AppliedSteps
      <3>2. target = Shown(history[applied + 1]) /\ target' = Shown(history'[applied' + 1])
        <4>1. TargetIsSourceVersion /\ Undisturbed
          BY <1>1 DEF IInv
        <4>2. TargetIsSourceVersion' /\ Undisturbed'
          BY <1>1 DEF IInv, Undisturbed, PreciseRows, EvictedInv, StaleWriteNeedsEviction,
             EvictionBound, Faults
        <4> QED
          BY <4>1, <4>2 DEF TargetIsSourceVersion
      <3>3. applied' <= Len(topic') /\ Len(history') = Len(topic') + 1
        BY DEF IInv, AppliedInv, TypeOK
      <3>4. CASE applied' = applied + 1
        <4>1. applied + 1 < Len(history)
          BY <3>1, <3>3, <3>4 DEF IInv, TypeOK
        <4> QED
          BY <3>1, <3>2, <3>4, <4>1 DEF View!Advance
      <3>5. CASE applied' = applied
        BY <3>1, <3>2, <3>5
      <3> QED
        BY <3>1, <3>4, <3>5
    <2> QED
      BY <2>1, <2>2 DEF Next, View!Next
  <1> QED
    BY <1>2, <1>3, Invariance, EvictionsAreBounded, PTL DEF Spec, ViewSpec, View!Spec
=============================================================================
