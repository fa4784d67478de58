------------------------------- MODULE PgSync -------------------------------
(***************************************************************************)
(* solutions/pg-sync: a replicator that reads the Debezium changes of one  *)
(* PostgreSQL table from a Kafka topic and replays them, one statement per *)
(* message, against a second database (src/main.py, src/avro_main.py).     *)
(*                                                                         *)
(* The instances belong to one consumer group.  The one that owns the      *)
(* partition takes a message (`for msg in consumer'), executes it until it *)
(* succeeds (`while True: try ... except: sleep'), and only then commits   *)
(* its offset (`while True: try: consumer.commit()'), so a message may be  *)
(* executed any number of times but is never committed unexecuted.         *)
(*                                                                         *)
(* Offsets are counts of messages: `committed = n' means that the first n  *)
(* messages of the topic are done, and `position[c] = n' that instance c   *)
(* has taken the first n.                                                  *)
(***************************************************************************)
EXTENDS Naturals, Sequences

CONSTANTS
    Keys,                \* primary keys of the replicated table
    Data,                \* the other columns: [time |-> a TIME column in ms, other]
    NoRow,               \* no row with this key; a null `before' or `after'
    Imprecise,           \* the Data that `col = %s' never matches: NULL, FLOAT
    Uncastable,          \* the Data on which cast_values raises
    RowIdentifier,       \* does the table's CONFIG entry name a row_identifier?
    SkipUniqueViolation, \* TRUE for avro_main.py, FALSE for main.py
    Consumers,           \* instances of the program
    NoOne,               \* owner of a partition that is not assigned
    MaxMessages,         \* bounds: messages in the topic, ...
    MaxLostAcks,         \* ... calls that take effect and still raise, ...
    MaxCrashes,          \* ... crashes of an instance, ...
    MaxEvictions,        \* ... instances that exceed max_poll_interval_ms, ...
    MaxRebalances        \* ... and rebalances of the group

\* milli_time keeps the hours, minutes and seconds of a TIME.  What is below a
\* second is lost: line 53 takes `milliseconds * sec_conv' away instead of
\* `seconds * sec_conv', and nobody uses the rest.
MilliTime(ms) == (ms \div 1000) * 1000

\* cast_values converts every column; no other conversion loses anything.
CastValues(data) == [data EXCEPT !.time = MilliTime(@)]
CastData == {CastValues(d) : d \in Data}

ASSUME ConstantsAssumption ==
    /\ NoRow \notin Data \cup CastData
    /\ NoOne \notin Consumers
    /\ Imprecise \subseteq Data
    /\ Uncastable \subseteq Data
    /\ RowIdentifier \in BOOLEAN
    /\ SkipUniqueViolation \in BOOLEAN

ASSUME BoundsAssumption ==
    /\ MaxMessages \in Nat
    /\ MaxLostAcks \in Nat
    /\ MaxCrashes \in Nat
    /\ MaxEvictions \in Nat
    /\ MaxRebalances \in Nat

VARIABLES
    topic,       \* the changes Debezium published, oldest first
    history,     \* history[n+1] is the source table after the first n messages
    target,      \* the table the replicator writes, whose values were cast
    owner,       \* the instance the partition is assigned to
    committed,   \* the group's committed offset
    pc,          \* where each instance is in its loop
    position,    \* the offset after the message each instance holds
    spent,       \* how much of each bound on faults is used up
    applied,     \* auxiliary: the newest message whose statement took effect
    staleWrite   \* auxiliary: was a statement executed after its commit?

source == <<topic, history>>
group  == <<owner, committed>>
vars   == <<topic, history, target, owner, committed, pc, position, spent,
            applied, staleWrite>>

-----------------------------------------------------------------------------
Row     == Data \cup {NoRow}
Table   == [Keys -> Row]
Target  == [Keys -> CastData \cup {NoRow}]
Message == [key : Keys, before : Row, after : Row]
Faults  == {"lostack", "crash", "evict", "rebalance"}

Limit(f) ==
    CASE f = "lostack"   -> MaxLostAcks
      [] f = "crash"     -> MaxCrashes
      [] f = "evict"     -> MaxEvictions
      [] f = "rebalance" -> MaxRebalances

Spend(f) ==
    /\ spent[f] < Limit(f)
    /\ spent' = [spent EXCEPT ![f] = @ + 1]

\* With a row identifier, or when every column compares equal to itself, the
\* WHERE clause of an UPDATE or a DELETE finds exactly the row it is meant for.
PreciseRows == RowIdentifier \/ Imprecise = {}

Cast(row) == IF row = NoRow THEN NoRow ELSE CastValues(row)

\* The WHERE clause of create_update_statement and create_delete_statement:
\* the row identifier, else every column of `before'.  Its values are cast too,
\* or they would not match what was written.
MatchesUncast(row, before) ==  \* mutant
    /\ row # NoRow
    /\ RowIdentifier \/ (row = before /\ before \notin Imprecise)

Matches(row, before) ==
    /\ row # NoRow
    /\ RowIdentifier \/ (row = Cast(before) /\ before \notin Imprecise)

\* Mutant: every message without an after image passes for a tombstone.
DeleteIsTombstone(m) == m.after = NoRow

IsTombstone(m) == m.before = NoRow /\ m.after = NoRow
IsInsert(m)    == m.before = NoRow /\ m.after # NoRow

\* cast_values is applied to every column of `after', and to the columns of
\* the WHERE clause.  It raises on a NULL in a date or time column and on a TIME
\* of 24 hours or more.
CastRaises(m) ==
    \/ m.after \in Uncastable
    \/ ~RowIdentifier /\ m.before \in Uncastable

\* The INSERT that the primary key of the target rejects.
RaisesUniqueViolation(m) == IsInsert(m) /\ target[m.key] # NoRow

\* What the statement of a change leaves in the target table.
Replayed(m) ==
    IF IsInsert(m) \/ Matches(target[m.key], m.before)
    THEN [target EXCEPT ![m.key] = Cast(m.after)]
    ELSE target

-----------------------------------------------------------------------------
Init ==
    /\ topic = <<>>
    /\ history = << [k \in Keys |-> NoRow] >>
    /\ target = [k \in Keys |-> NoRow]
    /\ owner = NoOne
    /\ committed = 0
    /\ pc = [c \in Consumers |-> "poll"]
    /\ position = [c \in Consumers |-> 0]
    /\ spent = [f \in Faults |-> 0]
    /\ applied = 0
    /\ staleWrite = FALSE

\* The source database (external): Debezium publishes a change of row k with
\* its before and after images, and after a deletion a tombstone as well.
SourceTable == history[Len(history)]

Publish(k, after) ==
    LET change    == [key |-> k, before |-> SourceTable[k], after |-> after]
        tombstone == [key |-> k, before |-> NoRow, after |-> NoRow]
        table     == [SourceTable EXCEPT ![k] = after]
    IN  /\ after # SourceTable[k]
        /\ Len(topic) + (IF after = NoRow THEN 2 ELSE 1) <= MaxMessages
        /\ IF after = NoRow
           THEN /\ topic' = topic \o <<change, tombstone>>
                /\ history' = history \o <<table, table>>
           ELSE /\ topic' = Append(topic, change)
                /\ history' = Append(history, table)
        /\ UNCHANGED <<target, owner, committed, pc, position, spent, applied,
                       staleWrite>>

\* Where a consumer of the group starts: at the committed offset, and at the
\* beginning when there is none (auto_offset_reset='earliest').
StartAtLatest   == IF committed = 0 THEN Len(topic) ELSE committed  \* mutant
StartOneEarlier == committed - 1                                    \* mutant

StartOffset == committed

\* The group coordinator (external) gives the partition to an instance that
\* is polling, which starts from the committed offset ...
Assign(c) ==
    /\ pc[c] = "poll"
    /\ owner = NoOne
    /\ owner' = c
    /\ position' = [position EXCEPT ![c] = StartOffset]
    /\ UNCHANGED <<source, target, committed, pc, spent, applied, staleWrite>>

\* ... and takes it back.  Only the poll of `for msg in consumer' takes part
\* in a rebalance, so an instance never loses the partition to one while it
\* works on a message ...
Revoke(c, where, fault) ==
    /\ owner = c
    /\ pc[c] \in where
    /\ Spend(fault)
    /\ owner' = NoOne
    /\ UNCHANGED <<source, target, committed, pc, position, applied, staleWrite>>

Rebalance(c) == Revoke(c, {"poll"}, "rebalance")

\* ... but when max_poll_interval_ms passes in one of the two retry loops, the
\* coordinator takes the partition and the instance does not notice.
Evict(c) == Revoke(c, {"apply", "commit"}, "evict")

\* `for msg in consumer': the owner takes the next message.
Deliver(c) ==
    /\ owner = c
    /\ pc[c] = "poll"
    /\ position[c] < Len(topic)
    /\ position' = [position EXCEPT ![c] = @ + 1]
    /\ pc' = [pc EXCEPT ![c] = "apply"]
    /\ UNCHANGED <<source, target, group, spent, applied, staleWrite>>

\* A tombstone breaks out of the retry loop without a statement.
SkipTombstone(c) ==
    /\ pc[c] = "apply"
    /\ IsTombstone(topic[position[c]])
    /\ pc' = [pc EXCEPT ![c] = "commit"]
    /\ applied' = IF position[c] > applied THEN position[c] ELSE applied
    /\ UNCHANGED <<source, target, group, position, spent, staleWrite>>

\* One attempt at the statement that succeeds in the database.  If the answer
\* is lost, the except branch sleeps and the loop tries again.
Execute(c, acked) ==
    LET m == topic[position[c]] IN
    /\ pc[c] = "apply"
    /\ ~IsTombstone(m)
    /\ ~CastRaises(m)
    /\ ~RaisesUniqueViolation(m)
    /\ target' = Replayed(m)
    /\ applied' = IF position[c] > applied THEN position[c] ELSE applied
    /\ staleWrite' = (staleWrite \/ position[c] <= committed)
    /\ IF acked
       THEN pc' = [pc EXCEPT ![c] = "commit"] /\ UNCHANGED spent
       ELSE Spend("lostack") /\ UNCHANGED pc
    /\ UNCHANGED <<source, group, position>>

\* avro_main.py: `except UniqueViolation' gives the record up; main.py has no
\* such branch and retries.
NeverSkip(c) == FALSE  \* mutant: avro_main.py without its `except' branch

SkipRecord(c) ==
    LET m == topic[position[c]] IN
    /\ SkipUniqueViolation
    /\ pc[c] = "apply"
    /\ ~CastRaises(m)
    /\ RaisesUniqueViolation(m)
    /\ pc' = [pc EXCEPT ![c] = "commit"]
    /\ UNCHANGED <<source, target, group, position, spent, applied, staleWrite>>

\* The broker (external) rejects a commit from an instance that is not a
\* member of the current generation of the group.
AcceptCommit(c) == owner = c

\* The offset that consumer.commit() sends: the one after the message.
OffsetOneAhead(c) == position[c] + 1  \* mutant

OffsetToCommit(c) == position[c]

\* consumer.commit(): it raises, and is retried, for ever in an instance that
\* no longer owns the partition.
Commit(c, acked) ==
    /\ pc[c] = "commit"
    /\ AcceptCommit(c)
    /\ committed' = OffsetToCommit(c)
    /\ IF acked
       THEN pc' = [pc EXCEPT ![c] = "poll"] /\ UNCHANGED spent
       ELSE Spend("lostack") /\ UNCHANGED pc
    /\ UNCHANGED <<source, target, owner, position, applied, staleWrite>>

\* The process dies; the coordinator misses its heartbeats.
Crash(c) ==
    /\ pc[c] # "down"
    /\ Spend("crash")
    /\ pc' = [pc EXCEPT ![c] = "down"]
    /\ owner' = IF owner = c THEN NoOne ELSE owner
    /\ UNCHANGED <<source, target, committed, position, applied, staleWrite>>

\* The process is started again and subscribes (main.py, module level).
Restart(c) ==
    /\ pc[c] = "down"
    /\ pc' = [pc EXCEPT ![c] = "poll"]
    /\ UNCHANGED <<source, target, group, position, spent, applied, staleWrite>>

Step(c) ==
    \/ Assign(c)
    \/ Deliver(c)
    \/ SkipTombstone(c)
    \/ Execute(c, TRUE)
    \/ SkipRecord(c)
    \/ Commit(c, TRUE)
    \/ Restart(c)

Failure(c) ==
    \/ Rebalance(c)
    \/ Evict(c)
    \/ Execute(c, FALSE)
    \/ Commit(c, FALSE)
    \/ Crash(c)

Next ==
    \/ \E k \in Keys, after \in Row : Publish(k, after)
    \/ \E c \in Consumers : Step(c) \/ Failure(c)

Spec == Init /\ [][Next]_vars

\* Every attempt an instance can make is made: the loops have no exit but
\* success.  A dead process is restarted; the topic need not grow.
Fairness ==
    \A c \in Consumers :
        /\ WF_vars(Assign(c))
        /\ WF_vars(Deliver(c))
        /\ WF_vars(SkipTombstone(c) \/ Execute(c, TRUE) \/ SkipRecord(c))
        /\ WF_vars(Commit(c, TRUE))
        /\ WF_vars(Restart(c))

FairSpec == Spec /\ Fairness

-----------------------------------------------------------------------------
(* Properties *)

TypeOK ==
    /\ topic \in Seq(Message)
    /\ history \in Seq(Table)
    /\ Len(history) = Len(topic) + 1
    /\ target \in Target
    /\ owner \in Consumers \cup {NoOne}
    /\ committed \in Nat
    /\ pc \in [Consumers -> {"down", "poll", "apply", "commit"}]
    /\ position \in [Consumers -> Nat]
    /\ spent \in [Faults -> Nat]
    /\ applied \in Nat
    /\ staleWrite \in BOOLEAN

\* Rows the WHERE clause cannot identify (README.md 45-48) and a statement that
\* an evicted instance executes after its commit are what the program does not
\* protect the target from.
Undisturbed == PreciseRows /\ ~staleWrite

\* Every message took effect before its offset is committed, although
\* avro_main.py gives up records on a UniqueViolation, and at most one message
\* takes effect ahead of the commit, so a crash or a rebalance costs at most one
\* redelivery (the commit loop follows the retry loop, main.py 102-108).
CommittedAfterApplied ==
    /\ applied <= committed + 1
    /\ Undisturbed => committed <= applied

\* At every moment, also between an execution and its commit and after any
\* number of redeliveries, the target is the source table as of the newest
\* applied message, except for the fractions of seconds that milli_time drops
\* (utilities.py 41-58): neither a lost ack, nor a crash, nor a skipped
\* UniqueViolation makes it diverge further, and no row is missed by the WHERE
\* clause because of what was dropped.
Shown(table) == [k \in Keys |-> Cast(table[k])]

TargetIsSourceVersion == Undisturbed => target = Shown(history[applied + 1])

\* Only an instance that was evicted while it retried a statement can execute
\* it after another instance has committed that message: without an eviction
\* no statement is ever executed after its commit.
StaleWriteNeedsEviction == staleWrite => spent["evict"] > 0

\* An instance never moves the group's offset back and never by more than one
\* message (consumer.commit(), main.py 104).
CommitAdvancesByOne ==
    [][committed' \in {committed, committed + 1}]_vars

\* The program implements the abstract view of the target database, in which
\* TIME values have no fractions.
View == INSTANCE PgSyncView WITH Table <- Table, Shown <- Shown,
            history <- history, target <- target, applied <- applied
ViewSpec == View!Spec

\* README.md 89: "Run the App to push changes in Kafka to PG".  Every change
\* published to the topic reaches the target and is committed.
EveryChangeIsPushed ==
    \A n \in 1..MaxMessages : Len(topic) >= n ~> committed >= n
=============================================================================
