--------------------------- MODULE LanceConsumer ---------------------------
(***************************************************************************)
(* solutions/diskless-lancedb: the two programs that copy a Kafka topic    *)
(* into a LanceDB table.                                                   *)
(*                                                                         *)
(* kafka_consumer_lancedb.py ("messages") collects messages in memory,     *)
(* writes them when the batch is full, goes on when a write fails, and     *)
(* writes the rest when it ends.  The consumer commits its position by     *)
(* itself (enable_auto_commit), whether or not the messages before it are  *)
(* stored.  claims_usecase_aiven_kafka_lance_cloud_consumer.py ("claims")  *)
(* does the same, but ends when a write fails and never closes its         *)
(* consumer.                                                               *)
(*                                                                         *)
(* A message is its place in the topic; what is known of its value is      *)
(* whether it can be decoded and whether a record can be built from it.    *)
(***************************************************************************)
EXTENDS Naturals, Sequences

CONSTANTS
    Programs,       \* the programs to run: "messages", "claims" or either
    BatchSize,      \* BATCH_SIZE
    Values,         \* the values of messages that a producer may send
    MaxMessages,    \* bounds: messages in the topic, ...
    MaxStarts,      \* ... times the program is started, ...
    MaxCrashes,     \* ... times it is killed, ...
    MaxInterrupts,  \* ... times a user interrupts it, ...
    MaxAddFailures  \* ... and failures of table.add

ASSUME ConstantsAssumption ==
    /\ Programs \subseteq {"messages", "claims"}
    /\ BatchSize \in Nat \ {0}
    /\ Values \subseteq {"record", "notdict", "notjson"}

ASSUME BoundsAssumption ==
    /\ MaxMessages \in Nat
    /\ MaxStarts \in Nat
    /\ MaxCrashes \in Nat
    /\ MaxInterrupts \in Nat
    /\ MaxAddFailures \in Nat

VARIABLES
    program,    \* which of the programs it is
    topic,      \* the values of the messages, oldest first
    rows,       \* rows[i]: how many rows of the table came from message i
    committed,  \* the group's committed offset
    position,   \* how many messages the consumer handed over
    batch,      \* message_batch: the messages in memory
    pc,         \* where the program is
    spent,      \* how much of each bound is used up
    dropped     \* auxiliary: messages that were forgotten unstored

vars == <<program, topic, rows, committed, position, batch, pc, spent, dropped>>

Offsets == 1..MaxMessages
Events  == {"start", "crash", "interrupt", "addfailure"}
Running == {"poll", "held", "add", "reset", "final", "close"}

Limit(e) ==
    CASE e = "start"      -> MaxStarts
      [] e = "crash"      -> MaxCrashes
      [] e = "interrupt"  -> MaxInterrupts
      [] e = "addfailure" -> MaxAddFailures

Spend(e) ==
    /\ spent[e] < Limit(e)
    /\ spent' = [spent EXCEPT ![e] = @ + 1]

InBatch(i) == \E j \in 1..Len(batch) : batch[j] = i

\* The message that was handed over and is not in the batch yet.
InHand(i) == pc = "held" /\ i = position

InMemory == {i \in Offsets : InBatch(i) \/ InHand(i)}

\* prepare_lancedb_data raises for the whole batch if one value is no object.
Preparable == \A i \in 1..Len(batch) : topic[batch[i]] = "record"

\* table.add appends one row per message, without looking for older ones.
RowsAfterAdd == [i \in Offsets |-> IF InBatch(i) THEN rows[i] + 1 ELSE rows[i]]

\* What becomes of the batch when a write fails: "Continue processing despite
\* error" keeps it.
DropFailedBatch  == <<>>                              \* mutant
DropFailedNewest == SubSeq(batch, 1, Len(batch) - 1)  \* mutant

FailedBatch == batch

\* What the batch starts with, in a new life and after a write.
KeepOldBatch == batch  \* mutant

EmptyBatch == <<>>

\* When a batch is full; after a failed write it is more than full.
ExactlyFull(b) == Len(b) = BatchSize  \* mutant

Full(b) == Len(b) >= BatchSize

-----------------------------------------------------------------------------
Init ==
    /\ program \in Programs
    /\ topic = <<>>
    /\ rows = [i \in Offsets |-> 0]
    /\ committed = 0
    /\ position = 0
    /\ batch = <<>>
    /\ pc = "down"
    /\ spent = [e \in Events |-> 0]
    /\ dropped = {}

\* A producer (kafka_producer.py, or any other) sends a message.
Produce(v) ==
    /\ Len(topic) < MaxMessages
    /\ topic' = Append(topic, v)
    /\ UNCHANGED <<program, rows, committed, position, batch, pc, spent, dropped>>

\* Where the consumer starts (auto_offset_reset is earliest).
StartAtLatest == IF committed = 0 THEN Len(topic) ELSE committed  \* mutant

StartOffset == committed

\* The program starts: it opens or creates the table and subscribes.
Start ==
    /\ pc = "down"
    /\ Spend("start")
    /\ pc' = "poll"
    /\ position' = StartOffset
    /\ batch' = EmptyBatch
    /\ UNCHANGED <<program, topic, rows, committed, dropped>>

\* enable_auto_commit (external): kafka-python commits the position when it
\* polls, librdkafka from a thread of its own.
AutoCommit ==
    /\ \/ program = "messages" /\ pc = "poll"
       \/ program = "claims" /\ pc \in Running
    /\ committed # position
    /\ committed' = position
    /\ UNCHANGED <<program, topic, rows, position, batch, pc, spent, dropped>>

\* `for message in consumer', and poll(): the position moves past the message
\* before the program sees it.
HandOver ==
    /\ pc = "poll"
    /\ position < Len(topic)
    /\ topic[position + 1] # "notjson" \/ program = "claims"
    /\ position' = position + 1
    /\ pc' = "held"
    /\ UNCHANGED <<program, topic, rows, committed, batch, spent, dropped>>

\* The message goes into the batch, which is written when it is full.
Receive ==
    LET longer == Append(batch, position) IN
    /\ pc = "held"
    /\ topic[position] # "notjson"
    /\ batch' = longer
    /\ pc' = IF Full(longer) THEN "add" ELSE "poll"
    /\ UNCHANGED <<program, topic, rows, committed, position, spent, dropped>>

\* A value that is no JSON: "messages" has a value_deserializer, which raises
\* inside the consumer, and that stays before the message ...
DeserializerRaises ==
    /\ program = "messages"
    /\ pc = "poll"
    /\ position < Len(topic)
    /\ topic[position + 1] = "notjson"
    /\ pc' = "final"
    /\ UNCHANGED <<program, topic, rows, committed, position, batch, spent, dropped>>

\* ... while json.loads of "claims" raises after it.
ParseRaises ==
    /\ pc = "held"
    /\ topic[position] = "notjson"
    /\ dropped' = dropped \cup {position}
    /\ pc' = "final"
    /\ UNCHANGED <<program, topic, rows, committed, position, batch, spent>>

\* table.add of a full batch ...
Add ==
    /\ pc = "add"
    /\ Preparable
    /\ rows' = RowsAfterAdd
    /\ pc' = "reset"
    /\ UNCHANGED <<program, topic, committed, position, batch, spent, dropped>>

\* ... after which the batch starts anew.
ResetBatch ==
    /\ pc = "reset"
    /\ batch' = EmptyBatch
    /\ pc' = "poll"
    /\ UNCHANGED <<program, topic, rows, committed, position, spent, dropped>>

\* The write raises, in prepare_lancedb_data or in table.add, which may have
\* taken effect all the same.  "messages" logs it and goes on; "claims" has no
\* handler, and goes to its finally branch.
AddFails(stored) ==
    /\ pc = "add"
    /\ \/ ~Preparable /\ ~stored /\ UNCHANGED spent
       \/ Preparable /\ Spend("addfailure")
    /\ rows' = IF stored THEN RowsAfterAdd ELSE rows
    /\ batch' = FailedBatch
    /\ pc' = IF program = "messages" THEN "poll" ELSE "final"
    /\ UNCHANGED <<program, topic, committed, position, dropped>>

\* KeyboardInterrupt, also between the write and the reset of the batch, or an
\* error that the consumer reports.  The message in hand never gets into the
\* batch, and its offset is committed with the position all the same.
Interrupt ==
    /\ pc \in {"poll", "held", "add", "reset"}
    /\ Spend("interrupt")
    /\ pc' = "final"
    /\ dropped' = IF pc = "held" THEN dropped \cup {position} ELSE dropped
    /\ UNCHANGED <<program, topic, rows, committed, position, batch>>

\* The finally branch writes what is left ...
AfterFinal == IF program = "messages" THEN "close" ELSE "down"

FinalWrite ==
    /\ pc = "final"
    /\ Preparable
    /\ rows' = RowsAfterAdd
    /\ pc' = AfterFinal
    /\ UNCHANGED <<program, topic, committed, position, batch, spent, dropped>>

\* ... and logs a failure, or lets it end the program.
FinalWriteFails(stored) ==
    /\ pc = "final"
    /\ batch # <<>>
    /\ \/ ~Preparable /\ ~stored /\ UNCHANGED spent
       \/ Preparable /\ Spend("addfailure")
    /\ rows' = IF stored THEN RowsAfterAdd ELSE rows
    /\ dropped' = dropped \cup InMemory
    /\ pc' = AfterFinal
    /\ UNCHANGED <<program, topic, committed, position, batch>>

\* consumer.close() commits the position.  When that commit fails it is logged,
\* and the program ends as if it were killed here (Crash).
Close ==
    /\ pc = "close"
    /\ committed' = position
    /\ pc' = "down"
    /\ UNCHANGED <<program, topic, rows, position, batch, spent, dropped>>

\* The process is killed.
Crash ==
    /\ pc \in Running
    /\ Spend("crash")
    /\ pc' = "down"
    /\ dropped' = dropped \cup InMemory
    /\ UNCHANGED <<program, topic, rows, committed, position, batch>>

Next ==
    \/ \E v \in Values : Produce(v)
    \/ Start
    \/ AutoCommit
    \/ HandOver
    \/ Receive
    \/ DeserializerRaises
    \/ ParseRaises
    \/ Add
    \/ ResetBatch
    \/ \E stored \in BOOLEAN : AddFails(stored)
    \/ Interrupt
    \/ FinalWrite
    \/ \E stored \in BOOLEAN : FinalWriteFails(stored)
    \/ Close
    \/ Crash

Spec == Init /\ [][Next]_vars

\* The program goes on as long as it runs; nobody has to start, stop or feed it.
Fairness ==
    /\ WF_vars(HandOver \/ DeserializerRaises)
    /\ WF_vars(Receive \/ ParseRaises)
    /\ WF_vars(Add)
    /\ WF_vars(ResetBatch)
    /\ WF_vars(~Preparable /\ AddFails(FALSE))
    /\ WF_vars(FinalWrite)
    /\ WF_vars(~Preparable /\ FinalWriteFails(FALSE))
    /\ WF_vars(Close)

FairSpec == Spec /\ Fairness

-----------------------------------------------------------------------------
(* Properties *)

\* Every variable has its type, and the batch in memory is always the newest
\* messages handed over, in order and without a gap, also after failed writes
\* made it outgrow its size.
TypeOK ==
    /\ program \in Programs
    /\ topic \in Seq(Values)
    /\ Len(topic) <= MaxMessages
    /\ rows \in [Offsets -> Nat]
    /\ committed \in 0..Len(topic)
    /\ position \in 0..Len(topic)
    /\ pc \in {"poll", "held", "add", "reset"} =>
          LET newest == IF pc = "held" THEN position - 1 ELSE position IN
          /\ Len(batch) <= newest
          /\ \A j \in 1..Len(batch) : batch[j] = newest - Len(batch) + j
    /\ pc \in Running \cup {"down"}
    /\ spent \in [Events -> Nat]
    /\ dropped \subseteq Offsets

\* Auto-commit runs ahead of the writes (the hazard of enable_auto_commit, line
\* 56), yet a message below the committed offset that is not in the table is
\* still in memory, or it was forgotten in one of these ways: it was in memory
\* when the program was killed or when the last write failed, it could not be
\* parsed, or an interrupt came after it was handed over and before it was in
\* the batch (lines 231-241; claims 51-64).
CommittedIsAccountedFor ==
    \A i \in 1..committed :
        \/ rows[i] > 0
        \/ i \in dropped
        \/ pc \in Running /\ i \in InMemory

\* How often a message can be stored: once, and once more for every kill, for
\* every interrupt (which may hit between the write and the reset of the batch)
\* and for every write that took effect although it raised.  "claims" does not
\* commit when it ends, so for it every start counts.
DuplicatesBounded ==
    \A i \in Offsets :
        rows[i] <= spent["interrupt"] + spent["addfailure"] +
                   (IF program = "claims" THEN spent["start"] ELSE 1 + spent["crash"])

\* The messages that were handed to the program: each is stored, in memory, or
\* forgotten in one of the ways above.
Met == {i \in Offsets : rows[i] > 0} \cup InMemory \cup dropped

\* Over any number of lives and with both ways to commit, each program is handed
\* every message at least once, in order: none is skipped by a restart, a failed
\* write or an interrupt, and no offset is committed before all messages below
\* it were handed over.  That is all the group promises; what the program makes
\* of a message is the subject of the property before.
Group == INSTANCE AtLeastOnce WITH sent <- Len(topic), taken <- Met
GroupSpec == Group!Spec

\* A good message that is still in memory when a whole batch of messages has
\* come after it, because a write failed.
Overdue(i) ==
    /\ pc \in {"poll", "held", "add"}
    /\ InBatch(i)
    /\ i + BatchSize <= position
    /\ topic[i] = "record"

\* kafka_consumer_lancedb.py 261: "Continue processing despite error".  An
\* overdue message gets into the table with a later write while the program
\* runs, unless the batch holds a value that no record can be made from: such
\* a batch is kept, and no message that joins it is ever stored.  (The run has
\* one failing write; after a second one the batch waits for the next message.)
StoresUnlessPoisoned ==
    \A i \in Offsets : Overdue(i) ~> (rows[i] > 0 \/ pc = "down" \/ ~Preparable)
=============================================================================
