------------------------ MODULE DebeziumDisklessTest ------------------------
(***************************************************************************)
(* solutions/debezium-diskless/test.py: an end-to-end test of replication. *)
(* The main thread starts a consumer thread, waits two seconds, starts a   *)
(* producer thread that inserts rows into PostgreSQL, joins both, the      *)
(* consumer with a timeout, and compares the ids that were inserted with   *)
(* the ids that arrived in Kafka.  The two sets of ids are shared by the   *)
(* three threads without a lock.  Debezium, between the two databases,     *)
(* publishes every committed row, and again some of them after a restart.  *)
(*                                                                         *)
(* The rows of this run are 1..NumMessages.  In the topic, 0 stands for    *)
(* any message the consumer skips: a row of another run, a value it cannot *)
(* decode, an update or a delete.  Time is left out: a timeout may fire    *)
(* whenever what it waits for is not there.                                *)
(***************************************************************************)
EXTENDS Naturals, Sequences, FiniteSets

CONSTANTS
    NumMessages,   \* --num-messages
    BatchSize,     \* --batch-size
    TopicStates,   \* whether earlier runs made Debezium create the topic
    MaxForeign,    \* bounds: messages to skip, ...
    MaxRestarts,   \* ... restarts of the connector, ...
    MaxErrors      \* ... failures of the threads

ASSUME ConstantsAssumption ==
    /\ NumMessages \in Nat \ {0}
    /\ BatchSize \in Nat \ {0}
    /\ TopicStates \subseteq BOOLEAN
    /\ MaxForeign \in Nat
    /\ MaxRestarts \in Nat
    /\ MaxErrors \in Nat

VARIABLES
    main,       \* the main thread
    producer,   \* the producer thread
    consumer,   \* the consumer thread
    inserts,    \* rows the producer inserted, in its transaction or before it
    table,      \* rows that are committed
    sent,       \* rows that the connector published
    topic,      \* the topic's messages
    exists,     \* the topic exists
    position,   \* messages of the topic that are behind the consumer
    count,      \* message_count
    inserted,   \* inserted_ids, shared
    received,   \* received_ids, shared
    verdict,    \* what the consumer thread printed about the ids
    final,      \* what the main thread printed about the ids
    left,       \* how much of each bound is left
    happened    \* auxiliary: what went wrong

db     == <<inserts, table>>
kafka  == <<sent, topic, exists>>
reader == <<position, count, received, verdict>>
vars   == <<main, producer, consumer, db, kafka, reader, inserted, final, left, happened>>

Rows == 1..NumMessages

Init ==
    /\ main = "start"
    /\ producer = "new"
    /\ consumer = "new"
    /\ inserts = 0 /\ table = 0
    /\ sent = 0 /\ topic = <<>> /\ exists \in TopicStates
    /\ position = 0 /\ count = 0
    /\ inserted = {} /\ received = {}
    /\ verdict = "none" /\ final = "none"
    /\ left = [foreign |-> MaxForeign, restarts |-> MaxRestarts, errors |-> MaxErrors]
    /\ happened = {}

Spend(what) ==
    /\ left[what] > 0
    /\ left' = [left EXCEPT ![what] = @ - 1]

Happens(what) == happened' = happened \cup {what}

-----------------------------------------------------------------------------
(* The producer thread.                                                    *)

\* The table is created, and columns it lacks are added.
CreateTable ==
    /\ producer = "create"
    /\ producer' = "insert"
    /\ UNCHANGED <<main, consumer, db, kafka, reader, inserted, final, left, happened>>

\* One row; every BatchSize rows are committed.
Insert ==
    /\ producer = "insert"
    /\ inserts < NumMessages
    /\ inserts' = inserts + 1
    /\ table' = IF inserts' % BatchSize = 0 THEN inserts' ELSE table
    /\ UNCHANGED <<main, producer, consumer, kafka, reader, inserted, final, left, happened>>

\* The commit of the last rows.
FinalCommit ==
    /\ producer = "insert"
    /\ inserts = NumMessages
    /\ table' = inserts
    /\ producer' = "share"
    /\ UNCHANGED <<main, consumer, inserts, kafka, reader, inserted, final, left, happened>>

\* Only now do the other threads see what was inserted.
ShareIds ==
    /\ producer = "share"
    /\ inserted' = 1..inserts
    /\ producer' = "ended"
    /\ UNCHANGED <<main, consumer, db, kafka, reader, final, left, happened>>

\* An exception ends the thread; the open transaction is lost.
ProducerFails ==
    /\ producer \in {"create", "insert"}
    /\ Spend("errors")
    /\ producer' = "ended"
    /\ Happens("producer failed")
    /\ UNCHANGED <<main, consumer, db, kafka, reader, inserted, final>>

-----------------------------------------------------------------------------
(* Debezium and other users of the topic.                                  *)

\* The next committed row is published; the first message creates the topic.
Publish ==
    /\ sent < table
    /\ sent' = sent + 1
    /\ topic' = Append(topic, sent')
    /\ exists' = TRUE
    /\ UNCHANGED <<main, producer, consumer, db, reader, inserted, final, left, happened>>

\* The connector restarts from an offset it had stored earlier.
Restart ==
    /\ Spend("restarts")
    /\ \E s \in 0..sent - 1 : sent' = s
    /\ Happens("duplicates")
    /\ UNCHANGED <<main, producer, consumer, db, topic, exists, reader, inserted, final>>

\* Another run, or another change of the table.
PublishForeign ==
    /\ Spend("foreign")
    /\ topic' = Append(topic, 0)
    /\ exists' = TRUE
    /\ UNCHANGED <<main, producer, consumer, db, sent, reader, inserted, final, happened>>

-----------------------------------------------------------------------------
(* The consumer thread.                                                    *)

\* list_topics finds the topic.
TopicFound ==
    /\ consumer = "wait"
    /\ exists
    /\ consumer' = "join"
    /\ UNCHANGED <<main, producer, db, kafka, reader, inserted, final, left, happened>>

\* 180 seconds without the topic: TimeoutError, and no verdict.
TopicTimeout ==
    /\ consumer = "wait"
    /\ ~exists
    /\ consumer' = "ended"
    /\ Happens("timeout")
    /\ UNCHANGED <<main, producer, db, kafka, reader, inserted, final, left>>

\* The group gets its partition: auto.offset.reset is latest.
Assigned ==
    /\ consumer = "join"
    /\ consumer' = "poll"
    /\ position' = Len(topic)
    /\ happened' = happened \cup {x \in {"late"} : \E j \in DOMAIN topic : topic[j] \in Rows}
    /\ UNCHANGED <<main, producer, db, kafka, count, received, verdict, inserted, final, left>>

\* Only inserts of this run are counted.
CountAny(m) == TRUE  \* mutant

Counts(m) == m \in Rows

\* The count, not the set of ids, ends the loop.
OneTooFew(n) == n + 1 >= NumMessages  \* mutant

Enough(n) == n >= NumMessages

Receive ==
    /\ consumer = "poll"
    /\ position < Len(topic)
    /\ LET m == topic[position + 1]
       IN  /\ position' = position + 1
           /\ count' = IF Counts(m) THEN count + 1 ELSE count
           /\ received' = received \cup ({m} \cap Rows)
           /\ consumer' = IF Enough(count') THEN "verify" ELSE "poll"
    /\ UNCHANGED <<main, producer, db, kafka, verdict, inserted, final, left, happened>>

\* Two minutes without a message, or without a partition; any message, also
\* one that is skipped, starts the time again.
SilentAfterFirst == consumer = "poll" /\ position = Len(topic) /\ position > 0  \* mutant

Silent == consumer = "join" \/ (consumer = "poll" /\ position = Len(topic))

NoMessages ==
    /\ Silent
    /\ consumer' = "verify"
    /\ Happens("timeout")
    /\ UNCHANGED <<main, producer, db, kafka, reader, inserted, final, left>>

\* The client reports an error: the loop is left.
ConsumerError ==
    /\ consumer \in {"join", "poll"}
    /\ Spend("errors")
    /\ consumer' = "verify"
    /\ Happens("consumer failed")
    /\ UNCHANGED <<main, producer, db, kafka, reader, inserted, final>>

\* What is printed about the two sets.
Compare(expected) ==
    CASE expected \ received # {}      -> "missing"
      [] expected = received           -> "all received"
      [] OTHER                         -> "extra"

\* The consumer's own verification reads inserted_ids when it is done.
Verify ==
    /\ consumer = "verify"
    /\ verdict' = Compare(inserted)
    /\ consumer' = "ended"
    /\ UNCHANGED <<main, producer, db, kafka, position, count, received, inserted, final, left, happened>>

-----------------------------------------------------------------------------
(* The main thread.                                                        *)

StartConsumer ==
    /\ main = "start"
    /\ main' = "sleep"
    /\ consumer' = "wait"
    /\ UNCHANGED <<producer, db, kafka, reader, inserted, final, left, happened>>

\* Two seconds later, however far the consumer is.
StartProducer ==
    /\ main = "sleep"
    /\ main' = "join"
    /\ producer' = "create"
    /\ UNCHANGED <<consumer, db, kafka, reader, inserted, final, left, happened>>

\* Both threads have ended.
Joined ==
    /\ main = "join"
    /\ producer = "ended" /\ consumer = "ended"
    /\ main' = "final"
    /\ UNCHANGED <<producer, consumer, db, kafka, reader, inserted, final, left, happened>>

\* consumer.join gives up after 120 seconds; the thread goes on.
JoinTimeout ==
    /\ main = "join"
    /\ producer = "ended" /\ consumer # "ended"
    /\ main' = "final"
    /\ Happens("timeout")
    /\ UNCHANGED <<producer, consumer, db, kafka, reader, inserted, final, left>>

\* Nothing is compared if one of the sets is empty.
CompareAlways == TRUE  \* mutant

Comparable == inserted # {} /\ received # {}

FinalVerification ==
    /\ main = "final"
    /\ final' = IF Comparable THEN Compare(inserted) ELSE "nothing"
    /\ main' = "ended"
    /\ UNCHANGED <<producer, consumer, db, kafka, reader, inserted, left, happened>>

\* "Test interrupted by user": main leaves without a verdict; the other
\* threads are no daemons and go on.
Interrupt ==
    /\ main \in {"sleep", "join"}
    /\ Spend("errors")
    /\ main' = "ended"
    /\ producer' = IF producer = "new" THEN "ended" ELSE producer
    /\ Happens("interrupt")
    /\ UNCHANGED <<consumer, db, kafka, reader, inserted, final>>

ProducerStep == CreateTable \/ Insert \/ FinalCommit \/ ShareIds
ConsumerStep == TopicFound \/ TopicTimeout \/ Assigned \/ Receive \/ NoMessages \/ Verify
MainStep     == StartConsumer \/ StartProducer \/ Joined \/ JoinTimeout \/ FinalVerification

Next ==
    \/ ProducerStep
    \/ ProducerFails
    \/ Publish
    \/ Restart
    \/ PublishForeign
    \/ ConsumerStep
    \/ ConsumerError
    \/ MainStep
    \/ Interrupt

Spec == Init /\ [][Next]_vars

\* Every thread runs and every timeout fires if it has to.
FairSpec == Spec /\ WF_vars(ProducerStep) /\ WF_vars(ConsumerStep) /\ WF_vars(MainStep)

-----------------------------------------------------------------------------
(* Properties.                                                             *)

Published == {topic[j] : j \in DOMAIN topic} \cap Rows

\* "All messages from this run were successfully received!" (line 567) is
\* printed only if every row of the run was inserted and came through Kafka,
\* whatever the threads were doing when main looked at their sets.
FinalSuccessIsReal == final = "all received" => received = Rows /\ Published = Rows

\* When nothing failed, no timeout fired, nothing was published twice and the
\* consumer had its partition before the first row came, the test passes:
\* main prints the success of line 567.
NoSpuriousFailure ==
    main = "ended" /\ happened = {} => final = "all received"

\* Missing ids (lines 409 and 569) are never reported because a thread looked
\* at the shared sets too early: the producer's is complete by then, and
\* something went wrong elsewhere.
MissingIsMissing ==
    "missing" \in {verdict, final} =>
        happened # {} /\ inserted = Rows

\* The process ends: main does, and the consumer, which is not a daemon
\* thread, through one of its timeouts if the messages do not come.
ProcessEnds == <>(main = "ended" /\ producer = "ended" /\ consumer = "ended")
=============================================================================
