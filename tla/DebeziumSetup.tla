---------------------------- MODULE DebeziumSetup ----------------------------
(***************************************************************************)
(* kafka/python/connector/debezium_pg.py: creates a PostgreSQL and a Kafka *)
(* service unless they exist, waits for them, creates a topic, a Debezium  *)
(* connector and a table, stores sensor data in the table, and prints what *)
(* arrives in the topic until it is interrupted.  The user starts it again *)
(* whenever it ends, so it has to find its way through what earlier runs   *)
(* left behind.                                                            *)
(*                                                                         *)
(* A row is the number of its insert.  A request may fail, before or after *)
(* it took effect, and a service may leave the state RUNNING.              *)
(***************************************************************************)
EXTENDS Naturals

CONSTANTS
    FirstStates,   \* the states the services may have before the first run
    MaxRows,       \* bounds: rows stored by all runs, ...
    MaxFailures,   \* ... requests that fail, services that go down, kills
    MaxInterrupts  \* ... and interrupts by the user

ASSUME ConstantsAssumption ==
    /\ FirstStates \subseteq {"none", "REBUILDING", "RUNNING", "POWEROFF"}
    /\ MaxRows \in Nat
    /\ MaxFailures \in Nat
    /\ MaxInterrupts \in Nat

VARIABLES
    pc,         \* the method of run() that comes next, or "down"
    pg,         \* the state of the PostgreSQL service
    kafka,      \* the state of the Kafka service
    connect,    \* Kafka Connect: "off", "starting" or "ready"
    topic,      \* the topic exists
    connector,  \* the connector exists
    table,      \* the table exists
    listed,     \* the topic is in self.kafka["topics"]
    rows,       \* rows committed in the table
    sent,       \* rows that Debezium published
    position,   \* messages the consumer handed over
    committed,  \* the group's committed offset
    printed,    \* rows that were printed
    dropped,    \* auxiliary: rows an interrupt found handed over and unprinted
    left        \* how much of each bound is left

services == <<pg, kafka, connect>>
objects  == <<topic, connector, table>>
data     == <<rows, sent>>
group    == <<position, committed, printed, dropped>>
vars     == <<pc, services, objects, listed, data, group, left>>

\* The loop of read_from_kafka: at its head, with a row in hand, after Ctrl+C.
Reading == {"read", "held", "closing"}

Steps ==
    {"pg", "kafka", "wait", "again", "topic", "connector", "table", "store", "certs"} \cup Reading

Init ==
    /\ pc = "down"
    /\ pg \in FirstStates
    /\ kafka \in FirstStates
    /\ connect = "off"
    /\ topic = FALSE /\ connector = FALSE /\ table = FALSE /\ listed = FALSE
    /\ rows = 0 /\ sent = 0
    /\ position = 0 /\ committed = 0 /\ printed = {} /\ dropped = {}
    /\ left = [failures |-> MaxFailures, interrupts |-> MaxInterrupts]

Spend(what) ==
    /\ left[what] > 0
    /\ left' = [left EXCEPT ![what] = @ - 1]

\* The request has taken effect; its answer arrives, or an error does, which
\* no caller of run() handles.
Then(next) ==
    \/ pc' = next /\ UNCHANGED left
    \/ pc' = "down" /\ Spend("failures")

\* What the handlers of "not yet available" come to: get_error_message calls
\* json.loads on the exception itself, which raises TypeError and ends the run
\* where the decorator was to try again.
GoOn == "table"  \* mutant: the connector is given up after the timeout

AfterError == "down"

-----------------------------------------------------------------------------
(* The script.                                                             *)

\* run(): the login comes first.
Start ==
    /\ pc = "down"
    /\ pc' = "pg"
    /\ UNCHANGED <<services, objects, listed, data, group, left>>

\* A request fails without effect, or the process is killed.
Raises ==
    /\ pc \in Steps
    /\ Spend("failures")
    /\ pc' = "down"
    /\ UNCHANGED <<services, objects, listed, data, group>>

\* create_services: get_service finds the service or create_service makes one.
CreatePg ==
    /\ pc = "pg"
    /\ pg' = IF pg = "none" THEN "REBUILDING" ELSE pg
    /\ Then("kafka")
    /\ UNCHANGED <<kafka, connect, objects, listed, data, group>>

\* A Kafka service that is there is made to run Kafka Connect.
CreateKafka ==
    /\ pc = "kafka"
    /\ kafka' = IF kafka = "none" THEN "REBUILDING" ELSE kafka
    /\ connect' = IF connect = "off" THEN "starting" ELSE connect
    /\ Then("wait")
    /\ UNCHANGED <<pg, objects, listed, data, group>>

\* self.kafka is what the service looked like at the last poll.
NoTopics == FALSE  \* mutant: the topics as of create_services

Topics == topic

\* wait_for_running polls at least once, ...
WaitForRunning ==
    /\ pc \in {"wait", "again"}
    /\ listed' = Topics
    /\ Then(IF pg = "RUNNING" /\ kafka = "RUNNING" THEN "topic" ELSE "again")
    /\ UNCHANGED <<services, objects, data, group>>

\* ... and after 300 seconds the run goes on as if the services were running.
WaitLonger == FALSE /\ UNCHANGED vars  \* mutant: no timeout

WaitTimesOut ==
    /\ pc = "again"
    /\ pc' = "topic"
    /\ UNCHANGED <<services, objects, listed, data, group, left>>

\* create_topic, unless it is in the list; Aiven refuses to create a topic
\* twice or in a service that is not running.
CreateTopic ==
    /\ pc = "topic"
    /\ \/ listed /\ pc' = "connector" /\ UNCHANGED <<topic, left>>
       \/ ~listed /\ kafka = "RUNNING" /\ ~topic /\ topic' = TRUE /\ Then("connector")
       \/ ~listed /\ ~(kafka = "RUNNING" /\ ~topic) /\ pc' = "down" /\ UNCHANGED <<topic, left>>
    /\ UNCHANGED <<services, connector, table, listed, data, group>>

\* create_conector: the connector is found in the list or created.
CreateConnector ==
    /\ pc = "connector"
    /\ connect = "ready"
    /\ connector' = TRUE
    /\ Then("table")
    /\ UNCHANGED <<services, topic, table, listed, data, group>>

ConnectNotReady ==
    /\ pc = "connector"
    /\ connect # "ready"
    /\ pc' = AfterError
    /\ UNCHANGED <<services, objects, listed, data, group, left>>

\* create_table: CREATE TABLE IF NOT EXISTS.
CreateTable ==
    /\ pc = "table"
    /\ pg = "RUNNING"
    /\ table' = TRUE
    /\ Then("store")
    /\ UNCHANGED <<services, topic, connector, listed, data, group>>

\* psycopg2.connect raises in create_table or in store_sensor_data.
PgNotReady ==
    /\ pc \in {"table", "store"}
    /\ pg # "RUNNING"
    /\ pc' = AfterError
    /\ UNCHANGED <<services, objects, listed, data, group, left>>

\* store_sensor_data: the rows of one run are committed together.  A machine
\* may have no sensor whose label starts with C.
StoreSensorData ==
    /\ pc = "store"
    /\ pg = "RUNNING"
    /\ rows' \in rows..MaxRows
    /\ Then("certs")
    /\ UNCHANGED <<services, objects, listed, sent, group>>

\* The consumer of the group starts at the committed offset or at the earliest.
StartAtLatest == IF committed = 0 THEN sent ELSE committed  \* mutant

StartOffset == committed

\* create_cert_files writes the three files, and the consumer is created.
CreateCertFiles ==
    /\ pc = "certs"
    /\ position' = StartOffset
    /\ Then("read")
    /\ UNCHANGED <<services, objects, listed, data, committed, printed, dropped>>

\* The consumer moves its position before it yields the message to the loop.
HandOver ==
    /\ pc = "read"
    /\ kafka = "RUNNING"
    /\ position < sent
    /\ position' = position + 1
    /\ pc' = "held"
    /\ UNCHANGED <<services, objects, listed, data, committed, printed, dropped, left>>

\* The row is decoded and printed.
PrintRow ==
    /\ pc = "held"
    /\ printed' = printed \cup {position}
    /\ pc' = "read"
    /\ UNCHANGED <<services, objects, listed, data, position, committed, dropped, left>>

\* enable_auto_commit, which kafka-python has on: commits when the loop polls.
AutoCommit ==
    /\ pc = "read"
    /\ committed # position
    /\ committed' = position
    /\ UNCHANGED <<pc, services, objects, listed, data, position, printed, dropped, left>>

\* KeyboardInterrupt, perhaps with a row in hand that is not printed.
Interrupt ==
    /\ pc \in {"read", "held"}
    /\ Spend("interrupts")
    /\ dropped' = IF pc = "held" THEN dropped \cup {position} ELSE dropped
    /\ pc' = "closing"
    /\ UNCHANGED <<services, objects, listed, data, position, committed, printed>>

\* Its handler: commit, which waits for the service, and close.
CommitFetched == sent  \* mutant: the offset after the messages that were fetched

InterruptOffset == position

Close ==
    /\ pc = "closing"
    /\ kafka = "RUNNING"
    /\ committed' = InterruptOffset
    /\ pc' = "down"
    /\ UNCHANGED <<services, objects, listed, data, position, printed, dropped, left>>

-----------------------------------------------------------------------------
(* Aiven and Debezium.                                                     *)

ServicesProgress ==
    /\ \/ pg = "REBUILDING" /\ pg' = "RUNNING" /\ UNCHANGED <<kafka, connect>>
       \/ kafka = "REBUILDING" /\ kafka' = "RUNNING" /\ UNCHANGED <<pg, connect>>
       \/ kafka = "RUNNING" /\ connect = "starting" /\ connect' = "ready" /\ UNCHANGED <<pg, kafka>>
    /\ UNCHANGED <<pc, objects, listed, data, group, left>>

\* A node fails, or maintenance begins.
Maintenance ==
    /\ Spend("failures")
    /\ \/ pg = "RUNNING" /\ pg' = "REBUILDING" /\ UNCHANGED <<kafka, connect>>
       \/ /\ kafka = "RUNNING" /\ kafka' = "REBUILDING" /\ UNCHANGED pg
          /\ connect' = IF connect = "ready" THEN "starting" ELSE connect
    /\ UNCHANGED <<pc, objects, listed, data, group>>

Publish ==
    /\ connector /\ kafka = "RUNNING" /\ pg = "RUNNING" /\ connect = "ready"
    /\ sent < rows
    /\ sent' = sent + 1
    /\ UNCHANGED <<pc, services, objects, listed, rows, group, left>>

Script ==
    \/ Start \/ CreatePg \/ CreateKafka \/ WaitTimesOut \/ CreateTopic
    \/ CreateConnector \/ ConnectNotReady \/ CreateTable \/ PgNotReady
    \/ StoreSensorData \/ CreateCertFiles \/ HandOver \/ PrintRow \/ Close

Next ==
    \/ Script \/ Raises \/ WaitForRunning \/ AutoCommit \/ Interrupt
    \/ ServicesProgress \/ Maintenance \/ Publish

Spec == Init /\ [][Next]_vars

\* The script goes on, its user starts it again when it ended, and the services
\* do their work.  Polls and timeouts of wait_for_running come in any order,
\* but the first poll is made.
FairSpec ==
    /\ Spec
    /\ WF_vars(Script)
    /\ WF_vars(WaitForRunning)
    /\ WF_vars(ServicesProgress)
    /\ WF_vars(Publish)

-----------------------------------------------------------------------------
(* Properties.                                                             *)

\* Every variable has its type, and offsets are in order.
TypeOK ==
    /\ pc \in Steps \cup {"down"}
    /\ {pg, kafka} \subseteq {"none", "REBUILDING", "RUNNING", "POWEROFF"}
    /\ connect \in {"off", "starting", "ready"}
    /\ {topic, connector, table, listed} \subseteq BOOLEAN
    /\ rows \in 0..MaxRows /\ sent \in 0..rows
    /\ position \in 0..sent /\ committed \in 0..position
    /\ printed \subseteq 1..sent /\ dropped \subseteq 1..sent
    /\ left \in [{"failures", "interrupts"} -> Nat]

\* Rows are stored only when the table is connected to the topic, so that none
\* is missed, although the timeouts of the decorator (line 28) are not looked at
\* by any of the steps that follow them.
RowsAreCaptured == rows > 0 => topic /\ connector /\ table

\* What earlier runs left behind, also half of it after a lost answer, does not
\* stop a run: it ends before it reads only because a request failed or a
\* service it uses was not available at that moment.  The list of topics in
\* self.kafka (line 90) must not be older than the last poll for this.
LeftoversDoNotStopARun ==
    [][pc \notin Reading \cup {"down"} /\ pc' = "down" /\ left' = left =>
         (pg # "RUNNING" \/ kafka # "RUNNING" \/ connect # "ready")]_vars

\* The consumer with its automatic and its final commit (lines 168-186) is an
\* at-least-once consumer of the topic over any number of runs, with one
\* exception: Ctrl+C between the hand-over (line 181) and the print (line 183)
\* makes the handler commit (line 185) the row in hand.  No other row is
\* committed unprinted, and one interrupt drops one row at most.
Feed == INSTANCE AtLeastOnce WITH taken <- printed \cup dropped
FeedSpec == Feed!Spec

\* Every row that a run stored is printed, by that run or a later one, unless
\* the handler of an interrupt (line 185) committed it while it was in hand.  A
\* row in hand whose commit fails, or whose run is killed, comes again.
EveryRowIsPrinted ==
    \A i \in 1..MaxRows :
        (rows >= i) ~> (i \in printed \/ (i \in dropped /\ i <= committed))

\* Every run ends or gets to reading, also if a service never runs: the loop
\* of wait_for_running does end (line 24).
RunGetsThrough == (pc = "pg") ~> (pc \in {"down", "read"})
=============================================================================
