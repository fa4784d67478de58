------------------------- MODULE DebeziumSetupProofs -------------------------
(***************************************************************************)
(* For any number of rows, failures and interrupts: the runs of            *)
(* debezium_pg.py store rows only in a table that is captured, are not     *)
(* stopped by what earlier runs left behind, and their consumer implements *)
(* AtLeastOnce.                                                            *)
(***************************************************************************)
EXTENDS DebeziumSetup, TLAPS

\* The states of the script and of the services.
ControlOK ==
    /\ pc \in Steps \cup {"down"}
    /\ pg \in {"none", "REBUILDING", "RUNNING", "POWEROFF"}
    /\ kafka \in {"none", "REBUILDING", "RUNNING", "POWEROFF"}
    /\ connect \in {"off", "starting", "ready"}
    /\ left \in [{"failures", "interrupts"} -> Nat]

\* A step is reached only when what the steps before it make is there: the list
\* of topics names the topic only if there is one, and nothing is taken away.
MadeInOrder ==
    /\ topic \in BOOLEAN /\ connector \in BOOLEAN /\ table \in BOOLEAN /\ listed \in BOOLEAN
    /\ listed => topic
    /\ pc \in {"connector", "table", "store", "certs"} \cup Reading => topic
    /\ pc \in {"table", "store", "certs"} \cup Reading => connector
    /\ pc \in {"store", "certs"} \cup Reading => table
    /\ RowsAreCaptured

\* Everything below the committed offset was printed, or dropped by an
\* interrupt, in this run or an earlier one, and while a run reads so was
\* everything below its position but the row in hand.
OffsetsInOrder ==
    /\ rows \in 0..MaxRows /\ sent \in 0..rows
    /\ position \in 0..sent /\ committed \in 0..position
    /\ 1..committed \subseteq printed \cup dropped
    /\ pc \in {"read", "closing"} => 1..position \subseteq printed \cup dropped
    /\ pc = "held" => position > 0 /\ 1..position - 1 \subseteq printed \cup dropped
    /\ printed \subseteq 1..sent /\ dropped \subseteq 1..sent

IInv == ControlOK /\ MadeInOrder /\ OffsetsInOrder

\* The first run finds services at most.
LEMMA InitIInv == Init => IInv
<1> SUFFICES ASSUME Init PROVE IInv
  OBVIOUS
<1>1. ControlOK
  BY ConstantsAssumption DEF Init, ControlOK, Steps, Reading
<1>2. MadeInOrder
  <2>1. ~(rows > 0)
    BY DEF Init
  <2> QED BY <2>1, Zenon DEF Init, MadeInOrder, RowsAreCaptured, Reading
<1>3. OffsetsInOrder
  BY ConstantsAssumption DEF Init, OffsetsInOrder
<1> QED BY <1>1, <1>2, <1>3 DEF IInv

\* Spending leaves a record of what is left.
LEMMA SpendType ==
    ASSUME left \in [{"failures", "interrupts"} -> Nat],
           NEW what \in {"failures", "interrupts"}, Spend(what)
    PROVE  left' \in [{"failures", "interrupts"} -> Nat]
BY DEF Spend

\* An answer leads to the next step, and none to the end of the run.
LEMMA ThenType ==
    ASSUME left \in [{"failures", "interrupts"} -> Nat],
           NEW next \in Steps, Then(next)
    PROVE  /\ left' \in [{"failures", "interrupts"} -> Nat]
           /\ pc' \in {next, "down"}
BY SpendType DEF Then

\* Every step keeps script and services in their states.
LEMMA ControlStep ==
    ASSUME ControlOK, [Next]_vars
    PROVE  ControlOK'
<1> USE DEF ControlOK, Steps, Reading
<1>1. CASE Start \/ ConnectNotReady \/ PgNotReady \/ WaitTimesOut \/ HandOver \/ PrintRow
           \/ AutoCommit \/ Close
  BY <1>1 DEF Start, ConnectNotReady, PgNotReady, WaitTimesOut, HandOver, PrintRow, AutoCommit,
              Close, AfterError, services
<1>2. CASE Raises
  BY <1>2, SpendType DEF Raises, services
<1>3. CASE CreatePg
  BY <1>3, ThenType DEF CreatePg, Steps
<1>4. CASE CreateKafka
  BY <1>4, ThenType DEF CreateKafka, Steps
<1>5. CASE WaitForRunning
  <2>1. PICK next \in {"topic", "again"} : Then(next)
    BY <1>5 DEF WaitForRunning
  <2> QED BY <1>5, <2>1, ThenType DEF WaitForRunning, Steps, services
<1>6. CASE CreateTopic
  BY <1>6, ThenType DEF CreateTopic, Steps, services
<1>7. CASE CreateConnector
  BY <1>7, ThenType DEF CreateConnector, Steps, services
<1>8. CASE CreateTable
  BY <1>8, ThenType DEF CreateTable, Steps, services
<1>9. CASE StoreSensorData
  BY <1>9, ThenType DEF StoreSensorData, Steps, services
<1>10. CASE CreateCertFiles
  BY <1>10, ThenType DEF CreateCertFiles, Steps, services
<1>11. CASE Interrupt
  BY <1>11, SpendType DEF Interrupt, services
<1>12. CASE ServicesProgress
  BY <1>12 DEF ServicesProgress
<1>13. CASE Maintenance
  BY <1>13, SpendType DEF Maintenance
<1>14. CASE Publish
  BY <1>14 DEF Publish, services
<1>15. CASE UNCHANGED vars
  BY <1>15 DEF vars, services
<1> QED BY <1>1, <1>2, <1>3, <1>4, <1>5, <1>6, <1>7, <1>8, <1>9, <1>10, <1>11, <1>12, <1>13,
           <1>14, <1>15 DEF Next, Script

\* Every step keeps the order in which topic, connector, table and rows are made.
LEMMA MadeStep ==
    ASSUME ControlOK, MadeInOrder, OffsetsInOrder, [Next]_vars
    PROVE  MadeInOrder'
<1>0. left \in [{"failures", "interrupts"} -> Nat] /\ rows \in Nat
  BY ConstantsAssumption DEF ControlOK, OffsetsInOrder
<1> USE DEF MadeInOrder, RowsAreCaptured, Reading
<1>1. CASE Start \/ Raises \/ ConnectNotReady \/ PgNotReady \/ Interrupt \/ Close
  BY <1>1 DEF Start, Raises, ConnectNotReady, PgNotReady, Interrupt, Close, AfterError, objects,
              data
<1>2. CASE HandOver \/ PrintRow \/ AutoCommit \/ ServicesProgress \/ Maintenance \/ Publish
  BY <1>2 DEF HandOver, PrintRow, AutoCommit, ServicesProgress, Maintenance, Publish, objects, data
<1>3. CASE CreatePg
  BY <1>0, <1>3, ThenType DEF CreatePg, Steps, objects, data
<1>4. CASE CreateKafka
  BY <1>0, <1>4, ThenType DEF CreateKafka, Steps, objects, data
<1>5. CASE WaitForRunning
  <2>1. PICK next \in {"topic", "again"} : Then(next)
    BY <1>5 DEF WaitForRunning
  <2> QED BY <1>0, <1>5, <2>1, ThenType DEF WaitForRunning, Topics, Steps, objects, data
<1>6. CASE WaitTimesOut
  BY <1>6 DEF WaitTimesOut, objects, data
<1>7. CASE CreateTopic
  <2>1. /\ pc' \in {"connector", "down"} /\ (pc' = "connector" => topic')
        /\ topic' \in BOOLEAN /\ (topic => topic')
        /\ UNCHANGED <<connector, table, listed, rows>>
    BY <1>0, <1>7, ThenType DEF CreateTopic, Steps, data
  <2> QED BY <2>1
<1>8. CASE CreateConnector
  BY <1>0, <1>8, ThenType DEF CreateConnector, Steps, data
<1>9. CASE CreateTable
  BY <1>0, <1>9, ThenType DEF CreateTable, Steps, data
<1>10. CASE StoreSensorData
  BY <1>0, <1>10, ThenType DEF StoreSensorData, Steps, objects
<1>11. CASE CreateCertFiles
  BY <1>0, <1>11, ThenType DEF CreateCertFiles, Steps, objects, data
<1>12. CASE UNCHANGED vars
  BY <1>12 DEF vars, objects, data
<1> QED BY <1>1, <1>2, <1>3, <1>4, <1>5, <1>6, <1>7, <1>8, <1>9, <1>10, <1>11, <1>12
        DEF Next, Script

\* Every step keeps rows, messages and offsets in order.
LEMMA OffsetsStep ==
    ASSUME ControlOK, OffsetsInOrder, [Next]_vars
    PROVE  OffsetsInOrder'
<1>0. /\ MaxRows \in Nat /\ rows \in Nat /\ sent \in Nat /\ position \in Nat /\ committed \in Nat
      /\ left \in [{"failures", "interrupts"} -> Nat]
  BY ConstantsAssumption DEF ControlOK, OffsetsInOrder
<1>1. CASE UNCHANGED <<data, group>> /\ (pc' \in Reading => pc' = pc)
  BY <1>1 DEF OffsetsInOrder, data, group, Reading
<1>2. CASE StoreSensorData
  <2>1. rows' \in 0..MaxRows /\ rows <= rows' /\ sent' = sent /\ UNCHANGED group
    BY <1>0, <1>2 DEF StoreSensorData
  <2>2. pc' \notin Reading
    BY <1>0, <1>2, ThenType DEF StoreSensorData, Steps, Reading
  <2> QED BY <1>0, <2>1, <2>2 DEF OffsetsInOrder, group, Reading
<1>3. CASE CreateCertFiles
  <2>1. position' = committed /\ UNCHANGED <<rows, sent, committed, printed, dropped>>
    BY <1>3 DEF CreateCertFiles, StartOffset, data
  <2>2. pc' # "held"
    BY <1>0, <1>3, ThenType DEF CreateCertFiles, Steps, Reading
  <2> QED BY <1>0, <2>1, <2>2 DEF OffsetsInOrder
<1>4. CASE HandOver
  <2>1. /\ position' = position + 1 /\ position < sent /\ pc = "read" /\ pc' = "held"
        /\ UNCHANGED <<rows, sent, committed, printed, dropped>>
    BY <1>4 DEF HandOver, data
  <2> QED BY <1>0, <2>1 DEF OffsetsInOrder
<1>5. CASE PrintRow
  <2>1. /\ printed' = printed \cup {position} /\ pc = "held" /\ pc' = "read"
        /\ UNCHANGED <<rows, sent, position, committed, dropped>>
    BY <1>5 DEF PrintRow, data
  <2> QED BY <1>0, <2>1 DEF OffsetsInOrder
<1>6. CASE Interrupt
  <2>1. /\ dropped' = (IF pc = "held" THEN dropped \cup {position} ELSE dropped)
        /\ pc \in {"read", "held"} /\ pc' = "closing"
        /\ UNCHANGED <<rows, sent, position, committed, printed>>
    BY <1>6 DEF Interrupt, data
  <2> QED BY <1>0, <2>1 DEF OffsetsInOrder
<1>7. CASE AutoCommit \/ Close
  <2>1. /\ committed' = position /\ pc \in {"read", "closing"} /\ pc' \in {"read", "down"}
        /\ UNCHANGED <<rows, sent, position, printed, dropped>>
    BY <1>7 DEF AutoCommit, Close, InterruptOffset, data
  <2> QED BY <1>0, <2>1 DEF OffsetsInOrder
<1>8. CASE Publish
  <2>1. /\ sent' = sent + 1 /\ sent < rows
        /\ UNCHANGED <<pc, rows, position, committed, printed, dropped>>
    BY <1>8 DEF Publish, group
  <2> QED BY <1>0, <2>1 DEF OffsetsInOrder
<1>9. CASE CreatePg \/ CreateKafka \/ WaitForRunning \/ CreateConnector \/ CreateTable
  <2>1. PICK next \in {"kafka", "wait", "topic", "again", "table", "store"} : Then(next)
    BY <1>9 DEF CreatePg, CreateKafka, WaitForRunning, CreateConnector, CreateTable
  <2>2. pc' \notin Reading
    BY <1>0, <2>1, ThenType DEF Steps, Reading
  <2> QED BY <1>1, <1>9, <2>2
          DEF CreatePg, CreateKafka, WaitForRunning, CreateConnector, CreateTable
<1>10. CASE CreateTopic
  <2>1. pc' \in {"connector", "down"}
    BY <1>0, <1>10, ThenType DEF CreateTopic, Steps
  <2> QED BY <1>1, <1>10, <2>1 DEF CreateTopic, Reading
<1>11. CASE Start \/ Raises \/ WaitTimesOut \/ ConnectNotReady \/ PgNotReady
            \/ ServicesProgress \/ Maintenance \/ UNCHANGED vars
  BY <1>1, <1>11 DEF Start, Raises, WaitTimesOut, ConnectNotReady, PgNotReady, ServicesProgress,
                     Maintenance, vars, AfterError, Reading
<1> QED BY <1>2, <1>3, <1>4, <1>5, <1>6, <1>7, <1>8, <1>9, <1>10, <1>11 DEF Next, Script

\* The three parts together are inductive.
LEMMA Invariance == Spec => []IInv
<1>1. ASSUME IInv, [Next]_vars PROVE IInv'
  BY <1>1, ControlStep, MadeStep, OffsetsStep DEF IInv
<1> QED BY InitIInv, <1>1, PTL DEF Spec

\* All variables of debezium_pg.py, of the services and of the group keep their
\* types, and the offsets their order, whatever fails.
THEOREM TypeCorrect == Spec => []TypeOK
<1>1. IInv => TypeOK
  <2> SUFFICES ASSUME IInv PROVE TypeOK
    OBVIOUS
  <2> QED BY DEF IInv, ControlOK, MadeInOrder, OffsetsInOrder, TypeOK
<1> QED BY Invariance, <1>1, PTL

\* store_sensor_data (line 155) runs only behind the connector, the topic and
\* the table, although nobody looks at what the timeout decorator gave up.
THEOREM RowsCaptured == Spec => []RowsAreCaptured
<1>1. IInv => RowsAreCaptured
  BY DEF IInv, MadeInOrder
<1> QED BY Invariance, <1>1, PTL

\* read_from_kafka (lines 168-186), over all runs, implements the at-least-once
\* consumer: nothing is committed that was neither printed nor in hand when an
\* interrupt came.
THEOREM ImplementsAtLeastOnce == Spec => FeedSpec
<1>1. Init => Feed!Init
  BY DEF Init, Feed!Init
<1>2. ASSUME IInv, [Next]_vars
      PROVE  [Feed!Next]_<<sent, printed \cup dropped, committed>>
  <2>0. /\ rows \in Nat /\ sent \in Nat /\ position \in Nat /\ committed \in Nat
        /\ position <= sent /\ committed <= position
    BY <1>2, ConstantsAssumption DEF IInv, OffsetsInOrder
  <2>1. CASE UNCHANGED <<sent, printed, dropped, committed>>
    BY <2>1
  <2>2. CASE pc = "held" /\ (PrintRow \/ Interrupt)
    <3>1. /\ (printed \cup dropped)' = (printed \cup dropped) \cup {position}
          /\ UNCHANGED <<sent, committed>>
      BY <2>2 DEF PrintRow, Interrupt, data
    <3>2. position \in 1..sent /\ 1..position - 1 \subseteq printed \cup dropped
      BY <1>2, <2>0, <2>2 DEF IInv, OffsetsInOrder
    <3> QED BY <3>1, <3>2 DEF Feed!Next, Feed!Take
  <2>3. CASE AutoCommit \/ Close
    <3>1. /\ committed' = position /\ pc \in {"read", "closing"}
          /\ UNCHANGED <<sent, printed, dropped>>
      BY <2>3 DEF AutoCommit, Close, InterruptOffset, data
    <3>2. 1..position \subseteq printed \cup dropped
      BY <1>2, <3>1 DEF IInv, OffsetsInOrder
    <3> QED BY <2>0, <3>1, <3>2 DEF Feed!Next, Feed!Commit
  <2>4. CASE Publish
    BY <2>4 DEF Publish, group, Feed!Next, Feed!Send
  <2>5. CASE Interrupt /\ pc # "held"
    BY <2>1, <2>5 DEF Interrupt, data
  <2>6. PrintRow => pc = "held"
    BY DEF PrintRow
  <2>7. \/ PrintRow \/ Interrupt \/ AutoCommit \/ Close \/ Publish
        \/ UNCHANGED <<sent, printed, dropped, committed>>
    BY <1>2 DEF Next, Script, vars, Start, Raises, CreatePg, CreateKafka, WaitForRunning,
                WaitTimesOut, CreateTopic, CreateConnector, ConnectNotReady, CreateTable,
                PgNotReady, StoreSensorData, CreateCertFiles, HandOver, ServicesProgress,
                Maintenance, data, group
  <2> QED BY <2>1, <2>2, <2>3, <2>4, <2>5, <2>6, <2>7
<1> QED BY Invariance, <1>1, <1>2, PTL DEF Spec, FeedSpec, Feed!Spec

-----------------------------------------------------------------------------
(* What earlier runs left behind.                                          *)

\* From the last poll of wait_for_running until create_topic looks at it, the
\* list of topics (line 90) is true: only this script creates the topic.
ListIsFresh == pc \in {"again", "topic"} => listed = topic

\* The poll makes the list, and no step between changes it or the topic.
LEMMA ListStep ==
    ASSUME IInv, ListIsFresh, [Next]_vars
    PROVE  ListIsFresh'
<1>0. left \in [{"failures", "interrupts"} -> Nat]
  BY DEF IInv, ControlOK
<1>1. CASE WaitForRunning
  BY <1>1 DEF WaitForRunning, Topics, objects, ListIsFresh
<1>2. CASE CreateTopic \/ CreateConnector \/ CreateTable
  <2>1. pc' \in {"connector", "table", "store", "down"}
    BY <1>0, <1>2, ThenType DEF CreateTopic, CreateConnector, CreateTable, Steps
  <2> QED BY <2>1 DEF ListIsFresh
<1>3. CASE UNCHANGED <<objects, listed>> /\ (pc' \in {"again", "topic"} => pc \in {"again", "topic"})
  BY <1>3 DEF ListIsFresh, objects
<1>4. CASE CreatePg \/ CreateKafka \/ StoreSensorData \/ CreateCertFiles
  <2>1. pc' \in {"kafka", "wait", "certs", "read", "down"}
    BY <1>0, <1>4, ThenType DEF CreatePg, CreateKafka, StoreSensorData, CreateCertFiles, Steps,
                               Reading
  <2> QED BY <2>1 DEF ListIsFresh
<1> QED
  BY <1>1, <1>2, <1>3, <1>4
     DEF Next, Script, vars, Start, Raises, WaitTimesOut, ConnectNotReady, PgNotReady,
         HandOver, PrintRow, AutoCommit, Interrupt, Close, ServicesProgress, Maintenance, Publish,
         AfterError

\* A run that the script leaves before it reads, without a failed request, is
\* one that found a service not available (lines 86-143): the topic, the
\* connector and the table of earlier runs, or half of them, do not stop it.
THEOREM LeftoversAreHarmless == Spec => LeftoversDoNotStopARun
<1> DEFINE Down == pg # "RUNNING" \/ kafka # "RUNNING" \/ connect # "ready"
<1>1. Init => ListIsFresh
  BY DEF Init, ListIsFresh
<1>2. ASSUME IInv, ListIsFresh, Next, pc \notin Reading \cup {"down"}, pc' = "down",
             left' = left
      PROVE  Down
  <2>1. ASSUME NEW what \in {"failures", "interrupts"}, Spend(what)
        PROVE  FALSE
    <3>1. left[what] \in Nat /\ left'[what] = left[what] - 1 /\ left[what] > 0
      BY <1>2, <2>1 DEF Spend, IInv, ControlOK
    <3> QED BY <1>2, <3>1
  <2>2. ASSUME NEW next \in Steps, Then(next)
        PROVE  FALSE
    BY <1>2, <2>1, <2>2 DEF Then, Steps, Reading
  <2>3. ~WaitForRunning
    BY <2>2 DEF WaitForRunning, Steps
  <2>4. ~(CreatePg \/ CreateKafka \/ CreateConnector \/ CreateTable \/ StoreSensorData
          \/ CreateCertFiles)
    BY <2>2 DEF CreatePg, CreateKafka, CreateConnector, CreateTable, StoreSensorData,
                CreateCertFiles, Steps, Reading
  <2>5. ~(Raises \/ Interrupt \/ Maintenance)
    BY <2>1 DEF Raises, Interrupt, Maintenance
  <2>6. CASE CreateTopic
    <3>1. ~listed /\ ~(kafka = "RUNNING" /\ ~topic) /\ pc = "topic"
      BY <1>2, <2>2, <2>6 DEF CreateTopic, Steps
    <3>2. listed = topic
      BY <1>2, <3>1 DEF ListIsFresh
    <3> QED BY <3>1, <3>2
  <2>7. CASE ConnectNotReady \/ PgNotReady
    BY <2>7 DEF ConnectNotReady, PgNotReady
  <2>8. ~(Start \/ WaitTimesOut \/ HandOver \/ PrintRow \/ AutoCommit \/ Close
          \/ ServicesProgress \/ Publish)
    BY <1>2 DEF Start, WaitTimesOut, HandOver, PrintRow, AutoCommit, Close, ServicesProgress,
                Publish, Reading
  <2> QED BY <1>2, <2>3, <2>4, <2>5, <2>6, <2>7, <2>8 DEF Next, Script
<1>3. IInv /\ ListIsFresh /\ [Next]_vars =>
          [pc \notin Reading \cup {"down"} /\ pc' = "down" /\ left' = left => Down]_vars
  BY <1>2
<1>4. IInv /\ ListIsFresh /\ [Next]_vars => ListIsFresh'
  BY ListStep
<1> QED BY Invariance, <1>1, <1>3, <1>4, PTL DEF Spec, LeftoversDoNotStopARun
=============================================================================
