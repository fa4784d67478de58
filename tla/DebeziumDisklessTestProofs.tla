--------------------- MODULE DebeziumDisklessTestProofs ---------------------
(***************************************************************************)
(* The verdicts that the test prints are real, for every number of         *)
(* messages, batch size and number of faults: a success is one, a clean    *)
(* run succeeds, and missing ids are not an effect of the threads' timing. *)
(***************************************************************************)
EXTENDS DebeziumDisklessTest, TLAPS

\* The shared set of inserted ids is empty until it is complete: the producer
\* fills it in one step, and only when it committed all rows.
SharedAtOnce ==
    /\ producer \in {"new", "create", "insert", "share", "ended"}
    /\ inserts \in 0..NumMessages
    /\ producer = "share" => inserts = NumMessages
    /\ inserted \in {{}, Rows}

\* What the consumer received came through the topic.
ReceivedIsPublished ==
    /\ topic \in Seq(Nat)
    /\ position \in 0..Len(topic)
    /\ sent \in Nat
    /\ received \subseteq Published

\* Received ids are never taken back, so that the verdict stays true.
VerdictIsReal == final = "all received" => inserted = Rows /\ Rows \subseteq received

IInv == SharedAtOnce /\ ReceivedIsPublished /\ VerdictIsReal

\* Nothing is inserted, received or printed when main starts.
LEMMA InitIInv == Init => IInv
BY ConstantsAssumption DEF Init, IInv, SharedAtOnce, ReceivedIsPublished, VerdictIsReal

\* Appending to the topic publishes no less than before.
LEMMA AppendPublishes ==
    ASSUME topic \in Seq(Nat), NEW m \in Nat, topic' = Append(topic, m)
    PROVE  /\ topic' \in Seq(Nat)
           /\ Len(topic') = Len(topic) + 1
           /\ Published \subseteq Published'
<1>1. topic' \in Seq(Nat) /\ Len(topic') = Len(topic) + 1
  OBVIOUS
<1>2. \A j \in DOMAIN topic : j \in DOMAIN topic' /\ topic'[j] = topic[j]
  OBVIOUS
<1> QED BY <1>1, <1>2 DEF Published, Rows

\* Only ShareIds fills inserted_ids (line 187), when all rows are inserted.
LEMMA SharedStep ==
    ASSUME SharedAtOnce, [Next]_vars
    PROVE  SharedAtOnce'
<1>1. CASE CreateTable
  BY <1>1 DEF CreateTable, SharedAtOnce, db, Rows
<1>2. CASE Insert
  BY <1>2, ConstantsAssumption DEF Insert, SharedAtOnce, Rows
<1>3. CASE FinalCommit
  BY <1>3 DEF FinalCommit, SharedAtOnce, Rows
<1>4. CASE ShareIds
  BY <1>4 DEF ShareIds, SharedAtOnce, db, Rows
<1>5. CASE ProducerFails
  BY <1>5 DEF ProducerFails, SharedAtOnce, db, Rows
<1>6. CASE StartProducer
  BY <1>6 DEF StartProducer, SharedAtOnce, db, Rows
<1>7. CASE Interrupt
  BY <1>7 DEF Interrupt, SharedAtOnce, db, Rows
<1>8. CASE UNCHANGED <<producer, inserts, inserted>>
  BY <1>8 DEF SharedAtOnce, Rows
<1> QED
  BY <1>1, <1>2, <1>3, <1>4, <1>5, <1>6, <1>7, <1>8
     DEF Next, ProducerStep, ConsumerStep, MainStep, Publish, Restart, PublishForeign,
         TopicFound, TopicTimeout, Assigned, Receive, NoMessages, Verify, ConsumerError,
         StartConsumer, Joined, JoinTimeout, FinalVerification, db, vars

\* received_ids (line 367) only grows, by messages of the topic.
LEMMA ReceivedStep ==
    ASSUME ReceivedIsPublished, [Next]_vars
    PROVE  ReceivedIsPublished' /\ received \subseteq received'
<1> USE DEF ReceivedIsPublished
<1>1. CASE Publish
  <2>1. topic' = Append(topic, sent + 1) /\ sent' = sent + 1 /\ UNCHANGED <<position, received>>
    BY <1>1 DEF Publish, reader
  <2>2. sent + 1 \in Nat
    OBVIOUS
  <2>3. Len(topic') = Len(topic) + 1 /\ topic' \in Seq(Nat) /\ Published \subseteq Published'
    BY <2>1, <2>2, AppendPublishes
  <2> QED BY <2>1, <2>2, <2>3
<1>2. CASE PublishForeign
  <2>1. topic' = Append(topic, 0) /\ UNCHANGED <<position, received, sent>>
    BY <1>2 DEF PublishForeign, reader
  <2>2. Len(topic') = Len(topic) + 1 /\ topic' \in Seq(Nat) /\ Published \subseteq Published'
    BY <2>1, AppendPublishes
  <2> QED BY <2>1, <2>2
<1>3. CASE Restart
  <2>1. sent' \in Nat /\ UNCHANGED <<topic, position, received>>
    BY <1>3 DEF Restart, reader
  <2> QED BY <2>1 DEF Published, Rows
<1>4. CASE Assigned
  <2>1. position' = Len(topic) /\ UNCHANGED <<topic, sent, received>>
    BY <1>4 DEF Assigned, kafka
  <2> QED BY <2>1 DEF Published, Rows
<1>5. CASE Receive
  <2>1. /\ position < Len(topic)
        /\ position' = position + 1
        /\ received' = received \cup ({topic[position + 1]} \cap Rows)
        /\ UNCHANGED <<topic, sent>>
    BY <1>5 DEF Receive, kafka
  <2>2. position + 1 \in DOMAIN topic /\ position' \in 0..Len(topic)
    BY <2>1
  <2>3. received' \subseteq Published
    BY <2>1, <2>2 DEF Published
  <2> QED BY <2>1, <2>2, <2>3 DEF Published, Rows
<1>6. CASE UNCHANGED <<topic, position, sent, received>>
  BY <1>6 DEF Published, Rows
<1> QED
  BY <1>1, <1>2, <1>3, <1>4, <1>5, <1>6
     DEF Next, ProducerStep, ConsumerStep, MainStep, ProducerFails, CreateTable, Insert,
         FinalCommit, ShareIds, TopicFound, TopicTimeout, NoMessages, Verify, ConsumerError,
         StartConsumer, StartProducer, Joined, JoinTimeout, FinalVerification, Interrupt,
         kafka, reader, vars

\* main compares with a complete set (line 550), and the verdict stays true
\* whatever the other threads do afterwards.
LEMMA VerdictStep ==
    ASSUME SharedAtOnce, SharedAtOnce', ReceivedIsPublished, VerdictIsReal, [Next]_vars
    PROVE  VerdictIsReal'
<1>1. received \subseteq received'
  BY ReceivedStep
<1>2. inserted = Rows => inserted' = Rows
  <2>1. CASE ShareIds
    BY <2>1, ConstantsAssumption DEF ShareIds, SharedAtOnce, Rows
  <2>2. CASE UNCHANGED inserted
    BY <2>2
  <2> QED
    BY <2>1, <2>2
       DEF Next, ProducerStep, ConsumerStep, MainStep, CreateTable, Insert, FinalCommit,
           ProducerFails, Publish, Restart, PublishForeign, TopicFound, TopicTimeout, Assigned,
           Receive, NoMessages, Verify, ConsumerError, StartConsumer, StartProducer, Joined,
           JoinTimeout, FinalVerification, Interrupt, vars
<1>3. CASE FinalVerification
  <2>1. UNCHANGED <<inserted, received>>
    BY <1>3 DEF FinalVerification, reader
  <2>2. ASSUME final' = "all received"
        PROVE  inserted = Rows /\ Rows \subseteq received
    <3>1. Comparable /\ Compare(inserted) = "all received"
      BY <1>3, <2>2 DEF FinalVerification
    <3>2. inserted = Rows
      BY <3>1 DEF Comparable, SharedAtOnce
    <3>3. inserted \ received = {}
      BY <3>1 DEF Compare
    <3> QED BY <3>2, <3>3
  <2> QED BY <2>1, <2>2 DEF VerdictIsReal, Rows
<1>4. CASE UNCHANGED final
  BY <1>1, <1>2, <1>4 DEF VerdictIsReal, Rows
<1> QED
  BY <1>3, <1>4
     DEF Next, ProducerStep, ConsumerStep, MainStep, CreateTable, Insert, FinalCommit, ShareIds,
         ProducerFails, Publish, Restart, PublishForeign, TopicFound, TopicTimeout, Assigned,
         Receive, NoMessages, Verify, ConsumerError, StartConsumer, StartProducer, Joined,
         JoinTimeout, Interrupt, vars

\* IInv is an invariant.
LEMMA Inductive == Spec => []IInv
<1>1. IInv /\ [Next]_vars => IInv'
  BY SharedStep, ReceivedStep, VerdictStep DEF IInv
<1> QED BY InitIInv, <1>1, PTL DEF Spec

\* main's "All messages from this run were successfully received!" (line 567)
\* is true: the ids it compares with are all the rows or it compares nothing,
\* and what it counts as received came through the topic, although the three
\* threads share the two sets without a lock.
THEOREM SuccessIsReal == Spec => []FinalSuccessIsReal
<1>1. IInv => FinalSuccessIsReal
  <2> SUFFICES ASSUME IInv, final = "all received"
               PROVE  received = Rows /\ Published = Rows
    BY DEF FinalSuccessIsReal
  <2>1. Rows \subseteq received /\ received \subseteq Published
    BY DEF IInv, VerdictIsReal, ReceivedIsPublished
  <2>2. Published \subseteq Rows
    BY DEF Published
  <2> QED BY <2>1, <2>2
<1> QED BY Inductive, <1>1, PTL

-----------------------------------------------------------------------------
(* What holds as long as nothing went wrong.                               *)

\* Debezium publishes what is committed.
PublishedIsCommitted == table \in 0..inserts /\ sent \in 0..table /\ count \in Nat

Clean == happened = {}

\* The topic holds the rows that were published, each of them once, in order.
OnceInOrder ==
    /\ \A j \in DOMAIN topic : topic[j] <= sent
    /\ \A j, k \in DOMAIN topic : j < k /\ topic[k] > 0 => topic[j] < topic[k]
    /\ \A r \in 1..sent : \E j \in DOMAIN topic : topic[j] = r

\* The count, which ends the loop, is the number of ids, and the consumer's
\* position separates the rows it counted from the others.
CountIsExact ==
    /\ received = 1..count
    /\ count <= sent
    /\ \A j \in 1..position : topic[j] <= count
    /\ \A j \in position + 1..Len(topic) : topic[j] > 0 => topic[j] > count

\* A thread that ended did all its work, and main waited for both.
EndedIsDone ==
    /\ consumer \in {"verify", "ended"} => received = Rows
    /\ producer = "ended" => inserted = Rows
    /\ main = "final" => producer = "ended" /\ consumer = "ended"

CleanInv ==
    /\ PublishedIsCommitted
    /\ Clean => OnceInOrder /\ CountIsExact /\ EndedIsDone
    /\ NoSpuriousFailure
    /\ MissingIsMissing

\* A run is clean at first, with nothing published or counted.
LEMMA InitCleanInv == Init => CleanInv
<1> SUFFICES ASSUME Init PROVE CleanInv
  OBVIOUS
<1>1. PublishedIsCommitted /\ NoSpuriousFailure /\ MissingIsMissing
  BY DEF Init, PublishedIsCommitted, NoSpuriousFailure, MissingIsMissing
<1>2. OnceInOrder /\ CountIsExact /\ EndedIsDone
  BY DEF Init, OnceInOrder, CountIsExact, EndedIsDone
<1> QED BY <1>1, <1>2 DEF CleanInv

\* The steps that leave a mark behind, and the others.
Mishap ==
    \/ ProducerFails \/ Restart \/ TopicTimeout \/ NoMessages \/ ConsumerError
    \/ JoinTimeout \/ Interrupt

\* What went wrong is not forgotten, and no mishap goes unnoticed.
LEMMA MarksStay ==
    ASSUME [Next]_vars
    PROVE  (Clean' => Clean) /\ (Mishap => ~Clean')
<1>1. Mishap => ~Clean'
  BY DEF Mishap, ProducerFails, Restart, TopicTimeout, NoMessages, ConsumerError, JoinTimeout,
         Interrupt, Happens, Clean
<1>2. CASE Mishap
  BY <1>1, <1>2
<1>3. CASE Assigned
  BY <1>3, <1>1 DEF Assigned, Clean
<1>4. CASE UNCHANGED happened
  BY <1>1, <1>4 DEF Clean
<1> QED
  BY <1>2, <1>3, <1>4
     DEF Mishap, Next, ProducerStep, ConsumerStep, MainStep, CreateTable, Insert, FinalCommit,
         ShareIds, Publish, PublishForeign, TopicFound, Receive, Verify, StartConsumer,
         StartProducer, Joined, FinalVerification, vars

\* The connector is never ahead of the commits, nor these of the inserts.
LEMMA CommittedStep ==
    ASSUME SharedAtOnce, PublishedIsCommitted, [Next]_vars
    PROVE  PublishedIsCommitted'
<1>0. inserts \in Nat /\ table \in Nat /\ sent \in Nat /\ count \in Nat
  BY ConstantsAssumption DEF SharedAtOnce, PublishedIsCommitted
<1>1. CASE Insert
  BY <1>0, <1>1 DEF Insert, kafka, reader, PublishedIsCommitted
<1>2. CASE FinalCommit
  BY <1>0, <1>2 DEF FinalCommit, kafka, reader, PublishedIsCommitted
<1>3. CASE Publish
  BY <1>0, <1>3 DEF Publish, db, reader, PublishedIsCommitted
<1>4. CASE Restart
  <2>1. sent' \in 0..sent - 1 /\ UNCHANGED <<inserts, table, count>>
    BY <1>4 DEF Restart, db, reader
  <2> QED BY <1>0, <2>1 DEF PublishedIsCommitted
<1>5. CASE Receive
  <2>1. count' \in {count, count + 1} /\ UNCHANGED <<inserts, table, sent>>
    BY <1>5 DEF Receive, db, kafka
  <2> QED BY <1>0, <2>1 DEF PublishedIsCommitted
<1>6. CASE UNCHANGED <<inserts, table, sent, count>>
  BY <1>6 DEF PublishedIsCommitted
<1> QED
  BY <1>1, <1>2, <1>3, <1>4, <1>5, <1>6
     DEF Next, ProducerStep, ConsumerStep, MainStep, CreateTable, ShareIds, ProducerFails,
         PublishForeign, TopicFound, TopicTimeout, Assigned, NoMessages, Verify, ConsumerError,
         StartConsumer, StartProducer, Joined, JoinTimeout, FinalVerification, Interrupt,
         db, kafka, reader, vars

\* What a message of the topic is, after one was appended.
LEMMA AppendedTopic ==
    ASSUME topic \in Seq(Nat), NEW m \in Nat, topic' = Append(topic, m)
    PROVE  /\ Len(topic) \in Nat /\ Len(topic') = Len(topic) + 1
           /\ DOMAIN topic = 1..Len(topic) /\ DOMAIN topic' = 1..Len(topic) + 1
           /\ topic'[Len(topic) + 1] = m
           /\ \A j \in 1..Len(topic) : topic'[j] = topic[j] /\ topic[j] \in Nat
OBVIOUS

\* Without restarts, the connector publishes every row once.
LEMMA OnceStep ==
    ASSUME ReceivedIsPublished, PublishedIsCommitted, [Next]_vars, Clean', OnceInOrder
    PROVE  OnceInOrder'
<1>0. sent \in Nat /\ topic \in Seq(Nat)
  BY DEF ReceivedIsPublished
<1>1. CASE Publish
  <2>1. topic' = Append(topic, sent + 1) /\ sent' = sent + 1
    BY <1>1 DEF Publish
  <2>2. /\ Len(topic) \in Nat /\ Len(topic') = Len(topic) + 1
        /\ DOMAIN topic = 1..Len(topic) /\ DOMAIN topic' = 1..Len(topic) + 1
        /\ topic'[Len(topic) + 1] = sent + 1
        /\ \A j \in 1..Len(topic) : topic'[j] = topic[j] /\ topic[j] \in Nat /\ topic[j] <= sent
    BY <1>0, <2>1, AppendedTopic DEF OnceInOrder
  <2>3. \A j \in DOMAIN topic' : topic'[j] <= sent'
    BY <1>0, <2>1, <2>2
  <2>4. \A j, k \in DOMAIN topic' : j < k /\ topic'[k] > 0 => topic'[j] < topic'[k]
    BY <1>0, <2>1, <2>2 DEF OnceInOrder
  <2>5. \A r \in 1..sent' : \E j \in DOMAIN topic' : topic'[j] = r
    BY <1>0, <2>1, <2>2 DEF OnceInOrder
  <2> QED BY <2>3, <2>4, <2>5 DEF OnceInOrder
<1>2. CASE PublishForeign
  <2>1. topic' = Append(topic, 0) /\ UNCHANGED sent
    BY <1>2 DEF PublishForeign
  <2>2. /\ Len(topic) \in Nat /\ Len(topic') = Len(topic) + 1
        /\ DOMAIN topic = 1..Len(topic) /\ DOMAIN topic' = 1..Len(topic) + 1
        /\ topic'[Len(topic) + 1] = 0
        /\ \A j \in 1..Len(topic) : topic'[j] = topic[j] /\ topic[j] \in Nat /\ topic[j] <= sent
    BY <1>0, <2>1, AppendedTopic DEF OnceInOrder
  <2>3. \A j \in DOMAIN topic' : topic'[j] <= sent'
    BY <1>0, <2>1, <2>2
  <2>4. \A j, k \in DOMAIN topic' : j < k /\ topic'[k] > 0 => topic'[j] < topic'[k]
    BY <1>0, <2>1, <2>2 DEF OnceInOrder
  <2>5. \A r \in 1..sent' : \E j \in DOMAIN topic' : topic'[j] = r
    BY <1>0, <2>1, <2>2 DEF OnceInOrder
  <2> QED BY <2>3, <2>4, <2>5 DEF OnceInOrder
<1>3. CASE Mishap
  BY <1>3, MarksStay
<1>4. CASE UNCHANGED <<topic, sent>>
  BY <1>4 DEF OnceInOrder
<1> QED
  BY <1>1, <1>2, <1>3, <1>4
     DEF Next, Mishap, ProducerStep, ConsumerStep, MainStep, CreateTable, Insert, FinalCommit,
         ShareIds, TopicFound, Assigned, Receive, Verify, StartConsumer, StartProducer, Joined,
         FinalVerification, kafka, vars

\* In a clean run the next row in the topic is the next one to count.
LEMMA NextRow ==
    ASSUME ReceivedIsPublished, PublishedIsCommitted, OnceInOrder, CountIsExact,
           position < Len(topic), topic[position + 1] > 0
    PROVE  topic[position + 1] = count + 1
<1>0. /\ sent \in Nat /\ count \in Nat /\ position \in Nat /\ Len(topic) \in Nat
      /\ DOMAIN topic = 1..Len(topic) /\ \A j \in 1..Len(topic) : topic[j] \in Nat
  BY DEF ReceivedIsPublished, PublishedIsCommitted
<1>1. position + 1 \in 1..Len(topic) /\ position + 1 \in position + 1..Len(topic)
  BY <1>0
<1>2. topic[position + 1] > count /\ topic[position + 1] <= sent /\ topic[position + 1] \in Nat
  BY <1>0, <1>1 DEF CountIsExact, OnceInOrder
<1>3. ASSUME topic[position + 1] > count + 1
      PROVE  FALSE
  <2>1. count + 1 \in 1..sent
    BY <1>0, <1>2
  <2>2. PICK j \in 1..Len(topic) : topic[j] = count + 1
    BY <1>0, <2>1 DEF OnceInOrder
  <2>3. CASE j <= position
    <3>1. topic[j] <= count
      BY <1>0, <2>3 DEF CountIsExact
    <3> QED BY <1>0, <2>2, <3>1
  <2>4. CASE j = position + 1
    BY <1>0, <1>3, <2>2, <2>4
  <2>5. CASE j > position + 1
    <3>1. topic[j] > 0
      BY <1>0, <2>2
    <3>2. topic[position + 1] < topic[j]
      BY <1>0, <1>1, <2>5, <3>1 DEF OnceInOrder
    <3> QED BY <1>0, <1>2, <1>3, <2>2, <3>2
  <2> QED BY <1>0, <2>3, <2>4, <2>5
<1> QED BY <1>0, <1>2, <1>3

\* In a clean run message_count (line 360) and received_ids (line 367) agree.
LEMMA CountStep ==
    ASSUME SharedAtOnce, ReceivedIsPublished, PublishedIsCommitted, [Next]_vars, Clean',
           OnceInOrder, CountIsExact
    PROVE  CountIsExact'
<1>0. /\ sent \in Nat /\ count \in Nat /\ position \in Nat /\ Len(topic) \in Nat
      /\ topic \in Seq(Nat) /\ position <= Len(topic) /\ NumMessages \in Nat
      /\ DOMAIN topic = 1..Len(topic) /\ \A j \in 1..Len(topic) : topic[j] \in Nat
      /\ sent <= NumMessages
  BY ConstantsAssumption DEF SharedAtOnce, ReceivedIsPublished, PublishedIsCommitted
<1>1. CASE Publish \/ PublishForeign
  <2>1. /\ \/ topic' = Append(topic, sent + 1) /\ sent' = sent + 1
           \/ topic' = Append(topic, 0) /\ sent' = sent
        /\ UNCHANGED <<position, count, received>>
    BY <1>1 DEF Publish, PublishForeign, reader
  <2>2. /\ Len(topic') = Len(topic) + 1
        /\ topic'[Len(topic) + 1] \in {0, sent + 1}
        /\ \A j \in 1..Len(topic) : topic'[j] = topic[j]
    BY <1>0, <2>1, AppendedTopic
  <2>3. count <= sent' /\ \A j \in 1..position : topic'[j] <= count
    BY <1>0, <2>1, <2>2 DEF CountIsExact
  <2>4. ASSUME NEW j \in position + 1..Len(topic) + 1, topic'[j] > 0
        PROVE  topic'[j] > count
    <3>1. CASE j = Len(topic) + 1
      BY <1>0, <2>2, <2>4, <3>1 DEF CountIsExact
    <3>2. CASE j \in position + 1..Len(topic)
      BY <1>0, <2>2, <2>4, <3>2 DEF CountIsExact
    <3> QED BY <1>0, <3>1, <3>2
  <2> QED BY <2>1, <2>2, <2>3, <2>4 DEF CountIsExact
<1>2. CASE Assigned
  <2>1. /\ position' = Len(topic) /\ UNCHANGED <<topic, sent, count, received>>
        /\ ~ \E j \in DOMAIN topic : topic[j] \in Rows
    BY <1>2 DEF Assigned, kafka, Clean
  <2>2. \A j \in 1..Len(topic) : topic[j] <= count
    BY <1>0, <2>1 DEF Rows, OnceInOrder
  <2> QED BY <1>0, <2>1, <2>2 DEF CountIsExact
<1>3. CASE Receive
  <2> DEFINE m == topic[position + 1]
  <2>1. /\ position < Len(topic) /\ position' = position + 1
        /\ count' = IF m \in Rows THEN count + 1 ELSE count
        /\ received' = received \cup ({m} \cap Rows)
        /\ UNCHANGED <<topic, sent>>
    BY <1>3 DEF Receive, kafka, Counts
  <2>2. position + 1 \in 1..Len(topic) /\ m \in Nat /\ m <= sent
    BY <1>0, <2>1 DEF OnceInOrder
  <2>3. CASE m = 0
    <3>1. count' = count /\ received' = received
      BY <2>1, <2>3 DEF Rows
    <3>2. \A j \in 1..position' : topic[j] <= count
      BY <1>0, <2>1, <2>3 DEF CountIsExact
    <3> QED BY <1>0, <2>1, <3>1, <3>2 DEF CountIsExact
  <2>4. CASE m > 0
    <3>1. m = count + 1
      BY <2>1, <2>4, NextRow
    <3>2. count' = count + 1 /\ received' = received \cup {count + 1} /\ count + 1 <= sent
      BY <1>0, <2>1, <2>2, <2>4, <3>1 DEF Rows
    <3>3. received' = 1..count + 1
      BY <1>0, <3>2 DEF CountIsExact
    <3>4. \A j \in 1..position' : topic[j] <= count + 1
      BY <1>0, <2>1, <3>1 DEF CountIsExact
    <3>5. ASSUME NEW j \in position' + 1..Len(topic), topic[j] > 0
          PROVE  topic[j] > count + 1
      <4>1. j \in 1..Len(topic) /\ position + 1 < j
        BY <1>0, <2>1
      <4>2. topic[position + 1] < topic[j]
        BY <1>0, <2>2, <3>5, <4>1 DEF OnceInOrder
      <4> QED BY <3>1, <4>2
    <3> QED BY <2>1, <3>2, <3>3, <3>4, <3>5 DEF CountIsExact
  <2> QED BY <2>2, <2>3, <2>4
<1>4. CASE Mishap
  BY <1>4, MarksStay
<1>5. CASE UNCHANGED <<topic, sent, position, count, received>>
  BY <1>5 DEF CountIsExact
<1> QED
  BY <1>1, <1>2, <1>3, <1>4, <1>5
     DEF Next, Mishap, ProducerStep, ConsumerStep, MainStep, CreateTable, Insert, FinalCommit,
         ShareIds, TopicFound, Verify, StartConsumer, StartProducer, Joined, FinalVerification,
         kafka, reader, vars

\* In a clean run a thread ends when its work is done.
LEMMA EndedStep ==
    ASSUME SharedAtOnce, PublishedIsCommitted, PublishedIsCommitted', [Next]_vars, Clean',
           CountIsExact', EndedIsDone
    PROVE  EndedIsDone'
<1>1. CASE Receive
  <2>1. /\ consumer = "poll" /\ consumer' = IF count' >= NumMessages THEN "verify" ELSE "poll"
        /\ UNCHANGED <<main, producer, inserted, inserts, table, sent>>
    BY <1>1 DEF Receive, Enough, db, kafka
  <2>2. CASE count' >= NumMessages
    <3>1. count' \in Nat /\ count' <= sent' /\ sent' <= NumMessages /\ sent' \in Nat
      BY <2>1, ConstantsAssumption DEF SharedAtOnce, PublishedIsCommitted, CountIsExact
    <3>2. count' = NumMessages
      BY <2>2, <3>1, ConstantsAssumption
    <3> QED BY <2>1, <3>2 DEF CountIsExact, EndedIsDone, Rows
  <2>3. CASE ~(count' >= NumMessages)
    BY <2>1, <2>3 DEF EndedIsDone
  <2> QED BY <2>2, <2>3
<1>2. CASE ShareIds
  <2>1. inserted' = Rows /\ producer = "share" /\ UNCHANGED <<main, consumer, received>>
    BY <1>2 DEF ShareIds, reader, SharedAtOnce, Rows
  <2> QED BY <2>1 DEF EndedIsDone, Rows
<1>3. CASE CreateTable \/ FinalCommit
  BY <1>3 DEF CreateTable, FinalCommit, reader, EndedIsDone, Rows
<1>4. CASE TopicFound \/ Assigned \/ Verify
  BY <1>4 DEF TopicFound, Assigned, Verify, reader, EndedIsDone, Rows
<1>5. CASE StartConsumer \/ StartProducer \/ Joined \/ FinalVerification
  BY <1>5 DEF StartConsumer, StartProducer, Joined, FinalVerification, reader, EndedIsDone, Rows
<1>6. CASE Mishap
  BY <1>6, MarksStay
<1>7. CASE UNCHANGED <<main, producer, consumer, inserted, received>>
  BY <1>7 DEF EndedIsDone, Rows
<1> QED
  BY <1>1, <1>2, <1>3, <1>4, <1>5, <1>6, <1>7
     DEF Next, Mishap, ProducerStep, ConsumerStep, MainStep, Insert, Publish, PublishForeign,
         kafka, reader, vars

\* Which steps print about the ids, and that inserted_ids stays complete.
LEMMA PrintStep ==
    ASSUME SharedAtOnce, [Next]_vars
    PROVE  /\ inserted = Rows => inserted' = Rows
           /\ UNCHANGED verdict \/ Verify
           /\ UNCHANGED final \/ FinalVerification
<1>1. CASE ShareIds
  BY <1>1 DEF ShareIds, SharedAtOnce, reader, Rows
<1>2. CASE Verify
  BY <1>2 DEF Verify, Rows
<1>3. CASE FinalVerification
  BY <1>3 DEF FinalVerification, reader, Rows
<1>4. CASE UNCHANGED <<inserted, verdict, final>>
  BY <1>4 DEF Rows
<1> QED
  BY <1>1, <1>2, <1>3, <1>4
     DEF Next, ProducerStep, ConsumerStep, MainStep, CreateTable, Insert, FinalCommit,
         ProducerFails, Publish, Restart, PublishForeign, TopicFound, TopicTimeout, Assigned,
         Receive, NoMessages, ConsumerError, StartConsumer, StartProducer, Joined, JoinTimeout,
         Interrupt, reader, vars

\* In a clean run main compares two complete sets (lines 546-573).
LEMMA NoSpuriousStep ==
    ASSUME [Next]_vars, Clean => EndedIsDone, NoSpuriousFailure
    PROVE  NoSpuriousFailure'
<1> SUFFICES ASSUME main' = "ended", Clean'
             PROVE  final' = "all received"
  BY DEF NoSpuriousFailure, Clean
<1>1. Clean /\ ~Mishap
  BY MarksStay
<1>2. CASE FinalVerification
  <2>1. inserted = Rows /\ received = Rows
    BY <1>1, <1>2 DEF FinalVerification, EndedIsDone
  <2>2. Rows # {}
    BY ConstantsAssumption DEF Rows
  <2> QED BY <1>2, <2>1, <2>2 DEF FinalVerification, Comparable, Compare
<1>3. CASE UNCHANGED <<main, final>>
  BY <1>1, <1>3 DEF NoSpuriousFailure, Clean
<1>4. CASE StartConsumer \/ StartProducer \/ Joined
  BY <1>4 DEF StartConsumer, StartProducer, Joined
<1> QED
  BY <1>1, <1>2, <1>3, <1>4
     DEF Mishap, Next, ProducerStep, ConsumerStep, MainStep, CreateTable, Insert, FinalCommit,
         ShareIds, Publish, PublishForeign, TopicFound, Assigned, Receive, Verify, vars

\* "Missing" is printed about a complete set, after a mishap.
LEMMA MissingStep ==
    ASSUME SharedAtOnce, [Next]_vars, Clean => EndedIsDone, MissingIsMissing
    PROVE  MissingIsMissing'
<1> SUFFICES ASSUME verdict' = "missing" \/ final' = "missing"
             PROVE  ~Clean' /\ inserted' = Rows
  BY DEF MissingIsMissing, Clean, Rows
<1>1. CASE verdict = "missing" \/ final = "missing"
  BY <1>1, MarksStay, PrintStep DEF MissingIsMissing, Clean
<1>2. CASE ~(verdict = "missing" \/ final = "missing")
  <2>1. Verify \/ FinalVerification
    BY <1>2, PrintStep
  <2>2. Compare(inserted) = "missing"
    BY <1>2, <2>1, PrintStep DEF Verify, FinalVerification, reader
  <2>3. inserted \ received # {}
    BY <2>2 DEF Compare
  <2>4. inserted = Rows /\ received # Rows
    BY <2>3 DEF SharedAtOnce
  <2>5. ~Clean
    BY <2>1, <2>4 DEF EndedIsDone, Verify, FinalVerification
  <2> QED BY <2>4, <2>5, MarksStay, PrintStep
<1> QED BY <1>1, <1>2

\* The clean-run invariant is one, beside IInv.
LEMMA CleanInductive == Spec => []CleanInv
<1>1. ASSUME IInv, IInv', CleanInv, [Next]_vars
      PROVE  CleanInv'
  <2>1. SharedAtOnce /\ ReceivedIsPublished /\ PublishedIsCommitted
    BY <1>1 DEF IInv, CleanInv
  <2>2. PublishedIsCommitted'
    BY <1>1, <2>1, CommittedStep
  <2>3. ASSUME Clean'
        PROVE  OnceInOrder' /\ CountIsExact' /\ EndedIsDone'
    <3>1. OnceInOrder /\ CountIsExact /\ EndedIsDone
      BY <1>1, <2>3, MarksStay DEF CleanInv
    <3>2. OnceInOrder' /\ CountIsExact'
      BY <1>1, <2>1, <2>3, <3>1, OnceStep, CountStep
    <3> QED BY <1>1, <2>1, <2>2, <2>3, <3>1, <3>2, EndedStep
  <2>4. NoSpuriousFailure' /\ MissingIsMissing'
    BY <1>1, <2>1, NoSpuriousStep, MissingStep DEF CleanInv
  <2> QED BY <2>2, <2>3, <2>4 DEF CleanInv
<1> QED BY InitCleanInv, Inductive, <1>1, PTL DEF Spec

\* A run in which nothing failed, timed out or was published twice, and whose
\* consumer had its partition in time, prints the success of line 567: the
\* count that ends the consumer's loop (line 369) is the number of ids.
THEOREM CleanRunSucceeds == Spec => []NoSpuriousFailure
<1>1. CleanInv => NoSpuriousFailure
  BY DEF CleanInv
<1> QED BY CleanInductive, <1>1, PTL

\* Neither thread reports missing ids (lines 409 and 569) because of the
\* timing of the other: inserted_ids is complete, and something went wrong.
THEOREM MissingIsReal == Spec => []MissingIsMissing
<1>1. CleanInv => MissingIsMissing
  BY DEF CleanInv
<1> QED BY CleanInductive, <1>1, PTL
=============================================================================
