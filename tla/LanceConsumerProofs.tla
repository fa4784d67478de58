------------------------ MODULE LanceConsumerProofs ------------------------
(***************************************************************************)
(* Both consumers lose only what was in the batch or in hand, store a      *)
(* message a bounded number of times, and implement an at-least-once       *)
(* consumer, for every batch size and every number of messages, starts,    *)
(* crashes and failures.                                                   *)
(***************************************************************************)
EXTENDS LanceConsumer, TLAPS

\* The batch holds offsets that the consumer has handed over.
BatchIsBehind ==
    /\ batch \in Seq(Offsets)
    /\ pc \in Running => \A j \in 1..Len(batch) : batch[j] <= position

\* Stored or lost: what may leave memory without being skipped.
Settled(i) == rows[i] > 0 \/ i \in dropped

\* Where the batch is about to be forgotten, its messages are settled.
ForgottenIsSettled ==
    pc \in {"reset", "close", "down"} => \A i \in Offsets : InBatch(i) => Settled(i)

\* A consumer is never before the committed offset while it runs ...
CommittedIsBehind == pc \in Running => committed <= position

\* ... and it met every message up to its position, and every committed one.
MetUpTo ==
    /\ pc \in Running => 1..position \subseteq Met
    /\ 1..committed \subseteq Met

\* How many rows a message may have, as in DuplicatesBounded.
Allowed ==
    spent["interrupt"] + spent["addfailure"] +
        (IF program = "claims" THEN spent["start"] ELSE 1 + spent["crash"])

\* A message that may be written once more without another fault or start.
Pending(i) ==
    \/ pc \in {"poll", "held", "add", "final"} /\ InBatch(i)
    \/ InHand(i)
    \/ pc \in Running /\ i > position
    \/ pc = "down" /\ program = "messages" /\ i > committed

\* A row is still allowed for each such message.
RoomForPending ==
    \A i \in Offsets : rows[i] <= Allowed /\ (Pending(i) => rows[i] < Allowed)

IInv ==
    /\ TypeOK
    /\ BatchIsBehind
    /\ ForgottenIsSettled
    /\ CommittedIsBehind
    /\ MetUpTo
    /\ RoomForPending

-----------------------------------------------------------------------------
\* Nothing is sent, stored or in memory at first.
LEMMA InitIInv == Init => IInv
<1> SUFFICES ASSUME Init PROVE IInv
  OBVIOUS
<1>1. batch \in Seq(Offsets) /\ Len(batch) = 0 /\ topic \in Seq(Values) /\ Len(topic) = 0
  BY DEF Init
<1>2. TypeOK
  BY <1>1, BoundsAssumption DEF Init, TypeOK, Running
<1>3. BatchIsBehind /\ ForgottenIsSettled /\ CommittedIsBehind /\ MetUpTo
  BY <1>1 DEF Init, BatchIsBehind, ForgottenIsSettled, CommittedIsBehind, MetUpTo, InBatch, Running
<1>4. Allowed \in Nat /\ (program = "messages" => Allowed > 0) /\ program \in {"messages", "claims"}
  BY ConstantsAssumption DEF Init, Allowed, Events
<1>5. RoomForPending
  BY <1>4 DEF Init, RoomForPending, Pending, InHand, Running
<1> QED BY <1>2, <1>3, <1>5 DEF IInv

\* A bound that is spent grows by one, the others stay.
LEMMA SpendStep ==
    ASSUME TypeOK, NEW e \in Events, Spend(e)
    PROVE  /\ spent' \in [Events -> Nat]
           /\ spent'[e] = spent[e] + 1
           /\ \A f \in Events \ {e} : spent'[f] = spent[f]
BY DEF TypeOK, Spend

\* table.add leaves every message at least as many rows as before.
LEMMA RowsGrow ==
    ASSUME TypeOK
    PROVE  /\ RowsAfterAdd \in [Offsets -> Nat]
           /\ \A i \in Offsets : RowsAfterAdd[i] = IF InBatch(i) THEN rows[i] + 1 ELSE rows[i]
BY DEF TypeOK, RowsAfterAdd

\* The events that the actions spend.
LEMMA EventNames ==
    "start" \in Events /\ "crash" \in Events /\ "interrupt" \in Events /\ "addfailure" \in Events
BY DEF Events

\* The batch stays a gapless run of messages that ends at the position.
LEMMA TypeStep ==
    ASSUME TypeOK, BatchIsBehind, [Next]_vars
    PROVE  TypeOK' /\ BatchIsBehind'
<1>0. /\ position \in Nat /\ committed \in Nat /\ Len(batch) \in Nat /\ Len(topic) \in Nat
      /\ MaxMessages \in Nat
  BY BoundsAssumption DEF TypeOK, BatchIsBehind
<1>1. ASSUME NEW v \in Values, Produce(v)
      PROVE  TypeOK' /\ BatchIsBehind'
  <2>1. topic' \in Seq(Values) /\ Len(topic') = Len(topic) + 1
    BY <1>1 DEF Produce, TypeOK
  <2>2. UNCHANGED <<program, rows, committed, position, batch, pc, spent, dropped>>
    BY <1>1 DEF Produce
  <2>3. Len(topic') <= MaxMessages /\ committed' \in 0..Len(topic') /\ position' \in 0..Len(topic')
    BY <1>0, <1>1, <2>1, <2>2 DEF Produce, TypeOK
  <2> QED BY <2>1, <2>2, <2>3 DEF TypeOK, BatchIsBehind
<1>2. CASE Start
  <2>1. /\ pc' = "poll" /\ position' = committed /\ batch' = <<>>
        /\ UNCHANGED <<program, topic, rows, committed, dropped>>
    BY <1>2 DEF Start, StartOffset, EmptyBatch
  <2>2. spent' \in [Events -> Nat]
    BY <1>2, SpendStep, EventNames DEF Start
  <2>3. batch' \in Seq(Offsets) /\ Len(batch') = 0
    BY <2>1
  <2> QED BY <1>0, <2>1, <2>2, <2>3 DEF TypeOK, BatchIsBehind, Running
<1>3. CASE AutoCommit \/ Close
  BY <1>0, <1>3 DEF AutoCommit, Close, TypeOK, BatchIsBehind, Running
<1>4. CASE Receive
  <2>1. /\ pc = "held" /\ pc' \in {"add", "poll"}
        /\ batch' = Append(batch, position)
        /\ UNCHANGED <<program, topic, rows, committed, position, spent, dropped>>
    BY <1>4 DEF Receive
  <2>2. Len(batch) <= position - 1 /\ \A j \in 1..Len(batch) : batch[j] = position - 1 - Len(batch) + j
    BY <2>1 DEF TypeOK
  <2>3. position \in Offsets
    BY <1>0, <2>2 DEF TypeOK, Offsets
  <2>4. batch' \in Seq(Offsets) /\ Len(batch') = Len(batch) + 1
    BY <2>1, <2>3 DEF BatchIsBehind
  <2>5. \A j \in 1..Len(batch') : batch'[j] = position - Len(batch') + j
    <3> SUFFICES ASSUME NEW j \in 1..Len(batch')
                 PROVE  batch'[j] = position - Len(batch') + j
      OBVIOUS
    <3>1. CASE j = Len(batch) + 1
      <4>1. batch'[j] = position
        BY <3>1, <2>1 DEF BatchIsBehind
      <4> QED BY <4>1, <3>1, <2>1, <2>4, <1>0
    <3>2. CASE j \in 1..Len(batch)
      <4>1. batch'[j] = batch[j]
        BY <3>2, <2>1 DEF BatchIsBehind
      <4> QED BY <4>1, <3>2, <2>2, <2>4, <1>0
    <3> QED BY <3>1, <3>2, <2>4, <1>0
  <2>6. Len(batch') <= position /\ \A j \in 1..Len(batch') : batch'[j] <= position
    BY <1>0, <2>2, <2>4, <2>5
  <2> QED BY <2>1, <2>4, <2>5, <2>6 DEF TypeOK, BatchIsBehind, Running
<1>5. CASE HandOver
  <2>1. /\ position < Len(topic) /\ position' = position + 1 /\ pc = "poll" /\ pc' = "held"
        /\ UNCHANGED <<program, topic, rows, committed, batch, spent, dropped>>
    BY <1>5 DEF HandOver
  <2>2. position' \in 0..Len(topic) /\ position' - 1 = position
    BY <1>0, <2>1
  <2>3. \A j \in 1..Len(batch) : batch[j] <= position'
    <3> SUFFICES ASSUME NEW j \in 1..Len(batch) PROVE batch[j] <= position'
      OBVIOUS
    <3>1. batch[j] \in Offsets /\ batch[j] <= position
      BY <2>1 DEF BatchIsBehind, Running
    <3>2. batch[j] \in Nat
      BY <3>1 DEF Offsets
    <3> QED BY <1>0, <2>1, <3>1, <3>2
  <2>4. Len(batch) <= position /\ \A j \in 1..Len(batch) : batch[j] = position - Len(batch) + j
    BY <2>1 DEF TypeOK
  <2> QED BY <2>1, <2>2, <2>3, <2>4 DEF TypeOK, BatchIsBehind, Running
<1>6. CASE Add \/ FinalWrite
  <2>1. /\ rows' = RowsAfterAdd /\ pc \in {"add", "final"} /\ pc' \in {"reset", "close", "down"}
        /\ pc' = "reset" => pc = "add"
        /\ UNCHANGED <<program, topic, committed, position, batch, spent, dropped>>
    BY <1>6 DEF Add, FinalWrite, AfterFinal
  <2>2. rows' \in [Offsets -> Nat]
    BY <2>1, RowsGrow
  <2> QED BY <2>1, <2>2 DEF TypeOK, BatchIsBehind, Running
<1>7. CASE ResetBatch
  <2>1. /\ batch' = <<>> /\ pc' = "poll"
        /\ UNCHANGED <<program, topic, rows, committed, position, spent, dropped>>
    BY <1>7 DEF ResetBatch, EmptyBatch
  <2>2. batch' \in Seq(Offsets) /\ Len(batch') = 0
    BY <2>1
  <2> QED BY <1>0, <2>1, <2>2 DEF TypeOK, BatchIsBehind, Running
<1>8. ASSUME NEW stored \in BOOLEAN, AddFails(stored)
      PROVE  TypeOK' /\ BatchIsBehind'
  <2>1. /\ rows' \in {RowsAfterAdd, rows} /\ pc = "add" /\ pc' \in {"poll", "final"}
        /\ UNCHANGED <<program, topic, committed, position, batch, dropped>>
    BY <1>8 DEF AddFails, FailedBatch
  <2>2. rows' \in [Offsets -> Nat]
    BY <2>1, RowsGrow DEF TypeOK
  <2>3. spent' \in [Events -> Nat]
    BY <1>8, SpendStep, EventNames DEF AddFails, TypeOK
  <2> QED BY <2>1, <2>2, <2>3 DEF TypeOK, BatchIsBehind, Running
<1>9. ASSUME NEW stored \in BOOLEAN, FinalWriteFails(stored)
      PROVE  TypeOK' /\ BatchIsBehind'
  <2>1. /\ rows' \in {RowsAfterAdd, rows} /\ pc = "final" /\ pc' \in {"close", "down"}
        /\ dropped' = dropped \cup InMemory
        /\ UNCHANGED <<program, topic, committed, position, batch>>
    BY <1>9 DEF FinalWriteFails, AfterFinal
  <2>2. rows' \in [Offsets -> Nat] /\ dropped' \subseteq Offsets
    BY <2>1, RowsGrow DEF TypeOK, InMemory
  <2>3. spent' \in [Events -> Nat]
    BY <1>9, SpendStep, EventNames DEF FinalWriteFails, TypeOK
  <2> QED BY <2>1, <2>2, <2>3 DEF TypeOK, BatchIsBehind, Running
<1>10. CASE DeserializerRaises \/ ParseRaises \/ Interrupt \/ Crash
  <2>1. /\ pc \in Running /\ pc' \in {"final", "down"}
        /\ \/ dropped' = dropped \cup InMemory \/ dropped' = dropped
           \/ dropped' = dropped \cup {position} /\ pc = "held"
        /\ UNCHANGED <<program, topic, rows, committed, position, batch>>
    BY <1>10 DEF DeserializerRaises, ParseRaises, Interrupt, Crash, Running
  <2>2. pc = "held" => position \in Offsets
    BY <1>0 DEF TypeOK, Offsets
  <2>3. dropped' \subseteq Offsets
    BY <2>1, <2>2 DEF TypeOK, InMemory
  <2>4. spent' \in [Events -> Nat]
    BY <1>10, SpendStep, EventNames DEF DeserializerRaises, ParseRaises, Interrupt, Crash, TypeOK
  <2> QED BY <2>1, <2>3, <2>4 DEF TypeOK, BatchIsBehind, Running
<1>11. CASE UNCHANGED vars
  BY <1>11 DEF vars, TypeOK, BatchIsBehind
<1> QED
  BY <1>1, <1>2, <1>3, <1>4, <1>5, <1>6, <1>7, <1>8, <1>9, <1>10, <1>11 DEF Next

\* What becomes of the membership in the batch when a message joins it.
LEMMA AppendBatch ==
    ASSUME batch \in Seq(Offsets), NEW n \in Offsets, batch' = Append(batch, n), NEW i \in Offsets
    PROVE  InBatch(i)' <=> InBatch(i) \/ i = n
<1>1. Len(batch) \in Nat /\ Len(batch') = Len(batch) + 1 /\ batch'[Len(batch) + 1] = n
  OBVIOUS
<1>2. \A j \in 1..Len(batch) : batch'[j] = batch[j]
  OBVIOUS
<1> QED BY <1>1, <1>2 DEF InBatch

\* Writing turns messages in memory into rows.
LEMMA WriteSettles ==
    ASSUME TypeOK
    PROVE  \A i \in Offsets : RowsAfterAdd[i] > 0 <=> rows[i] > 0 \/ InBatch(i)
BY RowsGrow DEF TypeOK

\* The batch is forgotten only after a write of it, or after its loss.
LEMMA ForgottenStep ==
    ASSUME TypeOK, BatchIsBehind, ForgottenIsSettled, [Next]_vars
    PROVE  ForgottenIsSettled'
<1>1. CASE Start \/ ResetBatch
  <2>1. batch' = <<>>
    BY <1>1 DEF Start, ResetBatch, EmptyBatch
  <2> QED BY <2>1 DEF ForgottenIsSettled, InBatch
<1>2. CASE \/ HandOver \/ Receive \/ DeserializerRaises \/ ParseRaises \/ Interrupt
           \/ \E stored \in BOOLEAN : AddFails(stored)
  BY <1>2 DEF HandOver, Receive, DeserializerRaises, ParseRaises, Interrupt, AddFails,
              ForgottenIsSettled
<1>3. CASE Add \/ FinalWrite
  <2>1. rows' = RowsAfterAdd /\ UNCHANGED batch
    BY <1>3 DEF Add, FinalWrite
  <2> QED BY <2>1, WriteSettles DEF ForgottenIsSettled, Settled, InBatch
<1>4. CASE Crash \/ \E stored \in BOOLEAN : FinalWriteFails(stored)
  <2>1. dropped' = dropped \cup InMemory /\ UNCHANGED batch
    BY <1>4 DEF Crash, FinalWriteFails
  <2> QED BY <2>1 DEF ForgottenIsSettled, Settled, InBatch, InMemory
<1>5. CASE AutoCommit \/ Close \/ UNCHANGED vars \/ \E v \in Values : Produce(v)
  <2>1. UNCHANGED <<batch, rows, dropped>> /\ (pc' = pc \/ (pc = "close" /\ pc' = "down"))
    BY <1>5 DEF AutoCommit, Close, vars, Produce
  <2> QED BY <2>1 DEF ForgottenIsSettled, Settled, InBatch
<1> QED BY <1>1, <1>2, <1>3, <1>4, <1>5 DEF Next

\* A message in hand is a message of the topic.
LEMMA HeldIsSent ==
    ASSUME TypeOK, BatchIsBehind, pc = "held"
    PROVE  position \in Offsets /\ position > 0
<1>1. position \in Nat /\ position <= Len(topic) /\ Len(topic) <= MaxMessages
      /\ Len(topic) \in Nat /\ MaxMessages \in Nat /\ Len(batch) \in Nat
  BY BoundsAssumption DEF TypeOK, BatchIsBehind
<1>2. Len(batch) <= position - 1
  BY DEF TypeOK
<1> QED BY <1>1, <1>2 DEF Offsets

\* The next message is met, and nothing else changes for the group.
MeetNext ==
    /\ pc = "poll"
    /\ position < Len(topic)
    /\ position' = position + 1
    /\ Met' = Met \cup {position + 1}
    /\ UNCHANGED <<committed, topic>>

\* A step meets the next message, or leaves alone what was met: no write, no
\* failure, no restart and no end of the program takes a message back.
LEMMA MetStep ==
    ASSUME TypeOK, BatchIsBehind, ForgottenIsSettled, [Next]_vars
    PROVE  Met' = Met \/ MeetNext
<1>1. CASE Start \/ ResetBatch
  <2>1. /\ batch' = <<>> /\ UNCHANGED <<rows, dropped>>
        /\ pc \in {"reset", "down"} /\ pc' = "poll"
    BY <1>1 DEF Start, ResetBatch, EmptyBatch
  <2>2. \A i \in Offsets : InBatch(i) => Settled(i)
    BY <2>1 DEF ForgottenIsSettled
  <2>3. \A i \in Offsets : ~InBatch(i)'
    BY <2>1 DEF InBatch
  <2>4. \A i \in Offsets : ~InHand(i) /\ ~InHand(i)'
    BY <2>1 DEF InHand
  <2> QED BY <2>1, <2>2, <2>3, <2>4 DEF Met, InMemory, Settled
<1>2. CASE Receive
  <2>1. /\ pc = "held" /\ pc' \in {"add", "poll"}
        /\ batch' = Append(batch, position)
        /\ UNCHANGED <<position, rows, dropped>>
    BY <1>2 DEF Receive
  <2>2. position \in Offsets
    BY <2>1, HeldIsSent
  <2>3. \A i \in Offsets : InBatch(i)' <=> InBatch(i) \/ i = position
    BY <2>1, <2>2, AppendBatch DEF BatchIsBehind
  <2>4. InMemory' = InMemory
    BY <2>1, <2>3 DEF InMemory, InHand
  <2> QED BY <2>1, <2>4 DEF Met
<1>3. CASE HandOver
  <2>1. /\ pc = "poll" /\ position < Len(topic) /\ position' = position + 1 /\ pc' = "held"
        /\ UNCHANGED <<committed, topic, rows, batch, dropped>>
    BY <1>3 DEF HandOver
  <2>2. position + 1 \in Offsets
    BY <2>1, BoundsAssumption DEF TypeOK, Offsets
  <2>3. \A i \in Offsets : InBatch(i)' <=> InBatch(i)
    BY <2>1 DEF InBatch
  <2>4. InMemory' = InMemory \cup {position + 1}
    BY <2>1, <2>2, <2>3 DEF InMemory, InHand
  <2> QED BY <2>1, <2>4 DEF Met, MeetNext
<1>4. CASE Add \/ FinalWrite \/ \E stored \in BOOLEAN : AddFails(stored)
  <2>1. /\ rows' \in {rows, RowsAfterAdd} /\ UNCHANGED <<batch, dropped>>
        /\ pc \in {"add", "final"} /\ pc' # "held"
    BY <1>4 DEF Add, FinalWrite, AddFails, FailedBatch, AfterFinal
  <2>2. \A i \in Offsets : InBatch(i)' <=> InBatch(i)
    BY <2>1 DEF InBatch
  <2>3. \A i \in Offsets : rows'[i] > 0 \/ InBatch(i)' <=> rows[i] > 0 \/ InBatch(i)
    BY <2>1, <2>2, WriteSettles
  <2>4. \A i \in Offsets : ~InHand(i) /\ ~InHand(i)'
    BY <2>1 DEF InHand
  <2> QED BY <2>1, <2>3, <2>4 DEF Met, InMemory
<1>5. CASE Crash \/ \E stored \in BOOLEAN : FinalWriteFails(stored)
  <2>1. /\ rows' \in {rows, RowsAfterAdd} /\ UNCHANGED batch
        /\ dropped' = dropped \cup InMemory /\ pc' # "held"
    BY <1>5 DEF Crash, FinalWriteFails, AfterFinal
  <2>2. \A i \in Offsets : InBatch(i)' <=> InBatch(i)
    BY <2>1 DEF InBatch
  <2>3. \A i \in Offsets : rows'[i] > 0 \/ InBatch(i)' <=> rows[i] > 0 \/ InBatch(i)
    BY <2>1, <2>2, WriteSettles
  <2>4. \A i \in Offsets : ~InHand(i)'
    BY <2>1 DEF InHand
  <2>5. InMemory' \subseteq InMemory
    BY <2>2, <2>4 DEF InMemory
  <2>6. \A i \in Offsets : i \in Met' <=> i \in Met
    BY <2>1, <2>2, <2>3, <2>5 DEF Met, InMemory
  <2>7. Met \subseteq Offsets /\ Met' \subseteq Offsets
    BY <2>1 DEF Met, InMemory, TypeOK
  <2> QED BY <2>6, <2>7
<1>6. CASE Interrupt \/ ParseRaises
  <2>1. /\ UNCHANGED <<batch, rows, position>> /\ pc' = "final"
        /\ dropped' = IF pc = "held" THEN dropped \cup {position} ELSE dropped
    BY <1>6 DEF Interrupt, ParseRaises
  <2>2. \A i \in Offsets : InBatch(i)' <=> InBatch(i)
    BY <2>1 DEF InBatch
  <2>3. \A i \in Offsets : ~InHand(i)' /\ (InHand(i) => i \in dropped')
    BY <2>1 DEF InHand
  <2>4. pc = "held" => InHand(position) /\ position \in Offsets
    BY HeldIsSent DEF InHand
  <2> QED BY <2>1, <2>2, <2>3, <2>4 DEF Met, InMemory
<1>7. CASE \/ AutoCommit \/ Close \/ DeserializerRaises \/ UNCHANGED vars
           \/ \E v \in Values : Produce(v)
  <2>1. UNCHANGED <<batch, rows, dropped, position>> /\ (pc' = "held" <=> pc = "held")
    BY <1>7 DEF AutoCommit, Close, DeserializerRaises, vars, Produce
  <2>2. \A i \in Offsets : (InBatch(i)' <=> InBatch(i)) /\ (InHand(i)' <=> InHand(i))
    BY <2>1 DEF InBatch, InHand
  <2> QED BY <2>1, <2>2 DEF Met, InMemory
<1> QED BY <1>1, <1>2, <1>3, <1>4, <1>5, <1>6, <1>7 DEF Next

\* What a step does to the offsets: nothing, a start at the committed offset,
\* a commit of the position, or one message further.
LEMMA OffsetStep ==
    ASSUME TypeOK, BatchIsBehind, ForgottenIsSettled, [Next]_vars
    PROVE  \/ UNCHANGED <<committed, position>> /\ (pc' \in Running => pc \in Running)
           \/ position' = committed /\ UNCHANGED <<committed, topic>>
           \/ pc \in Running /\ committed' = position /\ UNCHANGED <<position, topic>>
           \/ MeetNext
<1>1. CASE Start
  BY <1>1 DEF Start, StartOffset
<1>2. CASE AutoCommit \/ Close
  BY <1>2 DEF AutoCommit, Close, Running
<1>3. CASE HandOver
  <2>1. /\ pc = "poll" /\ position < Len(topic) /\ position' = position + 1 /\ pc' = "held"
        /\ UNCHANGED <<committed, topic>>
    BY <1>3 DEF HandOver
  <2>2. position' \in Met'
    <3>1. position + 1 \in Offsets
      BY <2>1, BoundsAssumption DEF TypeOK, Offsets
    <3> QED BY <2>1, <3>1 DEF Met, InMemory, InHand
  <2> QED BY <2>1, <2>2, MetStep DEF MeetNext
<1>4. CASE \/ Receive \/ DeserializerRaises \/ ParseRaises \/ Add \/ ResetBatch \/ Interrupt
           \/ FinalWrite \/ Crash \/ UNCHANGED vars
           \/ \E stored \in BOOLEAN : AddFails(stored) \/ FinalWriteFails(stored)
           \/ \E v \in Values : Produce(v)
  BY <1>4 DEF Receive, DeserializerRaises, ParseRaises, Add, ResetBatch, Interrupt, FinalWrite,
              AfterFinal, Crash, vars, AddFails, FinalWriteFails, Produce, Running
<1> QED BY <1>1, <1>2, <1>3, <1>4 DEF Next

\* While it runs, the consumer met all that is behind it.
LEMMA MetUpToStep ==
    ASSUME TypeOK, BatchIsBehind, ForgottenIsSettled, CommittedIsBehind, MetUpTo, [Next]_vars
    PROVE  CommittedIsBehind' /\ MetUpTo'
<1>0. committed \in Nat /\ position \in Nat
  BY DEF TypeOK
<1>1. Met \subseteq Met'
  BY MetStep DEF MeetNext
<1>2. CASE UNCHANGED <<committed, position>> /\ (pc' \in Running => pc \in Running)
  BY <1>1, <1>2 DEF CommittedIsBehind, MetUpTo
<1>3. CASE position' = committed /\ UNCHANGED <<committed, topic>>
  BY <1>0, <1>1, <1>3 DEF CommittedIsBehind, MetUpTo
<1>4. CASE pc \in Running /\ committed' = position /\ UNCHANGED <<position, topic>>
  BY <1>0, <1>1, <1>4 DEF CommittedIsBehind, MetUpTo
<1>5. CASE MeetNext
  <2>1. pc \in Running /\ position' = position + 1 /\ position + 1 \in Met' /\ UNCHANGED committed
    BY <1>5 DEF MeetNext, Running
  <2>2. 1..position' = (1..position) \cup {position + 1}
    BY <1>0, <2>1
  <2> QED BY <1>0, <1>1, <2>1, <2>2 DEF CommittedIsBehind, MetUpTo
<1> QED BY <1>2, <1>3, <1>4, <1>5, OffsetStep

\* How the allowed number of rows grows with what is spent.
LEMMA AllowedStep ==
    ASSUME TypeOK, UNCHANGED program
    PROVE  /\ Allowed \in Nat
           /\ UNCHANGED spent => Allowed' = Allowed
           /\ Spend("interrupt") \/ Spend("addfailure") => Allowed' = Allowed + 1
           /\ Spend("start") => Allowed' = IF program = "claims" THEN Allowed + 1 ELSE Allowed
           /\ Spend("crash") => Allowed' = IF program = "claims" THEN Allowed ELSE Allowed + 1
<1>0. \A e \in Events : spent[e] \in Nat
  BY DEF TypeOK
<1>1. Allowed \in Nat
  BY <1>0, EventNames DEF Allowed
<1>2. UNCHANGED spent => Allowed' = Allowed
  BY DEF Allowed
<1>3. ASSUME NEW e \in Events, Spend(e)
      PROVE  Allowed' = IF \/ e \in {"interrupt", "addfailure"}
                           \/ e = "start" /\ program = "claims"
                           \/ e = "crash" /\ program # "claims"
                        THEN Allowed + 1 ELSE Allowed
  <2>1. /\ spent'[e] = spent[e] + 1
        /\ \A f \in Events \ {e} : spent'[f] = spent[f]
    BY <1>3, SpendStep
  <2>2. CASE e = "interrupt"
    BY <1>0, <2>1, <2>2, EventNames DEF Allowed
  <2>3. CASE e = "addfailure"
    BY <1>0, <2>1, <2>3, EventNames DEF Allowed
  <2>4. CASE e = "start"
    BY <1>0, <2>1, <2>4, EventNames DEF Allowed
  <2>5. CASE e = "crash"
    BY <1>0, <2>1, <2>5, EventNames DEF Allowed
  <2> QED BY <2>2, <2>3, <2>4, <2>5 DEF Events
<1> QED BY <1>1, <1>2, <1>3, EventNames

\* Every write takes the room of a pending message, and a message becomes
\* pending again only with a start, a crash, an interrupt or a failed write.
LEMMA RoomStep ==
    ASSUME TypeOK, BatchIsBehind, RoomForPending, [Next]_vars
    PROVE  RoomForPending'
<1>0. /\ position \in Nat /\ committed \in Nat
      /\ \A i \in Offsets : i \in Nat /\ rows[i] \in Nat
      /\ Offsets' = Offsets /\ Allowed \in Nat
  <2>1. Allowed \in Nat
    <3>1. \A e \in Events : spent[e] \in Nat
      BY DEF TypeOK
    <3> QED BY <3>1, EventNames DEF Allowed
  <2> QED BY <2>1 DEF TypeOK, Offsets
<1>1. UNCHANGED program
  BY DEF Next, Produce, Start, AutoCommit, HandOver, Receive, DeserializerRaises, ParseRaises,
         Add, ResetBatch, AddFails, Interrupt, FinalWrite, FinalWriteFails, Close, Crash, vars
<1>2. program \in {"messages", "claims"}
  BY ConstantsAssumption DEF TypeOK
<1>3. ASSUME NEW i \in Offsets, InBatch(i), pc \in Running
      PROVE  i <= position
  BY <1>3 DEF BatchIsBehind, InBatch
<1> SUFFICES ASSUME NEW i \in Offsets
             PROVE  rows'[i] <= Allowed' /\ (Pending(i)' => rows'[i] < Allowed')
  BY <1>0 DEF RoomForPending
<1>4. rows[i] <= Allowed /\ (Pending(i) => rows[i] < Allowed)
  BY DEF RoomForPending
<1>5. RowsAfterAdd[i] = IF InBatch(i) THEN rows[i] + 1 ELSE rows[i]
  BY RowsGrow
<1>6. CASE Start
  <2>1. /\ pc = "down" /\ pc' = "poll" /\ position' = committed /\ batch' = <<>>
        /\ UNCHANGED <<rows, committed>>
    BY <1>6 DEF Start, StartOffset, EmptyBatch
  <2>2. ~InBatch(i)'
    BY <2>1 DEF InBatch
  <2>3. Allowed' = IF program = "claims" THEN Allowed + 1 ELSE Allowed
    BY <1>1, <1>6, AllowedStep DEF Start
  <2>4. CASE program = "claims"
    BY <1>0, <1>4, <2>1, <2>3, <2>4
  <2>5. CASE program = "messages"
    <3>1. Pending(i)' => Pending(i)
      BY <2>1, <2>2, <2>5 DEF Pending, InHand, Running
    <3> QED BY <1>4, <2>1, <2>3, <2>5, <3>1
  <2> QED BY <1>2, <2>4, <2>5
<1>7. CASE AutoCommit \/ ResetBatch \/ Close \/ UNCHANGED vars \/ \E v \in Values : Produce(v)
  <2>1. UNCHANGED <<rows, position, spent>> /\ batch' \in {batch, <<>>}
    BY <1>7 DEF AutoCommit, ResetBatch, EmptyBatch, Close, vars, Produce
  <2>2. Allowed' = Allowed
    BY <1>1, <2>1, AllowedStep
  <2>3. InBatch(i)' => batch' = batch /\ InBatch(i)
    BY <2>1 DEF InBatch
  <2>4. Pending(i)' => Pending(i)
    <3>1. CASE AutoCommit
      BY <1>1, <2>1, <2>3, <3>1 DEF AutoCommit, Pending, InHand, Running
    <3>2. CASE ResetBatch
      <4>1. batch' = <<>> /\ pc = "reset" /\ pc' = "poll"
        BY <3>2 DEF ResetBatch, EmptyBatch
      <4>2. ~InBatch(i)'
        BY <4>1 DEF InBatch
      <4> QED BY <2>1, <4>1, <4>2 DEF Pending, InHand, Running
    <3>3. CASE Close
      BY <1>1, <2>1, <3>3 DEF Close, Pending, InHand, Running
    <3>4. CASE UNCHANGED vars \/ \E v \in Values : Produce(v)
      BY <3>4 DEF vars, Produce, Pending, InHand, InBatch
    <3> QED BY <1>7, <3>1, <3>2, <3>3, <3>4
  <2> QED BY <1>4, <2>1, <2>2, <2>4
<1>8. CASE Receive
  <2>1. /\ pc = "held" /\ batch' = Append(batch, position) /\ pc' \in {"add", "poll"}
        /\ UNCHANGED <<rows, spent, committed, position>>
    BY <1>8 DEF Receive
  <2>2. InBatch(i)' <=> InBatch(i) \/ i = position
    BY <2>1, HeldIsSent, AppendBatch DEF BatchIsBehind
  <2>3. Pending(i)' => Pending(i)
    BY <1>0, <2>1, <2>2 DEF Pending, InHand, Running
  <2> QED BY <1>1, <1>4, <2>1, <2>3, AllowedStep
<1>9. CASE HandOver \/ DeserializerRaises \/ ParseRaises
  <2>1. /\ \/ pc = "poll" /\ pc' = "held" /\ position' = position + 1
           \/ pc \in {"poll", "held"} /\ pc' = "final" /\ position' = position
        /\ UNCHANGED <<rows, spent, committed, batch>>
    BY <1>9 DEF HandOver, DeserializerRaises, ParseRaises
  <2>2. Pending(i)' => Pending(i)
    BY <1>0, <2>1 DEF Pending, InHand, Running, InBatch
  <2> QED BY <1>1, <1>4, <2>1, <2>2, AllowedStep
<1>10. CASE Add \/ FinalWrite
  <2>1. /\ rows' = RowsAfterAdd /\ pc \in {"add", "final"} /\ pc' \in {"reset", "close", "down"}
        /\ pc' = "down" => program = "claims"
        /\ UNCHANGED <<position, committed, batch, spent>>
    BY <1>2, <1>10 DEF Add, FinalWrite, AfterFinal
  <2>2. Allowed' = Allowed
    BY <1>1, <2>1, AllowedStep
  <2>3. CASE InBatch(i)
    <3>1. rows'[i] = rows[i] + 1 /\ rows[i] < Allowed
      BY <1>4, <1>5, <2>1, <2>3 DEF Pending
    <3>2. ~Pending(i)'
      BY <1>0, <1>1, <1>3, <2>1, <2>3 DEF Pending, InHand, Running
    <3> QED BY <1>0, <2>2, <3>1, <3>2
  <2>4. CASE ~InBatch(i)
    <3>1. Pending(i)' => Pending(i)
      BY <1>1, <2>1 DEF Pending, InHand, Running
    <3> QED BY <1>4, <1>5, <2>1, <2>2, <2>4, <3>1
  <2> QED BY <2>3, <2>4
<1>11. ASSUME NEW stored \in BOOLEAN, AddFails(stored)
       PROVE  rows'[i] <= Allowed' /\ (Pending(i)' => rows'[i] < Allowed')
  <2>1. /\ pc = "add" /\ pc' \in {"poll", "final"} /\ rows' \in {rows, RowsAfterAdd}
        /\ (UNCHANGED spent /\ rows' = rows) \/ Spend("addfailure")
        /\ UNCHANGED <<position, batch>>
    BY <1>11 DEF AddFails, FailedBatch
  <2>2. Pending(i)' => Pending(i)
    BY <2>1 DEF Pending, InHand, InBatch, Running
  <2>3. CASE UNCHANGED spent /\ rows' = rows
    BY <1>1, <1>4, <2>2, <2>3, AllowedStep
  <2>4. CASE Spend("addfailure")
    <3>1. Allowed' = Allowed + 1
      BY <1>1, <2>4, AllowedStep
    <3>2. rows'[i] = rows[i] \/ (rows'[i] = rows[i] + 1 /\ rows[i] < Allowed)
      BY <1>4, <1>5, <2>1 DEF Pending
    <3> QED BY <1>0, <1>4, <3>1, <3>2
  <2> QED BY <2>1, <2>3, <2>4
<1>12. ASSUME NEW stored \in BOOLEAN, FinalWriteFails(stored)
       PROVE  rows'[i] <= Allowed' /\ (Pending(i)' => rows'[i] < Allowed')
  <2>1. /\ pc = "final" /\ pc' \in {"close", "down"} /\ rows' \in {rows, RowsAfterAdd}
        /\ pc' = "down" => program = "claims"
        /\ (UNCHANGED spent /\ rows' = rows) \/ Spend("addfailure")
        /\ UNCHANGED <<position, batch>>
    BY <1>2, <1>12 DEF FinalWriteFails, AfterFinal
  <2>2. Pending(i)' => Pending(i)
    BY <1>1, <2>1 DEF Pending, InHand, InBatch, Running
  <2>3. CASE UNCHANGED spent /\ rows' = rows
    BY <1>1, <1>4, <2>2, <2>3, AllowedStep
  <2>4. CASE Spend("addfailure")
    <3>1. Allowed' = Allowed + 1
      BY <1>1, <2>4, AllowedStep
    <3>2. rows'[i] = rows[i] \/ (rows'[i] = rows[i] + 1 /\ rows[i] < Allowed)
      BY <1>4, <1>5, <2>1 DEF Pending
    <3> QED BY <1>0, <1>4, <3>1, <3>2
  <2> QED BY <2>1, <2>3, <2>4
<1>13. CASE Interrupt
  <2>1. UNCHANGED rows /\ Allowed' = Allowed + 1
    BY <1>1, <1>13, AllowedStep DEF Interrupt
  <2> QED BY <1>0, <1>4, <2>1
<1>14. CASE Crash
  <2>1. /\ UNCHANGED rows /\ pc' = "down"
        /\ Allowed' = IF program = "claims" THEN Allowed ELSE Allowed + 1
    BY <1>1, <1>14, AllowedStep DEF Crash
  <2>2. program = "claims" => ~Pending(i)'
    BY <1>1, <2>1 DEF Pending, InHand, Running
  <2> QED BY <1>0, <1>2, <1>4, <2>1, <2>2
<1> QED
  BY <1>6, <1>7, <1>8, <1>9, <1>10, <1>11, <1>12, <1>13, <1>14 DEF Next

-----------------------------------------------------------------------------
\* IInv is an invariant.
LEMMA Invariance == Spec => []IInv
<1>1. IInv /\ [Next]_vars => IInv'
  BY TypeStep, ForgottenStep, MetUpToStep, RoomStep DEF IInv
<1> QED BY InitIInv, <1>1, PTL DEF Spec

\* The messages in memory (message_batch, lines 225-275) are always the newest
\* ones, in order and without a gap, however many writes failed.
THEOREM TypeCorrect == Spec => []TypeOK
<1>1. IInv => TypeOK
  BY DEF IInv
<1> QED BY Invariance, <1>1, PTL

\* enable_auto_commit (line 56) loses nothing but what was in memory when the
\* program was killed or its last write failed, what could not be parsed, and
\* what an interrupt caught between the hand-over and the batch.
THEOREM CommittedAccounted == Spec => []CommittedIsAccountedFor
<1>1. IInv => CommittedIsAccountedFor
  <2> SUFFICES ASSUME IInv, NEW i \in 1..committed
               PROVE  rows[i] > 0 \/ i \in dropped \/ (pc \in Running /\ i \in InMemory)
    BY DEF CommittedIsAccountedFor
  <2>1. i \in Met
    BY DEF IInv, MetUpTo
  <2>2. pc \in Running \/ pc = "down"
    BY DEF IInv, TypeOK
  <2>3. pc = "down" /\ i \in Offsets /\ InBatch(i) => Settled(i)
    BY DEF IInv, ForgottenIsSettled
  <2>4. pc = "down" => ~InHand(i)
    BY DEF InHand
  <2> QED BY <2>1, <2>2, <2>3, <2>4 DEF Met, InMemory, Settled
<1> QED BY Invariance, <1>1, PTL

\* table.add looks for no older row, yet a message gets a second row only for
\* a kill, an interrupt or a write that raised, or, for "claims", a new start.
THEOREM DuplicatesAreBounded == Spec => []DuplicatesBounded
<1>1. IInv => DuplicatesBounded
  BY DEF IInv, RoomForPending, Allowed, DuplicatesBounded
<1> QED BY Invariance, <1>1, PTL

\* Both programs, over all their lives, are handed every message at least once
\* and in order, and commit none that was not handed over.
THEOREM ImplementsAtLeastOnce == Spec => GroupSpec
<1>1. Init => Group!Init
  <2> SUFFICES ASSUME Init PROVE Group!Init
    OBVIOUS
  <2>1. Len(topic) = 0 /\ committed = 0 /\ dropped = {}
    BY DEF Init
  <2>2. \A i \in Offsets : ~InBatch(i) /\ ~InHand(i) /\ ~(rows[i] > 0)
    BY DEF Init, InBatch, InHand
  <2> QED BY <2>1, <2>2 DEF Group!Init, Met, InMemory
<1>2. ASSUME IInv, [Next]_vars
      PROVE  [Group!Next]_<<Len(topic), Met, committed>>
  <2>0. /\ position \in 0..Len(topic) /\ committed \in 0..Len(topic) /\ Len(topic) \in Nat
        /\ pc \in Running => committed <= position /\ 1..position \subseteq Met
    BY <1>2 DEF IInv, TypeOK, CommittedIsBehind, MetUpTo
  <2>1. CASE MeetNext
    <3>1. /\ position + 1 \in 1..Len(topic) /\ Met' = Met \cup {position + 1}
          /\ UNCHANGED <<Len(topic), committed>>
      BY <2>0, <2>1 DEF MeetNext
    <3>2. 1..(position + 1) - 1 \subseteq Met
      BY <2>0, <2>1 DEF MeetNext, Running
    <3> QED BY <3>1, <3>2 DEF Group!Next, Group!Take
  <2>2. CASE Met' = Met
    <3>1. CASE \E v \in Values : Produce(v)
      <4>1. Len(topic') = Len(topic) + 1 /\ UNCHANGED committed
        BY <1>2, <3>1 DEF Produce, IInv, TypeOK
      <4> QED BY <2>2, <4>1 DEF Group!Next, Group!Send
    <3>2. CASE AutoCommit \/ Close
      <4>1. pc \in Running /\ committed' = position /\ UNCHANGED topic
        BY <3>2 DEF AutoCommit, Close, Running
      <4> QED BY <2>0, <2>2, <4>1 DEF Group!Next, Group!Commit
    <3>3. CASE UNCHANGED <<topic, committed>>
      BY <2>2, <3>3
    <3> QED
      BY <1>2, <3>1, <3>2, <3>3
         DEF Next, Start, HandOver, Receive, DeserializerRaises, ParseRaises, Add, ResetBatch,
             AddFails, Interrupt, FinalWrite, FinalWriteFails, Crash, vars
  <2> QED BY <1>2, <2>1, <2>2, MetStep DEF IInv
<1> QED BY Invariance, <1>1, <1>2, PTL DEF Spec, GroupSpec, Group!Spec
=============================================================================
