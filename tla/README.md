# A verification project for aiven-examples

The repository is a collection of programs: samples of how services are used,
and small tools that solutions of their own rest on. Few of them call each
other; what they share is that each drives systems that run beside it (Kafka, PostgreSQL,
OpenSearch, Azure) and must cope with their failures. The project has one
specification per program that keeps state across such calls. Each module
names its source file, and `PROJECT.json` maps every definition to the lines
it stands for.

## Inventory

| Part | State | Operations | What is hard | What makes it correct |
| --- | --- | --- | --- | --- |
| `solutions/pg-sync` (`main.py`, `avro_main.py`, `utilities.py`) | the consumer's position, the group's committed offset, the target table | poll, translate a Debezium change into SQL, execute, commit; retry loops around both; conversion of every value | at-least-once delivery, answers that are lost, crashes and rebalances between execute and commit, instances that lost their partition and go on | the target is always a version of the source as the conversions show it; a commit follows its effect; every change arrives |
| `solutions/diskless-lancedb` (two consumers) | a batch in memory, the offset that the client commits by itself, the table | take a message, append it, write a full batch, final write, close | the commit does not wait for the write; failed writes; interrupts between hand-over and append, and between write and reset | a message that is committed is in the table or its loss is accounted for; no unbounded duplicates |
| `solutions/debezium-diskless/test.py` | two sets of ids shared by three threads, counters, timeouts | insert in batches, consume, join, compare | unsynchronised threads, three timeouts of different length, duplicates, `latest` | a verdict of the test says the truth |
| `kafka/kafka-streams` (`KafkaMusicExample.java`) | song table, play counts, charts, their changelogs | filter, join, count, subtract and add in a top-N list, serialise it | two records per update with others between them; crash and replay into a newer store | the chart is the top of the counts |
| `solutions/migrate-opendistro-security-...` | snapshots of two security configurations, the target's configuration | read, decide, patch section by section, run again | decisions on old snapshots, partial failure, reruns, Python truthiness | a completed run has migrated all; protected entries stay; a rerun changes nothing |
| `solutions/azure-vnet-peering` (`create_peering.sh`) | step files, objects in Azure, a connection at Aiven, who is logged in | 13 steps, clean-up, run again | ids of different runs, steps whose failure is ignored, a session left by an earlier run, waiting for one state only | leftovers stop no run without a cause that is known; a finished run is peered, with its own connection |
| `kafka/python/connector/debezium_pg.py` | services, topic, connector, table, rows, the group's offset | ten steps from services to a consumer, polling with a timeout, started again by the user | half finished runs, lost answers, timeouts nobody looks at, a stale list of topics | rows are stored only where they are captured; leftovers stop no run; every row is printed |
| `solutions/validate-elasticsearch-to-opensearch-migration` | a report, two files of validation data, severities | check versions, read every index twice, compare | writes during the collection, failing requests, digits of version ids | a match is a migrated index; no false alarm |
| `solutions/reapply-ism-policies` | assignments in the cluster state, counts of applied and failed policies | read the assignments, attach them one by one | partial failure, kills, reruns, metadata that is cleared | what is counted as applied is managed unless OpenSearch refused it; no assignment is forgotten |
| test harness, parallel consumer, twitter producer, iceberg generator, autoscaling | see `components` in `PROJECT.json` | | polling with timeouts, cleanup after failure, shared writers | planned, see below |
| client samples, labs, Terraform, Pulumi, dashboards | none of their own | one library call after the other | | not modelled |

The programs interact through the services only. Where two programs meet
(`pg_data_writer.py` and pg-sync, the LanceDB producers and consumers, the
music driver and the streams application) the producer is an action of the
consumer's module. The scripts around a migration from Elasticsearch meet in
the clusters they read and change: `ElasticsearchMigration` composes them.

## Modules

| Module | Models | State and actions |
| --- | --- | --- |
| `PgSync` | pg-sync | `topic` and `history` (what Debezium published and the source table after each message), `target`, whose values went through `Cast` (`cast_values`; `MilliTime` is `milli_time`), and per instance `pc` and `position`. `Deliver`, `Execute`, `SkipTombstone`, `SkipRecord`, `Commit` are the loop; `Crash`, `Restart`, `Rebalance`, `Evict` and a lost answer (`Execute(c, FALSE)`) are what happens to it. |
| `PgSyncView` | what pg-sync promises | the target shows the versions of the source one after the other, each as `Shown` converts it. |
| `PgSyncProofs` | | theorems about `PgSync`. |
| `LanceConsumer` | both LanceDB consumers, chosen by `Programs` | `batch`, `rows` (how often a message is in the table), `committed`, `position`; `dropped` (messages that were in memory when that was lost); one action per step of the loop and of the `finally` branch. `HandOver` moves the position, `Receive` appends the message: between them it is in hand (`pc = "held"`). |
| `LanceConsumerProofs` | | theorems about `LanceConsumer`. |
| `DebeziumDisklessTest` | `test.py` | one program counter per thread, the two shared sets, and Debezium as `Publish` and `Restart`. |
| `DebeziumDisklessTestProofs` | | theorems about `DebeziumDisklessTest`. |
| `TopFiveSongs` | the chart as a data structure | the sorted set and the map beside it, `add`, `remove`, and the serde, which rebuilds the map. |
| `MusicCharts` | the topology | counting and charting tasks, each with what it has processed and what it has committed; `FlushCount` and `PublishRecord` split an update into its two records. |
| `MusicChartsProofs` | | theorems about `TopFiveSongs` and `MusicCharts`. |
| `SecurityMigration` | the migration script | entries as partial functions; `Fetch`, `Add` and `UpdateSection` per section, with every way a request can end (`Send`); `AdminEdit` on the target. |
| `SecurityMigrationProofs` | | theorems about `SecurityMigration`. |
| `AzurePeering` | `create_peering.sh` | a step counter, the files, Azure and Aiven; a step and its failure are two actions (`StartFails` is the one of steps 1, 1A and 1B). Step 13 is four actions: its two logins, the peering and the wait. |
| `AzurePeeringProofs` | | theorems about `AzurePeering`. |
| `DebeziumSetup` | `debezium_pg.py` | `pc` names the method of `run()` that comes next; the services, what runs made, and the group's offsets. `Then` and `Raises` let any request fail after or before its effect. The consumer is `HandOver` and `PrintRow`, with the row in hand between them, and `Interrupt` and `Close`. |
| `DebeziumSetupProofs` | | theorems about `DebeziumSetup`. |
| `AtLeastOnce` | what a consumer group promises | messages are handed to a program that answers for them, in order and perhaps again, and committed only afterwards. `DebeziumSetup` and `LanceConsumer` implement it. |
| `ValidationData` | collector and comparison | two passes over the indices (`CollectIndexInfo`, `CountAgain`), the file, `Severity`. |
| `IsmReapply` | `avn-re-apply-ism-policies.py` | `Connect`, `CheckApplied`, `Retrieve`, `AddPolicy` per index with one of four `Answers`, `Finish`; `Killed` and `ClearMetadata` beside it. |
| `ElasticsearchMigration` | the version check, and the composition | instantiates `ValidationData` for the source and for the target and `IsmReapply` for the target; snapshot, restore and writes happen between their steps. |
| `ElasticsearchMigrationProofs` | | theorems about `ElasticsearchMigration` and the modules it instantiates. |
| `MC...` | | instances for TLC. |

Definitions marked `mutant` are faulty variants of the definition below them.
A run in which one of them takes its place violates the property named in
`PROJECT.json`; the specifications themselves never use them.

## Runs

Runs that hold:

| Run | Shows |
| --- | --- |
| `pgsync_safety` | two instances of `avro_main.py`: the target is a version of the source, its values converted by `cast_values`, unless an evicted instance wrote late; offsets are committed one by one, after their messages took effect |
| `pgsync_view` | without evictions the program implements `PgSyncView`, and with a crash, a lost answer and a rebalance every change is pushed and committed |
| `lance` | what a kill, an interrupt or a failed write can lose or duplicate, for both programs, and that a failed write does not stop the program. Both implement `AtLeastOnce`, where the program answers for a message that was in a batch or is in `dropped`: what was neither is not committed |
| `debtest` | "All messages ... successfully received" of the main thread can be believed, missing ids are not reported by mistake, without a fault the test passes, and the process ends (a bounded number of messages of other runs come) |
| `music_charts` | the charts are the top of the counts and no play of a known song is lost, with a crash, replays, interleaved updates, a chart per genre and a song that is loaded late; the charts settle. Kafka Streams may call the adder or the subtractor first: the order, which a comment of the source relies on, does not matter, since `remove` only deletes an entry with the old count and the serde rebuilds the map |
| `security` | what a completed migration guarantees and that no run takes from the target what it alone has; after failures that end, a rerun completes unless `os-sec-admin` is mapped on the target only |
| `azure` | what can stop a run, and that leftovers of earlier runs do not; that a run in the session of the application changes nothing; what a finished run has reached; a run ends unless Aiven rejects the connection |
| `debsetup` | no row is stored before it is captured, a run is never stopped by what earlier ones left, every row is printed (one that an interrupt catches in hand may be lost), the wait ends; the consumer implements `AtLeastOnce` |
| `esmigration` | the check of three digits finds exactly the versions that cannot be restored; a perfect match is a migrated index and a full migration matches; policies counted as applied are attached, unless OpenSearch refused one with status 200; the migration ends with an answer |

Runs that are expected to find a violation, each a finding in `PROJECT.json`:

| Run | Shows |
| --- | --- |
| `pgsync_redelivered_insert` | `main.py` retries for ever an INSERT that had already taken effect |
| `security_hidden` | hidden entries of the source are migrated, with the flag cleared (line 139); the README of the script says that they are not |
| `security_manager` | the script cannot migrate when `os-sec-admin` is mapped on the target only (line 266) |

Other weaknesses of the programs appear as the exceptions that the properties
state, not as runs of their own:

- pg-sync: an instance that lost its partition stays in its commit loop for
  ever, and a row on which `cast_values` raises (a NULL in a date column)
  blocks the topic. `pgsync_view` has neither.
- pg-sync: `milli_time` drops the fractions of every TIME value (line 53 of
  `utilities.py` takes `milliseconds * sec_conv` away where `seconds * sec_conv`
  is meant, and the rest is not used anyway). The target therefore never shows
  the source's fractions, and two versions of the source that differ in them
  only look the same in it. The properties compare the target with
  `Cast(version)`, and the theorems say no more.
- LanceDB: a value that is no object makes every later write fail, since its
  batch is kept (`StoresUnlessPoisoned` excepts it, although a comment says
  "Continue processing despite error"). An interrupt between the hand-over of a
  message (line 231) and its append (line 241) loses the message, and the
  position that `close()` commits is past it. `close()` commits messages whose final write failed;
  `CommittedIsAccountedFor` lists both among the ways to lose a message.
- `test.py`: the consumer thread prints "All expected messages received!" when
  nothing was expected yet, so only main's verdict is believed. Rows that were replicated are reported missing if the consumer
  got its partition late or `join` timed out (`MissingIsMissing` only promises
  that something went wrong), and rows of the run itself are reported as "not
  from this run" if the producer did not get to share its ids.
- Music charts: a play that is joined before its song is known is dropped for
  ever (`NoPlayIsLost` speaks of known songs).
- Security: an error answer of the source is taken for an empty section
  (`CompletedMeansMigrated` excepts it). Fields of a target entry that somebody
  edited after the snapshot are overwritten (`TargetIsKept` excepts edited
  entries). What `CompletedMeansMigrated` requires of a completed run follows
  the code, which migrates hidden entries and merges into existing ones;
  `README.md` of the script says otherwise of the hidden ones
  (`security_hidden`).
- Peering: ids of two applications mix when a command fails and the file of an
  earlier run is read in its place. Only the login and the peering of step 13
  notice; `ErrorsHaveACause` says that this happens in no run without a failed
  command. That Azure refuses a peering to an application without its role is
  assumed.
- `debezium_pg.py`: `get_error_message` (line 48) calls `json.loads` on the
  exception itself and raises, so "Kafka Connect not yet available" (line 118)
  and "service not yet available. Waiting." (line 135) end the run instead of
  waiting; the user has to start it again (`AfterError`). `RowsAreCaptured`
  holds because of this: with the retry as intended, `create_conector` could
  time out and rows be stored without a connector (its mutant). The interrupt
  that ends the consumer may come when kafka-python has moved the position past
  a message (line 181) that is not printed yet (line 183): line 185 then commits
  it unprinted. `EveryRowIsPrinted` and `FeedSpec` except that one row.
- Migration: after a failed version check "No issues found." is printed all
  the same. Values that could not be read on either side are equal, which
  counts as a match (`MatchIsMigrated` excepts it); an index list that could
  not be read gives an empty file, so that every index of the source is
  missing, or, on the source, none is compared. Aliases that could not be read
  end the collector (`CountAgainRaises`).
- ISM policies: an answer with status 200 whose body says that OpenSearch did
  not attach the policy (to a closed index, say) counts as applied, since line
  84 looks at the status only. `CountsAreTrue` excepts `refused` indices; the
  comparison of the validation data does not call them a match
  (`MatchIsMigrated`). The message at line 161 says that `--force` is needed to go on,
  but the script goes on without it; `CheckApplied` has no effect.

### Bounds

Every bound is a constant named `Max...`. Faults of each kind are limited to
one or two per behaviour: all the properties are about what one fault can do
to a step and how the next steps deal with it, and two let a fault hit the
recovery from the first one. Two keys give pg-sync insert, update, delete and
insert again of one key beside another one; four messages are enough for a
delete with its tombstone between two other changes. Of its three rows two
differ in the fractions of a TIME only, which the target does not show, and two
in something it does. Three
rows in batches of two give the test an uncommitted rest; a message of another
run keeps the consumer from its timeout once, which an unbounded stream of them
would do for ever. Two songs and a
chart of one let a song be evicted and come back; one of them is in both charts
and may be loaded late, and the play that is there at the start may be one of
it, which is then dropped, or one of the other. Charts of any size and any
number of songs are covered by the theorems. Two sections
of the security configuration, one with the special rules of `rolesmapping`
and one with hidden password hashes, let a run end between them. Three runs of
the peering script allow a run to meet the files of two others. In `debsetup`
three failures let an answer be lost, the rerun be killed and a service go
down, and two interrupts make three runs share the group. `esmigration` has two indices with
policies, the least for a re-application that stops half way; one of them is
of a version on either side of each bound of the check (6.8, 7.0, 7.10, 7.11,
OpenSearch 2.15 and 3.0); one write falls before, between or after the snapshot
and the two counts, and two re-applications allow one to be killed or to lose
an answer and the other to follow it. Deadlock is
not checked where the bounds or the program itself end a behaviour.

The symmetry of `pgsync_safety` is over the instances, which are only compared; no liveness run uses symmetry.

### Fairness

Weak fairness is assumed of what a loop does by itself: a consumer that polls,
a script that goes from one step to the next, a Kafka Streams task, a restart
by the supervisor, a group that assigns its partitions. Timeouts in the test
have it, since they fire if nothing else happens. Faults, edits, interrupts,
producers and messages of others have none. In `security` the user starts the script again after
each failure, as its README suggests; so does the user of `debsetup`, and in
`esmigration` the user runs the script that is due. There the services have
fairness too: a service that is being built gets ready and Debezium publishes.

## Proofs

Every safety invariant, action property and refinement that a passing run
checks is also proved, for all values of the constants that satisfy the named
assumptions of the modules: any number of keys, rows, songs, sections, indices
and faults. `PROJECT.json` lists the theorems. Each proof has one step per
action of `Next`; what several of them need is a lemma. The invariants below
were checked by TLC on the instances of the runs before they were proved.

**`PgSyncProofs`.** `TypeCorrect`, `CommitFollowsEffect`, `ReplicaIsFaithful`,
`StaleWritesAreEvictions`, `CommitMonotone`, and `ImplementsView`: without
evictions and with rows that can be identified, `PgSync` implements
`PgSyncView`. That the target is a version of the source is not inductive. The
invariant `IInv` adds what it rests on: `HistoryInv` (each version differs from
the one before by the message between them, whose before image is the replaced
row), `PositionInv` (where an instance's position is, relative to the committed
offset, depending on what it is doing), `AppliedInv` (what has taken effect is
at most one message ahead of the commit) and `EvictedInv` (who works on a
message without owning the partition was evicted). The argument is then that
the only statement ever executed twice in a row is the newest one, and that
executing it on the version it produced changes nothing (`ReplayIsExact`). The
versions are those that `Cast` shows (`ShownExcept`): casting twice is casting
once (`CastFacts`), which keeps the WHERE clause, whose values are cast too,
meeting the row that was written.

**`LanceConsumerProofs`.** `TypeCorrect`, `CommittedAccounted`,
`DuplicatesAreBounded` and `ImplementsAtLeastOnce`, for both programs at once.
What a committed message became of is inductive only together with what became
of every message below the position (`MetUpTo`), and the bound on duplicates
only together with the room that a message in the batch still needs
(`RoomForPending`): it is stored once more whenever its batch is written. A
message in hand belongs to what is in memory (`InMemory`), and is accounted for
as dropped when an interrupt comes.

**`DebeziumDisklessTestProofs`.** `SuccessIsReal`, `CleanRunSucceeds` and
`MissingIsReal`. The shared set of inserted ids is empty or complete, since it
is filled in one step, and received ids are in the topic. For a run without
faults `CleanInv` says more: rows are published once and in order, the
consumer's counter is the number of ids it has, and it ends only when it has
them all.

**`DebeziumSetupProofs`.** `TypeCorrect`, `RowsCaptured`,
`LeftoversAreHarmless` and `ImplementsAtLeastOnce` (the consumer of all runs
refines `AtLeastOnce`). `RowsAreCaptured` is not inductive: `MadeInOrder` adds
that each step of `run()` is reached only when the object of the step before
exists, and that the list of topics is never ahead of the topics; `ListIsFresh`
that it is not behind them when the topic is created. The refinement rests on
`OffsetsInOrder`: everything below the position, but for the row in hand, has
been printed, by this run or an earlier one, or was dropped by an interrupt.

**`MusicChartsProofs`.** `TypeCorrect`, `PlaysSurviveCrashes` and
`ChartsAreRight`. The first part is about the aggregate: `TreeSet.last()`
exists (a minimal element of a well-founded relation, no induction is needed),
the serde restores a store with one entry per song, and `AddResult` and
`SubtractResult` say what the adder and the subtractor make of it. No play is
lost because the counts saved are never behind the plays committed
(`PlaysAreCounted`). That the charts end up right takes three facts, none of
which is inductive alone:

- A count that is not on its way to the charts stands in their records, or a
  play of its song will be counted again (`IdleIsShown`; `SavedIsShown` is the
  same for the state a crash goes back to). A record that a crash loses is
  therefore always followed by another one.
- A standing entry that was read is in the chart, or `Size` other songs have
  published a count before it (`StandingIsShown`). This also holds of the saved
  store at the saved position, which is what a crash of the charting task needs.
- What was published once is reached again (`ReachIsSaved`, `PublishedOK`): the
  count of a song plus its plays ahead never shrinks, so that who has beaten an
  entry before still does in the end, even if a crash set the count back.

When nothing is left to do, the first two put every entry of the top into the
chart; a chart is not longer than `Size` and shows only counted songs, so it is
the top (`ChartIsTop`, by the lemma that the top is full unless it is
everything, `TopIsFull`). Nothing in the argument depends on whether the adder
or the subtractor is called first.

**`SecurityMigrationProofs`.** `CompletedIsTrue`, `RerunsAreIdempotent` and
`TargetStaysIntact`. Lemmas about entries say that what a merge or an addition
produces is left alone by the next one (`MergedIsStable`, `AddedIsStable`), and
that what is left alone is migrated (`StableIsMigrated`). The invariant follows
a run through its sections: those already done are stable unless edited
(`FinishedIsStable`, `SyncedIsStable`), and what the run knows of the others is
what the target still holds unless edited (`PendingIsFresh`,
`MigratingIsFresh`).

**`AzurePeeringProofs`.** `ErrorsAreExplained`,
`AppSessionIsHarmless` and `SuccessMeansPeered`. `RunInv` states what an
undisturbed run has established before each of its steps: the user is logged
in, the application exists, principal and secret are the application's, the
roles are granted, the connection is the application's. Each step's failure
then has no cause left but those that are recorded.

**`ElasticsearchMigrationProofs`.** `ReportsAreExact`, `CountsTruth`,
`MatchesAreMigrated` and `FullMigrationsMatch`. The version check is arithmetic
on ids of up to nine digits. The others follow the data: `SnapshotOK` and
`TargetOK` (what the target holds comes from the snapshot), `CollectingOK` and
`FilesOK` (what a file says was true of its cluster when it was read),
`PoliciesOK` and `CountsOK` (a policy is attached to what was counted), and
`ResultOK` (the comparison is the one of the two files).

Assumptions on constants, which TLC evaluates in every run, and why the code
justifies them: bounds are natural numbers. A chart has at least one place and
the song table is finite. The documents of the source hold the hash of every
user (the reason for reading them directly, lines 58-60 of the script), a
mapping of the target has its list of users (line 263 reads it without a
default), a flag that is not set is left out (`untouchable_if_field_set` does
not tell the two apart), and no section is listed twice. A version has parts of
two digits, and no index is older than Elasticsearch 2: the three digits of an
older one (107 for 1.7) would pass the check, but no cluster whose snapshot is
taken for this migration can read one.

Not proved, only model-checked, is everything about liveness, which is beyond
the prover together with `ENABLED`: `EveryChangeIsPushed`,
`StoresUnlessPoisoned`, `ProcessEnds`, `ChartsSettle`,
`CompletesUnlessConflict`, `RunEnds`, `EveryRowIsPrinted`, `RunGetsThrough` and
`EndsWithAnAnswer`. `ChartsSettle` is `ChartsAreTop`, which is proved, together
with the promise that the tasks get everything done.

## Assumptions

- pg-sync: one topic with one partition; Debezium publishes each change of the
  source once and in order. A key column is no TIME column with fractions:
  two keys that differ in them only would be one key in the target.
- A PATCH of the OpenSearch security API is applied as a whole or not at all,
  and is refused for reserved and hidden entries.
- The driver of the music charts loads every song once, and none is changed or
  deleted afterwards. An id therefore stands for the whole `Song` record by
  which line 361 groups.
- A commit in `close()` that fails leaves what a kill at that point leaves:
  `LanceConsumer` has no action of its own for it.
- `az` commands change nothing when they fail; creating a peering connection
  that exists is refused. The project VPC at Aiven and the user's subscription,
  resource group and VNet are the same in all runs.
- OpenSearch attaches a policy to an index only if it has none, answers 200 to
  the request also then or when it refuses the policy for another reason, lists
  no index without a policy in the answer to `Retrieve` (its `filter_path`; lines
  68-71 warn of one and go on), and clears the metadata of managed indices only; an
  index restores if it was created by Elasticsearch 7.0 to 7.10 or OpenSearch 1
  or 2. The patterns of the collector match every index once.
- Kafka Streams commits a task's offsets and changelog together with what it
  has sent, and after a crash the changelog may be newer than the offsets.

## Not modelled

Message formats, certificates, logging, argument parsing, the columns of rows
that no code branches on, and what `jq` prints for a missing field. The
client samples, labs, declarative configuration and generated classes have no
behaviour of their own to check.

## Plan

1. Done: pg-sync, the LanceDB consumers, the replication test, the music
   charts, the security migration, the peering script, the connector setup and
   the migration from Elasticsearch, all with proofs of their safety.
2. Next modules, in this order: `TestHarness` (`tests/__init__.py` and
   `tests/test_aiven_examples.py`: services powered on and off by a pool of
   threads, what a failed test leaves behind), `ParallelConsumer` (consumer
   threads and shutdown), `TwitterProducer` (a shared writer that is closed
   after a message), the iceberg generator, the autoscaler, and
   `pg_data_writer.py` (rows are written only while the replication slot is
   there, which is checked before the insert).
3. Abstract specifications worth stating: the top of a bag of plays for
   `MusicCharts`.
4. Theorems worth proving next: that `MusicCharts` implements such a
   specification, that the counts never exceed the plays when nothing crashed,
   and that `SecurityMigration` leaves untouchable entries alone.
