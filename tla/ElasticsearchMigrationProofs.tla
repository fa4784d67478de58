-------------------- MODULE ElasticsearchMigrationProofs --------------------
(***************************************************************************)
(* What the scripts of a migration print is true, for all indices,         *)
(* policies and versions, and all numbers of writes and failures: the      *)
(* check of the versions, the counts of re-applied policies, and a perfect *)
(* match of the validation data.                                           *)
(***************************************************************************)
EXTENDS ElasticsearchMigration, TLAPS

Aliases == {"none", "read", "write"}
AnyPolicy == Policies \cup {NoPolicy}

\* What a collector knows of an index.
Entry ==
    [aliases : Aliases \cup {Unread}, ism_policy : AnyPolicy \cup {Unread},
     document_count : Nat \cup {Unread}, document_count2 : Nat \cup {Unread},
     document_count_delta : BOOLEAN, has_write_alias : BOOLEAN]

\* Two states of an index between which only documents were indexed.
SameSettings(a, b) == a.policy = b.policy /\ a.aliases = b.aliases /\ a.created = b.created

\* The snapshot is an earlier state of the source.
SnapshotOK ==
    /\ source \in [DOMAIN source -> Index]
    /\ snap # <<>> =>
          /\ snap[1] \in [DOMAIN source -> Index]
          /\ \A i \in DOMAIN source : SameSettings(snap[1][i], source[i])

\* The target is part of the snapshot, managed by no policy or the old one.
TargetOK ==
    /\ target \in [DOMAIN target -> Index]
    /\ DOMAIN target \subseteq DOMAIN source
    /\ restore = "none" => DOMAIN target = {} /\ DOMAIN metadata = {}
    /\ restore # "none" => snap # <<>>
    /\ \A i \in DOMAIN target :
          /\ target[i].docs = snap[1][i].docs
          /\ target[i].policy \in {NoPolicy, source[i].policy}
          /\ restore = "full" => target[i].aliases = source[i].aliases

\* A policy that metadata or assignments name is the one of the source.
OldPolicies(f) ==
    /\ DOMAIN f \subseteq DOMAIN target
    /\ \A i \in DOMAIN f : f[i] = source[i].policy /\ f[i] # NoPolicy

PoliciesOK == OldPolicies(metadata) /\ OldPolicies(assignments)

\* Every assignment is still to be made or counted, once.
CountsOK ==
    /\ applied \subseteq DOMAIN target
    /\ CountsAreTrue
    /\ step \in {"check", "retrieve"} => applied = {} /\ failed = {}
    /\ step = "add" =>
          /\ applied \cup failed \cup todo = DOMAIN assignments
          /\ (applied \cup failed) \cap todo = {}

\* One script runs at a time, and none collects what is there.
JobOK ==
    /\ job = "none" <=> step = "idle"
    /\ job \in {"collect source", "collect target"} <=> step \in {"first", "second"}
    /\ job = "reapply" <=> step \in {"check", "retrieve", "add"}
    /\ job = "collect source" => file1 = <<>>
    /\ job = "collect target" => file2 = <<>>
    /\ restore = "none" => job \notin {"collect target", "reapply"} /\ file2 = <<>>

\* An entry says of an index what was true, or that a request failed.
True(d, index) == d.aliases \in {Unread, index.aliases} /\ d.ism_policy \in {Unread, index.policy}

CountsTrue(d, index) ==
    d.document_count \in {Unread, index.docs} /\ d.document_count2 \in {Unread, index.docs}

\* An entry that was counted again has its aliases.
Complete(d) == d.aliases # Unread /\ d.has_write_alias = (d.aliases = "write")

Collecting(cluster) ==
    /\ info \in [DOMAIN info -> Entry]
    /\ DOMAIN info \subseteq DOMAIN cluster
    /\ todo \subseteq DOMAIN cluster
    /\ step = "second" =>
          /\ todo \subseteq DOMAIN info
          /\ \A i \in DOMAIN info \ todo : Complete(info[i])
    /\ \A i \in DOMAIN info : True(info[i], cluster[i])

CollectingOK ==
    /\ job = "collect source" => Collecting(source)
    /\ job = "collect target" =>
          Collecting(target) /\ \A i \in DOMAIN info : CountsTrue(info[i], target[i])

Written(d, cluster) ==
    /\ DOMAIN d \subseteq DOMAIN cluster
    /\ \A i \in DOMAIN d : True(d[i], cluster[i]) /\ Complete(d[i])

\* The target does not change between a collection and the comparison.
FilesOK ==
    /\ file1 # <<>> => Written(file1[1], source)
    /\ file2 # <<>> =>
          Written(file2[1], target) /\ \A i \in DOMAIN file2[1] : CountsTrue(file2[1][i], target[i])

ResultOK ==
    result # <<>> =>
        /\ file1 # <<>> /\ file2 # <<>>
        /\ result[1] = [i \in DOMAIN file1[1] |-> Source!Severity(file1[1], file2[1], i)]

IInv ==
    /\ SnapshotOK /\ TargetOK /\ PoliciesOK /\ CountsOK
    /\ JobOK /\ CollectingOK /\ FilesOK /\ ResultOK
    /\ ReportIsExact

-----------------------------------------------------------------------------
(* The clusters.                                                           *)

\* Only documents are added to the source, and only Write does that.
LEMMA SourceStep ==
    ASSUME SnapshotOK, [Next]_vars
    PROVE  /\ DOMAIN source' = DOMAIN source /\ source' \in [DOMAIN source -> Index]
           /\ \A i \in DOMAIN source : SameSettings(source'[i], source[i])
<1>1. ASSUME NEW i \in DOMAIN source, Write(i)
      PROVE  /\ DOMAIN source' = DOMAIN source /\ source' \in [DOMAIN source -> Index]
             /\ \A j \in DOMAIN source : SameSettings(source'[j], source[j])
  <2>1. source' = [source EXCEPT ![i] = [source[i] EXCEPT !.docs = source[i].docs + 1]]
    BY <1>1 DEF Write
  <2>2. source[i] \in Index
    BY DEF SnapshotOK
  <2>3. /\ [source[i] EXCEPT !.docs = source[i].docs + 1] \in Index
        /\ SameSettings([source[i] EXCEPT !.docs = source[i].docs + 1], source[i])
    BY <2>2 DEF Index, SameSettings
  <2> QED BY <2>1, <2>3 DEF SnapshotOK, SameSettings
<1>2. CASE UNCHANGED source
  BY <1>2 DEF SnapshotOK, SameSettings
<1> QED
  BY <1>1, <1>2
     DEF Next, Migrate, PreSnapshotChecks, TakeSnapshot, Restore, CollectSource, CollectTarget,
         Reapply, Compare, ClearMetadata, vars, clusters, Source!CollectStep,
         Source!GetMatchingIndices, Source!CollectIndexInfo, Source!CountAgain,
         Source!CountAgainRaises, Source!Wait, Source!WriteFile

\* The snapshot is taken once and stays.
LEMMA SnapshotStep ==
    ASSUME SnapshotOK, [Next]_vars
    PROVE  SnapshotOK' /\ (snap' = snap \/ snap = <<>>)
<1>1. CASE TakeSnapshot
  <2>1. snap' = <<source>> /\ snap = <<>> /\ source' = source
    BY <1>1 DEF TakeSnapshot
  <2>2. snap'[1] = source
    BY <2>1
  <2> QED BY <2>1, <2>2 DEF SnapshotOK, SameSettings
<1>2. CASE UNCHANGED snap
  BY <1>2, SourceStep DEF SnapshotOK, SameSettings
<1> QED
  BY <1>1, <1>2
     DEF Next, Migrate, PreSnapshotChecks, Restore, CollectSource, CollectTarget, Reapply, Compare,
         ClearMetadata, Write, vars, clusters

\* A policy is attached to an index that has none, in the step that adds them.
Attach(i) ==
    /\ step = "add"
    /\ i \in todo
    /\ target[i].policy = NoPolicy
    /\ target' = [target EXCEPT ![i].policy = assignments[i]]

\* What the re-application does to the target.
LEMMA ReapplyTarget ==
    ASSUME Ism!ReapplyStep
    PROVE  (UNCHANGED target \/ \E i \in todo : Attach(i)) /\ UNCHANGED metadata
<1>1. ASSUME NEW i \in todo, NEW answer \in Ism!Answers, Ism!AddPolicy(i, answer)
      PROVE  (UNCHANGED target \/ \E j \in todo : Attach(j)) /\ UNCHANGED metadata
  BY <1>1 DEF Ism!AddPolicy, Attach
<1> QED
  BY <1>1 DEF Ism!ReapplyStep, Ism!Connect, Ism!CheckApplied, Ism!Retrieve, Ism!Finish, Ism!Killed

\* What a step may do to the target: restore it, attach a policy, or nothing.
LEMMA TargetActions ==
    ASSUME [Next]_vars
    PROVE  \/ UNCHANGED <<target, restore>>
           \/ \E i \in todo : Attach(i) /\ Reapply /\ UNCHANGED <<restore, metadata, snap>>
           \/ \E some \in SUBSET DOMAIN source, aliases, globalState \in BOOLEAN :
                 Restore(some, aliases, globalState)
BY ReapplyTarget
   DEF Next, Migrate, PreSnapshotChecks, TakeSnapshot, CollectSource, CollectTarget,
       Reapply, Compare, ClearMetadata, Ism!ClearMetadata, Write, vars, clusters,
       Target!CollectStep, Target!GetMatchingIndices, Target!CollectIndexInfo,
       Target!CountAgain, Target!CountAgainRaises, Target!Wait, Target!WriteFile

\* A policy that is attached leaves the rest of the index alone.
LEMMA AttachEffect ==
    ASSUME SnapshotOK, TargetOK, PoliciesOK, CountsOK, NEW i \in todo, Attach(i)
    PROVE  /\ i \in DOMAIN target /\ DOMAIN target' = DOMAIN target
           /\ target' \in [DOMAIN target -> Index]
           /\ target'[i].policy = source[i].policy
           /\ \A j \in DOMAIN target :
                 /\ j # i => target'[j] = target[j]
                 /\ target'[j].docs = target[j].docs /\ target'[j].aliases = target[j].aliases
<1>1. i \in DOMAIN assignments
  BY DEF CountsOK, Attach
<1>2. i \in DOMAIN target /\ assignments[i] = source[i].policy /\ i \in DOMAIN source
  BY <1>1 DEF PoliciesOK, OldPolicies, TargetOK
<1>3. source[i] \in Index /\ target[i] \in Index
  BY <1>2 DEF SnapshotOK, TargetOK
<1> DEFINE new == [target[i] EXCEPT !.policy = source[i].policy]
<1>4. /\ new \in Index /\ new.policy = source[i].policy
      /\ new.docs = target[i].docs /\ new.aliases = target[i].aliases
  BY <1>3 DEF Index
<1>5. target' = [target EXCEPT ![i] = new]
  BY <1>2 DEF Attach
<1> HIDE DEF new
<1> QED BY <1>2, <1>4, <1>5 DEF TargetOK

\* What is restored are indices of the snapshot without a policy.
LEMMA RestoreEffect ==
    ASSUME SnapshotOK, NEW some \in SUBSET DOMAIN source, NEW aliases \in BOOLEAN,
           NEW globalState \in BOOLEAN, Restore(some, aliases, globalState)
    PROVE  /\ target' \in [some -> Index]
           /\ \A i \in some :
                 /\ target'[i].docs = snap[1][i].docs
                 /\ target'[i].policy = NoPolicy
                 /\ restore' = "full" => target'[i].aliases = source[i].aliases
           /\ restore' # "none" /\ restore = "none" /\ snap # <<>> /\ UNCHANGED <<source, snap>>
           /\ DOMAIN metadata' \subseteq some
           /\ \A i \in DOMAIN metadata' :
                 metadata'[i] = source[i].policy /\ metadata'[i] # NoPolicy
<1>1. /\ snap # <<>> /\ restore = "none" /\ restore' # "none" /\ UNCHANGED <<source, snap>>
      /\ restore' = "full" => aliases
  BY DEF Restore
<1>2. snap[1] \in [DOMAIN source -> Index] /\ \A i \in DOMAIN source : SameSettings(snap[1][i], source[i])
  BY <1>1 DEF SnapshotOK
<1> DEFINE new(i) == [snap[1][i] EXCEPT !.policy = NoPolicy,
                                        !.aliases = IF aliases THEN snap[1][i].aliases ELSE "none"]
<1>3. ASSUME NEW i \in some
      PROVE  /\ new(i) \in Index /\ new(i).docs = snap[1][i].docs /\ new(i).policy = NoPolicy
             /\ aliases => new(i).aliases = source[i].aliases
  <2>1. snap[1][i] \in Index /\ snap[1][i].aliases = source[i].aliases
    BY <1>2 DEF SameSettings
  <2> QED BY <2>1 DEF Index
<1>4. target' = [i \in some |-> new(i)]
  BY DEF Restore
<1>5. metadata' = [i \in {j \in some : globalState /\ snap[1][j].policy # NoPolicy} |-> snap[1][i].policy]
  BY DEF Restore
<1>6. /\ DOMAIN metadata' \subseteq some
      /\ \A i \in DOMAIN metadata' : metadata'[i] = source[i].policy /\ metadata'[i] # NoPolicy
  BY <1>2, <1>5 DEF SameSettings
<1> HIDE DEF new
<1> QED BY <1>1, <1>3, <1>4, <1>6

\* The target stays a part of the snapshot.
LEMMA TargetStep ==
    ASSUME SnapshotOK, TargetOK, PoliciesOK, CountsOK, [Next]_vars
    PROVE  TargetOK'
<1>0. DOMAIN source' = DOMAIN source /\ \A i \in DOMAIN source : SameSettings(source'[i], source[i])
  BY SourceStep
<1>1. CASE UNCHANGED <<target, restore>>
  <2>1. restore = "none" => DOMAIN metadata' = {}
    <3>1. CASE ClearMetadata
      BY <3>1 DEF ClearMetadata, Ism!ClearMetadata, TargetOK
    <3>2. CASE UNCHANGED metadata
      BY <3>2 DEF TargetOK
    <3>3. ASSUME NEW some, NEW aliases, NEW globalState, Restore(some, aliases, globalState)
          PROVE  FALSE
      BY <1>1, <3>3 DEF Restore
    <3> QED
      BY <3>1, <3>2, <3>3, ReapplyTarget
         DEF Next, Migrate, PreSnapshotChecks, TakeSnapshot, CollectSource, CollectTarget,
             Reapply, Compare, Write, vars, clusters
  <2>2. restore # "none" => snap' = snap
    BY SnapshotStep DEF TargetOK
  <2>3. restore = "none" => DOMAIN target = {}
    BY DEF TargetOK
  <2> QED BY <1>0, <1>1, <2>1, <2>2, <2>3 DEF TargetOK, SameSettings
<1>2. ASSUME NEW i \in todo, Attach(i), Reapply, UNCHANGED <<restore, metadata, snap>>
      PROVE  TargetOK'
  <2>1. UNCHANGED source
    BY <1>2 DEF Reapply
  <2> QED BY <1>2, <2>1, AttachEffect DEF TargetOK
<1>3. ASSUME NEW some \in SUBSET DOMAIN source, NEW aliases \in BOOLEAN, NEW globalState \in BOOLEAN,
             Restore(some, aliases, globalState)
      PROVE  TargetOK'
  BY <1>3, RestoreEffect DEF TargetOK
<1> QED BY <1>1, <1>2, <1>3, TargetActions

-----------------------------------------------------------------------------
(* avn-re-apply-ism-policies.py                                            *)

\* The target loses no index.
LEMMA TargetGrows ==
    ASSUME SnapshotOK, TargetOK, PoliciesOK, CountsOK, [Next]_vars
    PROVE  DOMAIN target \subseteq DOMAIN target'
<1>1. ASSUME NEW some \in SUBSET DOMAIN source, NEW aliases \in BOOLEAN, NEW globalState \in BOOLEAN,
             Restore(some, aliases, globalState)
      PROVE  DOMAIN target = {}
  BY <1>1, RestoreEffect DEF TargetOK
<1> QED BY <1>1, TargetActions, AttachEffect

\* A collector touches nothing of the re-application.
LEMMA CollectorsSteps ==
    ASSUME CollectSource \/ CollectTarget
    PROVE  /\ UNCHANGED <<reapplying, metadata, target, restore, snap, source, report, result>>
           /\ step \in {"idle", "first", "second"} /\ step' \in {"idle", "first", "second"}
BY DEF CollectSource, CollectTarget, Source!CollectStep, Target!CollectStep,
       Source!GetMatchingIndices, Source!CollectIndexInfo, Source!CountAgain,
       Source!CountAgainRaises, Source!Wait, Source!WriteFile, Target!GetMatchingIndices,
       Target!CollectIndexInfo, Target!CountAgain, Target!CountAgainRaises, Target!Wait,
       Target!WriteFile

\* The assignments are those of the metadata, which are those of the snapshot.
LEMMA PoliciesStep ==
    ASSUME SnapshotOK, TargetOK, PoliciesOK, CountsOK, [Next]_vars
    PROVE  PoliciesOK'
<1>0. /\ DOMAIN source' = DOMAIN source /\ DOMAIN target \subseteq DOMAIN target'
      /\ \A i \in DOMAIN source : SameSettings(source'[i], source[i])
      /\ DOMAIN target \subseteq DOMAIN source
  BY SourceStep, TargetGrows DEF TargetOK
<1>1. ASSUME NEW f, OldPolicies(f)
      PROVE  /\ DOMAIN f \subseteq DOMAIN target'
             /\ \A i \in DOMAIN f : f[i] = source'[i].policy /\ f[i] # NoPolicy
  BY <1>0, <1>1 DEF OldPolicies, SameSettings
<1>2. CASE UNCHANGED <<metadata, assignments>>
  BY <1>1, <1>2 DEF PoliciesOK, OldPolicies
<1>3. CASE Reapply
  <2>1. assignments' \in {assignments, metadata, <<>>} /\ UNCHANGED metadata
    <3>1. ASSUME NEW i \in todo, NEW answer \in Ism!Answers, Ism!AddPolicy(i, answer)
          PROVE  UNCHANGED <<assignments, metadata>>
      BY <3>1 DEF Ism!AddPolicy
    <3> QED
      BY <1>3, <3>1 DEF Reapply, Ism!ReapplyStep, Ism!Connect, Ism!CheckApplied, Ism!Retrieve,
                        Ism!Finish, Ism!Killed
  <2>2. OldPolicies(<<>>)
    BY DEF OldPolicies
  <2> QED BY <1>1, <2>1, <2>2 DEF PoliciesOK, OldPolicies
<1>4. CASE ClearMetadata
  <2>1. PICK i \in DOMAIN metadata : metadata' = [j \in DOMAIN metadata \ {i} |-> metadata[j]]
    BY <1>4 DEF ClearMetadata, Ism!ClearMetadata
  <2>2. UNCHANGED assignments
    BY <1>4 DEF ClearMetadata, Ism!ClearMetadata
  <2>3. OldPolicies([j \in DOMAIN metadata \ {i} |-> metadata[j]])
    BY DEF PoliciesOK, OldPolicies
  <2> QED BY <1>1, <2>1, <2>2, <2>3 DEF PoliciesOK, OldPolicies
<1>5. ASSUME NEW some \in SUBSET DOMAIN source, NEW aliases \in BOOLEAN, NEW globalState \in BOOLEAN,
             Restore(some, aliases, globalState)
      PROVE  PoliciesOK'
  <2>1. /\ DOMAIN metadata' \subseteq DOMAIN target' /\ source' = source
        /\ \A i \in DOMAIN metadata' : metadata'[i] = source[i].policy /\ metadata'[i] # NoPolicy
    BY <1>5, RestoreEffect
  <2>2. UNCHANGED assignments
    BY <1>5 DEF Restore, reapplying
  <2> QED BY <1>1, <2>1, <2>2 DEF PoliciesOK, OldPolicies
<1> QED
  BY <1>2, <1>3, <1>4, <1>5, CollectorsSteps
     DEF Next, Migrate, PreSnapshotChecks, TakeSnapshot, Compare, Write, vars, clusters, reapplying

\* Every request is counted once, as applied only if the index is managed by
\* the policy it had.
LEMMA CountsStep ==
    ASSUME SnapshotOK, TargetOK, PoliciesOK, CountsOK, [Next]_vars
    PROVE  CountsOK'
<1>0. /\ DOMAIN source' = DOMAIN source /\ DOMAIN target \subseteq DOMAIN target'
      /\ \A i \in DOMAIN source : SameSettings(source'[i], source[i])
      /\ DOMAIN target \subseteq DOMAIN source
  BY SourceStep, TargetGrows DEF TargetOK
<1>1. \A i \in applied :
         /\ i \in DOMAIN target /\ i \in DOMAIN target'
         /\ i \notin refused =>
               target'[i].policy # NoPolicy /\ target'[i].policy = source'[i].policy
  <2> SUFFICES ASSUME NEW i \in applied, i \notin refused
               PROVE  target'[i].policy # NoPolicy /\ target'[i].policy = source'[i].policy
    BY <1>0 DEF CountsOK
  <2>1. /\ i \in DOMAIN target /\ target[i].policy # NoPolicy /\ target[i].policy = source[i].policy
        /\ source'[i].policy = source[i].policy
    BY <1>0 DEF CountsOK, CountsAreTrue, SameSettings
  <2>2. CASE UNCHANGED target
    BY <2>1, <2>2
  <2>3. ASSUME NEW j \in todo, Attach(j)
        PROVE  target'[i] = target[i]
    <3>1. i # j
      BY <2>1, <2>3 DEF Attach
    <3> QED BY <2>1, <2>3, <3>1, AttachEffect
  <2>4. ASSUME NEW some \in SUBSET DOMAIN source, NEW aliases \in BOOLEAN,
               NEW globalState \in BOOLEAN, Restore(some, aliases, globalState)
        PROVE  FALSE
    BY <2>1, <2>4, RestoreEffect DEF TargetOK
  <2> QED BY <2>1, <2>2, <2>3, <2>4, TargetActions
<1> DEFINE passes == {"idle", "first", "second"}
<1>2. CASE UNCHANGED reapplying /\ (UNCHANGED <<step, todo>> \/ (step \in passes /\ step' \in passes))
  <2>1. UNCHANGED <<assignments, applied, failed, refused>>
    BY <1>2 DEF reapplying
  <2>2. CASE UNCHANGED <<step, todo>>
    BY <1>1, <2>1, <2>2 DEF CountsOK, CountsAreTrue
  <2>3. CASE step \in passes /\ step' \in passes
    BY <1>1, <2>1, <2>3 DEF CountsOK, CountsAreTrue
  <2> QED BY <1>2, <2>2, <2>3
<1>3. CASE Ism!Connect \/ Ism!Killed
  <2>1. assignments' = <<>> /\ applied' = {} /\ failed' = {} /\ step' \in {"check", "idle"}
    BY <1>3 DEF Ism!Connect, Ism!Killed
  <2> QED BY <2>1 DEF CountsOK, CountsAreTrue
<1>4. CASE Ism!CheckApplied
  <2>1. /\ UNCHANGED <<assignments, applied, failed, refused, todo>>
        /\ step = "check" /\ step' \in {"retrieve", "idle"}
    BY <1>4 DEF Ism!CheckApplied
  <2> QED BY <1>1, <2>1 DEF CountsOK, CountsAreTrue
<1>5. CASE Ism!Retrieve
  <2>1. /\ applied' = {} /\ failed' = {} /\ todo' = DOMAIN assignments'
        /\ step' = IF assignments' = <<>> THEN "idle" ELSE "add"
    BY <1>5 DEF Ism!Retrieve, CountsOK
  <2> QED BY <2>1 DEF CountsOK, CountsAreTrue
<1>6. CASE Ism!Finish
  <2>1. UNCHANGED <<assignments, applied, failed, refused>> /\ step = "add" /\ step' = "idle" /\ todo = {}
    BY <1>6 DEF Ism!Finish
  <2> QED BY <1>1, <2>1 DEF CountsOK, CountsAreTrue
<1>7. ASSUME NEW i \in todo, NEW answer \in Ism!Answers, Ism!AddPolicy(i, answer), Reapply
      PROVE  CountsOK'
  <2>1. /\ step = "add" /\ step' = "add" /\ UNCHANGED <<assignments, source>> /\ todo' = todo \ {i}
        /\ applied' = IF Ism!Raises(answer) THEN applied ELSE applied \cup {i}
        /\ failed' = IF Ism!Raises(answer) THEN failed \cup {i} ELSE failed
        /\ refused' = IF answer = "refused" THEN refused \cup {i} ELSE refused
        /\ ~Ism!Raises(answer) => answer \in {"ok", "refused"}
    BY <1>7 DEF Ism!AddPolicy, Ism!Answers, Ism!Raises, Ism!Remaining, Reapply
  <2>2. i \in DOMAIN target /\ i \in DOMAIN assignments /\ source[i].policy # NoPolicy
    BY <2>1 DEF CountsOK, PoliciesOK, OldPolicies
  <2>3. answer = "ok" => target'[i].policy # NoPolicy /\ target'[i].policy = source[i].policy
    <3>1. CASE target[i].policy = NoPolicy /\ answer = "ok"
      <4>1. Attach(i)
        BY <1>7, <3>1 DEF Ism!AddPolicy, Attach
      <4> QED BY <2>2, <4>1, AttachEffect
    <3>2. CASE target[i].policy # NoPolicy
      <4>1. target' = target
        BY <1>7, <3>2 DEF Ism!AddPolicy
      <4> QED BY <2>2, <3>2, <4>1 DEF TargetOK
    <3> QED BY <3>1, <3>2
  <2>4. applied' \cap failed' = {} /\ applied' \subseteq DOMAIN target'
    BY <1>0, <1>1, <2>1, <2>2 DEF CountsOK, CountsAreTrue
  <2>5. \A j \in applied' \ refused' : target'[j].policy # NoPolicy /\ target'[j].policy = source'[j].policy
    BY <1>1, <2>1, <2>3
  <2>6. /\ applied' \cup failed' \cup todo' = DOMAIN assignments'
        /\ (applied' \cup failed') \cap todo' = {}
    BY <2>1, <2>2 DEF CountsOK
  <2> QED BY <2>1, <2>4, <2>5, <2>6 DEF CountsOK, CountsAreTrue
<1>8. CASE Reapply
  BY <1>3, <1>4, <1>5, <1>6, <1>7, <1>8 DEF Reapply, Ism!ReapplyStep
<1>9. \/ Reapply
      \/ UNCHANGED reapplying /\ (UNCHANGED <<step, todo>> \/ (step \in passes /\ step' \in passes))
  BY CollectorsSteps
     DEF Next, Migrate, PreSnapshotChecks, TakeSnapshot, Restore, Compare, Write, ClearMetadata,
         Ism!ClearMetadata, vars, reapplying
<1> QED BY <1>2, <1>8, <1>9

-----------------------------------------------------------------------------
(* get_migration_validation_data.py and the comparison.                    *)

\* The passes of a collector, and when it writes its file.
LEMMA CollectorPasses ==
    /\ Source!CollectStep =>
          /\ step = "idle" => step' = "first"
          /\ step \in {"idle", "first", "second"} /\ step' \in {"idle", "first", "second"}
          /\ step' # "idle" => file1' = file1
    /\ Target!CollectStep =>
          /\ step = "idle" => step' = "first"
          /\ step \in {"idle", "first", "second"} /\ step' \in {"idle", "first", "second"}
          /\ step' # "idle" => file2' = file2
BY DEF Source!CollectStep, Target!CollectStep,
       Source!GetMatchingIndices, Source!CollectIndexInfo, Source!CountAgain,
       Source!CountAgainRaises, Source!Wait, Source!WriteFile, Target!GetMatchingIndices,
       Target!CollectIndexInfo, Target!CountAgain, Target!CountAgainRaises, Target!Wait,
       Target!WriteFile

\* The scripts run one after the other.
LEMMA JobStep ==
    ASSUME JobOK, [Next]_vars
    PROVE  JobOK'
<1>1. CASE CollectSource
  <2>1. /\ job \in {"none", "collect source"} /\ file1 = <<>> /\ UNCHANGED <<restore, file2>>
        /\ job' = IF step' = "idle" THEN "none" ELSE "collect source"
    BY <1>1 DEF CollectSource, Runs, JobAfter, JobOK
  <2>2. step' \in {"idle", "first", "second"} /\ (step' # "idle" => file1' = file1)
    BY <1>1, CollectorPasses DEF CollectSource
  <2> QED BY <2>1, <2>2 DEF JobOK
<1>2. CASE CollectTarget
  <2>1. /\ job \in {"none", "collect target"} /\ file2 = <<>> /\ UNCHANGED <<restore, file1>>
        /\ job' = IF step' = "idle" THEN "none" ELSE "collect target"
        /\ restore # "none"
    BY <1>2 DEF CollectTarget, Runs, JobAfter, JobOK
  <2>2. step' \in {"idle", "first", "second"} /\ (step' # "idle" => file2' = file2)
    BY <1>2, CollectorPasses DEF CollectTarget
  <2> QED BY <2>1, <2>2 DEF JobOK
<1>3. CASE Reapply
  <2>1. /\ job \in {"none", "reapply"} /\ UNCHANGED <<restore, file1>> /\ file2' = <<>>
        /\ job' = IF step' = "idle" THEN "none" ELSE "reapply"
        /\ restore # "none"
    BY <1>3 DEF Reapply, Runs, JobAfter, JobOK
  <2>2. step' \in {"idle", "check", "retrieve", "add"}
    BY <1>3 DEF Reapply, Ism!ReapplyStep, Ism!Connect, Ism!CheckApplied, Ism!Retrieve,
                Ism!Finish, Ism!Killed, Ism!AddPolicy
  <2> QED BY <2>1, <2>2 DEF JobOK
<1>4. ASSUME NEW some, NEW aliases, NEW globalState, Restore(some, aliases, globalState)
      PROVE  JobOK'
  <2>1. restore' # "none" /\ UNCHANGED <<job, step, file1, file2>>
    BY <1>4 DEF Restore, collecting
  <2> QED BY <2>1 DEF JobOK
<1>5. CASE UNCHANGED <<job, step, file1, file2, restore>>
  BY <1>5 DEF JobOK
<1> QED
  BY <1>1, <1>2, <1>3, <1>4, <1>5
     DEF Next, Migrate, PreSnapshotChecks, TakeSnapshot, Compare, Write, ClearMetadata,
         Ism!ClearMetadata, vars, clusters, collecting

\* An answer is the value or says that there was none.
LEMMA AnswerIsTrue ==
    \A failures, field, value :
        /\ Source!Answer(failures, field, value) \in {Unread, value}
        /\ Target!Answer(failures, field, value) \in {Unread, value}
BY DEF Source!Answer, Target!Answer

\* A pass over the source adds entries that are true, and completes them.
LEMMA SourceEntries ==
    ASSUME source \in [DOMAIN source -> Index], Source!CollectStep, step # "idle" => Collecting(source)
    PROVE  step' # "idle" => Collecting(source)'
<1>1. CASE Source!GetMatchingIndices
  <2>1. todo' \subseteq DOMAIN source /\ info' = <<>> /\ step' = "first" /\ UNCHANGED source
    BY <1>1 DEF Source!GetMatchingIndices
  <2>2. DOMAIN info' = {} /\ info' \in [DOMAIN info' -> Entry]
    BY <2>1
  <2> QED BY <2>1, <2>2 DEF Collecting
<1>2. ASSUME NEW i \in todo, Source!CollectIndexInfo(i)
      PROVE  Collecting(source)'
  <2>1. PICK failures \in SUBSET {"aliases", "ism_policy", "document_count"} :
          info' = [j \in DOMAIN info \cup {i} |->
              IF j # i THEN info[j] ELSE
              [aliases         |-> Source!Answer(failures, "aliases", source[i].aliases),
               ism_policy      |-> Source!Answer(failures, "ism_policy", source[i].policy),
               document_count  |-> Source!Answer(failures, "document_count", source[i].docs),
               document_count2 |-> Unread, document_count_delta |-> FALSE,
               has_write_alias |-> FALSE]]
    BY <1>2 DEF Source!CollectIndexInfo
  <2> DEFINE a == Source!Answer(failures, "aliases", source[i].aliases)
             p == Source!Answer(failures, "ism_policy", source[i].policy)
             n == Source!Answer(failures, "document_count", source[i].docs)
             new == [aliases |-> a, ism_policy |-> p, document_count |-> n,
                     document_count2 |-> Unread, document_count_delta |-> FALSE,
                     has_write_alias |-> FALSE]
  <2>2. step = "first" /\ step' = step /\ UNCHANGED source /\ todo' = todo \ {i} /\ Collecting(source)
    BY <1>2 DEF Source!CollectIndexInfo
  <2>3. i \in DOMAIN source /\ source[i] \in Index
    BY <2>2 DEF Collecting
  <2>4. /\ a \in {Unread, source[i].aliases} /\ p \in {Unread, source[i].policy}
        /\ n \in {Unread, source[i].docs}
    BY AnswerIsTrue
  <2>5. info' = [j \in DOMAIN info \cup {i} |-> IF j # i THEN info[j] ELSE new]
    BY <2>1
  <2> HIDE DEF a, p, n
  <2>6. new \in Entry /\ True(new, source[i])
    BY <2>3, <2>4 DEF Entry, Index, Aliases, AnyPolicy, True
  <2> HIDE DEF new
  <2>7. /\ DOMAIN info' = DOMAIN info \cup {i} /\ info'[i] = new
        /\ \A j \in DOMAIN info : j # i => info'[j] = info[j]
    BY <2>5
  <2>8. info' \in [DOMAIN info' -> Entry]
    BY <2>2, <2>5, <2>6, <2>7 DEF Collecting
  <2>9. \A j \in DOMAIN info' : True(info'[j], source[j])
    BY <2>2, <2>6, <2>7 DEF Collecting
  <2> QED BY <2>2, <2>3, <2>7, <2>8, <2>9 DEF Collecting
<1>3. ASSUME NEW i \in todo, Source!CountAgain(i)
      PROVE  Collecting(source)'
  <2>1. PICK failures \in SUBSET {"count"} :
          info' = [info EXCEPT
              ![i].document_count2      = Source!Answer(failures, "count", source[i].docs),
              ![i].document_count_delta =
                  Source!Answer(failures, "count", source[i].docs) # info[i].document_count,
              ![i].has_write_alias      = info[i].aliases = "write"]
    BY <1>3 DEF Source!CountAgain
  <2> DEFINE n == Source!Answer(failures, "count", source[i].docs)
  <2>2. /\ step = "second" /\ step' = step /\ UNCHANGED source /\ todo' = todo \ {i}
        /\ Collecting(source)
        /\ info[i].aliases # Unread
    BY <1>3 DEF Source!CountAgain
  <2>3. i \in DOMAIN info /\ i \in DOMAIN source /\ info[i] \in Entry /\ source[i] \in Index
    BY <2>2 DEF Collecting
  <2>4. n \in {Unread, source[i].docs}
    BY AnswerIsTrue
  <2> DEFINE new == [[[info[i] EXCEPT !.document_count2 = n]
                        EXCEPT !.document_count_delta = (n # info[i].document_count)]
                        EXCEPT !.has_write_alias = (info[i].aliases = "write")]
  <2>5. info' = [info EXCEPT ![i] = new]
    BY <2>1, <2>3
  <2> HIDE DEF n
  <2>6. /\ new \in Entry
        /\ new.aliases = info[i].aliases /\ new.ism_policy = info[i].ism_policy
        /\ new.document_count = info[i].document_count /\ new.document_count2 = n
        /\ new.has_write_alias = (info[i].aliases = "write")
    BY <2>3, <2>4 DEF Entry, Index
  <2> HIDE DEF new
  <2>7. True(new, source[i]) /\ Complete(new)
    BY <2>2, <2>3, <2>4, <2>6 DEF Collecting, True, Complete
  <2>8. /\ DOMAIN info' = DOMAIN info /\ info'[i] = new /\ info' \in [DOMAIN info' -> Entry]
        /\ \A j \in DOMAIN info : j # i => info'[j] = info[j]
    BY <2>2, <2>3, <2>5, <2>6 DEF Collecting
  <2>9. \A j \in DOMAIN info' : True(info'[j], source[j])
    BY <2>2, <2>7, <2>8 DEF Collecting
  <2>10. \A j \in DOMAIN info' \ todo' : Complete(info'[j])
    BY <2>2, <2>7, <2>8 DEF Collecting
  <2> QED BY <2>2, <2>8, <2>9, <2>10 DEF Collecting
<1>4. CASE Source!Wait
  <2>1. step = "first" /\ step' = "second" /\ todo' = DOMAIN info /\ UNCHANGED <<source, info>>
    BY <1>4 DEF Source!Wait
  <2> QED BY <2>1 DEF Collecting, True
<1>5. ASSUME NEW i \in todo, Source!CountAgainRaises(i)
      PROVE  step' = "idle"
  BY <1>5 DEF Source!CountAgainRaises
<1>6. CASE Source!WriteFile
  BY <1>6 DEF Source!WriteFile
<1> QED BY <1>1, <1>2, <1>3, <1>4, <1>5, <1>6 DEF Source!CollectStep

\* A pass over the target adds entries that are true, and completes them.
LEMMA TargetEntries ==
    ASSUME target \in [DOMAIN target -> Index], Target!CollectStep, 
           step # "idle" => Collecting(target)
                             /\ \A j \in DOMAIN info : CountsTrue(info[j], target[j])
    PROVE  step' # "idle" => /\ Collecting(target)'
                             /\ \A j \in DOMAIN info' : CountsTrue(info'[j], target'[j])
<1>1. CASE Target!GetMatchingIndices
  <2>1. todo' \subseteq DOMAIN target /\ info' = <<>> /\ step' = "first" /\ UNCHANGED target
    BY <1>1 DEF Target!GetMatchingIndices
  <2>2. DOMAIN info' = {} /\ info' \in [DOMAIN info' -> Entry]
    BY <2>1
  <2> QED BY <2>1, <2>2 DEF Collecting
<1>2. ASSUME NEW i \in todo, Target!CollectIndexInfo(i)
      PROVE  Collecting(target)' /\ \A j \in DOMAIN info' : CountsTrue(info'[j], target'[j])
  <2>1. PICK failures \in SUBSET {"aliases", "ism_policy", "document_count"} :
          info' = [j \in DOMAIN info \cup {i} |->
              IF j # i THEN info[j] ELSE
              [aliases         |-> Target!Answer(failures, "aliases", target[i].aliases),
               ism_policy      |-> Target!Answer(failures, "ism_policy", target[i].policy),
               document_count  |-> Target!Answer(failures, "document_count", target[i].docs),
               document_count2 |-> Unread, document_count_delta |-> FALSE,
               has_write_alias |-> FALSE]]
    BY <1>2 DEF Target!CollectIndexInfo
  <2> DEFINE a == Target!Answer(failures, "aliases", target[i].aliases)
             p == Target!Answer(failures, "ism_policy", target[i].policy)
             n == Target!Answer(failures, "document_count", target[i].docs)
             new == [aliases |-> a, ism_policy |-> p, document_count |-> n,
                     document_count2 |-> Unread, document_count_delta |-> FALSE,
                     has_write_alias |-> FALSE]
  <2>2. /\ step = "first" /\ step' = step /\ UNCHANGED target /\ todo' = todo \ {i}
        /\ Collecting(target) /\ \A j \in DOMAIN info : CountsTrue(info[j], target[j])
    BY <1>2 DEF Target!CollectIndexInfo
  <2>3. i \in DOMAIN target /\ target[i] \in Index
    BY <2>2 DEF Collecting
  <2>4. /\ a \in {Unread, target[i].aliases} /\ p \in {Unread, target[i].policy}
        /\ n \in {Unread, target[i].docs}
    BY AnswerIsTrue
  <2>5. info' = [j \in DOMAIN info \cup {i} |-> IF j # i THEN info[j] ELSE new]
    BY <2>1
  <2> HIDE DEF a, p, n
  <2>6. new \in Entry /\ True(new, target[i]) /\ CountsTrue(new, target[i])
    BY <2>3, <2>4 DEF Entry, Index, Aliases, AnyPolicy, True, CountsTrue
  <2> HIDE DEF new
  <2>7. /\ DOMAIN info' = DOMAIN info \cup {i} /\ info'[i] = new
        /\ \A j \in DOMAIN info : j # i => info'[j] = info[j]
    BY <2>5
  <2>8. info' \in [DOMAIN info' -> Entry]
    BY <2>2, <2>5, <2>6, <2>7 DEF Collecting
  <2>9. \A j \in DOMAIN info' : True(info'[j], target[j]) /\ CountsTrue(info'[j], target[j])
    BY <2>2, <2>6, <2>7 DEF Collecting
  <2> QED BY <2>2, <2>3, <2>7, <2>8, <2>9 DEF Collecting
<1>3. ASSUME NEW i \in todo, Target!CountAgain(i)
      PROVE  Collecting(target)' /\ \A j \in DOMAIN info' : CountsTrue(info'[j], target'[j])
  <2>1. PICK failures \in SUBSET {"count"} :
          info' = [info EXCEPT
              ![i].document_count2      = Target!Answer(failures, "count", target[i].docs),
              ![i].document_count_delta =
                  Target!Answer(failures, "count", target[i].docs) # info[i].document_count,
              ![i].has_write_alias      = info[i].aliases = "write"]
    BY <1>3 DEF Target!CountAgain
  <2> DEFINE n == Target!Answer(failures, "count", target[i].docs)
  <2>2. /\ step = "second" /\ step' = step /\ UNCHANGED target /\ todo' = todo \ {i}
        /\ Collecting(target) /\ \A j \in DOMAIN info : CountsTrue(info[j], target[j])
        /\ info[i].aliases # Unread
    BY <1>3 DEF Target!CountAgain
  <2>3. i \in DOMAIN info /\ i \in DOMAIN target /\ info[i] \in Entry /\ target[i] \in Index
    BY <2>2 DEF Collecting
  <2>4. n \in {Unread, target[i].docs}
    BY AnswerIsTrue
  <2> DEFINE new == [[[info[i] EXCEPT !.document_count2 = n]
                        EXCEPT !.document_count_delta = (n # info[i].document_count)]
                        EXCEPT !.has_write_alias = (info[i].aliases = "write")]
  <2>5. info' = [info EXCEPT ![i] = new]
    BY <2>1, <2>3
  <2> HIDE DEF n
  <2>6. /\ new \in Entry
        /\ new.aliases = info[i].aliases /\ new.ism_policy = info[i].ism_policy
        /\ new.document_count = info[i].document_count /\ new.document_count2 = n
        /\ new.has_write_alias = (info[i].aliases = "write")
    BY <2>3, <2>4 DEF Entry, Index
  <2> HIDE DEF new
  <2>7. True(new, target[i]) /\ Complete(new) /\ CountsTrue(new, target[i])
    BY <2>2, <2>3, <2>4, <2>6 DEF Collecting, True, Complete, CountsTrue
  <2>8. /\ DOMAIN info' = DOMAIN info /\ info'[i] = new /\ info' \in [DOMAIN info' -> Entry]
        /\ \A j \in DOMAIN info : j # i => info'[j] = info[j]
    BY <2>2, <2>3, <2>5, <2>6 DEF Collecting
  <2>9. \A j \in DOMAIN info' : True(info'[j], target[j]) /\ CountsTrue(info'[j], target[j])
    BY <2>2, <2>7, <2>8 DEF Collecting
  <2>10. \A j \in DOMAIN info' \ todo' : Complete(info'[j])
    BY <2>2, <2>7, <2>8 DEF Collecting
  <2> QED BY <2>2, <2>8, <2>9, <2>10 DEF Collecting
<1>4. CASE Target!Wait
  <2>1. step = "first" /\ step' = "second" /\ todo' = DOMAIN info /\ UNCHANGED <<target, info>>
    BY <1>4 DEF Target!Wait
  <2> QED BY <2>1 DEF Collecting, True, CountsTrue
<1>5. ASSUME NEW i \in todo, Target!CountAgainRaises(i)
      PROVE  step' = "idle"
  BY <1>5 DEF Target!CountAgainRaises
<1>6. CASE Target!WriteFile
  BY <1>6 DEF Target!WriteFile
<1> QED BY <1>1, <1>2, <1>3, <1>4, <1>5, <1>6 DEF Target!CollectStep

\* What was collected of the source stays true while it is written.
LEMMA CollectingStep ==
    ASSUME SnapshotOK, TargetOK, PoliciesOK, CountsOK, JobOK, JobOK', CollectingOK, [Next]_vars
    PROVE  CollectingOK'
<1>0. /\ DOMAIN source' = DOMAIN source
      /\ \A i \in DOMAIN source : SameSettings(source'[i], source[i])
      /\ source \in [DOMAIN source -> Index] /\ target \in [DOMAIN target -> Index]
  BY SourceStep DEF SnapshotOK, TargetOK
<1>1. CASE CollectSource
  <2>1. /\ job \in {"none", "collect source"} /\ Source!CollectStep
        /\ job' = IF step' = "idle" THEN "none" ELSE "collect source"
    BY <1>1 DEF CollectSource, Runs, JobAfter
  <2>2. step # "idle" => Collecting(source)
    BY <2>1 DEF JobOK, CollectingOK
  <2> QED BY <1>0, <2>1, <2>2, SourceEntries DEF CollectingOK
<1>2. CASE CollectTarget
  <2>1. /\ job \in {"none", "collect target"} /\ Target!CollectStep
        /\ job' = IF step' = "idle" THEN "none" ELSE "collect target"
    BY <1>2 DEF CollectTarget, Runs, JobAfter
  <2>2. step # "idle" => Collecting(target) /\ \A j \in DOMAIN info : CountsTrue(info[j], target[j])
    BY <2>1 DEF JobOK, CollectingOK
  <2> QED BY <1>0, <2>1, <2>2, TargetEntries DEF CollectingOK
<1>3. CASE Reapply
  <2>1. job' \in {"none", "reapply"}
    BY <1>3 DEF Reapply, JobAfter
  <2> QED BY <2>1 DEF CollectingOK
<1>4. CASE UNCHANGED <<info, step, todo, job>> /\ (UNCHANGED target \/ restore = "none")
  <2>1. job = "collect source" => Collecting(source)'
    BY <1>0, <1>4 DEF CollectingOK, Collecting, True, SameSettings
  <2>2. job = "collect target" => UNCHANGED target
    BY <1>4 DEF JobOK
  <2> QED BY <1>4, <2>1, <2>2 DEF CollectingOK, Collecting, True, CountsTrue
<1> QED
  BY <1>1, <1>2, <1>3, <1>4
     DEF Next, Migrate, PreSnapshotChecks, TakeSnapshot, Restore, Compare, Write, ClearMetadata,
         Ism!ClearMetadata, vars, clusters, collecting

\* A file is written when all entries are complete.
LEMMA FilesStep ==
    ASSUME SnapshotOK, TargetOK, JobOK, CollectingOK, FilesOK, [Next]_vars
    PROVE  FilesOK'
<1>0. /\ DOMAIN source' = DOMAIN source
      /\ \A i \in DOMAIN source : SameSettings(source'[i], source[i])
  BY SourceStep
<1>1. file1 # <<>> => Written(file1[1], source')
  BY <1>0 DEF FilesOK, Written, True, SameSettings
<1>2. ASSUME Collecting(source), step = "second", todo = {}
      PROVE  Written(info, source)
  BY <1>2 DEF Collecting, Written
<1>3. ASSUME Collecting(target), step = "second", todo = {}
      PROVE  Written(info, target)
  BY <1>3 DEF Collecting, Written
<1>4. CASE CollectSource
  <2>1. UNCHANGED <<target, file2, source>> /\ job \in {"none", "collect source"} /\ Source!CollectStep
    BY <1>4, CollectorsSteps DEF CollectSource, Runs
  <2>2. CASE file1' = file1
    BY <2>1, <2>2 DEF FilesOK
  <2>3. CASE file1' # file1
    <3>1. step = "second" /\ todo = {} /\ file1' = <<info>>
      BY <2>1, <2>3 DEF Source!CollectStep, Source!GetMatchingIndices, Source!CollectIndexInfo,
                        Source!CountAgain, Source!CountAgainRaises, Source!Wait, Source!WriteFile
    <3>2. Written(info, source)
      BY <1>2, <2>1, <3>1 DEF JobOK, CollectingOK
    <3>3. file1'[1] = info
      BY <3>1
    <3> QED BY <2>1, <3>2, <3>3 DEF FilesOK
  <2> QED BY <2>2, <2>3
<1>5. CASE CollectTarget
  <2>1. UNCHANGED <<target, file1, source>> /\ job \in {"none", "collect target"} /\ Target!CollectStep
    BY <1>5, CollectorsSteps DEF CollectTarget, Runs
  <2>2. CASE file2' = file2
    BY <2>1, <2>2 DEF FilesOK
  <2>3. CASE file2' # file2
    <3>1. step = "second" /\ todo = {} /\ file2' = <<info>>
      BY <2>1, <2>3 DEF Target!CollectStep, Target!GetMatchingIndices, Target!CollectIndexInfo,
                        Target!CountAgain, Target!CountAgainRaises, Target!Wait, Target!WriteFile
    <3>2. Written(info, target) /\ \A i \in DOMAIN info : CountsTrue(info[i], target[i])
      BY <1>3, <2>1, <3>1 DEF JobOK, CollectingOK
    <3>3. file2'[1] = info
      BY <3>1
    <3> QED BY <2>1, <3>2, <3>3 DEF FilesOK
  <2> QED BY <2>2, <2>3
<1>6. CASE Reapply
  <2>1. UNCHANGED <<file1, source>> /\ file2' = <<>>
    BY <1>6 DEF Reapply
  <2> QED BY <2>1 DEF FilesOK
<1>7. CASE UNCHANGED <<file1, file2>> /\ (UNCHANGED target \/ restore = "none")
  <2>1. file2 # <<>> => UNCHANGED target
    BY <1>7 DEF JobOK
  <2> QED BY <1>1, <1>7, <2>1 DEF FilesOK
<1> QED
  BY <1>4, <1>5, <1>6, <1>7
     DEF Next, Migrate, PreSnapshotChecks, TakeSnapshot, Restore, Compare, Write, ClearMetadata,
         Ism!ClearMetadata, vars, clusters, collecting

\* The result is that of the files, which stay as long as it does.
LEMMA ResultStep ==
    ASSUME JobOK, ResultOK, [Next]_vars
    PROVE  ResultOK'
<1>1. CASE Compare
  <2>1. /\ file1 # <<>> /\ file2 # <<>> /\ UNCHANGED <<file1, file2>>
        /\ result' = <<[i \in DOMAIN file1[1] |-> Source!Severity(file1[1], file2[1], i)]>>
    BY <1>1 DEF Compare, collecting
  <2>2. result'[1] = [i \in DOMAIN file1[1] |-> Source!Severity(file1[1], file2[1], i)]
    BY <2>1
  <2> QED BY <2>1, <2>2 DEF ResultOK, Source!Severity, Source!SettingsDiffer, Source!CountsDiffer
<1>2. CASE Reapply
  BY <1>2 DEF Reapply, ResultOK
<1>3. CASE CollectSource \/ CollectTarget
  <2>1. file1 = <<>> \/ file2 = <<>>
    BY <1>3 DEF CollectSource, CollectTarget, Runs, JobOK
  <2>2. result' = result /\ result = <<>>
    BY <1>3, <2>1, CollectorsSteps DEF ResultOK
  <2> QED BY <2>2 DEF ResultOK
<1>4. CASE UNCHANGED <<result, file1, file2>>
  BY <1>4 DEF ResultOK, Source!Severity, Source!SettingsDiffer, Source!CountsDiffer
<1> QED
  BY <1>1, <1>2, <1>3, <1>4
     DEF Next, Migrate, PreSnapshotChecks, TakeSnapshot, Restore, Write, ClearMetadata,
         vars, collecting

-----------------------------------------------------------------------------
(* pre_snapshot_checks.py                                                  *)

\* The number that three digits are.
LEMMA DigitsChosen ==
    ASSUME NEW id, NEW n \in ThreeDigits,
           \A x \in ThreeDigits : (\E u \in Units : id \div u = x) <=> x = n
    PROVE  FirstThreeDigits(id) = n
<1>1. \E x \in ThreeDigits : \E u \in Units : id \div u = x
  OBVIOUS
<1>2. FirstThreeDigits(id) \in ThreeDigits /\ \E u \in Units : id \div u = FirstThreeDigits(id)
  BY <1>1 DEF FirstThreeDigits
<1> QED BY <1>2

\* The digits of an id of Elasticsearch are major and minor ...
LEMMA ElasticsearchDigits ==
    ASSUME NEW major \in 2..9, NEW minor \in 0..99
    PROVE  FirstThreeDigits(major * 1000000 + minor * 10000 + 299) = major * 100 + minor
<1> DEFINE id == major * 1000000 + minor * 10000 + 299
<1>1. id \div 10000 = major * 100 + minor
  BY SMT
<1>2. id \div 1000 > 999 /\ id \div 100 > 999 /\ id \div 10 > 999 /\ id \div 1 > 999
  BY SMT
<1>3. id \div 100000 < 100 /\ id \div 1000000 < 100
  BY SMT
<1>4. major * 100 + minor \in ThreeDigits
  BY SMT DEF ThreeDigits
<1> HIDE DEF id
<1>5. \A n \in ThreeDigits : (\E u \in Units : id \div u = n) <=> n = major * 100 + minor
  BY <1>1, <1>2, <1>3, <1>4, SMT DEF Units, ThreeDigits
<1>6. FirstThreeDigits(id) = major * 100 + minor
  BY <1>4, <1>5, DigitsChosen
<1> QED BY <1>6 DEF id

\* ... and those of an id of OpenSearch, which has a bit set, 134 and major.
LEMMA OpenSearchDigits ==
    ASSUME NEW major \in 1..9, NEW minor \in 0..78
    PROVE  FirstThreeDigits(134217728 + major * 1000000 + minor * 10000 + 99) = 134 + major
<1> DEFINE id == 134217728 + major * 1000000 + minor * 10000 + 99
<1>1. id \div 1000000 = 134 + major
  BY SMT
<1>2. /\ id \div 100000 > 999 /\ id \div 10000 > 999 /\ id \div 1000 > 999
      /\ id \div 100 > 999 /\ id \div 10 > 999 /\ id \div 1 > 999
  BY SMT
<1>3. 134 + major \in ThreeDigits
  BY SMT DEF ThreeDigits
<1> HIDE DEF id
<1>4. \A n \in ThreeDigits : (\E u \in Units : id \div u = n) <=> n = 134 + major
  BY <1>1, <1>2, <1>3, SMT DEF Units, ThreeDigits
<1>5. FirstThreeDigits(id) = 134 + major
  BY <1>3, <1>4, DigitsChosen
<1> QED BY <1>5 DEF id

\* The test of line 47 finds an issue exactly where the target cannot open the
\* index: the digits 135 and 136 are OpenSearch 1 and 2.
LEMMA IssueIsExact ==
    ASSUME NEW v \in Versions
    PROVE  Issue(FirstThreeDigits(VersionId(v))) <=> ~Restorable(v)
<1>1. CASE v \in [product : {"elasticsearch"}, major : 2..9, minor : 0..99]
  <2>1. v.product = "elasticsearch" /\ v.major \in 2..9 /\ v.minor \in 0..99
    BY <1>1
  <2>2. FirstThreeDigits(VersionId(v)) = v.major * 100 + v.minor
    BY <2>1, ElasticsearchDigits DEF VersionId
  <2>3. Restorable(v) <=> v.major = 7 /\ v.minor <= 10
    BY <2>1 DEF Restorable
  <2> QED BY <2>1, <2>2, <2>3, SMT DEF Issue
<1>2. CASE v \in [product : {"opensearch"}, major : 1..9, minor : 0..78]
  <2>1. v.product = "opensearch" /\ v.major \in 1..9 /\ v.minor \in 0..78
    BY <1>2
  <2>2. v.product # "elasticsearch"
    BY <2>1
  <2>3. FirstThreeDigits(VersionId(v)) = 134 + v.major
    BY <2>1, <2>2, OpenSearchDigits DEF VersionId
  <2>4. Restorable(v) <=> v.major \in {1, 2}
    BY <2>2 DEF Restorable
  <2> QED BY <2>1, <2>3, <2>4, SMT DEF Issue
<1> QED BY <1>1, <1>2, VersionsAssumption

\* The versions of the indices do not change after the check.
LEMMA ReportStep ==
    ASSUME SnapshotOK, ReportIsExact, [Next]_vars
    PROVE  ReportIsExact'
<1>0. /\ DOMAIN source' = DOMAIN source
      /\ \A i \in DOMAIN source : source'[i].created = source[i].created
      /\ \A i \in DOMAIN source : source[i].created \in Versions
  <2>1. \A i \in DOMAIN source : source[i] \in Index
    BY DEF SnapshotOK
  <2> QED BY <2>1, SourceStep DEF SameSettings, Index
<1> DEFINE bad == {i \in DOMAIN source : ~Restorable(source[i].created)}
<1>1. {i \in DOMAIN source' : ~Restorable(source'[i].created)} = bad
  BY <1>0
<1>2. CASE PreSnapshotChecks
  <2>1. (\E i \in DOMAIN source : Issue(FirstThreeDigits(VersionId(source[i].created)))) <=> bad # {}
    BY <1>0, IssueIsExact
  <2>2. \/ report' = "error, no issues"
        \/ report' = IF bad # {} THEN "issues" ELSE "no issues"
    BY <1>2, <2>1 DEF PreSnapshotChecks
  <2> QED BY <1>1, <2>2 DEF ReportIsExact
<1>3. CASE UNCHANGED report
  BY <1>1, <1>3 DEF ReportIsExact
<1> QED
  BY <1>2, <1>3
     DEF Next, Migrate, TakeSnapshot, Restore, CollectSource, CollectTarget, Reapply, Compare,
         Write, ClearMetadata, vars

-----------------------------------------------------------------------------
\* Nothing is snapshot, restored, collected or printed at first.
LEMMA InitIInv == Init => IInv
<1> SUFFICES ASSUME Init PROVE IInv
  OBVIOUS
<1>1. /\ source \in [DOMAIN source -> Index] /\ snap = <<>> /\ target = <<>> /\ metadata = <<>>
      /\ assignments = <<>> /\ restore = "none" /\ job = "none" /\ step = "idle"
      /\ file1 = <<>> /\ file2 = <<>> /\ result = <<>> /\ applied = {} /\ failed = {}
      /\ report = "none"
  BY SourcesAssumption DEF Init
<1>2. \A i \in DOMAIN <<>> : FALSE
  OBVIOUS
<1>3. target \in [DOMAIN target -> Index]
  BY <1>1
<1>4. SnapshotOK /\ TargetOK /\ PoliciesOK
  BY <1>1, <1>2, <1>3 DEF SnapshotOK, TargetOK, PoliciesOK, OldPolicies
<1>5. CountsOK
  BY <1>1, <1>2 DEF CountsOK, CountsAreTrue
<1>6. JobOK /\ CollectingOK /\ FilesOK /\ ResultOK /\ ReportIsExact
  BY <1>1 DEF JobOK, CollectingOK, FilesOK, ResultOK, ReportIsExact
<1> QED BY <1>4, <1>5, <1>6 DEF IInv

\* IInv is an invariant.
LEMMA Invariance == Spec => []IInv
<1>1. ASSUME IInv, [Next]_vars PROVE IInv'
  <2>1. SnapshotOK' /\ TargetOK' /\ PoliciesOK' /\ CountsOK'
    BY <1>1, SnapshotStep, TargetStep, PoliciesStep, CountsStep DEF IInv
  <2>2. JobOK'
    BY <1>1, JobStep DEF IInv
  <2>3. CollectingOK' /\ FilesOK' /\ ResultOK' /\ ReportIsExact'
    BY <1>1, <2>2, CollectingStep, FilesStep, ResultStep, ReportStep DEF IInv
  <2> QED BY <2>1, <2>2, <2>3 DEF IInv
<1> QED BY InitIInv, <1>1, PTL DEF Spec

\* The check before the snapshot (lines 33-53) looks at three digits of an id,
\* and reports issues exactly for indices that cannot be restored.
THEOREM ReportsAreExact == Spec => []ReportIsExact
<1>1. IInv => ReportIsExact
  BY DEF IInv
<1> QED BY Invariance, <1>1, PTL

\* avn-re-apply-ism-policies.py counts an index as applied only if it is managed
\* by its old policy, and every assignment exactly once.
THEOREM CountsTruth == Spec => []CountsAreTrue
<1>1. IInv => CountsAreTrue
  BY DEF IInv, CountsOK
<1> QED BY Invariance, <1>1, PTL

\* An index that compare_indices calls a perfect match was restored with its
\* aliases, policy and documents, however the source was written meanwhile.
THEOREM MatchesAreMigrated == Spec => []MatchIsMigrated
<1>1. IInv => MatchIsMigrated
  <2> SUFFICES ASSUME IInv, NEW i \in DOMAIN source, Compared(i), result[1][i] = 0
               PROVE  /\ i \in DOMAIN target
                      /\ Read(file1[1][i]) /\ Read(file2[1][i]) =>
                            /\ target[i].aliases = source[i].aliases
                            /\ target[i].policy = source[i].policy
                            /\ {file1[1][i].document_count, file1[1][i].document_count2} = {target[i].docs}
    BY DEF MatchIsMigrated
  <2>1. /\ file1 # <<>> /\ file2 # <<>> /\ i \in DOMAIN file1[1]
        /\ Source!Severity(file1[1], file2[1], i) = 0
    BY DEF IInv, ResultOK, Compared
  <2>2. /\ i \in DOMAIN file2[1]
        /\ ~Source!SettingsDiffer(file1[1][i], file2[1][i])
        /\ ~Source!CountsDiffer(file1[1][i], file2[1][i])
    BY <2>1 DEF Source!Severity
  <2>3. /\ i \in DOMAIN target
        /\ True(file1[1][i], source[i]) /\ Complete(file1[1][i])
        /\ True(file2[1][i], target[i]) /\ Complete(file2[1][i])
        /\ CountsTrue(file2[1][i], target[i])
    BY <2>1, <2>2 DEF IInv, FilesOK, Written
  <2>4. target[i].aliases = source[i].aliases
    BY <2>2, <2>3 DEF True, Complete, Source!SettingsDiffer
  <2>5. ASSUME Read(file1[1][i]), Read(file2[1][i])
        PROVE  /\ target[i].policy = source[i].policy
               /\ file1[1][i].document_count = target[i].docs
               /\ file1[1][i].document_count2 = target[i].docs
    BY <2>2, <2>3, <2>5 DEF Read, True, CountsTrue, Source!SettingsDiffer, Source!CountsDiffer
  <2> QED BY <2>3, <2>4, <2>5
<1> QED BY Invariance, <1>1, PTL

\* A full migration is reported as a perfect match, index by index, unless a
\* request failed or the source was written: compare_indices gives no false alarm.
THEOREM FullMigrationsMatch == Spec => []FullMigrationMatches
<1>1. IInv => FullMigrationMatches
  <2> SUFFICES ASSUME IInv, NEW i \in DOMAIN source, Compared(i), restore = "full",
                      i \in DOMAIN file2[1], Read(file1[1][i]), Read(file2[1][i]),
                      file1[1][i].document_count = snap[1][i].docs,
                      file1[1][i].document_count2 = snap[1][i].docs,
                      source[i].policy # NoPolicy => i \in applied \ refused
               PROVE  result[1][i] = 0
    BY DEF FullMigrationMatches
  <2>1. /\ file1 # <<>> /\ file2 # <<>> /\ i \in DOMAIN file1[1]
        /\ result[1][i] = Source!Severity(file1[1], file2[1], i)
    BY DEF IInv, ResultOK, Compared
  <2>2. /\ i \in DOMAIN target
        /\ True(file1[1][i], source[i]) /\ Complete(file1[1][i])
        /\ True(file2[1][i], target[i]) /\ Complete(file2[1][i])
        /\ CountsTrue(file2[1][i], target[i])
    BY <2>1 DEF IInv, FilesOK, Written
  <2>3. target[i].policy = source[i].policy
    BY <2>2 DEF IInv, TargetOK, CountsOK, CountsAreTrue
  <2>4. target[i].docs = snap[1][i].docs /\ target[i].aliases = source[i].aliases
    BY <2>2 DEF IInv, TargetOK
  <2>5. file1[1][i].aliases = file2[1][i].aliases
    BY <2>2, <2>4 DEF True, Complete
  <2>6. file1[1][i].ism_policy = file2[1][i].ism_policy
    BY <2>2, <2>3 DEF True, Read
  <2>7. ~Source!CountsDiffer(file1[1][i], file2[1][i])
    BY <2>2, <2>4 DEF Read, CountsTrue, Source!CountsDiffer
  <2>8. file1[1][i].has_write_alias = file2[1][i].has_write_alias
    BY <2>2, <2>5 DEF Complete
  <2>9. ~Source!SettingsDiffer(file1[1][i], file2[1][i])
    BY <2>5, <2>6, <2>8 DEF Source!SettingsDiffer
  <2> QED BY <2>1, <2>7, <2>9 DEF Source!Severity
<1> QED BY Invariance, <1>1, PTL
=============================================================================
