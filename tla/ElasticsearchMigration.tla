----------------------- MODULE ElasticsearchMigration -----------------------
(***************************************************************************)
(* The migration that the scripts of solutions/                            *)
(* validate-elasticsearch-to-opensearch-migration and solutions/           *)
(* reapply-ism-policies accompany: the source is checked, its snapshot is  *)
(* restored on the target, the ISM policies are attached again, validation *)
(* data of both clusters are collected and compared.  The source is        *)
(* written meanwhile, and any request may fail.                            *)
(***************************************************************************)
EXTENDS Naturals, FiniteSets

CONSTANTS
    Policies,      \* the ISM policies of the source
    Versions,      \* the versions that its indices may have been created with
    FirstSources,  \* what the source may hold before the migration
    NoPolicy, Unread,
    MaxWrites, MaxReapplies, MaxFailures  \* bounds

Index ==
    [docs : Nat, aliases : {"none", "read", "write"}, policy : Policies \cup {NoPolicy},
     created : Versions]

ASSUME SourcesAssumption == \A s \in FirstSources : s \in [DOMAIN s -> Index]

\* A part of a version has two digits in an id.  No release of OpenSearch has a
\* minor part that carries over to the major one, and no index that a cluster
\* can still read is older than Elasticsearch 2.
ASSUME VersionsAssumption ==
    \A v \in Versions :
        \/ v \in [product : {"elasticsearch"}, major : 2..9, minor : 0..99]
        \/ v \in [product : {"opensearch"}, major : 1..9, minor : 0..78]

ASSUME BoundsAssumption == MaxWrites \in Nat /\ MaxReapplies \in Nat /\ MaxFailures \in Nat

VARIABLES
    source, target,  \* the indices of the two clusters
    snap,            \* the snapshot: <<>> or <<indices>>
    restore,         \* "none", "partial" or "full"
    metadata,        \* ISM policies in the metadata of the target's cluster state
    report,          \* what pre_snapshot_checks.py printed
    job,             \* the script that runs
    step, todo, left,             \* of the script that runs
    info, file1, file2,           \* of the collectors
    assignments, applied, failed, refused,  \* of the re-application
    result,          \* the severities: <<>> or <<those of the last comparison>>
    writes, reapplies

collecting == <<info, file1, file2>>
reapplying == <<assignments, applied, failed, refused>>
clusters == <<source, target, snap, restore, metadata, writes>>
vars == <<clusters, report, job, step, todo, left, collecting, reapplying, result, reapplies>>

Source == INSTANCE ValidationData WITH cluster <- source, file <- file1
Target == INSTANCE ValidationData WITH cluster <- target, file <- file2
Ism == INSTANCE IsmReapply WITH cluster <- target

Init ==
    /\ source \in FirstSources
    /\ target = <<>> /\ metadata = <<>>
    /\ snap = <<>> /\ restore = "none"
    /\ report = "none"
    /\ job = "none" /\ step = "idle" /\ todo = {} /\ left = MaxFailures
    /\ info = <<>> /\ file1 = <<>> /\ file2 = <<>>
    /\ assignments = <<>> /\ applied = {} /\ failed = {} /\ refused = {}
    /\ result = <<>>
    /\ writes = 0 /\ reapplies = 0

-----------------------------------------------------------------------------
(* pre_snapshot_checks.py                                                  *)

\* The id that is kept as the version an index was created with: 7100299 for
\* Elasticsearch 7.10, 136367827 for OpenSearch 2.15.
VersionId(v) ==
    IF v.product = "elasticsearch"
    THEN v.major * 1000000 + v.minor * 10000 + 299
    ELSE 134217728 + v.major * 1000000 + v.minor * 10000 + 99

\* int(index_version[:3]), for an id of up to nine digits.
Units == {1, 10, 100, 1000, 10000, 100000, 1000000}
ThreeDigits == 100..999

FirstThreeDigits(id) == CHOOSE n \in ThreeDigits : \E u \in Units : id \div u = n

IssueFrom710(n) == (n > 136 /\ n < 700) \/ n >= 710  \* mutant

Issue(n) == (n > 136 /\ n < 700) \/ n > 710

\* A failed request is printed, and then that there are no issues.
PreSnapshotChecks ==
    /\ report = "none"
    /\ \/ /\ report' = IF \E i \in DOMAIN source :
                            Issue(FirstThreeDigits(VersionId(source[i].created)))
                       THEN "issues" ELSE "no issues"
          /\ UNCHANGED left
       \/ left > 0 /\ left' = left - 1 /\ report' = "error, no issues"
    /\ UNCHANGED <<clusters, job, step, todo, collecting, reapplying, result, reapplies>>

GoAhead == report \in {"no issues", "error, no issues"}

-----------------------------------------------------------------------------
(* The clusters                                                            *)

\* A document is indexed on the source.
Write(i) ==
    /\ writes < MaxWrites
    /\ writes' = writes + 1
    /\ source' = [source EXCEPT ![i].docs = @ + 1]
    /\ UNCHANGED <<target, snap, restore, metadata, report, job, step, todo, left,
                   collecting, reapplying, result, reapplies>>

TakeSnapshot ==
    /\ GoAhead
    /\ snap = <<>>
    /\ snap' = <<source>>
    /\ UNCHANGED <<source, target, restore, metadata, writes, report, job, step, todo,
                   left, collecting, reapplying, result, reapplies>>

\* The indices that the target can open.
Restorable(v) ==
    IF v.product = "elasticsearch"
    THEN v.major = 7 /\ v.minor <= 10
    ELSE v.major \in {1, 2}

\* Some or all of the indices, with or without aliases and global state.  No
\* restored index is managed: the metadata only says which policy it had.
Restore(some, aliases, globalState) ==
    /\ snap # <<>>
    /\ restore = "none"
    /\ some \subseteq {i \in DOMAIN snap[1] : Restorable(snap[1][i].created)}
    /\ target' = [i \in some |->
          [snap[1][i] EXCEPT !.policy = NoPolicy,
                             !.aliases = IF aliases THEN @ ELSE "none"]]
    /\ metadata' = [i \in {j \in some : globalState /\ snap[1][j].policy # NoPolicy} |->
                       snap[1][i].policy]
    /\ restore' = IF some = DOMAIN snap[1] /\ aliases /\ globalState
                  THEN "full" ELSE "partial"
    /\ UNCHANGED <<source, snap, writes, report, job, step, todo, left, collecting,
                   reapplying, result, reapplies>>

\* OpenSearch clears metadata whenever it executes a policy.
ClearMetadata ==
    /\ Ism!ClearMetadata
    /\ UNCHANGED <<source, snap, restore, writes, report, job, collecting, result, reapplies>>

-----------------------------------------------------------------------------
(* The scripts, one at a time                                              *)

\* A script is started when it is due, and runs until it is idle again.
Runs(script, due) == job = script \/ (job = "none" /\ due)

JobAfter(script) == job' = IF step' = "idle" THEN "none" ELSE script

CollectSource ==
    /\ Runs("collect source", GoAhead /\ file1 = <<>>)
    /\ Source!CollectStep
    /\ JobAfter("collect source")
    /\ UNCHANGED <<target, snap, restore, metadata, writes, report, file2, reapplying,
                   result, reapplies>>

CollectTarget ==
    /\ Runs("collect target", restore # "none" /\ file2 = <<>>)
    /\ Target!CollectStep
    /\ JobAfter("collect target")
    /\ UNCHANGED <<source, snap, restore, metadata, writes, report, file1, reapplying,
                   result, reapplies>>

\* The data of the target are collected again after a re-application.
Reapply ==
    /\ Runs("reapply", restore # "none" /\ reapplies < MaxReapplies)
    /\ Ism!ReapplyStep
    /\ JobAfter("reapply")
    /\ reapplies' = IF job = "none" THEN reapplies + 1 ELSE reapplies
    /\ file2' = <<>> /\ result' = <<>>
    /\ UNCHANGED <<source, snap, restore, writes, report, info, file1>>

CompareEqualIndices ==  \* mutant: a missing index raises a KeyError
    /\ job = "none" /\ file1 # <<>> /\ file2 # <<>> /\ result = <<>>
    /\ DOMAIN file1[1] \subseteq DOMAIN file2[1]
    /\ result' = <<[i \in DOMAIN file1[1] |-> Source!Severity(file1[1], file2[1], i)]>>
    /\ UNCHANGED <<clusters, report, job, step, todo, left, collecting, reapplying, reapplies>>

Compare ==
    /\ job = "none" /\ file1 # <<>> /\ file2 # <<>> /\ result = <<>>
    /\ result' = <<[i \in DOMAIN file1[1] |-> Source!Severity(file1[1], file2[1], i)]>>
    /\ UNCHANGED <<clusters, report, job, step, todo, left, collecting, reapplying, reapplies>>

Migrate ==
    \/ PreSnapshotChecks
    \/ TakeSnapshot
    \/ \E some \in SUBSET DOMAIN source, aliases, globalState \in BOOLEAN :
          Restore(some, aliases, globalState)
    \/ CollectSource \/ CollectTarget \/ Reapply
    \/ Compare

Next == Migrate \/ ClearMetadata \/ \E i \in DOMAIN source : Write(i)

Spec == Init /\ [][Next]_vars

\* The user goes on as long as a script is left to run.
FairSpec == Spec /\ WF_vars(Migrate)
-----------------------------------------------------------------------------
\* pre_snapshot_checks.py looks at three digits of the id of a version only, and
\* that finds exactly the indices that cannot be restored.
ReportIsExact ==
    LET bad == {i \in DOMAIN source : ~Restorable(source[i].created)} IN
    /\ report = "issues" => bad # {}
    /\ report = "no issues" => bad = {}

Compared(i) == result # <<>> /\ i \in DOMAIN result[1]

Read(d) == Unread \notin {d.ism_policy, d.document_count, d.document_count2}

\* compare_indices counts an index as a perfect match only if it was restored,
\* also when the check before the snapshot failed, and only if the target has
\* its aliases and its policy, and exactly the documents that both counts on
\* the source saw, although the source may be written at any time.  (A value
\* that could not be read on both sides matches too.)
MatchIsMigrated ==
    \A i \in DOMAIN source :
        Compared(i) /\ result[1][i] = 0 =>
            /\ i \in DOMAIN target
            /\ Read(file1[1][i]) /\ Read(file2[1][i]) =>
                  /\ target[i].aliases = source[i].aliases
                  /\ target[i].policy = source[i].policy
                  /\ {file1[1][i].document_count, file1[1][i].document_count2} = {target[i].docs}

\* No false alarm: a full restore whose policies are attached again is reported
\* as a perfect match, unless a request failed or was refused or the source
\* counts differ from the snapshot.
FullMigrationMatches ==
    \A i \in DOMAIN source :
        /\ Compared(i) /\ restore = "full"
        /\ i \in DOMAIN file2[1] /\ Read(file1[1][i]) /\ Read(file2[1][i])
        /\ file1[1][i].document_count = snap[1][i].docs
        /\ file1[1][i].document_count2 = snap[1][i].docs
        /\ source[i].policy # NoPolicy => i \in applied \ refused
        => result[1][i] = 0

\* The counts of avn-re-apply-ism-policies.py are true, also when an earlier run
\* was killed or lost the answer of a request: an index is counted as applied
\* only if it is managed by the policy it had on the source (or OpenSearch
\* refused the policy in an answer with status 200), none is counted twice, and a request that fails keeps none of the others from being counted
\* when the script has ended.
CountsAreTrue ==
    /\ \A i \in applied \ refused : target[i].policy # NoPolicy /\ target[i].policy = source[i].policy
    /\ applied \cap failed = {}
    /\ step # "add" => applied \cup failed = DOMAIN assignments

\* The migration ends with issues that were found before, or with a comparison.
EndsWithAnAnswer == <>(report = "issues" \/ result # <<>>)
=============================================================================
