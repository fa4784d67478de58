----------------------------- MODULE IsmReapply -----------------------------
(***************************************************************************)
(* solutions/reapply-ism-policies/avn-re-apply-ism-policies.py: after a    *)
(* snapshot was restored, the policies that the metadata of the cluster    *)
(* state still names are attached to their indices again, one by one.      *)
(* OpenSearch clears the metadata when it executes a policy first.         *)
(***************************************************************************)
EXTENDS Naturals, FiniteSets

CONSTANT NoPolicy

VARIABLES
    cluster,      \* the indices of the target, each with the policy it is managed by
    metadata,     \* policies in the metadata of the cluster state
    step,         \* "idle", or where the script is
    todo,         \* the assignments that have still to be made
    assignments,  \* original_policy_assignments
    applied,      \* the indices counted in applied_policies ...
    failed,       \* ... and in failed_policies
    refused,      \* those that OpenSearch left alone with status 200
    left          \* requests that may still fail

Spend(n) == left >= n /\ left' = left - n

\* The session is opened and tested; a failure ends the script.
Connect ==
    /\ step = "idle"
    /\ \/ step' = "check" /\ Spend(0)
       \/ step' = "idle" /\ Spend(1)
    /\ assignments' = <<>> /\ applied' = {} /\ failed' = {} /\ refused' = {} /\ todo' = {}
    /\ UNCHANGED <<cluster, metadata>>

\* Without --force the script asks whether any index is managed already.  The
\* answer only changes what is printed; a broken connection ends the script.
CheckApplied ==
    /\ step = "check"
    /\ \/ step' = "retrieve" /\ Spend(0)
       \/ step' = "idle" /\ Spend(1)
    /\ UNCHANGED <<cluster, metadata, todo, assignments, applied, failed, refused>>

\* A failure leaves no assignment; without an assignment the script ends.  (The
\* filter_path of the request returns no index without a policy.)
Retrieve ==
    /\ step = "retrieve"
    /\ \/ assignments' = metadata /\ Spend(0)
       \/ assignments' = <<>> /\ Spend(1)
    /\ todo' = DOMAIN assignments'
    /\ step' = IF assignments' = <<>> THEN "idle" ELSE "add"
    /\ UNCHANGED <<cluster, metadata, applied, failed, refused>>

\* A request is answered with success or an error, or takes effect although no
\* answer comes.  An index that is managed already stays as it is, and so does
\* one that OpenSearch refuses, say because it is closed: both are reported in
\* the body of an answer with status 200, and only the status is looked at.
Answers == {"ok", "refused", "error", "lost"}

Raises(answer) == answer \in {"error", "lost"}

BreakOnError(i, answer) == IF Raises(answer) THEN {} ELSE todo \ {i}  \* mutant

Remaining(i, answer) == todo \ {i}

AddPolicy(i, answer) ==
    /\ step = "add"
    /\ i \in todo
    /\ Spend(IF answer = "ok" THEN 0 ELSE 1)
    /\ cluster' = IF answer \in {"ok", "lost"} /\ cluster[i].policy = NoPolicy
                  THEN [cluster EXCEPT ![i].policy = assignments[i]]
                  ELSE cluster
    /\ applied' = IF Raises(answer) THEN applied ELSE applied \cup {i}
    /\ failed' = IF Raises(answer) THEN failed \cup {i} ELSE failed
    /\ refused' = IF answer = "refused" THEN refused \cup {i} ELSE refused
    /\ todo' = Remaining(i, answer)
    /\ UNCHANGED <<metadata, step, assignments>>

\* The counts are printed.
Finish ==
    /\ step = "add"
    /\ todo = {}
    /\ step' = "idle"
    /\ UNCHANGED <<cluster, metadata, todo, assignments, applied, failed, refused, left>>

\* The process is killed, and what it had counted is gone.
Killed ==
    /\ step = "add"
    /\ Spend(1)
    /\ step' = "idle"
    /\ assignments' = <<>> /\ applied' = {} /\ failed' = {} /\ refused' = {} /\ todo' = {}
    /\ UNCHANGED <<cluster, metadata>>

ReapplyStep ==
    \/ Connect \/ CheckApplied \/ Retrieve \/ Finish \/ Killed
    \/ \E i \in todo, answer \in Answers : AddPolicy(i, answer)

\* OpenSearch executes a policy and clears the metadata of its index.
ClearMetadata ==
    /\ \E i \in DOMAIN metadata :
        /\ cluster[i].policy # NoPolicy
        /\ metadata' = [j \in DOMAIN metadata \ {i} |-> metadata[j]]
    /\ UNCHANGED <<cluster, step, todo, assignments, applied, failed, refused, left>>
=============================================================================
