--------------------------- MODULE ValidationData ---------------------------
(***************************************************************************)
(* solutions/validate-elasticsearch-to-opensearch-migration:               *)
(* get_migration_validation_data.py, which reads every index of a cluster, *)
(* waits, counts the documents again and writes a file, and the comparison *)
(* of two such files in compare_migration_validation_data.py.              *)
(*                                                                         *)
(* An index is its number of documents, its aliases ("none", "read" or     *)
(* "write", the last with a write index) and its ISM policy.  Unread is    *)
(* what the script writes down when a request fails: None, or the text of  *)
(* the error.                                                              *)
(***************************************************************************)
EXTENDS Naturals, FiniteSets

CONSTANT Unread

VARIABLES
    cluster,  \* the indices of the cluster that is read
    step,     \* "idle", or which pass the script is in
    todo,     \* the indices this pass has still to read
    info,     \* index_data
    file,     \* the output file: <<>> or <<what was written>>
    left      \* requests that may still fail

Spend(n) == left >= n /\ left' = left - n

\* A failure is printed and leaves no index to read.
GetMatchingIndices ==
    /\ step = "idle"
    /\ \/ todo' = DOMAIN cluster /\ Spend(0)
       \/ todo' = {} /\ Spend(1)
    /\ info' = <<>>
    /\ step' = "first"
    /\ UNCHANGED <<cluster, file>>

\* What a request for a value returns, given the requests that fail.
Answer(failed, field, value) == IF field \in failed THEN Unread ELSE value

CollectIndexInfo(i) ==
    /\ step = "first"
    /\ i \in todo
    /\ \E failed \in SUBSET {"aliases", "ism_policy", "document_count"} :
        /\ Spend(Cardinality(failed))
        /\ info' = [j \in DOMAIN info \cup {i} |->
              IF j # i THEN info[j] ELSE
              [aliases         |-> Answer(failed, "aliases", cluster[i].aliases),
               ism_policy      |-> Answer(failed, "ism_policy", cluster[i].policy),
               document_count  |-> Answer(failed, "document_count", cluster[i].docs),
               document_count2 |-> Unread, document_count_delta |-> FALSE,
               has_write_alias |-> FALSE]]
    /\ todo' = todo \ {i}
    /\ UNCHANGED <<cluster, step, file>>

\* The script sleeps for waitsec seconds.
Wait ==
    /\ step = "first"
    /\ todo = {}
    /\ step' = "second"
    /\ todo' = DOMAIN info
    /\ UNCHANGED <<cluster, info, file, left>>

CountAgain(i) ==
    /\ step = "second"
    /\ i \in todo
    /\ info[i].aliases # Unread
    /\ \E failed \in SUBSET {"count"} :
        LET count == Answer(failed, "count", cluster[i].docs) IN
        /\ Spend(Cardinality(failed))
        /\ info' = [info EXCEPT
              ![i].document_count2      = count,
              ![i].document_count_delta = count # info[i].document_count,
              ![i].has_write_alias      = info[i].aliases = "write"]
    /\ todo' = todo \ {i}
    /\ UNCHANGED <<cluster, step, file>>

\* Aliases that could not be read are None, and None.values() ends the script.
CountAgainRaises(i) ==
    /\ step = "second"
    /\ i \in todo
    /\ info[i].aliases = Unread
    /\ step' = "idle" /\ todo' = {} /\ info' = <<>>
    /\ UNCHANGED <<cluster, file, left>>

WriteFile ==
    /\ step = "second"
    /\ todo = {}
    /\ file' = <<info>>
    /\ step' = "idle" /\ info' = <<>>
    /\ UNCHANGED <<cluster, todo, left>>

CollectStep ==
    \/ GetMatchingIndices
    \/ \E i \in todo : CollectIndexInfo(i) \/ CountAgain(i) \/ CountAgainRaises(i)
    \/ Wait
    \/ WriteFile

-----------------------------------------------------------------------------
(* compare_indices                                                         *)

AnyWriteAlias(d1, d2) ==  \* mutant: "or" in place of "!="
    d1.has_write_alias \/ d2.has_write_alias \/ d1.aliases # d2.aliases

SettingsDiffer(d1, d2) ==
    \/ d1.has_write_alias # d2.has_write_alias
    \/ d1.ism_policy # d2.ism_policy
    \/ d1.aliases # d2.aliases

FirstCountDiffers(d1, d2) == d1.document_count # d2.document_count2  \* mutant

CountsDiffer(d1, d2) ==
    \/ d1.document_count # d2.document_count
    \/ d1.document_count2 # d2.document_count2

\* The severity of an index of the first file: the first test that applies.
Severity(file1, file2, i) ==
    IF i \notin DOMAIN file2                    THEN 5
    ELSE IF SettingsDiffer(file1[i], file2[i])  THEN 4
    ELSE IF ~CountsDiffer(file1[i], file2[i])   THEN 0
    ELSE IF file1[i].document_count_delta       THEN 1
    ELSE IF file1[i].has_write_alias            THEN 2
    ELSE 3
=============================================================================
