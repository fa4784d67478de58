------------------------- MODULE SecurityMigration -------------------------
(***************************************************************************)
(* solutions/migrate-opendistro-security-to-aiven-for-opensearch:          *)
(* avn-migrate-os-security-config.py copies the security configuration of  *)
(* an Opendistro service into an Aiven for OpenSearch service.             *)
(*                                                                         *)
(* A run reads every section of both services, decides from these two      *)
(* snapshots which entries to add and which to update, and then sends, for *)
(* one section after the other, one PATCH with the additions and one with  *)
(* the updates.  The first failure ends the run; the user starts another.  *)
(* An administrator of the target may change entries at any time.          *)
(*                                                                         *)
(* An entry is a partial function from field names to values, as the JSON  *)
(* object is.  "reserved" stands for the fields reserved and static, which *)
(* the code treats alike; "settings" for all fields without a meaning to   *)
(* the script.                                                             *)
(***************************************************************************)
EXTENDS Naturals, Sequences

CONSTANTS
    Sections,        \* SECURITY_CONFIG_SECTIONS, a sequence
    Names,           \* names of entries
    Untouchables,    \* PREDEFINED_UNTOUCHABLES: section -> names
    SourceChoices,   \* what the source may hold: <<section, name>> -> entries
    TargetChoices,   \* what the target may hold at first
    EditChoices,     \* what an administrator may make of a target entry
    MaxFaults,       \* bounds: requests that fail, ...
    MaxSourceErrors, \* ... error answers of the source, ...
    MaxEdits         \* ... and edits of the administrator

Manager == "os-sec-admin"
NoEntry == [f \in {"none"} |-> TRUE]
SectionSet == {Sections[k] : k \in DOMAIN Sections}

\* A JSON object of a section: only mappings have users, only users a hash.
IsEntry(s, entry) ==
    \/ entry = NoEntry
    \/ /\ entry = [f \in DOMAIN entry |-> entry[f]]
       /\ "none" \notin DOMAIN entry
       /\ \A f \in DOMAIN entry \cap {"reserved", "hidden"} : entry[f] \in BOOLEAN
       /\ "users" \in DOMAIN entry => s = "rolesmapping"
       /\ "hash" \in DOMAIN entry => s = "internalusers"

\* The source's documents hold the hash of every user (lines 58-60).
IsSourceEntry(s, entry) ==
    /\ IsEntry(s, entry)
    /\ entry # NoEntry /\ s = "internalusers" => "hash" \in DOMAIN entry

\* Every mapping of the target has its list of users (line 263 relies on it);
\* a flag that is not set is left out, which the code does not tell apart.
IsTargetEntry(s, entry) ==
    /\ IsEntry(s, entry)
    /\ \A f \in DOMAIN entry \cap {"reserved", "hidden"} : entry[f]
    /\ entry # NoEntry /\ s = "rolesmapping" => "users" \in DOMAIN entry

ASSUME EntriesAssumption ==
    \A s \in SectionSet, n \in Names :
        /\ \A c \in SourceChoices : IsSourceEntry(s, c[<<s, n>>])
        /\ \A c \in TargetChoices : IsTargetEntry(s, c[<<s, n>>])
        /\ \A e \in EditChoices[<<s, n>>] : IsTargetEntry(s, e)

ASSUME SectionsAssumption ==
    /\ Sections \in Seq(SectionSet) \ {<<>>}
    /\ \A j, k \in DOMAIN Sections : Sections[j] = Sections[k] => j = k

ASSUME BoundsAssumption ==
    /\ Untouchables \in [SectionSet -> SUBSET Names]
    /\ MaxFaults \in Nat
    /\ MaxSourceErrors \in Nat
    /\ MaxEdits \in Nat

VARIABLES
    source,   \* the source's configuration: section -> name -> entry
    target,   \* the target's configuration
    os,       \* opendistro_configuration: what this run read of the source
    aiven,    \* aiven_configuration: what this run read of the target
    pc,       \* "idle", "fetch", "add" or "update"
    i,        \* the section in work
    result,   \* how the latest run ended
    left,     \* how much of each bound is left
    unread,   \* auxiliary: sections for which the source answered an error
    edited,   \* auxiliary: <<section, name>> edited since this run started
    synced    \* auxiliary: nothing was edited since a full migration

vars == <<source, target, os, aiven, pc, i, result, left, unread, edited, synced>>

Sec == Sections[i]
Entries(config, s) == {n \in Names : config[s][n] # NoEntry}
Empty == [s \in SectionSet |-> [n \in Names |-> NoEntry]]

IsSet(entry, field) == field \in DOMAIN entry /\ entry[field]

\* A list of users, empty if the entry has none.
WithUsers(entry) ==
    [f \in DOMAIN entry \cup {"users"} |-> IF f \in DOMAIN entry THEN entry[f] ELSE {}]

Without(entry, fields) == [f \in DOMAIN entry \ fields |-> entry[f]]

-----------------------------------------------------------------------------
(* What to add and what to update.                                         *)

\* untouchable_if_field_set
Flagged(config, s, fields) ==
    {n \in Entries(config, s) : \E f \in fields : IsSet(config[s][n], f)}

\* Names of target entries the script leaves alone.
UntouchedFlagsOnly(s) == Flagged(aiven, s, {"reserved", "hidden"})  \* mutant
UntouchedReserved(s)  == Flagged(aiven, s, {"reserved"}) \cup Untouchables[s]  \* mutant

AivenUntouchables(s) == Flagged(aiven, s, {"reserved", "hidden"}) \cup Untouchables[s]

\* simple_analyzes
ValidEntries(s) == (Entries(os, s) \ Flagged(os, s, {"reserved"})) \ AivenUntouchables(s)

NewOrOld(s) == ValidEntries(s)  \* mutant

NewEntries(s) == ValidEntries(s) \ Entries(aiven, s)

NoUpdates(s) == {}  \* mutant

UpdatedEntries(s) == ValidEntries(s) \cap Entries(aiven, s)

\* inplace_filter_non_migratable_fields: a flag that is set becomes FALSE, one
\* that is not set is removed; what is left of "reserved" and "static" is
\* never set where this is used.
Filtered(entry) ==
    [f \in {g \in DOMAIN entry : g # "reserved" /\ (g = "hidden" => entry[g])} |->
        IF f = "hidden" THEN FALSE ELSE entry[f]]

\* The source's side of an update: a role mapping without users gets none.
OsValues(s, n) ==
    IF s = "rolesmapping" THEN WithUsers(Filtered(os[s][n])) ELSE Filtered(os[s][n])

AivenValues(s, n) == Filtered(aiven[s][n])

\* Line 266 calls add() on a list, which has no such method: the update of a
\* mapping that has os-sec-admin on the target only raises AttributeError.
UpdateRaises(s, n) ==
    /\ s = "rolesmapping"
    /\ Manager \in AivenValues(s, n)["users"]
    /\ Manager \notin OsValues(s, n)["users"]

\* A value that Python takes for false counts as a missing one.
Missing(v, f) == f \notin DOMAIN v \/ (f = "hidden" /\ ~v[f]) \/ (f = "users" /\ v[f] = {})

Changed(s, n) ==
    LET o == OsValues(s, n)
        a == AivenValues(s, n)
    IN  IF s = "rolesmapping"
        THEN \E f \in DOMAIN o \cup DOMAIN a :
                \/ Missing(o, f) # Missing(a, f)
                \/ ~Missing(o, f) /\ o[f] # a[f]
        ELSE o # a

\* aiven_values.update(os_values)
Update(a, o) == [f \in DOMAIN a \cup DOMAIN o |-> IF f \in DOMAIN o THEN o[f] ELSE a[f]]

Additions(s) == [n \in NewEntries(s) |-> Filtered(os[s][n])]

\* Entries that do not differ are skipped, counted as unchanged.
Updates(s) == [n \in {m \in UpdatedEntries(s) : Changed(s, m)} |->
                  Update(AivenValues(s, n), OsValues(s, n))]

-----------------------------------------------------------------------------
(* The two services.                                                       *)

\* The target's API never shows a password hash, and shows a role mapping
\* without users with an empty list of them.
Shown(config, s) ==
    [n \in Names |->
        IF config[s][n] # NoEntry /\ s = "rolesmapping"
        THEN WithUsers(Without(config[s][n], {"hash"}))
        ELSE Without(config[s][n], {"hash"})]

\* A PATCH is applied as a whole; it is refused if it names a reserved or
\* hidden entry.
Refused(s, patch) ==
    \E n \in DOMAIN patch \cap Entries(target, s) :
        IsSet(target[s][n], "reserved") \/ IsSet(target[s][n], "hidden")

Patched(s, patch) ==
    [target EXCEPT ![s] = [n \in Names |->
        IF n \in DOMAIN patch THEN Without(patch[n], {"hidden"}) ELSE target[s][n]]]

-----------------------------------------------------------------------------
Init ==
    /\ source \in {[s \in SectionSet |-> [n \in Names |-> c[<<s, n>>]]] : c \in SourceChoices}
    /\ target \in {[s \in SectionSet |-> [n \in Names |-> c[<<s, n>>]]] : c \in TargetChoices}
    /\ os = Empty
    /\ aiven = Empty
    /\ pc = "idle"
    /\ i = 1
    /\ result = "none"
    /\ left = [faults |-> MaxFaults, errors |-> MaxSourceErrors, edits |-> MaxEdits]
    /\ unread = {}
    /\ edited = {}
    /\ synced = FALSE

Spend(what) ==
    /\ left[what] > 0
    /\ left' = [left EXCEPT ![what] = @ - 1]

\* The run ends, with or without success.
End(how) ==
    /\ pc' = "idle"
    /\ result' = how
    /\ UNCHANGED <<source, os, aiven, i, unread, edited>>

\* main: the user starts the script, and it can connect to both services.
Start ==
    /\ pc = "idle"
    /\ pc' = "fetch"
    /\ i' = 1
    /\ os' = Empty
    /\ aiven' = Empty
    /\ result' = "none"
    /\ unread' = {}
    /\ edited' = {}
    /\ UNCHANGED <<source, target, left, synced>>

\* A service does not answer the first request: main returns.
ConnectFails ==
    /\ pc = "idle"
    /\ Spend("faults")
    /\ result' = "failed"
    /\ UNCHANGED <<source, target, os, aiven, pc, i, unread, edited, synced>>

\* The next section, or what follows the last one.
Advance(phase, last) ==
    IF i < Len(Sections)
    THEN i' = i + 1 /\ pc' = phase
    ELSE i' = 1 /\ pc' = last

\* One section is read from both services.
Fetch ==
    /\ pc = "fetch"
    /\ os' = [os EXCEPT ![Sec] = source[Sec]]
    /\ aiven' = [aiven EXCEPT ![Sec] = Shown(target, Sec)]
    /\ Advance("fetch", "add")
    /\ UNCHANGED <<source, target, result, left, unread, edited, synced>>

\* The source answers with an error object: it has no "_id", and get returns
\* an empty section.
FetchNothing ==
    /\ pc = "fetch"
    /\ Spend("errors")
    /\ unread' = unread \cup {Sec}
    /\ aiven' = [aiven EXCEPT ![Sec] = Shown(target, Sec)]
    /\ Advance("fetch", "add")
    /\ UNCHANGED <<source, target, os, result, edited, synced>>

\* A request raises, or what it returned is not a configuration of version 2.
FetchFails ==
    /\ pc = "fetch"
    /\ Spend("faults")
    /\ End("failed")
    /\ UNCHANGED <<target, synced>>

\* One PATCH: nothing to send, accepted, refused, lost, or accepted with the
\* answer lost.  next is what follows a success.
Send(patch, next) ==
    \/ /\ DOMAIN patch # {} => ~Refused(Sec, patch)
       /\ target' = Patched(Sec, patch)
       /\ next
       /\ UNCHANGED left
    \/ /\ Refused(Sec, patch)
       /\ End("refused")
       /\ UNCHANGED <<target, left, synced>>
    \/ /\ DOMAIN patch # {}
       /\ Spend("faults")
       /\ End("failed")
       /\ UNCHANGED <<target, synced>>
    \/ /\ DOMAIN patch # {} /\ ~Refused(Sec, patch)
       /\ Spend("faults")
       /\ target' = Patched(Sec, patch)
       /\ End("failed")
       /\ UNCHANGED synced

ToUpdate ==
    /\ pc' = "update"
    /\ UNCHANGED <<source, os, aiven, i, result, unread, edited, synced>>

\* The next section, or "Migration completed".
NextSection ==
    IF i < Len(Sections)
    THEN /\ Advance("add", "idle")
         /\ UNCHANGED <<source, os, aiven, result, unread, edited, synced>>
    ELSE /\ End("completed")
         /\ synced' = (synced \/ (unread = {} /\ edited = {}))

Add == pc = "add" /\ Send(Additions(Sec), ToUpdate)

\* An exception while the updates are collected ends the run; the section's
\* additions are already there, and later sections are not migrated.
UpdateFails ==
    /\ pc = "update"
    /\ \E n \in UpdatedEntries(Sec) : UpdateRaises(Sec, n)
    /\ End("raised")
    /\ UNCHANGED <<target, left, synced>>

UpdateSection ==
    /\ pc = "update"
    /\ \A n \in UpdatedEntries(Sec) : ~UpdateRaises(Sec, n)
    /\ Send(Updates(Sec), NextSection)

\* An administrator changes, adds or removes an entry of the target, or the
\* service reserves one.
AdminEdit(s, n) ==
    /\ Spend("edits")
    /\ target[s][n] # NoEntry =>
          ~IsSet(target[s][n], "reserved") /\ ~IsSet(target[s][n], "hidden")
    /\ \E e \in EditChoices[<<s, n>>] \ {target[s][n]} :
          target' = [target EXCEPT ![s][n] = e]
    /\ edited' = edited \cup {<<s, n>>}
    /\ synced' = FALSE
    /\ UNCHANGED <<source, os, aiven, pc, i, result, unread>>

Script == Start \/ Fetch \/ Add \/ UpdateFails \/ UpdateSection

Next ==
    \/ Script
    \/ ConnectFails
    \/ FetchNothing
    \/ FetchFails
    \/ \E s \in SectionSet, n \in Names : AdminEdit(s, n)

Spec == Init /\ [][Next]_vars

\* The script does not stop between its steps, and is started again after it
\* ended: "You can run the migration script multiple times".
FairSpec == Spec /\ WF_vars(Script)

-----------------------------------------------------------------------------
(* Properties.                                                             *)

\* An entry of the source that is not reserved, whose name the script may
\* touch on the target.  Whether it is hidden does not matter to the code
\* (lines 137-140), which only clears the flag (lines 205-207), and an entry
\* that exists on the target is updated (line 148).
Movable(s, n) ==
    /\ source[s][n] # NoEntry
    /\ ~IsSet(source[s][n], "reserved")
    /\ n \notin Untouchables[s]
    /\ target[s][n] # NoEntry =>
          ~IsSet(target[s][n], "reserved") /\ ~IsSet(target[s][n], "hidden")

\* The target has every value the source's entry has.
Migrated(s, n) ==
    /\ target[s][n] # NoEntry
    /\ \A f \in DOMAIN source[s][n] \ {"reserved", "hidden"} :
          f \in DOMAIN target[s][n] /\ target[s][n][f] = source[s][n][f]

\* "Migration completed" (line 433) is true of what the code sets out to do (the
\* comment in lines 124-128; HiddenIsNotMigrated is what README.md says): after
\* a run that ended with it, all that the code may move is on the target,
\* password hashes included, apart from sections the source answered an error
\* for and from entries that an administrator changed meanwhile.
CompletedMeansMigrated ==
    result = "completed" =>
        \A s \in SectionSet \ unread, n \in Names :
            Movable(s, n) /\ <<s, n>> \notin edited => Migrated(s, n)

ScriptStep == pc \in {"add", "update"} /\ edited' = edited /\ left'.edits = left.edits

\* An entry the script may not touch stays as it is, ...
Untouched(s, n) ==
    n \in Untouchables[s] \/ IsSet(target[s][n], "reserved") \/ IsSet(target[s][n], "hidden")
    => target'[s][n] = target[s][n]

\* ... fields that only the target has keep their values, except the users of a
\* mapping, ...
FieldsKept(s, n) ==
    target[s][n] # NoEntry /\ <<s, n>> \notin edited =>
        \A f \in DOMAIN target[s][n] \ DOMAIN source[s][n] :
            f # "users" => f \in DOMAIN target'[s][n] /\ target'[s][n][f] = target[s][n][f]

\* ... of whom os-sec-admin stays.
ManagerKept(s, n) ==
    /\ target[s][n] # NoEntry
    /\ "users" \in DOMAIN target[s][n]
    /\ Manager \in target[s][n]["users"]
    /\ <<s, n>> \notin edited
    /\ target'[s][n] # target[s][n]
    => source[s][n] # NoEntry /\ Manager \in target'[s][n]["users"]

\* A step of the script takes nothing from the target that the target alone has:
\* PREDEFINED_UNTOUCHABLES (lines 172-175) and flagged entries are never changed,
\* updates merge (line 284), and "the os-sec-admin is not unmapped from any role
\* it has been assigned" (lines 257-258), in entries that nobody edited since the
\* run started.
TargetIsKept ==
    [][ScriptStep =>
         \A s \in SectionSet, n \in Names :
            Untouched(s, n) /\ FieldsKept(s, n) /\ ManagerKept(s, n)]_vars

\* "The following configurations are **not** migrated:" (README.md:20) "Reserved,
\* static, or hidden entries" (README.md:22): no patch makes or changes an entry that is
\* hidden on the source.
HiddenIsNotMigrated ==
    [][ScriptStep =>
         \A s \in SectionSet, n \in Names :
            IsSet(source[s][n], "hidden") => target'[s][n] = target[s][n]]_vars

\* Running the script again ("You can run the migration script multiple
\* times", README.md:88) after a full migration changes nothing on the target,
\* not even for a moment, although users are sent again each time.
RerunChangesNothing == [][synced /\ ScriptStep => target' = target]_vars

\* Failures end, and the script is started again after each: this leads to a
\* complete migration ("The migration script transfers the security
\* configuration", README.md:11), ...
EventuallyCompletes == <>(result = "completed")

\* ... if no mapping of the target has os-sec-admin that the source's lacks.
ManagerConflict ==
    \E n \in Names :
        /\ "rolesmapping" \in SectionSet
        /\ Movable("rolesmapping", n)
        /\ target["rolesmapping"][n] # NoEntry
        /\ Manager \in WithUsers(target["rolesmapping"][n])["users"]
        /\ Manager \notin WithUsers(source["rolesmapping"][n])["users"]

\* Without such a mapping every failure can be repaired by running again: a
\* refused or half-finished run never leaves what stops the next one.
CompletesUnlessConflict == <>(result = "completed" \/ ManagerConflict)
=============================================================================
