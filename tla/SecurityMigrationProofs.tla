----------------------- MODULE SecurityMigrationProofs -----------------------
(***************************************************************************)
(* Proofs about SecurityMigration, for any sections, names, untouchables,  *)
(* entries and numbers of faults and edits.                                *)
(*                                                                         *)
(* The core is about single entries: what avn-migrate-os-security-config   *)
(* makes of an entry is Stable, that is, a run with fresh snapshots would  *)
(* leave it as it is.  The inductive invariant follows an entry that no    *)
(* administrator has edited through the phases of a run: its snapshot is   *)
(* fresh until its section is in work, and it is Stable afterwards.        *)
(***************************************************************************)
EXTENDS SecurityMigration, TLAPS

-----------------------------------------------------------------------------
(* The operators of the model, for an entry of the source and one of the   *)
(* target instead of a section and a name.                                 *)

\* What the target's API shows of an entry (Shown).
ShownEntry(s, y) ==
    IF y # NoEntry /\ s = "rolesmapping"
    THEN WithUsers(Without(y, {"hash"}))
    ELSE Without(y, {"hash"})

\* OsValues and AivenValues.
OsSide(s, x) == IF s = "rolesmapping" THEN WithUsers(Filtered(x)) ELSE Filtered(x)
AivenSide(s, y) == Filtered(ShownEntry(s, y))

\* Changed.
Differ(s, o, a) ==
    IF s = "rolesmapping"
    THEN \E f \in DOMAIN o \cup DOMAIN a :
            \/ Missing(o, f) # Missing(a, f)
            \/ ~Missing(o, f) /\ o[f] # a[f]
    ELSE o # a

\* What an addition and an update leave on the target.
Added(x) == Without(Filtered(x), {"hidden"})
Merged(a, o) == Without(Update(a, o), {"hidden"})

IsFlagged(entry) == IsSet(entry, "reserved") \/ IsSet(entry, "hidden")

\* An entry y of the target that a run with fresh snapshots leaves alone, given
\* the entry x of the source.
StableEntry(s, x, y) ==
    /\ y # NoEntry
    /\ Differ(s, OsSide(s, x), AivenSide(s, y)) =>
          Merged(AivenSide(s, y), OsSide(s, x)) = y

-----------------------------------------------------------------------------
(* The inductive invariant.                                                *)

IsConfig(c) == c = [s \in SectionSet |-> [n \in Names |-> c[s][n]]]

\* An entry of the target, or what the script made of an entry x of the source:
\* a mapping may then have no users, if x has none.
FlagsAreSet(entry) == \A f \in DOMAIN entry \cap {"reserved", "hidden"} : entry[f]
HasUsers(s, x, y) ==
    y # NoEntry /\ s = "rolesmapping" /\ x # NoEntry /\ "users" \in DOMAIN x
    => "users" \in DOMAIN y

TargetOK(s, x, y) == IsEntry(s, y) /\ FlagsAreSet(y) /\ HasUsers(s, x, y)

\* What the target's API shows: no hashes, and users in every mapping.
ShownOK(s, y) ==
    /\ IsEntry(s, y)
    /\ FlagsAreSet(y)
    /\ "hash" \notin DOMAIN y
    /\ s = "rolesmapping" /\ y # NoEntry => "users" \in DOMAIN y

Budgets == [faults : Nat, errors : Nat, edits : Nat]

TypeOK ==
    /\ IsConfig(source) /\ IsConfig(target) /\ IsConfig(os) /\ IsConfig(aiven)
    /\ pc \in {"idle", "fetch", "add", "update"}
    /\ i \in DOMAIN Sections
    /\ left \in Budgets
    /\ unread \subseteq SectionSet

EntriesOK ==
    \A s \in SectionSet, n \in Names :
        /\ IsSourceEntry(s, source[s][n])
        /\ TargetOK(s, source[s][n], target[s][n])
        /\ ShownOK(s, aiven[s][n])
        /\ os[s][n] \in {NoEntry, source[s][n]}

Fetched(k) == pc \in {"add", "update"} \/ (pc = "fetch" /\ k < i)
Pending(k) == (pc = "fetch" /\ k < i) \/ (pc = "add" /\ k >= i) \/ (pc = "update" /\ k > i)
Migrating(k) == pc = "update" /\ k = i
Finished(k) == (pc \in {"add", "update"} /\ k < i) \/ result = "completed"

\* What was read of the source.
OsIsRead ==
    \A k \in DOMAIN Sections :
        Fetched(k) /\ Sections[k] \notin unread => os[Sections[k]] = source[Sections[k]]

Fresh(s, n) == aiven[s][n] = ShownEntry(s, target[s][n])

\* The snapshot of the target is fresh until the section is in work, ...
PendingIsFresh ==
    \A k \in DOMAIN Sections, n \in Names :
        Pending(k) /\ <<Sections[k], n>> \notin edited => Fresh(Sections[k], n)

\* ... for the entries that were not added also between its two patches, ...
MigratingIsFresh ==
    \A k \in DOMAIN Sections, n \in Names :
        Migrating(k) /\ <<Sections[k], n>> \notin edited =>
            IF n \in NewEntries(Sections[k])
            THEN target[Sections[k]][n] = Added(source[Sections[k]][n])
            ELSE Fresh(Sections[k], n)

Stable(s, n) == Movable(s, n) => StableEntry(s, source[s][n], target[s][n])

\* ... and afterwards there is nothing left to do.
FinishedIsStable ==
    \A k \in DOMAIN Sections, n \in Names :
        Finished(k) /\ Sections[k] \notin unread /\ <<Sections[k], n>> \notin edited
        => Stable(Sections[k], n)

CompletedIsIdle == result = "completed" => pc = "idle"

\* Without edits since a full migration every entry stays as it is, and every
\* snapshot fresh.
SyncedIsStable ==
    synced =>
        /\ \A s \in SectionSet, n \in Names : Stable(s, n)
        /\ \A k \in DOMAIN Sections, n \in Names : Fetched(k) => Fresh(Sections[k], n)

IInv ==
    /\ TypeOK
    /\ EntriesOK
    /\ OsIsRead
    /\ PendingIsFresh
    /\ MigratingIsFresh
    /\ FinishedIsStable
    /\ CompletedIsIdle
    /\ SyncedIsStable

-----------------------------------------------------------------------------
(* Single entries.                                                         *)

IsFcn(e) == e = [f \in DOMAIN e |-> e[f]]

LEMMA FcnEq ==
    ASSUME NEW d, NEW e, IsFcn(d), IsFcn(e), DOMAIN d = DOMAIN e,
           \A f \in DOMAIN d : d[f] = e[f]
    PROVE  d = e
BY DEF IsFcn

LEMMA NoEntryFields ==
    /\ IsFcn(NoEntry)
    /\ DOMAIN NoEntry = {"none"}
    /\ \A s : IsEntry(s, NoEntry)
BY DEF NoEntry, IsFcn, IsEntry

\* An entry is a function, and NoEntry is the only one with the field none.
LEMMA EntryFields ==
    ASSUME NEW s, NEW e, IsEntry(s, e)
    PROVE  /\ IsFcn(e)
           /\ e = NoEntry <=> "none" \in DOMAIN e
BY NoEntryFields DEF IsEntry, IsFcn

\* The fields of what the model's operators return.
LEMMA FilteredFields ==
    ASSUME NEW e
    PROVE  /\ IsFcn(Filtered(e))
           /\ \A f : f \in DOMAIN Filtered(e) <=>
                 f \in DOMAIN e /\ f # "reserved" /\ (f = "hidden" => e[f])
           /\ \A f \in DOMAIN Filtered(e) :
                 Filtered(e)[f] = IF f = "hidden" THEN FALSE ELSE e[f]
BY DEF Filtered, IsFcn

LEMMA WithUsersFields ==
    ASSUME NEW e
    PROVE  /\ IsFcn(WithUsers(e))
           /\ \A f : f \in DOMAIN WithUsers(e) <=> f \in DOMAIN e \/ f = "users"
           /\ \A f \in DOMAIN e : WithUsers(e)[f] = e[f]
           /\ "users" \notin DOMAIN e => WithUsers(e)["users"] = {}
BY DEF WithUsers, IsFcn

LEMMA WithoutFields ==
    ASSUME NEW e, NEW g
    PROVE  /\ IsFcn(Without(e, {g}))
           /\ \A f : f \in DOMAIN Without(e, {g}) <=> f \in DOMAIN e /\ f # g
           /\ \A f \in DOMAIN Without(e, {g}) : Without(e, {g})[f] = e[f]
BY DEF Without, IsFcn

LEMMA UpdateFields ==
    ASSUME NEW a, NEW o
    PROVE  /\ \A f : f \in DOMAIN Update(a, o) <=> f \in DOMAIN a \/ f \in DOMAIN o
           /\ \A f \in DOMAIN Update(a, o) :
                 Update(a, o)[f] = IF f \in DOMAIN o THEN o[f] ELSE a[f]
BY DEF Update

LEMMA MergedFields ==
    ASSUME NEW a, NEW o
    PROVE  /\ IsFcn(Merged(a, o))
           /\ \A f : f \in DOMAIN Merged(a, o) <=>
                 (f \in DOMAIN a \/ f \in DOMAIN o) /\ f # "hidden"
           /\ \A f \in DOMAIN Merged(a, o) :
                 Merged(a, o)[f] = IF f \in DOMAIN o THEN o[f] ELSE a[f]
<1> DEFINE u == Update(a, o)
<1>1. /\ IsFcn(Without(u, {"hidden"}))
      /\ \A f : f \in DOMAIN Without(u, {"hidden"}) <=> f \in DOMAIN u /\ f # "hidden"
      /\ \A f \in DOMAIN Without(u, {"hidden"}) : Without(u, {"hidden"})[f] = u[f]
  BY WithoutFields
<1>2. QED
  BY <1>1, UpdateFields DEF Merged

LEMMA AddedFields ==
    ASSUME NEW x
    PROVE  /\ IsFcn(Added(x))
           /\ \A f : f \in DOMAIN Added(x) <=>
                 f \in DOMAIN x /\ f \notin {"reserved", "hidden"}
           /\ \A f \in DOMAIN Added(x) : Added(x)[f] = x[f]
<1> DEFINE v == Filtered(x)
<1>1. /\ IsFcn(Without(v, {"hidden"}))
      /\ \A f : f \in DOMAIN Without(v, {"hidden"}) <=> f \in DOMAIN v /\ f # "hidden"
      /\ \A f \in DOMAIN Without(v, {"hidden"}) : Without(v, {"hidden"})[f] = v[f]
  BY WithoutFields
<1>2. QED
  BY <1>1, FilteredFields DEF Added

\* The source's side of a comparison.
LEMMA OsSideFields ==
    ASSUME NEW s, NEW x
    PROVE  /\ IsFcn(OsSide(s, x))
           /\ \A f : f \in DOMAIN OsSide(s, x) <=>
                 \/ f \in DOMAIN x /\ f # "reserved" /\ (f = "hidden" => x[f])
                 \/ s = "rolesmapping" /\ f = "users"
           /\ \A f \in DOMAIN OsSide(s, x) :
                 f \in DOMAIN x => OsSide(s, x)[f] = IF f = "hidden" THEN FALSE ELSE x[f]
           /\ s = "rolesmapping" /\ "users" \notin DOMAIN x => OsSide(s, x)["users"] = {}
<1> DEFINE v == Filtered(x)
<1> HIDE DEF v
<1>1. /\ IsFcn(WithUsers(v))
      /\ \A f : f \in DOMAIN WithUsers(v) <=> f \in DOMAIN v \/ f = "users"
      /\ \A f \in DOMAIN v : WithUsers(v)[f] = v[f]
      /\ "users" \notin DOMAIN v => WithUsers(v)["users"] = {}
  BY WithUsersFields
<1>2. /\ IsFcn(v)
      /\ \A f : f \in DOMAIN v <=>
                 f \in DOMAIN x /\ f # "reserved" /\ (f = "hidden" => x[f])
      /\ \A f \in DOMAIN v : v[f] = IF f = "hidden" THEN FALSE ELSE x[f]
  BY FilteredFields DEF v
<1>3. OsSide(s, x) = IF s = "rolesmapping" THEN WithUsers(v) ELSE v
  BY DEF OsSide, v
<1>4. CASE s = "rolesmapping"
  BY <1>1, <1>2, <1>3, <1>4
<1>5. CASE s # "rolesmapping"
  BY <1>2, <1>3, <1>5
<1>6. QED
  BY <1>4, <1>5

\* What the API shows of an entry of the target.
LEMMA ShownFields ==
    ASSUME NEW s, NEW y, IsEntry(s, y), FlagsAreSet(y)
    PROVE  /\ \A f : f \in DOMAIN ShownEntry(s, y) <=>
                 \/ f \in DOMAIN y /\ f # "hash"
                 \/ y # NoEntry /\ s = "rolesmapping" /\ f = "users"
           /\ \A f \in DOMAIN ShownEntry(s, y) :
                 f \in DOMAIN y => ShownEntry(s, y)[f] = y[f]
           /\ y # NoEntry /\ s = "rolesmapping" /\ "users" \notin DOMAIN y =>
                 ShownEntry(s, y)["users"] = {}
           /\ ShownEntry(s, y) = NoEntry <=> y = NoEntry
           /\ IsFlagged(ShownEntry(s, y)) <=> IsFlagged(y)
           /\ ShownOK(s, ShownEntry(s, y))
<1> DEFINE w == Without(y, {"hash"})
           z == ShownEntry(s, y)
<1> HIDE DEF w, z
<1>1. /\ IsFcn(w)
      /\ \A f : f \in DOMAIN w <=> f \in DOMAIN y /\ f # "hash"
      /\ \A f \in DOMAIN w : w[f] = y[f]
  BY WithoutFields DEF w
<1>2. /\ IsFcn(WithUsers(w))
      /\ \A f : f \in DOMAIN WithUsers(w) <=> f \in DOMAIN w \/ f = "users"
      /\ \A f \in DOMAIN w : WithUsers(w)[f] = w[f]
      /\ "users" \notin DOMAIN w => WithUsers(w)["users"] = {}
  BY WithUsersFields
<1>3. z = IF y # NoEntry /\ s = "rolesmapping" THEN WithUsers(w) ELSE w
  BY DEF ShownEntry, w, z
<1>4. /\ IsFcn(z)
      /\ \A f : f \in DOMAIN z <=>
                 \/ f \in DOMAIN y /\ f # "hash"
                 \/ y # NoEntry /\ s = "rolesmapping" /\ f = "users"
      /\ \A f \in DOMAIN z : f \in DOMAIN y => z[f] = y[f]
      /\ y # NoEntry /\ s = "rolesmapping" /\ "users" \notin DOMAIN y => z["users"] = {}
  <2>1. CASE y # NoEntry /\ s = "rolesmapping"
    BY <1>1, <1>2, <1>3, <2>1
  <2>2. CASE ~(y # NoEntry /\ s = "rolesmapping")
    BY <1>1, <1>3, <2>2
  <2>3. QED
    BY <2>1, <2>2
<1>5. z = NoEntry <=> y = NoEntry
  <2>1. "none" \in DOMAIN z <=> "none" \in DOMAIN y
    BY <1>4
  <2>2. y = NoEntry => z = NoEntry
    <3>1. ASSUME y = NoEntry PROVE DOMAIN z = DOMAIN NoEntry /\ \A f \in DOMAIN z : z[f] = NoEntry[f]
      BY <1>4, <3>1, NoEntryFields
    <3>2. QED
      BY <3>1, <1>4, NoEntryFields, FcnEq
  <2>3. QED
    BY <2>1, <2>2, EntryFields, NoEntryFields
<1>6. IsFlagged(z) <=> IsFlagged(y)
  BY <1>4 DEF IsFlagged, IsSet
<1>7. ShownOK(s, z)
  <2>1. FlagsAreSet(z) /\ "hash" \notin DOMAIN z
    BY <1>4 DEF FlagsAreSet
  <2>2. IsEntry(s, z)
    <3>1. CASE y = NoEntry
      BY <1>5, <3>1, NoEntryFields
    <3>2. CASE y # NoEntry
      <4>1. "none" \notin DOMAIN z
        BY <1>4, <3>2, EntryFields
      <4>2. \A f \in DOMAIN z \cap {"reserved", "hidden"} : z[f] \in BOOLEAN
        BY <1>4, <3>2 DEF IsEntry
      <4>3. "users" \in DOMAIN z => s = "rolesmapping"
        BY <1>4, <3>2 DEF IsEntry
      <4>4. QED
        BY <2>1, <1>4, <4>1, <4>2, <4>3 DEF IsEntry, IsFcn
    <3>3. QED
      BY <3>1, <3>2
  <2>3. s = "rolesmapping" /\ z # NoEntry => "users" \in DOMAIN z
    BY <1>4, <1>5
  <2>4. QED
    BY <2>1, <2>2, <2>3 DEF ShownOK
<1>8. QED
  BY <1>4, <1>5, <1>6, <1>7 DEF z

\* Of an entry that is not flagged the filter takes nothing.
LEMMA UnflaggedFields ==
    ASSUME NEW s, NEW e, ShownOK(s, e), e # NoEntry, ~IsFlagged(e)
    PROVE  /\ \A f : f \in DOMAIN Filtered(e) <=> f \in DOMAIN e
           /\ \A f \in DOMAIN e : Filtered(e)[f] = e[f]
           /\ "none" \notin DOMAIN e
           /\ DOMAIN e \cap {"reserved", "hidden", "hash"} = {}
<1>1. DOMAIN e \cap {"reserved", "hidden", "hash"} = {}
  BY DEF ShownOK, IsFlagged, IsSet, FlagsAreSet
<1>2. "none" \notin DOMAIN e
  BY EntryFields DEF ShownOK
<1>3. \A f : f \in DOMAIN Filtered(e) <=> f \in DOMAIN e
  <2>1. \A f \in DOMAIN e : f # "reserved" /\ f # "hidden"
    BY <1>1
  <2>2. QED
    BY <2>1, FilteredFields
<1>4. \A f \in DOMAIN e : Filtered(e)[f] = e[f]
  BY <1>1, <1>3, FilteredFields
<1>5. QED
  BY <1>1, <1>2, <1>3, <1>4, Zenon

\* The result of an update of an entry shown as e: it has the fields of the two
\* sides, is not flagged, and another run would not change it.
LEMMA MergedIsStable ==
    ASSUME NEW s, NEW x, NEW e, IsSourceEntry(s, x), x # NoEntry,
           ShownOK(s, e), e # NoEntry, ~IsFlagged(e)
    PROVE  LET m == Merged(Filtered(e), OsSide(s, x))
           IN  TargetOK(s, x, m) /\ StableEntry(s, x, m)
<1> DEFINE a == Filtered(e)
           o == OsSide(s, x)
           m == Merged(a, o)
           b == AivenSide(s, m)
<1>1. /\ \A f : f \in DOMAIN a <=> f \in DOMAIN e
      /\ "none" \notin DOMAIN a
      /\ DOMAIN a \cap {"reserved", "hidden", "hash"} = {}
      /\ "users" \in DOMAIN a => s = "rolesmapping"
  BY UnflaggedFields DEF ShownOK, IsEntry
<1>2. /\ "none" \notin DOMAIN x
      /\ "users" \in DOMAIN x => s = "rolesmapping"
      /\ "hash" \in DOMAIN x => s = "internalusers"
  BY DEF IsSourceEntry, IsEntry
<1> HIDE DEF a
<1>3. /\ \A f : f \in DOMAIN o =>
            f # "none" /\ f # "reserved" /\ (f = "users" => s = "rolesmapping")
      /\ "hash" \in DOMAIN o => s = "internalusers"
      /\ s = "rolesmapping" => "users" \in DOMAIN o
  <2>1. \A f : f \in DOMAIN o <=>
              \/ f \in DOMAIN x /\ f # "reserved" /\ (f = "hidden" => x[f])
              \/ s = "rolesmapping" /\ f = "users"
    BY OsSideFields, Zenon
  <2> HIDE DEF o
  <2>2. QED
    BY <1>2, <2>1
<1> HIDE DEF o
<1>4. /\ IsFcn(m)
      /\ \A f : f \in DOMAIN m <=> (f \in DOMAIN a \/ f \in DOMAIN o) /\ f # "hidden"
      /\ \A f \in DOMAIN m : m[f] = IF f \in DOMAIN o THEN o[f] ELSE a[f]
  BY MergedFields
<1> HIDE DEF m
<1>5. DOMAIN m \cap {"none", "reserved", "hidden"} = {}
  BY <1>1, <1>3, <1>4
<1>6. IsEntry(s, m)
  BY <1>1, <1>3, <1>4, <1>5 DEF IsEntry, IsFcn
<1>7. FlagsAreSet(m) /\ ~IsFlagged(m) /\ m # NoEntry
  BY <1>5, NoEntryFields DEF FlagsAreSet, IsFlagged, IsSet
<1>8. TargetOK(s, x, m)
  BY <1>3, <1>4, <1>6, <1>7 DEF TargetOK, HasUsers
<1>9. /\ \A f : f \in DOMAIN b <=> f \in DOMAIN m /\ f # "hash"
      /\ \A f \in DOMAIN b : b[f] = m[f]
  <2> DEFINE z == ShownEntry(s, m)
  <2>1. /\ \A f : f \in DOMAIN z <=> f \in DOMAIN m /\ f # "hash"
        /\ \A f \in DOMAIN z : z[f] = m[f]
    <3>1. s = "rolesmapping" => "users" \in DOMAIN m
      BY <1>3, <1>4
    <3>2. QED
      BY <3>1, <1>6, <1>7, ShownFields
  <2>2. ShownOK(s, z) /\ z # NoEntry /\ ~IsFlagged(z)
    BY <1>6, <1>7, ShownFields
  <2>3. QED
    BY <2>1, <2>2, UnflaggedFields DEF AivenSide
<1> HIDE DEF b
<1>10. Merged(b, o) = m
  <2> DEFINE r == Merged(b, o)
  <2>1. /\ IsFcn(r)
        /\ \A f : f \in DOMAIN r <=> (f \in DOMAIN b \/ f \in DOMAIN o) /\ f # "hidden"
        /\ \A f \in DOMAIN r : r[f] = IF f \in DOMAIN o THEN o[f] ELSE b[f]
    BY MergedFields
  <2> HIDE DEF r
  <2>2. \A f : f \in DOMAIN r <=> f \in DOMAIN m
    BY <1>1, <1>4, <1>9, <2>1
  <2>3. \A f \in DOMAIN r : r[f] = m[f]
    BY <1>4, <1>9, <2>1, <2>2
  <2>4. DOMAIN r = DOMAIN m
    BY <2>2
  <2>5. QED
    BY <1>4, <2>1, <2>3, <2>4, FcnEq DEF r
<1>11. StableEntry(s, x, m)
  BY <1>7, <1>10 DEF StableEntry, b, o
<1>12. QED
  BY <1>8, <1>11 DEF m, a, o

\* The result of an addition; a mapping without users is shown with an empty
\* list of them, which is no difference.
LEMMA AddedIsStable ==
    ASSUME NEW s, NEW x, IsSourceEntry(s, x), x # NoEntry
    PROVE  TargetOK(s, x, Added(x)) /\ StableEntry(s, x, Added(x))
<1> DEFINE r == Added(x)
           o == OsSide(s, x)
           b == AivenSide(s, r)
<1>1. /\ "none" \notin DOMAIN x
      /\ "users" \in DOMAIN x => s = "rolesmapping"
      /\ "hash" \in DOMAIN x => s = "internalusers"
      /\ \A f \in DOMAIN x \cap {"reserved", "hidden"} : x[f] \in BOOLEAN
  BY DEF IsSourceEntry, IsEntry
<1>2. /\ IsFcn(r)
      /\ \A f : f \in DOMAIN r <=> f \in DOMAIN x /\ f \notin {"reserved", "hidden"}
      /\ \A f \in DOMAIN r : r[f] = x[f]
  BY AddedFields
<1> HIDE DEF r
<1>3. IsEntry(s, r)
  BY <1>1, <1>2 DEF IsEntry, IsFcn
<1>4. FlagsAreSet(r) /\ ~IsFlagged(r) /\ r # NoEntry
  BY <1>1, <1>2, NoEntryFields DEF FlagsAreSet, IsFlagged, IsSet
<1>5. TargetOK(s, x, r)
  BY <1>2, <1>3, <1>4 DEF TargetOK, HasUsers
<1>6. /\ \A f : f \in DOMAIN b <=>
              \/ f \in DOMAIN r /\ f # "hash"
              \/ s = "rolesmapping" /\ f = "users"
      /\ \A f \in DOMAIN b : f \in DOMAIN r => b[f] = r[f]
      /\ s = "rolesmapping" /\ "users" \notin DOMAIN r => b["users"] = {}
      /\ IsFcn(b)
  <2> DEFINE z == ShownEntry(s, r)
  <2>1. /\ \A f : f \in DOMAIN z <=>
              \/ f \in DOMAIN r /\ f # "hash"
              \/ s = "rolesmapping" /\ f = "users"
        /\ \A f \in DOMAIN z : f \in DOMAIN r => z[f] = r[f]
        /\ s = "rolesmapping" /\ "users" \notin DOMAIN r => z["users"] = {}
    BY <1>3, <1>4, ShownFields
  <2>2. ShownOK(s, z) /\ z # NoEntry /\ ~IsFlagged(z)
    BY <1>3, <1>4, ShownFields
  <2>3. /\ \A f : f \in DOMAIN b <=> f \in DOMAIN z
        /\ \A f \in DOMAIN z : b[f] = z[f]
    BY <2>2, UnflaggedFields DEF AivenSide
  <2>4. IsFcn(b)
    BY FilteredFields DEF AivenSide
  <2> HIDE DEF z
  <2>5. QED
    BY <2>1, <2>3, <2>4
<1>7. /\ \A f : f \in DOMAIN o <=>
              \/ f \in DOMAIN x /\ f # "reserved" /\ (f = "hidden" => x[f])
              \/ s = "rolesmapping" /\ f = "users"
      /\ \A f \in DOMAIN o :
              f \in DOMAIN x => o[f] = IF f = "hidden" THEN FALSE ELSE x[f]
      /\ s = "rolesmapping" /\ "users" \notin DOMAIN x => o["users"] = {}
  BY OsSideFields
<1> HIDE DEF o, b
<1>8. CASE s = "rolesmapping"
  <2>1. \A f : f # "hidden" => (f \in DOMAIN o <=> f \in DOMAIN b)
    BY <1>1, <1>2, <1>6, <1>7, <1>8
  <2>2. \A f : f # "hidden" /\ f \in DOMAIN o => o[f] = b[f]
    BY <1>1, <1>2, <1>6, <1>7, <1>8, <2>1
  <2>3. "hidden" \notin DOMAIN b /\ ("hidden" \in DOMAIN o => o["hidden"] = FALSE)
    BY <1>2, <1>6, <1>7
  <2>4. \A f : Missing(o, f) <=> Missing(b, f)
    BY <2>1, <2>2, <2>3 DEF Missing
  <2>5. \A f : ~Missing(o, f) => o[f] = b[f]
    BY <2>2, <2>3 DEF Missing
  <2>6. ~Differ(s, o, b)
    BY <1>8, <2>4, <2>5 DEF Differ, Missing
  <2>7. QED
    BY <1>4, <1>5, <2>6 DEF StableEntry, r, o, b
<1>9. CASE s # "rolesmapping"
  <2> DEFINE t == Merged(b, o)
  <2>1. /\ IsFcn(t)
        /\ \A f : f \in DOMAIN t <=> (f \in DOMAIN b \/ f \in DOMAIN o) /\ f # "hidden"
        /\ \A f \in DOMAIN t : t[f] = IF f \in DOMAIN o THEN o[f] ELSE b[f]
    BY MergedFields
  <2> HIDE DEF t
  <2>2. \A f : f \in DOMAIN t <=> f \in DOMAIN r
    BY <1>2, <1>6, <1>7, <1>9, <2>1
  <2>3. \A f \in DOMAIN t : t[f] = r[f]
    BY <1>2, <1>6, <1>7, <1>9, <2>1, <2>2
  <2>4. t = r
    <3>1. DOMAIN t = DOMAIN r
      BY <2>2
    <3>2. QED
      BY <1>2, <2>1, <2>3, <3>1, FcnEq
  <2>5. QED
    BY <1>4, <1>5, <2>4 DEF StableEntry, r, o, b, t
<1>10. QED
  BY <1>8, <1>9

\* An entry with nothing left to do has all values of the source.
LEMMA StableIsMigrated ==
    ASSUME NEW s, NEW x, NEW y, IsSourceEntry(s, x), x # NoEntry,
           TargetOK(s, x, y), ~IsFlagged(y), StableEntry(s, x, y),
           NEW f \in DOMAIN x, f \notin {"reserved", "hidden"}
    PROVE  f \in DOMAIN y /\ y[f] = x[f]
<1> DEFINE o == OsSide(s, x)
           b == AivenSide(s, y)
<1>1. f \in DOMAIN o /\ o[f] = x[f]
  <2>1. f # "reserved" /\ f # "hidden"
    OBVIOUS
  <2>2. f \in DOMAIN o
    BY <2>1, OsSideFields, Zenon
  <2>3. \A g \in DOMAIN o :
           g \in DOMAIN x => o[g] = IF g = "hidden" THEN FALSE ELSE x[g]
    BY OsSideFields
  <2> HIDE DEF o
  <2>4. QED
    BY <2>1, <2>2, <2>3
<1>2. /\ \A g : g \in DOMAIN b <=>
              \/ g \in DOMAIN y /\ g # "hash"
              \/ s = "rolesmapping" /\ g = "users"
      /\ \A g \in DOMAIN b : g \in DOMAIN y => b[g] = y[g]
      /\ s = "rolesmapping" /\ "users" \notin DOMAIN y => b["users"] = {}
  <2> DEFINE z == ShownEntry(s, y)
  <2>1. /\ \A g : g \in DOMAIN z <=>
              \/ g \in DOMAIN y /\ g # "hash"
              \/ s = "rolesmapping" /\ g = "users"
        /\ \A g \in DOMAIN z : g \in DOMAIN y => z[g] = y[g]
        /\ s = "rolesmapping" /\ "users" \notin DOMAIN y => z["users"] = {}
    BY ShownFields DEF TargetOK, StableEntry
  <2>2. ShownOK(s, z) /\ z # NoEntry /\ ~IsFlagged(z)
    BY ShownFields DEF TargetOK, StableEntry
  <2>3. /\ \A g : g \in DOMAIN b <=> g \in DOMAIN z
        /\ \A g \in DOMAIN z : b[g] = z[g]
    BY <2>2, UnflaggedFields DEF AivenSide
  <2> HIDE DEF z
  <2>4. QED
    BY <2>1, <2>3
<1>3. CASE Differ(s, o, b)
  <2>1. Merged(b, o) = y
    BY <1>3 DEF StableEntry
  <2> HIDE DEF o, b
  <2>2. QED
    BY <1>1, <2>1, MergedFields
<1>4. CASE ~Differ(s, o, b) /\ s # "rolesmapping"
  <2>1. o = b
    BY <1>4 DEF Differ
  <2> HIDE DEF o, b
  <2>2. QED
    BY <1>1, <1>2, <1>4, <2>1
<1>5. CASE ~Differ(s, o, b) /\ s = "rolesmapping"
  <2> HIDE DEF o, b
  <2>1. (Missing(o, f) <=> Missing(b, f)) /\ (~Missing(o, f) => o[f] = b[f])
    BY <1>1, <1>5 DEF Differ, Missing
  <2>2. CASE f # "users"
    BY <1>1, <1>2, <2>1, <2>2 DEF Missing
  <2>3. CASE f = "users"
    <3>1. "users" \in DOMAIN y
      BY <1>5, <2>3 DEF TargetOK, HasUsers, StableEntry
    <3>2. "users" \in DOMAIN b /\ b["users"] = y["users"]
      BY <1>2, <1>5, <3>1
    <3>3. QED
      BY <1>1, <2>1, <2>3, <3>1, <3>2 DEF Missing
  <2>4. QED
    BY <2>2, <2>3
<1>6. QED
  BY <1>3, <1>4, <1>5

-----------------------------------------------------------------------------
(* Configurations and patches.                                             *)

LEMMA SectionFacts ==
    /\ Len(Sections) \in Nat \ {0}
    /\ DOMAIN Sections = 1..Len(Sections)
    /\ \A k \in DOMAIN Sections : Sections[k] \in SectionSet
    /\ \A s \in SectionSet : \E k \in DOMAIN Sections : s = Sections[k]
BY SectionsAssumption DEF SectionSet

LEMMA ConfigFields ==
    ASSUME NEW c, IsConfig(c)
    PROVE  DOMAIN c = SectionSet
BY DEF IsConfig

LEMMA ConfigEq ==
    ASSUME NEW c, NEW d, IsConfig(c), IsConfig(d),
           \A s \in SectionSet, n \in Names : c[s][n] = d[s][n]
    PROVE  c = d
<1>1. [s \in SectionSet |-> [n \in Names |-> c[s][n]]]
        = [s \in SectionSet |-> [n \in Names |-> d[s][n]]]
  OBVIOUS
<1>2. QED
  BY <1>1 DEF IsConfig

LEMMA EmptyConfig ==
    /\ IsConfig(Empty)
    /\ \A s \in SectionSet, n \in Names : Empty[s][n] = NoEntry
BY DEF IsConfig, Empty

\* One section is replaced.
IsSection(v) == v = [n \in Names |-> v[n]]

LEMMA ConfigExcept ==
    ASSUME NEW c, IsConfig(c), NEW s \in SectionSet, NEW v, IsSection(v), NEW d,
           IsFcn(d), DOMAIN d = SectionSet,
           \A t \in SectionSet : d[t] = IF t = s THEN v ELSE c[t]
    PROVE  IsConfig(d)
<1>1. \A t \in SectionSet : c[t] = [n \in Names |-> c[t][n]]
  BY DEF IsConfig
<1>2. \A t \in SectionSet : d[t] = [n \in Names |-> d[t][n]]
  BY <1>1 DEF IsSection
<1>3. QED
  BY <1>2 DEF IsConfig, IsFcn

LEMMA ShownSection ==
    ASSUME NEW s
    PROVE  Shown(target, s) = [n \in Names |-> ShownEntry(s, target[s][n])]
BY DEF Shown, ShownEntry

\* What a patch leaves on the target.
LEMMA PatchedFields ==
    ASSUME IsConfig(target), NEW s \in SectionSet, NEW patch
    PROVE  /\ IsConfig(Patched(s, patch))
           /\ \A t \in SectionSet, n \in Names :
                 Patched(s, patch)[t][n] =
                    IF t = s /\ n \in DOMAIN patch
                    THEN Without(patch[n], {"hidden"}) ELSE target[t][n]
<1> DEFINE v == [n \in Names |->
                    IF n \in DOMAIN patch THEN Without(patch[n], {"hidden"}) ELSE target[s][n]]
<1>1. IsSection(v)
  BY DEF IsSection
<1>2. \A n \in Names : v[n] = IF n \in DOMAIN patch THEN Without(patch[n], {"hidden"})
                                                    ELSE target[s][n]
  OBVIOUS
<1>3. Patched(s, patch) = [target EXCEPT ![s] = v]
  BY DEF Patched
<1> HIDE DEF v
<1>4. /\ IsConfig(Patched(s, patch))
      /\ Patched(s, patch)[s] = v
      /\ \A t \in SectionSet : t # s => Patched(s, patch)[t] = target[t]
  <2> DEFINE d == Patched(s, patch)
  <2>1. /\ IsFcn(d)
        /\ DOMAIN d = SectionSet
        /\ \A t \in SectionSet : d[t] = IF t = s THEN v ELSE target[t]
    BY <1>3, ConfigFields DEF IsFcn
  <2> HIDE DEF d
  <2>2. IsConfig(d)
    BY <1>1, <2>1, ConfigExcept
  <2>3. QED
    BY <2>1, <2>2 DEF d
<1>5. ASSUME NEW t \in SectionSet, NEW n \in Names
      PROVE  Patched(s, patch)[t][n] =
                IF t = s /\ n \in DOMAIN patch
                THEN Without(patch[n], {"hidden"}) ELSE target[t][n]
  <2>1. CASE t = s
    BY <1>2, <1>4, <2>1
  <2>2. CASE t # s
    BY <1>4, <2>2
  <2>3. QED
    BY <2>1, <2>2
<1>6. QED
  BY <1>4, <1>5

\* The entries that may be sent.
LEMMA ValidFacts ==
    ASSUME EntriesOK, NEW s \in SectionSet, NEW n \in ValidEntries(s)
    PROVE  /\ n \in Names
           /\ n \notin Untouchables[s]
           /\ os[s][n] = source[s][n]
           /\ source[s][n] # NoEntry
           /\ ~IsSet(source[s][n], "reserved")
           /\ n \in Entries(aiven, s) => ~IsFlagged(aiven[s][n])
<1>1. n \in Names /\ os[s][n] # NoEntry /\ n \notin Untouchables[s]
  BY DEF ValidEntries, Entries, AivenUntouchables
<1>2. os[s][n] = source[s][n]
  BY <1>1 DEF EntriesOK
<1>3. ~IsSet(os[s][n], "reserved")
  BY DEF ValidEntries, Flagged, Entries
<1>4. n \in Entries(aiven, s) => ~IsFlagged(aiven[s][n])
  BY DEF ValidEntries, AivenUntouchables, Flagged, IsFlagged
<1>5. QED
  BY <1>1, <1>2, <1>3, <1>4

\* The patch of additions.
LEMMA AdditionsFacts ==
    ASSUME TypeOK, EntriesOK, NEW s \in SectionSet
    PROVE  /\ DOMAIN Additions(s) = NewEntries(s)
           /\ IsConfig(Patched(s, Additions(s)))
           /\ \A t \in SectionSet, n \in Names :
                 Patched(s, Additions(s))[t][n] =
                    IF t = s /\ n \in NewEntries(s)
                    THEN Added(source[s][n]) ELSE target[t][n]
<1> DEFINE p == Additions(s)
<1>1. DOMAIN p = NewEntries(s) /\ \A n \in NewEntries(s) : p[n] = Filtered(os[s][n])
  BY DEF Additions
<1>2. \A n \in NewEntries(s) : os[s][n] = source[s][n]
  BY ValidFacts DEF NewEntries
<1>3. \A n \in NewEntries(s) : Without(p[n], {"hidden"}) = Added(source[s][n])
  BY <1>1, <1>2 DEF Added
<1> HIDE DEF p
<1>4. /\ IsConfig(Patched(s, p))
      /\ \A t \in SectionSet, n \in Names :
            Patched(s, p)[t][n] = IF t = s /\ n \in DOMAIN p
                                  THEN Without(p[n], {"hidden"}) ELSE target[t][n]
  BY PatchedFields DEF TypeOK
<1>5. QED
  BY <1>1, <1>3, <1>4 DEF p

UpdateOf(s, n) == Merged(Filtered(aiven[s][n]), OsSide(s, source[s][n]))
Sent(s) == {n \in UpdatedEntries(s) : Changed(s, n)}

\* The patch of updates.
LEMMA UpdatesFacts ==
    ASSUME TypeOK, EntriesOK, NEW s \in SectionSet
    PROVE  /\ DOMAIN Updates(s) = Sent(s)
           /\ IsConfig(Patched(s, Updates(s)))
           /\ \A t \in SectionSet, n \in Names :
                 Patched(s, Updates(s))[t][n] =
                    IF t = s /\ n \in Sent(s) THEN UpdateOf(s, n) ELSE target[t][n]
<1> DEFINE p == Updates(s)
<1>1. /\ DOMAIN p = Sent(s)
      /\ \A n \in Sent(s) : p[n] = Update(AivenValues(s, n), OsValues(s, n))
  BY DEF Updates, Sent
<1>2. \A n \in Sent(s) : os[s][n] = source[s][n]
  BY ValidFacts DEF UpdatedEntries, Sent
<1>3. \A n \in Sent(s) : Without(p[n], {"hidden"}) = UpdateOf(s, n)
  BY <1>1, <1>2 DEF UpdateOf, Merged, OsSide, OsValues, AivenValues
<1> HIDE DEF p
<1>4. /\ IsConfig(Patched(s, p))
      /\ \A t \in SectionSet, n \in Names :
            Patched(s, p)[t][n] = IF t = s /\ n \in DOMAIN p
                                  THEN Without(p[n], {"hidden"}) ELSE target[t][n]
  BY PatchedFields DEF TypeOK
<1>5. QED
  BY <1>1, <1>3, <1>4 DEF p

\* Whether an entry is sent depends on the two sides only.
LEMMA ChangedIsDiffer ==
    ASSUME NEW s, NEW n
    PROVE  Changed(s, n) <=> Differ(s, OsSide(s, os[s][n]), Filtered(aiven[s][n]))
BY DEF Changed, Differ, OsSide, OsValues, AivenValues

\* An entry in a patch of updates.
LEMMA SentFacts ==
    ASSUME EntriesOK, NEW s \in SectionSet, NEW n \in UpdatedEntries(s)
    PROVE  /\ n \in Names
           /\ aiven[s][n] # NoEntry
           /\ ~IsFlagged(aiven[s][n])
           /\ TargetOK(s, source[s][n], UpdateOf(s, n))
           /\ StableEntry(s, source[s][n], UpdateOf(s, n))
<1>1. n \in ValidEntries(s) /\ n \in Entries(aiven, s)
  BY DEF UpdatedEntries
<1>2. n \in Names /\ aiven[s][n] # NoEntry
  BY <1>1 DEF Entries
<1>3. ~IsFlagged(aiven[s][n]) /\ source[s][n] # NoEntry
  BY <1>1, ValidFacts
<1>4. IsSourceEntry(s, source[s][n]) /\ ShownOK(s, aiven[s][n])
  BY <1>2 DEF EntriesOK
<1>5. QED
  BY <1>2, <1>3, <1>4, MergedIsStable DEF UpdateOf

-----------------------------------------------------------------------------
(* The steps of the script.                                                *)

LEMMA SpendType ==
    ASSUME left \in Budgets, NEW what \in {"faults", "errors", "edits"}, Spend(what)
    PROVE  /\ left' \in Budgets
           /\ what # "edits" => left'.edits = left.edits
           /\ what = "edits" => left'.edits # left.edits
BY DEF Spend, Budgets

\* A run ends without success.
Aborted ==
    /\ pc' = "idle"
    /\ result' \in {"refused", "failed", "raised"}
    /\ UNCHANGED <<source, os, aiven, i, unread, edited, synced>>
    /\ left' \in Budgets
    /\ left'.edits = left.edits

\* The ways the additions of a section can go.
LEMMA AddSplit ==
    ASSUME TypeOK, Add
    PROVE  /\ pc = "add"
           /\ \/ /\ target' = Patched(Sec, Additions(Sec))
                 /\ ~Refused(Sec, Additions(Sec))
                 /\ ToUpdate
                 /\ left' = left
              \/ /\ target' = Patched(Sec, Additions(Sec))
                 /\ ~Refused(Sec, Additions(Sec))
                 /\ Aborted
              \/ target' = target /\ Aborted
<1> DEFINE p == Additions(Sec)
<1>1. pc = "add" /\ Send(p, ToUpdate) /\ left \in Budgets
  BY DEF Add, TypeOK
<1> HIDE DEF p
<1>2. DOMAIN p = {} => ~Refused(Sec, p)
  BY DEF Refused
<1>3. QED
  BY <1>1, <1>2, SpendType DEF Send, End, Aborted, p

\* The ways its updates can go.
LEMMA UpdateSplit ==
    ASSUME TypeOK, UpdateFails \/ UpdateSection
    PROVE  /\ pc = "update"
           /\ \/ /\ target' = Patched(Sec, Updates(Sec))
                 /\ ~Refused(Sec, Updates(Sec))
                 /\ \A n \in UpdatedEntries(Sec) : ~UpdateRaises(Sec, n)
                 /\ NextSection
                 /\ left' = left
              \/ /\ target' = Patched(Sec, Updates(Sec))
                 /\ ~Refused(Sec, Updates(Sec))
                 /\ \A n \in UpdatedEntries(Sec) : ~UpdateRaises(Sec, n)
                 /\ Aborted
              \/ target' = target /\ Aborted
<1> DEFINE p == Updates(Sec)
<1>1. left \in Budgets
  BY DEF TypeOK
<1>2. CASE UpdateFails
  BY <1>1, <1>2 DEF UpdateFails, End, Aborted
<1>3. CASE UpdateSection
  <2>1. pc = "update" /\ Send(p, NextSection)
    BY <1>3 DEF UpdateSection
  <2>2. \A n \in UpdatedEntries(Sec) : ~UpdateRaises(Sec, n)
    BY <1>3 DEF UpdateSection
  <2> HIDE DEF p
  <2>3. DOMAIN p = {} => ~Refused(Sec, p)
    BY DEF Refused
  <2>4. QED
    BY <1>1, <2>1, <2>2, <2>3, SpendType DEF Send, End, Aborted, p
<1>4. QED
  BY <1>2, <1>3

\* A patch of updates or additions leaves proper entries.
LEMMA PatchedOK ==
    ASSUME TypeOK, EntriesOK, NEW s \in SectionSet,
           NEW c \in {Patched(s, Additions(s)), Patched(s, Updates(s))},
           NEW t \in SectionSet, NEW n \in Names
    PROVE  IsConfig(c) /\ TargetOK(t, source[t][n], c[t][n])
<1>1. TargetOK(t, source[t][n], target[t][n]) /\ IsSourceEntry(s, source[s][n])
  BY DEF EntriesOK
<1>2. CASE c = Patched(s, Additions(s))
  <2>1. n \in NewEntries(s) => TargetOK(s, source[s][n], Added(source[s][n]))
    BY <1>1, ValidFacts, AddedIsStable DEF NewEntries
  <2>2. QED
    BY <1>1, <1>2, <2>1, AdditionsFacts
<1>3. CASE c = Patched(s, Updates(s))
  <2>1. n \in Sent(s) => TargetOK(s, source[s][n], UpdateOf(s, n))
    BY SentFacts DEF Sent
  <2>2. QED
    BY <1>1, <1>3, <2>1, UpdatesFacts
<1>4. QED
  BY <1>2, <1>3

\* After a full migration nothing is sent that would change the target.
LEMMA SyncedPatches ==
    ASSUME TypeOK, EntriesOK, SyncedIsStable, synced, pc \in {"add", "update"},
           NEW s \in SectionSet
    PROVE  /\ Patched(s, Additions(s)) = target
           /\ Patched(s, Updates(s)) = target
<1>1. PICK k \in DOMAIN Sections : s = Sections[k]
  BY SectionFacts
<1>2. \A n \in Names : Fresh(s, n) /\ Stable(s, n)
  BY <1>1 DEF SyncedIsStable, Fetched
<1>3. \A n \in Names : IsEntry(s, target[s][n]) /\ FlagsAreSet(target[s][n])
  BY DEF EntriesOK, TargetOK
<1>4. NewEntries(s) = {}
  <2>1. SUFFICES ASSUME NEW n \in NewEntries(s) PROVE FALSE
    OBVIOUS
  <2>2. n \in ValidEntries(s) /\ n \in Names /\ aiven[s][n] = NoEntry
    BY ValidFacts DEF NewEntries, Entries
  <2>3. target[s][n] = NoEntry
    BY <1>2, <1>3, <2>2, ShownFields DEF Fresh
  <2>4. Movable(s, n)
    BY <2>2, <2>3, ValidFacts DEF Movable
  <2>5. QED
    BY <1>2, <2>2, <2>3, <2>4 DEF Stable, StableEntry
<1>5. \A n \in Sent(s) : UpdateOf(s, n) = target[s][n]
  <2>1. SUFFICES ASSUME NEW n \in Sent(s) PROVE UpdateOf(s, n) = target[s][n]
    OBVIOUS
  <2>2. n \in UpdatedEntries(s) /\ n \in ValidEntries(s) /\ n \in Names /\ Changed(s, n)
    BY ValidFacts DEF Sent, UpdatedEntries
  <2>3. ~IsFlagged(aiven[s][n])
    BY <2>2, SentFacts
  <2>4. aiven[s][n] = ShownEntry(s, target[s][n])
    BY <1>2, <2>2 DEF Fresh
  <2>5. ~IsFlagged(target[s][n])
    BY <1>3, <2>2, <2>3, <2>4, ShownFields
  <2>6. Movable(s, n) /\ os[s][n] = source[s][n]
    BY <2>2, <2>5, ValidFacts DEF Movable, IsFlagged
  <2>7. StableEntry(s, source[s][n], target[s][n])
    BY <1>2, <2>2, <2>6 DEF Stable
  <2>8. Differ(s, OsSide(s, source[s][n]), AivenSide(s, target[s][n]))
    BY <2>2, <2>4, <2>6, ChangedIsDiffer DEF AivenSide
  <2>9. QED
    BY <2>4, <2>7, <2>8 DEF StableEntry, UpdateOf, AivenSide
<1>6. Patched(s, Additions(s)) = target
  BY <1>4, AdditionsFacts, ConfigEq DEF TypeOK
<1>7. Patched(s, Updates(s)) = target
  BY <1>5, UpdatesFacts, ConfigEq DEF TypeOK
<1>8. QED
  BY <1>6, <1>7

-----------------------------------------------------------------------------
(* Every step preserves the invariant.                                     *)

\* What depends on an entry stays with the entry.
LEMMA EntryStays ==
    ASSUME NEW s, NEW n, source' = source, target'[s][n] = target[s][n]
    PROVE  /\ Stable(s, n)' <=> Stable(s, n)
           /\ aiven'[s][n] = aiven[s][n] => (Fresh(s, n)' <=> Fresh(s, n))
BY DEF Stable, Movable, Fresh

LEMMA SelectionStays ==
    ASSUME NEW s, os' = os, aiven' = aiven
    PROVE  NewEntries(s)' = NewEntries(s)
BY DEF NewEntries, ValidEntries, AivenUntouchables, Flagged, Entries

\* An entry of the target that is proper and a run that ends without success.
LEMMA AbortStep ==
    ASSUME IInv, Aborted, IsConfig(target'), synced => target' = target,
           \A s \in SectionSet, n \in Names : TargetOK(s, source[s][n], target'[s][n])
    PROVE  IInv'
<1>1. TypeOK'
  BY DEF IInv, TypeOK, Aborted
<1>2. EntriesOK'
  BY DEF IInv, EntriesOK, Aborted
<1>3. \A k : ~Fetched(k)' /\ ~Pending(k)' /\ ~Migrating(k)' /\ ~Finished(k)'
  BY DEF Aborted, Fetched, Pending, Migrating, Finished
<1>4. OsIsRead' /\ PendingIsFresh' /\ MigratingIsFresh' /\ FinishedIsStable'
  BY <1>3 DEF OsIsRead, PendingIsFresh, MigratingIsFresh, FinishedIsStable
<1>5. CompletedIsIdle'
  BY DEF CompletedIsIdle, Aborted
<1>6. SyncedIsStable'
  <2>1. ASSUME synced PROVE \A s \in SectionSet, n \in Names : Stable(s, n)'
    BY <2>1, EntryStays DEF IInv, SyncedIsStable, Aborted
  <2>2. QED
    BY <1>3, <2>1 DEF SyncedIsStable, Aborted
<1>7. QED
  BY <1>1, <1>2, <1>4, <1>5, <1>6 DEF IInv

\* A run is started, ...
LEMMA StartStep ==
    ASSUME IInv, Start
    PROVE  IInv'
<1>1. TypeOK'
  BY SectionFacts, EmptyConfig DEF IInv, TypeOK, Start
<1>2. EntriesOK'
  <2>1. \A s : ShownOK(s, NoEntry)
    BY NoEntryFields DEF ShownOK, FlagsAreSet
  <2>2. QED
    BY <2>1, EmptyConfig DEF IInv, EntriesOK, Start
<1>3. \A k \in DOMAIN Sections :
         ~Fetched(k)' /\ ~Pending(k)' /\ ~Migrating(k)' /\ ~Finished(k)'
  BY SectionFacts DEF Start, Fetched, Pending, Migrating, Finished
<1>4. OsIsRead' /\ PendingIsFresh' /\ MigratingIsFresh' /\ FinishedIsStable'
  BY <1>3 DEF OsIsRead, PendingIsFresh, MigratingIsFresh, FinishedIsStable
<1>5. CompletedIsIdle'
  BY DEF CompletedIsIdle, Start
<1>6. SyncedIsStable'
  <2>1. ASSUME synced PROVE \A s \in SectionSet, n \in Names : Stable(s, n)'
    BY <2>1, EntryStays DEF IInv, SyncedIsStable, Start
  <2>2. QED
    BY <1>3, <2>1 DEF SyncedIsStable, Start
<1>7. QED
  BY <1>1, <1>2, <1>4, <1>5, <1>6 DEF IInv

\* ... or cannot connect.
LEMMA ConnectFailsStep ==
    ASSUME IInv, ConnectFails
    PROVE  IInv'
<1>1. TypeOK'
  BY SpendType DEF IInv, TypeOK, ConnectFails
<1>2. EntriesOK'
  BY DEF IInv, EntriesOK, ConnectFails
<1>3. \A k : ~Fetched(k)' /\ ~Pending(k)' /\ ~Migrating(k)' /\ ~Finished(k)'
  BY DEF ConnectFails, Fetched, Pending, Migrating, Finished
<1>4. OsIsRead' /\ PendingIsFresh' /\ MigratingIsFresh' /\ FinishedIsStable'
  BY <1>3 DEF OsIsRead, PendingIsFresh, MigratingIsFresh, FinishedIsStable
<1>5. CompletedIsIdle'
  BY DEF CompletedIsIdle, ConnectFails
<1>6. SyncedIsStable'
  <2>1. ASSUME synced PROVE \A s \in SectionSet, n \in Names : Stable(s, n)'
    BY <2>1, EntryStays DEF IInv, SyncedIsStable, ConnectFails
  <2>2. QED
    BY <1>3, <2>1 DEF SyncedIsStable, ConnectFails
<1>7. QED
  BY <1>1, <1>2, <1>4, <1>5, <1>6 DEF IInv

\* A section is read; what the source answers with an error counts as unread.
LEMMA FetchStep ==
    ASSUME IInv, Fetch \/ FetchNothing
    PROVE  IInv'
<1> DEFINE v == Shown(target, Sec)
<1>1. /\ pc = "fetch"
      /\ aiven' = [aiven EXCEPT ![Sec] = v]
      /\ \/ os' = [os EXCEPT ![Sec] = source[Sec]] /\ unread' = unread
         \/ os' = os /\ unread' = unread \cup {Sec}
      /\ Advance("fetch", "add")
      /\ UNCHANGED <<source, target, result, edited, synced>>
  BY DEF Fetch, FetchNothing
<1>2. left' \in Budgets
  BY SpendType DEF Fetch, FetchNothing, IInv, TypeOK
<1>3. /\ i \in 1..Len(Sections) /\ Sec \in SectionSet
      /\ Len(Sections) \in Nat /\ DOMAIN Sections = 1..Len(Sections)
  BY SectionFacts DEF IInv, TypeOK, Sec
<1>4. IsSection(v) /\ \A n \in Names : v[n] = ShownEntry(Sec, target[Sec][n])
  BY ShownSection DEF IsSection
<1> HIDE DEF v
<1>5. /\ IsConfig(aiven')
      /\ aiven'[Sec] = v
      /\ \A t \in SectionSet : t # Sec => aiven'[t] = aiven[t]
  <2>1. IsConfig(aiven) /\ DOMAIN aiven = SectionSet
    BY ConfigFields DEF IInv, TypeOK
  <2>2. /\ IsFcn(aiven')
        /\ DOMAIN aiven' = SectionSet
        /\ \A t \in SectionSet : aiven'[t] = IF t = Sec THEN v ELSE aiven[t]
    BY <1>1, <1>3, <2>1 DEF IsFcn
  <2>3. IsConfig(aiven')
    BY <1>3, <1>4, <2>1, <2>2, ConfigExcept
  <2>4. QED
    BY <1>3, <2>2, <2>3
<1>6. /\ IsConfig(os')
      /\ os' = os \/ os'[Sec] = source[Sec]
      /\ \A t \in SectionSet : t # Sec => os'[t] = os[t]
  <2>1. CASE os' = os
    BY <2>1 DEF IInv, TypeOK
  <2>2. CASE os' = [os EXCEPT ![Sec] = source[Sec]]
    <3>1. IsConfig(os) /\ DOMAIN os = SectionSet
      BY ConfigFields DEF IInv, TypeOK
    <3>2. IsSection(source[Sec])
      BY <1>3 DEF IInv, TypeOK, IsConfig, IsSection
    <3>3. /\ IsFcn(os')
          /\ DOMAIN os' = SectionSet
          /\ \A t \in SectionSet : os'[t] = IF t = Sec THEN source[Sec] ELSE os[t]
      BY <1>3, <2>2, <3>1 DEF IsFcn
    <3>4. IsConfig(os')
      BY <1>3, <3>1, <3>2, <3>3, ConfigExcept
    <3>5. QED
      BY <1>3, <3>3, <3>4
  <2>3. QED
    BY <1>1, <2>1, <2>2
<1>7. /\ pc' \in {"fetch", "add"}
      /\ i' \in DOMAIN Sections
      /\ \A k \in DOMAIN Sections : ~Migrating(k)'
      /\ \A k \in DOMAIN Sections : Fetched(k)' \/ Pending(k)' => Pending(k) \/ k = i
      /\ \A k \in DOMAIN Sections : Finished(k)' => result = "completed"
  BY <1>1, <1>3 DEF Advance, Fetched, Pending, Migrating, Finished
<1>8. \A k \in DOMAIN Sections : k # i => Sections[k] # Sec /\ Sections[k] \in SectionSet
  BY <1>3, SectionsAssumption, SectionFacts DEF Sec
<1>9. TypeOK'
  BY <1>1, <1>2, <1>3, <1>5, <1>6, <1>7 DEF IInv, TypeOK
<1>10. EntriesOK'
  <2>1. ASSUME NEW s \in SectionSet, NEW n \in Names
        PROVE  ShownOK(s, aiven'[s][n]) /\ os'[s][n] \in {NoEntry, source[s][n]}
    <3>1. os[s][n] \in {NoEntry, source[s][n]} /\ ShownOK(s, aiven[s][n])
      BY DEF IInv, EntriesOK
    <3>2. ShownOK(s, ShownEntry(s, target[s][n]))
      BY ShownFields DEF IInv, EntriesOK, TargetOK
    <3>3. CASE s = Sec
      BY <1>4, <1>5, <1>6, <3>1, <3>2, <3>3
    <3>4. CASE s # Sec
      BY <1>5, <1>6, <3>1, <3>4
    <3>5. QED
      BY <3>3, <3>4
  <2>2. QED
    BY <1>1, <2>1 DEF IInv, EntriesOK
<1>11. OsIsRead'
  <2>1. ASSUME NEW k \in DOMAIN Sections, Fetched(k)', Sections[k] \notin unread'
        PROVE  os'[Sections[k]] = source[Sections[k]]
    <3>1. CASE k = i
      BY <1>1, <1>6, <2>1, <3>1, <1>3, ConfigFields DEF Sec, IInv, TypeOK
    <3>2. CASE k # i
      <4>1. Fetched(k) /\ Sections[k] \notin unread
        BY <1>1, <1>7, <2>1, <3>2 DEF Pending, Fetched
      <4>2. QED
        BY <1>6, <1>8, <3>2, <4>1 DEF IInv, OsIsRead
    <3>3. QED
      BY <3>1, <3>2
  <2>2. QED
    BY <1>1, <2>1 DEF OsIsRead
<1>12. \A k \in DOMAIN Sections, n \in Names :
          k = i => Fresh(Sections[k], n)'
  BY <1>1, <1>4, <1>5 DEF Fresh, Sec
<1>13. PendingIsFresh'
  <2>1. ASSUME NEW k \in DOMAIN Sections, NEW n \in Names, Pending(k)',
               <<Sections[k], n>> \notin edited', k # i
        PROVE  Fresh(Sections[k], n)'
    <3>1. Fresh(Sections[k], n)
      BY <1>1, <1>7, <2>1 DEF IInv, PendingIsFresh
    <3>2. QED
      BY <1>1, <1>5, <1>8, <2>1, <3>1, EntryStays
  <2>2. QED
    BY <1>12, <2>1 DEF PendingIsFresh
<1>14. MigratingIsFresh' /\ CompletedIsIdle' /\ FinishedIsStable'
  <2>1. result # "completed"
    BY <1>1 DEF IInv, CompletedIsIdle
  <2>2. QED
    BY <1>1, <1>7, <2>1 DEF MigratingIsFresh, CompletedIsIdle, FinishedIsStable
<1>15. SyncedIsStable'
  <2>1. ASSUME synced, NEW s \in SectionSet, NEW n \in Names
        PROVE  Stable(s, n)'
    BY <1>1, <2>1, EntryStays DEF IInv, SyncedIsStable
  <2>2. ASSUME synced, NEW k \in DOMAIN Sections, NEW n \in Names, Fetched(k)', k # i
        PROVE  Fresh(Sections[k], n)'
    <3>1. Fresh(Sections[k], n)
      BY <1>1, <1>7, <2>2 DEF IInv, SyncedIsStable, Pending, Fetched
    <3>2. QED
      BY <1>1, <1>5, <1>8, <2>2, <3>1, EntryStays
  <2>3. QED
    BY <1>1, <1>12, <2>1, <2>2 DEF SyncedIsStable
<1>16. QED
  BY <1>9, <1>10, <1>11, <1>13, <1>14, <1>15 DEF IInv

\* The additions of a section.
LEMMA AddStep ==
    ASSUME IInv, Add
    PROVE  IInv'
<1> DEFINE c == Patched(Sec, Additions(Sec))
<1>1. pc = "add"
  BY AddSplit DEF IInv
<1>2. /\ i \in 1..Len(Sections) /\ Sec \in SectionSet
      /\ Len(Sections) \in Nat /\ DOMAIN Sections = 1..Len(Sections)
  BY SectionFacts DEF IInv, TypeOK, Sec
<1>3. IsConfig(c) /\ \A s \in SectionSet, n \in Names : TargetOK(s, source[s][n], c[s][n])
  <2>1. IsConfig(c)
    BY <1>2, AdditionsFacts DEF IInv
  <2>2. QED
    BY <1>2, <2>1, PatchedOK DEF IInv
<1>4. synced => c = target
  BY <1>1, <1>2, SyncedPatches DEF IInv
<1>5. \A t \in SectionSet, n \in Names :
         c[t][n] = IF t = Sec /\ n \in NewEntries(Sec)
                   THEN Added(source[Sec][n]) ELSE target[t][n]
  BY <1>2, AdditionsFacts DEF IInv
<1> HIDE DEF c
<1>6. IsConfig(target) /\ \A s \in SectionSet, n \in Names : TargetOK(s, source[s][n], target[s][n])
  BY DEF IInv, TypeOK, EntriesOK
<1>7. CASE Aborted /\ target' \in {c, target}
  BY <1>3, <1>4, <1>6, <1>7, AbortStep
<1>8. CASE target' = c /\ ToUpdate /\ left' = left
  <2>1. /\ pc' = "update"
        /\ UNCHANGED <<source, os, aiven, i, result, unread, edited, synced>>
    BY <1>8 DEF ToUpdate
  <2>2. \A k \in DOMAIN Sections : k # i => Sections[k] # Sec /\ Sections[k] \in SectionSet
    BY <1>2, SectionsAssumption, SectionFacts DEF Sec
  <2>3. \A k \in DOMAIN Sections, n \in Names : k # i =>
           /\ Stable(Sections[k], n)' <=> Stable(Sections[k], n)
           /\ Fresh(Sections[k], n)' <=> Fresh(Sections[k], n)
    BY <1>5, <1>8, <2>1, <2>2, EntryStays
  <2>4. TypeOK'
    BY <1>3, <1>8, <2>1 DEF IInv, TypeOK
  <2>5. EntriesOK'
    BY <1>3, <1>8, <2>1 DEF IInv, EntriesOK
  <2>6. OsIsRead'
    BY <1>1, <2>1 DEF IInv, OsIsRead, Fetched
  <2>7. PendingIsFresh'
    BY <1>1, <1>2, <2>1, <2>3 DEF IInv, PendingIsFresh, Pending
  <2>8. MigratingIsFresh'
    <3>1. ASSUME NEW n \in Names, NEW s, s = Sec, <<s, n>> \notin edited
          PROVE  IF n \in NewEntries(s)
                 THEN target'[s][n] = Added(source[s][n])
                 ELSE Fresh(s, n)'
      <4>1. Fresh(s, n)
        <5>1. Pending(i) /\ i \in DOMAIN Sections /\ Sections[i] = s
          BY <1>1, <1>2, <3>1 DEF Pending, Sec
        <5>2. QED
          BY <3>1, <5>1 DEF IInv, PendingIsFresh
      <4>2. CASE n \in NewEntries(s)
        <5>1. target'[s][n] = Added(source[s][n])
          BY <1>2, <1>5, <1>8, <3>1, <4>2
        <5>2. QED
          BY <4>2, <5>1
      <4>3. CASE n \notin NewEntries(s)
        <5>1. target'[s][n] = target[s][n]
          BY <1>2, <1>5, <1>8, <3>1, <4>3
        <5>2. QED
          BY <2>1, <4>1, <4>3, <5>1, EntryStays
      <4>4. QED
        BY <4>2, <4>3
    <3>2. ASSUME NEW k \in DOMAIN Sections, NEW n \in Names, Migrating(k)',
                 <<Sections[k], n>> \notin edited'
          PROVE  IF n \in NewEntries(Sections[k])'
                 THEN target'[Sections[k]][n] = Added(source'[Sections[k]][n])
                 ELSE Fresh(Sections[k], n)'
      <4>1. NewEntries(Sections[k])' = NewEntries(Sections[k])
        BY <2>1, SelectionStays
      <4>2. Sections[k] = Sec
        BY <2>1, <3>2 DEF Migrating, Sec
      <4>3. QED
        BY <2>1, <3>1, <3>2, <4>1, <4>2
    <3>3. QED
      BY <3>2 DEF MigratingIsFresh
  <2>9. FinishedIsStable' /\ CompletedIsIdle'
    <3>1. result # "completed"
      BY <1>1 DEF IInv, CompletedIsIdle
    <3>2. QED
      BY <1>1, <1>2, <2>1, <2>3, <3>1 DEF IInv, FinishedIsStable, Finished, CompletedIsIdle
  <2>10. SyncedIsStable'
    <3>1. ASSUME synced PROVE target' = target
      BY <1>4, <1>8, <3>1
    <3>2. ASSUME synced, NEW s \in SectionSet, NEW n \in Names
          PROVE  Stable(s, n)'
      BY <2>1, <3>1, <3>2, EntryStays DEF IInv, SyncedIsStable
    <3>3. ASSUME synced, NEW k \in DOMAIN Sections, NEW n \in Names
          PROVE  Fresh(Sections[k], n)'
      BY <1>1, <2>1, <3>1, <3>3, EntryStays DEF IInv, SyncedIsStable, Fetched
    <3>4. QED
      BY <2>1, <3>2, <3>3 DEF SyncedIsStable
  <2>11. QED
    BY <2>4, <2>5, <2>6, <2>7, <2>8, <2>9, <2>10 DEF IInv
<1>9. QED
  BY <1>7, <1>8, AddSplit DEF IInv, c

\* After its updates an entry of the section that nobody edited is stable:
\* it was added, it was sent, it was found the same, or it may not be touched.
LEMMA UpdateMakesStable ==
    ASSUME IInv, pc = "update", source' = source, NEW s, s = Sec,
           target' = Patched(s, Updates(s)),
           NEW n \in Names, s \notin unread, <<s, n>> \notin edited
    PROVE  Stable(s, n)'
<1> DEFINE x == source[s][n]
           y == target[s][n]
<1>1. s \in SectionSet /\ i \in DOMAIN Sections /\ s = Sections[i]
  BY SectionFacts DEF IInv, TypeOK, Sec
<1>2. /\ IsSourceEntry(s, x) /\ IsEntry(s, y) /\ FlagsAreSet(y)
  BY <1>1 DEF IInv, EntriesOK, TargetOK
<1>3. os[s][n] = x
  BY <1>1 DEF IInv, OsIsRead, Fetched
<1>4. target'[s][n] = IF n \in Sent(s) THEN UpdateOf(s, n) ELSE y
  BY <1>1, UpdatesFacts DEF IInv
<1>5. IF n \in NewEntries(s) THEN y = Added(x) ELSE Fresh(s, n)
  BY <1>1 DEF IInv, MigratingIsFresh, Migrating
<1>6. SUFFICES ASSUME Movable(s, n)' PROVE StableEntry(s, x, target'[s][n])
  BY DEF Stable
<1>7. /\ x # NoEntry /\ ~IsSet(x, "reserved") /\ n \notin Untouchables[s]
      /\ target'[s][n] # NoEntry => ~IsFlagged(target'[s][n])
  BY <1>6 DEF Movable, IsFlagged
<1>8. CASE n \in NewEntries(s)
  <2>1. n \notin Sent(s)
    BY <1>8 DEF NewEntries, UpdatedEntries, Sent
  <2>2. QED
    BY <1>2, <1>4, <1>5, <1>7, <1>8, <2>1, AddedIsStable
<1>9. CASE n \in Sent(s)
  BY <1>1, <1>4, <1>9, SentFacts DEF Sent, IInv
<1>10. CASE n \notin NewEntries(s) /\ n \notin Sent(s)
  <2>1. target'[s][n] = y /\ aiven[s][n] = ShownEntry(s, y)
    BY <1>4, <1>5, <1>10 DEF Fresh
  <2>2. ~IsFlagged(aiven[s][n])
    <3>1. CASE y = NoEntry
      BY <1>2, <2>1, <3>1, ShownFields, NoEntryFields DEF IsFlagged, IsSet
    <3>2. CASE y # NoEntry
      BY <1>2, <1>7, <2>1, <3>2, ShownFields
    <3>3. QED
      BY <3>1, <3>2
  <2>3. n \in ValidEntries(s)
    BY <1>3, <1>7, <2>2 DEF ValidEntries, Entries, Flagged, AivenUntouchables, IsFlagged
  <2>4. n \in UpdatedEntries(s) /\ ~Changed(s, n)
    BY <1>10, <2>3 DEF NewEntries, UpdatedEntries, Sent
  <2>5. aiven[s][n] # NoEntry
    BY <2>4 DEF UpdatedEntries, Entries
  <2>6. y # NoEntry
    BY <1>2, <2>1, <2>5, ShownFields
  <2>7. ~Differ(s, OsSide(s, x), AivenSide(s, y))
    BY <1>3, <2>1, <2>4, ChangedIsDiffer DEF AivenSide
  <2>8. QED
    BY <2>1, <2>6, <2>7 DEF StableEntry
<1>11. QED
  BY <1>8, <1>9, <1>10

\* The updates of a section.
LEMMA UpdateStep ==
    ASSUME IInv, UpdateFails \/ UpdateSection
    PROVE  IInv'
<1> DEFINE c == Patched(Sec, Updates(Sec))
<1>1. pc = "update"
  BY UpdateSplit DEF IInv
<1>2. /\ i \in 1..Len(Sections) /\ Sec \in SectionSet
      /\ Len(Sections) \in Nat /\ DOMAIN Sections = 1..Len(Sections)
  BY SectionFacts DEF IInv, TypeOK, Sec
<1>3. IsConfig(c) /\ \A s \in SectionSet, n \in Names : TargetOK(s, source[s][n], c[s][n])
  <2>1. IsConfig(c)
    BY <1>2, UpdatesFacts DEF IInv
  <2>2. QED
    BY <1>2, <2>1, PatchedOK DEF IInv
<1>4. synced => c = target
  BY <1>1, <1>2, SyncedPatches DEF IInv
<1>5. \A t \in SectionSet, n \in Names : t # Sec => c[t][n] = target[t][n]
  BY <1>2, UpdatesFacts DEF IInv
<1>6. IsConfig(target) /\ \A s \in SectionSet, n \in Names : TargetOK(s, source[s][n], target[s][n])
  BY DEF IInv, TypeOK, EntriesOK
<1>7. CASE Aborted /\ target' \in {c, target}
  <2> HIDE DEF c
  <2>1. QED
    BY <1>3, <1>4, <1>6, <1>7, AbortStep
<1>8. CASE target' = c /\ NextSection /\ left' = left
  <2>1. UNCHANGED <<source, os, aiven, unread, edited>>
    BY <1>8 DEF NextSection, End
  <2>2. \/ i < Len(Sections) /\ i' = i + 1 /\ pc' = "add" /\ result' = result
        \/ i = Len(Sections) /\ i' = i /\ pc' = "idle" /\ result' = "completed"
    <3>1. CASE i < Len(Sections)
      BY <1>8, <3>1 DEF NextSection, Advance
    <3>2. CASE ~(i < Len(Sections))
      <4>1. i = Len(Sections)
        <5> DEFINE l == Len(Sections)
        <5>1. i \in 1..l /\ l \in Nat /\ ~(i < l)
          BY <1>2, <3>2
        <5> HIDE DEF l
        <5>2. i = l
          BY <5>1
        <5>3. QED
          BY <5>2 DEF l
      <4>2. QED
        BY <1>8, <3>2, <4>1 DEF NextSection, End
    <3>3. QED
      BY <3>1, <3>2
  <2>2a. synced' /\ ~synced => pc' = "idle" /\ result' = "completed" /\ unread = {} /\ edited = {}
    BY <1>8, Zenon DEF NextSection, End
  <2>3. \A k \in DOMAIN Sections : k # i => Sections[k] # Sec /\ Sections[k] \in SectionSet
    BY <1>2, SectionsAssumption, SectionFacts DEF Sec
  <2>4. \A n \in Names, s \in SectionSet :
           s = Sec /\ s \notin unread /\ <<s, n>> \notin edited => Stable(s, n)'
    BY <1>1, <1>8, <2>1, UpdateMakesStable
  <2> HIDE DEF c
  <2>5. \A k \in DOMAIN Sections, n \in Names : k # i =>
           /\ Stable(Sections[k], n)' <=> Stable(Sections[k], n)
           /\ Fresh(Sections[k], n)' <=> Fresh(Sections[k], n)
    BY <1>5, <1>8, <2>1, <2>3, EntryStays
  <2>6. result # "completed"
    BY <1>1 DEF IInv, CompletedIsIdle
  <2>7. TypeOK'
    BY <1>2, <1>3, <1>8, <2>1, <2>2 DEF IInv, TypeOK
  <2>8. EntriesOK'
    BY <1>3, <1>8, <2>1 DEF IInv, EntriesOK
  <2>9. OsIsRead'
    BY <1>1, <2>1, <2>2 DEF IInv, OsIsRead, Fetched
  <2>10. PendingIsFresh'
    <3>1. ASSUME NEW k \in DOMAIN Sections, Pending(k)' PROVE Pending(k) /\ k # i
      <4>1. pc' = "add" /\ i' = i + 1 /\ k >= i'
        BY <2>2, <3>1 DEF Pending
      <4>2. k > i
        BY <1>2, <4>1
      <4>3. QED
        BY <1>1, <1>2, <4>2 DEF Pending
    <3>2. QED
      BY <2>1, <2>5, <3>1 DEF IInv, PendingIsFresh
  <2>11. MigratingIsFresh'
    BY <2>2 DEF MigratingIsFresh, Migrating
  <2>12. FinishedIsStable'
    <3>1. ASSUME NEW k \in DOMAIN Sections, Finished(k)' PROVE Finished(k) \/ k = i
      <4>1. k \in Nat /\ i \in Nat /\ k <= Len(Sections)
        BY <1>2
      <4>2. k < i \/ k = i
        BY <2>2, <2>6, <3>1, <4>1 DEF Finished
      <4>3. QED
        BY <1>1, <4>2 DEF Finished
    <3>2. ASSUME NEW k \in DOMAIN Sections, NEW n \in Names, Finished(k)',
                 Sections[k] \notin unread, <<Sections[k], n>> \notin edited
          PROVE  Stable(Sections[k], n)'
      <4>1. CASE k = i
        BY <1>2, <2>4, <3>2, <4>1 DEF Sec
      <4>2. CASE k # i
        BY <2>5, <3>1, <3>2, <4>2 DEF IInv, FinishedIsStable
      <4>3. QED
        BY <4>1, <4>2
    <3>3. QED
      BY <2>1, <3>2 DEF FinishedIsStable
  <2>13. CompletedIsIdle'
    BY <2>2, <2>6 DEF CompletedIsIdle
  <2>14. SyncedIsStable'
    <3>1. ASSUME synced PROVE target' = target
      BY <1>4, <1>8, <3>1
    <3>2. ASSUME synced, NEW s \in SectionSet, NEW n \in Names
          PROVE  Stable(s, n)'
      BY <2>1, <3>1, <3>2, EntryStays DEF IInv, SyncedIsStable
    <3>3. ASSUME synced, NEW k \in DOMAIN Sections, NEW n \in Names
          PROVE  Fresh(Sections[k], n)'
      BY <1>1, <2>1, <3>1, <3>3, EntryStays DEF IInv, SyncedIsStable, Fetched
    <3>4. ASSUME synced', ~synced, NEW s \in SectionSet, NEW n \in Names
          PROVE  Stable(s, n)' /\ pc' = "idle"
      <4>1. pc' = "idle" /\ result' = "completed" /\ unread' = {} /\ edited' = {}
        BY <2>1, <2>2a, <3>4
      <4>2. PICK k \in DOMAIN Sections : s = Sections[k]
        BY SectionFacts
      <4>3. QED
        BY <2>12, <4>1, <4>2 DEF FinishedIsStable, Finished
    <3>5. CASE synced
      BY <3>2, <3>3, <3>5 DEF SyncedIsStable
    <3>6. CASE ~synced
      <4>1. ASSUME synced', NEW k \in DOMAIN Sections, Names # {}
            PROVE  ~Fetched(k)'
        BY <3>4, <3>6, <4>1, SectionFacts DEF Fetched
      <4>2. QED
        BY <3>4, <3>6, <4>1 DEF SyncedIsStable
    <3>7. QED
      BY <3>5, <3>6
  <2>15. QED
    BY <2>7, <2>8, <2>9, <2>10, <2>11, <2>12, <2>13, <2>14 DEF IInv
<1>9. QED
  BY <1>7, <1>8, UpdateSplit DEF IInv

\* An edit of the target takes the entry out of what the invariant says.
LEMMA EditStep ==
    ASSUME IInv, NEW s \in SectionSet, NEW n \in Names, AdminEdit(s, n)
    PROVE  IInv'
<1>1. PICK e \in EditChoices[<<s, n>>] : target' = [target EXCEPT ![s][n] = e]
  BY DEF AdminEdit
<1>2. /\ edited' = edited \cup {<<s, n>>}
      /\ synced' = FALSE
      /\ UNCHANGED <<source, os, aiven, pc, i, result, unread>>
      /\ left' \in Budgets
  BY SpendType DEF AdminEdit, IInv, TypeOK
<1>3. IsTargetEntry(s, e)
  BY EntriesAssumption
<1> DEFINE v == [m \in Names |-> IF m = n THEN e ELSE target[s][m]]
<1>4. target' = [target EXCEPT ![s] = v]
  <2>1. target[s] = [m \in Names |-> target[s][m]] /\ DOMAIN target = SectionSet
    BY ConfigFields DEF IInv, TypeOK, IsConfig
  <2>2. [target[s] EXCEPT ![n] = e] = v
    BY <2>1
  <2>3. QED
    BY <1>1, <2>1, <2>2
<1>5. IsSection(v) /\ \A m \in Names : v[m] = IF m = n THEN e ELSE target[s][m]
  BY DEF IsSection
<1> HIDE DEF v
<1>6. /\ IsConfig(target')
      /\ \A t \in SectionSet : target'[t] = IF t = s THEN v ELSE target[t]
  <2>1. IsConfig(target) /\ DOMAIN target = SectionSet
    BY ConfigFields DEF IInv, TypeOK
  <2>2. /\ IsFcn(target')
        /\ DOMAIN target' = SectionSet
        /\ \A t \in SectionSet : target'[t] = IF t = s THEN v ELSE target[t]
    BY <1>4, <2>1 DEF IsFcn
  <2>3. QED
    BY <1>5, <2>1, <2>2, ConfigExcept
<1>7. target'[s][n] = e
  BY <1>5, <1>6
<1>8. \A t \in SectionSet, m \in Names :
         <<t, m>> # <<s, n>> => target'[t][m] = target[t][m]
  BY <1>5, <1>6
<1>9. TypeOK'
  BY <1>2, <1>6 DEF IInv, TypeOK
<1>10. EntriesOK'
  <2>1. TargetOK(s, source[s][n], e)
    BY <1>3 DEF IsTargetEntry, TargetOK, FlagsAreSet, HasUsers
  <2>2. ASSUME NEW t \in SectionSet, NEW m \in Names
        PROVE  TargetOK(t, source[t][m], target'[t][m])
    <3>1. CASE <<t, m>> = <<s, n>>
      BY <1>7, <2>1, <3>1
    <3>2. CASE <<t, m>> # <<s, n>>
      BY <1>8, <3>2 DEF IInv, EntriesOK
    <3>3. QED
      BY <3>1, <3>2
  <2>3. QED
    BY <1>2, <2>2 DEF IInv, EntriesOK
<1>11. \A k \in DOMAIN Sections, m \in Names : <<Sections[k], m>> \notin edited' =>
          /\ <<Sections[k], m>> \notin edited
          /\ target'[Sections[k]][m] = target[Sections[k]][m]
          /\ Stable(Sections[k], m)' <=> Stable(Sections[k], m)
          /\ Fresh(Sections[k], m)' <=> Fresh(Sections[k], m)
  <2>1. ASSUME NEW k \in DOMAIN Sections, NEW m \in Names, <<Sections[k], m>> \notin edited'
        PROVE  /\ <<Sections[k], m>> \notin edited
               /\ target'[Sections[k]][m] = target[Sections[k]][m]
    BY <1>2, <1>8, <2>1, SectionFacts
  <2>2. QED
    BY <1>2, <2>1, EntryStays
<1>12. \A k : /\ Fetched(k)' <=> Fetched(k)
              /\ Pending(k)' <=> Pending(k)
              /\ Migrating(k)' <=> Migrating(k)
              /\ Finished(k)' <=> Finished(k)
  BY <1>2 DEF Fetched, Pending, Migrating, Finished
<1>13. OsIsRead'
  BY <1>2, <1>12 DEF IInv, OsIsRead
<1>14. PendingIsFresh'
  BY <1>11, <1>12 DEF IInv, PendingIsFresh
<1>15. MigratingIsFresh'
  <2>1. \A k : NewEntries(Sections[k])' = NewEntries(Sections[k])
    BY <1>2, SelectionStays
  <2>2. QED
    BY <1>2, <1>11, <1>12, <2>1 DEF IInv, MigratingIsFresh
<1>16. FinishedIsStable'
  BY <1>2, <1>11, <1>12 DEF IInv, FinishedIsStable
<1>17. CompletedIsIdle' /\ SyncedIsStable'
  BY <1>2 DEF IInv, CompletedIsIdle, SyncedIsStable
<1>18. QED
  BY <1>9, <1>10, <1>13, <1>14, <1>15, <1>16, <1>17 DEF IInv

\* At first nothing has been read, and the two services hold proper entries.
LEMMA InitIInv ==
    ASSUME Init
    PROVE  IInv
<1>1. PICK c \in SourceChoices :
         source = [s \in SectionSet |-> [n \in Names |-> c[<<s, n>>]]]
  BY DEF Init
<1>2. PICK d \in TargetChoices :
         target = [s \in SectionSet |-> [n \in Names |-> d[<<s, n>>]]]
  BY DEF Init
<1>3. IsConfig(source) /\ IsConfig(target)
  BY <1>1, <1>2 DEF IsConfig
<1>4. left \in Budgets
  BY BoundsAssumption DEF Init, Budgets
<1>5. TypeOK
  BY <1>3, <1>4, SectionFacts, EmptyConfig DEF Init, TypeOK
<1>6. EntriesOK
  <2>1. ASSUME NEW s \in SectionSet, NEW n \in Names
        PROVE  IsSourceEntry(s, source[s][n]) /\ IsTargetEntry(s, target[s][n])
    BY <1>1, <1>2, EntriesAssumption
  <2>2. \A s \in SectionSet, n \in Names : TargetOK(s, source[s][n], target[s][n])
    BY <2>1 DEF IsTargetEntry, TargetOK, FlagsAreSet, HasUsers
  <2>3. \A s : ShownOK(s, NoEntry)
    BY NoEntryFields DEF ShownOK, FlagsAreSet
  <2>4. QED
    BY <2>1, <2>2, <2>3, EmptyConfig DEF Init, EntriesOK
<1>7. \A k : ~Fetched(k) /\ ~Pending(k) /\ ~Migrating(k) /\ ~Finished(k)
  BY DEF Init, Fetched, Pending, Migrating, Finished
<1>8. OsIsRead /\ PendingIsFresh /\ MigratingIsFresh /\ FinishedIsStable
  BY <1>7 DEF OsIsRead, PendingIsFresh, MigratingIsFresh, FinishedIsStable
<1>9. CompletedIsIdle /\ SyncedIsStable
  BY DEF Init, CompletedIsIdle, SyncedIsStable
<1>10. QED
  BY <1>5, <1>6, <1>8, <1>9 DEF IInv

LEMMA StutterStep ==
    ASSUME IInv, UNCHANGED vars
    PROVE  IInv'
<1>1. /\ source' = source /\ target' = target /\ os' = os /\ aiven' = aiven /\ pc' = pc
      /\ i' = i /\ result' = result /\ left' = left /\ unread' = unread
      /\ edited' = edited /\ synced' = synced
  BY DEF vars
<1>2. TypeOK' /\ EntriesOK' /\ CompletedIsIdle'
  BY <1>1 DEF IInv, TypeOK, EntriesOK, CompletedIsIdle
<1>3. \A k : /\ Fetched(k)' <=> Fetched(k)
             /\ Pending(k)' <=> Pending(k)
             /\ Migrating(k)' <=> Migrating(k)
             /\ Finished(k)' <=> Finished(k)
             /\ NewEntries(Sections[k])' = NewEntries(Sections[k])
  BY <1>1, SelectionStays DEF Fetched, Pending, Migrating, Finished
<1>4. \A s, n : (Stable(s, n)' <=> Stable(s, n)) /\ (Fresh(s, n)' <=> Fresh(s, n))
  BY <1>1, EntryStays
<1>5. OsIsRead' /\ PendingIsFresh' /\ MigratingIsFresh' /\ FinishedIsStable'
  BY <1>1, <1>3, <1>4
     DEF IInv, OsIsRead, PendingIsFresh, MigratingIsFresh, FinishedIsStable
<1>6. SyncedIsStable'
  BY <1>1, <1>3, <1>4 DEF IInv, SyncedIsStable
<1>7. QED
  BY <1>2, <1>5, <1>6 DEF IInv

\* A fetch that fails ends the run.
LEMMA FetchFailsStep ==
    ASSUME IInv, FetchFails
    PROVE  IInv'
<1>1. Aborted /\ target' = target
  BY SpendType DEF FetchFails, End, Aborted, IInv, TypeOK
<1>2. IsConfig(target) /\ \A s \in SectionSet, n \in Names : TargetOK(s, source[s][n], target[s][n])
  BY DEF IInv, TypeOK, EntriesOK
<1>3. QED
  BY <1>1, <1>2, AbortStep

\* IInv holds in every state of every behaviour.
THEOREM Invariance == Spec => []IInv
<1>1. Init => IInv
  BY InitIInv
<1>2. IInv /\ [Next]_vars => IInv'
  BY StartStep, ConnectFailsStep, FetchStep, FetchFailsStep, AddStep, UpdateStep, EditStep,
     StutterStep DEF Next, Script
<1>3. QED
  BY <1>1, <1>2, PTL DEF Spec

-----------------------------------------------------------------------------
(* The properties.                                                         *)

\* "Migration completed" (line 433 of avn-migrate-os-security-config.py) is
\* true, whatever failed before, whoever edits the target, however often the
\* script runs: what can be moved and nobody edited is on the target, password
\* hashes included.
THEOREM CompletedIsTrue == Spec => []CompletedMeansMigrated
<1>1. IInv => CompletedMeansMigrated
  <2>1. SUFFICES ASSUME IInv, result = "completed", NEW s \in SectionSet \ unread,
                        NEW n \in Names, Movable(s, n), <<s, n>> \notin edited
                 PROVE  Migrated(s, n)
    BY DEF CompletedMeansMigrated
  <2>2. PICK k \in DOMAIN Sections : s = Sections[k]
    BY SectionFacts
  <2>3. StableEntry(s, source[s][n], target[s][n])
    BY <2>1, <2>2 DEF IInv, FinishedIsStable, Finished, Stable
  <2>4. IsSourceEntry(s, source[s][n]) /\ TargetOK(s, source[s][n], target[s][n])
    BY <2>1 DEF IInv, EntriesOK
  <2>5. source[s][n] # NoEntry /\ target[s][n] # NoEntry /\ ~IsFlagged(target[s][n])
    BY <2>1, <2>3 DEF Movable, StableEntry, IsFlagged
  <2>6. QED
    BY <2>3, <2>4, <2>5, StableIsMigrated DEF Migrated
<1>2. QED
  BY <1>1, Invariance, PTL

\* Which steps are steps of the script that send a patch.
LEMMA ScriptSteps ==
    ASSUME IInv, Next, ScriptStep
    PROVE  Add \/ UpdateFails \/ UpdateSection
<1>1. ASSUME NEW s \in SectionSet, NEW n \in Names, AdminEdit(s, n)
      PROVE  FALSE
  BY <1>1, SpendType DEF AdminEdit, ScriptStep, IInv, TypeOK
<1>2. QED
  BY <1>1 DEF Next, Script, ScriptStep, Start, Fetch, ConnectFails, FetchNothing, FetchFails

\* After a full migration, and until somebody edits the target, running the
\* script again ("You can run the migration script multiple times",
\* README.md:88) leaves the target as it is.
THEOREM RerunsAreIdempotent == Spec => RerunChangesNothing
<1>1. ASSUME IInv, Next, synced, ScriptStep
      PROVE  target' = target
  <2>1. Sec \in SectionSet
    BY <1>1, SectionFacts DEF IInv, TypeOK, Sec
  <2>2. pc \in {"add", "update"}
    BY <1>1 DEF ScriptStep
  <2>3. target' \in {target, Patched(Sec, Additions(Sec)), Patched(Sec, Updates(Sec))}
    BY <1>1, ScriptSteps, AddSplit, UpdateSplit DEF IInv
  <2>4. QED
    BY <1>1, <2>1, <2>2, <2>3, SyncedPatches DEF IInv
<1>2. IInv /\ [Next]_vars => [synced /\ ScriptStep => target' = target]_vars
  BY <1>1 DEF vars
<1>3. QED
  BY <1>2, Invariance, PTL DEF Spec, RerunChangesNothing

Kept(s, n) == Untouched(s, n) /\ FieldsKept(s, n) /\ ManagerKept(s, n)

LEMMA SameIsKept ==
    ASSUME NEW s, NEW n, target'[s][n] = target[s][n]
    PROVE  Kept(s, n)
BY DEF Kept, Untouched, FieldsKept, ManagerKept

\* An addition replaces nothing, unless somebody edited the entry since.
LEMMA AdditionKeeps ==
    ASSUME IInv, pc = "add", NEW s, s = Sec, ~Refused(s, Additions(s)),
           target' = Patched(s, Additions(s)), NEW t \in SectionSet, NEW n \in Names
    PROVE  Kept(t, n)
<1>1. s \in SectionSet /\ i \in DOMAIN Sections /\ s = Sections[i]
  BY SectionFacts DEF IInv, TypeOK, Sec
<1>2. /\ DOMAIN Additions(s) = NewEntries(s)
      /\ target'[t][n] = IF t = s /\ n \in NewEntries(s) THEN Added(source[s][n]) ELSE target[t][n]
  BY <1>1, AdditionsFacts DEF IInv
<1>3. CASE ~(t = s /\ n \in NewEntries(s))
  BY <1>2, <1>3, SameIsKept
<1>4. CASE t = s /\ n \in NewEntries(s)
  <2>1. n \notin Untouchables[s] /\ aiven[s][n] = NoEntry
    BY <1>1, <1>4, ValidFacts DEF IInv, NewEntries, Entries
  <2>2. ~IsFlagged(target[s][n])
    <3>1. CASE target[s][n] = NoEntry
      BY <3>1, NoEntryFields DEF IsFlagged, IsSet
    <3>2. CASE target[s][n] # NoEntry
      BY <1>2, <1>4, <3>2 DEF Refused, Entries, IsFlagged
    <3>3. QED
      BY <3>1, <3>2
  <2>3. <<s, n>> \notin edited => target[s][n] = NoEntry
    <3>1. ASSUME <<s, n>> \notin edited PROVE Fresh(s, n)
      <4>1. Pending(i)
        BY <1>1, SectionFacts DEF Pending
      <4>2. QED
        BY <1>1, <3>1, <4>1 DEF IInv, PendingIsFresh
    <3>2. QED
      BY <1>1, <2>1, <3>1, ShownFields DEF Fresh, IInv, EntriesOK, TargetOK
  <2>4. QED
    BY <1>4, <2>1, <2>2, <2>3 DEF Kept, Untouched, FieldsKept, ManagerKept, IsFlagged
<1>5. QED
  BY <1>3, <1>4

\* An update keeps what only the target has, and os-sec-admin.
LEMMA UpdateKeeps ==
    ASSUME IInv, pc = "update", NEW s, s = Sec, ~Refused(s, Updates(s)),
           \A n \in UpdatedEntries(s) : ~UpdateRaises(s, n),
           target' = Patched(s, Updates(s)), NEW t \in SectionSet, NEW n \in Names
    PROVE  Kept(t, n)
<1> DEFINE x == source[s][n]
           y == target[s][n]
           e == aiven[s][n]
           a == Filtered(e)
           o == OsSide(s, x)
<1>1. s \in SectionSet /\ i \in DOMAIN Sections /\ s = Sections[i]
  BY SectionFacts DEF IInv, TypeOK, Sec
<1>2. /\ DOMAIN Updates(s) = Sent(s)
      /\ target'[t][n] = IF t = s /\ n \in Sent(s) THEN UpdateOf(s, n) ELSE target[t][n]
  BY <1>1, UpdatesFacts DEF IInv
<1>3. CASE ~(t = s /\ n \in Sent(s))
  BY <1>2, <1>3, SameIsKept
<1>4. CASE t = s /\ n \in Sent(s)
  <2>1. n \in UpdatedEntries(s) /\ n \in ValidEntries(s)
    BY <1>4 DEF Sent, UpdatedEntries
  <2>2. n \notin Untouchables[s] /\ x # NoEntry /\ os[s][n] = x
    BY <1>1, <2>1, ValidFacts DEF IInv
  <2>3. e # NoEntry /\ ~IsFlagged(e) /\ ShownOK(s, e)
    BY <1>1, <2>1, SentFacts DEF IInv, EntriesOK
  <2>4. ~IsFlagged(y)
    <3>1. CASE y = NoEntry
      BY <3>1, NoEntryFields DEF IsFlagged, IsSet
    <3>2. CASE y # NoEntry
      BY <1>2, <1>4, <3>2 DEF Refused, Entries, IsFlagged
    <3>3. QED
      BY <3>1, <3>2
  <2>5. /\ IsSourceEntry(s, x) /\ IsEntry(s, y) /\ FlagsAreSet(y)
    BY <1>1 DEF IInv, EntriesOK, TargetOK
  <2>6. ASSUME <<s, n>> \notin edited PROVE e = ShownEntry(s, y)
    <3>1. n \notin NewEntries(s)
      BY <2>1 DEF NewEntries, UpdatedEntries
    <3>2. QED
      BY <1>1, <2>6, <3>1 DEF IInv, MigratingIsFresh, Migrating, Fresh
  <2>7. /\ \A f : f \in DOMAIN a <=> f \in DOMAIN e
        /\ \A f \in DOMAIN e : a[f] = e[f]
        /\ DOMAIN e \cap {"reserved", "hidden", "hash"} = {}
    BY <2>3, UnflaggedFields
  <2>8. target'[s][n] = Merged(a, o)
    BY <1>2, <1>4 DEF UpdateOf
  <2>9. Untouched(s, n)
    BY <2>2, <2>4 DEF Untouched, IsFlagged
  <2>10. FieldsKept(s, n)
    <3>1. SUFFICES ASSUME y # NoEntry, <<s, n>> \notin edited,
                          NEW f \in DOMAIN y \ DOMAIN x, f # "users"
                   PROVE  f \in DOMAIN Merged(a, o) /\ Merged(a, o)[f] = y[f]
      BY <2>8 DEF FieldsKept
    <3>2. f # "hash"
      <4>1. CASE f = "hash"
        <5>1. s = "internalusers"
          BY <2>5, <3>1, <4>1 DEF IsEntry
        <5>2. "hash" \in DOMAIN x
          BY <2>2, <2>5, <5>1 DEF IsSourceEntry
        <5>3. QED
          BY <3>1, <4>1, <5>2
      <4>2. QED
        BY <4>1
    <3>3. f \in DOMAIN e /\ e[f] = y[f]
      <4>1. f \in DOMAIN ShownEntry(s, y) /\ ShownEntry(s, y)[f] = y[f]
        BY <2>5, <3>1, <3>2, ShownFields
      <4>2. QED
        BY <2>6, <3>1, <4>1
    <3>4. f \notin DOMAIN o
      BY <3>1, OsSideFields
    <3>5. f \in DOMAIN a /\ a[f] = y[f] /\ f # "hidden"
      BY <2>7, <3>3
    <3> HIDE DEF a, o, y
    <3>6. QED
      BY <3>4, <3>5, MergedFields
  <2>11. ManagerKept(s, n)
    <3>1. SUFFICES ASSUME y # NoEntry, "users" \in DOMAIN y, Manager \in y["users"],
                          <<s, n>> \notin edited
                   PROVE  Manager \in target'[s][n]["users"]
      BY <2>2 DEF ManagerKept
    <3>2. s = "rolesmapping"
      BY <2>5, <3>1 DEF IsEntry
    <3>3. "users" \in DOMAIN e /\ e["users"] = y["users"]
      <4>1. /\ "users" \in DOMAIN ShownEntry(s, y)
            /\ ShownEntry(s, y)["users"] = y["users"]
        BY <2>5, <3>1, ShownFields
      <4>2. QED
        BY <2>6, <3>1, <4>1
    <3>4. AivenValues(s, n) = a /\ OsValues(s, n) = o
      BY <2>2 DEF AivenValues, OsValues, OsSide
    <3>5. Manager \in a["users"]
      BY <2>7, <3>1, <3>3
    <3>6. ~UpdateRaises(s, n)
      BY <2>1
    <3>7. Manager \in o["users"]
      BY <3>2, <3>4, <3>5, <3>6 DEF UpdateRaises
    <3>8. "users" \in DOMAIN o
      BY <3>2, OsSideFields
    <3> HIDE DEF a, o
    <3>9. Merged(a, o)["users"] = o["users"]
      BY <3>8, MergedFields
    <3>10. QED
      BY <2>8, <3>7, <3>9
  <2>12. QED
    BY <1>4, <2>9, <2>10, <2>11 DEF Kept
<1>5. QED
  BY <1>3, <1>4

\* No step of the script takes from the target what the target alone has:
\* untouchable entries (lines 172-175), fields the source does not know (line
\* 284), and the mappings of os-sec-admin (lines 257-258).
THEOREM TargetStaysIntact == Spec => TargetIsKept
<1>1. ASSUME IInv, Next, ScriptStep, NEW s \in SectionSet, NEW n \in Names
      PROVE  Untouched(s, n) /\ FieldsKept(s, n) /\ ManagerKept(s, n)
  <2>1. CASE Add
    BY <1>1, <2>1, AddSplit, AdditionKeeps, SameIsKept DEF IInv, Kept
  <2>2. CASE UpdateFails \/ UpdateSection
    BY <1>1, <2>2, UpdateSplit, UpdateKeeps, SameIsKept DEF IInv, Kept
  <2>3. QED
    BY <1>1, <2>1, <2>2, ScriptSteps
<1>2. IInv /\ [Next]_vars =>
        [ScriptStep => \A s \in SectionSet, n \in Names :
            Untouched(s, n) /\ FieldsKept(s, n) /\ ManagerKept(s, n)]_vars
  BY <1>1
<1>3. QED
  BY <1>2, Invariance, PTL DEF Spec, TargetIsKept
=============================================================================
