------------------------ MODULE MCSecurityMigration ------------------------
(***************************************************************************)
(* Small instances of SecurityMigration for TLC: two sections, and in each *)
(* an entry "app" that may be moved and an entry "own" whose name is one   *)
(* of the predefined untouchables.                                         *)
(***************************************************************************)
EXTENDS SecurityMigration

MCSections == <<"rolesmapping", "internalusers">>
MCNames == {"app", "own"}
MCUntouchables == [s \in {"rolesmapping", "internalusers"} |-> {"own"}]

Places == {"rolesmapping", "internalusers"} \X MCNames

\* Choices for "app" in the two sections; "own" always exists on the target.
Choose2(mappings, users, own) ==
    {[p \in Places |-> IF p[2] = "own" THEN o[p[1]] ELSE IF p[1] = "rolesmapping" THEN m ELSE u] :
        m \in mappings, u \in users, o \in own}

NoOwn == [rolesmapping |-> NoEntry, internalusers |-> NoEntry]
SourceOwn == [rolesmapping |-> [users |-> {"bob"}, settings |-> 1],
              internalusers |-> [hash |-> 1, settings |-> 1]]
TargetOwn == [rolesmapping |-> [users |-> {Manager}, settings |-> 2],
              internalusers |-> [hash |-> 2, settings |-> 2]]

MCSource ==
    Choose2({NoEntry,
             [settings |-> 1],
             [users |-> {}, settings |-> 2],
             [users |-> {"bob"}, hidden |-> TRUE],
             [users |-> {Manager, "bob"}, settings |-> 1],
             [users |-> {"bob"}, settings |-> 2, reserved |-> TRUE]},
            {NoEntry, [hash |-> 1], [hash |-> 1, settings |-> 1, hidden |-> TRUE],
             [hash |-> 1, reserved |-> TRUE]},
            {NoOwn, SourceOwn})

MCTarget ==
    Choose2({NoEntry,
             [users |-> {}, settings |-> 1],
             [users |-> {"bob"}, settings |-> 1],
             [users |-> {Manager}, settings |-> 2],
             [users |-> {"bob"}, hidden |-> TRUE]},
            {NoEntry, [hash |-> 1], [hash |-> 2, settings |-> 2], [hash |-> 2, reserved |-> TRUE]},
            {TargetOwn})

MCEdits ==
    [p \in Places |->
        IF p[2] = "own" THEN {}
        ELSE IF p[1] = "rolesmapping"
             THEN {NoEntry, [users |-> {Manager, "bob"}, settings |-> 1]}
             ELSE {NoEntry, [hash |-> 3, settings |-> 3], [hash |-> 2, reserved |-> TRUE]}]
=============================================================================
