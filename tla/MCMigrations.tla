---------------------------- MODULE MCMigrations ----------------------------
(***************************************************************************)
(* Instances of Migrations for TLC: the databases that earlier releases    *)
(* leave, in the combinations that the start looks for.                    *)
(***************************************************************************)
EXTENDS Migrations

Lower == [n \in {"Py", "py"} |-> "py"]

\* The second link carries two spellings of one tag; the rows that the old
\* triggers wrote last have no tags.
Filled(tags) ==
    [l \in {1, 2} |-> IF l = 1 THEN {tags[1]} ELSE {tags[t] : t \in {1, 2}} \ {None}]

Released(table, trigger, tags, groups, columns, twins) ==
    LET tagged == {<<1, 1>>, <<2, 1>>} \cup (IF tags[2] = None THEN {} ELSE {<<2, 2>>})
    IN  [table |-> table, triggers |-> [t \in Range(Triggers) |-> trigger],
         index |-> IF trigger = "stale" THEN [l \in {1, 2} |-> {}] ELSE Filled(tags),
         tags |-> tags, tagged |-> tagged, columns |-> columns,
         groups |-> IF groups = "none" THEN None
                    ELSE IF groups = "empty" THEN <<None, None>> ELSE <<"Py", "py">>,
         members |-> IF groups = "members" THEN {<<1, 1>>, <<2, 1>>, <<2, 2>>}
                     ELSE IF groups = "empty" THEN {} ELSE None,
         filed |-> [l \in {1, 2} |-> None],
         twins |-> twins, uniques |-> {},
         slugged |-> "public_slug" \in columns,
         key |-> IF "api_key_hmac" \in columns THEN "hashed" ELSE "plain",
         token |-> IF "api_key_hmac" \in columns THEN "encrypted" ELSE "plain"]

\* What this release leaves.
ThisRelease == Released("current", "marked", <<"py", None>>, "none", Additions, FALSE)

\* What earlier releases leave: the first index, the first triggers, with the
\* groups or with folders, and this release; with the tags merged or not.
Releases ==
    {Released(k[1], k[2], tags, groups, k[3], tags[2] = None) :
        k \in {<<"legacy", "stale", {}>>, <<"current", "stale", {}>>,
              <<"current", "stale", {"folder_id"}>>},
        tags \in {<<"Py", "py">>, <<"py", None>>},
        groups \in {"none", "empty", "members", "alone"}}
    \cup {ThisRelease}
=============================================================================
