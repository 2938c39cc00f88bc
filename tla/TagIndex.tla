------------------------------ MODULE TagIndex ------------------------------
(***************************************************************************)
(* The tags of one account and the full-text index (app/routes/tags.py,    *)
(* app/utils.py, app/fts_schema.py, app/routes/links/crud.py).             *)
(*                                                                         *)
(* The index keeps, for every link, a copy of its text and of the names of *)
(* its tags.  Triggers rewrite the row of a link when the link is written; *)
(* a handler that changes tags or link_tags has to rewrite the rows of the *)
(* links concerned itself.                                                 *)
(***************************************************************************)
EXTENDS Naturals, FiniteSets

CONSTANTS
    MaxLink,   \* bound on link ids
    MaxTag,    \* bound on tag ids
    Texts,     \* contents of a link: title, description, note, url
    Raw,       \* tag names as typed or imported
    Names,     \* tag names as stored
    Norm,      \* strip().lower() of each typed name
    Blank,     \* the empty name
    Removed,   \* the name "freshrss", which every start removes
    None       \* an absent row

LinkIds == 1 .. MaxLink
TagIds  == 1 .. MaxTag

IndexRow == [text : Texts, tags : SUBSET Names]

ASSUME IndexAssumption ==
    /\ MaxLink \in Nat /\ MaxTag \in Nat
    /\ Norm \in [Raw -> Names \cup {Blank}]
    /\ Blank \notin Names
    /\ None \notin Texts /\ None \notin Names /\ None \notin IndexRow

VARIABLES
    text,    \* the links table: id -> contents, None when there is no row
    name,    \* the tags table: id -> name, None when there is no row
    tagged,  \* link_tags
    fts      \* fts_links: id -> the indexed contents and tag names, or None

vars == <<text, name, tagged, fts>>

TypeOK ==
    /\ text \in [LinkIds -> Texts \cup {None}]
    /\ name \in [TagIds -> Names \cup {None}]
    /\ tagged \subseteq LinkIds \X TagIds
    /\ fts \in [LinkIds -> IndexRow \cup {None}]

Init ==
    /\ text = [l \in LinkIds |-> None]
    /\ name = [t \in TagIds |-> None]
    /\ tagged = {}
    /\ fts = [l \in LinkIds |-> None]

-----------------------------------------------------------------------------
(* Rows *)

Links == {l \in LinkIds : text[l] # None}
Tags  == {t \in TagIds : name[t] # None}

\* The names of the tags T, in the table tbl.
NamesOf(tbl, T) == {tbl[t] : t \in T}

\* The tags of link l, in the association set as.
TagsOf(as, l) == {t \in TagIds : <<l, t>> \in as}

\* The id of the next link: the largest plus one.
IsNextLink(l) ==
    /\ \A m \in Links : m < l
    /\ \A k \in LinkIds : k < l => \E m \in Links : m >= k

\* Mutant of Given: blank names are stored too.
GivenBlanks(R) == {Norm[r] : r \in R}

\* get_or_create_tags: the names, normalised, without duplicate.
Given(R) == {Norm[r] : r \in R} \ {Blank}

\* The next k ids of the tags: those that follow the largest in use.
NextTags(k) ==
    LET free == {t \in TagIds : \A u \in Tags : u < t}
    IN  {t \in free : Cardinality({u \in free : u <= t}) <= k}

\* Tables of tags once the names N exist: the missing ones take the next ids.
WithTags(N) ==
    LET missing == {n \in N : \A t \in Tags : name[t] # n}
        fresh   == NextTags(Cardinality(missing))
    IN  {[t \in TagIds |-> IF t \in fresh THEN g[t] ELSE name[t]] :
            g \in {h \in [fresh -> missing] : \A n \in missing : \E t \in fresh : h[t] = n}}

\* The tags of table tbl that have one of the names N.
Named(tbl, N) == {t \in TagIds : tbl[t] \in N}

\* Mutant of Indexed: the trigger of before, which lost the tags of the row.
IndexedNoTags(x, tbl, as, l) == [text |-> x, tags |-> {}]

\* What triggers links_ai and links_au write for link l with contents x.
Indexed(x, tbl, as, l) == [text |-> x, tags |-> NamesOf(tbl, TagsOf(as, l))]

\* refresh_link_fts for each link of L, given its tags in tbl and as.
Refreshed(L, tbl, as) ==
    [l \in LinkIds |-> IF l \in L /\ text[l] # None
                       THEN [text |-> text[l], tags |-> NamesOf(tbl, TagsOf(as, l))]
                       ELSE fts[l]]

-----------------------------------------------------------------------------
(* Links *)

\* create_link, the item of an import, and _import_links of the FreshRSS sync
\* (which gives no tag).
CreateLink(l, x, R) ==
    /\ IsNextLink(l)
    /\ text' = [text EXCEPT ![l] = x]
    /\ name' \in WithTags(Given(R))
    /\ tagged' = tagged \cup ({l} \X Named(name', Given(R)))
    /\ fts' = [fts EXCEPT ![l] = Indexed(x, name', tagged', l)]

\* edit_link: the tags given replace those of the link.
EditLink(l, x, R) ==
    /\ l \in Links
    /\ text' = [text EXCEPT ![l] = x]
    /\ name' \in WithTags(Given(R))
    /\ tagged' = (tagged \ ({l} \X TagIds)) \cup ({l} \X Named(name', Given(R)))
    /\ fts' = [fts EXCEPT ![l] = Indexed(x, name', tagged', l)]

\* Any other UPDATE of the link: enrichment, move, archive, reader, checker.
WriteLink(l, x) ==
    /\ l \in Links
    /\ text' = [text EXCEPT ![l] = x]
    /\ fts' = [fts EXCEPT ![l] = Indexed(x, name, tagged, l)]
    /\ UNCHANGED <<name, tagged>>

\* delete_link, bulk_delete_links, delete_folder and purge_freshrss with their
\* links: the associations first, then the rows, then trigger links_ad.
DeleteLinks(L) ==
    /\ L # {} /\ L \subseteq Links
    /\ text' = [l \in LinkIds |-> IF l \in L THEN None ELSE text[l]]
    /\ tagged' = tagged \ (L \X TagIds)
    /\ fts' = [l \in LinkIds |-> IF l \in L THEN None ELSE fts[l]]
    /\ UNCHANGED name

\* Mutant of BulkTag: the row keeps the names added only.
BulkTagAddedOnly(L, R) ==
    /\ L # {} /\ L \subseteq Links /\ R # {}
    /\ name' \in WithTags(Given(R))
    /\ tagged' = tagged \cup (L \X Named(name', Given(R)))
    /\ fts' = Refreshed(L, name', L \X Named(name', Given(R)))
    /\ UNCHANGED text

\* bulk_tag_links
BulkTag(L, R) ==
    /\ L # {} /\ L \subseteq Links /\ R # {}
    /\ name' \in WithTags(Given(R))
    /\ tagged' = tagged \cup (L \X Named(name', Given(R)))
    /\ fts' = Refreshed(L, name', tagged')
    /\ UNCHANGED text

-----------------------------------------------------------------------------
(* Tags *)

Carrying(t) == {l \in LinkIds : <<l, t>> \in tagged}

\* rename_tag, when no other tag has the new name.
RenameTag(t, r) ==
    /\ t \in Tags
    /\ Norm[r] # Blank
    /\ \A o \in Tags \ {t} : name[o] # Norm[r]
    /\ name' = [name EXCEPT ![t] = Norm[r]]
    /\ fts' = Refreshed(Carrying(t), name', tagged)
    /\ UNCHANGED <<text, tagged>>

\* Mutant of Reassigned: only links that already carry the target stay tagged.
ReassignedNone(t, o) == tagged \ (LinkIds \X {t})

\* INSERT OR IGNORE the associations of t for tag o, then delete those of t.
Reassigned(t, o) ==
    (tagged \ (LinkIds \X {t})) \cup (Carrying(t) \X {o})

\* rename_tag to the name of another tag: the rows rewritten are those of the
\* links that did not carry the target yet.
MergeTag(t, o) ==
    /\ t \in Tags /\ o \in Tags \ {t}
    /\ name' = [name EXCEPT ![t] = None]
    /\ tagged' = Reassigned(t, o)
    /\ fts' = Refreshed(Carrying(t) \ Carrying(o), name', tagged')
    /\ UNCHANGED text

\* The associations left once the tags T are gone, and the rows rewritten.
DropTags(T) ==
    /\ name' = [t \in TagIds |-> IF t \in T THEN None ELSE name[t]]
    /\ tagged' = tagged \ (LinkIds \X T)
    /\ fts' = Refreshed(UNION {Carrying(t) : t \in T}, name', tagged')
    /\ UNCHANGED text

\* delete_tag
DeleteTag(t) ==
    /\ t \in Tags
    /\ DropTags({t})

\* cleanup_freshrss_tag, at every start.
CleanupFreshrssTag ==
    /\ Named(name, {Removed}) # {}
    /\ DropTags(Named(name, {Removed}))

-----------------------------------------------------------------------------
(* Settings *)

\* rebuild_fts: also what _rebuild_fts does when the triggers are upgraded.
RebuildFts ==
    /\ fts' = Refreshed(Links, name, tagged)
    /\ UNCHANGED <<text, name, tagged>>

\* purge_all
PurgeAll ==
    /\ text' = [l \in LinkIds |-> None]
    /\ name' = [t \in TagIds |-> None]
    /\ tagged' = {}
    /\ fts' = [l \in LinkIds |-> None]

-----------------------------------------------------------------------------

Next ==
    \/ \E l \in LinkIds, x \in Texts, R \in SUBSET Raw : CreateLink(l, x, R)
    \/ \E l \in LinkIds, x \in Texts, R \in SUBSET Raw : EditLink(l, x, R)
    \/ \E l \in LinkIds, x \in Texts : WriteLink(l, x)
    \/ \E L \in SUBSET LinkIds : DeleteLinks(L)
    \/ \E L \in SUBSET LinkIds, R \in SUBSET Raw : BulkTag(L, R)
    \/ \E t \in TagIds, r \in Raw : RenameTag(t, r)
    \/ \E t, o \in TagIds : MergeTag(t, o)
    \/ \E t \in TagIds : DeleteTag(t)
    \/ CleanupFreshrssTag
    \/ RebuildFts
    \/ PurgeAll

Spec == Init /\ [][Next]_vars

-----------------------------------------------------------------------------
(* Properties *)

\* The names of the tags of link l.
TagNames(l) == NamesOf(name, TagsOf(tagged, l))

\* Every link, and no deleted one, is found by its present contents and by
\* each of its tags, whichever of the ten writing paths wrote last; so a link
\* that takes the id of a deleted one inherits nothing from it.
IndexComplete ==
    \A l \in LinkIds :
        IF text[l] = None
        THEN fts[l] = None /\ TagsOf(tagged, l) = {}
        ELSE fts[l] # None /\ fts[l].text = text[l] /\ TagNames(l) \subseteq fts[l].tags

\* A row of the index is only ever written with the tags its link has once the
\* step is over: no step writes a copy of the tags read before it changed them.
IndexWrittenExact ==
    [][\A l \in LinkIds : fts'[l] # fts[l] /\ fts'[l] # None =>
          fts'[l].tags = NamesOf(name', TagsOf(tagged', l))]_vars

\* Merging two tags, unlike deleting one, takes no link out of reach: a link
\* that carried either carries the tag that is left.
MergeKeepsLinks ==
    [][\A t, o \in TagIds : MergeTag(t, o) =>
          \A l \in Carrying(t) \cup Carrying(o) : name[o] \in NamesOf(name', TagsOf(tagged', l))]_vars

\* Violated.  tests/test_tag_rename_index.py: renaming or deleting a tag must
\* show in the search, so the index names no tag the link has not.
IndexExact == \A l \in Links : fts[l].tags = TagNames(l)
=============================================================================
