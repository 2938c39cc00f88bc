--------------------------- MODULE TagIndexProofs ---------------------------
(***************************************************************************)
(* Proofs about TagIndex, for any number of links, tags and names: every   *)
(* link is found by each of its tags, no step writes a row of the index    *)
(* from the tags of before, and a merge takes no link out of reach.        *)
(***************************************************************************)
EXTENDS TagIndex, TLAPS

\* An association joins a link and a tag that exist: otherwise the next link,
\* or the next tag, to take the id would inherit it.
AssociationsLive == tagged \subseteq Links \X Tags

IInv == TypeOK /\ AssociationsLive /\ IndexComplete

-----------------------------------------------------------------------------
(* Names and tags *)

\* The names given to a request are stored names.
LEMMA GivenAreNames == ASSUME NEW R \in SUBSET Raw PROVE Given(R) \subseteq Names
  BY IndexAssumption DEF Given

\* Storing names leaves the tags there were as they are.
LEMMA WithTagsKeeps ==
    ASSUME TypeOK, NEW N \in SUBSET Names, name' \in WithTags(N)
    PROVE  /\ name' \in [TagIds -> Names \cup {None}]
           /\ \A t \in Tags : name'[t] = name[t]
<1> DEFINE missing == {n \in N : \A t \in Tags : name[t] # n}
           fresh == NextTags(Cardinality(missing))
<1>1. PICK g \in [fresh -> missing] :
          name' = [t \in TagIds |-> IF t \in fresh THEN g[t] ELSE name[t]]
  BY DEF WithTags
<1>2. \A t \in fresh : t \in TagIds /\ t \notin Tags
  <2> SUFFICES ASSUME NEW t \in fresh PROVE t \in TagIds /\ ~(t \in Tags)
    OBVIOUS
  <2>1. t \in TagIds /\ \A u \in Tags : u < t
    BY DEF NextTags
  <2> QED
    BY <2>1 DEF TagIds
<1>3. missing \subseteq Names
  OBVIOUS
<1>4. name' \in [TagIds -> Names \cup {None}]
  <2> HIDE DEF missing, fresh
  <2> QED
    BY <1>1, <1>2, <1>3 DEF TypeOK
<1>5. \A t \in Tags : name'[t] = name[t]
  <2> HIDE DEF missing, fresh
  <2> QED
    BY <1>1, <1>2 DEF Tags
<1> QED
  BY <1>4, <1>5

\* The tags of a link, in any table of associations, are tags.
LEMMA NamesAreNames ==
    ASSUME NEW as, NEW l \in LinkIds, NEW tbl \in [TagIds -> Names \cup {None}],
           \A t \in TagIds : <<l, t>> \in as => tbl[t] # None
    PROVE  NamesOf(tbl, TagsOf(as, l)) \in SUBSET Names
  BY DEF NamesOf, TagsOf

\* Tags stored under names that exist are tags.
LEMMA NamedAreTags ==
    ASSUME NEW tbl \in [TagIds -> Names \cup {None}], NEW N \in SUBSET Names
    PROVE  Named(tbl, N) \subseteq {t \in TagIds : tbl[t] # None}
  BY IndexAssumption DEF Named

\* The id of a new link is of no link there is.
LEMMA NextLinkIsFree == ASSUME NEW l \in LinkIds, IsNextLink(l) PROVE l \notin Links
  BY DEF IsNextLink, Links, LinkIds

\* Rows rewritten by refresh_link_fts: well typed and complete.
LEMMA RefreshedRows ==
    ASSUME TypeOK, NEW L \in SUBSET LinkIds, NEW as,
           NEW tbl \in [TagIds -> Names \cup {None}],
           \A l \in LinkIds, t \in TagIds : <<l, t>> \in as => tbl[t] # None
    PROVE  /\ Refreshed(L, tbl, as) \in [LinkIds -> IndexRow \cup {None}]
           /\ \A l \in L : text[l] # None =>
                 Refreshed(L, tbl, as)[l] = [text |-> text[l], tags |-> NamesOf(tbl, TagsOf(as, l))]
           /\ \A l \in LinkIds \ L : Refreshed(L, tbl, as)[l] = fts[l]
           /\ \A l \in LinkIds : text[l] = None => Refreshed(L, tbl, as)[l] = fts[l]
<1>1. \A l \in LinkIds : NamesOf(tbl, TagsOf(as, l)) \in SUBSET Names
  BY NamesAreNames
<1>2. \A l \in LinkIds : text[l] # None =>
          [text |-> text[l], tags |-> NamesOf(tbl, TagsOf(as, l))] \in IndexRow
  BY <1>1 DEF TypeOK, IndexRow
<1>3. Refreshed(L, tbl, as) \in [LinkIds -> IndexRow \cup {None}]
  BY <1>2 DEF Refreshed, TypeOK
<1> QED
  BY <1>3 DEF Refreshed

-----------------------------------------------------------------------------
(* The inductive invariant *)

\* With no link, no tag and no row the index is complete.
LEMMA EmptyIsComplete ==
    ASSUME text = [l \in LinkIds |-> None], name = [t \in TagIds |-> None],
           tagged = {}, fts = [l \in LinkIds |-> None]
    PROVE  IInv
  BY DEF IInv, TypeOK, AssociationsLive, IndexComplete, TagsOf

\* What CreateLink and EditLink share: the tags of l become those given, its
\* row is written from them, and nothing else of the index moves.
LEMMA LinkWritten ==
    ASSUME IInv, NEW l \in LinkIds, NEW x \in Texts, NEW R \in SUBSET Raw,
           text' = [text EXCEPT ![l] = x],
           name' \in WithTags(Given(R)),
           tagged' = (tagged \ ({l} \X TagIds)) \cup ({l} \X Named(name', Given(R))),
           fts' = [fts EXCEPT ![l] = Indexed(x, name', tagged', l)]
    PROVE  IInv'
<1> USE DEF IInv
<1>1. /\ name' \in [TagIds -> Names \cup {None}]
      /\ \A t \in Tags : name'[t] = name[t]
  BY GivenAreNames, WithTagsKeeps
<1>2. Named(name', Given(R)) \subseteq Tags'
  BY <1>1, GivenAreNames, NamedAreTags DEF Tags
<1>3. Tags \subseteq Tags'
  BY <1>1 DEF Tags
<1>4. Links' = Links \cup {l}
  BY IndexAssumption DEF TypeOK, Links
<1>5. tagged' \subseteq Links' \X Tags'
  BY <1>2, <1>3, <1>4 DEF AssociationsLive
<1>6. NamesOf(name', TagsOf(tagged', l)) \in SUBSET Names
  BY <1>1, <1>5, NamesAreNames DEF Tags
<1>7. Indexed(x, name', tagged', l) \in IndexRow
  BY <1>6 DEF Indexed, IndexRow
<1>8. TypeOK'
  <2>1. text' \in [LinkIds -> Texts \cup {None}]
    BY DEF TypeOK
  <2>2. tagged' \subseteq LinkIds \X TagIds
    BY <1>5 DEF Links, Tags
  <2>3. fts' \in [LinkIds -> IndexRow \cup {None}]
    BY <1>7 DEF TypeOK
  <2> QED
    BY <1>1, <2>1, <2>2, <2>3 DEF TypeOK
<1>9. IndexComplete'
  <2> SUFFICES ASSUME NEW m \in LinkIds
               PROVE  IF text'[m] = None
                      THEN fts'[m] = None /\ TagsOf(tagged', m) = {}
                      ELSE /\ fts'[m] # None /\ fts'[m].text = text'[m]
                           /\ NamesOf(name', TagsOf(tagged', m)) \subseteq fts'[m].tags
    BY DEF IndexComplete, TagNames
  <2>1. CASE m = l
    <3>1. text'[m] = x /\ fts'[m] = Indexed(x, name', tagged', l)
      BY <2>1 DEF TypeOK
    <3>2. x # None
      BY IndexAssumption
    <3>3. fts'[m] # None
      BY <3>1, <1>7, IndexAssumption
    <3>4. /\ Indexed(x, name', tagged', l).text = x
          /\ Indexed(x, name', tagged', l).tags = NamesOf(name', TagsOf(tagged', m))
      BY <2>1 DEF Indexed
    <3> QED
      BY <3>1, <3>2, <3>3, <3>4
  <2>2. CASE m # l
    <3>1. text'[m] = text[m] /\ fts'[m] = fts[m]
      BY <2>2 DEF TypeOK
    <3>2. TagsOf(tagged', m) = TagsOf(tagged, m)
      BY <2>2 DEF TagsOf
    <3>3. \A t \in TagsOf(tagged, m) : name'[t] = name[t]
      BY <1>1 DEF AssociationsLive, TagsOf
    <3>4. NamesOf(name', TagsOf(tagged', m)) = TagNames(m)
      BY <3>2, <3>3 DEF NamesOf, TagNames
    <3> QED
      BY <3>1, <3>2, <3>4 DEF IndexComplete
  <2> QED
    BY <2>1, <2>2
<1> QED
  BY <1>5, <1>8, <1>9 DEF AssociationsLive

\* What the handlers that leave the links alone share: the rows of the links L
\* are rewritten, and the other links keep a part of the names they had.
LEMMA TagsWritten ==
    ASSUME IInv, UNCHANGED text, NEW L \in SUBSET LinkIds,
           name' \in [TagIds -> Names \cup {None}],
           tagged' \subseteq Links \X Tags',
           fts' = Refreshed(L, name', tagged'),
           \A l \in Links \ L :
               NamesOf(name', TagsOf(tagged', l)) \subseteq NamesOf(name, TagsOf(tagged, l))
    PROVE  IInv'
<1> USE DEF IInv
<1>1. Links' = Links
  BY DEF Links
<1>2. \A l \in LinkIds, t \in TagIds : <<l, t>> \in tagged' => name'[t] # None
  BY DEF Tags
<1>3. /\ fts' \in [LinkIds -> IndexRow \cup {None}]
      /\ \A l \in L : text[l] # None =>
            fts'[l] = [text |-> text[l], tags |-> NamesOf(name', TagsOf(tagged', l))]
      /\ \A l \in LinkIds \ L : fts'[l] = fts[l]
      /\ \A l \in LinkIds : text[l] = None => fts'[l] = fts[l]
  BY <1>2, RefreshedRows
<1>4. TypeOK'
  BY <1>3 DEF TypeOK, Links, Tags
<1>5. AssociationsLive'
  BY <1>1 DEF AssociationsLive
<1>6. IndexComplete'
  <2> SUFFICES ASSUME NEW m \in LinkIds
               PROVE  IF text[m] = None
                      THEN fts'[m] = None /\ TagsOf(tagged', m) = {}
                      ELSE /\ fts'[m] # None /\ fts'[m].text = text[m]
                           /\ NamesOf(name', TagsOf(tagged', m)) \subseteq fts'[m].tags
    BY DEF IndexComplete, TagNames
  <2>1. CASE text[m] = None
    BY <2>1, <1>3 DEF IndexComplete, TagsOf, Links
  <2>2. CASE text[m] # None /\ m \in L
    <3>1. fts'[m] = [text |-> text[m], tags |-> NamesOf(name', TagsOf(tagged', m))]
      BY <2>2, <1>3
    <3>2. NamesOf(name', TagsOf(tagged', m)) \in SUBSET Names
      BY <1>2, NamesAreNames
    <3>3. fts'[m] \in IndexRow
      BY <2>2, <3>1, <3>2 DEF IndexRow, TypeOK
    <3> QED
      BY <2>2, <3>1, <3>3, IndexAssumption
  <2>3. CASE text[m] # None /\ m \notin L
    BY <2>3, <1>3 DEF IndexComplete, TagNames, Links
  <2> QED
    BY <2>1, <2>2, <2>3
<1> QED
  BY <1>4, <1>5, <1>6

LEMMA InitIInv == Init => IInv
  BY EmptyIsComplete DEF Init

LEMMA CreateLinkIInv ==
    ASSUME IInv, NEW l \in LinkIds, NEW x \in Texts, NEW R \in SUBSET Raw,
           CreateLink(l, x, R)
    PROVE  IInv'
<1>1. l \notin Links
  BY NextLinkIsFree DEF CreateLink
<1>2. tagged \cap ({l} \X TagIds) = {}
  BY <1>1 DEF IInv, AssociationsLive
<1>3. tagged' = (tagged \ ({l} \X TagIds)) \cup ({l} \X Named(name', Given(R)))
  BY <1>2 DEF CreateLink
<1> QED
  BY <1>3, LinkWritten DEF CreateLink

LEMMA EditLinkIInv ==
    ASSUME IInv, NEW l \in LinkIds, NEW x \in Texts, NEW R \in SUBSET Raw,
           EditLink(l, x, R)
    PROVE  IInv'
  BY LinkWritten DEF EditLink

LEMMA WriteLinkIInv ==
    ASSUME IInv, NEW l \in LinkIds, NEW x \in Texts, WriteLink(l, x)
    PROVE  IInv'
<1> USE DEF IInv
<1>1. Links' = Links /\ Tags' = Tags
  BY IndexAssumption DEF WriteLink, TypeOK, Links, Tags
<1>2. NamesOf(name, TagsOf(tagged, l)) \in SUBSET Names
  BY NamesAreNames DEF TypeOK, AssociationsLive, Tags
<1>3. Indexed(x, name, tagged, l) \in IndexRow
  BY <1>2 DEF Indexed, IndexRow
<1>4. TypeOK'
  BY <1>3 DEF TypeOK, WriteLink
<1>5. Indexed(x, name, tagged, l).text = x /\ Indexed(x, name, tagged, l).tags = TagNames(l)
  BY DEF Indexed, TagNames
<1>6. IndexComplete'
  <2> SUFFICES ASSUME NEW m \in LinkIds
               PROVE  IF text'[m] = None
                      THEN fts'[m] = None /\ TagsOf(tagged, m) = {}
                      ELSE /\ fts'[m] # None /\ fts'[m].text = text'[m]
                           /\ TagNames(m) \subseteq fts'[m].tags
    BY DEF IndexComplete, TagNames, WriteLink
  <2>1. CASE m = l
    <3>1. text'[m] = x /\ fts'[m] = Indexed(x, name, tagged, l)
      BY <2>1 DEF TypeOK, WriteLink
    <3>2. x # None /\ fts'[m] # None
      BY <1>3, <3>1, IndexAssumption
    <3> QED
      BY <2>1, <1>5, <3>1, <3>2
  <2>2. CASE m # l
    BY <2>2 DEF IndexComplete, TypeOK, WriteLink
  <2> QED
    BY <2>1, <2>2
<1> QED
  BY <1>1, <1>4, <1>6 DEF AssociationsLive, WriteLink

LEMMA DeleteLinksIInv ==
    ASSUME IInv, NEW L \in SUBSET LinkIds, DeleteLinks(L)
    PROVE  IInv'
<1> USE DEF IInv, DeleteLinks
<1>1. Links' = Links \ L /\ Tags' = Tags
  BY DEF TypeOK, Links, Tags
<1>2. TypeOK'
  BY DEF TypeOK
<1>3. AssociationsLive'
  BY <1>1 DEF AssociationsLive, Links, Tags
<1>4. IndexComplete'
  <2> SUFFICES ASSUME NEW m \in LinkIds
               PROVE  IF text'[m] = None
                      THEN fts'[m] = None /\ TagsOf(tagged', m) = {}
                      ELSE /\ fts'[m] # None /\ fts'[m].text = text'[m]
                           /\ NamesOf(name, TagsOf(tagged', m)) \subseteq fts'[m].tags
    BY DEF IndexComplete, TagNames
  <2>1. CASE m \in L
    BY <2>1 DEF TagsOf, TypeOK
  <2>2. CASE m \notin L
    <3>1. TagsOf(tagged', m) = TagsOf(tagged, m)
      BY <2>2 DEF TagsOf
    <3> QED
      BY <2>2, <3>1 DEF IndexComplete, TagNames, TypeOK
  <2> QED
    BY <2>1, <2>2
<1> QED
  BY <1>2, <1>3, <1>4

LEMMA BulkTagIInv ==
    ASSUME IInv, NEW L \in SUBSET LinkIds, NEW R \in SUBSET Raw, BulkTag(L, R)
    PROVE  IInv'
<1> USE DEF IInv, BulkTag
<1>1. /\ name' \in [TagIds -> Names \cup {None}]
      /\ \A t \in Tags : name'[t] = name[t]
  BY GivenAreNames, WithTagsKeeps
<1>2. Named(name', Given(R)) \subseteq Tags'
  BY <1>1, GivenAreNames, NamedAreTags DEF Tags
<1>3. tagged' \subseteq Links \X Tags'
  BY <1>1, <1>2 DEF AssociationsLive, Tags
<1>4. ASSUME NEW m \in Links \ L
      PROVE  NamesOf(name', TagsOf(tagged', m)) \subseteq NamesOf(name, TagsOf(tagged, m))
  <2>1. TagsOf(tagged', m) = TagsOf(tagged, m)
    BY DEF TagsOf
  <2>2. \A t \in TagsOf(tagged, m) : name'[t] = name[t]
    BY <1>1 DEF TagsOf, AssociationsLive
  <2> QED
    BY <2>1, <2>2 DEF NamesOf
<1> QED
  BY <1>1, <1>3, <1>4, TagsWritten

LEMMA RenameTagIInv ==
    ASSUME IInv, NEW t \in TagIds, NEW r \in Raw, RenameTag(t, r)
    PROVE  IInv'
<1> USE DEF IInv, RenameTag
<1>1. Norm[r] \in Names
  BY IndexAssumption
<1>2. name' \in [TagIds -> Names \cup {None}] /\ Tags' = Tags
  BY <1>1, IndexAssumption DEF TypeOK, Tags
<1>3. ASSUME NEW m \in Links \ Carrying(t)
      PROVE  NamesOf(name', TagsOf(tagged', m)) \subseteq NamesOf(name, TagsOf(tagged, m))
  <2>1. t \notin TagsOf(tagged, m)
    BY DEF Carrying, TagsOf, Links
  <2>2. \A u \in TagsOf(tagged, m) : name'[u] = name[u]
    BY <2>1 DEF TypeOK, TagsOf
  <2> QED
    BY <2>2 DEF NamesOf
<1> QED
  BY <1>2, <1>3, TagsWritten DEF AssociationsLive, Carrying

LEMMA MergeTagIInv ==
    ASSUME IInv, NEW t \in TagIds, NEW o \in TagIds, MergeTag(t, o)
    PROVE  IInv'
<1> USE DEF IInv, MergeTag
<1>1. name' \in [TagIds -> Names \cup {None}] /\ Tags' = Tags \ {t}
  BY DEF TypeOK, Tags
<1>2. tagged' \subseteq Links \X Tags'
  <2>1. tagged \ (LinkIds \X {t}) \subseteq Links \X Tags'
    BY <1>1 DEF AssociationsLive, Links
  <2>2. Carrying(t) \X {o} \subseteq Links \X Tags'
    BY <1>1 DEF AssociationsLive, Carrying
  <2> QED
    BY <2>1, <2>2 DEF Reassigned
<1>3. ASSUME NEW m \in Links \ (Carrying(t) \ Carrying(o))
      PROVE  NamesOf(name', TagsOf(tagged', m)) \subseteq NamesOf(name, TagsOf(tagged, m))
  <2>1. TagsOf(tagged', m) \subseteq TagsOf(tagged, m) \ {t}
    BY DEF TagsOf, Reassigned, Carrying, Links
  <2>2. \A u \in TagsOf(tagged', m) : name'[u] = name[u]
    BY <2>1 DEF TypeOK, TagsOf
  <2> QED
    BY <2>1, <2>2 DEF NamesOf
<1> QED
  BY ZenonT(60), <1>1, <1>2, <1>3, TagsWritten DEF Carrying

LEMMA DropTagsIInv ==
    ASSUME IInv, NEW T \in SUBSET TagIds, DropTags(T)
    PROVE  IInv'
<1> USE DEF IInv, DropTags
<1> DEFINE L == UNION {Carrying(t) : t \in T}
<1>1. name' \in [TagIds -> Names \cup {None}] /\ Tags' = Tags \ T
  BY DEF TypeOK, Tags
<1>2. tagged' \subseteq Links \X Tags'
  BY <1>1 DEF AssociationsLive, Links, Tags
<1>3. L \in SUBSET LinkIds
  BY DEF Carrying
<1>4. ASSUME NEW m \in Links \ L
      PROVE  NamesOf(name', TagsOf(tagged', m)) \subseteq NamesOf(name, TagsOf(tagged, m))
  <2>1. TagsOf(tagged', m) \subseteq TagsOf(tagged, m) \ T
    BY DEF TagsOf, Links
  <2>2. \A u \in TagsOf(tagged', m) : name'[u] = name[u]
    BY <2>1 DEF TypeOK, TagsOf
  <2> QED
    BY <2>1, <2>2 DEF NamesOf
<1> QED
  BY <1>1, <1>2, <1>3, <1>4, TagsWritten

LEMMA RebuildFtsIInv == ASSUME IInv, RebuildFts PROVE IInv'
<1> USE DEF IInv, RebuildFts
<1>1. tagged' \subseteq Links \X Tags'
  BY DEF AssociationsLive, Tags
<1> QED
  BY <1>1, TagsWritten DEF TypeOK, Links

LEMMA StutterIInv == ASSUME IInv, UNCHANGED vars PROVE IInv'
  BY DEF IInv, vars, TypeOK, AssociationsLive, IndexComplete, TagNames, Links, Tags

LEMMA NextIInv == IInv /\ [Next]_vars => IInv'
<1> SUFFICES ASSUME IInv, [Next]_vars PROVE IInv'
  OBVIOUS
<1>1. CASE UNCHANGED vars
  BY <1>1, StutterIInv
<1>2. CASE \E l \in LinkIds, x \in Texts, R \in SUBSET Raw : CreateLink(l, x, R)
  BY <1>2, CreateLinkIInv
<1>3. CASE \E l \in LinkIds, x \in Texts, R \in SUBSET Raw : EditLink(l, x, R)
  BY <1>3, EditLinkIInv
<1>4. CASE \E l \in LinkIds, x \in Texts : WriteLink(l, x)
  BY <1>4, WriteLinkIInv
<1>5. CASE \E L \in SUBSET LinkIds : DeleteLinks(L)
  BY <1>5, DeleteLinksIInv
<1>6. CASE \E L \in SUBSET LinkIds, R \in SUBSET Raw : BulkTag(L, R)
  BY <1>6, BulkTagIInv
<1>7. CASE \E t \in TagIds, r \in Raw : RenameTag(t, r)
  BY <1>7, RenameTagIInv
<1>8. CASE \E t, o \in TagIds : MergeTag(t, o)
  BY <1>8, MergeTagIInv
<1>9. CASE \E t \in TagIds : DeleteTag(t)
  BY <1>9, DropTagsIInv DEF DeleteTag
<1>10. CASE CleanupFreshrssTag
  BY <1>10, DropTagsIInv DEF CleanupFreshrssTag, Named
<1>11. CASE RebuildFts
  BY <1>11, RebuildFtsIInv
<1>12. CASE PurgeAll
  <2>1. IInv'
    BY <1>12 DEF PurgeAll, IInv, TypeOK, AssociationsLive, IndexComplete, TagsOf
  <2> QED
    BY <2>1
<1> QED
  BY <1>1, <1>2, <1>3, <1>4, <1>5, <1>6, <1>7, <1>8, <1>9, <1>10, <1>11, <1>12 DEF Next

LEMMA Invariance == Spec => []IInv
  BY InitIInv, NextIInv, PTL DEF Spec

-----------------------------------------------------------------------------
(* Theorems *)

\* The tables and the index keep their types.
THEOREM TypesHold == Spec => []TypeOK
<1>1. IInv => TypeOK
  BY DEF IInv
<1> QED
  BY <1>1, Invariance, PTL

\* Whichever of the writing paths wrote last (tags.py, crud.py, fts_schema.py),
\* every link is found by its contents and by each of its tags.
THEOREM EveryLinkIsFound == Spec => []IndexComplete
<1>1. IInv => IndexComplete
  BY DEF IInv
<1> QED
  BY <1>1, Invariance, PTL

\* Each handler rewrites the rows from the tags its links have at its end
\* (refresh_link_fts in tags.py, the triggers of fts_schema.py).
THEOREM RowsAreWrittenExact == Spec => IndexWrittenExact
<1> DEFINE Exact == \A l \in LinkIds : fts'[l] # fts[l] /\ fts'[l] # None =>
                        fts'[l].tags = NamesOf(name', TagsOf(tagged', l))
<1>1. ASSUME TypeOK, NEW L \in SUBSET LinkIds, fts' = Refreshed(L, name', tagged')
      PROVE  Exact
  <2> SUFFICES ASSUME NEW l \in LinkIds, fts'[l] # fts[l]
               PROVE  fts'[l].tags = NamesOf(name', TagsOf(tagged', l))
    OBVIOUS
  <2>1. fts'[l] = [text |-> text[l], tags |-> NamesOf(name', TagsOf(tagged', l))]
    BY <1>1 DEF Refreshed
  <2> QED
    BY <2>1
<1>2. ASSUME TypeOK, NEW l \in LinkIds, NEW x,
             fts' = [fts EXCEPT ![l] = Indexed(x, name', tagged', l)]
      PROVE  Exact
  <2> SUFFICES ASSUME NEW m \in LinkIds, fts'[m] # fts[m]
               PROVE  fts'[m].tags = NamesOf(name', TagsOf(tagged', m))
    OBVIOUS
  <2>1. m = l /\ fts'[m] = Indexed(x, name', tagged', m)
    BY <1>2 DEF TypeOK
  <2> QED
    BY <2>1 DEF Indexed
<1>3. ASSUME \A l \in LinkIds : fts'[l] = fts[l] \/ fts'[l] = None PROVE Exact
  BY <1>3
<1>4. IInv /\ [Next]_vars => [Exact]_vars
  <2> SUFFICES ASSUME TypeOK, AssociationsLive, Next PROVE Exact
    BY DEF IInv
  <2> HIDE DEF Exact
  <2>1. CASE \E l \in LinkIds, x \in Texts, R \in SUBSET Raw :
                 CreateLink(l, x, R) \/ EditLink(l, x, R)
    BY <2>1, <1>2 DEF CreateLink, EditLink
  <2>2. CASE \E l \in LinkIds, x \in Texts : WriteLink(l, x)
    BY <2>2, <1>2 DEF WriteLink
  <2>3. CASE (\E L \in SUBSET LinkIds : DeleteLinks(L)) \/ PurgeAll
    BY <2>3, <1>3 DEF DeleteLinks, PurgeAll
  <2>4. CASE \E L \in SUBSET LinkIds, R \in SUBSET Raw : BulkTag(L, R)
    BY <2>4, <1>1 DEF BulkTag
  <2>5. CASE \E t \in TagIds, r \in Raw : RenameTag(t, r)
    <3>1. PICK t \in TagIds, r \in Raw : RenameTag(t, r)
      BY <2>5
    <3>2. fts' = Refreshed(Carrying(t), name', tagged')
      BY <3>1 DEF RenameTag
    <3>3. Carrying(t) \in SUBSET LinkIds
      BY DEF Carrying
    <3> QED
      BY <3>2, <3>3, <1>1
  <2>6. CASE \E t, o \in TagIds : MergeTag(t, o)
    BY <2>6, <1>1 DEF MergeTag, Carrying
  <2>7. CASE \E T \in SUBSET TagIds : DropTags(T)
    <3>1. PICK T \in SUBSET TagIds : DropTags(T)
      BY <2>7
    <3>2. UNION {Carrying(t) : t \in T} \in SUBSET LinkIds
      BY DEF Carrying
    <3> QED
      BY <3>1, <3>2, <1>1 DEF DropTags
  <2>8. CASE RebuildFts
    <3>1. fts' = Refreshed(Links, name', tagged') /\ Links \in SUBSET LinkIds
      BY <2>8 DEF RebuildFts, Links
    <3> QED
      BY <3>1, <1>1
  <2>9. (\E t \in TagIds : DeleteTag(t)) \/ CleanupFreshrssTag => \E T \in SUBSET TagIds : DropTags(T)
    BY DEF DeleteTag, CleanupFreshrssTag, Named
  <2> QED
    BY <2>1, <2>2, <2>3, <2>4, <2>5, <2>6, <2>7, <2>8, <2>9 DEF Next
<1>5. [Exact]_vars <=> [\A l \in LinkIds : fts'[l] # fts[l] /\ fts'[l] # None =>
                            fts'[l].tags = NamesOf(name', TagsOf(tagged', l))]_vars
  OBVIOUS
<1> HIDE DEF Exact
<1> QED
  BY <1>4, <1>5, Invariance, PTL DEF Spec, IndexWrittenExact

\* A merge (tags.py:74-90) takes no link out of reach: one that carried either
\* of the two tags carries the one that is left.
THEOREM MergesKeepLinks == Spec => MergeKeepsLinks
<1> DEFINE Kept == \A t, o \in TagIds : MergeTag(t, o) =>
                       \A l \in Carrying(t) \cup Carrying(o) :
                           name[o] \in NamesOf(name', TagsOf(tagged', l))
<1>1. ASSUME TypeOK, NEW t \in TagIds, NEW o \in TagIds, MergeTag(t, o),
             NEW l \in Carrying(t) \cup Carrying(o)
      PROVE  name[o] \in NamesOf(name', TagsOf(tagged', l))
  <2>1. o # t /\ name'[o] = name[o]
    BY <1>1 DEF MergeTag, TypeOK
  <2>2. <<l, o>> \in tagged'
    BY <1>1, <2>1 DEF MergeTag, Reassigned, Carrying
  <2> QED
    BY <2>1, <2>2 DEF NamesOf, TagsOf
<1>2. IInv => Kept
  BY <1>1 DEF IInv
<1> HIDE DEF Kept
<1>3. Spec => [][Kept]_vars
  BY <1>2, Invariance, PTL DEF Spec
<1>4. Kept <=> \A t, o \in TagIds : MergeTag(t, o) =>
                   \A l \in Carrying(t) \cup Carrying(o) :
                       name[o] \in NamesOf(name', TagsOf(tagged', l))
  BY DEF Kept
<1> QED
  BY <1>3, <1>4, PTL DEF MergeKeepsLinks

=============================================================================
