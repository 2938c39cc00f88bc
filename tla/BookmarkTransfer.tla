-------------------------- MODULE BookmarkTransfer --------------------------
(***************************************************************************)
(* The way of the links out of an account and back into one: the export    *)
(* (build_bookmarks of app/netscape.py), the file, its reading (module     *)
(* BookmarkParser) and the import (import_links and _import_folder of      *)
(* app/routes/settings.py), with edits of the account between the two.     *)
(*                                                                         *)
(* A file is the sequence of the calls it causes in the HTML parser.  A    *)
(* link is its address, its folder and its two texts; dates, titles and    *)
(* tags are left out.  One file is made, of the account as it starts, whose *)
(* siblings have distinct sort orders: names never decide of the order.    *)
(* An import reads the first 10 000 links of a file (settings.py:238) and  *)
(* skips the addresses that _safe_url refuses (settings.py:252), which an  *)
(* account may hold, as a synchronisation looks at the scheme only         *)
(* (freshrss.py:160): the files here are shorter, and their addresses are  *)
(* accepted.                                                               *)
(***************************************************************************)
EXTENDS Naturals, SequencesExt

CONSTANTS
    FolderIds,    \* the ids SQLite may give: 1 .. n
    FirstIds,     \* those of the folders an account starts with
    Urls,         \* the addresses of the links: naturals
    Names,        \* the names of folders: sequences of words
    Texts,        \* url -> the pairs of note and description its link may have;
                  \* a text is a sequence of words, <<>> for ""
    MaxEdits,     \* bound on the edits of one behaviour
    None          \* SQL NULL, an absent row, no file yet

VARIABLES
    folders,      \* id -> row of table folders, None when there is no row
    links,        \* url -> row of table links, None when there is no row
    file,         \* the last file exported, None before
    exported,     \* history: the rows the file was made from
    edits,        \* the edits since
    into          \* history: the rows it was imported into, None before

vars == <<folders, links, file, exported, edits, into>>

Reader == INSTANCE BookmarkParser WITH MaxTags <- 0, parser <- None, read <- <<>>

Existing(table) == {x \in DOMAIN table : table[x] # None}

-----------------------------------------------------------------------------
(* The export *)

Tag(tag) == [call |-> "start", tag |-> tag]
EndTag(tag) == [call |-> "end", tag |-> tag]
Text(words) == [call |-> "data", text |-> words]

\* The body that becomes a note: `lk.note or lk.description`.
Body(link) == IF link.note # <<>> THEN link.note ELSE link.description

\* emit_link
EmitLink(url) ==
    <<Tag("dt"), [call |-> "start", tag |-> "a", url |-> url], Text(<<url>>), EndTag("a")>>
    \o (IF Body(links[url]) = <<>> THEN <<>> ELSE <<Tag("dd"), Text(Body(links[url]))>>)

\* The links that satisfy a condition, in the order of the query.
EmitLinks(Where(_)) ==
    FlattenSeq([i \in 1 .. Cardinality({u \in Existing(links) : Where(links[u].folder)}) |->
        EmitLink(SetToSortSeq({u \in Existing(links) : Where(links[u].folder)}, <)[i])])

\* The items of the sidebar, as build_folder_tree lists rows that form a tree:
\* FolderPages has its steps, and the other rows.
RECURSIVE Walk(_, _)
Walk(p, depth) ==
    LET InOrder(f, g) == folders[f].order < folders[g].order
        kids == SetToSortSeq({f \in Existing(folders) : folders[f].parent = p}, InOrder)
    IN  FlattenSeq([i \in DOMAIN kids |->
            <<[folder |-> kids[i], depth |-> depth]>> \o Walk(kids[i], depth + 1)])
BuildFolderTree == Walk(None, 0)

\* Mutant of Closing: one list is closed at most.
ClosingOne(open, depth) == IF open > depth THEN <<EndTag("dl")>> ELSE <<>>

\* The lists closed until only depth of them are open.
Closing(open, depth) == [i \in 1 .. (IF open > depth THEN open - depth ELSE 0) |-> EndTag("dl")]

Heading(f) == <<Tag("dt"), Tag("h3"), Text(folders[f].name), EndTag("h3"), Tag("dl")>>

\* build_bookmarks
BuildBookmarks ==
    LET EmitFolder(out, item) ==
            [open  |-> item.depth + 1,
             lines |-> out.lines \o Closing(out.open, item.depth) \o Heading(item.folder)
                       \o EmitLinks(LAMBDA f : f = item.folder)]
        tree == FoldLeft(EmitFolder, [open |-> 0, lines |-> <<Tag("dl")>>], BuildFolderTree)
    IN  tree.lines \o Closing(tree.open, 0)
        \o EmitLinks(LAMBDA f : f = None)
        \o EmitLinks(LAMBDA f : f # None /\ f \notin Existing(folders))
        \o <<EndTag("dl")>>

-----------------------------------------------------------------------------
(* The import *)

\* parse_bookmarks
Handle(p, token) ==
    CASE token.call = "data" -> Reader!Data(p, token.text)
      [] token.call = "end"  -> Reader!End(p, token.tag)
      [] OTHER -> Reader!Start(p, token.tag,
                      IF token.tag = "a" THEN [url |-> token.url, http |-> TRUE, folder |-> <<>>]
                                         ELSE None)

\* The links of the file, too few for the cut of the caller.
ParseBookmarks == Reader!Flush(FoldLeft(Handle, Reader!Fresh, file)).items

IsLowest(f, ids) == f \in ids /\ \A g \in ids : f <= g
NextId(rows) == CHOOSE f \in FolderIds :
                    /\ \A g \in Existing(rows) : g < f
                    /\ f > 1 => f - 1 \in Existing(rows)

\* Mutant of Key: a folder is remembered by its name.
KeyOfName(path, depth) == <<path[depth]>>

\* The key of folder_cache.
Key(path, depth) == SubSeq(path, 1, depth)

Same(rows, name, parent) ==
    {f \in Existing(rows) : rows[f].name = name /\ rows[f].parent = parent}

\* A new folder goes last among its siblings.
NewRow(rows, name, parent) ==
    LET orders == {rows[f].order : f \in {g \in Existing(rows) : rows[g].parent = parent}}
    IN  [name |-> name, parent |-> parent,
         order |-> IF orders = {} THEN 0 ELSE 1 + CHOOSE m \in orders : \A n \in orders : n <= m]

\* _import_folder: `first` gives the lowest id.
ImportFolder(db, path) ==
    LET Down(d, depth) ==
            LET key  == Key(path, depth)
                same == Same(d.folders, path[depth], d.parent)
                f    == IF same # {} THEN CHOOSE g \in same : IsLowest(g, same) ELSE NextId(d.folders)
            IN  IF key \in DOMAIN d.cache THEN [d EXCEPT !.parent = d.cache[key]]
                ELSE [d EXCEPT !.parent = f,
                               !.cache = @ @@ (key :> f),
                               !.folders[f] = IF same # {} THEN @
                                              ELSE NewRow(d.folders, path[depth], d.parent)]
    IN  FoldLeft(Down, [db EXCEPT !.parent = None], [i \in DOMAIN path |-> i])

\* One turn of the loop of import_links.
ImportItem(db, item) ==
    IF db.links[item.url] # None THEN db
    ELSE LET d == ImportFolder(db, item.path)
         IN  [d EXCEPT !.links[item.url] =
                  [folder |-> d.parent, note |-> item.note, description |-> <<>>]]

Imported ==
    FoldLeft(ImportItem, [folders |-> folders, links |-> links, cache |-> <<>>, parent |-> None],
             ParseBookmarks)

-----------------------------------------------------------------------------

\* Every tree of n folders, ordered by their ids.
Trees(n) ==
    {rows \in [1 .. n -> [name : Names, parent : 1 .. n \cup {None}, order : 1 .. n]] :
        /\ \A f \in 1 .. n : rows[f].order = f
        /\ \A S \in SUBSET (1 .. n) \ {{}} : \E f \in S : rows[f].parent \notin S}

LinkRows(u, ids) ==
    {None} \cup {[folder |-> f, note |-> t[1], description |-> t[2]] :
                    f \in ids \cup {None}, t \in Texts[u]}

Init ==
    /\ \E n \in 0 .. Cardinality(FirstIds) : \E rows \in Trees(n) :
          folders = [f \in FolderIds |-> IF f > n THEN None ELSE rows[f]]
    /\ links \in {rows \in [Urls -> UNION {LinkRows(u, Existing(folders)) : u \in Urls}] :
                     \A u \in Urls : rows[u] \in LinkRows(u, Existing(folders))}
    /\ file = None /\ exported = None
    /\ edits = 0 /\ into = None

\* export_links
ExportLinks ==
    /\ file = None
    /\ file' = BuildBookmarks
    /\ exported' = [folders |-> folders, links |-> links]
    /\ UNCHANGED <<folders, links, edits, into>>

\* import_links
ImportLinks ==
    /\ file # None /\ into = None
    /\ into' = [folders |-> folders, links |-> links]
    /\ LET db == Imported IN folders' = db.folders /\ links' = db.links
    /\ UNCHANGED <<file, exported, edits>>

Edit ==
    /\ file # None /\ into = None
    /\ edits < MaxEdits
    /\ edits' = edits + 1
    /\ UNCHANGED <<file, exported, into>>

\* delete_link
DeleteLink(u) ==
    /\ u \in Existing(links)
    /\ links' = [links EXCEPT ![u] = None]
    /\ UNCHANGED folders
    /\ Edit

\* delete_folder: its sub-folders go to the root, and its links too unless
\* they are deleted with it.
DeleteFolder(f, deleteLinks) ==
    /\ f \in Existing(folders)
    /\ folders' = [g \in FolderIds |->
           CASE g = f \/ folders[g] = None -> None
             [] g # f /\ folders[g] # None /\ folders[g].parent = f -> [folders[g] EXCEPT !.parent = None]
             [] OTHER -> folders[g]]
    /\ links' = [u \in Urls |->
           IF links[u] = None \/ links[u].folder # f THEN links[u]
           ELSE IF deleteLinks THEN None ELSE [links[u] EXCEPT !.folder = None]]
    /\ Edit

\* purge_all
PurgeAll ==
    /\ folders' = [f \in FolderIds |-> None]
    /\ links' = [u \in Urls |-> None]
    /\ Edit

Next ==
    \/ ExportLinks
    \/ ImportLinks
    \/ \E u \in Urls : DeleteLink(u)
    \/ \E f \in FolderIds, deleteLinks \in BOOLEAN : DeleteFolder(f, deleteLinks)
    \/ PurgeAll

Spec == Init /\ [][Next]_vars

-----------------------------------------------------------------------------
(* Properties *)

\* The names on the way from the root to f, and the folders on it.
RECURSIVE PathOf(_, _)
PathOf(rows, f) ==
    IF f = None THEN <<>> ELSE Append(PathOf(rows, rows[f].parent), rows[f].name)
RECURSIVE Above(_, _)
Above(rows, f) == IF f = None THEN {} ELSE {f} \cup Above(rows, rows[f].parent)

Siblings(rows, f, g) == f # g /\ rows[f].parent = rows[g].parent

\* An import of a file of at most 10 000 links, with addresses that are
\* accepted, brings back each exported link that the account no longer has, in
\* a folder of the same path and with the text it showed, leaves the links and
\* folders the account has as they are, and gives no folder a sibling of the
\* same name.
ImportRestores ==
    into # None =>
        /\ \A u \in Urls :
              IF into.links[u] # None \/ exported.links[u] = None THEN links[u] = into.links[u]
              ELSE /\ links[u] # None
                   /\ PathOf(folders, links[u].folder)
                        = PathOf(exported.folders, exported.links[u].folder)
                   /\ links[u].note = Body(exported.links[u])
        /\ \A f \in Existing(into.folders) : folders[f] = into.folders[f]
        /\ \A f \in Existing(folders) \ Existing(into.folders), g \in Existing(folders) :
              Siblings(folders, f, g) => folders[f].name # folders[g].name

\* A file can hold a tree as it was when no folder of it is without links
\* below and no two siblings share a name.
Tidy(db) ==
    LET ids == Existing(db.folders)
    IN  /\ ids = UNION {Above(db.folders, db.links[u].folder) : u \in Existing(db.links)}
        /\ \A f, g \in ids : Siblings(db.folders, f, g) => db.folders[f].name # db.folders[g].name

\* Imported into an empty account, such a file rebuilds the same tree in the
\* same order: the account exports the same file again.
RoundTripExact ==
    into # None /\ Existing(into.folders) = {} /\ Existing(into.links) = {} /\ Tidy(exported)
        => BuildBookmarks = file
=============================================================================
