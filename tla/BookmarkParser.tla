--------------------------- MODULE BookmarkParser ---------------------------
(***************************************************************************)
(* The reading of a bookmark file (_BookmarkParser of app/netscape.py).    *)
(* The format has no grammar: <DT> and <DD> are never closed, <H3> names   *)
(* the <DL> that follows it, if one does, and a file may close more lists  *)
(* than it opens.  Each handler the HTML parser calls is an action, in any *)
(* order a file may cause.                                                 *)
(*                                                                         *)
(* A text is the sequence of its words, without the white space that the   *)
(* code collapses; here a word is the position at which it was read, so    *)
(* what is kept of a file tells where it came from.                        *)
(***************************************************************************)
EXTENDS Naturals, SequencesExt

CONSTANTS
    MaxTags,   \* bound on the length of a file
    None       \* no capture, no anchor

ASSUME ParserAssumption == None \notin {"h3", "a", "dd", "dl"}

VARIABLES
    parser,    \* the fields of _BookmarkParser
    read       \* history: the calls made so far

vars == <<parser, read>>

\* __init__; last is the index of _last_item, 0 for None, and an empty
\* pending stands for None and for an empty name alike, as `bool` does.
Fresh == [items |-> <<>>, path |-> <<>>, opened |-> <<>>, pending |-> <<>>,
          capture |-> None, text |-> <<>>, anchor |-> None, last |-> 0]

\* _add_item: what is no http address is dropped, with the note that follows;
\* the folder attribute of the old exports serves when no folder is open.
AddItem(p, text) ==
    IF ~p.anchor.http THEN [p EXCEPT !.last = 0]
    ELSE LET folders == IF p.path = <<>> /\ p.anchor.folder # <<>>
                        THEN <<p.anchor.folder>> ELSE p.path
             item == [url |-> p.anchor.url, title |-> text, path |-> folders, note |-> <<>>]
         IN  [p EXCEPT !.items = Append(@, item), !.last = Len(p.items) + 1]

\* The text of a <DD> becomes the note of the item it follows, once.
Noted(p, text) == [p EXCEPT !.items[p.last].note = text, !.last = 0]

\* Mutant of Flush: a heading leaves the last item where it was.
FlushKeepingItem(p) ==
    LET q == [p EXCEPT !.capture = None, !.text = <<>>]
    IN  CASE p.capture = "h3" -> [q EXCEPT !.pending = p.text]
          [] p.capture = "a" -> [AddItem(q, p.text) EXCEPT !.anchor = None]
          [] p.capture = "dd" /\ p.last # 0 /\ p.text # <<>> -> Noted(q, p.text)
          [] OTHER -> q

\* _flush
Flush(p) ==
    LET q == [p EXCEPT !.capture = None, !.text = <<>>]
    IN  CASE p.capture = "h3" -> [q EXCEPT !.pending = p.text, !.last = 0]
          [] p.capture = "a" -> [AddItem(q, p.text) EXCEPT !.anchor = None]
          [] p.capture = "dd" /\ p.last # 0 /\ p.text # <<>> -> Noted(q, p.text)
          [] OTHER -> q

\* handle_data
Data(p, words) == IF p.capture = None THEN p ELSE [p EXCEPT !.text = @ \o words]

\* handle_starttag of a <DL>.
OpenList(p) ==
    LET named == p.pending # <<>>
    IN  [p EXCEPT !.path = IF named THEN Append(@, p.pending) ELSE @,
                  !.opened = Append(@, named),
                  !.pending = <<>>,
                  !.last = 0]

\* handle_starttag of the other tags; anchor holds the attributes of an <A>.
Start(p, tag, anchor) ==
    LET q == Flush(p)
    IN  CASE tag = "dl" -> OpenList(q)
          [] tag = "h3" -> [q EXCEPT !.capture = "h3"]
          [] tag = "a"  -> [q EXCEPT !.capture = "a", !.anchor = anchor]
          [] tag = "dd" -> [q EXCEPT !.capture = "dd"]
          [] OTHER -> q

\* handle_endtag of a <DL>; one that closes nothing is ignored.
CloseList(p) ==
    LET q == Flush(p)
        closed == q.opened # <<>>
    IN  [q EXCEPT !.opened = IF closed THEN Front(@) ELSE @,
                  !.path = IF closed /\ Last(q.opened) THEN Front(@) ELSE @,
                  !.last = 0]

\* handle_endtag
End(p, tag) ==
    CASE tag = "dl" -> CloseList(p)
      [] tag \in {"h3", "a"} /\ p.capture = tag -> Flush(p)
      [] OTHER -> p

-----------------------------------------------------------------------------

Init ==
    /\ parser = Fresh
    /\ read = <<>>

Here   == Len(read) + 1
Closed == read # <<>> /\ Last(read).call = "close"
Going  == ~Closed /\ Len(read) < MaxTags

Call(name, tag) == read' = Append(read, [call |-> name, tag |-> tag])

\* An <A> with an http address, the same with a FOLDER attribute, or another.
Anchors == {"a", "a folder", "mailto"}

HandleAnchor(kind) ==
    /\ Going
    /\ parser' = Start(parser, "a",
           [url |-> Here, http |-> kind # "mailto",
            folder |-> IF kind = "a folder" THEN <<Here>> ELSE <<>>])
    /\ Call("start", kind)

HandleStart(tag) ==
    /\ Going
    /\ parser' = Start(parser, tag, None)
    /\ Call("start", tag)

\* The </H3> or </A> of what is not being captured changes nothing: left out.
HandleEnd(tag) ==
    /\ Going
    /\ tag = "dl" \/ parser.capture = tag
    /\ parser' = End(parser, tag)
    /\ Call("end", tag)

\* A text outside any capture changes nothing: left out, like the tags that
\* no handler looks at; the texts between two others are one here.
HandleData ==
    /\ Going
    /\ parser.capture # None /\ Last(read).call # "data"
    /\ parser' = Data(parser, <<Here>>)
    /\ Call("data", None)

\* close: the end of the file.
Close ==
    /\ ~Closed
    /\ parser' = Flush(parser)
    /\ Call("close", None)

Next ==
    \/ \E kind \in Anchors : HandleAnchor(kind)
    \/ \E tag \in {"dt", "dd", "dl", "h3"} : HandleStart(tag)
    \/ \E tag \in {"h3", "a", "dl"} : HandleEnd(tag)
    \/ HandleData
    \/ Close

Spec == Init /\ [][Next]_vars

-----------------------------------------------------------------------------
(* Reference definitions: what a file says, by the positions of its tags *)

Is(i, call, tag)  == read[i].call = call /\ read[i].tag = tag
Starts(tag)       == {i \in DOMAIN read : Is(i, "start", tag)}
Links             == Starts("a") \cup Starts("a folder")
Counts(call, i, k) == Cardinality({j \in i .. k : Is(j, call, "dl")})

\* The text of the element that starts at i.
TextAt(i) == IF i < Len(read) /\ read[i + 1].call = "data" THEN <<i + 1>> ELSE <<>>

\* The name of the list that starts at i: the last heading since the list
\* before it.
Headings(i) == {h \in Starts("h3") : h < i /\ \A d \in Starts("dl") : d < h \/ d >= i}
NameOf(i) == IF Headings(i) = {} THEN <<>> ELSE TextAt(Max(Headings(i)))

\* The lists that are open before n: what follows closes no more than it opens.
OpenLists(n) ==
    {i \in Starts("dl") :
        /\ i < n
        /\ \A k \in i + 1 .. n - 1 : Counts("end", i + 1, k) <= Counts("start", i + 1, k)}
NamedAt(n) == {i \in OpenLists(n) : NameOf(i) # <<>>}

\* The path is that of the lists with a name, the outermost first.
IsPathAt(path, n) ==
    \E s \in [1 .. Len(path) -> NamedAt(n)] :
        /\ \A i \in NamedAt(n) : \E k \in 1 .. Len(path) : s[k] = i
        /\ \A j, k \in 1 .. Len(path) : j < k => s[j] < s[k]
        /\ \A k \in 1 .. Len(path) : path[k] = NameOf(s[k])

\* What ends the description of a link.
Breaks(k) ==
    \/ read[k].call = "start" /\ read[k].tag \in Anchors \cup {"h3", "dl"}
    \/ Is(k, "end", "dl")

\* The <DD> that may annotate link i.
NotesOf(i) ==
    {d \in Starts("dd") : i < d /\ TextAt(d) # <<>> /\ \A k \in i + 1 .. d - 1 : ~Breaks(k)}

IsFirst(note, notes) ==
    \/ notes = {} /\ note = <<>>
    \/ \E d \in notes : note = TextAt(d) /\ \A e \in notes : d <= e

-----------------------------------------------------------------------------
(* Properties *)

\* Whatever a file leaves open or closes twice, every link of it is imported,
\* once and in the order of the file.
EveryLinkRead ==
    Closed =>
        /\ {parser.items[k].url : k \in DOMAIN parser.items} = Links
        /\ \A j, k \in DOMAIN parser.items : j < k => parser.items[j].url < parser.items[k].url

\* A link is filed below the lists that are open around it and have a name,
\* the outermost first, or, outside any, in the folder of its own attribute.
IsFiled(item) ==
    IF NamedAt(item.url) = {} /\ read[item.url].tag = "a folder"
    THEN item.path = <<<<item.url>>>> ELSE IsPathAt(item.path, item.url)
PathIsTheOpenFolders == \A k \in DOMAIN parser.items : IsFiled(parser.items[k])

\* The note of a link is the first text that describes it: never that of a
\* folder, of a link that was dropped, or of another list; and none is lost.
NotesAreOfTheLink ==
    Closed =>
        \A k \in DOMAIN parser.items :
            IsFirst(parser.items[k].note, NotesOf(parser.items[k].url))

\* Any file of another program is read as its user sees it: no link is lost, and
\* each keeps its folder and its own note.
ReadingIsExact == EveryLinkRead /\ PathIsTheOpenFolders /\ NotesAreOfTheLink
=============================================================================
