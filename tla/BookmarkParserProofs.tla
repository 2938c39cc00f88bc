------------------------ MODULE BookmarkParserProofs ------------------------
(***************************************************************************)
(* A bookmark file is read as its user sees it, whatever its length and    *)
(* whatever it leaves open or closes twice: every link is read once and in *)
(* its order, below the named lists that are open around it, and with the  *)
(* first text that describes it.                                           *)
(*                                                                         *)
(* The parser keeps only a path, a stack of flags, a pending heading and   *)
(* the index of the last item.  Reads says what each of these stands for   *)
(* in the calls made so far, and is kept by every call.                    *)
(***************************************************************************)
EXTENDS BookmarkParser, TLAPS, FiniteSetTheorems, SequenceTheorems, WellFoundedInduction

\* The bookmark parser: its fields, and the calls it has had.
Text   == Seq(Nat)
Anchor == [url : Nat, http : BOOLEAN, folder : Text]
Item   == [url : Nat, title : Text, path : Seq(Text), note : Text]
Fields == [items : Seq(Item), path : Seq(Text), opened : Seq(BOOLEAN), pending : Text,
           capture : {None, "h3", "a", "dd"}, text : Text, anchor : Anchor \cup {None},
           last : Nat]
HtmlCall == [call : {"start", "end", "data", "close"},
             tag : Anchors \cup {"dt", "dd", "dl", "h3", "a", None}]

\* Where the element that is being captured starts.
Begun == IF Last(read).call = "data" THEN Len(read) - 1 ELSE Len(read)

\* What is captured is the text of that element.
Capturing(p) ==
    p.capture # None =>
        /\ Begun \in DOMAIN read /\ read[Begun].call = "start"
        /\ p.capture \in {"h3", "dd"} => read[Begun].tag = p.capture
        /\ p.capture = "a" =>
              /\ read[Begun].tag \in Anchors
              /\ p.anchor = [url |-> Begun, http |-> read[Begun].tag # "mailto",
                             folder |-> IF read[Begun].tag = "a folder" THEN <<Begun>> ELSE <<>>]
              /\ IsPathAt(p.path, Begun)
        /\ p.text = TextAt(Begun)

\* Each link but the one being read is an item.
LinksSoFar(p) ==
    /\ {p.items[k].url : k \in DOMAIN p.items}
           = Links \ (IF p.capture = "a" THEN {Begun} ELSE {})
    /\ \A j, k \in DOMAIN p.items : j < k => p.items[j].url < p.items[k].url

\* The lists that are open, the outermost first: each has as many open above it.
IsStack(st, opened) ==
    /\ Len(st) = Len(opened)
    /\ \A j, k \in 1 .. Len(st) : j < k => st[j] < st[k]
    /\ {st[k] : k \in 1 .. Len(st)} = OpenLists(Len(read) + 1)
    /\ \A k \in 1 .. Len(st) :
          /\ opened[k] <=> NameOf(st[k]) # <<>>
          /\ Counts("start", st[k] + 1, Len(read))
                 = Counts("end", st[k] + 1, Len(read)) + Len(st) - k
Stacked(p) == \E st \in Seq(Nat) : IsStack(st, p.opened)

\* The heading that would name a list opened now.
HeadingKept(p) == NameOf(Len(read) + 1) = IF p.capture = "h3" THEN p.text ELSE p.pending

\* Nothing ends the description of link i up to n.
Quiet(i, n) == \A k \in i + 1 .. n : ~Breaks(k)

\* The notes of link i but the one that is being read.
Taken(p, i) == NotesOf(i) \ (IF p.capture = "dd" THEN {Begun} ELSE {})

\* The last item is the one that may still have a note.
NotesSoFar(p) ==
    /\ p.last \in 0 .. Len(p.items)
    /\ \A k \in DOMAIN p.items :
          /\ IsFirst(p.items[k].note, Taken(p, p.items[k].url))
          /\ p.capture \notin {"h3", "a"} =>
                (p.last = k <=> /\ Quiet(p.items[k].url, Len(read))
                                /\ Taken(p, p.items[k].url) = {})

Reads(p) ==
    /\ p \in Fields
    /\ Capturing(p)
    /\ LinksSoFar(p)
    /\ \A k \in DOMAIN p.items : IsFiled(p.items[k])
    /\ Stacked(p)
    /\ IsPathAt(p.path, Len(read) + 1)
    /\ HeadingKept(p)
    /\ NotesSoFar(p)

IInv ==
    /\ read \in Seq(HtmlCall)
    /\ Reads(parser)
    /\ Closed => parser.capture = None

-----------------------------------------------------------------------------
(* What one more call changes of what the file says *)

\* What is known of any sequence.
LEMMA SeqFacts ==
    ASSUME NEW S, NEW s \in Seq(S)
    PROVE  /\ Len(s) \in Nat /\ DOMAIN s = 1 .. Len(s)
           /\ \A i \in 1 .. Len(s) : s[i] \in S
    OBVIOUS

\* A set of positions has a last one.
LEMMA MaxOf ==
    ASSUME NEW n \in Nat, NEW S \in SUBSET (1 .. n), S # {}
    PROVE  Max(S) \in S /\ \A g \in S : g <= Max(S)
<1> DEFINE T == {n - g : g \in S}
<1>1. T \in SUBSET Nat /\ T # {}
    OBVIOUS
<1>2. IsWellFoundedOn(OpToRel(<, Nat), Nat)
    BY NatLessThanWellFounded
<1> HIDE DEF T
<1>3. PICK t \in T : \A u \in T : ~(<<u, t>> \in OpToRel(<, Nat))
    BY <1>1, <1>2, WFMin
<1>4. ASSUME NEW u \in T
      PROVE  t <= u
    <2>1. u \in Nat /\ t \in Nat
        BY <1>1
    <2>2. ~(u < t)
        BY <1>3, <2>1 DEF OpToRel
    <2>3. QED
        BY <2>1, <2>2
<1>5. PICK h \in S : t = n - h
    BY DEF T
<1>6. \A g \in S : n - g \in T
    BY DEF T
<1>7. \A g \in S : h >= g
    BY <1>4, <1>5, <1>6
<1>8. Max(S) \in S /\ \A g \in S : Max(S) >= g
    BY <1>7 DEF Max
<1>9. QED
    BY <1>8

\* The calls before the last one, and the last one.
LEMMA Grown ==
    ASSUME read \in Seq(HtmlCall), NEW n, n = Len(read),
           NEW e \in HtmlCall, read' = Append(read, e)
    PROVE  /\ n \in Nat /\ DOMAIN read = 1 .. n
           /\ \A i \in 1 .. n : read[i] \in HtmlCall /\ read'[i] = read[i]
           /\ read' \in Seq(HtmlCall) /\ Len(read') = n + 1 /\ DOMAIN read' = 1 .. n + 1
           /\ read'[n + 1] = e /\ Last(read') = e
<1>1. /\ n \in Nat /\ DOMAIN read = 1 .. n /\ \A i \in 1 .. n : read[i] \in HtmlCall
    BY SeqFacts
<1>2. /\ read' \in Seq(HtmlCall) /\ Len(read') = n + 1 /\ read'[n + 1] = e
      /\ \A i \in 1 .. n : read'[i] = read[i]
    BY <1>1, AppendProperties
<1>3. DOMAIN read' = 1 .. n + 1
    BY <1>2, SeqFacts
<1>4. QED
    BY <1>1, <1>2, <1>3 DEF Last

\* A call adds its own place to the starts of its tag, and changes no other call.
LEMMA StartsGrow ==
    ASSUME read \in Seq(HtmlCall), NEW n, n = Len(read),
           NEW e \in HtmlCall, read' = Append(read, e)
    PROVE  /\ \A tag : /\ Starts(tag) \subseteq 1 .. n
                       /\ Starts(tag)' = Starts(tag) \cup
                              {i \in {n + 1} : e.call = "start" /\ e.tag = tag}
           /\ \A i \in 1 .. n : Breaks(i)' <=> Breaks(i)
<1>1. /\ n \in Nat /\ DOMAIN read = 1 .. n
      /\ \A i \in 1 .. n : read'[i] = read[i]
      /\ DOMAIN read' = 1 .. n + 1 /\ read'[n + 1] = e
    BY Grown
<1>2. \A i \in 1 .. n + 1 : i \in 1 .. n \/ i = n + 1
    BY <1>1
<1>3. QED
    BY <1>1, <1>2 DEF Starts, Is, Breaks

\* A call is counted where it is, and changes no earlier count.
LEMMA CountsGrow ==
    ASSUME read \in Seq(HtmlCall), NEW n, n = Len(read),
           NEW e \in HtmlCall, read' = Append(read, e)
    PROVE  /\ \A call : \A i, k \in Nat : i >= 1 /\ k <= n => Counts(call, i, k)' = Counts(call, i, k)
           /\ \A call : \A i \in 1 .. n + 1 :
                 Counts(call, i, n + 1)' =
                     Counts(call, i, n) + (IF e.call = call /\ e.tag = "dl" THEN 1 ELSE 0)
           /\ \A call : \A i, k \in Nat : Counts(call, i, k) \in Nat
<1>1. /\ n \in Nat /\ DOMAIN read = 1 .. n
      /\ \A i \in 1 .. n : read'[i] = read[i]
      /\ DOMAIN read' = 1 .. n + 1 /\ read'[n + 1] = e
    BY Grown
<1>2. ASSUME NEW call, NEW i \in Nat, NEW k \in Nat
      PROVE  /\ IsFiniteSet({j \in i .. k : Is(j, call, "dl")})
             /\ Counts(call, i, k) \in Nat
             /\ Counts(call, i, k) = Cardinality({j \in i .. k : Is(j, call, "dl")})
    <2>1. IsFiniteSet(i .. k)
        BY FS_Interval
    <2>2. QED
        BY <2>1, FS_Subset, FS_CardinalityType DEF Counts
<1>3. ASSUME NEW call, NEW i \in Nat, NEW k \in Nat, i >= 1, k <= n
      PROVE  Counts(call, i, k)' = Counts(call, i, k)
    <2>1. \A j \in i .. k : j \in 1 .. n
        BY <1>1, <1>3
    <2>2. {j \in i .. k : Is(j, call, "dl")}' = {j \in i .. k : Is(j, call, "dl")}
        BY <1>1, <2>1 DEF Is
    <2>3. QED
        BY <2>2 DEF Counts
<1>4. ASSUME NEW call, NEW i \in 1 .. n + 1
      PROVE  Counts(call, i, n + 1)' =
                 Counts(call, i, n) + (IF e.call = call /\ e.tag = "dl" THEN 1 ELSE 0)
    <2> DEFINE A == {j \in i .. n : Is(j, call, "dl")}
               B == {j \in i .. n + 1 : Is(j, call, "dl")}'
    <2>1. i \in Nat /\ \A j : j \in i .. n + 1 <=> j \in i .. n \/ j = n + 1
        BY <1>1
    <2>2. \A j \in i .. n : Is(j, call, "dl")' <=> Is(j, call, "dl")
        BY <1>1 DEF Is
    <2>3. Is(n + 1, call, "dl")' <=> e.call = call /\ e.tag = "dl"
        BY <1>1 DEF Is
    <2>4. B = IF e.call = call /\ e.tag = "dl" THEN A \cup {n + 1} ELSE A
        BY <2>1, <2>2, <2>3
    <2>5. n + 1 \notin A
        BY <1>1
    <2>6. IsFiniteSet(A) /\ Cardinality(A) \in Nat /\ Counts(call, i, n) = Cardinality(A)
        <3>1. i \in Nat /\ n \in Nat
            BY <1>1, <2>1
        <3>2. IsFiniteSet(i .. n) /\ A \subseteq i .. n
            BY <3>1, FS_Interval
        <3>3. IsFiniteSet(A)
            BY <3>2, FS_Subset
        <3>4. Cardinality(A) \in Nat
            BY <3>3, FS_CardinalityType
        <3>5. Counts(call, i, n) = Cardinality(A)
            BY DEF Counts
        <3>6. QED
            BY <3>3, <3>4, <3>5
    <2>7. Counts(call, i, n + 1)' = Cardinality(B)
        BY DEF Counts
    <2> HIDE DEF A, B
    <2>8. Cardinality(A \cup {n + 1}) = Cardinality(A) + 1
        BY <2>5, <2>6, FS_AddElement
    <2>9. QED
        BY <2>4, <2>6, <2>7, <2>8
<1>5. QED
    BY <1>2, <1>3, <1>4

\* The text of an element is fixed by the call that follows it.
LEMMA TextsGrow ==
    ASSUME read \in Seq(HtmlCall), NEW n, n = Len(read),
           NEW e \in HtmlCall, read' = Append(read, e)
    PROVE  /\ \A i \in 1 .. n : i < n => TextAt(i)' = TextAt(i)
           /\ TextAt(n) = <<>>
           /\ e.call # "data" => TextAt(n)' = TextAt(n)
           /\ TextAt(n + 1)' = <<>>
<1>1. /\ n \in Nat /\ \A i \in 1 .. n : read'[i] = read[i]
      /\ Len(read') = n + 1 /\ read'[n + 1] = e
    BY Grown
<1>2. ASSUME NEW i \in 1 .. n, i < n
      PROVE  TextAt(i)' = TextAt(i)
    <2>1. i + 1 \in 1 .. n /\ i < n + 1
        BY <1>1, <1>2
    <2>2. QED
        BY <1>1, <1>2, <2>1 DEF TextAt
<1>3. QED
    BY <1>1, <1>2 DEF TextAt

\* The headings, the names and the lists open before a call are those of then.
LEMMA NamesGrow ==
    ASSUME read \in Seq(HtmlCall), NEW n, n = Len(read),
           NEW e \in HtmlCall, read' = Append(read, e)
    PROVE  /\ \A i \in 1 .. n + 1 : /\ Headings(i)' = Headings(i)
                                    /\ OpenLists(i)' = OpenLists(i)
                                    /\ NamedAt(i)' = NamedAt(i)
           /\ \A i \in 1 .. n : NameOf(i)' = NameOf(i)
           /\ e.call # "data" => NameOf(n + 1)' = NameOf(n + 1)
           /\ \A i \in 1 .. n + 1 : OpenLists(i) \subseteq 1 .. n
<1>1. n \in Nat
    BY Grown
<1>2. \A tag : /\ Starts(tag) \subseteq 1 .. n
               /\ Starts(tag)' = Starts(tag) \cup {i \in {n + 1} : e.call = "start" /\ e.tag = tag}
    BY StartsGrow
<1>3. ASSUME NEW i \in 1 .. n + 1
      PROVE  Headings(i)' = Headings(i)
    BY <1>1, <1>2 DEF Headings
<1>4. ASSUME NEW i \in 1 .. n + 1
      PROVE  OpenLists(i)' = OpenLists(i)
    <2>1. \A j \in 1 .. n : \A k \in j + 1 .. i - 1 : j + 1 \in Nat /\ k \in Nat /\ j + 1 >= 1 /\ k <= n
        BY <1>1
    <2>2. \A j \in 1 .. n : \A k \in j + 1 .. i - 1 :
              /\ Counts("end", j + 1, k)' = Counts("end", j + 1, k)
              /\ Counts("start", j + 1, k)' = Counts("start", j + 1, k)
        BY <2>1, CountsGrow
    <2>3. \A j \in Starts("dl")' : j < i <=> j \in Starts("dl") /\ j < i
        BY <1>1, <1>2
    <2>4. \A j \in Starts("dl") : j \in 1 .. n /\ j \in Starts("dl")'
        BY <1>2
    <2>5. QED
        BY <2>2, <2>3, <2>4 DEF OpenLists
<1>5. \A i \in 1 .. n + 1 : OpenLists(i) \subseteq 1 .. n
    BY <1>2 DEF OpenLists
<1>6. ASSUME NEW i \in 1 .. n + 1, i <= n \/ e.call # "data"
      PROVE  NameOf(i)' = NameOf(i)
    <2>1. Headings(i)' = Headings(i)
        BY <1>3
    <2>2. \A h \in Headings(i) : h \in 1 .. n /\ h < i
        BY <1>2 DEF Headings
    <2>3. \A h \in Headings(i) : TextAt(h)' = TextAt(h)
        BY <1>1, <1>6, <2>2, TextsGrow
    <2>4. CASE Headings(i) = {}
        BY <2>1, <2>4 DEF NameOf
    <2>5. CASE Headings(i) # {}
        <3>1. PICK top : top = Max(Headings(i))
            OBVIOUS
        <3>2. top \in Headings(i)
            BY <1>1, <2>2, <2>5, <3>1, MaxOf
        <3>3. top = Max(Headings(i)')
            BY <2>1, <3>1
        <3>4. NameOf(i)' = TextAt(top)'
            BY <2>1, <2>5, <3>3 DEF NameOf
        <3>5. NameOf(i) = TextAt(top)
            BY <2>5, <3>1 DEF NameOf
        <3>6. QED
            BY <2>3, <3>2, <3>4, <3>5
    <2>6. QED
        BY <2>4, <2>5
<1>7. \A i \in 1 .. n : NameOf(i)' = NameOf(i)
    BY <1>1, <1>6
<1>8. ASSUME NEW i \in 1 .. n + 1
      PROVE  NamedAt(i)' = NamedAt(i)
    BY <1>4, <1>5, <1>7 DEF NamedAt
<1>9. e.call # "data" => NameOf(n + 1)' = NameOf(n + 1)
    BY <1>1, <1>6
<1>10. QED
    BY <1>3, <1>4, <1>5, <1>7, <1>8, <1>9

\* Nothing is counted after the last call.
LEMMA NoneCounted ==
    ASSUME NEW n \in Nat, NEW call
    PROVE  Counts(call, n + 1, n) = 0
<1>1. {j \in n + 1 .. n : Is(j, call, "dl")} = {}
    OBVIOUS
<1>2. QED
    BY <1>1, FS_EmptySet DEF Counts

\* A call that is not that of a list leaves the lists open.
LEMMA ListsKept ==
    ASSUME read \in Seq(HtmlCall), NEW n, n = Len(read),
           NEW e \in HtmlCall, read' = Append(read, e), e.tag # "dl"
    PROVE  /\ OpenLists(n + 2)' = OpenLists(n + 1)
           /\ NamedAt(n + 2)' = NamedAt(n + 1)
           /\ \A path : IsPathAt(path, n + 2)' <=> IsPathAt(path, n + 1)
<1>1. n \in Nat
    BY Grown
<1>2. Starts("dl")' = Starts("dl") /\ Starts("dl") \subseteq 1 .. n
    <2>1. Starts("dl")' = Starts("dl") \cup {i \in {n + 1} : e.call = "start" /\ e.tag = "dl"}
        BY StartsGrow
    <2>2. {i \in {n + 1} : e.call = "start" /\ e.tag = "dl"} = {}
        OBVIOUS
    <2>3. Starts("dl") \subseteq 1 .. n
        BY StartsGrow
    <2>4. QED
        BY <2>1, <2>2, <2>3
<1>3. ASSUME NEW i \in 1 .. n
      PROVE  (\A k \in i + 1 .. n + 1 : Counts("end", i + 1, k) <= Counts("start", i + 1, k))'
                <=> \A k \in i + 1 .. n : Counts("end", i + 1, k) <= Counts("start", i + 1, k)
    <2>1. \A k \in i + 1 .. n : i + 1 \in Nat /\ k \in Nat /\ i + 1 >= 1 /\ k <= n
        BY <1>1
    <2>2. \A k \in i + 1 .. n :
              /\ Counts("end", i + 1, k)' = Counts("end", i + 1, k)
              /\ Counts("start", i + 1, k)' = Counts("start", i + 1, k)
        BY <2>1, CountsGrow
    <2>3. i + 1 \in 1 .. n + 1 /\ i + 1 \in Nat
        BY <1>1
    <2>4. /\ Counts("end", i + 1, n + 1)' = Counts("end", i + 1, n)
          /\ Counts("start", i + 1, n + 1)' = Counts("start", i + 1, n)
          /\ Counts("end", i + 1, n) \in Nat /\ Counts("start", i + 1, n) \in Nat
        BY SMTT(30), <1>1, <2>3, CountsGrow
    <2>5. CASE i = n
        <3>1. Counts("end", i + 1, n) = 0 /\ Counts("start", i + 1, n) = 0
            BY <1>1, <2>5, NoneCounted
        <3>2. \A k \in i + 1 .. n + 1 : k = n + 1
            BY <1>1, <2>5
        <3>3. \A k : k \notin i + 1 .. n
            BY <1>1, <2>5
        <3>4. QED
            BY <2>4, <3>1, <3>2, <3>3
    <2>6. CASE i < n
        <3>1. n \in i + 1 .. n /\ \A k : k \in i + 1 .. n + 1 <=> k \in i + 1 .. n \/ k = n + 1
            BY <1>1, <2>6
        <3>2. QED
            BY <2>2, <2>4, <3>1
    <2>7. QED
        BY <1>1, <2>5, <2>6
<1>4. n + 2 - 1 = n + 1 /\ n + 1 - 1 = n /\ \A i \in 1 .. n : i < n + 1 /\ i < n + 2
    BY <1>1
<1>5. OpenLists(n + 2)' = OpenLists(n + 1)
    BY <1>2, <1>3, <1>4 DEF OpenLists
<1>6. OpenLists(n + 1) \subseteq 1 .. n /\ \A i \in 1 .. n : NameOf(i)' = NameOf(i)
    BY <1>1, NamesGrow
<1>7. NamedAt(n + 2)' = NamedAt(n + 1)
    BY <1>5, <1>6 DEF NamedAt
<1>8. \A j \in NamedAt(n + 1) : NameOf(j)' = NameOf(j)
    BY <1>6 DEF NamedAt
<1>9. ASSUME NEW path
      PROVE  IsPathAt(path, n + 2)' <=> IsPathAt(path, n + 1)
    <2>1. PICK S : S = NamedAt(n + 1)
        OBVIOUS
    <2>2. PICK m : m = n + 2
        OBVIOUS
    <2>3. NamedAt(m)' = S /\ \A j \in S : NameOf(j)' = NameOf(j)
        BY <1>7, <1>8, <2>1, <2>2
    <2>4. ASSUME NEW s \in [1 .. Len(path) -> S]
          PROVE  (\A k \in 1 .. Len(path) : path[k] = NameOf(s[k]))'
                     <=> \A k \in 1 .. Len(path) : path[k] = NameOf(s[k])
        BY <2>3
    <2>5. ASSUME NEW s \in [1 .. Len(path) -> S]
          PROVE  (/\ \A i \in NamedAt(m) : \E k \in 1 .. Len(path) : s[k] = i
                  /\ \A j, k \in 1 .. Len(path) : j < k => s[j] < s[k]
                  /\ \A k \in 1 .. Len(path) : path[k] = NameOf(s[k]))'
                     <=> /\ \A i \in S : \E k \in 1 .. Len(path) : s[k] = i
                         /\ \A j, k \in 1 .. Len(path) : j < k => s[j] < s[k]
                         /\ \A k \in 1 .. Len(path) : path[k] = NameOf(s[k])
        BY <2>3, <2>4
    <2>6. [1 .. Len(path) -> NamedAt(m)]' = [1 .. Len(path) -> S]
        BY <2>3
    <2>7. ASSUME IsPathAt(path, n + 1)
          PROVE  IsPathAt(path, m)'
        <3>1. PICK s \in [1 .. Len(path) -> S] :
                  /\ \A i \in S : \E k \in 1 .. Len(path) : s[k] = i
                  /\ \A j, k \in 1 .. Len(path) : j < k => s[j] < s[k]
                  /\ \A k \in 1 .. Len(path) : path[k] = NameOf(s[k])
            BY <2>1, <2>7 DEF IsPathAt
        <3>2. QED
            BY <2>3, <2>5, <3>1 DEF IsPathAt
    <2>8. ASSUME IsPathAt(path, m)'
          PROVE  IsPathAt(path, n + 1)
        <3>1. PICK s \in [1 .. Len(path) -> S] :
                  (/\ \A i \in NamedAt(m) : \E k \in 1 .. Len(path) : s[k] = i
                   /\ \A j, k \in 1 .. Len(path) : j < k => s[j] < s[k]
                   /\ \A k \in 1 .. Len(path) : path[k] = NameOf(s[k]))'
            BY <2>3, <2>8 DEF IsPathAt
        <3>2. QED
            BY <2>1, <2>5, <3>1 DEF IsPathAt
    <2>9. QED
        BY <2>2, <2>7, <2>8
<1>10. QED
    BY <1>5, <1>7, <1>9

\* Paths made before a call are those of then.
LEMMA PathsKept ==
    ASSUME read \in Seq(HtmlCall), NEW n, n = Len(read),
           NEW e \in HtmlCall, read' = Append(read, e)
    PROVE  /\ \A path : \A i \in 1 .. n + 1 : IsPathAt(path, i)' <=> IsPathAt(path, i)
           /\ \A item : item.url \in 1 .. n => (IsFiled(item)' <=> IsFiled(item))
<1>1. n \in Nat /\ \A i \in 1 .. n : read'[i] = read[i]
    BY Grown
<1>2. /\ \A i \in 1 .. n + 1 : NamedAt(i)' = NamedAt(i) /\ OpenLists(i) \subseteq 1 .. n
      /\ \A i \in 1 .. n : NameOf(i)' = NameOf(i)
    BY NamesGrow
<1>3. \A i \in 1 .. n + 1 : NamedAt(i) \subseteq 1 .. n
    BY <1>2 DEF NamedAt
<1>4. ASSUME NEW path, NEW i \in 1 .. n + 1
      PROVE  IsPathAt(path, i)' <=> IsPathAt(path, i)
    <2>1. NamedAt(i)' = NamedAt(i) /\ \A j \in NamedAt(i) : NameOf(j)' = NameOf(j)
        BY <1>2, <1>3
    <2>2. QED
        BY SMTT(30), <2>1 DEF IsPathAt
<1>5. ASSUME NEW item, item.url \in 1 .. n
      PROVE  IsFiled(item)' <=> IsFiled(item)
    <2>1. item.url \in 1 .. n + 1
        BY <1>1, <1>5
    <2>2. NamedAt(item.url)' = NamedAt(item.url) /\ read'[item.url] = read[item.url]
        BY <1>1, <1>2, <1>5, <2>1
    <2>3. IsPathAt(item.path, item.url)' <=> IsPathAt(item.path, item.url)
        BY <1>4, <2>1
    <2>4. QED
        BY <2>2, <2>3 DEF IsFiled
<1>6. QED
    BY <1>4, <1>5

\* A description goes on as long as no call ends it.
LEMMA QuietGrows ==
    ASSUME read \in Seq(HtmlCall), NEW n, n = Len(read),
           NEW e \in HtmlCall, read' = Append(read, e)
    PROVE  /\ \A i \in 1 .. n : \A k \in 0 .. n : Quiet(i, k)' <=> Quiet(i, k)
           /\ \A i \in 1 .. n : Quiet(i, n + 1)' <=> Quiet(i, n) /\ ~Breaks(n + 1)'
<1>1. n \in Nat /\ \A i \in 1 .. n : Breaks(i)' <=> Breaks(i)
    BY Grown, StartsGrow
<1>2. ASSUME NEW i \in 1 .. n, NEW k \in 0 .. n
      PROVE  Quiet(i, k)' <=> Quiet(i, k)
    <2>1. \A j \in i + 1 .. k : j \in 1 .. n
        BY <1>1
    <2>2. QED
        BY <1>1, <2>1 DEF Quiet
<1>3. ASSUME NEW i \in 1 .. n
      PROVE  Quiet(i, n + 1)' <=> Quiet(i, n) /\ ~Breaks(n + 1)'
    <2>1. \A j : j \in i + 1 .. n + 1 <=> j \in i + 1 .. n \/ j = n + 1
        BY <1>1
    <2>2. \A j \in i + 1 .. n : j \in 1 .. n
        BY <1>1
    <2>3. QED
        BY <1>1, <2>1, <2>2 DEF Quiet
<1>4. QED
    BY <1>2, <1>3

\* A call adds no note, except the text of a <DD> that has just started.
LEMMA NotesGrow ==
    ASSUME read \in Seq(HtmlCall), NEW n, n = Len(read),
           NEW e \in HtmlCall, read' = Append(read, e), NEW i \in 1 .. n
    PROVE  /\ NotesOf(i) \subseteq 1 .. n
           /\ \A d \in NotesOf(i) : d < n /\ TextAt(d)' = TextAt(d)
           /\ NotesOf(i)' \ {n} = NotesOf(i)
           /\ e.call # "data" \/ n \notin Starts("dd") => NotesOf(i)' = NotesOf(i)
<1>1. n \in Nat /\ n # 0
    BY Grown
<1>2. /\ Starts("dd") \subseteq 1 .. n /\ \A j \in 1 .. n : j \in Starts("dd")' <=> j \in Starts("dd")
      /\ Starts("dd")' \subseteq 1 .. n + 1
    <2>1. Starts("dd")' = Starts("dd") \cup {j \in {n + 1} : e.call = "start" /\ e.tag = "dd"}
        BY StartsGrow
    <2>2. Starts("dd") \subseteq 1 .. n
        BY StartsGrow
    <2>3. QED
        BY <1>1, <2>1, <2>2
<1>3. ASSUME NEW d \in 1 .. n
      PROVE  (\A k \in i + 1 .. d - 1 : ~Breaks(k))' <=> \A k \in i + 1 .. d - 1 : ~Breaks(k)
    <2>1. \A k \in i + 1 .. d - 1 : k \in 1 .. n
        BY <1>1
    <2>2. \A k \in 1 .. n : Breaks(k)' <=> Breaks(k)
        BY StartsGrow
    <2>3. QED
        BY <2>1, <2>2
<1>4. /\ \A d \in 1 .. n : d < n => TextAt(d)' = TextAt(d)
      /\ TextAt(n) = <<>> /\ TextAt(n + 1)' = <<>>
      /\ e.call # "data" => TextAt(n)' = <<>>
    BY TextsGrow
<1>5. \A d \in NotesOf(i) : d \in 1 .. n /\ d < n
    BY <1>1, <1>2, <1>4 DEF NotesOf
<1>6. \A d \in 1 .. n : d < n => (d \in NotesOf(i)' <=> d \in NotesOf(i))
    BY <1>2, <1>3, <1>4 DEF NotesOf
<1>7. \A d \in NotesOf(i)' : d \in 1 .. n
    BY <1>1, <1>2, <1>4 DEF NotesOf
<1>8. e.call # "data" \/ n \notin Starts("dd") => n \notin NotesOf(i)'
    BY <1>1, <1>2, <1>4 DEF NotesOf
<1>9. NotesOf(i)' \ {n} = NotesOf(i)
    BY <1>1, <1>5, <1>6, <1>7
<1>10. e.call # "data" \/ n \notin Starts("dd") => NotesOf(i)' = NotesOf(i)
    BY <1>8, <1>9
<1>11. \A d \in NotesOf(i) : d < n /\ TextAt(d)' = TextAt(d)
    BY <1>4, <1>5
<1>12. NotesOf(i) \subseteq 1 .. n
    BY <1>5
<1>13. QED
    BY <1>9, <1>10, <1>11, <1>12

-----------------------------------------------------------------------------
(* _flush *)

\* A heading or a list of items leaves the record one of the parser.
LEMMA StillFields ==
    ASSUME NEW s \in Fields, NEW l \in Nat, NEW t \in Text, NEW list \in Seq(Item)
    PROVE  /\ [s EXCEPT !.pending = t, !.last = l] \in Fields
           /\ [s EXCEPT !.items = list, !.last = l] \in Fields
    BY DEF Fields

\* The fields, and what _flush starts with.
LEMMA Released ==
    ASSUME NEW p \in Fields, NEW r, r = [p EXCEPT !.capture = None, !.text = <<>>]
    PROVE  /\ p.items \in Seq(Item) /\ p.path \in Seq(Text) /\ p.opened \in Seq(BOOLEAN)
           /\ p.pending \in Text /\ p.text \in Text /\ p.last \in Nat
           /\ p.anchor \in Anchor \cup {None} /\ p.capture \in {None, "h3", "a", "dd"}
           /\ <<>> \in Text
           /\ "h3" # "a" /\ "h3" # "dd" /\ "a" # "dd" /\ None # "h3" /\ None # "a" /\ None # "dd"
           /\ r \in Fields /\ r.capture = None /\ r.text = <<>>
           /\ r.path = p.path /\ r.opened = p.opened /\ r.pending = p.pending
           /\ r.items = p.items /\ r.last = p.last /\ r.anchor = p.anchor
<1>1. /\ p.items \in Seq(Item) /\ p.path \in Seq(Text) /\ p.opened \in Seq(BOOLEAN)
      /\ p.pending \in Text /\ p.text \in Text /\ p.last \in Nat /\ <<>> \in Text
      /\ p.anchor \in Anchor \cup {None} /\ p.capture \in {None, "h3", "a", "dd"}
    BY DEF Fields, Text
<1>2. /\ r \in Fields /\ r.capture = None /\ r.text = <<>>
      /\ r.path = p.path /\ r.opened = p.opened /\ r.pending = p.pending
      /\ r.items = p.items /\ r.last = p.last /\ r.anchor = p.anchor
    BY <1>1 DEF Fields
<1>3. "h3" # "a" /\ "h3" # "dd" /\ "a" # "dd" /\ None # "h3" /\ None # "a" /\ None # "dd"
    BY ParserAssumption
<1>4. QED
    BY <1>1, <1>2, <1>3

\* A link becomes the last item,
LEMMA FlushLink ==
    ASSUME NEW p \in Fields, p.capture = "a", p.anchor \in Anchor, p.anchor.http,
           NEW q, q = Flush(p)
    PROVE  /\ q \in Fields /\ q.capture = None /\ q.text = <<>>
           /\ q.path = p.path /\ q.opened = p.opened /\ q.pending = p.pending
           /\ \E item \in Item :
                 /\ q.items = Append(p.items, item) /\ q.last = Len(p.items) + 1
                 /\ item.url = p.anchor.url /\ item.note = <<>>
                 /\ item.path = IF p.path = <<>> /\ p.anchor.folder # <<>>
                                THEN <<p.anchor.folder>> ELSE p.path
<1>r. PICK r : r = [p EXCEPT !.capture = None, !.text = <<>>]
    OBVIOUS
<1> DEFINE folders == IF p.path = <<>> /\ p.anchor.folder # <<>>
                      THEN <<p.anchor.folder>> ELSE p.path
           item == [url |-> p.anchor.url, title |-> p.text, path |-> folders, note |-> <<>>]
<1>0. /\ p.items \in Seq(Item) /\ p.path \in Seq(Text) /\ p.text \in Text /\ <<>> \in Text
      /\ r \in Fields /\ r.capture = None /\ r.text = <<>>
      /\ r.path = p.path /\ r.opened = p.opened /\ r.pending = p.pending
      /\ r.items = p.items /\ r.last = p.last /\ r.anchor = p.anchor
    BY ZenonT(30), <1>r, Released
<1>1. p.anchor.url \in Nat /\ folders \in Seq(Text)
    BY <1>0 DEF Anchor
<1>2. AddItem(r, p.text) = [r EXCEPT !.items = Append(p.items, item), !.last = Len(p.items) + 1]
    BY <1>0 DEF AddItem
<1>3. item \in Item /\ item.url = p.anchor.url /\ item.note = <<>> /\ item.path = folders
    BY <1>0, <1>1 DEF Item
<1> HIDE DEF item
<1>4. Append(p.items, item) \in Seq(Item) /\ Len(p.items) + 1 \in Nat
    BY <1>0, <1>3, AppendProperties
<1>5. PICK s : s = [r EXCEPT !.items = Append(p.items, item), !.last = Len(p.items) + 1]
    OBVIOUS
<1>6. /\ s \in Fields /\ s.capture = None /\ s.text = <<>>
      /\ s.path = p.path /\ s.opened = p.opened /\ s.pending = p.pending
      /\ s.items = Append(p.items, item) /\ s.last = Len(p.items) + 1
    BY <1>0, <1>4, <1>5 DEF Fields
<1>7. q = [s EXCEPT !.anchor = None]
    <2>1. "a" # "h3"
        OBVIOUS
    <2>2. q = [AddItem(r, p.text) EXCEPT !.anchor = None]
        BY <1>r, <2>1 DEF Flush
    <2>3. QED
        BY <1>2, <1>5, <2>2
<1>8. /\ q \in Fields /\ q.capture = None /\ q.text = <<>>
      /\ q.path = p.path /\ q.opened = p.opened /\ q.pending = p.pending
      /\ q.items = Append(p.items, item) /\ q.last = Len(p.items) + 1
    BY <1>6, <1>7 DEF Fields
<1>9. QED
    BY <1>3, <1>8

\* a text the note of the last item,
LEMMA FlushNote ==
    ASSUME NEW p \in Fields, p.capture = "dd", p.last \in 1 .. Len(p.items), p.text # <<>>,
           NEW q, q = Flush(p)
    PROVE  /\ q \in Fields /\ q.capture = None /\ q.text = <<>> /\ q.last = 0
           /\ q.path = p.path /\ q.opened = p.opened /\ q.pending = p.pending
           /\ DOMAIN q.items = DOMAIN p.items
           /\ \A k \in DOMAIN p.items :
                 /\ q.items[k].url = p.items[k].url /\ q.items[k].path = p.items[k].path
                 /\ q.items[k].note = IF k = p.last THEN p.text ELSE p.items[k].note
<1>r. PICK r : r = [p EXCEPT !.capture = None, !.text = <<>>]
    OBVIOUS
<1>z. p.last # 0
    OBVIOUS
<1>0. /\ p.items \in Seq(Item) /\ p.path \in Seq(Text) /\ p.text \in Text
      /\ r \in Fields /\ r.capture = None /\ r.text = <<>>
      /\ r.path = p.path /\ r.opened = p.opened /\ r.pending = p.pending
      /\ r.items = p.items /\ r.last = p.last
    BY <1>r, Released
<1>1. q = Noted(r, p.text)
    <2>1. "dd" # "h3" /\ "dd" # "a"
        OBVIOUS
    <2>2. QED
        BY <1>r, <1>0, <1>z, <2>1 DEF Flush
<1>2. p.items[p.last] \in Item
    BY <1>0, SeqFacts
<1>3. PICK item : item = [p.items[p.last] EXCEPT !.note = p.text]
    OBVIOUS
<1>4. /\ item \in Item /\ item.url = p.items[p.last].url /\ item.path = p.items[p.last].path
      /\ item.note = p.text
    BY <1>0, <1>2, <1>3 DEF Item
<1>5. PICK list : list = [p.items EXCEPT ![p.last] = item]
    OBVIOUS
<1>6. q = [r EXCEPT !.items = list, !.last = 0]
    BY <1>0, <1>1, <1>3, <1>5 DEF Noted
<1>7. list \in Seq(Item)
    BY <1>0, <1>4, <1>5, ExceptSeq
<1>8. q \in Fields
    <2>1. 0 \in Nat /\ r \in Fields /\ p.text \in Text
        BY <1>0
    <2>2. [r EXCEPT !.items = list, !.last = 0] \in Fields
        BY <1>7, <2>1, StillFields
    <2>3. QED
        BY <1>6, <2>2
<1>9. /\ q.capture = None /\ q.text = <<>> /\ q.items = list /\ q.last = 0
      /\ q.path = p.path /\ q.opened = p.opened /\ q.pending = p.pending
    BY <1>0, <1>6 DEF Fields
<1>10. /\ DOMAIN list = DOMAIN p.items
       /\ \A k \in DOMAIN p.items : list[k] = IF k = p.last THEN item ELSE p.items[k]
    BY <1>5
<1>11. QED
    BY <1>4, <1>8, <1>9, <1>10

\* and what is neither changes no item.
LEMMA FlushOther ==
    ASSUME NEW p \in Fields, p.capture # "a" \/ (p.anchor \in Anchor /\ ~p.anchor.http),
           p.capture # "dd" \/ p.last = 0 \/ p.text = <<>>,
           NEW q, q = Flush(p)
    PROVE  /\ q \in Fields /\ q.capture = None /\ q.text = <<>>
           /\ q.path = p.path /\ q.opened = p.opened /\ q.items = p.items
           /\ q.pending = IF p.capture = "h3" THEN p.text ELSE p.pending
           /\ q.last = IF p.capture \in {"h3", "a"} THEN 0 ELSE p.last
<1>r. PICK r : r = [p EXCEPT !.capture = None, !.text = <<>>]
    OBVIOUS
<1>0. /\ "h3" # "a" /\ "h3" # "dd" /\ "a" # "dd" /\ p.capture \in {None, "h3", "a", "dd"}
      /\ r \in Fields /\ r.capture = None /\ r.text = <<>> /\ p.text \in Text
      /\ r.path = p.path /\ r.opened = p.opened /\ r.pending = p.pending
      /\ r.items = p.items /\ r.last = p.last /\ r.anchor = p.anchor
    BY <1>r, Released
<1>h. None # "h3" /\ None # "a" /\ None # "dd"
    BY ParserAssumption
<1>1. CASE p.capture = "h3"
    <2>1. q = [r EXCEPT !.pending = p.text, !.last = 0]
        BY <1>r, <1>1 DEF Flush
    <2>2. q \in Fields
        <3>1. 0 \in Nat /\ <<>> \in Seq(Item)
            OBVIOUS
        <3>2. [r EXCEPT !.pending = p.text, !.last = 0] \in Fields
            BY <1>0, <3>1, StillFields
        <3>3. QED
            BY <2>1, <3>2
    <2>3. /\ q.capture = None /\ q.text = <<>> /\ q.items = p.items /\ q.last = 0
          /\ q.path = p.path /\ q.opened = p.opened /\ q.pending = p.text
        BY <1>0, <2>1 DEF Fields
    <2>4. QED
        BY <1>1, <2>2, <2>3
<1>2. CASE p.capture = "a"
    <2>1. q = [AddItem(r, p.text) EXCEPT !.anchor = None]
        BY <1>r, <1>0, <1>2 DEF Flush
    <2>2. PICK s : s = [r EXCEPT !.last = 0]
        OBVIOUS
    <2>3. AddItem(r, p.text) = s
        BY <1>0, <1>2, <2>2 DEF AddItem
    <2>4. /\ s \in Fields /\ s.capture = None /\ s.text = <<>> /\ s.items = p.items /\ s.last = 0
          /\ s.path = p.path /\ s.opened = p.opened /\ s.pending = p.pending
        BY <1>0, <2>2 DEF Fields
    <2>5. q = [s EXCEPT !.anchor = None]
        BY <2>1, <2>3
    <2>6. /\ q \in Fields /\ q.capture = None /\ q.text = <<>> /\ q.items = p.items /\ q.last = 0
          /\ q.path = p.path /\ q.opened = p.opened /\ q.pending = p.pending
        BY <2>4, <2>5 DEF Fields
    <2>7. QED
        BY <1>0, <1>2, <2>6
<1>3. CASE p.capture \in {None, "dd"}
    <2>1. q = r
        BY <1>r, <1>0, <1>h, <1>3 DEF Flush
    <2>2. QED
        BY <1>0, <1>h, <1>3, <2>1
<1>4. QED
    BY <1>0, <1>1, <1>2, <1>3

\* In any case:
LEMMA FlushFields ==
    ASSUME NEW p \in Fields, p.capture = "a" => p.anchor \in Anchor,
           p.last \in 0 .. Len(p.items), NEW q, q = Flush(p)
    PROVE  /\ q \in Fields /\ q.capture = None /\ q.text = <<>>
           /\ q.path = p.path /\ q.opened = p.opened
           /\ q.pending = IF p.capture = "h3" THEN p.text ELSE p.pending
<1>1. CASE p.capture = "a" /\ p.anchor.http
    BY <1>1, FlushLink
<1>2. CASE p.capture = "dd" /\ p.last # 0 /\ p.text # <<>>
    <2>1. p.last \in 1 .. Len(p.items)
        BY <1>2
    <2>2. QED
        BY <1>2, <2>1, FlushNote
<1>3. CASE /\ p.capture # "a" \/ ~p.anchor.http
           /\ p.capture # "dd" \/ p.last = 0 \/ p.text = <<>>
    <2>1. p.capture # "a" \/ (p.anchor \in Anchor /\ ~p.anchor.http)
        BY <1>3
    <2>2. QED
        BY <1>3, <2>1, FlushOther
<1>4. QED
    BY <1>1, <1>2, <1>3

\* What is captured has started and nothing but its text has followed.
LEMMA BegunFacts ==
    ASSUME read \in Seq(HtmlCall), NEW p, Reads(p), p.capture # None,
           NEW n, n = Len(read), NEW b, b = Begun
    PROVE  /\ n \in Nat /\ b \in 1 .. n /\ read[b].call = "start"
           /\ \A k \in b + 1 .. n : read[k].call = "data"
           /\ \A k \in 1 .. n : ~(k <= b) => k \in b + 1 .. n
           /\ p.capture \in {"h3", "a", "dd"}
           /\ p.capture \in {"h3", "dd"} => read[b].tag = p.capture
           /\ p.capture = "a" => read[b].tag \in Anchors /\ p.anchor \in Anchor
           /\ p.text = TextAt(b)
<1>1. n \in Nat /\ DOMAIN read = 1 .. n
    BY SeqFacts
<1>2. /\ b \in 1 .. n /\ read[b].call = "start" /\ p.text = TextAt(b)
      /\ p.capture \in {"h3", "dd"} => read[b].tag = p.capture
      /\ p.capture = "a" => /\ read[b].tag \in Anchors
                            /\ p.anchor = [url |-> b, http |-> read[b].tag # "mailto",
                                   folder |-> IF read[b].tag = "a folder" THEN <<b>> ELSE <<>>]
    BY <1>1 DEF Reads, Capturing
<1>p. b \in 1 .. n
    BY <1>2
<1>3. b = IF read[n].call = "data" THEN n - 1 ELSE n
    BY DEF Begun, Last
<1>4. ASSUME NEW k \in b + 1 .. n
      PROVE  read[k].call = "data"
    <2>1. CASE read[n].call = "data"
        <3>1. b = n - 1
            BY <1>3, <2>1
        <3>2. k = n
            BY <1>1, <3>1
        <3>3. QED
            BY <2>1, <3>2
    <2>2. CASE read[n].call # "data"
        <3>1. b = n
            BY <1>3, <2>2
        <3>2. QED
            BY <1>1, <3>1
    <2>3. QED
        BY <2>1, <2>2
<1>5. ASSUME p.capture = "a"
      PROVE  p.anchor \in Anchor
    <2>1. b \in Nat /\ <<b>> \in Seq(Nat) /\ <<>> \in Seq(Nat)
        BY <1>p
    <2> DEFINE h == read[b].tag # "mailto"
               f == IF read[b].tag = "a folder" THEN <<b>> ELSE <<>>
    <2>2. h \in BOOLEAN /\ f \in Seq(Nat)
        BY <2>1
    <2>3. p.anchor = [url |-> b, http |-> h, folder |-> f]
        BY <1>2, <1>5
    <2> HIDE DEF h, f
    <2>4. QED
        BY <2>1, <2>2, <2>3 DEF Anchor, Text
<1>6. p.capture \in {"h3", "a", "dd"}
    BY DEF Reads, Fields
<1>7. \A k \in 1 .. n : ~(k <= b) => k \in b + 1 .. n
    BY <1>1, <1>p
<1>8. QED
    BY <1>1, <1>2, <1>4, <1>5, <1>6, <1>7

\* The path is empty when no named list is open, and then only.
LEMMA EmptyPath ==
    ASSUME NEW path \in Seq(Text), NEW i, IsPathAt(path, i)
    PROVE  path = <<>> <=> NamedAt(i) = {}
<1>1. PICK s \in [1 .. Len(path) -> NamedAt(i)] :
          \A j \in NamedAt(i) : \E k \in 1 .. Len(path) : s[k] = j
    BY DEF IsPathAt
<1>2. Len(path) \in Nat /\ (path = <<>> <=> Len(path) = 0)
    BY EmptySeq
<1>3. CASE Len(path) = 0
    BY <1>1, <1>2, <1>3
<1>4. CASE Len(path) # 0
    <2>1. 1 \in 1 .. Len(path)
        BY <1>2, <1>4
    <2>2. s[1] \in NamedAt(i)
        BY <1>1, <2>1
    <2>3. QED
        BY <1>2, <1>4, <2>2
<1>5. QED
    BY <1>3, <1>4

\* A link is not where a heading, a note or another anchor starts.
LEMMA LinkPlaces ==
    ASSUME read \in Seq(HtmlCall), NEW n, n = Len(read)
    PROVE  /\ Links \subseteq 1 .. n
           /\ \A i \in Links : read[i].call = "start" /\ read[i].tag \in {"a", "a folder"}
           /\ \A i \in 1 .. n : read[i].call = "start" /\ read[i].tag \in {"a", "a folder"} => i \in Links
           /\ \A i : NotesOf(i) = {d \in 1 .. n : /\ read[d].call = "start" /\ read[d].tag = "dd"
                                                  /\ i < d /\ TextAt(d) # <<>> /\ Quiet(i, d - 1)}
<1>1. n \in Nat /\ DOMAIN read = 1 .. n
    BY SeqFacts
<1>2. QED
    BY <1>1 DEF Links, Starts, Is, NotesOf, Quiet

\* _flush keeps the links in order, each in its folder, and adds the one it ends.
LEMMA FlushLinks ==
    ASSUME read \in Seq(HtmlCall), NEW p, Reads(p), NEW q, q = Flush(p)
    PROVE  LinksSoFar(q) /\ \A k \in DOMAIN q.items : IsFiled(q.items[k])
<1>n. PICK n : n = Len(read)
    OBVIOUS
<1>b. PICK b : b = Begun
    OBVIOUS
<1>1. /\ p \in Fields /\ LinksSoFar(p) /\ Capturing(p) /\ p.last \in 0 .. Len(p.items)
      /\ \A k \in DOMAIN p.items : IsFiled(p.items[k])
      /\ p.capture = "a" => p.anchor \in Anchor
    BY ParserAssumption, BegunFacts DEF Reads, NotesSoFar
<1>m. PICK m : m = Len(p.items)
    OBVIOUS
<1>2. /\ p.items \in Seq(Item) /\ m \in Nat /\ DOMAIN p.items = 1 .. m
      /\ \A k \in 1 .. m : p.items[k] \in Item
      /\ p.path \in Seq(Text)
    BY <1>1, <1>m, SeqFacts DEF Fields
<1>3. q.capture # "a"
    BY <1>1, FlushFields, ParserAssumption
<1>4. /\ {p.items[k].url : k \in 1 .. m} = Links \ (IF p.capture = "a" THEN {b} ELSE {})
      /\ \A j, k \in 1 .. m : j < k => p.items[j].url < p.items[k].url
    BY <1>1, <1>2, <1>b DEF LinksSoFar
<1>5. CASE p.capture # "a"
    <2>1. /\ DOMAIN q.items = 1 .. m
          /\ \A k \in 1 .. m : q.items[k].url = p.items[k].url /\ q.items[k].path = p.items[k].path
        <3>1. CASE p.capture = "dd" /\ p.last # 0 /\ p.text # <<>>
            <4>1. p.last \in 1 .. Len(p.items)
                BY <1>1, <3>1
            <4>2. QED
                BY <1>1, <1>2, <3>1, <4>1, FlushNote
        <3>2. CASE ~(p.capture = "dd" /\ p.last # 0 /\ p.text # <<>>)
            <4>1. q.items = p.items
                BY <1>1, <1>5, <3>2, FlushOther
            <4>2. QED
                BY <1>2, <4>1
        <3>3. QED
            BY <3>1, <3>2
    <2>2. {p.items[k].url : k \in 1 .. m} = Links
        BY <1>4, <1>5
    <2>3. LinksSoFar(q)
        BY <1>3, <1>4, <2>1, <2>2 DEF LinksSoFar
    <2>4. \A k \in 1 .. m : IsFiled(q.items[k])
        BY <1>1, <1>2, <2>1 DEF IsFiled
    <2>5. QED
        BY <2>1, <2>3, <2>4
<1>6. CASE p.capture = "a"
    <2>1. /\ n \in Nat /\ b \in 1 .. n /\ read[b].call = "start" /\ read[b].tag \in Anchors
          /\ \A k \in b + 1 .. n : read[k].call = "data"
          /\ \A k \in 1 .. n : ~(k <= b) => k \in b + 1 .. n
          /\ p.anchor \in Anchor
        BY <1>6, <1>n, <1>b, ParserAssumption, BegunFacts
    <2>2. /\ p.anchor.url = b /\ (p.anchor.http <=> read[b].tag # "mailto")
          /\ p.anchor.folder = IF read[b].tag = "a folder" THEN <<b>> ELSE <<>>
          /\ IsPathAt(p.path, b)
        <3> DEFINE h == read[b].tag # "mailto"
                   f == IF read[b].tag = "a folder" THEN <<b>> ELSE <<>>
        <3>1. p.anchor = [url |-> b, http |-> h, folder |-> f] /\ IsPathAt(p.path, b)
            BY <1>1, <1>6, <1>b, ParserAssumption DEF Capturing
        <3> HIDE DEF h, f
        <3>2. p.anchor.url = b /\ p.anchor.http = h /\ p.anchor.folder = f
            BY <3>1
        <3>3. QED
            BY <3>1, <3>2 DEF h, f
    <2>3. CASE ~p.anchor.http
        <3>1. q.items = p.items
            BY <1>1, <1>6, <2>3, FlushOther, Zenon
        <3>2. b \notin Links
            BY <1>n, <2>2, <2>3, LinkPlaces
        <3>3. {p.items[k].url : k \in 1 .. m} = Links
            BY <1>4, <1>6, <3>2
        <3>4. QED
            BY <1>1, <1>2, <1>3, <1>4, <3>1, <3>3 DEF LinksSoFar
    <2>4. CASE p.anchor.http
        <3>1. PICK item \in Item :
                 /\ q.items = Append(p.items, item) /\ item.url = b
                 /\ item.path = IF p.path = <<>> /\ p.anchor.folder # <<>>
                                THEN <<p.anchor.folder>> ELSE p.path
            <4>1. \E item \in Item :
                    /\ q.items = Append(p.items, item) /\ q.last = Len(p.items) + 1
                    /\ item.url = p.anchor.url /\ item.note = <<>>
                    /\ item.path = IF p.path = <<>> /\ p.anchor.folder # <<>>
                                   THEN <<p.anchor.folder>> ELSE p.path
                BY <1>1, <1>6, <2>4, FlushLink
            <4>2. QED
                BY <2>2, <4>1
        <3>2. /\ DOMAIN q.items = 1 .. m + 1 /\ q.items[m + 1] = item
              /\ \A k \in 1 .. m : q.items[k] = p.items[k]
            BY <1>2, <1>m, <3>1, AppendProperties, SeqFacts
        <3>3. \A k \in 1 .. m + 1 : k \in 1 .. m \/ k = m + 1
            BY <1>2
        <3>4. b \in Links
            BY <1>n, <2>1, <2>2, <2>4, LinkPlaces DEF Anchors
        <3>5. ASSUME NEW i \in Links, i # b
              PROVE  i < b
            <4>1. i \in 1 .. n /\ read[i].call = "start"
                BY <1>n, LinkPlaces
            <4>2. i \notin b + 1 .. n
                BY <2>1, <4>1
            <4>3. QED
                BY <2>1, <3>5, <4>1, <4>2
        <3>6. \A k \in 1 .. m : p.items[k].url < b
            BY <1>4, <1>6, <3>5
        <3>7. {q.items[k].url : k \in 1 .. m + 1} = Links
            <4>1. \A i \in Links : i # b => \E k \in 1 .. m : p.items[k].url = i
                BY <1>4, <1>6
            <4>2. \A k \in 1 .. m : p.items[k].url \in Links
                BY <1>4, <1>6
            <4>3. m + 1 \in 1 .. m + 1 /\ 1 .. m \subseteq 1 .. m + 1
                BY <1>2
            <4>4. \A k \in 1 .. m + 1 : q.items[k].url \in Links
                BY <3>1, <3>2, <3>3, <3>4, <4>2
            <4>5. ASSUME NEW i \in Links
                  PROVE  \E k \in 1 .. m + 1 : q.items[k].url = i
                BY <3>1, <3>2, <4>1, <4>3
            <4>6. QED
                BY <4>4, <4>5
        <3>8. \A j, k \in 1 .. m + 1 : j < k => q.items[j].url < q.items[k].url
            <4>1. \A j \in 1 .. m : j < m + 1 /\ ~(m + 1 < j)
                BY <1>2
            <4>2. ~(m + 1 < m + 1)
                BY <1>2
            <4>3. QED
                BY <1>4, <3>1, <3>2, <3>3, <3>6, <4>1, <4>2
        <3>9. LinksSoFar(q)
            BY <1>3, <3>2, <3>7, <3>8 DEF LinksSoFar
        <3>10. IsFiled(item)
            <4>1. p.path = <<>> <=> NamedAt(b) = {}
                BY <1>2, <2>2, EmptyPath
            <4>2. p.anchor.folder # <<>> <=> read[b].tag = "a folder"
                <5>1. <<b>> # <<>>
                    OBVIOUS
                <5>2. QED
                    BY <2>2, <5>1
            <4>3. QED
                BY <2>2, <3>1, <4>1, <4>2 DEF IsFiled
        <3>11. QED
            BY <1>1, <1>2, <3>2, <3>3, <3>9, <3>10
    <2>5. QED
        BY <2>3, <2>4
<1>7. QED
    BY <1>5, <1>6

\* _flush gives a note to the link it describes, and only if it is the first.
LEMMA FlushNotes ==
    ASSUME read \in Seq(HtmlCall), NEW p, Reads(p), NEW q, q = Flush(p)
    PROVE  NotesSoFar(q)
<1>n. PICK n : n = Len(read)
    OBVIOUS
<1>b. PICK b : b = Begun
    OBVIOUS
<1>m. PICK m : m = Len(p.items)
    OBVIOUS
<1>1. /\ p \in Fields /\ LinksSoFar(p) /\ NotesSoFar(p) /\ p.last \in 0 .. m
      /\ p.capture = "a" => p.anchor \in Anchor
    BY <1>m, ParserAssumption, BegunFacts DEF Reads, NotesSoFar
<1>2. /\ p.items \in Seq(Item) /\ m \in Nat /\ DOMAIN p.items = 1 .. m /\ n \in Nat
    BY <1>1, <1>m, <1>n, SeqFacts DEF Fields
<1>3. q.capture = None /\ q.capture \notin {"h3", "a", "dd"}
    BY <1>1, <1>m, FlushFields, ParserAssumption
<1>4. \A i : Taken(q, i) = NotesOf(i)
    BY <1>3 DEF Taken
<1>5. \A k \in 1 .. m :
          /\ IsFirst(p.items[k].note, Taken(p, p.items[k].url))
          /\ p.capture \notin {"h3", "a"} =>
                (p.last = k <=> Quiet(p.items[k].url, n) /\ Taken(p, p.items[k].url) = {})
    BY <1>1, <1>2, <1>n DEF NotesSoFar
<1>6. \A k \in 1 .. m : p.items[k].url \in Links /\ (p.capture = "a" => p.items[k].url # b)
    BY <1>1, <1>2, <1>b DEF LinksSoFar
<1>7. ASSUME p.capture # None
      PROVE  /\ b \in 1 .. n /\ p.capture \in {"h3", "a", "dd"}
             /\ p.capture \in {"h3", "a"} => Breaks(b)
             /\ p.capture = "dd" => ~Breaks(b) /\ p.text = TextAt(b)
                                    /\ read[b].call = "start" /\ read[b].tag = "dd"
             /\ \A k \in b + 1 .. n : read[k].call = "data" /\ ~Breaks(k)
             /\ \A k \in 1 .. n : ~(k <= b) => k \in b + 1 .. n
             /\ \A k \in 1 .. m : p.items[k].url < b
             /\ p.capture = "a" => p.anchor \in Anchor /\ p.anchor.url = b
    <2>1. /\ b \in 1 .. n /\ read[b].call = "start" /\ p.capture \in {"h3", "a", "dd"}
          /\ \A k \in b + 1 .. n : read[k].call = "data"
          /\ \A k \in 1 .. n : ~(k <= b) => k \in b + 1 .. n
          /\ p.capture \in {"h3", "dd"} => read[b].tag = p.capture
          /\ p.capture = "a" => read[b].tag \in Anchors /\ p.anchor \in Anchor
          /\ p.text = TextAt(b)
        BY <1>7, <1>n, <1>b, BegunFacts
    <2>2. p.capture = "a" => p.anchor.url = b
        <3> DEFINE h == read[b].tag # "mailto"
                   f == IF read[b].tag = "a folder" THEN <<b>> ELSE <<>>
        <3>1. p.capture = "a" => p.anchor = [url |-> b, http |-> h, folder |-> f]
            BY <1>7, <1>b DEF Reads, Capturing
        <3> HIDE DEF h, f
        <3>2. QED
            BY <3>1
    <2>3. \A k \in b + 1 .. n : ~Breaks(k)
        BY <2>1 DEF Breaks, Is
    <2>4. p.capture \in {"h3", "a"} => Breaks(b)
        BY <2>1 DEF Breaks
    <2>5. p.capture = "dd" => ~Breaks(b)
        BY <2>1 DEF Breaks, Is, Anchors
    <2>6. ASSUME NEW k \in 1 .. m
          PROVE  p.items[k].url < b
        <3>1. PICK i : i = p.items[k].url
            OBVIOUS
        <3>2. i \in 1 .. n /\ read[i].call = "start" /\ read[i].tag \in {"a", "a folder"}
            BY <1>6, <1>n, <3>1, LinkPlaces
        <3>3. i # b
            BY <1>6, <2>1, <3>1, <3>2
        <3>4. i \notin b + 1 .. n
            BY <2>1, <3>2
        <3>5. i <= b
            BY <2>1, <3>2, <3>4
        <3>6. b \in 1 .. n /\ i \in 1 .. n
            BY <2>1, <3>2
        <3>7. i < b
            BY <3>3, <3>5, <3>6
        <3>8. QED
            BY <3>1, <3>7
    <2>7. QED
        BY <2>1, <2>2, <2>3, <2>4, <2>5, <2>6
\* A heading or an anchor ends the description of every item before it.
<1>8. ASSUME p.capture \in {"h3", "a"}, NEW k \in 1 .. m
      PROVE  /\ IsFirst(p.items[k].note, NotesOf(p.items[k].url))
             /\ ~Quiet(p.items[k].url, n)
    <2>1. p.capture # None /\ p.capture # "dd"
        BY <1>8, ParserAssumption
    <2>2. IsFirst(p.items[k].note, NotesOf(p.items[k].url))
        BY <1>5, <2>1 DEF Taken
    <2>3. p.items[k].url \in 1 .. n
        BY <1>6, <1>n, LinkPlaces
    <2>4. b \in p.items[k].url + 1 .. n
        BY <1>2, <1>7, <2>1, <2>3
    <2>5. QED
        BY <1>7, <1>8, <2>1, <2>2, <2>4 DEF Quiet
<1>9. CASE p.capture = None
    <2>1. q.items = p.items /\ q.last = p.last
        BY <1>1, <1>9, FlushOther, ParserAssumption
    <2>2. \A i : Taken(p, i) = NotesOf(i)
        BY <1>9, ParserAssumption DEF Taken
    <2>3. p.capture \notin {"h3", "a"}
        BY <1>9, ParserAssumption
    <2>4. \A k \in DOMAIN q.items :
              /\ IsFirst(q.items[k].note, Taken(q, q.items[k].url))
              /\ q.last = k <=> Quiet(q.items[k].url, Len(read)) /\ Taken(q, q.items[k].url) = {}
        BY ZenonT(60), <1>2, <1>4, <1>5, <1>n, <2>1, <2>2, <2>3
    <2>5. QED
        BY <1>1, <1>m, <2>1, <2>4 DEF NotesSoFar
<1>10. CASE p.capture = "h3" \/ (p.capture = "a" /\ ~p.anchor.http)
    <2>1. p.capture \in {"h3", "a"} /\ p.capture # "dd"
        BY <1>10
    <2>2. q.items = p.items /\ q.last = 0
        <3>1. p.capture # "a" \/ (p.anchor \in Anchor /\ ~p.anchor.http)
            BY <1>1, <1>10
        <3>2. QED
            BY <1>1, <2>1, <3>1, FlushOther
    <2>3. \A k \in 1 .. m : q.last # k
        BY <2>2
    <2>4. 0 \in 0 .. m
        BY <1>2
    <2>5. QED
        BY <1>2, <1>4, <1>8, <1>m, <1>n, <2>1, <2>2, <2>3, <2>4 DEF NotesSoFar
<1>11. CASE p.capture = "a" /\ p.anchor.http
    <2>1. p.capture # None /\ p.capture \in {"h3", "a"}
        BY <1>11, ParserAssumption
    <2>2. PICK item \in Item : /\ q.items = Append(p.items, item) /\ q.last = m + 1
                               /\ item.url = b /\ item.note = <<>>
        <3>1. p.anchor.url = b /\ p.anchor \in Anchor
            BY <1>7, <1>11, <2>1
        <3>2. \E item \in Item :
                 /\ q.items = Append(p.items, item) /\ q.last = Len(p.items) + 1
                 /\ item.url = p.anchor.url /\ item.note = <<>>
                 /\ item.path = IF p.path = <<>> /\ p.anchor.folder # <<>>
                                THEN <<p.anchor.folder>> ELSE p.path
            BY <1>1, <1>11, <3>1, FlushLink
        <3>3. QED
            BY <1>m, <3>1, <3>2
    <2>3. /\ Len(q.items) = m + 1 /\ DOMAIN q.items = 1 .. m + 1 /\ q.items[m + 1] = item
          /\ \A k \in 1 .. m : q.items[k] = p.items[k]
        BY <1>2, <1>m, <2>2, AppendProperties, SeqFacts
    <2>4. NotesOf(b) = {}
        <3>1. \A d \in NotesOf(b) : d \in 1 .. n /\ read[d].call = "start" /\ b < d
            BY ZenonT(60), <1>n, LinkPlaces
        <3>2. \A d \in NotesOf(b) : d \in b + 1 .. n
            BY <1>2, <1>7, <2>1, <3>1
        <3>3. QED
            BY <1>7, <2>1, <3>1, <3>2
    <2>5. Quiet(b, n)
        BY <1>7, <2>1 DEF Quiet
    <2>6. IsFirst(item.note, NotesOf(item.url))
        BY <2>2, <2>4 DEF IsFirst
    <2>7. \A k \in 1 .. m + 1 : k \in 1 .. m \/ k = m + 1
        BY <1>2
    <2>8. \A k \in 1 .. m : m + 1 # k
        BY <1>2
    <2>9. q.last \in 0 .. Len(q.items)
        BY <1>2, <2>2, <2>3
    <2>10. \A k \in 1 .. m + 1 :
               /\ IsFirst(q.items[k].note, NotesOf(q.items[k].url))
               /\ q.last = k <=> Quiet(q.items[k].url, n) /\ NotesOf(q.items[k].url) = {}
        BY <1>8, <2>1, <2>2, <2>3, <2>4, <2>5, <2>6, <2>7, <2>8
    <2>11. \A k \in DOMAIN q.items :
              /\ IsFirst(q.items[k].note, Taken(q, q.items[k].url))
              /\ q.last = k <=> Quiet(q.items[k].url, Len(read)) /\ Taken(q, q.items[k].url) = {}
        BY <1>4, <1>n, <2>3, <2>10
    <2>12. QED
        BY <2>9, <2>11 DEF NotesSoFar
\* A text describes no item whose description has ended or has a note.
<1>12. ASSUME p.capture = "dd", NEW k \in 1 .. m, p.last # k \/ p.text = <<>>
       PROVE  /\ IsFirst(p.items[k].note, NotesOf(p.items[k].url))
              /\ p.last = k <=> Quiet(p.items[k].url, n) /\ NotesOf(p.items[k].url) = {}
    <2>1. PICK i : i = p.items[k].url
        OBVIOUS
    <2>2. p.capture # None /\ p.capture \notin {"h3", "a"}
        BY <1>12, ParserAssumption
    <2>3. Taken(p, i) = NotesOf(i) \ {b}
        BY <1>12, <1>b DEF Taken
    <2>4. IsFirst(p.items[k].note, NotesOf(i) \ {b})
          /\ (p.last = k <=> Quiet(i, n) /\ NotesOf(i) \ {b} = {})
        BY <1>5, <2>1, <2>2, <2>3
    <2>5. CASE b \notin NotesOf(i)
        <3>1. NotesOf(i) \ {b} = NotesOf(i)
            BY <2>5
        <3>2. QED
            BY <2>1, <2>4, <3>1
    <2>6. CASE b \in NotesOf(i)
        <3>1. TextAt(b) # <<>> /\ Quiet(i, b - 1) /\ i < b /\ i \in 1 .. n
            <4>1. i \in Links
                BY <1>6, <2>1
            <4>2. i \in 1 .. n
                BY <1>n, <4>1, LinkPlaces
            <4>3. b \in {d \in 1 .. n : /\ read[d].call = "start" /\ read[d].tag = "dd"
                                        /\ i < d /\ TextAt(d) # <<>> /\ Quiet(i, d - 1)}
                BY <1>n, <2>6, LinkPlaces
            <4>4. QED
                BY <4>2, <4>3
        <3>2. p.last # k
            BY <1>7, <1>12, <2>2, <3>1
        <3>3. Quiet(i, n)
            <4>1. ASSUME NEW j \in i + 1 .. n
                  PROVE  ~Breaks(j)
                <5>1. j \in i + 1 .. b - 1 \/ j = b \/ j \in b + 1 .. n
                    BY <1>2, <1>7, <2>2, <3>1
                <5>2. QED
                    BY <1>7, <1>12, <2>2, <3>1, <5>1 DEF Quiet
            <4>2. QED
                BY <4>1 DEF Quiet
        <3>4. NotesOf(i) \ {b} # {}
            BY <2>4, <3>2, <3>3
        <3>5. PICK d \in NotesOf(i) \ {b} :
                  p.items[k].note = TextAt(d) /\ \A e \in NotesOf(i) \ {b} : d <= e
            BY <2>4, <3>4 DEF IsFirst
        <3>6. d <= b
            <4>1. d \in 1 .. n /\ read[d].call = "start"
                BY ZenonT(60), <1>n, <3>5, LinkPlaces
            <4>2. d \notin b + 1 .. n
                BY <1>7, <2>2, <4>1
            <4>3. QED
                BY <1>7, <2>2, <4>1, <4>2
        <3>7. IsFirst(p.items[k].note, NotesOf(i))
            BY <3>5, <3>6 DEF IsFirst
        <3>8. QED
            BY <2>1, <2>6, <3>2, <3>7
    <2>7. QED
        BY <2>5, <2>6
<1>13. CASE p.capture = "dd" /\ (p.last = 0 \/ p.text = <<>>)
    <2>1. q.items = p.items /\ q.last = p.last
        BY <1>1, <1>13, FlushOther
    <2>2. \A k \in 1 .. m : 0 # k
        OBVIOUS
    <2>3. QED
        BY ZenonT(60), <1>1, <1>2, <1>4, <1>12, <1>13, <1>m, <1>n, <2>1, <2>2 DEF NotesSoFar
<1>14. CASE p.capture = "dd" /\ p.last # 0 /\ p.text # <<>>
    <2>l. PICK l : l = p.last
        OBVIOUS
    <2>1. l \in 1 .. m /\ p.last = l /\ p.capture # None /\ p.capture \notin {"h3", "a"}
        BY <1>1, <1>2, <1>14, <2>l, ParserAssumption
    <2>2. /\ q \in Fields /\ q.last = 0
          /\ DOMAIN q.items = DOMAIN p.items
          /\ \A k \in DOMAIN p.items :
                 /\ q.items[k].url = p.items[k].url /\ q.items[k].path = p.items[k].path
                 /\ q.items[k].note = IF k = p.last THEN p.text ELSE p.items[k].note
        BY <1>1, <1>14, <1>m, <2>1, FlushNote
    <2>3. PICK i : i = p.items[l].url
        OBVIOUS
    <2>4. Taken(p, i) = NotesOf(i) \ {b}
        BY <1>14, <1>b DEF Taken
    <2>5. Quiet(i, n) /\ NotesOf(i) \ {b} = {}
        BY <1>5, <2>1, <2>3, <2>4
    <2>6. i < b /\ i \in 1 .. n
        BY <1>6, <1>7, <1>n, <2>1, <2>3, LinkPlaces
    <2>7. b \in NotesOf(i)
        <3>1. Quiet(i, b - 1)
            <4>1. \A j \in i + 1 .. b - 1 : j \in i + 1 .. n
                BY <1>2, <1>7, <2>1
            <4>2. QED
                BY <2>5, <4>1 DEF Quiet
        <3>2. TextAt(b) # <<>> /\ read[b].call = "start" /\ read[b].tag = "dd" /\ b \in 1 .. n
            BY <1>7, <1>14, <2>1
        <3>3. QED
            BY <1>n, <2>6, <3>1, <3>2, LinkPlaces
    <2>8. NotesOf(i) = {b} /\ p.text = TextAt(b)
        BY <1>7, <1>14, <2>1, <2>5, <2>7
    <2>9. IsFirst(p.text, NotesOf(i)) /\ NotesOf(i) # {}
        <3>1. b <= b
            BY <1>7, <2>1
        <3>2. QED
            BY <2>8, <3>1 DEF IsFirst
    <2>10. \A k \in 1 .. m : q.last # k
        BY <2>2
    <2>11. \A k \in 1 .. m :
               /\ IsFirst(q.items[k].note, NotesOf(q.items[k].url))
               /\ ~(Quiet(q.items[k].url, n) /\ NotesOf(q.items[k].url) = {})
        <3>1. ASSUME NEW k \in 1 .. m, k # l
              PROVE  /\ IsFirst(q.items[k].note, NotesOf(q.items[k].url))
                     /\ ~(Quiet(q.items[k].url, n) /\ NotesOf(q.items[k].url) = {})
            BY <1>2, <1>12, <1>14, <2>1, <2>2, <3>1
        <3>2. q.items[l].note = p.text /\ q.items[l].url = i
            BY <1>2, <2>1, <2>2, <2>3
        <3>3. QED
            BY <2>9, <3>1, <3>2
    <2>12. q.last \in 0 .. Len(q.items)
        <3>1. q.items \in Seq(Item)
            BY <2>2 DEF Fields
        <3>2. QED
            BY <2>2, <3>1, SeqFacts
    <2>13. DOMAIN q.items = 1 .. m
        BY <1>2, <2>2
    <2>14. QED
        BY <1>4, <1>n, <2>10, <2>11, <2>12, <2>13 DEF NotesSoFar
<1>15. p.capture \in {None, "h3", "a", "dd"}
    BY <1>1 DEF Fields
<1>16. QED
    BY <1>9, <1>10, <1>11, <1>13, <1>14, <1>15

\* _flush leaves the parser with what it has read, and captures nothing.
LEMMA FlushReads ==
    ASSUME read \in Seq(HtmlCall), NEW p, Reads(p), NEW q, q = Flush(p)
    PROVE  Reads(q) /\ q.capture = None /\ q.text = <<>>
<1>1. /\ p \in Fields /\ p.last \in 0 .. Len(p.items)
      /\ p.capture = "a" => p.anchor \in Anchor
    BY ParserAssumption, BegunFacts DEF Reads, NotesSoFar
<1>2. /\ q \in Fields /\ q.capture = None /\ q.text = <<>>
      /\ q.path = p.path /\ q.opened = p.opened
      /\ q.pending = IF p.capture = "h3" THEN p.text ELSE p.pending
    BY <1>1, FlushFields
<1>3. LinksSoFar(q) /\ \A k \in DOMAIN q.items : IsFiled(q.items[k])
    BY FlushLinks
<1>4. NotesSoFar(q)
    BY FlushNotes
<1>5. Stacked(q) /\ IsPathAt(q.path, Len(read) + 1)
    BY <1>2 DEF Reads, Stacked
<1>6. Capturing(q)
    BY <1>2 DEF Capturing
<1>7. HeadingKept(q)
    <2>1. q.capture # "h3"
        BY <1>2, ParserAssumption
    <2>2. QED
        BY <1>2, <2>1 DEF Reads, HeadingKept
<1>8. QED
    BY <1>2, <1>3, <1>4, <1>5, <1>6, <1>7 DEF Reads

-----------------------------------------------------------------------------
(* One more call *)

\* What the parser has read stays right when the file goes on.
LEMMA ItemsStay ==
    ASSUME read \in Seq(HtmlCall), NEW n, n = Len(read),
           NEW e \in HtmlCall, read' = Append(read, e), NEW q, Reads(q)
    PROVE  /\ \A k \in DOMAIN q.items : q.items[k].url \in 1 .. n /\ q.items[k].url \in Links
           /\ (\A k \in DOMAIN q.items : IsFiled(q.items[k]))'
           /\ q.capture # "a" => {q.items[k].url : k \in DOMAIN q.items} = Links
<1>1. \A k \in DOMAIN q.items : q.items[k].url \in Links
    BY DEF Reads, LinksSoFar
<1>2. \A k \in DOMAIN q.items : q.items[k].url \in 1 .. n
    BY <1>1, LinkPlaces
<1>3. \A k \in DOMAIN q.items : IsFiled(q.items[k])' <=> IsFiled(q.items[k])
    BY <1>2, PathsKept
<1>4. (\A k \in DOMAIN q.items : IsFiled(q.items[k]))'
    BY <1>3 DEF Reads
<1>5. q.capture # "a" => {q.items[k].url : k \in DOMAIN q.items} = Links
    BY DEF Reads, LinksSoFar
<1>6. QED
    BY <1>1, <1>2, <1>4, <1>5

\* What is no list leaves the stack as it is.
LEMMA StackStays ==
    ASSUME read \in Seq(HtmlCall), NEW n, n = Len(read),
           NEW e \in HtmlCall, read' = Append(read, e), e.tag # "dl",
           NEW q, Stacked(q), NEW r, r.opened = q.opened
    PROVE  Stacked(r)'
<1>1. PICK st \in Seq(Nat) : IsStack(st, q.opened)
    BY DEF Stacked
<1>2. n \in Nat /\ Len(read') = n + 1 /\ n + 1 + 1 = n + 2
    BY Grown
<1>3. OpenLists(n + 2)' = OpenLists(n + 1) /\ OpenLists(n + 1) \subseteq 1 .. n
    <2>1. n + 1 \in 1 .. n + 1
        BY <1>2
    <2>2. OpenLists(n + 1) \subseteq 1 .. n
        BY <2>1, NamesGrow
    <2>3. QED
        BY <2>2, ListsKept
<1>4. /\ Len(st) = Len(q.opened)
      /\ \A j, k \in 1 .. Len(st) : j < k => st[j] < st[k]
      /\ {st[k] : k \in 1 .. Len(st)} = OpenLists(n + 1)
      /\ \A k \in 1 .. Len(st) :
            /\ q.opened[k] <=> NameOf(st[k]) # <<>>
            /\ Counts("start", st[k] + 1, n) = Counts("end", st[k] + 1, n) + Len(st) - k
    BY <1>1 DEF IsStack
<1>5. ASSUME NEW k \in 1 .. Len(st)
      PROVE  /\ NameOf(st[k])' = NameOf(st[k])
             /\ Counts("start", st[k] + 1, n + 1)' = Counts("start", st[k] + 1, n)
             /\ Counts("end", st[k] + 1, n + 1)' = Counts("end", st[k] + 1, n)
    <2>1. st[k] \in 1 .. n
        BY <1>3, <1>4
    <2>2. st[k] + 1 \in 1 .. n + 1 /\ st[k] + 1 \in Nat
        BY <1>2, <2>1
    <2>3. Counts("start", st[k] + 1, n) \in Nat /\ Counts("end", st[k] + 1, n) \in Nat
        BY <1>2, <2>2, CountsGrow
    <2>4. NameOf(st[k])' = NameOf(st[k])
        BY <2>1, NamesGrow
    <2>5. Counts("start", st[k] + 1, n + 1)' = Counts("start", st[k] + 1, n) + 0
        BY <2>2, CountsGrow
    <2>6. Counts("end", st[k] + 1, n + 1)' = Counts("end", st[k] + 1, n) + 0
        BY <2>2, CountsGrow
    <2>7. QED
        BY <2>3, <2>4, <2>5, <2>6
<1>6. {st[k] : k \in 1 .. Len(st)} = OpenLists(n + 2)'
    BY <1>3, <1>4
<1>7. IsStack(st, r.opened)'
    BY <1>2, <1>4, <1>5, <1>6 DEF IsStack
<1>8. QED
    BY <1>7 DEF Stacked

\* The heading that would name the next list.
LEMMA HeadingGrows ==
    ASSUME read \in Seq(HtmlCall), NEW n, n = Len(read),
           NEW e \in HtmlCall, read' = Append(read, e)
    PROVE  /\ e.call = "start" /\ e.tag = "dl" => NameOf(n + 2)' = <<>>
           /\ e.call = "start" /\ e.tag = "h3" => NameOf(n + 2)' = <<>>
           /\ e.call # "data" /\ ~(e.call = "start" /\ e.tag \in {"dl", "h3"})
                  => NameOf(n + 2)' = NameOf(n + 1)
           /\ e.call = "data" /\ n \notin Starts("h3") => NameOf(n + 2)' = NameOf(n + 1)
           /\ e.call = "data" /\ n \in Starts("h3") => NameOf(n + 2)' = TextAt(n)'
<1>m. PICK m : m = n + 2
    OBVIOUS
<1>1. n \in Nat
    BY Grown
<1>2. /\ Starts("h3") \subseteq 1 .. n /\ Starts("dl") \subseteq 1 .. n
      /\ Starts("h3")' = Starts("h3") \cup {i \in {n + 1} : e.call = "start" /\ e.tag = "h3"}
      /\ Starts("dl")' = Starts("dl") \cup {i \in {n + 1} : e.call = "start" /\ e.tag = "dl"}
    BY StartsGrow
<1>3. CASE e.call = "start" /\ e.tag = "dl"
    <2>1. n + 1 \in Starts("dl")' /\ \A h \in Starts("h3")' : h \in 1 .. n
        BY <1>2, <1>3
    <2>2. Headings(m)' = {}
        BY <1>1, <1>m, <2>1 DEF Headings
    <2>3. QED
        BY <1>3, <1>m, <2>2 DEF NameOf
<1>4. CASE e.call = "start" /\ e.tag = "h3"
    <2>1. n + 1 \in Starts("h3")' /\ Starts("dl")' \subseteq 1 .. n /\ Starts("h3")' \subseteq 1 .. n + 1
        BY <1>1, <1>2, <1>4
    <2>2. PICK S : S = Headings(m)'
        OBVIOUS
    <2>3. n + 1 \in S /\ S \subseteq 1 .. n + 1
        BY <1>1, <1>m, <2>1, <2>2 DEF Headings
    <2>4. Max(S) \in S /\ \A g \in S : g <= Max(S)
        <3>1. n + 1 \in Nat /\ S \in SUBSET (1 .. n + 1) /\ S # {}
            BY <1>1, <2>3
        <3>2. QED
            BY <3>1, MaxOf
    <2>5. Max(S) = n + 1
        <3>1. Max(S) \in 1 .. n + 1 /\ n + 1 <= Max(S)
            BY <2>3, <2>4
        <3>2. QED
            BY <1>1, <3>1
    <2>6. NameOf(m)' = TextAt(n + 1)'
        BY <2>2, <2>3, <2>5 DEF NameOf
    <2>7. TextAt(n + 1)' = <<>>
        BY TextsGrow
    <2>8. QED
        BY <1>4, <1>m, <2>6, <2>7
<1>5. CASE ~(e.call = "start" /\ e.tag \in {"dl", "h3"})
    <2>1. Starts("h3")' = Starts("h3") /\ Starts("dl")' = Starts("dl")
        BY <1>2, <1>5
    <2>2. PICK S : S = Headings(n + 1)
        OBVIOUS
    <2>3. Headings(m)' = S /\ S \subseteq Starts("h3") /\ S \subseteq 1 .. n
        BY <1>1, <1>2, <1>m, <2>1, <2>2 DEF Headings
    <2>4. CASE S = {}
        <3>1. NameOf(m)' = <<>> /\ NameOf(n + 1) = <<>>
            BY <2>2, <2>3, <2>4 DEF NameOf
        <3>2. n \notin Starts("h3")
            BY <1>1, <1>2, <2>2, <2>4 DEF Headings, Starts, Is
        <3>3. QED
            BY <1>5, <1>m, <3>1, <3>2
    <2>5. CASE S # {}
        <3>h. PICK h : h = Max(S)
            OBVIOUS
        <3>1. h \in S /\ (\A g \in S : g <= h) /\ h \in 1 .. n
            BY <1>1, <2>3, <2>5, <3>h, MaxOf
        <3>2. NameOf(m)' = TextAt(h)' /\ NameOf(n + 1) = TextAt(h)
            BY <2>2, <2>3, <2>5, <3>h DEF NameOf
        <3>3. h < n => TextAt(h)' = TextAt(h)
            BY <3>1, TextsGrow
        <3>4. e.call # "data" => TextAt(h)' = TextAt(h)
            BY <1>1, <3>1, <3>3, TextsGrow
        <3>5. n \notin Starts("h3") => h < n
            BY <1>1, <2>3, <3>1
        <3>6. n \in Starts("h3") => h = n
            <4>1. n \in Starts("h3") => n \in S
                BY <1>1, <1>2, <2>2 DEF Headings, Starts, Is
            <4>2. QED
                BY <1>1, <3>1, <4>1
        <3>7. QED
            BY <1>5, <1>m, <3>2, <3>3, <3>4, <3>5, <3>6
    <2>6. QED
        BY <2>4, <2>5
<1>6. QED
    BY <1>3, <1>4, <1>5

\* The note of a link stays its first one.
LEMMA FirstStays ==
    ASSUME read \in Seq(HtmlCall), NEW n, n = Len(read),
           NEW e \in HtmlCall, read' = Append(read, e), NEW i \in 1 .. n,
           NEW r, NEW note, NEW T, T = Taken(r, i)', T \subseteq NotesOf(i)
    PROVE  IsFirst(note, Taken(r, i))' <=> IsFirst(note, T)
<1>1. \A d \in T : TextAt(d)' = TextAt(d)
    BY NotesGrow
<1>2. QED
    BY <1>1 DEF IsFirst

\* What a call that is neither of a list nor of a text starts to capture.
Begins(r, e, n) ==
    \/ r.capture = None /\ ~(e.call = "start" /\ e.tag \in Anchors \cup {"h3"})
    \/ r.capture \in {"h3", "dd"} /\ e.call = "start" /\ e.tag = r.capture
    \/ /\ r.capture = "a" /\ e.call = "start" /\ e.tag \in Anchors
       /\ r.anchor = [url |-> n + 1, http |-> e.tag # "mailto",
                      folder |-> IF e.tag = "a folder" THEN <<n + 1>> ELSE <<>>]

\* What can be said of a call from what is captured after it.
LEMMA BeginsWhat ==
    ASSUME NEW r, NEW e, NEW n, Begins(r, e, n)
    PROVE  /\ r.capture \in {None, "h3", "dd", "a"}
           /\ r.capture \in {"h3", "dd"} => r.capture # "a" /\ e.call = "start" /\ e.tag = r.capture
           /\ r.capture = "a" => e.call = "start" /\ e.tag \in Anchors
           /\ r.capture # "a" => ~(e.call = "start" /\ e.tag \in {"a", "a folder"})
           /\ r.capture # "h3" /\ e.tag # "dl" => ~(e.call = "start" /\ e.tag \in {"dl", "h3"})
           /\ r.capture \notin {"h3", "a"} => ~(e.call = "start" /\ e.tag \in Anchors \cup {"h3"})
    BY ParserAssumption DEF Begins, Anchors

\* The place of the next call.
LEMMA Positions ==
    ASSUME NEW n \in Nat
    PROVE  /\ n + 1 \in 1 .. n + 1 /\ n + 1 \in Nat /\ n + 1 \notin 1 .. n
           /\ n + 1 + 1 = n + 2 /\ n + 1 - 1 = n
    OBVIOUS

\* A call adds itself to the links, if it is one.
LEMMA LinksGrow ==
    ASSUME read \in Seq(HtmlCall), NEW n, n = Len(read),
           NEW e \in HtmlCall, read' = Append(read, e)
    PROVE  /\ Links' = Links \cup {i \in {n + 1} : e.call = "start" /\ e.tag \in {"a", "a folder"}}
           /\ n + 1 \notin Links
<1>1. n \in Nat /\ Links \subseteq 1 .. n
    BY Grown, LinkPlaces
<1>2. /\ Starts("a")' = Starts("a") \cup {i \in {n + 1} : e.call = "start" /\ e.tag = "a"}
      /\ Starts("a folder")' = Starts("a folder")
             \cup {i \in {n + 1} : e.call = "start" /\ e.tag = "a folder"}
    <2>1. \A tag : Starts(tag)' = Starts(tag) \cup {i \in {n + 1} : e.call = "start" /\ e.tag = tag}
        BY StartsGrow
    <2>2. QED
        BY <2>1
<1>3. n + 1 \notin Links
    BY <1>1
<1>4. QED
    BY <1>2, <1>3 DEF Links

\* A call that is neither of a list nor of a text, after _flush.
LEMMA OtherCall ==
    ASSUME read \in Seq(HtmlCall), NEW n, n = Len(read),
           NEW e \in HtmlCall, read' = Append(read, e), e.tag # "dl", e.call # "data",
           NEW q, Reads(q), q.capture = None,
           NEW r \in Fields, r.items = q.items, r.path = q.path, r.opened = q.opened,
           r.pending = q.pending, r.last = q.last, r.text = <<>>,
           Begins(r, e, n)
    PROVE  Reads(r)'
<1>1. /\ n \in Nat /\ Len(read') = n + 1 /\ DOMAIN read' = 1 .. n + 1
      /\ read'[n + 1] = e /\ Last(read') = e /\ n + 1 \in 1 .. n + 1 /\ n + 1 + 1 = n + 2
    <2>1. /\ n \in Nat /\ Len(read') = n + 1 /\ DOMAIN read' = 1 .. n + 1
          /\ read'[n + 1] = e /\ Last(read') = e
        BY Grown
    <2>2. n + 1 \in 1 .. n + 1 /\ n + 1 + 1 = n + 2
        BY <2>1, Positions
    <2>3. QED
        BY <2>1, <2>2
<1>2. Begun' = n + 1
    BY <1>1 DEF Begun
<1>h. None # "h3" /\ None # "a" /\ None # "dd" /\ q.capture \notin {"h3", "a", "dd"}
    BY ParserAssumption
<1>3. /\ q \in Fields /\ IsPathAt(q.path, n + 1) /\ Stacked(q)
      /\ NameOf(n + 1) = q.pending
    BY <1>h DEF Reads, HeadingKept
<1>4. Capturing(r)'
    <2>1. TextAt(n + 1)' = <<>>
        BY TextsGrow
    <2>2. IsPathAt(q.path, n + 1)'
        BY <1>1, <1>3, PathsKept
    <2>3. CASE r.capture = None
        BY <2>3 DEF Capturing
    <2>4. CASE r.capture \in {"h3", "dd"}
        <3>1. r.capture # "a" /\ e.call = "start" /\ e.tag = r.capture
            BY <2>4, BeginsWhat
        <3>2. QED
            BY <1>1, <1>2, <2>1, <3>1 DEF Capturing
    <2>5. CASE r.capture = "a"
        <3>1. /\ e.call = "start" /\ e.tag \in Anchors
              /\ r.anchor = [url |-> n + 1, http |-> e.tag # "mailto",
                             folder |-> IF e.tag = "a folder" THEN <<n + 1>> ELSE <<>>]
            BY <1>h, <2>5 DEF Begins
        <3>2. r.capture \notin {"h3", "dd"}
            BY <2>5
        <3>3. QED
            BY <1>1, <1>2, <2>1, <2>2, <3>1, <3>2, <2>5 DEF Capturing
    <2>6. QED
        BY <2>3, <2>4, <2>5, BeginsWhat
<1>5. LinksSoFar(r)'
    <2>1. /\ {q.items[k].url : k \in DOMAIN q.items} = Links
          /\ \A j, k \in DOMAIN q.items : j < k => q.items[j].url < q.items[k].url
        BY <1>h, ItemsStay DEF Reads, LinksSoFar
    <2>2. Links' = Links \cup {i \in {n + 1} : e.call = "start" /\ e.tag \in {"a", "a folder"}}
        BY LinksGrow
    <2>3. n + 1 \notin Links
        BY LinksGrow
    <2>4. Links = Links' \ (IF r.capture = "a" THEN {n + 1} ELSE {})
        <3>1. CASE r.capture = "a"
            BY <2>2, <2>3, <3>1
        <3>2. CASE r.capture # "a"
            <4>1. ~(e.call = "start" /\ e.tag \in {"a", "a folder"})
                BY <3>2, BeginsWhat
            <4>2. QED
                BY <2>2, <3>2, <4>1
        <3>3. QED
            BY <3>1, <3>2
    <2>5. /\ {r.items[k].url : k \in DOMAIN r.items}
                 = Links' \ (IF r.capture = "a" THEN {Begun'} ELSE {})
          /\ \A j, k \in DOMAIN r.items : j < k => r.items[j].url < r.items[k].url
        BY <1>2, <2>1, <2>4
    <2>6. QED
        BY <2>5 DEF LinksSoFar
<1>6. (\A k \in DOMAIN r.items : IsFiled(r.items[k]))'
    BY ItemsStay
<1>7. Stacked(r)'
    BY <1>3, StackStays
<1>8. IsPathAt(r.path, Len(read) + 1)'
    BY <1>1, <1>3, ListsKept
<1>9. HeadingKept(r)'
    <2>1. CASE r.capture = "h3"
        <3>1. e.call = "start" /\ e.tag = "h3"
            BY <2>1, BeginsWhat
        <3>1a. NameOf(n + 2)' = <<>>
            BY <3>1, HeadingGrows
        <3>2. QED
            BY <1>1, <2>1, <3>1a DEF HeadingKept
    <2>2. CASE r.capture # "h3"
        <3>1. ~(e.call = "start" /\ e.tag \in {"dl", "h3"})
            BY <2>2, BeginsWhat
        <3>2. NameOf(n + 2)' = NameOf(n + 1)
            BY <3>1, HeadingGrows
        <3>3. QED
            BY <1>1, <1>3, <2>2, <3>2 DEF HeadingKept
    <2>3. QED
        BY <2>1, <2>2
<1>10. NotesSoFar(r)'
    <2>1. /\ q.last \in 0 .. Len(q.items)
          /\ \A k \in DOMAIN q.items :
                /\ IsFirst(q.items[k].note, NotesOf(q.items[k].url))
                /\ q.last = k <=> Quiet(q.items[k].url, n) /\ NotesOf(q.items[k].url) = {}
        BY <1>h DEF Reads, NotesSoFar, Taken
    <2>2. ASSUME NEW k \in DOMAIN q.items, NEW i, i = q.items[k].url
          PROVE  /\ IsFirst(q.items[k].note, Taken(r, i))'
                 /\ r.capture \notin {"h3", "a"} =>
                       (q.last = k <=> Quiet(i, n + 1)' /\ Taken(r, i)' = {})
        <3>1. i \in 1 .. n
            BY <2>2, ItemsStay
        <3>2. NotesOf(i)' = NotesOf(i) /\ n + 1 \notin NotesOf(i)
            <4>1. NotesOf(i)' = NotesOf(i) /\ NotesOf(i) \subseteq 1 .. n
                BY <3>1, NotesGrow
            <4>2. n + 1 \notin 1 .. n
                BY <1>1, Positions
            <4>3. QED
                BY <4>1, <4>2
        <3>3. Taken(r, i)' = NotesOf(i)
            BY <1>2, <3>2 DEF Taken
        <3>4. IsFirst(q.items[k].note, Taken(r, i))'
            BY <2>1, <2>2, <3>1, <3>3, FirstStays
        <3>5. ASSUME r.capture \notin {"h3", "a"}
              PROVE  ~Breaks(n + 1)'
            <4>1. ~(e.call = "start" /\ e.tag \in Anchors \cup {"h3"})
                BY <3>5, BeginsWhat
            <4>2. QED
                BY <1>1, <4>1 DEF Breaks, Is
        <3>6. r.capture \notin {"h3", "a"} => (Quiet(i, n + 1)' <=> Quiet(i, n))
            BY <3>1, <3>5, QuietGrows
        <3>7. QED
            BY <2>1, <2>2, <3>3, <3>4, <3>6
    <2>3. QED
        BY <1>1, <2>1, <2>2 DEF NotesSoFar
<1>11. QED
    BY <1>4, <1>5, <1>6, <1>7, <1>8, <1>9, <1>10 DEF Reads

\* The text of what is being captured.
LEMMA TextCall ==
    ASSUME read \in Seq(HtmlCall), NEW n, n = Len(read), Last(read).call # "data",
           NEW e \in HtmlCall, read' = Append(read, e), e.tag # "dl", e.call = "data",
           NEW p, Reads(p), p.capture # None,
           NEW r \in Fields, r.items = p.items, r.path = p.path, r.opened = p.opened,
           r.pending = p.pending, r.last = p.last, r.capture = p.capture,
           r.anchor = p.anchor, r.text = p.text \o <<n + 1>>
    PROVE  Reads(r)'
<1>1. /\ n \in Nat /\ Len(read') = n + 1 /\ DOMAIN read' = 1 .. n + 1 /\ n + 1 \in 1 .. n + 1
      /\ read'[n + 1] = e /\ Last(read') = e /\ n + 1 + 1 = n + 2 /\ n + 1 - 1 = n
      /\ \A i \in 1 .. n : read'[i] = read[i]
    BY Grown
<1>2. Begun = n /\ Begun' = n
    BY <1>1 DEF Begun
<1>3. /\ n \in 1 .. n /\ read[n].call = "start"
      /\ p.capture \in {"h3", "a", "dd"}
      /\ p.capture \in {"h3", "dd"} => read[n].tag = p.capture
      /\ p.capture = "a" => read[n].tag \in Anchors
      /\ p.text = TextAt(n)
    BY <1>2, BegunFacts
<1>4. TextAt(n) = <<>> /\ TextAt(n)' = <<n + 1>> /\ r.text = <<n + 1>>
    <2>1. TextAt(n) = <<>> /\ TextAt(n)' = <<n + 1>>
        <3>1. TextAt(n) = <<>>
            BY TextsGrow
        <3>2. n < Len(read') /\ read'[n + 1].call = "data"
            BY <1>1
        <3>3. QED
            BY <3>1, <3>2 DEF TextAt
    <2>2. <<>> \o <<n + 1>> = <<n + 1>>
        OBVIOUS
    <2>3. QED
        BY <1>3, <2>1, <2>2
<1>5. /\ Capturing(p) /\ IsPathAt(p.path, n + 1) /\ Stacked(p)
      /\ NameOf(n + 1) = IF p.capture = "h3" THEN p.text ELSE p.pending
    BY DEF Reads, HeadingKept
<1>6. Capturing(r)'
    <2>1. IsPathAt(p.path, n)' <=> IsPathAt(p.path, n)
        BY <1>1, <1>3, PathsKept
    <2>2. n \in DOMAIN read' /\ read'[n] = read[n]
        BY <1>1, <1>3
    <2>3. QED
        BY <1>2, <1>4, <1>5, <2>1, <2>2 DEF Capturing
<1>7. LinksSoFar(r)'
    <2>1. Links' = Links
        BY StartsGrow DEF Links
    <2>2. QED
        BY <1>2, <2>1 DEF LinksSoFar, Reads
<1>8. (\A k \in DOMAIN r.items : IsFiled(r.items[k]))'
    BY ItemsStay
<1>9. Stacked(r)'
    BY <1>5, StackStays
<1>10. IsPathAt(r.path, Len(read) + 1)'
    BY <1>1, <1>5, ListsKept
<1>11. n \in Starts("h3") <=> p.capture = "h3"
    <2>1. DOMAIN read = 1 .. n
        BY SeqFacts
    <2>2. QED
        BY <1>3, <2>1 DEF Starts, Is, Anchors
<1>12. HeadingKept(r)'
    <2>1. NameOf(n + 2)' = IF p.capture = "h3" THEN TextAt(n)' ELSE NameOf(n + 1)
        BY <1>11, HeadingGrows
    <2>2. QED
        BY <1>1, <1>4, <1>5, <2>1 DEF HeadingKept
<1>13. NotesSoFar(r)'
    <2>1. /\ p.last \in 0 .. Len(p.items)
          /\ \A k \in DOMAIN p.items :
                /\ IsFirst(p.items[k].note, Taken(p, p.items[k].url))
                /\ p.capture \notin {"h3", "a"} =>
                      (p.last = k <=> Quiet(p.items[k].url, n) /\ Taken(p, p.items[k].url) = {})
        BY DEF Reads, NotesSoFar
    <2>2. ASSUME NEW k \in DOMAIN p.items, NEW i, i = p.items[k].url
          PROVE  /\ IsFirst(p.items[k].note, Taken(r, i))'
                 /\ r.capture \notin {"h3", "a"} =>
                       (p.last = k <=> Quiet(i, n + 1)' /\ Taken(r, i)' = {})
        <3>1. i \in 1 .. n
            BY <2>2, ItemsStay
        <3>2. /\ NotesOf(i)' \ {n} = NotesOf(i) /\ n \notin NotesOf(i)
              /\ n \notin Starts("dd") => NotesOf(i)' = NotesOf(i)
            <4>1. /\ NotesOf(i)' \ {n} = NotesOf(i) /\ \A d \in NotesOf(i) : d < n
                  /\ n \notin Starts("dd") => NotesOf(i)' = NotesOf(i)
                BY <3>1, NotesGrow
            <4>2. QED
                BY <1>1, <4>1
        <3>3. n \in Starts("dd") => p.capture = "dd"
            BY <1>3 DEF Starts, Is, Anchors
        <3>4. Taken(r, i)' = NotesOf(i) /\ Taken(p, i) = NotesOf(i)
            BY <1>2, <3>2, <3>3 DEF Taken
        <3>5. IsFirst(p.items[k].note, Taken(r, i))'
            BY <2>1, <2>2, <3>1, <3>4, FirstStays
        <3>6. ~Breaks(n + 1)'
            BY <1>1 DEF Breaks, Is
        <3>7. Quiet(i, n + 1)' <=> Quiet(i, n)
            BY <3>1, <3>6, QuietGrows
        <3>8. QED
            BY <2>1, <2>2, <3>4, <3>5, <3>7
    <2>3. QED
        BY <1>1, <2>1, <2>2 DEF NotesSoFar
<1>14. QED
    BY <1>6, <1>7, <1>8, <1>9, <1>10, <1>12, <1>13 DEF Reads

\* What Front takes away.
LEMMA FrontFacts ==
    ASSUME NEW S, NEW s \in Seq(S), s # <<>>
    PROVE  /\ Front(s) \in Seq(S) /\ Len(s) \in Nat \ {0} /\ Len(Front(s)) = Len(s) - 1
           /\ \A i \in 1 .. Len(s) - 1 : Front(s)[i] = s[i]
<1>1. Len(s) \in Nat \ {0} /\ \A i \in 1 .. Len(s) : s[i] \in S
    BY EmptySeq, SeqFacts
<1>2. PICK m : m = Len(s) - 1
    OBVIOUS
<1>3. 1 \in Int /\ m \in Int /\ (\A i \in 1 .. m : s[i] \in S) /\ m - 1 + 1 = m
    BY <1>1, <1>2
<1>4. /\ SubSeq(s, 1, m) \in Seq(S) /\ Len(SubSeq(s, 1, m)) = IF 1 <= m THEN m - 1 + 1 ELSE 0
      /\ \A i \in 1 .. m - 1 + 1 : SubSeq(s, 1, m)[i] = s[1 + i - 1]
    BY <1>3, SubSeqProperties
<1>5. \A i \in 1 .. m : 1 + i - 1 = i
    BY <1>3
<1>6. QED
    BY <1>1, <1>2, <1>3, <1>4, <1>5 DEF Front

\* What makes a path, after a call.
LEMMA MakesPath ==
    ASSUME NEW m, NEW path, NEW l, l = Len(path),
           NEW S, S = NamedAt(m)', NEW s \in [1 .. l -> S],
           \A i \in S : \E k \in 1 .. l : s[k] = i,
           \A j, k \in 1 .. l : j < k => s[j] < s[k],
           \A k \in 1 .. l : path[k] = NameOf(s[k])'
    PROVE  IsPathAt(path, m)'
    BY DEF IsPathAt

\* A call of a list leaves open before it what was, and counts once.
LEMMA Balanced ==
    ASSUME read \in Seq(HtmlCall), NEW n, n = Len(read),
           NEW e \in HtmlCall, read' = Append(read, e), e.tag = "dl", NEW i \in 1 .. n
    PROVE  /\ Counts("end", i + 1, n) \in Nat /\ Counts("start", i + 1, n) \in Nat
           /\ i \in OpenLists(n + 1) => Counts("end", i + 1, n) <= Counts("start", i + 1, n)
           /\ i \in OpenLists(n + 2)' <=>
                  /\ i \in OpenLists(n + 1)
                  /\ Counts("end", i + 1, n + 1)' <= Counts("start", i + 1, n + 1)'
           /\ Counts("end", i + 1, n + 1)' =
                  Counts("end", i + 1, n) + (IF e.call = "end" THEN 1 ELSE 0)
           /\ Counts("start", i + 1, n + 1)' =
                  Counts("start", i + 1, n) + (IF e.call = "start" THEN 1 ELSE 0)
<1>1. n \in Nat
    BY Grown
<1>2. i + 1 \in 1 .. n + 1 /\ i + 1 \in Nat
    BY <1>1
<1>3. /\ Counts("end", i + 1, n) \in Nat /\ Counts("start", i + 1, n) \in Nat
      /\ Counts("end", i + 1, n + 1)' = Counts("end", i + 1, n) + (IF e.call = "end" THEN 1 ELSE 0)
      /\ Counts("start", i + 1, n + 1)' =
             Counts("start", i + 1, n) + (IF e.call = "start" THEN 1 ELSE 0)
    BY <1>1, <1>2, CountsGrow
<1>4. \A k \in i + 1 .. n : i + 1 \in Nat /\ k \in Nat /\ i + 1 >= 1 /\ k <= n
    BY <1>1
<1>5. \A k \in i + 1 .. n :
          /\ Counts("end", i + 1, k)' = Counts("end", i + 1, k)
          /\ Counts("start", i + 1, k)' = Counts("start", i + 1, k)
    BY <1>4, CountsGrow
<1>6. i \in Starts("dl")' <=> i \in Starts("dl")
    <2>1. Starts("dl")' = Starts("dl") \cup {j \in {n + 1} : e.call = "start" /\ e.tag = "dl"}
        BY StartsGrow
    <2>2. i # n + 1
        BY <1>1
    <2>3. QED
        BY <2>1, <2>2
<1>7. \A k : k \in i + 1 .. n + 1 <=> k \in i + 1 .. n \/ k = n + 1
    BY <1>1
<1>8. n + 2 - 1 = n + 1 /\ n + 1 - 1 = n /\ i < n + 1 /\ i < n + 2
    BY <1>1
<1>m. PICK m : m = n + 2
    OBVIOUS
<1>9. i \in OpenLists(n + 1) <=>
          /\ i \in Starts("dl")
          /\ \A k \in i + 1 .. n : Counts("end", i + 1, k) <= Counts("start", i + 1, k)
    BY <1>8 DEF OpenLists
<1>10. i \in OpenLists(m)' <=>
          /\ i \in Starts("dl")'
          /\ \A k \in i + 1 .. n + 1 : Counts("end", i + 1, k)' <= Counts("start", i + 1, k)'
    BY <1>8, <1>m DEF OpenLists
<1>11. i \in OpenLists(m)' <=>
          /\ i \in OpenLists(n + 1)
          /\ Counts("end", i + 1, n + 1)' <= Counts("start", i + 1, n + 1)'
    BY <1>5, <1>6, <1>7, <1>9, <1>10
<1>12. ASSUME i \in OpenLists(n + 1)
       PROVE  Counts("end", i + 1, n) <= Counts("start", i + 1, n)
    <2>1. CASE i = n
        <3>1. Counts("end", i + 1, n) = 0 /\ Counts("start", i + 1, n) = 0
            BY <1>1, <2>1, NoneCounted
        <3>2. QED
            BY <3>1
    <2>2. CASE i < n
        <3>1. n \in i + 1 .. n
            BY <1>1, <2>2
        <3>2. QED
            BY <1>9, <1>12, <3>1
    <2>3. QED
        BY <1>1, <2>1, <2>2
<1>13. QED
    BY <1>3, <1>11, <1>12, <1>m

\* The lists that are open after one more opens,
LEMMA OpensOne ==
    ASSUME read \in Seq(HtmlCall), NEW n, n = Len(read),
           NEW e \in HtmlCall, read' = Append(read, e), e.tag = "dl", e.call = "start"
    PROVE  /\ OpenLists(n + 2)' = OpenLists(n + 1) \cup {n + 1}
           /\ NamedAt(n + 2)' = NamedAt(n + 1) \cup {i \in {n + 1} : NameOf(n + 1) # <<>>}
           /\ OpenLists(n + 1) \subseteq 1 .. n
           /\ \A i \in 1 .. n + 1 : NameOf(i)' = NameOf(i)
<1>1. n \in Nat
    BY Grown
<1>2. n + 1 \in 1 .. n + 1 /\ n + 1 \notin 1 .. n
    BY <1>1, Positions
<1>3. OpenLists(n + 1) \subseteq 1 .. n
    BY <1>2, NamesGrow
<1>4. \A i \in 1 .. n + 1 : NameOf(i)' = NameOf(i)
    <2>1. (\A i \in 1 .. n : NameOf(i)' = NameOf(i)) /\ NameOf(n + 1)' = NameOf(n + 1)
        BY NamesGrow
    <2>2. \A i \in 1 .. n + 1 : i \in 1 .. n \/ i = n + 1
        BY <1>1
    <2>3. QED
        BY <2>1, <2>2
<1>m. PICK m : m = n + 2
    OBVIOUS
<1>5. Starts("dl")' = Starts("dl") \cup {n + 1} /\ Starts("dl") \subseteq 1 .. n
    <2>1. /\ Starts("dl")' = Starts("dl") \cup {j \in {n + 1} : e.call = "start" /\ e.tag = "dl"}
          /\ Starts("dl") \subseteq 1 .. n
        BY StartsGrow
    <2>2. {j \in {n + 1} : e.call = "start" /\ e.tag = "dl"} = {n + 1}
        OBVIOUS
    <2>3. QED
        BY <2>1, <2>2
<1>6. \A i \in 1 .. n : i \in OpenLists(m)' <=> i \in OpenLists(n + 1)
    <2>1. ASSUME NEW i \in 1 .. n
          PROVE  i \in OpenLists(m)' <=> i \in OpenLists(n + 1)
        <3>1. /\ i \in OpenLists(m)' <=>
                  /\ i \in OpenLists(n + 1)
                  /\ Counts("end", i + 1, n + 1)' <= Counts("start", i + 1, n + 1)'
              /\ Counts("end", i + 1, n + 1)' = Counts("end", i + 1, n) + (IF e.call = "end" THEN 1 ELSE 0)
              /\ Counts("start", i + 1, n + 1)' =
                     Counts("start", i + 1, n) + (IF e.call = "start" THEN 1 ELSE 0)
              /\ Counts("end", i + 1, n) \in Nat /\ Counts("start", i + 1, n) \in Nat
              /\ i \in OpenLists(n + 1) => Counts("end", i + 1, n) <= Counts("start", i + 1, n)
            BY <1>m, Balanced
        <3>2. (IF e.call = "end" THEN 1 ELSE 0) = 0 /\ (IF e.call = "start" THEN 1 ELSE 0) = 1
            OBVIOUS
        <3>3. QED
            BY <3>1, <3>2
    <2>2. QED
        BY <2>1
<1>7. n + 1 \in OpenLists(m)' /\ OpenLists(m)' \subseteq Starts("dl")'
    <2>1. n + 1 < m /\ \A k : k \notin n + 1 + 1 .. m - 1
        BY <1>1, <1>m
    <2>2. QED
        BY <1>5, <2>1 DEF OpenLists
<1>8. OpenLists(m)' = OpenLists(n + 1) \cup {n + 1}
    BY <1>3, <1>5, <1>6, <1>7
<1>9. NamedAt(m)' = NamedAt(n + 1) \cup {i \in {n + 1} : NameOf(n + 1) # <<>>}
    <2>1. \A i : i \in OpenLists(n + 1) \cup {n + 1} => NameOf(i)' = NameOf(i)
        BY <1>2, <1>3, <1>4
    <2>2. QED
        BY <1>8, <2>1 DEF NamedAt
<1>10. QED
    BY <1>3, <1>4, <1>8, <1>9, <1>m

\* What no list call changes but the path: the items, and what may still annotate them.
LEMMA ListCall ==
    ASSUME read \in Seq(HtmlCall), NEW n, n = Len(read),
           NEW e \in HtmlCall, read' = Append(read, e), e.tag = "dl", e.call \in {"start", "end"},
           NEW q, Reads(q), q.capture = None,
           NEW r \in Fields, r.items = q.items, r.capture = None, r.last = 0
    PROVE  /\ Capturing(r)' /\ LinksSoFar(r)' /\ NotesSoFar(r)'
           /\ (\A k \in DOMAIN r.items : IsFiled(r.items[k]))'
<1>1. /\ n \in Nat /\ Len(read') = n + 1 /\ DOMAIN read' = 1 .. n + 1 /\ read'[n + 1] = e
    BY Grown
<1>h. None # "h3" /\ None # "a" /\ None # "dd"
    BY ParserAssumption
<1>2. Capturing(r)'
    BY DEF Capturing
<1>3. LinksSoFar(r)'
    <2>1. /\ {q.items[k].url : k \in DOMAIN q.items} = Links
          /\ \A j, k \in DOMAIN q.items : j < k => q.items[j].url < q.items[k].url
        BY <1>h, ItemsStay DEF Reads, LinksSoFar
    <2>2. Links' = Links \cup {i \in {n + 1} : e.call = "start" /\ e.tag \in {"a", "a folder"}}
        BY LinksGrow
    <2>3. Links' = Links
        BY <2>2
    <2>4. QED
        BY <1>h, <2>1, <2>3 DEF LinksSoFar
<1>4. (\A k \in DOMAIN r.items : IsFiled(r.items[k]))'
    BY ItemsStay
<1>5. NotesSoFar(r)'
    <2>1. /\ q.items \in Seq(Item)
          /\ \A k \in DOMAIN q.items : IsFirst(q.items[k].note, NotesOf(q.items[k].url))
        BY <1>h DEF Reads, NotesSoFar, Taken, Fields
    <2>2. Len(q.items) \in Nat /\ DOMAIN q.items = 1 .. Len(q.items)
        BY <2>1, SeqFacts
    <2>3. ASSUME NEW k \in DOMAIN q.items, NEW i, i = q.items[k].url
          PROVE  IsFirst(q.items[k].note, Taken(r, i))' /\ ~Quiet(i, n + 1)'
        <3>1. i \in 1 .. n
            BY <2>3, ItemsStay
        <3>2. NotesOf(i)' = NotesOf(i)
            <4>1. e.call # "data"
                OBVIOUS
            <4>2. QED
                BY <3>1, <4>1, NotesGrow
        <3>3. Taken(r, i)' = NotesOf(i)
            BY <1>h, <3>2 DEF Taken
        <3>4. IsFirst(q.items[k].note, Taken(r, i))'
            BY <2>1, <2>3, <3>1, <3>3, FirstStays
        <3>5. Breaks(n + 1)'
            BY <1>1 DEF Breaks, Is
        <3>6. QED
            BY <3>1, <3>4, <3>5, QuietGrows
    <2>4. 0 \in 0 .. Len(q.items) /\ \A k \in DOMAIN q.items : 0 # k
        BY <2>2
    <2>5. QED
        BY <1>1, <2>3, <2>4 DEF NotesSoFar
<1>6. QED
    BY <1>2, <1>3, <1>4, <1>5

\* A list that opens is the innermost one,
LEMMA OpenStack ==
    ASSUME read \in Seq(HtmlCall), NEW n, n = Len(read),
           NEW e \in HtmlCall, read' = Append(read, e), e.tag = "dl", e.call = "start",
           NEW q, Stacked(q), q.opened \in Seq(BOOLEAN),
           NEW named \in BOOLEAN, named <=> NameOf(n + 1) # <<>>,
           NEW r, r.opened = Append(q.opened, named)
    PROVE  Stacked(r)'
<1>h1. n \in Nat /\ Len(read') = n + 1 /\ n + 1 + 1 = n + 2 /\ n + 1 \in 1 .. n + 1 /\ n + 1 \in Nat
    <2>1. n \in Nat /\ Len(read') = n + 1
        BY Grown
    <2>2. QED
        BY <2>1, Positions
<1>h4. /\ OpenLists(n + 2)' = OpenLists(n + 1) \cup {n + 1}
       /\ NamedAt(n + 2)' = NamedAt(n + 1) \cup {i \in {n + 1} : NameOf(n + 1) # <<>>}
       /\ OpenLists(n + 1) \subseteq 1 .. n
       /\ \A i \in 1 .. n + 1 : NameOf(i)' = NameOf(i)
    BY SMTT(30), OpensOne
<1>1. PICK st \in Seq(Nat) : IsStack(st, q.opened)
    BY DEF Stacked
<1>2. /\ Len(st) = Len(q.opened)
      /\ \A j, k \in 1 .. Len(st) : j < k => st[j] < st[k]
      /\ {st[k] : k \in 1 .. Len(st)} = OpenLists(n + 1)
      /\ \A k \in 1 .. Len(st) :
            /\ q.opened[k] <=> NameOf(st[k]) # <<>>
            /\ Counts("start", st[k] + 1, n) = Counts("end", st[k] + 1, n) + Len(st) - k
    BY <1>1 DEF IsStack
<1>l. PICK l : l = Len(st)
    OBVIOUS
<1>3. PICK tt : tt = Append(st, n + 1)
    OBVIOUS
<1>4. /\ l \in Nat /\ tt \in Seq(Nat) /\ Len(tt) = l + 1 /\ tt[l + 1] = n + 1
      /\ \A k \in 1 .. l : tt[k] = st[k]
    BY <1>h1, <1>3, <1>l, AppendProperties, SeqFacts
<1>5. /\ Len(r.opened) = l + 1 /\ r.opened[l + 1] = named
      /\ \A k \in 1 .. l : r.opened[k] = q.opened[k]
    <2>1. /\ Len(Append(q.opened, named)) = Len(q.opened) + 1
          /\ \A k \in 1 .. Len(q.opened) : Append(q.opened, named)[k] = q.opened[k]
          /\ Append(q.opened, named)[Len(q.opened) + 1] = named
        BY AppendProperties
    <2>2. QED
        BY <1>2, <1>l, <2>1
<1>6. ASSUME NEW k \in 1 .. l
      PROVE  /\ st[k] \in 1 .. n /\ NameOf(st[k])' = NameOf(st[k])
             /\ Counts("start", st[k] + 1, n + 1)' =
                    Counts("end", st[k] + 1, n + 1)' + (l + 1) - k
    <2>1. st[k] \in OpenLists(n + 1)
        BY <1>2, <1>l
    <2>2. st[k] \in 1 .. n /\ st[k] \in 1 .. n + 1
        BY <1>h1, <1>h4, <2>1
    <2>3. /\ Counts("end", st[k] + 1, n + 1)' =
                 Counts("end", st[k] + 1, n) + (IF e.call = "end" THEN 1 ELSE 0)
          /\ Counts("start", st[k] + 1, n + 1)' =
                 Counts("start", st[k] + 1, n) + (IF e.call = "start" THEN 1 ELSE 0)
          /\ Counts("end", st[k] + 1, n) \in Nat /\ Counts("start", st[k] + 1, n) \in Nat
        BY <2>2, Balanced
    <2>4. (IF e.call = "end" THEN 1 ELSE 0) = 0 /\ (IF e.call = "start" THEN 1 ELSE 0) = 1
        OBVIOUS
    <2>5. Counts("start", st[k] + 1, n) = Counts("end", st[k] + 1, n) + l - k
        BY <1>2, <1>l
    <2>6. Counts("start", st[k] + 1, n + 1)' = Counts("end", st[k] + 1, n + 1)' + (l + 1) - k
        BY <1>4, <2>3, <2>4, <2>5
    <2>7. QED
        BY <1>h4, <2>2, <2>6
<1>7. /\ Counts("start", n + 1 + 1, n + 1)' = 0 /\ Counts("end", n + 1 + 1, n + 1)' = 0
      /\ NameOf(n + 1)' = NameOf(n + 1)
    <2>1. \A call : {j \in n + 1 + 1 .. n + 1 : Is(j, call, "dl")}' = {}
        BY <1>h1
    <2>2. \A call : Counts(call, n + 1 + 1, n + 1)' = 0
        BY <2>1, FS_EmptySet DEF Counts
    <2>3. QED
        BY <1>h1, <1>h4, <2>2
<1>8. \A k \in 1 .. l + 1 : k \in 1 .. l \/ k = l + 1
    BY <1>4
<1>9. \A j, k \in 1 .. l + 1 : j < k => tt[j] < tt[k]
    <2>1. ASSUME NEW j \in 1 .. l + 1, NEW k \in 1 .. l + 1, j < k
          PROVE  tt[j] < tt[k]
        <3>1. j \in 1 .. l /\ tt[j] = st[j] /\ st[j] \in 1 .. n
            BY SMTT(30), <1>4, <1>6, <2>1
        <3>2. CASE k \in 1 .. l
            BY <1>2, <1>4, <1>l, <2>1, <3>1, <3>2
        <3>3. CASE k = l + 1
            BY <1>h1, <1>4, <3>1, <3>3
        <3>4. QED
            BY <1>8, <3>2, <3>3
    <2>2. QED
        BY <2>1
<1>10. {tt[k] : k \in 1 .. l + 1} = OpenLists(n + 2)'
    <2>1. {tt[k] : k \in 1 .. l + 1} = {st[k] : k \in 1 .. l} \cup {n + 1}
        <3>1. \A k \in 1 .. l + 1 : tt[k] \in {st[j] : j \in 1 .. l} \cup {n + 1}
            BY <1>4, <1>8
        <3>2. \A k \in 1 .. l : k \in 1 .. l + 1 /\ tt[k] = st[k]
            BY <1>4
        <3>3. l + 1 \in 1 .. l + 1 /\ tt[l + 1] = n + 1
            BY <1>4
        <3>4. QED
            BY <3>1, <3>2, <3>3
    <2>2. QED
        BY <1>h4, <1>2, <1>l, <2>1
<1>11. \A k \in 1 .. l + 1 :
          /\ r.opened[k] <=> NameOf(tt[k])' # <<>>
          /\ Counts("start", tt[k] + 1, n + 1)' = Counts("end", tt[k] + 1, n + 1)' + (l + 1) - k
    <2>1. ASSUME NEW k \in 1 .. l
          PROVE  /\ r.opened[k] <=> NameOf(tt[k])' # <<>>
                 /\ Counts("start", tt[k] + 1, n + 1)'
                        = Counts("end", tt[k] + 1, n + 1)' + (l + 1) - k
        <3>1. tt[k] = st[k] /\ r.opened[k] = q.opened[k]
            BY <1>4, <1>5
        <3>2. q.opened[k] <=> NameOf(st[k]) # <<>>
            BY <1>2, <1>l
        <3>3. r.opened[k] <=> NameOf(tt[k])' # <<>>
            BY <1>6, <3>1, <3>2
        <3>4. QED
            BY <1>6, <3>1, <3>3
    <2>2. /\ r.opened[l + 1] <=> NameOf(tt[l + 1])' # <<>>
          /\ Counts("start", tt[l + 1] + 1, n + 1)'
                 = Counts("end", tt[l + 1] + 1, n + 1)' + (l + 1) - (l + 1)
        <3>1. 0 = 0 + (l + 1) - (l + 1)
            BY <1>4
        <3>2. QED
            BY <1>4, <1>5, <1>7, <3>1
    <2>3. QED
        BY <1>8, <2>1, <2>2
<1>12. IsStack(tt, r.opened)'
    BY <1>h1, <1>4, <1>5, <1>9, <1>10, <1>11 DEF IsStack
<1>13. QED
    BY <1>4, <1>12 DEF Stacked

\* and, when it has a name, the end of the path.
LEMMA OpenPath ==
    ASSUME read \in Seq(HtmlCall), NEW n, n = Len(read),
           NEW e \in HtmlCall, read' = Append(read, e), e.tag = "dl", e.call = "start",
           NEW path \in Seq(Text), IsPathAt(path, n + 1), NEW name \in Text, name = NameOf(n + 1)
    PROVE  IsPathAt(IF name # <<>> THEN Append(path, name) ELSE path, n + 2)'
<1>h1. n \in Nat /\ Len(read') = n + 1 /\ n + 1 + 1 = n + 2 /\ n + 1 \in 1 .. n + 1 /\ n + 1 \in Nat
    <2>1. n \in Nat /\ Len(read') = n + 1
        BY Grown
    <2>2. QED
        BY <2>1, Positions
<1>h4. /\ OpenLists(n + 2)' = OpenLists(n + 1) \cup {n + 1}
       /\ NamedAt(n + 2)' = NamedAt(n + 1) \cup {i \in {n + 1} : NameOf(n + 1) # <<>>}
       /\ OpenLists(n + 1) \subseteq 1 .. n
       /\ \A i \in 1 .. n + 1 : NameOf(i)' = NameOf(i)
    BY ZenonT(30), OpensOne
<1>m. PICK m : m = n + 2
    OBVIOUS
<1>S. PICK S : S = NamedAt(n + 1)
    OBVIOUS
<1>l. PICK l : l = Len(path)
    OBVIOUS
<1>1. PICK s \in [1 .. l -> S] :
          /\ \A i \in S : \E k \in 1 .. l : s[k] = i
          /\ \A j, k \in 1 .. l : j < k => s[j] < s[k]
          /\ \A k \in 1 .. l : path[k] = NameOf(s[k])
    <2>1. IsPathAt(path, n + 1)
        OBVIOUS
    <2>2. QED
        BY <2>1, <1>S, <1>l DEF IsPathAt
<1>2. S \subseteq 1 .. n /\ \A i \in S : NameOf(i)' = NameOf(i)
    BY <1>h1, <1>h4, <1>S DEF NamedAt
<1>3. l \in Nat
    BY <1>l, SeqFacts
<1>p. \A k \in 1 .. l : path[k] = NameOf(s[k])'
    <2>1. ASSUME NEW k \in 1 .. l
          PROVE  path[k] = NameOf(s[k])'
        <3>1. s[k] \in S /\ path[k] = NameOf(s[k])
            BY <1>1
        <3>2. QED
            BY <1>2, <3>1
    <2>2. QED
        BY <2>1
<1>4. CASE name = <<>>
    <2>1. NamedAt(m)' = S
        BY <1>h4, <1>4, <1>m, <1>S
    <2>2. IsPathAt(path, m)'
        BY <1>1, <1>l, <1>p, <2>1, MakesPath
    <2>3. QED
        BY <1>h1, <1>4, <1>m, <2>2
<1>5. CASE name # <<>>
    <2>1. PICK T : T = S \cup {n + 1}
        OBVIOUS
    <2>2. T = NamedAt(m)'
        BY <1>h4, <1>5, <1>m, <1>S, <2>1
    <2>3. PICK long : long = Append(path, name)
        OBVIOUS
    <2>4. /\ Len(long) = l + 1 /\ long[l + 1] = name
          /\ \A k \in 1 .. l : long[k] = path[k]
        BY <1>l, <2>3, AppendProperties
    <2>5. PICK t : t = [k \in 1 .. l + 1 |-> IF k = l + 1 THEN n + 1 ELSE s[k]]
        OBVIOUS
    <2>6. \A k \in 1 .. l + 1 : k \in 1 .. l \/ k = l + 1
        BY <1>3
    <2>7. \A k \in 1 .. l : k \in 1 .. l + 1 /\ k # l + 1
        BY <1>3
    <2>8. t \in [1 .. l + 1 -> T]
        BY <1>1, <2>1, <2>5, <2>6
    <2>9. t[l + 1] = n + 1 /\ (\A k \in 1 .. l : t[k] = s[k]) /\ l + 1 \in 1 .. l + 1
        BY <1>3, <2>5, <2>7
    <2>10. \A i \in T : \E k \in 1 .. l + 1 : t[k] = i
        BY <1>1, <2>1, <2>7, <2>9
    <2>11. \A j, k \in 1 .. l + 1 : j < k => t[j] < t[k]
        <3>1. ASSUME NEW j \in 1 .. l + 1, NEW k \in 1 .. l + 1, j < k
              PROVE  t[j] < t[k]
            <4>1. j \in 1 .. l
                BY <1>3, <3>1
            <4>2. t[j] = s[j] /\ s[j] \in 1 .. n
                BY <1>1, <1>2, <2>9, <4>1
            <4>3. CASE k \in 1 .. l
                BY <1>1, <2>9, <3>1, <4>1, <4>2, <4>3
            <4>4. CASE k = l + 1
                BY <1>h1, <2>9, <4>2, <4>4
            <4>5. QED
                BY <2>6, <4>3, <4>4
        <3>2. QED
            BY <3>1
    <2>12. \A k \in 1 .. l + 1 : long[k] = NameOf(t[k])'
        <3>1. NameOf(n + 1)' = name
            BY <1>h1, <1>h4
        <3>2. \A k \in 1 .. l : long[k] = NameOf(t[k])'
            BY <1>p, <2>4, <2>9
        <3>3. long[l + 1] = NameOf(t[l + 1])'
            BY <2>4, <2>9, <3>1
        <3>4. QED
            BY <2>6, <3>2, <3>3
    <2>13. IsPathAt(long, m)'
        <3>1. PICK h : h = l + 1
            OBVIOUS
        <3>2. /\ h = Len(long) /\ T = NamedAt(m)' /\ t \in [1 .. h -> T]
              /\ \A i \in T : \E k \in 1 .. h : t[k] = i
              /\ \A j, k \in 1 .. h : j < k => t[j] < t[k]
              /\ \A k \in 1 .. h : long[k] = NameOf(t[k])'
            BY <2>2, <2>4, <2>8, <2>10, <2>11, <2>12, <3>1
        <3>3. QED
            BY <3>2 DEF IsPathAt
    <2>14. QED
        BY <1>h1, <1>5, <1>m, <2>3, <2>13
<1>6. QED
    BY <1>4, <1>5

\* <DL>: the list has the name of the heading before it.
LEMMA OpenCall ==
    ASSUME read \in Seq(HtmlCall), NEW n, n = Len(read),
           NEW e \in HtmlCall, read' = Append(read, e), e.tag = "dl", e.call = "start",
           NEW q, Reads(q), q.capture = None,
           NEW r \in Fields, r.items = q.items, r.capture = None, r.last = 0, r.pending = <<>>,
           r.opened = Append(q.opened, q.pending # <<>>),
           r.path = IF q.pending # <<>> THEN Append(q.path, q.pending) ELSE q.path
    PROVE  Reads(r)'
<1>1. n \in Nat /\ Len(read') = n + 1 /\ n + 1 + 1 = n + 2 /\ n + 1 \in 1 .. n + 1 /\ n + 1 \in Nat
    <2>1. n \in Nat /\ Len(read') = n + 1
        BY Grown
    <2>2. QED
        BY <2>1, Positions
<1>2. /\ Capturing(r)' /\ LinksSoFar(r)' /\ NotesSoFar(r)'
      /\ (\A k \in DOMAIN r.items : IsFiled(r.items[k]))'
    BY ListCall
<1>h. None # "h3"
    BY ParserAssumption
<1>3. /\ Stacked(q) /\ IsPathAt(q.path, n + 1) /\ NameOf(n + 1) = q.pending
      /\ q.opened \in Seq(BOOLEAN) /\ q.path \in Seq(Text) /\ q.pending \in Text
    BY <1>h DEF Reads, HeadingKept, Fields
<1>4. /\ OpenLists(n + 2)' = OpenLists(n + 1) \cup {n + 1}
      /\ NamedAt(n + 2)' = NamedAt(n + 1) \cup {i \in {n + 1} : NameOf(n + 1) # <<>>}
      /\ OpenLists(n + 1) \subseteq 1 .. n
      /\ \A i \in 1 .. n + 1 : NameOf(i)' = NameOf(i)
    BY OpensOne
<1>5. HeadingKept(r)'
    <2>1. NameOf(n + 2)' = <<>>
        BY HeadingGrows
    <2>2. QED
        BY <1>1, <1>h, <2>1 DEF HeadingKept
<1>6. Stacked(r)'
    <2>1. PICK named \in BOOLEAN : named = (q.pending # <<>>)
        OBVIOUS
    <2>2. r.opened = Append(q.opened, named) /\ (named <=> NameOf(n + 1) # <<>>)
        BY <1>3, <2>1
    <2>3. QED
        BY <1>3, <2>2, OpenStack
<1>7. IsPathAt(r.path, Len(read) + 1)'
    <2>1. IsPathAt(r.path, n + 2)'
        BY <1>3, OpenPath
    <2>2. QED
        BY <1>1, <2>1
<1>8. QED
    BY <1>2, <1>5, <1>6, <1>7 DEF Reads

\* </DL>: a list stays open if something was left open in it, and no name changes.
LEMMA ClosesOne ==
    ASSUME read \in Seq(HtmlCall), NEW n, n = Len(read),
           NEW e \in HtmlCall, read' = Append(read, e), e.tag = "dl", e.call = "end"
    PROVE  /\ n \in Nat /\ n + 1 \in 1 .. n + 1 /\ Len(read') = n + 1 /\ n + 1 + 1 = n + 2
           /\ OpenLists(n + 1) \subseteq 1 .. n /\ OpenLists(n + 2)' \subseteq 1 .. n
           /\ \A i \in 1 .. n : NameOf(i)' = NameOf(i)
           /\ \A i \in 1 .. n :
                 /\ Counts("end", i + 1, n) \in Nat /\ Counts("start", i + 1, n) \in Nat
                 /\ Counts("end", i + 1, n + 1)' = Counts("end", i + 1, n) + 1
                 /\ Counts("start", i + 1, n + 1)' = Counts("start", i + 1, n)
                 /\ i \in OpenLists(n + 2)' <=>
                        /\ i \in OpenLists(n + 1)
                        /\ Counts("end", i + 1, n) + 1 <= Counts("start", i + 1, n)
<1>1. n \in Nat /\ Len(read') = n + 1
    BY Grown
<1>2. n + 1 \in 1 .. n + 1 /\ n + 1 + 1 = n + 2
    BY <1>1, Positions
<1>3. OpenLists(n + 1) \subseteq 1 .. n /\ \A i \in 1 .. n : NameOf(i)' = NameOf(i)
    BY <1>2, NamesGrow
<1>m. PICK m : m = n + 2
    OBVIOUS
<1>4. OpenLists(m)' \subseteq 1 .. n
    <2>1. /\ Starts("dl")' = Starts("dl") \cup {j \in {n + 1} : e.call = "start" /\ e.tag = "dl"}
          /\ Starts("dl") \subseteq 1 .. n
        BY StartsGrow
    <2>2. {j \in {n + 1} : e.call = "start" /\ e.tag = "dl"} = {}
        OBVIOUS
    <2>3. Starts("dl")' \subseteq 1 .. n
        BY <2>1, <2>2
    <2>4. QED
        BY <2>3 DEF OpenLists
<1>5. ASSUME NEW i \in 1 .. n
      PROVE  /\ Counts("end", i + 1, n) \in Nat /\ Counts("start", i + 1, n) \in Nat
             /\ Counts("end", i + 1, n + 1)' = Counts("end", i + 1, n) + 1
             /\ Counts("start", i + 1, n + 1)' = Counts("start", i + 1, n)
             /\ i \in OpenLists(m)' <=>
                    /\ i \in OpenLists(n + 1)
                    /\ Counts("end", i + 1, n) + 1 <= Counts("start", i + 1, n)
    <2>1. /\ i \in OpenLists(m)' <=>
              /\ i \in OpenLists(n + 1)
              /\ Counts("end", i + 1, n + 1)' <= Counts("start", i + 1, n + 1)'
          /\ Counts("end", i + 1, n + 1)' = Counts("end", i + 1, n) + (IF e.call = "end" THEN 1 ELSE 0)
          /\ Counts("start", i + 1, n + 1)' =
                 Counts("start", i + 1, n) + (IF e.call = "start" THEN 1 ELSE 0)
          /\ Counts("end", i + 1, n) \in Nat /\ Counts("start", i + 1, n) \in Nat
        BY <1>m, Balanced
    <2>2. (IF e.call = "end" THEN 1 ELSE 0) = 1 /\ (IF e.call = "start" THEN 1 ELSE 0) = 0
        OBVIOUS
    <2>3. QED
        BY <2>1, <2>2
<1>6. QED
    BY <1>1, <1>2, <1>3, <1>4, <1>5, <1>m

\* One that closes nothing leaves nothing open.
LEMMA CloseNone ==
    ASSUME read \in Seq(HtmlCall), NEW n, n = Len(read),
           NEW e \in HtmlCall, read' = Append(read, e), e.tag = "dl", e.call = "end",
           NEW q, Stacked(q), q.opened = <<>>, NEW r, r.opened = <<>>,
           NEW path \in Seq(Text), IsPathAt(path, n + 1)
    PROVE  Stacked(r)' /\ IsPathAt(path, n + 2)'
<1>1. PICK st \in Seq(Nat) : IsStack(st, q.opened)
    BY DEF Stacked
<1>2. Len(st) = 0 /\ st = <<>>
    <2>1. Len(st) = Len(<<>>) /\ Len(<<>>) = 0
        BY <1>1, EmptySeq DEF IsStack
    <2>2. QED
        BY <2>1, EmptySeq
<1>3. OpenLists(n + 1) = {}
    <2>1. {st[k] : k \in 1 .. Len(st)} = OpenLists(n + 1)
        BY <1>1 DEF IsStack
    <2>2. \A k : k \notin 1 .. Len(st)
        BY <1>2
    <2>3. QED
        BY <2>1, <2>2
<1>4. Len(read') = n + 1 /\ n + 1 + 1 = n + 2 /\ OpenLists(n + 2)' = {}
    BY <1>3, ClosesOne
<1>5. Stacked(r)'
    <2>1. <<>> \in Seq(Nat) /\ Len(<<>>) = 0 /\ Len(r.opened) = 0
        BY EmptySeq
    <2>2. \A k : k \notin 1 .. 0
        OBVIOUS
    <2>3. PICK none : none = <<>>
        OBVIOUS
    <2>4. {none[k] : k \in 1 .. 0} = {}
        BY <2>2
    <2>5. none \in Seq(Nat) /\ IsStack(none, r.opened)'
        BY <1>4, <2>1, <2>2, <2>3, <2>4 DEF IsStack
    <2>6. QED
        BY <2>5 DEF Stacked
<1>6. IsPathAt(path, n + 2)'
    <2>1. NamedAt(n + 1) = {}
        BY <1>3 DEF NamedAt
    <2>2. path = <<>> /\ Len(path) = 0
        BY <2>1, EmptyPath, EmptySeq
    <2>m. PICK m : m = n + 2
        OBVIOUS
    <2>3. NamedAt(m)' = {}
        BY <1>4, <2>m DEF NamedAt
    <2>4. PICK s : s = [k \in 1 .. 0 |-> 0]
        OBVIOUS
    <2>5. s \in [1 .. 0 -> {}] /\ \A k : k \notin 1 .. 0
        BY <2>4
    <2>6. IsPathAt(path, m)'
        BY <2>2, <2>3, <2>4, <2>5 DEF IsPathAt
    <2>7. QED
        BY <2>6, <2>m
<1>7. QED
    BY <1>5, <1>6

\* Any other closes the innermost list,
LEMMA CloseStack ==
    ASSUME read \in Seq(HtmlCall), NEW n, n = Len(read),
           NEW e \in HtmlCall, read' = Append(read, e), e.tag = "dl", e.call = "end",
           NEW st \in Seq(Nat), NEW opened \in Seq(BOOLEAN), IsStack(st, opened),
           opened # <<>>, NEW l, l = Len(st)
    PROVE  /\ l \in Nat \ {0} /\ l = Len(opened)
           /\ st[l] \in OpenLists(n + 1) /\ \A i \in OpenLists(n + 1) : i <= st[l]
           /\ opened[l] <=> NameOf(st[l]) # <<>>
           /\ OpenLists(n + 2)' = OpenLists(n + 1) \ {st[l]}
           /\ IsStack(Front(st), Front(opened))'
<1>1. /\ l = Len(opened)
      /\ \A j, k \in 1 .. l : j < k => st[j] < st[k]
      /\ {st[k] : k \in 1 .. l} = OpenLists(n + 1)
      /\ \A k \in 1 .. l :
            /\ opened[k] <=> NameOf(st[k]) # <<>>
            /\ Counts("start", st[k] + 1, n) = Counts("end", st[k] + 1, n) + l - k
    BY DEF IsStack
<1>2. /\ l \in Nat \ {0} /\ st # <<>> /\ \A k \in 1 .. l : st[k] \in Nat
    BY <1>1, EmptySeq, SeqFacts
<1>3. l \in 1 .. l /\ l - 1 \in Nat /\ \A k \in 1 .. l : k \in 1 .. l - 1 \/ k = l
    BY <1>2
<1>u. \A k \in 1 .. l - 1 : k \in 1 .. l /\ k < l
    BY <1>2
<1>v. \A k \in 1 .. l - 1 : st[k] < st[l]
    BY <1>1, <1>3, <1>u
<1>4. st[l] \in OpenLists(n + 1) /\ \A i \in OpenLists(n + 1) : i <= st[l]
    <2>1. \A k \in 1 .. l : st[k] <= st[l]
        <3>1. ASSUME NEW k \in 1 .. l
              PROVE  st[k] <= st[l]
            <4>1. st[k] \in Nat /\ st[l] \in Nat
                BY <1>2, <1>3
            <4>2. k \in 1 .. l - 1 => st[k] < st[l]
                BY <1>v
            <4>3. QED
                BY <1>3, <4>1, <4>2
        <3>2. QED
            BY <3>1
    <2>2. QED
        BY <1>1, <1>3, <2>1
<1>5. /\ n \in Nat /\ Len(read') = n + 1 /\ n + 1 + 1 = n + 2
      /\ OpenLists(n + 1) \subseteq 1 .. n /\ OpenLists(n + 2)' \subseteq 1 .. n
      /\ \A i \in 1 .. n : NameOf(i)' = NameOf(i)
    BY ClosesOne
<1>6. ASSUME NEW k \in 1 .. l
      PROVE  /\ st[k] \in 1 .. n /\ NameOf(st[k])' = NameOf(st[k])
             /\ st[k] \in OpenLists(n + 2)' <=> k # l
             /\ Counts("start", st[k] + 1, n + 1)' =
                    Counts("end", st[k] + 1, n + 1)' + (l - 1) - k
    <2>1. st[k] \in OpenLists(n + 1) /\ st[k] \in 1 .. n
        BY <1>1, <1>5
    <2>2. /\ Counts("end", st[k] + 1, n) \in Nat /\ Counts("start", st[k] + 1, n) \in Nat
          /\ Counts("end", st[k] + 1, n + 1)' = Counts("end", st[k] + 1, n) + 1
          /\ Counts("start", st[k] + 1, n + 1)' = Counts("start", st[k] + 1, n)
          /\ st[k] \in OpenLists(n + 2)' <=>
                 /\ st[k] \in OpenLists(n + 1)
                 /\ Counts("end", st[k] + 1, n) + 1 <= Counts("start", st[k] + 1, n)
        BY <2>1, ClosesOne
    <2>3. Counts("start", st[k] + 1, n) = Counts("end", st[k] + 1, n) + l - k
        BY <1>1
    <2>4. Counts("end", st[k] + 1, n) + 1 <= Counts("start", st[k] + 1, n) <=> k # l
        BY SMTT(30), <1>2, <2>2, <2>3
    <2>5. Counts("start", st[k] + 1, n + 1)' = Counts("end", st[k] + 1, n + 1)' + (l - 1) - k
        BY <1>2, <2>2, <2>3
    <2>6. QED
        BY <1>5, <2>1, <2>2, <2>4, <2>5
<1>7. OpenLists(n + 2)' = OpenLists(n + 1) \ {st[l]}
    <2>1. \A i \in OpenLists(n + 2)' : i \in OpenLists(n + 1)
        BY <1>5, ClosesOne
    <2>2. \A k \in 1 .. l : st[k] = st[l] => k = l
        <3>1. ASSUME NEW k \in 1 .. l
              PROVE  st[k] = st[l] => k = l
            <4>1. st[k] \in Nat /\ st[l] \in Nat
                BY <1>2, <1>3
            <4>2. k \in 1 .. l - 1 => st[k] < st[l]
                BY <1>v
            <4>3. QED
                BY <1>3, <4>1, <4>2
        <3>2. QED
            BY <3>1
    <2>3. \A i \in OpenLists(n + 1) : \E k \in 1 .. l : i = st[k]
        BY <1>1
    <2>4. QED
        BY <1>3, <1>6, <2>1, <2>2, <2>3
<1>8. PICK tt : tt = Front(st)
    OBVIOUS
<1>9. PICK op : op = Front(opened)
    OBVIOUS
<1>10. tt \in Seq(Nat) /\ Len(tt) = l - 1 /\ \A k \in 1 .. l - 1 : tt[k] = st[k]
    BY <1>2, <1>8, FrontFacts
<1>11. Len(op) = l - 1 /\ \A k \in 1 .. l - 1 : op[k] = opened[k]
    BY <1>1, <1>9, FrontFacts
<1>12. \A k \in 1 .. l - 1 : k \in 1 .. l /\ k # l
    BY <1>2
<1>13. {tt[k] : k \in 1 .. l - 1} = OpenLists(n + 2)'
    <2>1. \A k \in 1 .. l - 1 : tt[k] \in OpenLists(n + 2)'
        BY <1>6, <1>10, <1>12
    <2>2. \A i \in OpenLists(n + 2)' : \E k \in 1 .. l - 1 : tt[k] = i
        <3>1. ASSUME NEW i \in OpenLists(n + 2)'
              PROVE  \E k \in 1 .. l - 1 : tt[k] = i
            <4>1. i \in OpenLists(n + 1) /\ i # st[l]
                BY <1>7, <3>1
            <4>2. PICK k \in 1 .. l : st[k] = i
                BY <1>1, <4>1
            <4>3. k \in 1 .. l - 1
                BY <1>3, <4>1, <4>2
            <4>4. QED
                BY <1>10, <4>2, <4>3
        <3>2. QED
            BY <3>1
    <2>3. PICK O : O = OpenLists(n + 2)'
        OBVIOUS
    <2>4. /\ \A k \in 1 .. l - 1 : tt[k] \in O
          /\ \A i \in O : \E k \in 1 .. l - 1 : tt[k] = i
        BY <2>1, <2>2, <2>3
    <2>5. {tt[k] : k \in 1 .. l - 1} = O
        BY SMTT(30), <2>4
    <2>6. QED
        BY <2>3, <2>5
<1>14. \A j, k \in 1 .. l - 1 : j < k => tt[j] < tt[k]
    BY <1>1, <1>10, <1>12
<1>15. \A k \in 1 .. l - 1 :
          /\ op[k] <=> NameOf(tt[k])' # <<>>
          /\ Counts("start", tt[k] + 1, n + 1)' = Counts("end", tt[k] + 1, n + 1)' + (l - 1) - k
    <2>1. ASSUME NEW k \in 1 .. l - 1
          PROVE  /\ op[k] <=> NameOf(tt[k])' # <<>>
                 /\ Counts("start", tt[k] + 1, n + 1)'
                        = Counts("end", tt[k] + 1, n + 1)' + (l - 1) - k
        <3>1. k \in 1 .. l /\ tt[k] = st[k] /\ op[k] = opened[k]
            BY <1>10, <1>11, <1>12
        <3>2. opened[k] <=> NameOf(st[k]) # <<>>
            BY <1>1, <3>1
        <3>3. op[k] <=> NameOf(tt[k])' # <<>>
            BY <1>6, <3>1, <3>2
        <3>4. QED
            BY <1>6, <3>1, <3>3
    <2>2. QED
        BY <2>1
<1>16. IsStack(tt, op)'
    BY <1>5, <1>10, <1>11, <1>13, <1>14, <1>15 DEF IsStack
<1>17. QED
    BY <1>1, <1>2, <1>3, <1>4, <1>7, <1>8, <1>9, <1>16

\* and takes its name off the path, if it has one.
LEMMA ClosePath ==
    ASSUME read \in Seq(HtmlCall), NEW n, n = Len(read),
           NEW e \in HtmlCall, read' = Append(read, e), e.tag = "dl", e.call = "end",
           NEW path \in Seq(Text), IsPathAt(path, n + 1),
           NEW top \in OpenLists(n + 1), \A i \in OpenLists(n + 1) : i <= top,
           OpenLists(n + 2)' = OpenLists(n + 1) \ {top},
           NEW named \in BOOLEAN, named <=> NameOf(top) # <<>>
    PROVE  IsPathAt(IF named THEN Front(path) ELSE path, n + 2)'
<1>1. /\ n \in Nat /\ OpenLists(n + 1) \subseteq 1 .. n
      /\ \A i \in 1 .. n : NameOf(i)' = NameOf(i)
    BY ClosesOne
<1>m. PICK m : m = n + 2
    OBVIOUS
<1>S. PICK S : S = NamedAt(n + 1)
    OBVIOUS
<1>l. PICK l : l = Len(path)
    OBVIOUS
<1>2. PICK s \in [1 .. l -> S] :
          /\ \A i \in S : \E k \in 1 .. l : s[k] = i
          /\ \A j, k \in 1 .. l : j < k => s[j] < s[k]
          /\ \A k \in 1 .. l : path[k] = NameOf(s[k])
    <2>1. IsPathAt(path, n + 1)
        OBVIOUS
    <2>2. QED
        BY SMTT(30), <2>1, <1>S, <1>l DEF IsPathAt
<1>3. l \in Nat /\ S \subseteq OpenLists(n + 1) /\ S \subseteq 1 .. n /\ (top \in S <=> named)
    BY <1>1, <1>l, <1>S, SeqFacts DEF NamedAt
<1>4. NamedAt(m)' = S \ {top}
    <2>1. \A i \in OpenLists(n + 1) : NameOf(i)' = NameOf(i)
        BY <1>1
    <2>2. QED
        BY <1>m, <1>S, <2>1 DEF NamedAt
<1>5. \A k \in 1 .. l : s[k] \in S /\ path[k] = NameOf(s[k])'
    <2>1. ASSUME NEW k \in 1 .. l
          PROVE  s[k] \in S /\ path[k] = NameOf(s[k])'
        <3>1. s[k] \in S /\ path[k] = NameOf(s[k])
            BY <1>2
        <3>2. QED
            BY <1>1, <1>3, <3>1
    <2>2. QED
        BY <2>1
<1>6. CASE ~named
    <2>1. NamedAt(m)' = S
        BY <1>3, <1>4, <1>6
    <2>2. IsPathAt(path, m)'
        BY ZenonT(60), <1>2, <1>l, <1>5, <2>1 DEF IsPathAt
    <2>3. QED
        BY <1>6, <1>m, <2>2
<1>7. CASE named
    <2>1. PICK c \in 1 .. l : s[c] = top
        BY <1>2, <1>3, <1>7
    <2>2. l # 0 /\ l \in 1 .. l /\ path # <<>>
        BY <1>3, <1>l, <2>1, EmptySeq
    <2>3. c = l
        <3>1. s[l] <= top /\ s[l] \in 1 .. n /\ top \in 1 .. n
            BY <1>1, <1>3, <1>5, <2>2
        <3>2. c < l => s[c] < s[l]
            BY <1>2, <2>1, <2>2
        <3>3. QED
            BY <1>3, <2>1, <3>1, <3>2
    <2>h. PICK h : h = l - 1
        OBVIOUS
    <2>4. PICK short : short = Front(path)
        OBVIOUS
    <2>5. Len(short) = h /\ \A k \in 1 .. h : short[k] = path[k]
        BY <1>l, <2>2, <2>4, <2>h, FrontFacts
    <2>6. /\ h \in Nat /\ (\A k \in 1 .. h : k \in 1 .. l /\ k < l)
          /\ \A k \in 1 .. l : k \in 1 .. h \/ k = l
        BY <1>3, <2>2, <2>h
    <2>7. PICK T : T = S \ {top}
        OBVIOUS
    <2>8. PICK t : t = [k \in 1 .. h |-> s[k]]
        OBVIOUS
    <2>9. \A k \in 1 .. h : s[k] # top
        <3>1. ASSUME NEW k \in 1 .. h
              PROVE  s[k] # top
            <4>1. s[k] < s[l] /\ s[k] \in 1 .. n /\ s[l] = top
                BY <1>2, <1>3, <1>5, <2>1, <2>2, <2>3, <2>6
            <4>2. QED
                BY <1>1, <4>1
        <3>2. QED
            BY <3>1
    <2>10. t \in [1 .. h -> T] /\ \A k \in 1 .. h : t[k] = s[k]
        BY <1>5, <2>6, <2>7, <2>8, <2>9
    <2>11. \A i \in T : \E k \in 1 .. h : t[k] = i
        <3>1. ASSUME NEW i \in T
              PROVE  \E k \in 1 .. h : t[k] = i
            <4>1. PICK k \in 1 .. l : s[k] = i
                BY <1>2, <2>7
            <4>2. k \in 1 .. h
                BY <2>1, <2>3, <2>6, <2>7, <4>1
            <4>3. QED
                BY <2>10, <4>1, <4>2
        <3>2. QED
            BY <3>1
    <2>12. \A j, k \in 1 .. h : j < k => t[j] < t[k]
        BY <1>2, <2>6, <2>10
    <2>13. \A k \in 1 .. h : short[k] = NameOf(t[k])'
        BY <1>5, <2>5, <2>6, <2>10
    <2>14. T = NamedAt(m)'
        BY <1>4, <2>7
    <2>15. IsPathAt(short, m)'
        BY <2>5, <2>10, <2>11, <2>12, <2>13, <2>14 DEF IsPathAt
    <2>16. QED
        BY <1>7, <1>m, <2>4, <2>15
<1>8. QED
    BY <1>6, <1>7

\* </DL>: the innermost list closes, with its name; what lies outside stays.
LEMMA CloseCall ==
    ASSUME read \in Seq(HtmlCall), NEW n, n = Len(read),
           NEW e \in HtmlCall, read' = Append(read, e), e.tag = "dl", e.call = "end",
           NEW q, Reads(q), q.capture = None,
           NEW r \in Fields, r.items = q.items, r.capture = None, r.last = 0,
           r.pending = q.pending,
           r.opened = IF q.opened # <<>> THEN Front(q.opened) ELSE q.opened,
           r.path = IF q.opened # <<>> /\ Last(q.opened) THEN Front(q.path) ELSE q.path
    PROVE  Reads(r)'
<1>1. Len(read') = n + 1 /\ n + 1 + 1 = n + 2
    BY ClosesOne
<1>2. /\ Capturing(r)' /\ LinksSoFar(r)' /\ NotesSoFar(r)'
      /\ (\A k \in DOMAIN r.items : IsFiled(r.items[k]))'
    BY ListCall
<1>h. None # "h3"
    BY ParserAssumption
<1>3. /\ Stacked(q) /\ IsPathAt(q.path, n + 1) /\ NameOf(n + 1) = q.pending
      /\ q.opened \in Seq(BOOLEAN) /\ q.path \in Seq(Text)
    BY <1>h DEF Reads, HeadingKept, Fields
<1>4. HeadingKept(r)'
    <2>1. e.call # "data" /\ ~(e.call = "start" /\ e.tag \in {"dl", "h3"})
        OBVIOUS
    <2>2. NameOf(n + 2)' = NameOf(n + 1)
        BY <2>1, HeadingGrows
    <2>3. QED
        BY <1>1, <1>3, <1>h, <2>2 DEF HeadingKept
<1>5. Stacked(r)' /\ IsPathAt(r.path, n + 2)'
    <2>1. CASE q.opened = <<>>
        <3>1. r.opened = <<>> /\ r.path = q.path
            BY <2>1
        <3>2. Stacked(r)' /\ IsPathAt(q.path, n + 2)'
            BY <1>3, <2>1, <3>1, CloseNone
        <3>3. QED
            BY <3>1, <3>2
    <2>2. CASE q.opened # <<>>
        <3>1. PICK st \in Seq(Nat) : IsStack(st, q.opened)
            BY <1>3 DEF Stacked
        <3>2. PICK l : l = Len(st)
            OBVIOUS
        <3>3. /\ l \in Nat \ {0} /\ l = Len(q.opened)
              /\ st[l] \in OpenLists(n + 1) /\ \A i \in OpenLists(n + 1) : i <= st[l]
              /\ q.opened[l] <=> NameOf(st[l]) # <<>>
              /\ OpenLists(n + 2)' = OpenLists(n + 1) \ {st[l]}
              /\ IsStack(Front(st), Front(q.opened))'
            <4>1. PICK opened : opened = q.opened
                OBVIOUS
            <4>2. opened \in Seq(BOOLEAN) /\ IsStack(st, opened) /\ opened # <<>>
                BY <1>3, <2>2, <3>1, <4>1
            <4>3. /\ l \in Nat \ {0} /\ l = Len(opened)
                  /\ st[l] \in OpenLists(n + 1) /\ \A i \in OpenLists(n + 1) : i <= st[l]
                  /\ opened[l] <=> NameOf(st[l]) # <<>>
                  /\ OpenLists(n + 2)' = OpenLists(n + 1) \ {st[l]}
                  /\ IsStack(Front(st), Front(opened))'
                BY SMTT(30), <3>2, <4>2, CloseStack
            <4>4. QED
                BY <4>1, <4>3
        <3>4. PICK named : named = Last(q.opened)
            OBVIOUS
        <3>5. named \in BOOLEAN /\ (named <=> NameOf(st[l]) # <<>>)
            <4>1. l \in 1 .. Len(q.opened) /\ named = q.opened[l]
                BY <3>3, <3>4 DEF Last
            <4>2. q.opened[l] \in BOOLEAN
                BY <1>3, <4>1, SeqFacts
            <4>3. QED
                BY <3>3, <4>1, <4>2
        <3>6. IsPathAt(IF named THEN Front(q.path) ELSE q.path, n + 2)'
            BY <1>3, <3>3, <3>5, ClosePath
        <3>7. r.path = (IF named THEN Front(q.path) ELSE q.path) /\ r.opened = Front(q.opened)
            BY <2>2, <3>4
        <3>8. Front(st) \in Seq(Nat)
            <4>1. st # <<>>
                BY <3>2, <3>3, EmptySeq
            <4>2. QED
                BY <4>1, FrontFacts
        <3>9. PICK tt : tt = Front(st)
            OBVIOUS
        <3>10. tt \in Seq(Nat) /\ IsStack(tt, r.opened)'
            BY <3>3, <3>7, <3>8, <3>9
        <3>11. Stacked(r)'
            BY <3>10 DEF Stacked
        <3>12. QED
            BY <3>6, <3>7, <3>11
    <2>3. QED
        BY <2>1, <2>2
<1>6. QED
    BY <1>1, <1>2, <1>4, <1>5 DEF Reads

-----------------------------------------------------------------------------
(* Every step *)

\* Nothing has been read.
LEMMA InitIInv == Init => IInv
<1> SUFFICES ASSUME Init
             PROVE  IInv
    OBVIOUS
<1>1. /\ read = <<>> /\ Len(read) = 0 /\ read \in Seq(HtmlCall)
      /\ parser = Fresh /\ DOMAIN read = {} /\ \A k : k \notin 1 .. 0
    <2>1. <<>> \in Seq(HtmlCall) /\ Len(<<>>) = 0
        BY EmptySeq
    <2>2. \A k : k \notin 1 .. 0
        OBVIOUS
    <2>3. DOMAIN <<>> = {}
        OBVIOUS
    <2>4. QED
        BY <2>1, <2>2, <2>3 DEF Init
<1>2. /\ parser.items = <<>> /\ parser.path = <<>> /\ parser.opened = <<>>
      /\ parser.pending = <<>> /\ parser.capture = None /\ parser.last = 0
    BY <1>1 DEF Fresh
<1>3. parser \in Fields
    <2>1. <<>> \in Seq(Item) /\ <<>> \in Seq(Text) /\ <<>> \in Seq(BOOLEAN) /\ <<>> \in Text
        BY EmptySeq DEF Text
    <2>2. Fresh \in Fields
        BY <2>1 DEF Fresh, Fields
    <2>3. QED
        BY <1>1, <2>2
<1>4. (\A tag : Starts(tag) = {}) /\ Links = {}
    BY <1>1 DEF Starts, Links
<1>5. OpenLists(1) = {} /\ NamedAt(1) = {} /\ NameOf(1) = <<>>
    <2>1. OpenLists(1) = {} /\ Headings(1) = {}
        BY <1>4 DEF OpenLists, Headings
    <2>2. QED
        BY <2>1 DEF NamedAt, NameOf
<1>6. Len(read) + 1 = 1 /\ Len(<<>>) = 0 /\ DOMAIN parser.items = {}
    BY <1>1, <1>2, EmptySeq
<1>7. Capturing(parser)
    BY <1>2 DEF Capturing
<1>8. LinksSoFar(parser)
    BY <1>2, <1>4, <1>6, ParserAssumption DEF LinksSoFar
<1>9. Stacked(parser)
    <2>1. PICK none : none = <<>>
        OBVIOUS
    <2>2. none \in Seq(Nat) /\ Len(none) = 0 /\ Len(parser.opened) = 0
        BY <1>2, <1>6, <2>1, EmptySeq
    <2>3. {none[k] : k \in 1 .. 0} = {}
        BY <1>1
    <2>4. IsStack(none, parser.opened)
        BY <1>1, <1>5, <1>6, <2>2, <2>3 DEF IsStack
    <2>5. QED
        BY <2>2, <2>4 DEF Stacked
<1>10. IsPathAt(parser.path, Len(read) + 1)
    <2>1. PICK s : s = [k \in 1 .. 0 |-> 0]
        OBVIOUS
    <2>2. s \in [1 .. 0 -> {}]
        BY <1>1, <2>1
    <2>3. Len(parser.path) = 0
        BY <1>2, <1>6
    <2>4. QED
        BY <1>1, <1>5, <1>6, <2>2, <2>3 DEF IsPathAt
<1>11. HeadingKept(parser)
    BY <1>2, <1>5, <1>6, ParserAssumption DEF HeadingKept
<1>12. NotesSoFar(parser)
    <2>1. 0 \in 0 .. Len(parser.items)
        BY <1>2, <1>6
    <2>2. QED
        BY <1>2, <1>6, <2>1 DEF NotesSoFar
<1>13. \A k \in DOMAIN parser.items : IsFiled(parser.items[k])
    BY <1>6
<1>14. ~Closed
    BY <1>1 DEF Closed
<1>15. QED
    BY <1>1, <1>3, <1>7, <1>8, <1>9, <1>10, <1>11, <1>12, <1>13, <1>14 DEF IInv, Reads

\* A handler may follow any call but that of the end.
LEMMA Held ==
    ASSUME IInv, NEW call \in {"start", "end", "data", "close"},
           NEW tag \in Anchors \cup {"dt", "dd", "dl", "h3", "a", None}, Call(call, tag),
           NEW r, r = parser', Reads(r)', call = "close" => r.capture = None
    PROVE  IInv'
<1>e. PICK e : e = [call |-> call, tag |-> tag]
    OBVIOUS
<1>1. read' = Append(read, e) /\ e \in HtmlCall /\ e.call = call /\ read \in Seq(HtmlCall)
    BY <1>e DEF Call, HtmlCall, IInv
<1>2. read' \in Seq(HtmlCall) /\ Last(read') = e
    BY <1>1, Grown
<1>3. Closed' => call = "close"
    BY <1>1, <1>2 DEF Closed
<1>4. QED
    BY <1>2, <1>3 DEF IInv

\* Each way a handler writes the fields keeps their types.
LEMMA Kept ==
    ASSUME NEW q \in Fields, NEW l \in Nat, NEW t \in Text,
           NEW b \in Seq(BOOLEAN), NEW path \in Seq(Text), NEW a \in Anchor
    PROVE  /\ [q EXCEPT !.capture = "h3"] \in Fields
           /\ [q EXCEPT !.capture = "dd"] \in Fields
           /\ [q EXCEPT !.capture = "a", !.anchor = a] \in Fields
           /\ [q EXCEPT !.path = path, !.opened = b, !.pending = t, !.last = l] \in Fields
           /\ [q EXCEPT !.opened = b, !.path = path, !.last = l] \in Fields
           /\ [q EXCEPT !.text = t] \in Fields
    BY DEF Fields

\* The call that a handler adds, and the fields that _flush leaves.
LEMMA Before ==
    ASSUME IInv, NEW q, q = Flush(parser)
    PROVE  /\ Reads(q) /\ q \in Fields /\ q.capture = None /\ q.text = <<>>
           /\ q.opened \in Seq(BOOLEAN) /\ q.path \in Seq(Text) /\ q.pending \in Text
           /\ <<>> \in Text
<1>1. Reads(q) /\ q.capture = None /\ q.text = <<>>
    BY FlushReads DEF IInv
<1>2. q \in Fields
    BY <1>1 DEF Reads
<1>3. QED
    BY <1>1, <1>2, EmptySeq DEF Fields, Text

\* <A>: the link begins where the path is that of the open lists.
LEMMA AnchorStep ==
    ASSUME IInv, NEW kind \in Anchors, HandleAnchor(kind)
    PROVE  IInv'
<1>q. PICK q : q = Flush(parser)
    OBVIOUS
<1>r. PICK r : r = parser'
    OBVIOUS
<1>n. PICK n : n = Len(read)
    OBVIOUS
<1>e. PICK e : e = [call |-> "start", tag |-> kind]
    OBVIOUS
<1>a. PICK a : a = [url |-> n + 1, http |-> kind # "mailto",
                    folder |-> IF kind = "a folder" THEN <<n + 1>> ELSE <<>>]
    OBVIOUS
<1>1. Reads(q) /\ q \in Fields /\ q.capture = None /\ q.text = <<>>
    BY <1>q, Before
<1>2. n \in Nat /\ read \in Seq(HtmlCall)
    BY <1>n, SeqFacts DEF IInv
<1>3. Call("start", kind) /\ r = Start(parser, "a", a)
    BY <1>a, <1>n, <1>r DEF HandleAnchor, Here
<1>4. e \in HtmlCall /\ e.call = "start" /\ e.tag = kind /\ e.tag # "dl" /\ read' = Append(read, e)
    BY <1>3, <1>e DEF Call, HtmlCall, Anchors
<1>5. a \in Anchor
    <2>1. n + 1 \in Nat /\ <<n + 1>> \in Seq(Nat) /\ <<>> \in Seq(Nat)
        BY <1>2, EmptySeq
    <2>2. PICK f : f = IF kind = "a folder" THEN <<n + 1>> ELSE <<>>
        OBVIOUS
    <2>3. PICK h : h = (kind # "mailto")
        OBVIOUS
    <2>4. f \in Seq(Nat) /\ h \in BOOLEAN /\ a = [url |-> n + 1, http |-> h, folder |-> f]
        BY <1>a, <2>1, <2>2, <2>3
    <2>5. QED
        BY <2>1, <2>4 DEF Anchor, Text
<1>6. r = [q EXCEPT !.capture = "a", !.anchor = a]
    BY <1>3, <1>q DEF Start
<1>7. /\ r.items = q.items /\ r.path = q.path /\ r.opened = q.opened /\ r.pending = q.pending
      /\ r.last = q.last /\ r.text = q.text /\ r.capture = "a" /\ r.anchor = a
    BY <1>1, <1>6 DEF Fields
<1>8. r \in Fields
    <2>1. <<>> \in Text /\ <<>> \in Seq(BOOLEAN) /\ <<>> \in Seq(Text) /\ 0 \in Nat
        BY EmptySeq DEF Text
    <2>2. QED
        BY <1>1, <1>5, <1>6, <2>1, Kept
<1>9. Begins(r, e, n)
    BY <1>4, <1>7, <1>a DEF Begins
<1>10. Reads(r)'
    BY <1>1, <1>2, <1>4, <1>7, <1>8, <1>9, <1>n, OtherCall
<1>11. QED
    BY <1>3, <1>10, <1>r, Held

\* The other tags: <DT>, <DD> and <H3>, then <DL>.
LEMMA StartStep ==
    ASSUME IInv, NEW tag \in {"dt", "dd", "dl", "h3"}, HandleStart(tag)
    PROVE  IInv'
<1>q. PICK q : q = Flush(parser)
    OBVIOUS
<1>r. PICK r : r = parser'
    OBVIOUS
<1>n. PICK n : n = Len(read)
    OBVIOUS
<1>e. PICK e : e = [call |-> "start", tag |-> tag]
    OBVIOUS
<1>1. /\ Reads(q) /\ q \in Fields /\ q.capture = None /\ q.text = <<>>
      /\ q.opened \in Seq(BOOLEAN) /\ q.path \in Seq(Text) /\ q.pending \in Text
      /\ <<>> \in Text
    BY <1>q, Before
<1>2. n \in Nat /\ read \in Seq(HtmlCall)
    BY <1>n, SeqFacts DEF IInv
<1>3. Call("start", tag) /\ r = Start(parser, tag, None)
    BY <1>r DEF HandleStart
<1>4. e \in HtmlCall /\ e.call = "start" /\ e.tag = tag /\ read' = Append(read, e)
    BY <1>3, <1>e DEF Call, HtmlCall
<1>a. PICK a : a \in Anchor
    <2>1. [url |-> 0, http |-> TRUE, folder |-> <<>>] \in Anchor
        BY <1>1 DEF Anchor
    <2>2. QED
        BY <2>1
<1>5. CASE tag = "dl"
    <2>1. PICK named : named = (q.pending # <<>>)
        OBVIOUS
    <2>2. PICK b : b = Append(q.opened, named)
        OBVIOUS
    <2>3. PICK path : path = IF named THEN Append(q.path, q.pending) ELSE q.path
        OBVIOUS
    <2>4. named \in BOOLEAN /\ b \in Seq(BOOLEAN) /\ path \in Seq(Text) /\ 0 \in Nat
        BY <1>1, <2>1, <2>2, <2>3, AppendProperties
    <2>5. r = [q EXCEPT !.path = path, !.opened = b, !.pending = <<>>, !.last = 0]
        <3>1. r = OpenList(q)
            BY <1>3, <1>5, <1>q DEF Start
        <3>2. QED
            BY <2>1, <2>2, <2>3, <3>1 DEF OpenList
    <2>6. r \in Fields
        BY <1>1, <1>a, <2>4, <2>5, Kept
    <2>7. /\ r.items = q.items /\ r.path = path /\ r.opened = b /\ r.pending = <<>>
          /\ r.last = 0 /\ r.capture = None
        BY <1>1, <2>5 DEF Fields
    <2>8. /\ r.opened = Append(q.opened, q.pending # <<>>)
          /\ r.path = IF q.pending # <<>> THEN Append(q.path, q.pending) ELSE q.path
        BY <2>1, <2>2, <2>3, <2>7
    <2>9. Reads(r)'
        BY <1>1, <1>2, <1>4, <1>5, <1>n, <2>6, <2>7, <2>8, OpenCall
    <2>10. QED
        BY <1>3, <1>r, <2>9, Held
<1>6. CASE tag \in {"dt", "dd", "h3"}
    <2>1. r = IF tag = "dt" THEN q ELSE [q EXCEPT !.capture = tag]
        BY <1>3, <1>6, <1>q DEF Start
    <2>2. /\ r.items = q.items /\ r.path = q.path /\ r.opened = q.opened /\ r.pending = q.pending
          /\ r.last = q.last /\ r.text = q.text
          /\ r.capture = IF tag = "dt" THEN None ELSE tag
        BY <1>1, <2>1 DEF Fields
    <2>3. r \in Fields
        <3>1. 0 \in Nat
            OBVIOUS
        <3>2. [q EXCEPT !.capture = "h3"] \in Fields /\ [q EXCEPT !.capture = "dd"] \in Fields
            BY <1>1, <1>a, <3>1, Kept
        <3>3. QED
            BY <1>1, <1>6, <2>1, <3>2
    <2>4. Begins(r, e, n) /\ e.tag # "dl"
        BY <1>4, <1>6, <2>2 DEF Begins, Anchors
    <2>5. e.call # "data"
        BY <1>4
    <2>6. Reads(r)'
        BY <1>1, <1>2, <1>4, <1>n, <2>2, <2>3, <2>4, <2>5, OtherCall
    <2>7. QED
        BY <1>3, <1>r, <2>6, Held
<1>7. QED
    BY <1>5, <1>6

\* </H3> and </A> of what is captured, then </DL>.
LEMMA EndStep ==
    ASSUME IInv, NEW tag \in {"h3", "a", "dl"}, HandleEnd(tag)
    PROVE  IInv'
<1>q. PICK q : q = Flush(parser)
    OBVIOUS
<1>r. PICK r : r = parser'
    OBVIOUS
<1>n. PICK n : n = Len(read)
    OBVIOUS
<1>e. PICK e : e = [call |-> "end", tag |-> tag]
    OBVIOUS
<1>1. /\ Reads(q) /\ q \in Fields /\ q.capture = None /\ q.text = <<>>
      /\ q.opened \in Seq(BOOLEAN) /\ q.path \in Seq(Text) /\ q.pending \in Text
      /\ <<>> \in Text
    BY <1>q, Before
<1>2. n \in Nat /\ read \in Seq(HtmlCall)
    BY <1>n, SeqFacts DEF IInv
<1>3. Call("end", tag) /\ r = End(parser, tag) /\ (tag = "dl" \/ parser.capture = tag)
    BY <1>r DEF HandleEnd
<1>4. e \in HtmlCall /\ e.call = "end" /\ e.tag = tag /\ read' = Append(read, e)
    BY <1>3, <1>e DEF Call, HtmlCall
<1>5. CASE tag = "dl"
    <2>1. PICK closed : closed = (q.opened # <<>>)
        OBVIOUS
    <2>2. PICK b : b = IF closed THEN Front(q.opened) ELSE q.opened
        OBVIOUS
    <2>3. PICK path : path = IF closed /\ Last(q.opened) THEN Front(q.path) ELSE q.path
        OBVIOUS
    <2>4. b \in Seq(BOOLEAN)
        BY <1>1, <2>1, <2>2, FrontFacts
    <2>5. path \in Seq(Text)
        <3>1. CASE q.path = <<>>
            <4>1. Front(q.path) = <<>>
                BY <3>1, SubSeqEmpty, EmptySeq DEF Front
            <4>2. QED
                BY <1>1, <2>3, <3>1, <4>1
        <3>2. CASE q.path # <<>>
            BY <1>1, <2>3, <3>2, FrontFacts
        <3>3. QED
            BY <3>1, <3>2
    <2>6. r = [q EXCEPT !.opened = b, !.path = path, !.last = 0]
        <3>1. r = CloseList(parser)
            BY <1>3, <1>5 DEF End
        <3>2. QED
            BY <1>q, <2>1, <2>2, <2>3, <3>1 DEF CloseList
    <2>7. r \in Fields
        <3>1. PICK a : a \in Anchor
            <4>1. [url |-> 0, http |-> TRUE, folder |-> <<>>] \in Anchor
                BY <1>1 DEF Anchor
            <4>2. QED
                BY <4>1
        <3>2. 0 \in Nat
            OBVIOUS
        <3>3. QED
            BY <1>1, <2>4, <2>5, <2>6, <3>1, <3>2, Kept
    <2>8. /\ r.items = q.items /\ r.path = path /\ r.opened = b /\ r.pending = q.pending
          /\ r.last = 0 /\ r.capture = None
        BY <1>1, <2>6 DEF Fields
    <2>9. /\ r.opened = IF q.opened # <<>> THEN Front(q.opened) ELSE q.opened
          /\ r.path = IF q.opened # <<>> /\ Last(q.opened) THEN Front(q.path) ELSE q.path
        BY <2>1, <2>2, <2>3, <2>8
    <2>10. Reads(r)'
        BY <1>1, <1>2, <1>4, <1>5, <1>n, <2>7, <2>8, <2>9, CloseCall
    <2>11. QED
        BY <1>3, <1>r, <2>10, Held
<1>6. CASE tag \in {"h3", "a"}
    <2>1. r = q
        BY <1>3, <1>6, <1>q DEF End
    <2>2. Begins(r, e, n) /\ e.tag # "dl" /\ e.call # "data"
        BY <1>1, <1>4, <1>6, <2>1 DEF Begins
    <2>3. Reads(r)'
        BY <1>1, <1>2, <1>4, <1>n, <2>1, <2>2, OtherCall
    <2>4. QED
        BY <1>3, <1>r, <2>3, Held
<1>7. QED
    BY <1>5, <1>6

\* A text is added to what is captured.
LEMMA DataStep ==
    ASSUME IInv, HandleData
    PROVE  IInv'
<1>p. PICK p : p = parser
    OBVIOUS
<1>r. PICK r : r = parser'
    OBVIOUS
<1>n. PICK n : n = Len(read)
    OBVIOUS
<1>e. PICK e : e = [call |-> "data", tag |-> None]
    OBVIOUS
<1>1. Reads(p) /\ p \in Fields /\ p.capture # None /\ Last(read).call # "data" /\ read \in Seq(HtmlCall)
    BY <1>p DEF IInv, HandleData, Reads
<1>2. n \in Nat /\ n + 1 \in Nat
    BY <1>1, <1>n, SeqFacts
<1>3. Call("data", None) /\ r = [p EXCEPT !.text = p.text \o <<n + 1>>]
    BY <1>1, <1>n, <1>p, <1>r DEF HandleData, Data, Here
<1>4. e \in HtmlCall /\ e.call = "data" /\ e.tag = None /\ read' = Append(read, e)
    BY <1>3, <1>e DEF Call, HtmlCall
<1>5. e.tag # "dl"
    BY <1>4, ParserAssumption
<1>6. r \in Fields
    <2>1. p.text \in Seq(Nat) /\ <<n + 1>> \in Seq(Nat) /\ <<>> \in Text
        BY <1>1, <1>2, EmptySeq DEF Fields, Text
    <2>2. PICK t : t = p.text \o <<n + 1>>
        OBVIOUS
    <2>3. t \in Text
        BY <2>1, <2>2, ConcatProperties DEF Text
    <2>4. PICK a : a \in Anchor
        <3>1. [url |-> 0, http |-> TRUE, folder |-> <<>>] \in Anchor
            BY <2>1 DEF Anchor
        <3>2. QED
            BY <3>1
    <2>5. 0 \in Nat /\ <<>> \in Seq(BOOLEAN) /\ <<>> \in Seq(Text) /\ r = [p EXCEPT !.text = t]
        BY <1>3, <2>2, EmptySeq
    <2>6. QED
        BY <1>1, <2>1, <2>3, <2>4, <2>5, Kept
<1>7. /\ r.items = p.items /\ r.path = p.path /\ r.opened = p.opened /\ r.pending = p.pending
      /\ r.last = p.last /\ r.capture = p.capture /\ r.anchor = p.anchor
      /\ r.text = p.text \o <<n + 1>>
    BY <1>1, <1>3 DEF Fields
<1>8. Reads(r)'
    BY <1>1, <1>4, <1>5, <1>6, <1>7, <1>n, TextCall
<1>9. QED
    BY <1>3, <1>8, <1>r, Held

\* The end of the file.
LEMMA CloseStep ==
    ASSUME IInv, Close
    PROVE  IInv'
<1>q. PICK q : q = Flush(parser)
    OBVIOUS
<1>n. PICK n : n = Len(read)
    OBVIOUS
<1>e. PICK e : e = [call |-> "close", tag |-> None]
    OBVIOUS
<1>1. Reads(q) /\ q \in Fields /\ q.capture = None /\ q.text = <<>>
    BY <1>q, Before
<1>2. read \in Seq(HtmlCall)
    BY DEF IInv
<1>3. Call("close", None) /\ q = parser'
    BY <1>q DEF Close
<1>4. /\ e \in HtmlCall /\ e.call = "close" /\ e.tag # "dl" /\ e.call # "data"
      /\ read' = Append(read, e)
    BY <1>3, <1>e, ParserAssumption DEF Call, HtmlCall
<1>5. Begins(q, e, n)
    BY <1>1, <1>4 DEF Begins
<1>6. Reads(q)'
    BY <1>1, <1>2, <1>4, <1>5, <1>n, OtherCall
<1>7. QED
    BY <1>1, <1>3, <1>6, Held

\* A step that is not a call leaves all that the calls say as it is.
LEMMA NothingRead ==
    ASSUME read' = read, NEW p
    PROVE  Reads(p)' <=> Reads(p)
<1>1. /\ \A i, call, tag : Is(i, call, tag)' <=> Is(i, call, tag)
      /\ \A i : TextAt(i)' = TextAt(i)
      /\ Begun' = Begun /\ Len(read') = Len(read)
    BY DEF Is, TextAt, Begun
<1>2. /\ \A tag : Starts(tag)' = Starts(tag)
      /\ \A k : Breaks(k)' <=> Breaks(k)
    BY <1>1 DEF Starts, Breaks
<1>3. /\ Links' = Links
      /\ \A i : Headings(i)' = Headings(i)
    <2>1. Links' = Links
        BY <1>2 DEF Links
    <2>2. ASSUME NEW i
          PROVE  Headings(i)' = Headings(i)
        BY <1>2 DEF Headings
    <2>3. QED
        BY <2>1, <2>2
<1>4. \A i : NameOf(i)' = NameOf(i)
    BY <1>1, <1>3 DEF NameOf
<1>5. \A call, i, k : Counts(call, i, k)' = Counts(call, i, k)
    <2>1. ASSUME NEW call, NEW i, NEW k
          PROVE  Counts(call, i, k)' = Counts(call, i, k)
        BY <1>1 DEF Counts
    <2>2. QED
        BY <2>1
<1>6. \A n : OpenLists(n)' = OpenLists(n)
    BY <1>2, <1>5 DEF OpenLists
<1>7. \A n : NamedAt(n)' = NamedAt(n)
    BY <1>4, <1>6 DEF NamedAt
<1>8. \A path, n : IsPathAt(path, n)' <=> IsPathAt(path, n)
    BY <1>4, <1>7 DEF IsPathAt
<1>9. \A item : IsFiled(item)' <=> IsFiled(item)
    <2>1. ASSUME NEW item
          PROVE  IsFiled(item)' <=> IsFiled(item)
        <3>1. NamedAt(item.url)' = NamedAt(item.url) /\ read'[item.url] = read[item.url]
            BY <1>7
        <3>2. IsPathAt(item.path, item.url)' <=> IsPathAt(item.path, item.url)
            BY <1>8
        <3>3. QED
            BY <3>1, <3>2 DEF IsFiled
    <2>2. QED
        BY <2>1
<1>10. /\ \A i, n : Quiet(i, n)' <=> Quiet(i, n)
       /\ \A i : NotesOf(i)' = NotesOf(i)
    BY <1>1, <1>2 DEF Quiet, NotesOf
<1>11. /\ \A i : Taken(p, i)' = Taken(p, i)
       /\ \A note, notes : IsFirst(note, notes)' <=> IsFirst(note, notes)
    BY <1>1, <1>10 DEF Taken, IsFirst
<1>12. /\ Capturing(p)' <=> Capturing(p)
       /\ LinksSoFar(p)' <=> LinksSoFar(p)
    <2>1. IsPathAt(p.path, Begun)' <=> IsPathAt(p.path, Begun)
        BY <1>1, <1>8
    <2>2. Capturing(p)' <=> Capturing(p)
        BY <1>1, <2>1 DEF Capturing
    <2>3. LinksSoFar(p)' <=> LinksSoFar(p)
        BY <1>1, <1>3 DEF LinksSoFar
    <2>4. QED
        BY <2>2, <2>3
<1>13. Stacked(p)' <=> Stacked(p)
    <2>1. \A st, opened : IsStack(st, opened)' <=> IsStack(st, opened)
        BY <1>1, <1>4, <1>5, <1>6 DEF IsStack
    <2>2. QED
        BY <2>1 DEF Stacked
<1>14. NotesSoFar(p)' <=> NotesSoFar(p)
    BY <1>1, <1>10, <1>11 DEF NotesSoFar
<1>15. /\ IsPathAt(p.path, Len(read) + 1)' <=> IsPathAt(p.path, Len(read) + 1)
       /\ HeadingKept(p)' <=> HeadingKept(p)
    BY <1>1, <1>4, <1>8 DEF HeadingKept
<1>16. QED
    BY <1>9, <1>12, <1>13, <1>14, <1>15 DEF Reads

\* What the reader has is right after any call.
THEOREM NextIInv == IInv /\ [Next]_vars => IInv'
<1> SUFFICES ASSUME IInv, [Next]_vars
             PROVE  IInv'
    OBVIOUS
<1>1. CASE UNCHANGED vars
    <2>1. PICK p : p = parser
        OBVIOUS
    <2>2. read' = read /\ parser' = p
        BY <1>1, <2>1 DEF vars
    <2>3. Reads(p)' <=> Reads(p)
        BY <2>2, NothingRead
    <2>4. QED
        BY <2>1, <2>2, <2>3 DEF IInv, Closed
<1>2. CASE Next
    <2>1. ASSUME NEW kind \in Anchors, HandleAnchor(kind)
          PROVE  IInv'
        BY <2>1, AnchorStep
    <2>2. ASSUME NEW tag \in {"dt", "dd", "dl", "h3"}, HandleStart(tag)
          PROVE  IInv'
        BY <2>2, StartStep
    <2>3. ASSUME NEW tag \in {"h3", "a", "dl"}, HandleEnd(tag)
          PROVE  IInv'
        BY <2>3, EndStep
    <2>4. CASE HandleData
        BY <2>4, DataStep
    <2>5. CASE Close
        BY <2>5, CloseStep
    <2>6. QED
        BY <1>2, <2>1, <2>2, <2>3, <2>4, <2>5 DEF Next
<1>3. QED
    BY <1>1, <1>2

\* At the end of the file no link, no folder and no note is missing.
LEMMA ReadAll == IInv => ReadingIsExact
<1> SUFFICES ASSUME IInv
             PROVE  ReadingIsExact
    OBVIOUS
<1>1. /\ LinksSoFar(parser) /\ NotesSoFar(parser) /\ (Closed => parser.capture = None)
      /\ \A k \in DOMAIN parser.items : IsFiled(parser.items[k])
    BY DEF IInv, Reads
<1>2. EveryLinkRead
    BY <1>1, ParserAssumption DEF LinksSoFar, EveryLinkRead
<1>3. NotesAreOfTheLink
    BY <1>1, ParserAssumption DEF NotesSoFar, Taken, NotesAreOfTheLink
<1>4. QED
    BY <1>1, <1>2, <1>3 DEF ReadingIsExact, PathIsTheOpenFolders

THEOREM ReadsExactly == Spec => []ReadingIsExact
<1>1. Init => IInv
    BY InitIInv
<1>2. IInv /\ [Next]_vars => IInv'
    BY NextIInv
<1>3. IInv => ReadingIsExact
    BY ReadAll
<1>4. QED
    BY <1>1, <1>2, <1>3, PTL DEF Spec
=============================================================================
