----------------------------- MODULE StarMirror -----------------------------
(***************************************************************************)
(* What the FreshRSS synchronisation (app/routes/freshrss.py) promises an  *)
(* account, without its passes, their lock, the folders and the settings:  *)
(* the starred articles that the server shows are mirrored in the library, *)
(* and only an article that the library knows is ever unstarred.           *)
(*                                                                         *)
(* FreshRSSSync implements it: see the end of that module.                 *)
(***************************************************************************)
CONSTANTS
    Urls,    \* addresses a link may have
    Items,   \* articles
    UrlOf,   \* the address of each article
    None     \* no article

VARIABLES
    saved,    \* the addresses of the library
    record,   \* the article recorded on each of them
    starred,  \* the articles starred on the server
    shown,    \* those the server has shown and that are being processed
    leaving   \* those whose star is being taken back

vars == <<saved, record, starred, shown, leaving>>

Init ==
    /\ saved = {}
    /\ record = [u \in Urls |-> None]
    /\ starred = {}
    /\ shown = {}
    /\ leaving = {}

\* The articles the library knows.
Recorded == {record[u] : u \in saved} \ {None}

\* A star is put or taken on the server.
ByHand(i) ==
    /\ starred' \in {starred \cup {i}, starred \ {i}}
    /\ UNCHANGED <<saved, record, shown, leaving>>

\* The user arranges the library: no article becomes known, and those that are
\* may lose their star.
Organise ==
    /\ saved' \subseteq Urls
    /\ \A u \in Urls : record'[u] \in (IF u \in saved' THEN Recorded ELSE {}) \cup {None}
    /\ leaving \subseteq leaving' /\ leaving' \ leaving \subseteq Recorded
    /\ UNCHANGED <<starred, shown>>

\* The server answers with starred articles.
Show ==
    /\ shown' \ shown \subseteq starred
    /\ UNCHANGED <<saved, record, starred, leaving>>

\* The articles shown enter the library: an address is added with its article,
\* or gets the article it lacked; what is known stays as it is.  The articles
\* filed elsewhere may lose their star.
Mirror ==
    /\ saved \subseteq saved' /\ saved' \subseteq Urls
    /\ \A u \in Urls :
          \/ record'[u] = record[u] /\ (u \in saved' => u \in saved)
          \/ /\ u \in saved' /\ record[u] = None
             /\ record'[u] \in shown /\ UrlOf[record'[u]] = u
    /\ shown' \subseteq shown
    /\ leaving' \ leaving \subseteq Recorded
    /\ UNCHANGED starred

\* The server takes a star back.
Unstar(i) ==
    /\ i \in leaving
    /\ starred' = starred \ {i}
    /\ leaving \ {i} \subseteq leaving' /\ leaving' \subseteq leaving
    /\ UNCHANGED <<saved, record, shown>>

\* What was shown, or asked, is dropped: a failure, a restart, a pass that ends.
GiveUp ==
    /\ shown' \subseteq shown /\ leaving' \subseteq leaving
    /\ UNCHANGED <<saved, record, starred>>

Next ==
    \/ \E i \in Items : ByHand(i)
    \/ Organise
    \/ Show
    \/ Mirror
    \/ \E i \in Items : Unstar(i)
    \/ GiveUp

Spec == Init /\ [][Next]_vars
=============================================================================
