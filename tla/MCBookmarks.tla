---------------------------- MODULE MCBookmarks ----------------------------
(***************************************************************************)
(* Instances of BookmarkParser and BookmarkTransfer for TLC.               *)
(*                                                                         *)
(* A file of another program: every sequence of at most MaxTags calls of   *)
(* the HTML parser.  It is read with nothing else, in the behaviours that  *)
(* start from an empty account.                                            *)
(*                                                                         *)
(* A file of Excerpta: every tree of at most three folders with two names, *)
(* and two links; an import can add three folders to three.                *)
(***************************************************************************)
EXTENDS BookmarkParser

SixFolders == 1 .. 6
ThreeFolders == 1 .. 3
TwoLinks == {1, 2}
TwoNames == {<<"a">>, <<"b">>}
LinkTexts == <<{<<<<>>, <<>>>>, <<<<"note">>, <<>>>>, <<<<>>, <<"description">>>>},
               {<<<<>>, <<>>>>}>>

CONSTANTS FolderIds, FirstIds, Urls, Names, Texts, MaxEdits
VARIABLES folders, links, file, exported, edits, into

Own == INSTANCE BookmarkTransfer
ownVars == <<folders, links, file, exported, edits, into>>

BookmarksInit == Init /\ Own!Init

ForeignStep ==
    /\ Own!Existing(folders) = {} /\ Own!Existing(links) = {} /\ file = None
    /\ Next
    /\ UNCHANGED ownVars

OwnStep == read = <<>> /\ Own!Next /\ UNCHANGED vars

BookmarksSpec ==
    BookmarksInit /\ [][ForeignStep \/ OwnStep]_<<vars, ownVars>>

\* What comes back of the export of an account: see BookmarkTransfer.
ImportRestores == Own!ImportRestores

\* When it comes back as it was: see BookmarkTransfer.
RoundTripExact == Own!RoundTripExact
=============================================================================
