------------------------------- MODULE Users -------------------------------
(***************************************************************************)
(* Who may use an instance: its accounts (Accounts) or, on a demonstration *)
(* instance, whose administration is closed to them, the visitors and      *)
(* their throw-away spaces (DemoSpaces).                                   *)
(***************************************************************************)
EXTENDS Accounts

CONSTANTS MaxSpace, Links, Seeds, MaxLinks
VARIABLES space, purge

Demo == INSTANCE DemoSpaces

ASSUME DemoAssumption == Demo!DemoConstants

\* A purge takes only the spaces that had expired when it looked, and takes
\* them all in the end: see DemoSpaces.
OnlyExpiredGo == Demo!OnlyExpiredGo
ExpiredGo     == Demo!ExpiredGo
=============================================================================
