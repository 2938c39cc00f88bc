----------------------------- MODULE MCAccounts -----------------------------
(***************************************************************************)
(* An instance of Users for TLC.  The accounts and the spaces share no     *)
(* step: `moving` tells which of them moves.                               *)
(***************************************************************************)
EXTENDS Users

VARIABLE moving

all == <<vars, space, purge, moving>>

\* The accounts, and the settings of the sign-in, are no matter to the spaces.
UsersInit ==
    /\ Init /\ Demo!Init
    /\ moving \in {"accounts", "spaces"}
    /\ moving = "spaces" =>
          /\ settings = [admin_email |-> FALSE, require_verified_email |-> TRUE]
          /\ Accounts = {}

UsersNext ==
    \/ moving = "accounts" /\ Next /\ UNCHANGED <<space, purge, moving>>
    \/ moving = "spaces" /\ Demo!Next /\ UNCHANGED <<vars, moving>>

UsersSpec == UsersInit /\ [][UsersNext]_all /\ (moving = "spaces" => Demo!Fairness)
=============================================================================
