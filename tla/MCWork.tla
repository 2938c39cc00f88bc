------------------------------- MODULE MCWork -------------------------------
(***************************************************************************)
(* An instance of BackgroundWork for TLC.  Its two parts share no step; a  *)
(* behaviour is of one of them: `moving` tells which.                      *)
(***************************************************************************)
EXTENDS BackgroundWork, TLC

VARIABLE moving

WorkInit ==
    /\ Init /\ Tasks!Init
    /\ moving \in {"checks", "tasks"}
    /\ moving = "tasks" => links = {}

WorkNext ==
    \/ moving = "checks" /\ Next /\ UNCHANGED <<work, moving>>
    \/ moving = "tasks" /\ Tasks!Next /\ UNCHANGED <<vars, moving>>

WorkSpec ==
    /\ WorkInit /\ [][WorkNext]_<<vars, work, moving>>
    /\ Fairness /\ Tasks!Fairness
=============================================================================
