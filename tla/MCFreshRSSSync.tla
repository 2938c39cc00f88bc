--------------------------- MODULE MCFreshRSSSync ---------------------------
(***************************************************************************)
(* Instances of FreshRSSSync for TLC.  The safety properties are checked   *)
(* on two scenes, of which `scene` tells which one is played:              *)
(*   - two callers, one link and two names of folders;                     *)
(*   - one caller at a time, two links and two articles, one name.         *)
(***************************************************************************)
EXTENDS FreshRSSSync, TLC

CONSTANTS u1, u2, i1, i2, p1, p2, A, B

\* Two addresses with an article each.
OneEach == i1 :> u1 @@ i2 :> u2

Callers == {p1, p2}
Symmetry == Permutations(Callers)

VARIABLE scene

SceneInit ==
    /\ Init
    /\ scene \in {"callers", "links"}
    /\ scene = "links" => config.group = A

\* What a step of each scene is held to.
InScene ==
    /\ scene = "callers" => links'[u2] = None /\ starred' \subseteq {i1}
    /\ scene = "links" =>
          /\ config'.group = A /\ \A f \in FolderIds : folders'[f] # B
          /\ Cardinality({p \in Passes : pass'[p].pc # "idle"}) <= 1

SceneSpec == SceneInit /\ [][Next /\ InScene /\ UNCHANGED scene]_<<vars, scene>>
=============================================================================
