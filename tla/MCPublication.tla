--------------------------- MODULE MCPublication ---------------------------
(***************************************************************************)
(* Two publishers; one add-on with two versions, one of them built twice,  *)
(* and a second add-on that shares the index.                              *)
(***************************************************************************)
EXTENDS Publication, TLC

CONSTANTS a1, a2, v1, v2, b1, b2, b3, b4

MCArtifacts == {[addon |-> a1, version |-> v1, build |-> b1],
                [addon |-> a1, version |-> v2, build |-> b2],
                [addon |-> a1, version |-> v2, build |-> b3],
                [addon |-> a2, version |-> v1, build |-> b4]}

MCDeclares == b1 :> v1 @@ b2 :> v2 @@ b3 :> v2 @@ b4 :> v1

PublisherSymmetry == Permutations(Publishers)
=============================================================================
