-------------------------- MODULE ArtifactRegistry --------------------------
(***************************************************************************)
(* What the artifact store promises: an artifact is registered once, whole *)
(* and under one id; what was answered to a caller is never changed or     *)
(* forgotten, and a power failure can only take back a registration nobody *)
(* was told of.  ArtifactStore implements this specification.              *)
(***************************************************************************)
CONSTANTS Ids, Contents, Absent

VARIABLES
    registered,   \* the content registered under each id, or Absent
    promised      \* the ids whose registration was answered

vars == <<registered, promised>>

Init ==
    /\ registered = [i \in Ids |-> Absent]
    /\ promised = {}

Register(i, c) ==
    /\ registered[i] = Absent
    /\ registered' = [registered EXCEPT ![i] = c]
    /\ UNCHANGED promised

Promise(i) ==
    /\ registered[i] # Absent
    /\ promised' = promised \cup {i}
    /\ UNCHANGED registered

PowerLoss(S) ==
    /\ S \cap promised = {}
    /\ registered' = [i \in Ids |-> IF i \in S THEN Absent ELSE registered[i]]
    /\ UNCHANGED promised

Next ==
    \/ \E i \in Ids, c \in Contents : Register(i, c)
    \/ \E i \in Ids : Promise(i)
    \/ \E S \in SUBSET Ids : PowerLoss(S)

Spec == Init /\ [][Next]_vars
=============================================================================
