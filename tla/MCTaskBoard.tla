---------------------------- MODULE MCTaskBoard -----------------------------
(****************************************************************************)
(* TaskBoard for TLC: two companies, and a client of the first.            *)
(****************************************************************************)
EXTENDS TaskBoard, TLC

CONSTANTS c1, c2, u1, p1

MCMemberOf == u1 :> {c1}

\* An intake that says everything, and one that says little and takes back.
MCIntakes ==
    {[gives |-> Details, clears |-> {}, place |-> [t \in Tables |-> p1]],
     [gives |-> {}, clears |-> {"intendToHaveAsset"},
      place |-> [t \in Tables |-> IF t = "countries" THEN p1 ELSE None]]}

RequestSymmetry == Permutations(Requests)
=============================================================================
