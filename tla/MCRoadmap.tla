----------------------------- MODULE MCRoadmap ------------------------------
(****************************************************************************)
(* Roadmap, with the durations of the seeded flow, and Meetings for TLC:    *)
(* the two things a dissolution has dates of.  They share no state, so a    *)
(* behaviour runs one of the two.                                           *)
(****************************************************************************)
EXTENDS Roadmap, Meetings, TLC

VARIABLE focus

bothVars == <<vars, meetingsVars, focus>>

InitBoth == Init /\ MeetingsInit /\ focus \in {"roadmap", "meetings"}

NextRoadmap  == focus = "roadmap" /\ Next /\ UNCHANGED <<meetingsVars, focus>>
NextMeetings == focus = "meetings" /\ MeetingsNext /\ UNCHANGED <<vars, focus>>

SpecBoth == InitBoth /\ [][NextRoadmap \/ NextMeetings]_bothVars

\* The variables of both modules have their types.
TypesOK == TypeOK /\ MeetingsTypeOK

Symmetry ==
    Permutations(Ids) \cup Permutations(Dates) \cup Permutations(Requests)
=============================================================================
