---------------------------- MODULE MCOnboarding ----------------------------
(****************************************************************************)
(* Onboarding for TLC: requests list the one place there is, or no place,   *)
(* or leave the list out.  Either one company is registered, in every way;  *)
(* or two are, of one owner or of two, whose requests leave the locations   *)
(* out and say words of the enums: what companies share is their users.     *)
(* Folder ids and request slots are interchangeable.                        *)
(****************************************************************************)
EXTENDS Onboarding, TLC

VARIABLE focus

AllOrNone == {Places, {}}

\* Bounds: the one company, its owner and three folders; what is asked for two.
OneCompany ==
    LET c == CHOOSE c \in Companies : TRUE
        u == CHOOSE u \in Users : TRUE IN
    /\ Stored \subseteq {c}
    /\ \A r \in Requests : At(r, "create") => Stored = {} /\ req[r].u = u
    /\ Cardinality({r \in Requests : At(r, "create")}) <= 1
    /\ Cardinality(roots[c]) <= 3

InBrief ==
    \A r \in Requests :
        /\ req[r].places = None
        /\ req[r].said \in CompanyStructureEnum \cup CurrentStage \cup {None}

InitBounded == Init /\ focus \in {"one", "two"}

NextOne == focus = "one" /\ Next /\ OneCompany' /\ UNCHANGED focus
NextTwo == focus = "two" /\ Next /\ InBrief' /\ UNCHANGED focus

SpecBounded == InitBounded /\ [][NextOne \/ NextTwo]_<<vars, focus>>

Symmetry == Permutations(Folders) \cup Permutations(Requests)
=============================================================================
