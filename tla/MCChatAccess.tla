---------------------------- MODULE MCChatAccess ----------------------------
(****************************************************************************)
(* ThreadList and ChatAccess for TLC.  The first looks at the threads of    *)
(* some users, the second at the companies and at how a thread is created:    *)
(* they have only the insertion of a thread in common, so a behaviour runs  *)
(* one of the two, and all combinations of their states need no checking.   *)
(****************************************************************************)
EXTENDS ThreadList, TLC

CONSTANTS Companies, Services

VARIABLES paid, service, chatCompany, thread, access, promised, focus

Access == INSTANCE ChatAccess WITH req <- access

ASSUME AccessConstants == Access!ConstantsOK

listVars == vars
accessVars == <<paid, service, chatCompany, thread, access, promised>>

InitBoth == Init /\ Access!Init /\ focus \in {"access", "lists"}

NextLists  == focus = "lists" /\ Next /\ UNCHANGED <<accessVars, focus>>
NextAccess == focus = "access" /\ Access!Next /\ UNCHANGED <<listVars, focus>>

SpecBoth == InitBoth /\ [][NextLists \/ NextAccess]_<<listVars, accessVars, focus>>

\* The variables of both modules have their types.
TypesOK == TypeOK /\ Access!TypeOK

\* What a change of services reports as done is done, see ChatAccess.
ServiceIsBacked == Access!ServiceIsBacked

\* Nothing undoes the "done" of a lawyer's request, see ChatAccess.
RequestIsKept == Access!RequestIsKept

Symmetry ==
    Permutations(Users) \cup Permutations(Companies) \cup Permutations(Threads)
      \cup Permutations(Requests) \cup Permutations(Categories)
=============================================================================
