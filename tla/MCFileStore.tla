---------------------------- MODULE MCFileStore -----------------------------
(****************************************************************************)
(* FileStore and DocumentTools for TLC.  Both contain processDocument: the  *)
(* first with the upload around it, the second, without the objects, with   *)
(* the tools that read its rows.  The tools write nothing, so a behaviour   *)
(* runs one of the two modules.                                             *)
(****************************************************************************)
EXTENDS FileStore, TLC

CONSTANTS Calls, MaxChunks

ASSUME MaxChunksType == MaxChunks \in Nat
ASSUME FilesAreFinite == IsFiniteSet(Files)

VARIABLES step, total, listed, chunks, call, focus

Tools == INSTANCE DocumentTools WITH userDocument <- listed

storeVars == vars
toolVars == <<step, total, listed, chunks, call>>

InitBoth == Init /\ Tools!Init /\ focus \in {"store", "tools"}

NextStore == focus = "store" /\ Next /\ UNCHANGED <<toolVars, focus>>
NextTools == focus = "tools" /\ Tools!Next /\ UNCHANGED <<storeVars, focus>>

SpecBoth == InitBoth /\ [][NextStore \/ NextTools]_<<storeVars, toolVars, focus>>

\* The variables of both modules have their types.
TypesOK == TypeOK /\ Tools!TypeOK

\* The tools find what was processed before they were called, see DocumentTools.
FoundIfProcessed == Tools!FoundIfProcessed

\* The chunks they reply with have a name, see DocumentTools.
NamedIfKept == Tools!NamedIfKept

Symmetry ==
    Permutations(Files) \cup Permutations(Names) \cup Permutations(Requests)
      \cup Permutations(Folders)
=============================================================================
