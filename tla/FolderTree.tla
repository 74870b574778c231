----------------------------- MODULE FolderTree -----------------------------
(****************************************************************************)
(* folders.service.ts over folders.repository.ts: the requests that change  *)
(* the folder tree, and the ancestor walk.  The server is one thread, so    *)
(* what runs between two awaits is one step, and every await is a database  *)
(* call during which other requests' steps can run.  A request is a record  *)
(* whose field "at" names the call it waits for:                            *)
(*                                                                          *)
(*   create    find_parent -> insert                                        *)
(*   move      find_folder -> find_dest -> find_base -> climb* -> reparent  *)
(*   ancestors find_base -> climb*                                          *)
(*   recent    list* -> count*     (getRecentFiles of file.repository.ts)   *)
(*                                                                          *)
(* deleteFolder is a single call, so it is a single step with no record.    *)
(****************************************************************************)
EXTENDS FiniteSets

CONSTANTS
    Folders,   \* folder ids
    None,      \* NULL
    Requests,  \* request slots: how many requests are in flight at once
    Movers     \* the slots that may carry a moveFolder

ASSUME NoneIsNoFolder == None \notin Folders
ASSUME MoversAreRequests == Movers \subseteq Requests

VARIABLES
    live, used, parent,  \* table Folder, as in FolderHierarchy
    req                  \* req[r]: the request in slot r

tree == <<live, used, parent>>
vars == <<live, used, parent, req>>

Hierarchy == INSTANCE FolderHierarchy
               WITH live <- live, used <- used, parent <- parent

FolderOrNone == Folders \cup {None}

Request == [at   : {"idle", "find_parent", "insert", "find_folder",
                    "find_dest", "find_base", "climb", "reparent",
                    "list", "count"},
            op   : {"none", "create", "move", "ancestors", "recent"},
            id   : FolderOrNone,     \* the folder to move
            dest : FolderOrNone,     \* parentId, newParentId, or the walk's base
            next : FolderOrNone,     \* the id the walk reads next
            seen : SUBSET Folders,   \* getFolderAncestors' array, getAllSubfolderIds' set
            todo : SUBSET Folders]   \* folders listed, children not read yet

NoRequest == [at |-> "idle", op |-> "none", id |-> None, dest |-> None,
              next |-> None, seen |-> {}, todo |-> {}]

Init ==
    /\ live = {}
    /\ used = {}
    /\ parent = [f \in Folders |-> None]
    /\ req = [r \in Requests |-> NoRequest]

-----------------------------------------------------------------------------
(* Requests arrive.  A client names folders it has seen the id of.          *)

Accept(r, op, at, id, dest) ==
    /\ req[r].at = "idle"
    /\ req' = [req EXCEPT ![r] = [at |-> at, op |-> op, id |-> id,
                                  dest |-> dest, next |-> dest, seen |-> {},
                                  todo |-> {f \in {dest} : op = "recent"}]]
    /\ UNCHANGED tree

ArriveCreate(r, p) ==
    IF p = None THEN Accept(r, "create", "insert", None, None)
                ELSE Accept(r, "create", "find_parent", None, p)

ArriveMove(r, f, p) ==
    /\ r \in Movers
    /\ f # p                              \* 'Cannot move folder into itself'
    /\ Accept(r, "move", "find_folder", f, p)

ArriveAncestors(r, p) == Accept(r, "ancestors", "find_base", None, p)

ArriveRecent(r, p) == Accept(r, "recent", "list", None, p)

-----------------------------------------------------------------------------
(* One awaited call each.                                                   *)

Goto(r, label) == req' = [req EXCEPT ![r].at = label]

Reply(r) == req' = [req EXCEPT ![r] = NoRequest]

\* findFolderById(f), whose null is answered with an error.
Find(r, f, label) ==
    /\ IF f \in live THEN Goto(r, label) ELSE Reply(r)
    /\ UNCHANGED tree

FindParent(r) == req[r].at = "find_parent" /\ Find(r, req[r].dest, "insert")

FindFolder(r) == req[r].at = "find_folder" /\ Find(r, req[r].id, "find_dest")

FindDest(r) == req[r].at = "find_dest" /\ Find(r, req[r].dest, "find_base")

\* (Mutant of Insert: without the foreign key.)
InsertAnywhere(r) ==
    /\ req[r].at = "insert"
    /\ \E f \in Folders \ used :
          /\ live' = live \cup {f}
          /\ used' = used \cup {f}
          /\ parent' = [parent EXCEPT ![f] = req[r].dest]
    /\ Reply(r)

\* INSERT INTO Folder: refused by the foreign key when the parent is gone.
Insert(r) ==
    /\ req[r].at = "insert"
    /\ IF req[r].dest \in live \cup {None}
         THEN \E f \in Folders \ used :
                 /\ live' = live \cup {f}
                 /\ used' = used \cup {f}
                 /\ parent' = [parent EXCEPT ![f] = req[r].dest]
         ELSE UNCHANGED tree
    /\ Reply(r)

(****************************************************************************)
(* getFolderAncestors reads the base folder, then one ancestor per          *)
(* iteration.  The base itself is not put in the array.                     *)
(****************************************************************************)
Walking(r) == req[r].at \in {"find_base", "climb"}

\* (Mutant of SeenAfter: the folder just read is not put in the array.)
SeenForgotten(r) == req[r].seen

\* The array once the awaited read of req[r].next has been handled.
SeenAfter(r) ==
    req[r].seen \cup {f \in {req[r].next} : req[r].at = "climb" /\ f \in live}

\* The folder just read has a parentId: read that one next.
Climb(r) ==
    /\ Walking(r)
    /\ req[r].next \in live
    /\ parent[req[r].next] # None
    /\ req' = [req EXCEPT ![r].at = "climb",
                          ![r].next = parent[req[r].next],
                          ![r].seen = SeenAfter(r)]
    /\ UNCHANGED tree

\* (Mutant of ClimbDone: moveFolder does not look for id in the array.)
ClimbDoneUnchecked(r) ==
    /\ Walking(r)
    /\ req[r].next \in live => parent[req[r].next] = None
    /\ IF req[r].op = "move" THEN Goto(r, "reparent") ELSE Reply(r)
    /\ UNCHANGED tree

\* A root, or no row: the array is complete.  moveFolder looks for id in it.
ClimbDone(r) ==
    /\ Walking(r)
    /\ req[r].next \in live => parent[req[r].next] = None
    /\ IF req[r].op = "move" /\ req[r].id \notin SeenAfter(r)
         THEN req' = [req EXCEPT ![r].at = "reparent",
                                 ![r].seen = SeenAfter(r)]
         ELSE Reply(r)      \* 'Cannot move folder into a subfolder', or the answer
    /\ UNCHANGED tree

\* UPDATE Folder SET parentId: refused when either row is gone by now.
Reparent(r) ==
    /\ req[r].at = "reparent"
    /\ IF req[r].id \in live /\ req[r].dest \in live
         THEN parent' = [parent EXCEPT ![req[r].id] = req[r].dest]
         ELSE UNCHANGED parent
    /\ Reply(r)
    /\ UNCHANGED <<live, used>>

(****************************************************************************)
(* getAllSubfolderIds reads the children of one folder per await, puts each *)
(* in a set and recurses into it whether or not the set already held it.    *)
(* In what order a row's children come is not specified, so any pending     *)
(* folder may be next.                                                      *)
(****************************************************************************)
ListChildren(r) ==
    /\ req[r].at \in {"list", "count"}
    /\ \E f \in req[r].todo :
          req' = [req EXCEPT ![r].seen = @ \cup {f},
                             ![r].todo = (@ \ {f}) \cup {g \in live : parent[g] = f}]
    /\ UNCHANGED tree

\* The page of files is read; the folders are walked again for the total.
ListDone(r) ==
    /\ req[r].at = "list"
    /\ req[r].todo = {}
    /\ req' = [req EXCEPT ![r].at = "count",
                          ![r].seen = {},
                          ![r].todo = {req[r].dest}]
    /\ UNCHANGED tree

CountDone(r) ==
    /\ req[r].at = "count"
    /\ req[r].todo = {}
    /\ Reply(r)
    /\ UNCHANGED tree

\* DELETE FROM Folder: the foreign key sets the children's parentId to NULL.
DeleteFolder(f) ==
    /\ f \in live
    /\ live' = live \ {f}
    /\ parent' = [g \in Folders |->
                    IF g = f \/ parent[g] = f THEN None ELSE parent[g]]
    /\ UNCHANGED <<used, req>>

\* Any call can reject (lost connection, timeout): every handler then answers
\* with an error and has written nothing.
CallFails(r) ==
    /\ req[r].at # "idle"
    /\ Reply(r)
    /\ UNCHANGED tree

-----------------------------------------------------------------------------
Arrive(r) ==
    \/ \E p \in used \cup {None} : ArriveCreate(r, p)
    \/ \E f, p \in used : ArriveMove(r, f, p)
    \/ \E p \in used : ArriveAncestors(r, p) \/ ArriveRecent(r, p)

\* The database answers the call that request r waits for.
Answer(r) ==
    \/ FindParent(r)
    \/ FindFolder(r)
    \/ FindDest(r)
    \/ Insert(r)
    \/ Climb(r)
    \/ ClimbDone(r)
    \/ Reparent(r)
    \/ ListChildren(r)
    \/ ListDone(r)
    \/ CountDone(r)
    \/ CallFails(r)

Next ==
    \/ \E r \in Requests : Arrive(r) \/ Answer(r)
    \/ \E f \in Folders : DeleteFolder(f)

Spec == Init /\ [][Next]_vars

\* Every awaited call is answered or rejects; nothing is assumed of the clients.
FairSpec == Spec /\ \A r \in Requests : WF_vars(Answer(r))

-----------------------------------------------------------------------------
(* Properties                                                               *)

\* A request names only ids that were issued; only a Movers slot moves, and
\* never a folder into itself; a walk starts at dest with an empty array.
RequestOK(r) ==
    LET q == req[r] IN
    /\ q.seen \cup q.todo \subseteq used
    /\ q.at \in {"find_folder", "find_dest", "find_base", "climb", "reparent",
                "list", "count"} =>
         /\ q.dest \in used
         /\ q.next \in used
    /\ q.at \in {"find_folder", "find_dest", "reparent"} => q.op = "move"
    /\ q.op = "move" => r \in Movers /\ q.id \in used /\ q.id # q.dest
    /\ q.at \in {"find_folder", "find_dest", "find_base"} =>
         q.next = q.dest /\ q.seen = {}

\* The rows and the requests are well formed: the foreign key on parentId
\* holds, and a request's fields are those its operation uses.
TypeOK ==
    /\ Hierarchy!RowsOK
    /\ req \in [Requests -> Request]
    /\ \A r \in Requests : RequestOK(r)

\* No folder is inside itself, however the steps of the requests in flight
\* interleave: what 'Cannot move folder into a subfolder' is there to ensure.
Forest == Hierarchy!Forest

\* What the walk of a move has read and the folder it reads next hold the
\* parent of every folder read, whatever was created or deleted meanwhile;
\* once the walk is over the folders read are closed under parentId and the
\* folder being moved is not one of them.
Visited(r) == req[r].seen \cup {req[r].dest}

WalkCovers ==
    \A r \in Movers :
        /\ req[r].at = "climb" =>
             \A f \in Visited(r) : parent[f] \in Visited(r) \cup {req[r].next, None}
        /\ req[r].at = "reparent" =>
             /\ \A f \in Visited(r) : parent[f] \in Visited(r) \cup {None}
             /\ req[r].id \notin Visited(r)

\* What makes Forest inductive: it needs WalkCovers when a move is written.
IInv == TypeOK /\ WalkCovers /\ Forest

\* The walk of a move reads no folder twice, whatever is created or deleted
\* under it (getFolderAncestors, folders.service.ts 99-113): it ends after as
\* many reads as there are folders.
ReadOnce == \A r \in Movers : req[r].at = "climb" => req[r].next \notin Visited(r)

\* Every step of the requests is a step of the abstract forest or changes no
\* row: in particular the write of a move, which comes several awaits after
\* the check, is still a legal move when it happens.
ImplementsHierarchy == Hierarchy!Spec

\* Every request is answered: both walks end, the one up and the one down,
\* unless folders are moved for ever under them.
Answered ==
    \/ []<><<\E r \in Requests : Reparent(r)>>_tree
    \/ \A r \in Requests : []<>(req[r].at = "idle")
=============================================================================
