-------------------------- MODULE FolderTreeProofs --------------------------
(****************************************************************************)
(* For any number of folders and of requests in flight: as long as at most  *)
(* one moveFolder is in flight, no folder ever ends up inside itself, and   *)
(* the requests implement the atomic FolderHierarchy.                       *)
(****************************************************************************)
EXTENDS FolderTree, TLAPS

\* At most one slot carries moves.
OneMover == \A r, s \in Movers : r = s

(****************************************************************************)
(* Three facts about parent functions, one per write.                       *)
(****************************************************************************)
IsForest(p) == \A S \in SUBSET Folders : S # {} => \E f \in S : p[f] \notin S

\* A new folder is a leaf: nothing that existed hangs below it.
LEMMA InsertKeepsForest ==
    ASSUME NEW p \in [Folders -> FolderOrNone], IsForest(p),
           NEW f \in Folders, NEW d \in FolderOrNone, d # f,
           \A g \in Folders : p[g] # f
    PROVE  IsForest([p EXCEPT ![f] = d])
<1> DEFINE q == [p EXCEPT ![f] = d]
<1> SUFFICES ASSUME NEW S \in SUBSET Folders, S # {}
             PROVE  \E g \in S : q[g] \notin S
    BY DEF IsForest
<1>1. CASE S \ {f} = {}
    <2>1. S = {f}
        BY <1>1
    <2>2. q[f] = d
        OBVIOUS
    <2> QED
        BY <2>1, <2>2
<1>2. CASE S \ {f} # {}
    <2>1. PICK g \in S \ {f} : p[g] \notin S \ {f}
        BY <1>2 DEF IsForest
    <2>2. p[g] \notin S
        BY <2>1
    <2> QED
        BY <2>1, <2>2
<1> QED
    BY <1>1, <1>2

\* Cutting parents off a forest leaves a forest.
LEMMA CutKeepsForest ==
    ASSUME NEW p, IsForest(p), NEW q,
           \A g \in Folders : q[g] = p[g] \/ q[g] = None
    PROVE  IsForest(q)
BY NoneIsNoFolder DEF IsForest

\* Hanging f below d keeps a forest if some closed set holds d and not f.
LEMMA MoveKeepsForest ==
    ASSUME NEW p \in [Folders -> FolderOrNone], IsForest(p),
           NEW f \in Folders, NEW d \in Folders,
           NEW W \in SUBSET Folders, d \in W, f \notin W,
           \A g \in W : p[g] \in W \cup {None}
    PROVE  IsForest([p EXCEPT ![f] = d])
<1> DEFINE q == [p EXCEPT ![f] = d]
<1> SUFFICES ASSUME NEW S \in SUBSET Folders, S # {}
             PROVE  \E g \in S : q[g] \notin S
    BY DEF IsForest
<1>1. CASE S \cap W # {}
    <2>1. PICK g \in S \cap W : p[g] \notin S \cap W
        BY <1>1 DEF IsForest
    <2>2. p[g] \notin S
        BY <2>1, NoneIsNoFolder
    <2>3. q[g] = p[g]
        BY <2>1
    <2> QED
        BY <2>1, <2>2, <2>3
<1>2. CASE S \cap W = {} /\ f \in S
    <2>1. q[f] = d
        OBVIOUS
    <2> QED
        BY <1>2, <2>1
<1>3. CASE f \notin S
    <2>1. PICK g \in S : p[g] \notin S
        BY DEF IsForest
    <2> QED
        BY <1>3, <2>1
<1> QED
    BY <1>1, <1>2, <1>3

(****************************************************************************)
(* Well-formed rows and requests.                                           *)
(****************************************************************************)
LEMMA InitTypeOK == Init => TypeOK
BY DEF Init, TypeOK, RequestOK, NoRequest, Request, FolderOrNone, Hierarchy!RowsOK

LEMMA NextTypeOK == TypeOK /\ [Next]_vars => TypeOK'
<1> SUFFICES ASSUME TypeOK, [Next]_vars
             PROVE  TypeOK'
    OBVIOUS
<1> USE NoneIsNoFolder DEF TypeOK, RequestOK, Request, FolderOrNone,
        Hierarchy!RowsOK, tree
<1>1. ASSUME NEW r \in Requests, Arrive(r)
      PROVE  TypeOK'
    BY <1>1 DEF Arrive, ArriveCreate, ArriveMove, ArriveAncestors, ArriveRecent, Accept
<1>2. ASSUME NEW r \in Requests, FindParent(r)
      PROVE  TypeOK'
    BY <1>2 DEF FindParent, Find, Goto, Reply, NoRequest
<1>3. ASSUME NEW r \in Requests, FindFolder(r)
      PROVE  TypeOK'
    BY <1>3 DEF FindFolder, Find, Goto, Reply, NoRequest
<1>4. ASSUME NEW r \in Requests, FindDest(r)
      PROVE  TypeOK'
    BY <1>4 DEF FindDest, Find, Goto, Reply, NoRequest
<1>5. ASSUME NEW r \in Requests, Insert(r)
      PROVE  TypeOK'
    BY <1>5 DEF Insert, Reply, NoRequest
<1>6. ASSUME NEW r \in Requests, Climb(r)
      PROVE  TypeOK'
    <2>1. SeenAfter(r) \in SUBSET used /\ req[r].next \in Folders
        BY <1>6 DEF Climb, SeenAfter
    <2>2. parent[req[r].next] \in used
        BY <1>6, <2>1 DEF Climb
    <2> DEFINE q == [req[r] EXCEPT !.at = "climb", !.next = parent[req[r].next],
                                   !.seen = SeenAfter(r)]
    <2>3. q \in Request
        <3>1. /\ req[r] \in Request
              /\ SeenAfter(r) \in SUBSET Folders
              /\ parent[req[r].next] \in FolderOrNone
            BY <2>1, <2>2
        <3> QED
            BY <3>1 DEF Request
    <2>4. req' = [req EXCEPT ![r] = q] /\ UNCHANGED tree
        BY <1>6 DEF Climb
    <2>5. RequestOK(r)'
        BY <1>6, <2>1, <2>2, <2>4 DEF Climb, Walking
    <2> QED
        BY SMTT(30), <2>3, <2>4, <2>5
<1>7. ASSUME NEW r \in Requests, ClimbDone(r)
      PROVE  TypeOK'
    BY <1>7 DEF ClimbDone, Walking, SeenAfter, Reply, NoRequest
<1>8. ASSUME NEW r \in Requests, Reparent(r)
      PROVE  TypeOK'
    BY <1>8 DEF Reparent, Reply, NoRequest
<1>9. ASSUME NEW r \in Requests, CallFails(r)
      PROVE  TypeOK'
    BY <1>9 DEF CallFails, Reply, NoRequest
<1>10. ASSUME NEW r \in Requests, ListChildren(r)
       PROVE  TypeOK'
    <2>1. PICK f \in req[r].todo :
                req' = [req EXCEPT ![r].seen = @ \cup {f},
                                   ![r].todo = (@ \ {f}) \cup {g \in live : parent[g] = f}]
        BY <1>10 DEF ListChildren
    <2> DEFINE s == req[r].seen \cup {f}
               t == (req[r].todo \ {f}) \cup {g \in live : parent[g] = f}
               q == [req[r] EXCEPT !.seen = s, !.todo = t]
    <2>2. req[r] \in Request /\ s \in SUBSET used /\ t \in SUBSET used
        BY <2>1
    <2>3. q \in Request /\ q.seen = s /\ q.todo = t /\ q.at = req[r].at
          /\ q.op = req[r].op /\ q.id = req[r].id /\ q.dest = req[r].dest
          /\ q.next = req[r].next
        <3> HIDE DEF s, t
        <3> QED
            BY <2>2 DEF Request
    <2>4. req' = [req EXCEPT ![r] = q] /\ UNCHANGED tree
        BY <1>10, <2>1 DEF ListChildren
    <2>5. RequestOK(r)'
        BY ZenonT(40), <1>10, <2>2, <2>3, <2>4 DEF ListChildren
    <2> HIDE DEF q
    <2> QED
        BY <2>3, <2>4, <2>5
<1>11. ASSUME NEW r \in Requests, ListDone(r)
       PROVE  TypeOK'
    <2>1. req[r] \in Request /\ RequestOK(r) /\ req[r].dest \in used
        BY <1>11 DEF ListDone
    <2> DEFINE q == [req[r] EXCEPT !.at = "count", !.seen = {}, !.todo = {req[r].dest}]
    <2>2. q \in Request /\ RequestOK(r)'
        BY <1>11, <2>1 DEF ListDone
    <2>3. req' = [req EXCEPT ![r] = q] /\ UNCHANGED tree
        BY <1>11 DEF ListDone
    <2> HIDE DEF q
    <2> QED
        BY <2>2, <2>3
<1>12. ASSUME NEW r \in Requests, CountDone(r)
       PROVE  TypeOK'
    BY <1>12 DEF CountDone, Reply, NoRequest
<1>13. ASSUME NEW f \in Folders, DeleteFolder(f)
       PROVE  TypeOK'
    BY <1>13 DEF DeleteFolder
<1>14. CASE UNCHANGED vars
    BY <1>14 DEF vars
<1> QED
    BY <1>1, <1>2, <1>3, <1>4, <1>5, <1>6, <1>7, <1>8, <1>9, <1>13, <1>14, <1>10,
       <1>11, <1>12
    DEF Next, Answer

\* The rows respect the foreign key and a request's fields agree with its
\* operation (folders.service.ts 28-113), whatever runs concurrently.
THEOREM TypeCorrect == Spec => []TypeOK
<1>1. Init => TypeOK
    BY InitTypeOK
<1>2. TypeOK /\ [Next]_vars => TypeOK'
    BY NextTypeOK
<1> QED
    BY <1>1, <1>2, PTL DEF Spec

(****************************************************************************)
(* The inductive invariant.  Each step below says how one kind of write     *)
(* keeps Forest (the three lemmas above) and WalkCovers.                    *)
(****************************************************************************)
LEMMA InitIInv == Init => IInv
<1> SUFFICES ASSUME Init
             PROVE  WalkCovers /\ Forest
    BY InitTypeOK DEF IInv
<1>1. WalkCovers
    BY MoversAreRequests DEF Init, WalkCovers, NoRequest
<1>2. Forest
    BY NoneIsNoFolder DEF Init, Forest, Hierarchy!Forest
<1> QED
    BY <1>1, <1>2

LEMMA ForestIsForest == Forest <=> IsForest(parent)
BY DEF Forest, Hierarchy!Forest, IsForest

\* No other slot carries a move while r does, so only r's own steps and the
\* rows' leaving or arriving can touch what WalkCovers says.
LEMMA QuietTree ==
    ASSUME IInv, UNCHANGED tree,
           NEW r \in Requests,
           \A s \in Requests \ {r} : req'[s] = req[s],
           req'[r].at \notin {"climb", "reparent"}
    PROVE  WalkCovers' /\ Forest'
<1>1. Forest'
    BY DEF IInv, Forest, Hierarchy!Forest, tree
<1>2. WalkCovers'
    BY MoversAreRequests DEF IInv, WalkCovers, Visited, tree
<1> QED
    BY <1>1, <1>2

LEMMA InsertStep ==
    ASSUME IInv, NEW r \in Requests, Insert(r)
    PROVE  WalkCovers' /\ Forest'
<1>1. CASE UNCHANGED tree
    BY <1>1, QuietTree DEF IInv, TypeOK, Insert, Reply, NoRequest
<1>2. CASE ~ UNCHANGED tree
    <2>1. PICK f \in Folders \ used :
                /\ live' = live \cup {f}
                /\ used' = used \cup {f}
                /\ parent' = [parent EXCEPT ![f] = req[r].dest]
        BY <1>2 DEF Insert
    <2>2. req[r].dest \in live \cup {None}
        BY <1>2 DEF Insert
    <2> USE DEF IInv, TypeOK, Hierarchy!RowsOK
    <2>3. Forest'
        <3>1. \A g \in Folders : parent[g] # f
            BY <2>1, NoneIsNoFolder
        <3>2. parent \in [Folders -> FolderOrNone] /\ req[r].dest \in FolderOrNone
            BY <2>2 DEF FolderOrNone
        <3>3. req[r].dest # f
            BY <2>1, <2>2, NoneIsNoFolder
        <3>4. IsForest(parent)
            BY ForestIsForest
        <3>5. IsForest(parent')
            BY <2>1, <3>1, <3>2, <3>3, <3>4, InsertKeepsForest
        <3> QED
            BY <3>5 DEF Forest, Hierarchy!Forest, IsForest
    <2>4. WalkCovers'
        <3> SUFFICES ASSUME NEW m \in Movers, m # r, req[m].at \in {"climb", "reparent"}
                     PROVE  \A g \in Visited(m) : parent'[g] = parent[g] /\ Visited(m)' = Visited(m)
            BY MoversAreRequests DEF WalkCovers, Insert, Reply, NoRequest, Visited
        <3>1. RequestOK(m) /\ req'[m] = req[m]
            BY MoversAreRequests DEF Insert, Reply
        <3>2. Visited(m) \subseteq used
            BY <3>1 DEF RequestOK, Visited
        <3> QED
            BY <2>1, <3>1, <3>2 DEF Visited
    <2> QED
        BY <2>3, <2>4
<1> QED
    BY <1>1, <1>2

LEMMA ClimbStep ==
    ASSUME IInv, NEW r \in Requests, Climb(r) \/ ClimbDone(r)
    PROVE  WalkCovers' /\ Forest'
<1> USE DEF IInv, TypeOK, Hierarchy!RowsOK
<1>1. UNCHANGED tree /\ Forest'
    BY DEF Climb, ClimbDone, Forest, Hierarchy!Forest, tree
<1>2. \A m \in Movers \ {r} : req'[m] = req[m]
    BY MoversAreRequests DEF Climb, ClimbDone, Reply
<1>3. RequestOK(r) /\ req[r] \in Request
    OBVIOUS
\* What the walk knew before this step, whether or not it has left the base.
<1>4. r \in Movers =>
        \A f \in Visited(r) \ {req[r].next} :
            parent[f] \in Visited(r) \cup {req[r].next, None}
    <2>1. CASE req[r].at = "climb"
        BY <2>1 DEF WalkCovers
    <2>2. CASE req[r].at = "find_base"
        BY <1>3, <2>2 DEF Visited, RequestOK
    <2> QED
        BY <2>1, <2>2 DEF Climb, ClimbDone, Walking
<1>5. CASE Climb(r)
    <2>1. /\ req'[r].at = "climb"
          /\ req'[r].next = parent[req[r].next]
          /\ req'[r].seen = SeenAfter(r)
          /\ req'[r].dest = req[r].dest
        BY <1>3, <1>5 DEF Climb, Request
    <2>2. r \in Movers =>
            \A f \in Visited(r)' : parent[f] \in Visited(r)' \cup {req'[r].next, None}
        BY <1>3, <1>4, <1>5, <2>1 DEF Climb, Walking, SeenAfter, Visited, RequestOK
    <2> QED
        BY <1>1, <1>2, <2>1, <2>2 DEF WalkCovers, Visited, tree
<1>6. CASE ClimbDone(r)
    <2>1. CASE req[r].op = "move" /\ req[r].id \notin SeenAfter(r)
        <3>1. /\ req'[r].at = "reparent"
              /\ req'[r].seen = SeenAfter(r)
              /\ req'[r].dest = req[r].dest
              /\ req'[r].id = req[r].id
            BY <1>3, <1>6, <2>1 DEF ClimbDone, Request
        <3>2. req[r].id \notin Visited(r)'
            BY <1>3, <2>1, <3>1 DEF Visited, RequestOK
        <3>3. r \in Movers /\ parent[req[r].next] = None
            BY <1>3, <1>6, <2>1 DEF ClimbDone, Walking, RequestOK
        <3>4. \A f \in Visited(r)' : parent[f] \in Visited(r)' \cup {None}
            BY <1>3, <1>4, <1>6, <3>1, <3>3
            DEF ClimbDone, Walking, SeenAfter, Visited, RequestOK
        <3> QED
            BY <1>1, <1>2, <3>1, <3>2, <3>4 DEF WalkCovers, Visited, tree
    <2>2. CASE ~ (req[r].op = "move" /\ req[r].id \notin SeenAfter(r))
        BY <1>6, <2>2, QuietTree DEF ClimbDone, Reply, NoRequest
    <2> QED
        BY <2>1, <2>2
<1> QED
    BY <1>5, <1>6

LEMMA ReparentStep ==
    ASSUME IInv, OneMover, NEW r \in Requests, Reparent(r)
    PROVE  WalkCovers' /\ Forest'
<1> USE DEF IInv, TypeOK, Hierarchy!RowsOK
<1>1. RequestOK(r) /\ r \in Movers
    BY DEF RequestOK, Reparent
<1>2. WalkCovers'
    BY <1>1 DEF WalkCovers, OneMover, Reparent, Reply, NoRequest
<1>3. CASE UNCHANGED parent
    BY <1>2, <1>3 DEF Forest, Hierarchy!Forest
<1>4. CASE ~ UNCHANGED parent
    <2> DEFINE W == Visited(r)
    <2>1. parent' = [parent EXCEPT ![req[r].id] = req[r].dest]
        BY <1>4 DEF Reparent
    <2>2. req[r].id \in Folders /\ req[r].dest \in Folders
        BY <1>4 DEF Reparent
    <2>3. W \in SUBSET Folders /\ req[r].dest \in W
        BY <1>1, <2>2 DEF Visited, RequestOK
    <2>4. req[r].id \notin W /\ \A g \in W : parent[g] \in W \cup {None}
        BY <1>1 DEF WalkCovers, Reparent
    <2>5. parent \in [Folders -> FolderOrNone]
        BY DEF FolderOrNone
    <2>6. IsForest(parent)
        BY ForestIsForest
    <2> HIDE DEF W
    <2>7. IsForest(parent')
        BY <2>1, <2>2, <2>3, <2>4, <2>5, <2>6, MoveKeepsForest
    <2> QED
        BY <1>2, <2>7 DEF Forest, Hierarchy!Forest, IsForest
<1> QED
    BY <1>3, <1>4

LEMMA DeleteStep ==
    ASSUME IInv, NEW x \in Folders, DeleteFolder(x)
    PROVE  WalkCovers' /\ Forest'
<1> USE DEF IInv, TypeOK, Hierarchy!RowsOK
<1>1. \A g \in Folders : parent'[g] = parent[g] \/ parent'[g] = None
    BY DEF DeleteFolder
<1>2. Forest'
    <2>1. IsForest(parent)
        BY ForestIsForest
    <2>2. IsForest(parent')
        BY <1>1, <2>1, CutKeepsForest
    <2> QED
        BY <2>2 DEF Forest, Hierarchy!Forest, IsForest
<1>3. WalkCovers'
    <2> SUFFICES ASSUME NEW m \in Movers, req[m].at \in {"climb", "reparent"}
                 PROVE  Visited(m) \subseteq Folders
        BY <1>1 DEF WalkCovers, Visited, DeleteFolder
    <2>1. RequestOK(m)
        BY MoversAreRequests
    <2> QED
        BY <2>1 DEF RequestOK, Visited
<1> QED
    BY <1>2, <1>3

LEMMA NextIInv == OneMover /\ IInv /\ [Next]_vars => IInv'
<1> SUFFICES ASSUME OneMover, IInv, [Next]_vars
             PROVE  WalkCovers' /\ Forest'
    BY NextTypeOK DEF IInv
<1>0. req \in [Requests -> Request]
    BY DEF IInv, TypeOK
<1>1. ASSUME NEW r \in Requests, Arrive(r)
      PROVE  WalkCovers' /\ Forest'
    <2>1. PICK op, at, id, dest :
                /\ Accept(r, op, at, id, dest)
                /\ at \notin {"climb", "reparent"}
        BY <1>1 DEF Arrive, ArriveCreate, ArriveMove, ArriveAncestors, ArriveRecent
    <2>2. req'[r].at = at /\ \A s \in Requests \ {r} : req'[s] = req[s]
        BY <1>0, <2>1 DEF Accept
    <2>3. UNCHANGED tree /\ req'[r].at \notin {"climb", "reparent"}
        BY <2>1, <2>2 DEF Accept
    <2> QED
        BY <2>2, <2>3, QuietTree
<1>2. ASSUME NEW r \in Requests, FindParent(r) \/ FindFolder(r) \/ FindDest(r)
      PROVE  WalkCovers' /\ Forest'
    BY <1>0, <1>2, QuietTree
    DEF FindParent, FindFolder, FindDest, Find, Goto, Reply, NoRequest, Request
<1>3. ASSUME NEW r \in Requests, CallFails(r)
      PROVE  WalkCovers' /\ Forest'
    BY <1>0, <1>3, QuietTree DEF CallFails, Reply, NoRequest
<1>5. ASSUME NEW r \in Requests, ListChildren(r) \/ ListDone(r) \/ CountDone(r)
      PROVE  WalkCovers' /\ Forest'
    <2>1. CASE ListChildren(r)
        BY <1>0, <2>1, QuietTree DEF ListChildren, Request
    <2>2. CASE ListDone(r)
        BY <1>0, <2>2, QuietTree DEF ListDone, Request
    <2>3. CASE CountDone(r)
        BY <1>0, <2>3, QuietTree DEF CountDone, Reply, NoRequest
    <2> QED
        BY <1>5, <2>1, <2>2, <2>3
<1>4. CASE UNCHANGED vars
    BY <1>4 DEF IInv, vars, WalkCovers, Visited, Forest, Hierarchy!Forest
<1> QED
    BY <1>1, <1>2, <1>3, <1>4, <1>5, InsertStep, ClimbStep, ReparentStep, DeleteStep
    DEF Next, Answer

\* At most one move in flight: no folder is ever inside itself, so the
\* recursions along parentId (folders.service.ts 103, file.repository.ts 101)
\* have a bottom.  MCFolderTreeRace shows why the premise is needed.
THEOREM FoldersFormAForest == OneMover => (Spec => []Forest)
<1> SUFFICES ASSUME OneMover
             PROVE  Spec => []Forest
    OBVIOUS
<1>1. Init => IInv
    BY InitIInv
<1>2. IInv /\ [Next]_vars => IInv'
    BY NextIInv
<1>3. IInv => Forest
    BY DEF IInv
<1> QED
    BY <1>1, <1>2, <1>3, PTL DEF Spec

(****************************************************************************)
(* Refinement: an Insert is an Add, a DeleteFolder a Remove, a Reparent     *)
(* that finds both rows a Move; every other step changes no row.            *)
(****************************************************************************)
LEMMA StepImplements ==
    IInv /\ [Next]_vars => [Hierarchy!Next]_(Hierarchy!hvars)
<1> SUFFICES ASSUME IInv, [Next]_vars
             PROVE  Hierarchy!Next \/ UNCHANGED tree
    BY DEF Hierarchy!hvars, tree
<1> USE DEF IInv, TypeOK, Hierarchy!RowsOK
<1>1. ASSUME NEW r \in Requests, Insert(r)
      PROVE  Hierarchy!Next \/ UNCHANGED tree
    BY <1>1 DEF Insert, Hierarchy!Next, Hierarchy!Add
<1>2. ASSUME NEW x \in Folders, DeleteFolder(x)
      PROVE  Hierarchy!Next
    BY <1>2 DEF DeleteFolder, Hierarchy!Next, Hierarchy!Remove
<1>3. ASSUME NEW r \in Requests, Reparent(r)
      PROVE  Hierarchy!Next \/ UNCHANGED tree
    <2>1. CASE UNCHANGED parent
        BY <1>3, <2>1 DEF Reparent, tree
    <2>2. CASE ~ UNCHANGED parent
        <3> DEFINE f == req[r].id
                   d == req[r].dest
                   W == Visited(r)
        <3>1. f \in live /\ d \in live /\ parent' = [parent EXCEPT ![f] = d]
            BY <1>3, <2>2 DEF Reparent
        <3>2. RequestOK(r)
            OBVIOUS
        <3>3. W \in SUBSET Folders /\ d \in W /\ f \notin W
            BY <1>3, <3>1, <3>2 DEF Visited, RequestOK, WalkCovers, Reparent
        <3>4. Hierarchy!Closed(W)
            BY <1>3, <3>2 DEF RequestOK, WalkCovers, Reparent, Hierarchy!Closed
        <3>5. f \notin Hierarchy!Enclosing(d)
            BY <3>3, <3>4 DEF Hierarchy!Enclosing
        <3>6. Hierarchy!Move(f, d)
            BY <1>3, <3>1, <3>5 DEF Hierarchy!Move, Reparent
        <3> QED
            BY <3>1, <3>6 DEF Hierarchy!Next
    <2> QED
        BY <2>1, <2>2
<1>4. ASSUME NEW r \in Requests,
             \/ Arrive(r) \/ FindParent(r) \/ FindFolder(r) \/ FindDest(r)
             \/ Climb(r) \/ ClimbDone(r) \/ CallFails(r)
             \/ ListChildren(r) \/ ListDone(r) \/ CountDone(r)
      PROVE  UNCHANGED tree
    BY <1>4 DEF Arrive, ArriveCreate, ArriveMove, ArriveAncestors, ArriveRecent, Accept,
        FindParent, FindFolder, FindDest, Find, Climb, ClimbDone, CallFails,
        ListChildren, ListDone, CountDone
<1> QED
    BY <1>1, <1>2, <1>3, <1>4 DEF Next, Answer, vars, tree

\* The concurrent, await-by-await requests implement the forest that is
\* changed by one atomic operation at a time, if moves do not overlap.
THEOREM TreeImplementsHierarchy == OneMover => (Spec => ImplementsHierarchy)
<1> SUFFICES ASSUME OneMover
             PROVE  Spec => ImplementsHierarchy
    OBVIOUS
<1>1. Init => Hierarchy!Init
    BY DEF Init, Hierarchy!Init
<1>2. Init => IInv
    BY InitIInv
<1>3. IInv /\ [Next]_vars => IInv'
    BY NextIInv
<1>4. IInv /\ [Next]_vars => [Hierarchy!Next]_(Hierarchy!hvars)
    BY StepImplements
<1> QED
    BY <1>1, <1>2, <1>3, <1>4, PTL DEF Spec, ImplementsHierarchy, Hierarchy!Spec

(****************************************************************************)
(* The walk up.  That the folder read next has not been read does not       *)
(* follow from itself: what lies above it must be unread, too.              *)
(****************************************************************************)
Ahead ==
    \A r \in Movers : req[r].at = "climb" =>
        \E C \in SUBSET used :
            req[r].next \in C /\ Hierarchy!Closed(C) /\ C \cap Visited(r) = {}

\* In a forest what lies above the parent of x can be told from x: of a closed
\* set that holds x, some closed part holds its parent and not x.
LEMMA AboveTheParent ==
    ASSUME NEW p, IsForest(p), NEW C \in SUBSET Folders, NEW x \in C,
           \A g \in C : p[g] \in C \cup {None}, p[x] # None
    PROVE  \E D \in SUBSET C : p[x] \in D /\ x \notin D /\ \A g \in D : p[g] \in D \cup {None}
<1> DEFINE Up(D) == D \in SUBSET C /\ \A g \in D : p[g] \in D \cup {None}
           S == {g \in C : \A D \in SUBSET C : Up(D) /\ g \in D => x \in D}
<1> SUFFICES ASSUME \A D \in SUBSET C : Up(D) /\ p[x] \in D => x \in D
             PROVE  FALSE
    OBVIOUS
<1>1. x \in S
    OBVIOUS
<1>2. ASSUME NEW g \in S
      PROVE  p[g] \in S
    <2>1. CASE g = x
        BY <2>1
    <2>2. CASE g # x
        <3>1. p[g] # None
            <4> SUFFICES ASSUME p[g] = None PROVE FALSE
                OBVIOUS
            <4>1. Up({g})
                OBVIOUS
            <4> QED
                BY <2>2, <4>1
        <3>2. ASSUME NEW D \in SUBSET C, Up(D), p[g] \in D
              PROVE  x \in D
            <4>1. Up(D \cup {g}) /\ D \cup {g} \in SUBSET C
                BY <3>2
            <4> QED
                BY <2>2, <4>1
        <3> QED
            BY <3>1, <3>2
    <2> QED
        BY <2>1, <2>2
<1>3. S \in SUBSET Folders /\ S # {}
    BY <1>1
<1> HIDE DEF S
<1> QED
    BY <1>2, <1>3 DEF IsForest

LEMMA AheadStays ==
    ASSUME IInv, Ahead, NEW r \in Movers,
           req'[r].at = "climb", req'[r] = req[r], used \subseteq used',
           \A g \in used : parent'[g] \in {parent[g], None}
    PROVE  \E C \in SUBSET used' :
               req'[r].next \in C /\ Hierarchy!Closed(C)' /\ (C \cap Visited(r))' = {}
<1>1. PICK C \in SUBSET used :
          req[r].next \in C /\ Hierarchy!Closed(C) /\ C \cap Visited(r) = {}
    BY DEF Ahead
<1>2. Hierarchy!Closed(C)'
    BY <1>1 DEF Hierarchy!Closed
<1> QED
    BY <1>1, <1>2 DEF Visited

LEMMA ClimbAhead ==
    ASSUME IInv, Ahead, NEW r \in Movers, Climb(r)
    PROVE  \E C \in SUBSET used' :
               req'[r].next \in C /\ Hierarchy!Closed(C)' /\ (C \cap Visited(r))' = {}
<1> USE DEF IInv, TypeOK, Hierarchy!RowsOK
<1>1. RequestOK(r) /\ req[r] \in Request
    BY MoversAreRequests
<1>2. PICK C \in SUBSET used :
          /\ req[r].next \in C /\ Hierarchy!Closed(C)
          /\ C \cap (Visited(r) \ {req[r].next}) = {}
    <2>1. CASE req[r].at = "climb"
        BY <2>1 DEF Ahead
    <2>2. CASE req[r].at = "find_base"
        <3>1. Hierarchy!Closed(used)
            BY DEF Hierarchy!Closed
        <3>2. req[r].next \in used /\ Visited(r) \ {req[r].next} = {}
            BY <1>1, <2>2 DEF RequestOK, Visited
        <3> QED
            BY <3>1, <3>2
    <2> QED
        BY <2>1, <2>2 DEF Climb, Walking
<1>3. PICK D \in SUBSET C :
          /\ parent[req[r].next] \in D /\ req[r].next \notin D
          /\ \A g \in D : parent[g] \in D \cup {None}
    <2>1. C \in SUBSET Folders
        OBVIOUS
    <2>2. IsForest(parent) /\ parent[req[r].next] # None
        BY ForestIsForest DEF Climb
    <2> QED
        BY <1>2, <2>1, <2>2, AboveTheParent DEF Hierarchy!Closed
<1>4. /\ UNCHANGED tree
      /\ req'[r].next = parent[req[r].next]
      /\ Visited(r)' \subseteq Visited(r) \cup {req[r].next}
    BY <1>1, MoversAreRequests DEF Climb, Visited, SeenAfter, Request
<1> QED
    BY <1>2, <1>3, <1>4 DEF Hierarchy!Closed, tree

LEMMA NextAhead == OneMover /\ IInv /\ Ahead /\ [Next]_vars => Ahead'
<1> SUFFICES ASSUME OneMover, IInv, Ahead, [Next]_vars,
                    NEW r \in Movers, req'[r].at = "climb"
             PROVE  \E C \in SUBSET used' :
                        req'[r].next \in C /\ Hierarchy!Closed(C)' /\ (C \cap Visited(r))' = {}
    BY DEF Ahead
<1> USE DEF IInv, TypeOK, Hierarchy!RowsOK
<1>0. r \in Requests /\ req \in [Requests -> Request]
    BY MoversAreRequests
<1>1. ASSUME NEW s \in Requests, Insert(s)
      PROVE  req'[r] = req[r] /\ used \subseteq used' /\ \A g \in used : parent'[g] = parent[g]
    BY <1>0, <1>1 DEF Insert, Reply, NoRequest, tree
<1>2. ASSUME NEW f \in Folders, DeleteFolder(f)
      PROVE  /\ req'[r] = req[r] /\ used \subseteq used'
             /\ \A g \in used : parent'[g] \in {parent[g], None}
    BY <1>2 DEF DeleteFolder
<1>3. ASSUME NEW s \in Requests, Reparent(s)
      PROVE  FALSE
    <2>1. RequestOK(s)
        OBVIOUS
    <2>2. s = r
        BY <1>3, <2>1 DEF OneMover, RequestOK, Reparent
    <2> QED
        BY <1>0, <1>3, <2>2 DEF Reparent, Reply, NoRequest
<1>4. CASE Climb(r)
    BY <1>4, ClimbAhead
<1>5. ASSUME NEW s \in Requests, Climb(s), s # r
      PROVE  req'[r] = req[r] /\ UNCHANGED tree
    BY <1>0, <1>5 DEF Climb
<1>6. ASSUME NEW s \in Requests,
             \/ Arrive(s) \/ FindParent(s) \/ FindFolder(s) \/ FindDest(s)
             \/ ClimbDone(s) \/ ListChildren(s) \/ ListDone(s) \/ CountDone(s) \/ CallFails(s)
      PROVE  req'[r] = req[r] /\ UNCHANGED tree
    <2>1. UNCHANGED tree
        BY <1>6 DEF Arrive, ArriveCreate, ArriveMove, ArriveAncestors, ArriveRecent, Accept,
            FindParent, FindFolder, FindDest, Find, ClimbDone, CallFails,
            ListChildren, ListDone, CountDone
    <2>2. CASE Arrive(s)
        BY <1>0, <2>2 DEF Arrive, ArriveCreate, ArriveMove, ArriveAncestors,
            ArriveRecent, Accept
    <2>3. CASE FindParent(s) \/ FindFolder(s) \/ FindDest(s)
        <3>1. PICK label \in {"insert", "find_dest", "find_base"} :
                  req' = [req EXCEPT ![s].at = label] \/ req' = [req EXCEPT ![s] = NoRequest]
            BY <2>3 DEF FindParent, FindFolder, FindDest, Find, Goto, Reply
        <3> QED
            BY <1>0, <2>1, <3>1 DEF NoRequest, Request
    <2>4. CASE ListChildren(s) \/ ListDone(s)
        <3>1. req'[s].at \in {"list", "count"} /\ \A q \in Requests \ {s} : req'[q] = req[q]
            <4>1. CASE ListChildren(s)
                BY <1>0, <4>1 DEF ListChildren, Request
            <4>2. CASE ListDone(s)
                BY <1>0, <4>2 DEF ListDone, Request
            <4> QED
                BY <2>4, <4>1, <4>2
        <3> QED
            BY <1>0, <2>1, <3>1
    <2>5. CASE ClimbDone(s) \/ CountDone(s) \/ CallFails(s)
        BY <1>0, <2>5 DEF ClimbDone, CountDone, CallFails, Reply, NoRequest, Request
    <2> QED
        BY <1>6, <2>1, <2>2, <2>3, <2>4, <2>5
<1>7. CASE UNCHANGED vars
    BY <1>7, AheadStays DEF vars
<1> QED
    <2>1. CASE \E s \in Requests : Insert(s)
        BY <1>1, <2>1, AheadStays
    <2>2. CASE \E f \in Folders : DeleteFolder(f)
        BY <1>2, <2>2, AheadStays
    <2>3. CASE \E s \in Requests \ {r} : Climb(s)
        BY <1>5, <2>3, AheadStays DEF tree
    <2>4. CASE \E s \in Requests :
                 \/ Arrive(s) \/ FindParent(s) \/ FindFolder(s) \/ FindDest(s)
                 \/ ClimbDone(s) \/ ListChildren(s) \/ ListDone(s) \/ CountDone(s) \/ CallFails(s)
        BY <1>6, <2>4, AheadStays DEF tree
    <2> QED
        BY <1>3, <1>4, <1>7, <2>1, <2>2, <2>3, <2>4 DEF Next, Answer

\* At most one move in flight: its walk up (getFolderAncestors, for the check
\* of moveFolder) reads a folder it has not read at every hop, so that it ends
\* in any tree, whatever is created and deleted while it is under way.
THEOREM MovesReadOnce == OneMover => (Spec => []ReadOnce)
<1> SUFFICES ASSUME OneMover
             PROVE  Spec => []ReadOnce
    OBVIOUS
<1>1. Init => IInv /\ Ahead
    BY InitIInv, MoversAreRequests DEF Init, Ahead, NoRequest
<1>2. IInv /\ Ahead /\ [Next]_vars => IInv' /\ Ahead'
    BY NextIInv, NextAhead
<1>3. Ahead => ReadOnce
    BY DEF Ahead, ReadOnce
<1> QED
    BY <1>1, <1>2, <1>3, PTL DEF Spec
=============================================================================
