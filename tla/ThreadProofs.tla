---------------------------- MODULE ThreadProofs ----------------------------
(****************************************************************************)
(* Threads, for any number of them and of companies, categories and         *)
(* requests.  A list of threads shows each of them once: it is read in      *)
(* several queries, so what each has seen must be related to what is stored *)
(* by now.  And what opens the chatbot, and with it the threads, to a       *)
(* company is there once it was reported (Access!: ChatAccess).             *)
(****************************************************************************)
EXTENDS MCChatAccess, TLAPS

-----------------------------------------------------------------------------
(* The lists: nothing is ever deleted or given to another user, and what a  *)
(* thread is in is read before what it is not in.                           *)

Growing ==
    /\ \A t \in Threads : threads[t] # None => threads'[t] = threads[t]
    /\ \A c \in Categories : categories[c] # None => categories'[c] = categories[c]
    /\ filed \subseteq filed'

StoredOK ==
    /\ threads \in [Threads -> Users \cup {None}]
    /\ categories \in [Categories -> Users \cup {None}]
    /\ filed \subseteq Pairs
    /\ \A p \in filed : threads[p[1]] # None /\ categories[p[2]] # None

\* The relations of q's user there were when q came.
Own0(q) == {p \in q.filed0 : categories[p[2]] = q.u}

\* What the reply of a list must be.
Shown(q) ==
    /\ \A p \in q.rows : p[1] \notin q.loose
    /\ Own0(q) \subseteq q.rows
    /\ \A t \in q.threads0 \ q.loose :
         \/ \E c \in Categories : <<t, c>> \in q.rows \cup (filed \ q.filed0)
         \/ FiledByOthers(q.u, t)

\* What a request has read is still there; what was there when it came it has
\* read, or is going to.
Consistent(q) ==
    /\ q.rows \subseteq filed
    /\ q.at # "idle" => q.u \in Users
    /\ q.op = "file" => q.t \in Threads
    /\ q.at \in {"find_relation", "create_relation"} =>
         q.op = "file" /\ q.c \in Categories /\ categories[q.c] # None
    /\ q.op = "all" =>
         /\ q.at \in {"categories", "rows", "threads", "filed", "done"}
         /\ q.filed0 \subseteq filed
         /\ q.threads0 \subseteq ThreadsOf(q.u)
         /\ q.at = "rows" => \A p \in Own0(q) \ q.rows : p[2] \in q.todo
         /\ q.at \in {"threads", "filed", "done"} => Own0(q) \subseteq q.rows
         /\ q.at \in {"filed", "done"} => q.threads0 \subseteq q.own
         /\ q.at = "done" => Shown(q)

IInv == TypeOK /\ \A r \in Requests : Consistent(req[r])

\* Whose a relation is does not change.
LEMMA OwnersStay ==
    ASSUME StoredOK, Growing
    PROVE  /\ \A p \in filed : p[2] \in Categories /\ categories'[p[2]] = categories[p[2]]
           /\ \A u \in Users : ThreadsOf(u) \subseteq ThreadsOf(u)'
           /\ \A u, t : FiledByOthers(u, t) => FiledByOthers(u, t)'
<1>1. \A p \in filed : p[2] \in Categories /\ categories'[p[2]] = categories[p[2]]
  BY DEF StoredOK, Growing, Pairs
<1>2. \A u \in Users : ThreadsOf(u) \subseteq ThreadsOf(u)'
  BY NoneIsNoUser DEF ThreadsOf, Growing
<1>3. ASSUME NEW u, NEW t, FiledByOthers(u, t)
      PROVE  FiledByOthers(u, t)'
  <2>1. PICK c \in Categories : categories[c] # u /\ <<t, c>> \in filed
    BY <1>3 DEF FiledByOthers, CategoriesOf
  <2>2. categories'[c] = categories[c]
    BY <1>1, <2>1
  <2> QED
    BY <2>1, <2>2 DEF FiledByOthers, CategoriesOf, Growing
<1> QED
  BY <1>1, <1>2, <1>3

LEMMA StaysConsistent ==
    ASSUME NEW q, Consistent(q), StoredOK, Growing
    PROVE  Consistent(q)'
<1>1. /\ q.op = "file" => q.t \in Threads
      /\ q.at \in {"find_relation", "create_relation"} =>
           q.op = "file" /\ q.c \in Categories /\ categories'[q.c] # None
  BY DEF Consistent, Growing
<1>2. q.rows \subseteq filed' /\ filed \subseteq filed' /\ (q.at # "idle" => q.u \in Users)
  BY DEF Consistent, Growing
<1>3. ASSUME q.op = "all"
      PROVE  /\ q.at \in {"categories", "rows", "threads", "filed", "done"}
             /\ q.filed0 \subseteq filed
             /\ Own0(q)' = Own0(q)
             /\ q.threads0 \subseteq ThreadsOf(q.u)'
  <2>1. q.filed0 \subseteq filed /\ q.u \in Users /\ q.threads0 \subseteq ThreadsOf(q.u)
    BY <1>3 DEF Consistent
  <2>2. Own0(q)' = Own0(q)
    BY <2>1, OwnersStay DEF Own0
  <2> QED
    BY <1>3, <2>1, <2>2, OwnersStay DEF Consistent
<1>4. Shown(q) /\ q.op = "all" => Shown(q)'
  BY <1>2, <1>3, OwnersStay DEF Shown
<1> QED
  BY <1>1, <1>2, <1>3, <1>4 DEF Consistent

\* A step in which the rows grow and request r becomes q.
LEMMA Step ==
    ASSUME IInv, NEW r \in Requests, NEW q \in Request, StoredOK', Growing,
           req' = [req EXCEPT ![r] = q], Consistent(q)'
    PROVE  IInv'
<1>1. req' \in [Requests -> Request] /\ req'[r] = q
  BY DEF IInv, TypeOK
<1>2. ASSUME NEW s \in Requests PROVE Consistent(req[s])'
  <2>1. CASE s = r
    BY <1>1, <2>1 DEF Consistent, Shown, Own0
  <2>2. CASE s # r
    <3>1. PICK x \in Request : x = req[s] /\ Consistent(x)
      BY DEF IInv, TypeOK
    <3>2. x = req'[s]
      BY <2>2, <3>1 DEF IInv, TypeOK
    <3>3. Consistent(x)'
      BY <3>1, StaysConsistent DEF IInv, TypeOK, StoredOK
    <3> QED
      BY <3>2, <3>3 DEF Consistent, Shown, Own0
  <2> QED
    BY <2>1, <2>2
<1> QED
  BY <1>1, <1>2 DEF IInv, TypeOK, StoredOK

\* A step that reads: no row changes.
LEMMA ReadStep ==
    ASSUME IInv, NEW r \in Requests, NEW q \in Request, Consistent(q),
           req' = [req EXCEPT ![r] = q], UNCHANGED Stored
    PROVE  IInv'
<1>1. StoredOK /\ Growing /\ StoredOK'
  BY DEF Growing, StoredOK, Stored, IInv, TypeOK
<1>2. Consistent(q)'
  BY <1>1, StaysConsistent
<1> QED
  BY <1>1, <1>2, Step

\* A step that writes one row and sends nothing.
LEMMA WriteStep ==
    ASSUME IInv, StoredOK', Growing, UNCHANGED req
    PROVE  IInv'
<1>1. ASSUME NEW s \in Requests PROVE Consistent(req[s])'
  <2>1. PICK x \in Request : x = req[s] /\ Consistent(x)
    BY DEF IInv, TypeOK
  <2>2. Consistent(x)'
    BY <2>1, StaysConsistent DEF IInv, TypeOK, StoredOK
  <2> QED
    BY <2>1, <2>2 DEF Consistent, Shown, Own0
<1> QED
  BY <1>1 DEF IInv, TypeOK, StoredOK

LEMMA Nothing == NoRequest \in Request /\ Consistent(NoRequest) /\ Consistent(NoRequest)'
BY DEF NoRequest, Request, Labels, Consistent

\* What is known of the request a step is about.
LEMMA Asked ==
    ASSUME IInv, NEW r \in Requests
    PROVE  req[r] \in Request /\ Consistent(req[r]) /\ req \in [Requests -> Request]
BY DEF IInv, TypeOK

-----------------------------------------------------------------------------
(* Requests arrive.                                                         *)

LEMMA ArriveKeepsIInv ==
    ASSUME IInv, NEW r \in Requests, Arrive(r)
    PROVE  IInv'
<1>1. ASSUME NEW q \in Request, Accept(r, q), Consistent(q)
      PROVE  IInv'
  BY <1>1, ReadStep DEF Accept
<1>2. ASSUME NEW u \in Users, ArriveAll(r, u)
      PROVE  IInv'
  <2> DEFINE q == [NoRequest EXCEPT !.at = Order.first, !.op = "all", !.u = u,
                                    !.threads0 = ThreadsOf(u), !.filed0 = filed]
  <2>1. ThreadsOf(u) \in SUBSET Threads /\ filed \in SUBSET Pairs
    BY DEF ThreadsOf, IInv, TypeOK
  <2>2. q \in Request
    BY ZenonT(40), <2>1 DEF NoRequest, Request, Labels, Order
  <2>3. Consistent(q)
    BY DEF NoRequest, Order, Consistent
  <2> QED
    BY <1>1, <1>2, <2>2, <2>3 DEF ArriveAll
<1>3. ASSUME NEW u \in Users, NEW c \in Categories, ArriveCategory(r, u, c)
      PROVE  IInv'
  <2> DEFINE q == [NoRequest EXCEPT !.at = "find_category", !.op = "category",
                                    !.u = u, !.c = c]
  <2>1. q \in Request /\ Consistent(q)
    BY DEF NoRequest, Request, Labels, Consistent
  <2> QED
    BY <1>1, <1>3, <2>1 DEF ArriveCategory
<1>4. ASSUME NEW u \in Users, NEW c \in Categories, NEW t \in Threads, ArriveFile(r, u, t, c)
      PROVE  IInv'
  <2> DEFINE q == [NoRequest EXCEPT !.at = "find_category", !.op = "file",
                                    !.u = u, !.t = t, !.c = c]
  <2>1. q \in Request /\ Consistent(q)
    BY DEF NoRequest, Request, Labels, Consistent
  <2> QED
    BY <1>1, <1>4, <2>1 DEF ArriveFile
<1> QED
  BY <1>2, <1>3, <1>4 DEF Arrive

-----------------------------------------------------------------------------
(* One awaited call each.                                                   *)

LEMMA ReplyKeepsIInv ==
    ASSUME IInv, NEW r \in Requests, Reply(r), UNCHANGED Stored
    PROVE  IInv'
BY ReadStep, Nothing DEF Reply

LEMMA FindCategoryKeepsIInv ==
    ASSUME IInv, NEW r \in Requests, FindCategory(r)
    PROVE  IInv'
<1> DEFINE mine == req[r].c \in CategoriesOf(req[r].u)
<1>1. CASE ~ mine
  BY <1>1, ReplyKeepsIInv DEF FindCategory
<1>2. CASE mine /\ req[r].op = "file"
  <2> DEFINE q == [req[r] EXCEPT !.at = "find_relation"]
  <2>1. q \in Request
    BY Asked DEF Request, Labels
  <2>2. Consistent(q)
    <3>1. categories[req[r].c] # None /\ req[r].c \in Categories
      BY <1>2, Asked, NoneIsNoUser DEF CategoriesOf, Consistent, FindCategory, At
    <3>2. req[r].op # "all"
      BY <1>2
    <3> QED
      BY <1>2, <3>1, <3>2, Asked DEF Consistent, Request, FindCategory, At
  <2>3. req' = [req EXCEPT ![r] = q] /\ UNCHANGED Stored
    BY <1>2, Asked DEF FindCategory, Goto
  <2> QED
    BY <2>1, <2>2, <2>3, ReadStep
<1>3. CASE mine /\ req[r].op # "file"
  <2> DEFINE q == [req[r] EXCEPT !.at = "rows", !.todo = {req[r].c}]
  <2>1. q \in Request
    BY ZenonT(40), <1>3, Asked DEF Request, Labels, CategoriesOf
  <2>2. req[r].op # "all"
    BY Asked DEF FindCategory, At, Consistent
  <2>3. Consistent(q)
    BY <2>2, Asked DEF Consistent, Request, FindCategory, At
  <2>4. req' = [req EXCEPT ![r] = q] /\ UNCHANGED Stored
    BY <1>3, Asked DEF FindCategory
  <2> QED
    BY <2>1, <2>3, <2>4, ReadStep
<1> QED
  BY <1>1, <1>2, <1>3

LEMMA FindRelationKeepsIInv ==
    ASSUME IInv, NEW r \in Requests, FindRelation(r)
    PROVE  IInv'
<1>1. CASE <<req[r].t, req[r].c>> \in filed
  BY <1>1, ReplyKeepsIInv DEF FindRelation
<1>2. CASE <<req[r].t, req[r].c>> \notin filed
  <2> DEFINE q == [req[r] EXCEPT !.at = "create_relation"]
  <2>1. q \in Request
    BY Asked DEF Request, Labels
  <2>2. Consistent(q)
    BY Asked DEF Consistent, Request, FindRelation, At
  <2>3. req' = [req EXCEPT ![r] = q] /\ UNCHANGED Stored
    BY <1>2, Asked DEF FindRelation, Goto
  <2> QED
    BY <2>1, <2>2, <2>3, ReadStep
<1> QED
  BY <1>1, <1>2

LEMMA CreateRelationKeepsIInv ==
    ASSUME IInv, NEW r \in Requests, CreateRelation(r)
    PROVE  IInv'
<1> DEFINE p == <<req[r].t, req[r].c>>
<1>1. categories[req[r].c] # None /\ threads[req[r].t] # None /\ p \in Pairs
  BY Asked DEF CreateRelation, At, Consistent, Pairs, Request
<1>2. filed' = filed \cup {p} /\ UNCHANGED <<threads, categories>>
  BY DEF CreateRelation
<1>3. Growing /\ StoredOK'
  BY <1>1, <1>2 DEF Growing, StoredOK, IInv, TypeOK
<1> QED
  BY <1>3, Step, Nothing DEF CreateRelation, Reply

LEMMA GetCategoriesKeepsIInv ==
    ASSUME IInv, NEW r \in Requests, GetCategories(r)
    PROVE  IInv'
<1> DEFINE mine == CategoriesOf(req[r].u)
           label == IF mine = {} THEN "threads" ELSE "rows"
           q == [req[r] EXCEPT !.todo = mine, !.at = label]
<1>1. q \in Request
  <2>1. mine \in SUBSET Categories /\ label \in Labels
    BY DEF CategoriesOf, Labels
  <2> HIDE DEF mine, label
  <2> QED
    BY ZenonT(40), <2>1, Asked DEF Request
<1>2. req' = [req EXCEPT ![r] = q] /\ UNCHANGED Stored
  BY Asked DEF GetCategories, Order
<1>3. q.todo = mine /\ q.at = label /\ q.rows = req[r].rows /\ q.filed0 = req[r].filed0
      /\ q.threads0 = req[r].threads0 /\ q.op = req[r].op /\ q.u = req[r].u
      /\ q.t = req[r].t
  BY Asked DEF Request
<1>4. req[r].op = "all" => \A p \in Own0(req[r]) : p[2] \in mine
  BY Asked DEF Consistent, Own0, CategoriesOf, IInv, TypeOK, Pairs
<1>5. Own0(q) = Own0(req[r])
  BY <1>3 DEF Own0
<1> HIDE DEF q
<1>6. Consistent(q)
  BY <1>3, <1>4, <1>5, Asked DEF Consistent, GetCategories, At
<1> QED
  BY <1>1, <1>2, <1>6, ReadStep

LEMMA ReadRowsKeepsIInv ==
    ASSUME IInv, NEW r \in Requests, NEW c \in Categories, ReadRows(r, c)
    PROVE  IInv'
<1> DEFINE seen == req[r].rows \cup {p \in filed : p[2] = c}
           label == IF req[r].todo # {c} THEN "rows"
                    ELSE IF req[r].op = "all" THEN "threads" ELSE "done"
           q == [req[r] EXCEPT !.rows = seen, !.todo = @ \ {c}, !.at = label]
<1>1. q \in Request
  <2>1. seen \in SUBSET Pairs
    BY Asked DEF Request, IInv, TypeOK, Pairs
  <2>2. req[r].todo \ {c} \in SUBSET Categories
    BY Asked DEF Request
  <2>3. label \in Labels
    BY DEF Labels
  <2> HIDE DEF seen, label
  <2> QED
    BY ZenonT(40), <2>1, <2>2, <2>3, Asked DEF Request
<1>2. req' = [req EXCEPT ![r] = q] /\ UNCHANGED Stored
  BY Asked DEF ReadRows, Order
<1>3. Consistent(q)
  <2>1. req[r].at = "rows" /\ c \in req[r].todo
    BY DEF ReadRows, At
  <2>2. seen \subseteq filed
    BY Asked DEF Consistent
  <2>3. ASSUME req[r].op = "all"
        PROVE  \A p \in Own0(req[r]) \ seen : p[2] \in req[r].todo \ {c}
    BY <2>1, <2>3, Asked DEF Consistent, Own0
  <2>4. ASSUME req[r].op = "all", req[r].todo = {c}
        PROVE  Own0(req[r]) \subseteq seen
    BY <2>3, <2>4
  <2>5. Own0(q) = Own0(req[r])
    BY Asked DEF Own0, Request
  <2> QED
    BY <2>1, <2>2, <2>3, <2>4, <2>5, Asked DEF Consistent, Request
<1> QED
  BY <1>1, <1>2, <1>3, ReadStep

LEMMA ReadThreadsKeepsIInv ==
    ASSUME IInv, NEW r \in Requests, ReadThreads(r)
    PROVE  IInv'
<1> DEFINE mine == ThreadsOf(req[r].u)
           q == [req[r] EXCEPT !.own = mine, !.at = "filed"]
<1>1. q \in Request
  <2>1. mine \in SUBSET Threads
    BY DEF ThreadsOf
  <2> HIDE DEF mine
  <2> QED
    BY ZenonT(40), <2>1, Asked DEF Request, Labels
<1>2. req' = [req EXCEPT ![r] = q] /\ UNCHANGED Stored
  BY Asked DEF ReadThreads
<1>3. Own0(q) = Own0(req[r])
  BY Asked DEF Own0, Request
<1>4. Consistent(q)
  BY <1>3, Asked DEF Consistent, Request, ReadThreads, At
<1> QED
  BY <1>1, <1>2, <1>4, ReadStep

\* What is not loose is in a category by now: in one of the user's, where it was
\* when the request came, and has been read, or in one since; or in another's.
LEMMA ReadFiledKeepsIInv ==
    ASSUME IInv, NEW r \in Requests, ReadFiled(r)
    PROVE  IInv'
<1> DEFINE free == {t \in req[r].own : \A p \in filed : p[1] # t}
           q == [req[r] EXCEPT !.loose = free, !.at = "done"]
<1>1. q \in Request
  <2>1. free \in SUBSET Threads
    BY Asked DEF Request
  <2> QED
    BY ZenonT(40), <2>1, Asked DEF Request, Labels
<1>2. req' = [req EXCEPT ![r] = q] /\ UNCHANGED Stored
  BY Asked DEF ReadFiled, Order
<1>3. q.loose = free /\ q.rows = req[r].rows /\ q.filed0 = req[r].filed0
      /\ q.threads0 = req[r].threads0 /\ q.at = "done" /\ q.op = req[r].op
      /\ q.own = req[r].own /\ q.t = req[r].t /\ q.c = req[r].c /\ q.u = req[r].u
      /\ Own0(q) = Own0(req[r])
  BY Asked DEF Request, Own0
<1>4. ASSUME req[r].op = "all"
      PROVE  Shown(q)
  <2>1. /\ Own0(req[r]) \subseteq req[r].rows
        /\ req[r].threads0 \subseteq req[r].own
        /\ req[r].rows \subseteq filed
    BY <1>4, Asked DEF ReadFiled, At, Consistent
  <2>2. \A p \in req[r].rows : p[1] \notin free
    BY <2>1
  <2>3. ASSUME NEW t \in req[r].threads0 \ free
        PROVE  \/ \E c \in Categories : <<t, c>> \in req[r].rows \cup (filed \ req[r].filed0)
               \/ FiledByOthers(req[r].u, t)
    <3>1. PICK p \in filed : p[1] = t
      BY <2>1, <2>3
    <3>2. p[2] \in Categories /\ p = <<t, p[2]>>
      BY <3>1 DEF IInv, TypeOK, Pairs
    <3>3. CASE categories[p[2]] = req[r].u /\ p \in req[r].filed0
      BY <2>1, <3>2, <3>3 DEF Own0
    <3>4. CASE categories[p[2]] # req[r].u
      BY <3>1, <3>2, <3>4 DEF FiledByOthers, CategoriesOf
    <3> QED
      BY <3>1, <3>2, <3>3, <3>4
  <2> QED
    BY <1>3, <2>1, <2>2, <2>3 DEF Shown
<1>5. Consistent(q)
  BY <1>3, <1>4, Asked DEF Consistent, ReadFiled, At
<1> QED
  BY <1>1, <1>2, <1>5, ReadStep

-----------------------------------------------------------------------------
LEMMA NextKeepsIInv ==
    ASSUME IInv, [Next]_vars
    PROVE  IInv'
<1>1. CASE UNCHANGED vars
  <2>1. StoredOK' /\ Growing /\ UNCHANGED req
    BY <1>1 DEF vars, StoredOK, Growing, IInv, TypeOK
  <2> QED
    BY <2>1, WriteStep
<1>2. ASSUME NEW u \in Users, NEW t \in Threads, CreateThread(u, t) PROVE IInv'
  <2>1. StoredOK' /\ Growing /\ UNCHANGED req
    BY <1>2, NoneIsNoUser DEF CreateThread, StoredOK, Growing, IInv, TypeOK
  <2> QED
    BY <2>1, WriteStep
<1>3. ASSUME NEW u \in Users, NEW c \in Categories, CreateCategory(u, c) PROVE IInv'
  <2>1. StoredOK' /\ Growing /\ UNCHANGED req
    BY <1>3, NoneIsNoUser DEF CreateCategory, StoredOK, Growing, IInv, TypeOK
  <2> QED
    BY <2>1, WriteStep
<1>4. ASSUME NEW r \in Requests, Arrive(r) PROVE IInv'
  BY <1>4, ArriveKeepsIInv
<1>5. ASSUME NEW r \in Requests, Answer(r) PROVE IInv'
  <2>1. ASSUME NEW c \in Categories, ReadRows(r, c) PROVE IInv'
    BY <2>1, ReadRowsKeepsIInv
  <2>2. CASE Send(r) \/ CallFails(r)
    BY <2>2, ReplyKeepsIInv DEF Send, CallFails
  <2> QED
    BY <1>5, <2>1, <2>2, FindCategoryKeepsIInv, FindRelationKeepsIInv, CreateRelationKeepsIInv,
       GetCategoriesKeepsIInv, ReadThreadsKeepsIInv, ReadFiledKeepsIInv DEF Answer
<1> QED
  BY <1>1, <1>2, <1>3, <1>4, <1>5 DEF Next

\* Whatever the requests do, in whatever order their queries are answered, the
\* strengthening holds.
LEMMA Inductive == Spec => []IInv
<1>1. Init => IInv
  BY Nothing DEF Init, IInv, TypeOK
<1>2. IInv /\ [Next]_vars => IInv'
  BY NextKeepsIInv
<1> QED
  BY <1>1, <1>2, PTL DEF Spec

\* The rows a thread is filed under have their thread and their category, and
\* every request is one the handlers of chatbot.service.ts can be in.
THEOREM TypeCorrect == Spec => []TypeOK
<1>1. IInv => TypeOK
  BY DEF IInv
<1> QED
  BY <1>1, Inductive, PTL

\* getAllThreadsAndCategories never shows a thread of the user twice; and it
\* misses none that was there when it was asked, unless it was put into a
\* category since, between its queries, or into one of another user at any time.
THEOREM ThreadsShownOnce == Spec => []ShownOnce
<1>1. IInv => ShownOnce
  BY DEF IInv, ShownOnce, At, Consistent, Shown, Own0, CategoriesOf, TypeOK, Pairs
<1> QED
  BY <1>1, Inductive, PTL

-----------------------------------------------------------------------------
(* What opens the chatbot to a company: four handlers look for a row, and   *)
(* write several, an await later.  No row is ever deleted, so what a        *)
(* request found it still relies on rightly; that it relies on no more than *)
(* that is the invariant.                                                   *)

\* The awaits of a request that is about a company's ChatCompany.
AtChat == {"find_chat", "create_chat"}

\* What a request knows: the companies it passed over have the service, those
\* it goes on with have paid, and have a ChatCompany once the loop left them.
Knows(q) ==
    /\ q.at \in {"find_without", "pay", "add_services"} => q.op = "change"
    /\ q.at \in AtChat \cup {"create_thread"} => q.c \in Companies /\ q.op # "none"
    /\ q.at = "create_thread" => q.op = "thread" /\ chatCompany[q.c] # None
    /\ q.op = "change" =>
         /\ q.s \in Services
         /\ q.at # "find_without" => \A c \in q.ids \ q.todo : service[c][q.s] # None
         /\ q.at \notin {"find_without", "pay"} => q.todo \subseteq paid
         /\ q.s = "AI_CHATBOT" /\ q.at \in AtChat =>
              \A c \in q.todo \ (q.left \cup {q.c}) : chatCompany[c] # None
         /\ q.s = "AI_CHATBOT" /\ q.at = "add_services" =>
              \A c \in q.todo : chatCompany[c] # None

AccessRowsOK ==
    /\ paid \subseteq Companies
    /\ service \in [Companies -> [Services -> Access!Makers \cup {None}]]
    /\ chatCompany \in [Companies -> Access!LawyerReqStatus \cup {None}]
    /\ thread \in [Threads -> Companies \cup {None}]
    /\ promised \subseteq Companies \X Services
    /\ \A t \in Threads : thread[t] # None => chatCompany[thread[t]] # None

\* What was reported as done has its row, and the rows have what they rest on.
Backed ==
    /\ \A p \in promised : service[p[1]][p[2]] # None
    /\ \A c \in Companies, s \in Services :
         service[c][s] = "change" =>
           c \in paid /\ (s = "AI_CHATBOT" => chatCompany[c] # None)

AccessInv ==
    /\ AccessRowsOK /\ Backed
    /\ access \in [Requests -> Access!Request]
    /\ \A r \in Requests : Knows(access[r])

\* Nothing that is there goes away, and no status that stands for a request.
Grows ==
    /\ paid \subseteq paid'
    /\ \A c \in Companies, s \in Services : service[c][s] # None => service'[c][s] # None
    /\ \A c \in Companies : chatCompany[c] # None => chatCompany'[c] # None
    /\ \A c \in Companies :
         chatCompany[c] \in Access!Requested => chatCompany'[c] \in Access!Requested

\* NULL is no value of a column.
LEMMA NothingIsRow ==
    /\ Services \subseteq Access!CompanyServicesEnum
    /\ None \notin Companies /\ None \notin Services /\ None \notin Access!Makers
    /\ None \notin Access!LawyerReqStatus /\ None \notin Access!Requested
BY AccessConstants DEF Access!ConstantsOK

\* An empty slot claims nothing.
LEMMA NoRequestKnows ==
    /\ Access!NoRequest \in Access!Request
    /\ Knows(Access!NoRequest) /\ Knows(Access!NoRequest)'
BY DEF Access!NoRequest, Access!Request, Access!Labels, Knows, AtChat

\* What a request knows, no other can make wrong.
LEMMA StaysKnown ==
    ASSUME NEW q \in Access!Request, Knows(q), Grows
    PROVE  Knows(q)'
<1>1. /\ q.ids \subseteq Companies /\ q.todo \subseteq Companies
      /\ q.at = "create_thread" => q.c \in Companies
    BY DEF Access!Request, Knows
<1> QED BY <1>1 DEF Knows, Grows, AtChat

\* A step in which the rows grow and request r becomes q.
LEMMA AccessStep ==
    ASSUME AccessInv, NEW r \in Requests, NEW q \in Access!Request,
           AccessRowsOK', Backed', Grows, access' = [access EXCEPT ![r] = q], Knows(q)'
    PROVE  AccessInv'
<1>1. access' \in [Requests -> Access!Request] /\ access'[r] = q
    BY DEF AccessInv
<1>2. ASSUME NEW s \in Requests PROVE Knows(access[s])'
    <2>1. CASE s = r
        BY <1>1, <2>1 DEF Knows
    <2>2. CASE s # r
        <3>1. PICK x \in Access!Request : x = access[s] /\ Knows(x)
            BY DEF AccessInv
        <3>2. x = access'[s]
            BY <2>2, <3>1 DEF AccessInv
        <3>3. Knows(x)'
            BY <3>1, StaysKnown
        <3> QED BY <3>2, <3>3 DEF Knows
    <2> QED BY <2>1, <2>2
<1> QED BY <1>1, <1>2 DEF AccessInv

\* A step in which nothing but request r changes.
LEMMA AccessReadStep ==
    ASSUME AccessInv, NEW r \in Requests, NEW q \in Access!Request,
           UNCHANGED <<Access!rows, promised>>, access' = [access EXCEPT ![r] = q], Knows(q)'
    PROVE  AccessInv' /\ Grows
<1>1. AccessRowsOK' /\ Backed' /\ Grows
    BY DEF AccessInv, AccessRowsOK, Backed, Grows, Access!rows
<1> QED BY <1>1, AccessStep

\* A step that leaves the requests alone.
LEMMA AccessWriteStep ==
    ASSUME AccessInv, AccessRowsOK', Backed', Grows, UNCHANGED access
    PROVE  AccessInv'
<1>1. ASSUME NEW s \in Requests PROVE Knows(access[s])'
    <2>1. PICK x \in Access!Request : x = access[s] /\ Knows(x)
        BY DEF AccessInv
    <2>2. Knows(x)'
        BY <2>1, StaysKnown
    <2> QED BY <2>1, <2>2 DEF Knows
<1> QED BY <1>1 DEF AccessInv

-----------------------------------------------------------------------------
(* One lemma per handler's call.                                            *)

\* The answer, and any call that rejects.
LEMMA ReplyKeepsAccess ==
    ASSUME AccessInv, NEW r \in Requests, Access!Reply(r), UNCHANGED <<Access!rows, promised>>
    PROVE  AccessInv' /\ Grows
BY NoRequestKnows, AccessReadStep DEF Access!Reply, Access!Put

\* changeCompaniesTypes or createThread is called.
LEMMA ArriveKeepsAccess ==
    ASSUME AccessInv, NEW r \in Requests, Access!Arrive(r)
    PROVE  AccessInv' /\ Grows
<1>1. ASSUME NEW s \in Services, NEW ids \in SUBSET Companies, Access!ArriveChange(r, s, ids)
      PROVE  AccessInv' /\ Grows
    <2> DEFINE q == [Access!NoRequest EXCEPT !.at = "find_without", !.op = "change", !.s = s,
                                      !.ids = ids]
    <2>1. q \in Access!Request /\ Knows(q)'
        BY DEF Access!NoRequest, Access!Request, Access!Labels, Knows, AtChat
    <2>2. access' = [access EXCEPT ![r] = q] /\ UNCHANGED <<Access!rows, promised>>
        BY <1>1 DEF Access!ArriveChange, Access!Accept, Access!Put
    <2> HIDE DEF q
    <2> QED BY <2>1, <2>2, AccessReadStep
<1>2. ASSUME NEW c \in Companies, Access!ArriveThread(r, c)
      PROVE  AccessInv' /\ Grows
    <2> DEFINE q == [Access!NoRequest EXCEPT !.at = "find_chat", !.op = "thread", !.c = c]
    <2>1. q \in Access!Request /\ Knows(q)'
        BY DEF Access!NoRequest, Access!Request, Access!Labels, Knows, AtChat
    <2>2. access' = [access EXCEPT ![r] = q] /\ UNCHANGED <<Access!rows, promised>>
        BY <1>2 DEF Access!ArriveThread, Access!Accept, Access!Put
    <2> HIDE DEF q
    <2> QED BY <2>1, <2>2, AccessReadStep
<1> QED BY <1>1, <1>2 DEF Access!Arrive

\* Those that the look leaves out have the service.
LEMMA FindWithoutKeepsAccess ==
    ASSUME AccessInv, NEW r \in Requests, Access!FindWithout(r)
    PROVE  AccessInv' /\ Grows
<1>1. PICK x \in Access!Request : x = access[r] /\ Knows(x)
    BY DEF AccessInv
<1>2. PICK todo \in SUBSET Companies : todo = Access!Without(x.s, x.ids)
    BY DEF Access!Without, Access!Request
<1> DEFINE q == [x EXCEPT !.at = "pay", !.todo = todo]
<1>3. /\ x.at = "find_without" /\ UNCHANGED <<Access!rows, promised>>
      /\ access' = [access EXCEPT ![r] = q]
    BY <1>1, <1>2 DEF Access!FindWithout, Access!At, Access!Put
<1>4. x.op = "change" /\ x.s \in Services
    BY <1>1, <1>3 DEF Knows
<1>5. q \in Access!Request
    BY DEF Access!Request, Access!Labels
<1>6. Knows(q)'
    BY <1>2, <1>3, <1>4 DEF Knows, AtChat, Access!Request, Access!Without, Access!rows
<1> HIDE DEF q
<1> QED BY <1>3, <1>5, <1>6, AccessReadStep

\* Where the loop goes on from q, with q's companies paid for, and those it has
\* left with their ChatCompany.
LEMMA OnwardKnows ==
    ASSUME NEW q \in Access!Request, q.op = "change", q.s \in Services,
           \A c \in q.ids \ q.todo : service'[c][q.s] # None,
           q.todo \subseteq paid',
           q.s = "AI_CHATBOT" => \A c \in q.todo \ q.left : chatCompany'[c] # None,
           NEW p \in Access!Onward(q)
    PROVE  p \in Access!Request /\ Knows(p)'
<1>1. CASE q.s = "AI_CHATBOT" /\ q.left # {}
    <2>1. PICK c \in q.left : p = [q EXCEPT !.at = "find_chat", !.c = c, !.left = @ \ {c}]
        BY <1>1 DEF Access!Onward
    <2>2. c \in Companies
        BY DEF Access!Request
    <2>3. p \in Access!Request
        BY <2>1, <2>2 DEF Access!Request, Access!Labels
    <2>4. /\ p.at = "find_chat" /\ p.c = c /\ p.left = q.left \ {c} /\ p.op = q.op
          /\ p.s = q.s /\ p.ids = q.ids /\ p.todo = q.todo
        BY <2>1 DEF Access!Request
    <2> QED BY <1>1, <2>2, <2>3, <2>4 DEF Knows, AtChat
<1>2. CASE ~ (q.s = "AI_CHATBOT" /\ q.left # {})
    <2>1. p = [q EXCEPT !.at = "add_services", !.c = None]
        BY <1>2 DEF Access!Onward
    <2>2. p \in Access!Request
        BY <2>1 DEF Access!Request, Access!Labels
    <2>3. /\ p.at = "add_services" /\ p.left = q.left /\ p.op = q.op
          /\ p.s = q.s /\ p.ids = q.ids /\ p.todo = q.todo
        BY <2>1 DEF Access!Request
    <2> QED BY <1>2, <2>2, <2>3 DEF Knows, AtChat
<1> QED BY <1>1, <1>2

\* The companies of the request have paid.
LEMMA PayKeepsAccess ==
    ASSUME AccessInv, NEW r \in Requests, Access!Pay(r)
    PROVE  AccessInv' /\ Grows
<1>1. PICK x \in Access!Request : x = access[r] /\ Knows(x)
    BY DEF AccessInv
<1>2. /\ x.at = "pay" /\ paid' = paid \cup x.todo
      /\ UNCHANGED <<service, chatCompany, thread, promised>>
    BY <1>1 DEF Access!Pay, Access!At
<1> DEFINE q == [x EXCEPT !.left = x.todo]
<1>3. PICK p \in Access!Onward(q) : access' = [access EXCEPT ![r] = p]
    BY <1>1 DEF Access!Pay, Access!Put
<1>4. /\ q \in Access!Request /\ q.op = "change" /\ q.s \in Services
      /\ q.todo = x.todo /\ q.left = x.todo /\ q.ids = x.ids /\ q.s = x.s
      /\ \A c \in x.ids \ x.todo : service[c][x.s] # None
    BY <1>1, <1>2 DEF Access!Request, Knows
<1> HIDE DEF q
<1>5. p \in Access!Request /\ Knows(p)'
    BY <1>2, <1>4, OnwardKnows
<1>6. x.todo \subseteq Companies
    BY DEF Access!Request
<1>7. AccessRowsOK' /\ Backed' /\ Grows
    BY <1>2, <1>6 DEF AccessInv, AccessRowsOK, Backed, Grows
<1> QED BY <1>3, <1>5, <1>7, AccessStep

\* The ChatCompany is there: on to the next company, or to the thread.
LEMMA WithChatKnows ==
    ASSUME NEW x \in Access!Request, Knows(x), x.at \in AtChat, Grows, chatCompany'[x.c] # None,
           NEW p \in Access!WithChat(x)
    PROVE  p \in Access!Request /\ Knows(p)'
<1>1. CASE x.op = "thread"
    <2>1. p = [x EXCEPT !.at = "create_thread"]
        BY <1>1 DEF Access!WithChat
    <2>2. p \in Access!Request
        BY <2>1 DEF Access!Request, Access!Labels
    <2>3. p.at = "create_thread" /\ p.op = "thread" /\ p.c = x.c /\ x.c \in Companies
        BY <1>1, <2>1 DEF Access!Request, Knows
    <2> QED BY <2>2, <2>3 DEF Knows, AtChat
<1>2. CASE x.op = "change"
    <2>1. p \in Access!Onward(x)
        BY <1>2 DEF Access!WithChat
    <2>2. /\ x.s \in Services
          /\ \A c \in x.ids \ x.todo : service[c][x.s] # None
          /\ x.todo \subseteq paid
          /\ x.s = "AI_CHATBOT" => \A c \in x.todo \ (x.left \cup {x.c}) : chatCompany[c] # None
        BY <1>2 DEF Knows, AtChat
    <2>3. x.ids \subseteq Companies /\ x.todo \subseteq Companies
        BY DEF Access!Request
    <2>4. /\ \A c \in x.ids \ x.todo : service'[c][x.s] # None
          /\ x.todo \subseteq paid'
          /\ x.s = "AI_CHATBOT" => \A c \in x.todo \ x.left : chatCompany'[c] # None
        BY <2>2, <2>3 DEF Grows
    <2> QED BY <1>2, <2>1, <2>2, <2>4, OnwardKnows
<1> QED BY <1>1, <1>2 DEF Access!Request, Knows, AtChat

\* A ChatCompany that was found, ...
LEMMA FindChatKeepsAccess ==
    ASSUME AccessInv, NEW r \in Requests, Access!FindChat(r)
    PROVE  AccessInv' /\ Grows
<1>1. PICK x \in Access!Request : x = access[r] /\ Knows(x)
    BY DEF AccessInv
<1>2. x.at = "find_chat" /\ UNCHANGED <<Access!rows, promised>>
    BY <1>1 DEF Access!FindChat, Access!At
<1>3. AccessRowsOK' /\ Backed' /\ Grows
    BY <1>2 DEF AccessInv, AccessRowsOK, Backed, Grows, Access!rows
<1>4. CASE chatCompany[x.c] = None
    <2> DEFINE q == [x EXCEPT !.at = "create_chat"]
    <2>1. access' = [access EXCEPT ![r] = q]
        BY <1>1, <1>4 DEF Access!FindChat, Access!Put
    <2>2. q \in Access!Request /\ Knows(q)
        BY <1>1, <1>2 DEF Access!Request, Access!Labels, Knows, AtChat
    <2> HIDE DEF q
    <2>3. Knows(q)'
        BY <1>3, <2>2, StaysKnown
    <2> QED BY <1>3, <2>1, <2>2, <2>3, AccessStep
<1>5. CASE chatCompany[x.c] # None
    <2>1. PICK p \in Access!WithChat(x) : access' = [access EXCEPT ![r] = p]
        BY <1>1, <1>5 DEF Access!FindChat, Access!Put
    <2>2. chatCompany'[x.c] # None
        BY <1>2, <1>5 DEF Access!rows
    <2>3. p \in Access!Request /\ Knows(p)'
        BY <1>1, <1>2, <1>3, <2>1, <2>2, WithChatKnows DEF AtChat
    <2> QED BY <1>3, <2>1, <2>3, AccessStep
<1> QED BY <1>4, <1>5

\* ... or made, which the unique key allows only where there is none.
LEMMA CreateChatKeepsAccess ==
    ASSUME AccessInv, NEW r \in Requests, Access!CreateChat(r)
    PROVE  AccessInv' /\ Grows
<1>1. PICK x \in Access!Request : x = access[r] /\ Knows(x)
    BY DEF AccessInv
<1>2. x.at = "create_chat" /\ x.c \in Companies
    BY <1>1 DEF Access!CreateChat, Access!At, Knows, AtChat
<1>3. CASE chatCompany[x.c] = None
    <2>1. /\ chatCompany' = [chatCompany EXCEPT ![x.c] = Access!FirstStatus(x)]
          /\ UNCHANGED <<paid, service, thread, promised>>
        BY <1>1, <1>3 DEF Access!CreateChat
    <2>2. PICK p \in Access!WithChat(x) : access' = [access EXCEPT ![r] = p]
        BY <1>1, <1>3 DEF Access!CreateChat, Access!Put
    <2>3. Access!FirstStatus(x) \in Access!LawyerReqStatus /\ Access!FirstStatus(x) # None
        BY NothingIsRow
           DEF Access!FirstStatus, Access!LawyerReqStatus, Access!ChatbotLawyerReqStatusEnum
    <2>4. \A c \in Companies :
            chatCompany'[c] = IF c = x.c THEN Access!FirstStatus(x) ELSE chatCompany[c]
        BY <2>1 DEF AccessInv, AccessRowsOK
    <2>5. Grows
        BY <1>3, <2>1, <2>3, <2>4, NothingIsRow DEF Grows
    <2>6. AccessRowsOK'
        BY <2>1, <2>3, <2>4 DEF AccessInv, AccessRowsOK
    <2>7. Backed'
        BY <2>1, <2>3, <2>4 DEF AccessInv, Backed
    <2>8. p \in Access!Request /\ Knows(p)'
        BY <1>1, <1>2, <2>2, <2>3, <2>4, <2>5, WithChatKnows DEF AtChat
    <2> QED BY <2>2, <2>5, <2>6, <2>7, <2>8, AccessStep
<1>4. CASE chatCompany[x.c] # None
    BY <1>1, <1>4, ReplyKeepsAccess DEF Access!CreateChat, Access!rows
<1> QED BY <1>3, <1>4

\* A thread is made in a company with its ChatCompany.
LEMMA CreateThreadKeepsAccess ==
    ASSUME AccessInv, NEW r \in Requests, Access!CreateThread(r)
    PROVE  AccessInv' /\ Grows
<1>1. PICK x \in Access!Request : x = access[r] /\ Knows(x)
    BY DEF AccessInv
<1>2. x.at = "create_thread" /\ x.c \in Companies /\ chatCompany[x.c] # None
    BY <1>1 DEF Access!CreateThread, Access!At, Knows
<1>3. PICK t \in Threads : thread' = [thread EXCEPT ![t] = x.c]
    BY <1>1 DEF Access!CreateThread
<1>4. /\ UNCHANGED <<paid, service, chatCompany, promised>>
      /\ access' = [access EXCEPT ![r] = Access!NoRequest]
    BY DEF Access!CreateThread, Access!Reply, Access!Put
<1>5. \A u \in Threads : thread'[u] = IF u = t THEN x.c ELSE thread[u]
    BY <1>3 DEF AccessInv, AccessRowsOK
<1>6. AccessRowsOK'
    BY <1>2, <1>3, <1>4, <1>5 DEF AccessInv, AccessRowsOK
<1>7. Backed' /\ Grows
    BY <1>4 DEF AccessInv, Backed, Grows
<1> QED BY <1>4, <1>6, <1>7, NoRequestKnows, AccessStep

\* The services that are added, and what the request reports.
LEMMA AddServicesKeepsAccess ==
    ASSUME AccessInv, NEW r \in Requests, Access!AddServices(r)
    PROVE  AccessInv' /\ Grows
<1>1. PICK x \in Access!Request : x = access[r] /\ Knows(x)
    BY DEF AccessInv
<1>2. x.at = "add_services"
    BY <1>1 DEF Access!AddServices, Access!At
<1>3. /\ UNCHANGED <<paid, chatCompany, thread>>
      /\ access' = [access EXCEPT ![r] = Access!NoRequest]
    BY DEF Access!AddServices, Access!Reply, Access!Put
<1>4. /\ x.s \in Services /\ x.todo \subseteq paid
      /\ x.ids \subseteq Companies /\ x.todo \subseteq Companies
      /\ \A c \in x.ids \ x.todo : service[c][x.s] # None
      /\ x.s = "AI_CHATBOT" => \A c \in x.todo : chatCompany[c] # None
    BY <1>1, <1>2 DEF Knows, Access!Request, AtChat
<1> DEFINE fresh == x.todo = Access!Without(x.s, x.todo)
<1>5. service' = [c \in Companies |->
                    IF fresh /\ c \in x.todo
                      THEN [service[c] EXCEPT ![x.s] = "change"] ELSE service[c]]
    BY <1>1 DEF Access!AddServices
<1>6. promised' = IF fresh THEN promised \cup (x.ids \X {x.s}) ELSE promised
    BY <1>1 DEF Access!AddServices
<1> HIDE DEF fresh
<1>7. \A c \in Companies, s \in Services :
        service'[c][s] = IF fresh /\ c \in x.todo /\ s = x.s THEN "change" ELSE service[c][s]
    BY <1>4, <1>5 DEF AccessInv, AccessRowsOK
<1>8. service' \in [Companies -> [Services -> Access!Makers \cup {None}]]
    BY <1>4, <1>5 DEF AccessInv, AccessRowsOK, Access!Makers
<1>9. "change" # None
    BY NothingIsRow DEF Access!Makers
<1>10. Grows
    BY <1>3, <1>7, <1>9 DEF Grows
<1>11. AccessRowsOK'
    BY <1>3, <1>4, <1>6, <1>8 DEF AccessInv, AccessRowsOK
<1>12. ASSUME NEW p \in promised' PROVE service'[p[1]][p[2]] # None
    <2>1. CASE p \in promised
        BY <1>7, <1>9, <2>1 DEF AccessInv, AccessRowsOK, Backed
    <2>2. CASE fresh /\ p \in x.ids \X {x.s}
        BY <1>4, <1>7, <1>9, <2>2
    <2> QED BY <1>6, <2>1, <2>2
<1>13. ASSUME NEW c \in Companies, NEW s \in Services, service'[c][s] = "change"
       PROVE  c \in paid' /\ (s = "AI_CHATBOT" => chatCompany'[c] # None)
    BY <1>3, <1>4, <1>7, <1>13 DEF AccessInv, Backed
<1>14. Backed'
    BY <1>12, <1>13 DEF Backed
<1> QED BY <1>3, <1>10, <1>11, <1>14, NoRequestKnows, AccessStep

\* A switched service is made by nobody's change.
LEMMA SetEnabledKeepsAccess ==
    ASSUME AccessInv, NEW d \in Companies, NEW e \in Services, Access!SetEnabled(d, e)
    PROVE  AccessInv' /\ Grows
<1>1. \A c \in Companies, s \in Services :
        service'[c][s] = IF c = d /\ s = e THEN "switch" ELSE service[c][s]
    BY DEF Access!SetEnabled, AccessInv, AccessRowsOK
<1>2. service' \in [Companies -> [Services -> Access!Makers \cup {None}]]
    BY DEF Access!SetEnabled, AccessInv, AccessRowsOK, Access!Makers
<1>3. "switch" # None /\ service[d][e] = None
    BY NothingIsRow DEF Access!Makers, Access!SetEnabled
<1>4. UNCHANGED <<paid, chatCompany, thread, access, promised>>
    BY DEF Access!SetEnabled
<1>5. AccessRowsOK' /\ Grows
    BY <1>1, <1>2, <1>3, <1>4 DEF AccessInv, AccessRowsOK, Grows
<1>6. Backed'
    BY <1>1, <1>3, <1>4 DEF AccessInv, AccessRowsOK, Backed
<1> QED BY <1>4, <1>5, <1>6, AccessWriteStep

\* The upsert of a lawyer's request writes over any status with "done".
LEMMA RequestLawyerKeepsAccess ==
    ASSUME AccessInv, NEW t \in Threads, Access!RequestLawyer(t)
    PROVE  AccessInv' /\ Grows
<1>1. PICK d \in Companies : d = thread[t]
    BY DEF Access!RequestLawyer, AccessInv, AccessRowsOK
<1>2. /\ chatCompany' = [chatCompany EXCEPT ![d] = "done"]
      /\ UNCHANGED <<paid, service, thread, access, promised>>
    BY <1>1 DEF Access!RequestLawyer
<1>3. "done" \in Access!LawyerReqStatus /\ "done" \in Access!Requested /\ "done" # None
    BY NothingIsRow
       DEF Access!LawyerReqStatus, Access!ChatbotLawyerReqStatusEnum, Access!Requested
<1>4. \A c \in Companies : chatCompany'[c] = IF c = d THEN "done" ELSE chatCompany[c]
    BY <1>2 DEF AccessInv, AccessRowsOK
<1>5. AccessRowsOK' /\ Grows
    BY <1>2, <1>3, <1>4 DEF AccessInv, AccessRowsOK, Grows
<1>6. Backed'
    BY <1>2, <1>3, <1>4 DEF AccessInv, Backed
<1> QED BY <1>2, <1>5, <1>6, AccessWriteStep

LEMMA AccessNext ==
    ASSUME AccessInv, [Access!Next]_Access!vars
    PROVE  AccessInv' /\ Grows
<1>1. CASE UNCHANGED Access!vars
    <2>1. AccessRowsOK' /\ Backed' /\ Grows /\ UNCHANGED access
        BY <1>1 DEF Access!vars, Access!rows, AccessInv, AccessRowsOK, Backed, Grows
    <2> QED BY <2>1, AccessWriteStep
<1>2. ASSUME NEW r \in Requests, Access!Answer(r) PROVE AccessInv' /\ Grows
    BY <1>2, FindWithoutKeepsAccess, PayKeepsAccess, FindChatKeepsAccess, CreateChatKeepsAccess,
       CreateThreadKeepsAccess, AddServicesKeepsAccess, ReplyKeepsAccess
       DEF Access!Answer, Access!CallFails
<1> QED
    BY <1>1, <1>2, ArriveKeepsAccess, SetEnabledKeepsAccess, RequestLawyerKeepsAccess
    DEF Access!Next

\* The strengthening holds, however the handlers overlap and fail.
LEMMA AccessInductive == Access!Spec => []AccessInv
<1>1. ASSUME Access!Init PROVE AccessInv
    <2>1. \A c \in Companies, s \in Services : service[c][s] = None
        BY <1>1 DEF Access!Init
    <2>2. service \in [Companies -> [Services -> Access!Makers \cup {None}]]
        BY <1>1 DEF Access!Init
    <2>3. AccessRowsOK
        BY <1>1, <2>2 DEF Access!Init, AccessRowsOK
    <2>4. Backed
        BY <1>1, <2>1, NothingIsRow DEF Access!Init, Backed, Access!Makers
    <2>5. \A r \in Requests : access[r] = Access!NoRequest
        BY <1>1 DEF Access!Init
    <2>6. access \in [Requests -> Access!Request]
        BY <1>1, NoRequestKnows DEF Access!Init
    <2> QED BY <2>3, <2>4, <2>5, <2>6, NoRequestKnows DEF AccessInv
<1>2. AccessInv /\ [Access!Next]_Access!vars => AccessInv'
    BY AccessNext
<1> QED BY <1>1, <1>2, PTL DEF Access!Spec

\* The rows of companies.service.ts and chatbot.service.ts have their types, and
\* a thread has the ChatCompany it belongs to.
THEOREM AccessTypeCorrect == Access!Spec => []Access!TypeOK
<1>1. AccessInv => Access!TypeOK
    BY DEF AccessInv, AccessRowsOK, Access!TypeOK
<1> QED BY <1>1, AccessInductive, PTL

\* What has a service is in its tab and no prospect.
LEMMA ListedByService ==
    ASSUME NEW c \in Companies, NEW s \in Services, service[c][s] # None
    PROVE  c \in Access!List(Access!TabOf(s), "all") \ Access!List("PROSPECT", "all")
<1>1. s \in Access!ServicesOf(c)
    BY DEF Access!ServicesOf
<1>2. s \in {"DISSOLUTION", "AI_CHATBOT"}
    BY NothingIsRow DEF Access!CompanyServicesEnum
<1>3. c \in Access!List(Access!TabOf(s), "all")
    BY <1>1, <1>2 DEF Access!List, Access!TabOf
<1>4. c \notin Access!List("PROSPECT", "all")
    BY <1>1 DEF Access!List
<1> QED BY <1>3, <1>4

\* What changeCompaniesTypes reports as done is done, and what it gave has the
\* fee and the ChatCompany behind it, however many requests overlap or fail.
THEOREM ServicesAreBacked == Access!Spec => []ServiceIsBacked
<1>1. ASSUME AccessInv PROVE ServiceIsBacked
    <2>1. \A p \in promised : p[1] \in Companies /\ p[2] \in Services
        BY <1>1 DEF AccessInv, AccessRowsOK
    <2> QED BY <1>1, <2>1, ListedByService
        DEF AccessInv, Backed, ServiceIsBacked, Access!ServiceIsBacked
<1> QED BY <1>1, AccessInductive, PTL

\* createThread and changeCompaniesTypes, which look for the ChatCompany before
\* they create it, never undo the "done" of requestLawyer, nor take the company
\* off the list of those that asked.
THEOREM RequestsAreKept == Access!Spec => RequestIsKept
<1>1. ASSUME AccessInv, Grows, NEW c \in Companies
      PROVE  /\ Access!HasRequest(c) => Access!HasRequest(c)'
             /\ c \in Access!List("CHATBOT", "yes") => (c \in Access!List("CHATBOT", "yes"))'
    <2>1. Access!HasRequest(c) => Access!HasRequest(c)'
        BY <1>1 DEF Grows, Access!HasRequest
    <2>2. Access!ServicesOf(c) \subseteq Access!ServicesOf(c)'
        BY <1>1 DEF Grows, Access!ServicesOf
    <2> QED BY <2>1, <2>2 DEF Access!List
<1>2. AccessInv /\ [Access!Next]_Access!vars =>
        [\A c \in Companies :
           /\ Access!HasRequest(c) => Access!HasRequest(c)'
           /\ c \in Access!List("CHATBOT", "yes") =>
                (c \in Access!List("CHATBOT", "yes"))']_Access!vars
    BY <1>1, AccessNext
<1> QED BY <1>2, AccessInductive, PTL DEF Access!Spec, RequestIsKept, Access!RequestIsKept

\* Lists and access beside each other, as MCChatAccess runs them, are what they
\* are alone.
LEMMA EachRuns == SpecBoth => Spec /\ Access!Spec
<1>1. InitBoth => Init /\ Access!Init
    BY DEF InitBoth
<1>2. [NextLists \/ NextAccess]_<<listVars, accessVars, focus>>
        => [Next]_vars /\ [Access!Next]_Access!vars
    BY DEF NextLists, NextAccess, listVars, accessVars, Access!vars, Access!rows
<1> QED BY <1>1, <1>2, PTL DEF SpecBoth, Spec, Access!Spec

\* Threads, categories, services and ChatCompany rows stay well formed, and so
\* does every request to chatbot.service.ts and companies.service.ts.
THEOREM TypesAreKept == SpecBoth => []TypesOK
<1>1. TypeOK /\ Access!TypeOK => TypesOK
    BY DEF TypesOK
<1> QED BY <1>1, EachRuns, TypeCorrect, AccessTypeCorrect, PTL
=============================================================================
