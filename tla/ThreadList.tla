----------------------------- MODULE ThreadList -----------------------------
(****************************************************************************)
(* The threads and categories a user is shown (chatbot.service.ts 912-1134) *)
(* while threads are opened and put into categories.  A reply is put        *)
(* together from several queries, one await apart and in no transaction:    *)
(*                                                                          *)
(*   getAllThreadsAndCategories    categories -> rows of each category, all *)
(*                                 at once -> threads -> filed -> done      *)
(*   getThreadsByCategory          find_category -> rows -> done            *)
(*   associateThreadWithCategory   find_category -> find_relation ->        *)
(*                                 create_relation                          *)
(*                                                                          *)
(* Threads and categories are a user's.  A request looks for the category   *)
(* of its user, and never whose the thread is that is put into it.          *)
(* Threads, categories and their relations are never deleted, and keep      *)
(* their user; updateCategory changes a name only.  Of the GET routes       *)
(* threads/uncategorized is left out: threads/:thread_id, which is declared *)
(* before it (chatbot.controller.ts:89), takes its requests.                *)
(****************************************************************************)
EXTENDS FiniteSets

CONSTANTS
    Users,       \* user ids
    Threads,     \* bound: the thread ids there are
    Categories,  \* bound: the category ids there are
    Requests,    \* request slots: how many requests are in flight at once
    None

ASSUME NoneIsNoUser == None \notin Users

VARIABLES
    threads,     \* threads[t]: the userId of the ChatThread row, or None
    categories,  \* categories[c]: the userId of the ChatCategory row, or None
    filed,       \* the ChatThreadCategory rows: <<thread, category>>
    req          \* req[r]: the request in slot r

vars == <<threads, categories, filed, req>>

Pairs == Threads \X Categories

Labels == {"idle", "find_category", "find_relation", "create_relation",
           "categories", "rows", "threads", "filed", "done"}

Request == [at   : Labels,
            op   : {"none", "all", "category", "file"},
            u    : Users \cup {None},
            t    : Threads \cup {None},
            c    : Categories \cup {None},
            todo : SUBSET Categories,  \* rows not read yet
            rows : SUBSET Pairs,       \* what the reply shows in categories
            own  : SUBSET Threads,     \* the threads read
            loose : SUBSET Threads,    \* what it shows as uncategorized
            threads0 : SUBSET Threads, \* history: the rows there were when the
            filed0   : SUBSET Pairs]   \*   request arrived

NoRequest == [at |-> "idle", op |-> "none", u |-> None, t |-> None, c |-> None,
              todo |-> {}, rows |-> {}, own |-> {}, loose |-> {}, threads0 |-> {}, filed0 |-> {}]

Init ==
    /\ threads = [t \in Threads |-> None]
    /\ categories = [c \in Categories |-> None]
    /\ filed = {}
    /\ req = [r \in Requests |-> NoRequest]

-----------------------------------------------------------------------------
At(r, label) == req[r].at = label

Goto(r, label) == req' = [req EXCEPT ![r].at = label]

Reply(r) == req' = [req EXCEPT ![r] = NoRequest]

Stored == <<threads, categories, filed>>

ThreadsOf(u)    == {t \in Threads : threads[t] = u}
CategoriesOf(u) == {c \in Categories : categories[c] = u}

\* (Mutant of Order: what is in no category is read first.)
OrderLooseFirst == [first |-> "threads", afterRows |-> "done", afterFiled |-> "categories"]

\* In which order getAllThreadsAndCategories awaits its queries.
Order == [first |-> "categories", afterRows |-> "threads", afterFiled |-> "done"]

(****************************************************************************)
(* Single writes.                                                           *)
(****************************************************************************)

\* The last call of createThread (all of it is in ChatAccess).
CreateThread(u, t) ==
    /\ threads[t] = None
    /\ threads' = [threads EXCEPT ![t] = u]
    /\ UNCHANGED <<categories, filed, req>>

CreateCategory(u, c) ==
    /\ categories[c] = None
    /\ categories' = [categories EXCEPT ![c] = u]
    /\ UNCHANGED <<threads, filed, req>>

(****************************************************************************)
(* Requests arrive.                                                         *)
(****************************************************************************)

Accept(r, q) ==
    /\ At(r, "idle")
    /\ req' = [req EXCEPT ![r] = q]
    /\ UNCHANGED Stored

ArriveFile(r, u, t, c) ==
    Accept(r, [NoRequest EXCEPT !.at = "find_category", !.op = "file",
                                !.u = u, !.t = t, !.c = c])

ArriveCategory(r, u, c) ==
    Accept(r, [NoRequest EXCEPT !.at = "find_category", !.op = "category",
                                !.u = u, !.c = c])

ArriveAll(r, u) ==
    Accept(r, [NoRequest EXCEPT !.at = Order.first, !.op = "all", !.u = u,
                                !.threads0 = ThreadsOf(u), !.filed0 = filed])

(****************************************************************************)
(* One awaited call each.                                                   *)
(****************************************************************************)

\* Without such a category of the user: 'Category not found'.
FindCategory(r) ==
    /\ At(r, "find_category")
    /\ IF req[r].c \notin CategoriesOf(req[r].u) THEN Reply(r)
       ELSE IF req[r].op = "file" THEN Goto(r, "find_relation")
       ELSE req' = [req EXCEPT ![r].at = "rows", ![r].todo = {req[r].c}]
    /\ UNCHANGED Stored

\* 'Thread is already associated with this category'.
FindRelation(r) ==
    /\ At(r, "find_relation")
    /\ IF <<req[r].t, req[r].c>> \in filed THEN Reply(r) ELSE Goto(r, "create_relation")
    /\ UNCHANGED Stored

\* The thread is not looked for, and may be anybody's: the foreign key rejects
\* an unknown one, and the primary key a row made since.
CreateRelation(r) ==
    /\ At(r, "create_relation")
    /\ threads[req[r].t] # None /\ <<req[r].t, req[r].c>> \notin filed
    /\ filed' = filed \cup {<<req[r].t, req[r].c>>}
    /\ Reply(r)
    /\ UNCHANGED <<threads, categories>>

GetCategories(r) ==
    /\ At(r, "categories")
    /\ LET mine == CategoriesOf(req[r].u) IN
       req' = [req EXCEPT ![r].todo = mine,
                          ![r].at = IF mine = {} THEN Order.afterRows ELSE "rows"]
    /\ UNCHANGED Stored

\* The branches of one Promise.all, answered in any order.  Each then reads its
\* threads by id, which are there for good.
ReadRows(r, c) ==
    /\ At(r, "rows")
    /\ c \in req[r].todo
    /\ req' = [req EXCEPT
                 ![r].rows = @ \cup {p \in filed : p[2] = c},
                 ![r].todo = @ \ {c},
                 ![r].at = IF req[r].todo # {c} THEN "rows"
                           ELSE IF req[r].op = "all" THEN Order.afterRows ELSE "done"]
    /\ UNCHANGED Stored

\* getUncategorizedThreads: the threads of the user, and then which of them are
\* by now in any category, of whatever user.
ReadThreads(r) ==
    /\ At(r, "threads")
    /\ req' = [req EXCEPT ![r].own = ThreadsOf(req[r].u), ![r].at = "filed"]
    /\ UNCHANGED Stored

ReadFiled(r) ==
    /\ At(r, "filed")
    /\ req' = [req EXCEPT ![r].loose = {t \in req[r].own : \A p \in filed : p[1] # t},
                          ![r].at = Order.afterFiled]
    /\ UNCHANGED Stored

Send(r) == At(r, "done") /\ Reply(r) /\ UNCHANGED Stored

CallFails(r) == ~ At(r, "idle") /\ ~ At(r, "done") /\ Reply(r) /\ UNCHANGED Stored

-----------------------------------------------------------------------------
Arrive(r) ==
    \E u \in Users :
        \/ ArriveAll(r, u)
        \/ \E c \in Categories :
             ArriveCategory(r, u, c) \/ \E t \in Threads : ArriveFile(r, u, t, c)

Answer(r) ==
    \/ FindCategory(r) \/ FindRelation(r) \/ CreateRelation(r)
    \/ GetCategories(r) \/ (\E c \in Categories : ReadRows(r, c))
    \/ ReadThreads(r) \/ ReadFiled(r) \/ Send(r) \/ CallFails(r)

Next ==
    \/ \E u \in Users, t \in Threads : CreateThread(u, t)
    \/ \E u \in Users, c \in Categories : CreateCategory(u, c)
    \/ \E r \in Requests : Arrive(r) \/ Answer(r)

Spec == Init /\ [][Next]_vars

-----------------------------------------------------------------------------
(* Properties                                                               *)

TypeOK ==
    /\ threads \in [Threads -> Users \cup {None}]
    /\ categories \in [Categories -> Users \cup {None}]
    /\ filed \subseteq Pairs
    /\ \A p \in filed : threads[p[1]] # None /\ categories[p[2]] # None
    /\ req \in [Requests -> Request]

\* Thread t is in a category of somebody else than u.
FiledByOthers(u, t) == \E c \in Categories \ CategoriesOf(u) : <<t, c>> \in filed

\* The reply of getAllThreadsAndCategories shows no thread twice, in a category
\* and as uncategorized, although the two come from queries awaits apart.  It
\* shows every relation its user's categories had when the request arrived.
\* And a thread its user had is missing from both parts only if it has been put
\* into a category since, or if somebody else has it in one of theirs.
ShownOnce ==
    \A r \in Requests : At(r, "done") /\ req[r].op = "all" =>
        LET q == req[r] IN
        /\ \A p \in q.rows : p[1] \notin q.loose
        /\ \A p \in q.filed0 : p[2] \in CategoriesOf(q.u) => p \in q.rows
        /\ \A t \in q.threads0 \ q.loose :
             \/ \E c \in Categories : <<t, c>> \in q.rows \cup (filed \ q.filed0)
             \/ FiledByOthers(q.u, t)
=============================================================================
