-------------------------- MODULE TaskBoardProofs ---------------------------
(****************************************************************************)
(* For any number of companies, people, tasks and requests: tasks are       *)
(* assigned to those who may have them, and stay on the list and at the     *)
(* company they are of.  And of a company on which no two intakes overlap:  *)
(* it has one roadmap, as it last answered, and what it answered is saved.  *)
(****************************************************************************)
EXTENDS TaskBoard, TLAPS

(****************************************************************************)
(* assignTasks writes by id what it learned some awaits before.  That this  *)
(* is still true needs three facts together: the tasks found were of the    *)
(* type asked for, everything that changes a task keeps its type and        *)
(* company, and no later task gets an id that was deleted (Made).           *)
(****************************************************************************)

\* Tasks come from the calls of createMany made so far.
Made == \A i \in Rows : i[1] <= Len(plans)

\* What an assignment whose tasks were found knows about them.
Knows(q) ==
    q.at \in {"user", "members", "assign"} =>
        /\ \A i \in q.ids : i[1] <= Len(plans)
        /\ \A i \in q.ids \cap Rows :
             /\ task[i].typeTask = q.type
             /\ q.at = "user" => task[i].company \in q.toCheck
             /\ q.at = "members" => task[i].company \in q.toCheck \cup MemberOf[q.who]
             /\ q.at = "assign" /\ q.type = "client_task" =>
                  task[i].company \in MemberOf[q.who]
        /\ q.at = "members" => q.type = "client_task" /\ q.who \in Clients
        /\ q.at = "assign" => \/ q.type = "client_task" /\ q.who \in Clients
                              \/ q.type = "encore_task" /\ q.who \in Admins

Known == \A r \in Requests : Knows(req[r])

\* What requests carry at their labels.
Carries(q) ==
    /\ q.at \in {"get", "find_place", "add_place", "drop_places", "update"} =>
         q.said \in Intakes
    /\ q.at \in {"get", "find_place", "add_place", "drop_places", "update",
                 "existing", "ip", "financial", "create"} => q.c \in Companies
    /\ q.at \in {"find_place", "add_place", "drop_places"} => q.table \in Tables
    /\ q.at \in {"find_place", "add_place"} => q.said.place[q.table] \in Places

Carried == \A r \in Requests : Carries(req[r])

IInv == TypeOK /\ Made /\ Known /\ Carried /\ AssigneeBelongs

\* What any step does to the tasks there are.
Keep ==
    \A i \in Rows : task'[i] # None =>
        /\ task'[i].typeTask = task[i].typeTask
        /\ task'[i].company = task[i].company
        /\ task[i].complete => task'[i].complete

\* The tasks of a step that were there before.
NoneReturns == \A i \in Ids : task'[i] # None /\ i[1] <= Len(plans) => i \in Rows

\* Requests other than r, and r itself if it still knows what it should.
LEMMA KnownStays ==
    ASSUME IInv, Keep, NoneReturns, Len(plans) <= Len(plans)', Len(plans)' \in Nat,
           NEW q \in Request, Knows(q)
    PROVE  Knows(q)'
<1> USE DEF IInv
<1> SUFFICES ASSUME q.at \in {"user", "members", "assign"}
             PROVE  Knows(q)'
  BY DEF Knows
<1>1. Len(plans) \in Nat
  BY DEF TypeOK
<1>2. \A i \in q.ids : i \in Ids /\ i[1] \in Nat /\ i[1] <= Len(plans)
  BY BoundsType DEF Knows, Request, Ids
<1>3. \A i \in q.ids : i[1] <= Len(plans)'
  BY <1>1, <1>2
<1>4. \A i \in q.ids : task'[i] # None =>
        /\ i \in Rows
        /\ task'[i].typeTask = task[i].typeTask
        /\ task'[i].company = task[i].company
  BY <1>2 DEF Keep, NoneReturns
<1> QED
  BY <1>3, <1>4 DEF Knows, Rows

\* One request moves on; all that its action has to show about the requests.
LEMMA OneRequest ==
    ASSUME IInv, Keep, NoneReturns, Len(plans) <= Len(plans)', Len(plans)' \in Nat,
           NEW r \in Requests, NEW q \in Request, req' = [req EXCEPT ![r] = q],
           Knows(q), Carries(q)
    PROVE  req' \in [Requests -> Request] /\ Known' /\ Carried'
<1>1. req \in [Requests -> Request]
  BY DEF IInv, TypeOK
<1>2. req' \in [Requests -> Request] /\ req'[r] = q
  BY <1>1
<1>3. \A s \in Requests : s # r => req'[s] = req[s]
  BY <1>1
<1>4. Carried'
  BY <1>2, <1>3 DEF IInv, Carried
<1>5. ASSUME NEW s \in Requests PROVE Knows(req[s])'
  <2>1. PICK x \in Request : x = req'[s] /\ Knows(x)
    BY <1>2, <1>3, <1>1 DEF IInv, Known
  <2>2. Knows(x)'
    BY <2>1, KnownStays
  <2> QED
    BY <2>1, <2>2 DEF Knows
<1> QED
  BY <1>2, <1>4, <1>5 DEF Known

\* No request but r moves, and no task.
LEMMA QuietRequest ==
    ASSUME IInv, UNCHANGED <<task, plans>>,
           NEW r \in Requests, NEW q \in Request, req' = [req EXCEPT ![r] = q],
           Knows(q), Carries(q)
    PROVE  /\ req' \in [Requests -> Request]
           /\ Made' /\ Known' /\ Carried' /\ AssigneeBelongs' /\ Keep
<1>1. Keep /\ NoneReturns
  BY DEF Keep, NoneReturns, Rows
<1>2. Len(plans) <= Len(plans)' /\ Len(plans)' \in Nat
  BY DEF IInv, TypeOK
<1>3. Made' /\ AssigneeBelongs'
  BY DEF IInv, Made, AssigneeBelongs, Rows
<1>4. req' \in [Requests -> Request] /\ Known' /\ Carried'
  BY <1>1, <1>2, OneRequest
<1> QED
  BY <1>1, <1>3, <1>4

LEMMA ReplyKeepsRequests == NoRequest \in Request /\ Knows(NoRequest) /\ Carries(NoRequest)
BY DEF NoRequest, Request, Labels, Knows, Carries

-----------------------------------------------------------------------------
(* Requests arrive.                                                         *)

LEMMA ArriveKeepsIInv ==
    ASSUME IInv, Arrive
    PROVE  IInv' /\ Keep
<1>1. ASSUME NEW r \in Requests, NEW q \in Request, Accept(r, q), Knows(q), Carries(q),
             overlapped' \subseteq Companies
      PROVE  IInv' /\ Keep
  <2>1. UNCHANGED <<task, plans, answers, located>> /\ req' = [req EXCEPT ![r] = q]
    BY <1>1 DEF Accept, rows
  <2>2. calls' \in 0 .. MaxCalls
    BY <1>1, BoundsType DEF Accept, IInv, TypeOK
  <2>3. /\ req' \in [Requests -> Request]
        /\ Made' /\ Known' /\ Carried' /\ AssigneeBelongs' /\ Keep
    BY <1>1, <2>1, QuietRequest
  <2>4. TypeOK'
    BY <1>1, <2>1, <2>2, <2>3 DEF IInv, TypeOK
  <2> QED
    BY <2>3, <2>4 DEF IInv
<1>2. ASSUME NEW r \in Requests, NEW c \in Companies, ArrivePlan(r, c)
      PROVE  IInv' /\ Keep
  <2> DEFINE q == [NoRequest EXCEPT !.at = "existing", !.c = c]
  <2>1. q \in Request /\ Knows(q) /\ Carries(q)
    BY DEF NoRequest, Request, Labels, Knows, Carries
  <2>2. Accept(r, q) /\ overlapped' \subseteq Companies
    BY <1>2 DEF ArrivePlan, AcceptPlanner, IInv, TypeOK, NoRequest
  <2> QED
    BY <2>1, <2>2, <1>1
<1>3. ASSUME NEW r \in Requests, NEW c \in Companies, NEW payload \in Intakes,
             ArriveIntake(r, c, payload)
      PROVE  IInv' /\ Keep
  <2> DEFINE q == [NoRequest EXCEPT !.at = "get", !.c = c, !.said = payload]
  <2>1. q \in Request /\ Knows(q) /\ Carries(q)
    BY DEF NoRequest, Request, Labels, Knows, Carries
  <2>2. Accept(r, q) /\ overlapped' \subseteq Companies
    BY <1>3 DEF ArriveIntake, AcceptPlanner, IInv, TypeOK, NoRequest
  <2> QED
    BY <2>1, <2>2, <1>1
<1>4. ASSUME NEW r \in Requests, NEW ids \in IdLists, NEW type \in TaskTypeEnum,
             NEW who \in Clients \cup Admins, ArriveAssign(r, ids, type, who)
      PROVE  IInv' /\ Keep
  <2> DEFINE q == [NoRequest EXCEPT !.at = "tasks", !.ids = ids, !.type = type, !.who = who]
  <2>1. ids \subseteq Ids
    BY DEF IdLists, Rows
  <2>2. q \in Request /\ Knows(q) /\ Carries(q)
    BY <2>1 DEF NoRequest, Request, Labels, Knows, Carries
  <2>3. Accept(r, q) /\ overlapped' \subseteq Companies
    BY <1>4 DEF ArriveAssign, IInv, TypeOK
  <2> QED
    BY <2>2, <2>3, <1>1
<1> QED
  BY <1>2, <1>3, <1>4 DEF Arrive

-----------------------------------------------------------------------------
(* Awaited calls that leave the tasks alone.                                *)

LEMMA QuietStep ==
    ASSUME IInv, UNCHANGED <<task, history>>,
           answers' \in [Companies -> SUBSET Details],
           located' \in [Companies -> [Tables -> SUBSET Places]],
           NEW r \in Requests, NEW q \in Request, req' = [req EXCEPT ![r] = q],
           Knows(q), Carries(q)
    PROVE  IInv' /\ Keep
<1>1. /\ req' \in [Requests -> Request]
      /\ Made' /\ Known' /\ Carried' /\ AssigneeBelongs' /\ Keep
  BY QuietRequest DEF history
<1>2. TypeOK'
  BY <1>1 DEF IInv, TypeOK, history
<1> QED
  BY <1>1, <1>2 DEF IInv

LEMMA FailKeepsIInv ==
    ASSUME IInv, NEW r \in Requests, Fail(r)
    PROVE  IInv' /\ Keep
BY QuietStep, ReplyKeepsRequests DEF Fail, Reply, rows, IInv, TypeOK

\* To the next location table.
LEMMA ToTableCarries ==
    ASSUME IInv, NEW r \in Requests, NEW t \in Tables, req[r].said \in Intakes,
           req[r].c \in Companies,
           UNCHANGED <<task, history>>,
           answers' \in [Companies -> SUBSET Details],
           located' \in [Companies -> [Tables -> SUBSET Places]],
           ToTable(r, t)
    PROVE  IInv' /\ Keep
<1> DEFINE q == [req[r] EXCEPT !.table = t,
                               !.at = IF req[r].said.place[t] # None
                                        THEN "find_place" ELSE "drop_places"]
<1>1. req' = [req EXCEPT ![r] = q]
  BY DEF ToTable
<1>2. req[r] \in Request
  BY DEF IInv, TypeOK
<1>3. req[r].said.place[t] \in Places \cup {None}
  BY IntakesType DEF Intake
<1>4. q \in Request
  BY <1>2 DEF Request, Labels
<1>5. q.at = (IF req[r].said.place[t] # None THEN "find_place" ELSE "drop_places")
      /\ q.table = t /\ q.said = req[r].said /\ q.c = req[r].c
  BY <1>2 DEF Request
<1> HIDE DEF q
<1>6. Knows(q) /\ Carries(q)
  BY <1>3, <1>5 DEF Knows, Carries
<1> QED
  BY <1>1, <1>4, <1>6, QuietStep

\* To a label that asks no more of the request than it carries.
LEMMA GotoCarries ==
    ASSUME IInv, NEW r \in Requests,
           NEW label \in {"add_place", "update", "existing", "ip", "financial", "create"},
           req[r].c \in Companies, label \in {"add_place", "update"} => req[r].said \in Intakes,
           label = "add_place" => req[r].table \in Tables /\ Place(r) \in Places,
           UNCHANGED <<task, history>>,
           answers' \in [Companies -> SUBSET Details],
           located' \in [Companies -> [Tables -> SUBSET Places]],
           Goto(r, label)
    PROVE  IInv' /\ Keep
<1> DEFINE q == [req[r] EXCEPT !.at = label]
<1>1. req' = [req EXCEPT ![r] = q]
  BY DEF Goto
<1>2. req[r] \in Request
  BY DEF IInv, TypeOK
<1>3. q \in Request
  BY <1>2 DEF Request, Labels
<1>4. q.at = label /\ q.table = req[r].table /\ q.said = req[r].said /\ q.c = req[r].c
  BY <1>2 DEF Request
<1> HIDE DEF q
<1>5. Knows(q) /\ Carries(q)
  BY <1>4 DEF Knows, Carries, Place
<1> QED
  BY <1>1, <1>3, <1>5, QuietStep

LEMMA AfterTableCarries ==
    ASSUME IInv, NEW r \in Requests,
           req[r].at \in {"find_place", "add_place", "drop_places"},
           UNCHANGED <<task, history>>,
           answers' \in [Companies -> SUBSET Details],
           located' \in [Companies -> [Tables -> SUBSET Places]],
           AfterTable(r)
    PROVE  IInv' /\ Keep
<1>1. req[r].said \in Intakes /\ req[r].c \in Companies
  BY DEF IInv, Carried, Carries
<1>2. CASE req[r].table = "w2_states"
  BY <1>1, <1>2, ToTableCarries DEF AfterTable, Tables
<1>3. CASE req[r].table # "w2_states"
  BY <1>1, <1>3, GotoCarries DEF AfterTable
<1> QED
  BY <1>2, <1>3

LEMMA IntakingKeepsIInv ==
    ASSUME IInv, NEW r \in Requests, Intaking(r)
    PROVE  IInv' /\ Keep
<1> USE DEF history, At
<1>1. /\ answers \in [Companies -> SUBSET Details]
      /\ located \in [Companies -> [Tables -> SUBSET Places]]
  BY DEF IInv, TypeOK
<1>2. Carries(req[r])
  BY DEF IInv, Carried
<1>3. CASE GetCompany(r)
  BY <1>1, <1>2, <1>3, ToTableCarries DEF GetCompany, Carries, Tables, rows
<1>4. CASE FindPlace(r)
  <2>1. UNCHANGED <<answers, located, task, history>> /\ req[r].at = "find_place"
    BY <1>4 DEF FindPlace, rows
  <2>2. CASE AfterTable(r)
    BY <1>1, <2>1, <2>2, AfterTableCarries
  <2>3. CASE Goto(r, "add_place")
    <3>1. /\ req[r].c \in Companies /\ req[r].said \in Intakes
          /\ req[r].table \in Tables /\ Place(r) \in Places
      BY <1>2, <2>1 DEF Carries, Place
    <3> QED
      BY <1>1, <2>1, <2>3, <3>1, GotoCarries
  <2> QED
    BY <1>4, <2>2, <2>3 DEF FindPlace
<1>5. CASE AddPlace(r)
  <2>1. UNCHANGED <<answers, task, history>> /\ req[r].at = "add_place" /\ AfterTable(r)
    BY <1>5 DEF AddPlace
  <2>2. req[r].c \in Companies /\ req[r].table \in Tables /\ Place(r) \in Places
    BY <1>2, <2>1 DEF Carries, Place
  <2>3. located' \in [Companies -> [Tables -> SUBSET Places]]
    BY <1>1, <1>5, <2>2 DEF AddPlace
  <2> QED
    BY <1>1, <2>1, <2>3, AfterTableCarries
<1>6. CASE DropPlaces(r)
  <2>1. UNCHANGED <<answers, task, history>> /\ req[r].at = "drop_places" /\ AfterTable(r)
    BY <1>6 DEF DropPlaces
  <2>2. located' \in [Companies -> [Tables -> SUBSET Places]]
    BY <1>1, <1>6 DEF DropPlaces
  <2> QED
    BY <1>1, <2>1, <2>2, AfterTableCarries
<1>7. CASE UpdateCompany(r)
  <2>1. UNCHANGED <<located, task, history>> /\ req[r].at = "update" /\ Goto(r, "existing")
    BY <1>7 DEF UpdateCompany
  <2>2. req[r].c \in Companies /\ req[r].said \in Intakes
    BY <1>2, <2>1 DEF Carries
  <2>3. req[r].said.gives \subseteq Details
    BY <2>2, IntakesType DEF Intake
  <2>4. answers' \in [Companies -> SUBSET Details]
    BY <1>1, <1>7, <2>3 DEF UpdateCompany
  <2> QED
    BY <1>1, <2>1, <2>2, <2>4, GotoCarries
<1> QED
  BY <1>3, <1>4, <1>5, <1>6, <1>7 DEF Intaking

-----------------------------------------------------------------------------
(* createTasks, and the other writes to the tasks.                          *)

\* The rows of the n-th call: what it says of tasks that were there before.
LEMMA MadeNow ==
    ASSUME IInv, NEW c \in Companies, NEW kinds \in SUBSET Kinds,
           plans' = Append(plans, [company |-> c, kinds |-> kinds, answers |-> answers[c]]),
           task' \in [Ids -> Task \cup {None}],
           \A i \in Ids : i[1] # Len(plans) + 1 => task'[i] = task[i],
           \A i \in Ids : i[1] = Len(plans) + 1 /\ task'[i] # task[i] =>
             /\ task'[i].client = None
             /\ task'[i].admin # None => task'[i].typeTask = "encore_task"
    PROVE  /\ Keep /\ NoneReturns /\ Made' /\ AssigneeBelongs'
           /\ Len(plans) <= Len(plans)' /\ Len(plans)' \in Nat
           /\ plans' \in Seq([company : Companies, kinds : SUBSET Kinds,
                              answers : SUBSET Details])
<1> USE DEF IInv
<1>1. Len(plans) \in Nat /\ answers[c] \in SUBSET Details
      /\ plans \in Seq([company : Companies, kinds : SUBSET Kinds, answers : SUBSET Details])
  BY DEF TypeOK
<1>2. /\ plans' \in Seq([company : Companies, kinds : SUBSET Kinds, answers : SUBSET Details])
      /\ Len(plans') = Len(plans) + 1
  BY <1>1
<1>3. \A i \in Rows : i \in Ids /\ i[1] \in Nat /\ i[1] <= Len(plans)
  BY BoundsType DEF Made, Rows, Ids
<1>4. \A i \in Rows : task'[i] = task[i]
  BY <1>1, <1>3
<1>5. Keep /\ NoneReturns
  <2>1. Keep
    BY <1>4 DEF Keep
  <2>2. ASSUME NEW i \in Ids, task'[i] # None, i[1] <= Len(plans) PROVE i \in Rows
    <3>1. i[1] \in Nat
      BY BoundsType DEF Ids
    <3>2. task'[i] = task[i]
      BY <1>1, <2>2, <3>1
    <3> QED
      BY <2>2, <3>2 DEF Rows
  <2> QED
    BY <2>1, <2>2 DEF NoneReturns
<1>6. Made'
  <2> SUFFICES ASSUME NEW i \in Ids, task'[i] # None PROVE i[1] <= Len(plans)'
    BY DEF Made, Rows
  <2>1. i[1] \in Nat
    BY BoundsType DEF Ids
  <2>2. i[1] = Len(plans) + 1 \/ i \in Rows
    BY DEF Rows
  <2> QED
    BY <1>1, <1>2, <1>3, <2>1, <2>2
<1>7. AssigneeBelongs'
  <2> SUFFICES ASSUME NEW i \in Ids, task'[i] # None
               PROVE  /\ task'[i].client # None =>
                           task'[i].typeTask = "client_task"
                           /\ task'[i].company \in MemberOf[task'[i].client]
                      /\ task'[i].admin # None => task'[i].typeTask = "encore_task"
    BY DEF AssigneeBelongs, Rows
  <2>1. CASE task'[i] = task[i]
    BY <2>1 DEF AssigneeBelongs, Rows
  <2>2. CASE task'[i] # task[i]
    BY <2>2
  <2> QED
    BY <2>1, <2>2
<1> QED
  BY <1>1, <1>2, <1>5, <1>6, <1>7

LEMMA NewTaskType ==
    ASSUME NEW c \in Companies, NEW k \in AllKinds
    PROVE  /\ NewTask(c, k) \in Task /\ NewTask(c, k).client = None
           /\ NewTask(c, k).admin = None
           /\ NewTask(c, k).typeTask = TypeOf(k)
BY DEF NewTask, Task, TypeOf, TaskTypeEnum

LEMMA PlanningKeepsIInv ==
    ASSUME IInv, NEW r \in Requests, Planning(r)
    PROVE  IInv' /\ Keep
<1> USE DEF At
<1>1. /\ answers \in [Companies -> SUBSET Details]
      /\ located \in [Companies -> [Tables -> SUBSET Places]]
      /\ task \in [Ids -> Task \cup {None}]
      /\ req[r] \in Request
  BY DEF IInv, TypeOK
<1>2. Carries(req[r])
  BY DEF IInv, Carried
<1>3. CASE FindExisting(r)
  <2>1. UNCHANGED <<answers, located, task, history>> /\ req[r].c \in Companies
    BY <1>2, <1>3 DEF FindExisting, rows, Carries
  <2>2. CASE Goto(r, "ip")
    BY <1>1, <2>1, <2>2, GotoCarries
  <2>3. CASE Reply(r)
    BY <1>1, <2>1, <2>3, QuietStep, ReplyKeepsRequests DEF Reply
  <2> QED
    BY <1>3, <2>2, <2>3 DEF FindExisting
<1>4. ASSUME NEW detail \in Details, NEW label \in {"financial", "create"},
             req[r].at \in {"ip", "financial"}, Read(r, detail, label)
      PROVE  IInv' /\ Keep
  <2> DEFINE q == [req[r] EXCEPT !.read = @ \cup (answers[req[r].c] \cap {detail}),
                                 !.at = label]
  <2>1. req' = [req EXCEPT ![r] = q] /\ UNCHANGED <<answers, located, task, history>>
    BY <1>4 DEF Read, rows
  <2>2. q \in Request
    BY <1>1 DEF Request, Labels
  <2>3. q.at = label /\ q.c = req[r].c
    BY <1>1 DEF Request
  <2>4. req[r].c \in Companies
    BY <1>2, <1>4 DEF Carries
  <2> HIDE DEF q
  <2>5. Knows(q) /\ Carries(q)
    BY <2>3, <2>4 DEF Knows, Carries
  <2> QED
    BY <1>1, <2>1, <2>2, <2>5, QuietStep
<1>5. CASE ReadIntellectualProperty(r)
  BY <1>4, <1>5 DEF ReadIntellectualProperty, Details
<1>6. CASE ReadFinancialDetails(r)
  BY <1>4, <1>6 DEF ReadFinancialDetails, Details
<1>7. CASE CreateTasks(r)
  <2> DEFINE c == req[r].c
             kinds == {k \in Kinds : NeedsOf(k) \subseteq req[r].read}
  <2>1. c \in Companies /\ kinds \in SUBSET Kinds
    BY <1>2, <1>7 DEF CreateTasks, Carries
  <2>2. \A i \in Ids : task'[i] = IF i[1] = Len(plans) + 1 /\ i[2] \in kinds
                                    THEN NewTask(c, i[2]) ELSE task[i]
    BY <1>7 DEF CreateTasks
  <2>3. /\ plans' = Append(plans, [company |-> c, kinds |-> kinds, answers |-> answers[c]])
        /\ Reply(r) /\ UNCHANGED <<answers, located, overlapped, calls>>
        /\ task' = [i \in Ids |-> IF i[1] = Len(plans) + 1 /\ i[2] \in kinds
                                    THEN NewTask(c, i[2]) ELSE task[i]]
    BY <1>7 DEF CreateTasks
  <2>4. \A k \in Kinds : /\ NewTask(c, k) \in Task /\ NewTask(c, k).client = None
                         /\ NewTask(c, k).admin = None
    BY <2>1, NewTaskType DEF AllKinds
  <2> HIDE DEF c, kinds
  <2>5. task' \in [Ids -> Task \cup {None}]
    BY <1>1, <2>1, <2>3, <2>4
  <2>6. \A i \in Ids : task'[i] # task[i] => task'[i].client = None /\ task'[i].admin = None
    BY <2>1, <2>2, <2>4
  <2>7. /\ Keep /\ NoneReturns /\ Made' /\ AssigneeBelongs'
        /\ Len(plans) <= Len(plans)' /\ Len(plans)' \in Nat
        /\ plans' \in Seq([company : Companies, kinds : SUBSET Kinds,
                           answers : SUBSET Details])
    BY <2>1, <2>2, <2>3, <2>5, <2>6, MadeNow
  <2>8. req' \in [Requests -> Request] /\ Known' /\ Carried'
    BY <2>3, <2>7, OneRequest, ReplyKeepsRequests DEF Reply
  <2>9. TypeOK'
    BY <2>3, <2>5, <2>7, <2>8 DEF IInv, TypeOK
  <2> QED
    BY <2>7, <2>8, <2>9 DEF IInv
<1> QED
  BY <1>3, <1>5, <1>6, <1>7 DEF Planning

\* Tasks go, or change without moving: nothing is made.
LEMMA NothingMade ==
    ASSUME IInv, Keep, Rows' \subseteq Rows, UNCHANGED plans
    PROVE  /\ NoneReturns /\ Made'
           /\ Len(plans) <= Len(plans)' /\ Len(plans)' \in Nat
<1>1. Len(plans) \in Nat
  BY DEF IInv, TypeOK
<1>2. NoneReturns
  BY DEF NoneReturns, Rows
<1>3. Made'
  BY DEF IInv, Made
<1> QED
  BY <1>1, <1>2, <1>3

LEMMA AssigningKeepsIInv ==
    ASSUME IInv, NEW r \in Requests, Assigning(r)
    PROVE  IInv' /\ Keep
<1> USE DEF At
<1>1. /\ answers \in [Companies -> SUBSET Details]
      /\ located \in [Companies -> [Tables -> SUBSET Places]]
      /\ task \in [Ids -> Task \cup {None}]
      /\ req[r] \in Request
  BY DEF IInv, TypeOK
<1>2. Knows(req[r])
  BY DEF IInv, Known
<1>3. CASE FindTasks(r)
  <2> DEFINE found == {i \in req[r].ids \cap Rows : task[i].typeTask = req[r].type}
             q == [req[r] EXCEPT !.at = "user", !.toCheck = {task[i].company : i \in found}]
  <2>1. UNCHANGED <<answers, located, task, history>>
    BY <1>3 DEF FindTasks, rows
  <2>2. CASE Reply(r)
    BY <1>1, <2>1, <2>2, QuietStep, ReplyKeepsRequests DEF Reply
  <2>3. CASE found = req[r].ids /\ req' = [req EXCEPT ![r] = q]
    <3>1. /\ q.at = "user" /\ q.ids = req[r].ids /\ q.type = req[r].type
          /\ q.toCheck = {task[i].company : i \in found}
      BY <1>1 DEF Request
    <3>2. \A i \in found : task[i] \in Task
      BY <1>1 DEF Rows
    <3>3. q \in Request
      <4>1. {task[i].company : i \in found} \in SUBSET Companies
        BY <3>2 DEF Task
      <4> HIDE DEF found
      <4> QED
        BY <1>1, <4>1 DEF Request, Labels
    <3>4. \A i \in found : i \in Rows /\ task[i].typeTask = req[r].type
      OBVIOUS
    <3> HIDE DEF q, found
    <3>5. Knows(q)
      BY <2>3, <3>1, <3>4 DEF Knows, IInv, Made
    <3>6. Carries(q)
      BY <3>1 DEF Carries
    <3> QED
      BY <1>1, <2>1, <2>3, <3>3, <3>5, <3>6, QuietStep
  <2> QED
    BY <1>3, <2>2, <2>3 DEF FindTasks
<1>4. CASE FindUser(r)
  <2>1. UNCHANGED <<answers, located, task, history>> /\ req[r].at = "user"
    BY <1>4 DEF FindUser, rows
  <2>2. CASE Reply(r)
    BY <1>1, <2>1, <2>2, QuietStep, ReplyKeepsRequests DEF Reply
  <2>3. ASSUME NEW label \in {"members", "assign"}, Goto(r, label),
               \/ /\ label = "members" /\ req[r].type = "client_task"
                  /\ req[r].who \in Clients
               \/ /\ label = "assign" /\ req[r].type = "encore_task"
                  /\ req[r].who \in Admins
        PROVE  IInv' /\ Keep
    <3> DEFINE q == [req[r] EXCEPT !.at = label]
    <3>1. req' = [req EXCEPT ![r] = q]
      BY <2>3 DEF Goto
    <3>2. /\ q \in Request /\ q.at = label /\ q.ids = req[r].ids /\ q.type = req[r].type
          /\ q.toCheck = req[r].toCheck /\ q.who = req[r].who
      BY <1>1 DEF Request, Labels
    <3> HIDE DEF q
    <3>3. Knows(q) /\ Carries(q)
      BY <1>2, <2>1, <2>3, <3>2 DEF Knows, Carries
    <3> QED
      BY <1>1, <2>1, <3>1, <3>2, <3>3, QuietStep
  <2>4. \/ Reply(r)
        \/ Goto(r, "members") /\ req[r].type = "client_task" /\ req[r].who \in Clients
        \/ Goto(r, "assign") /\ req[r].type = "encore_task" /\ req[r].who \in Admins
    BY <1>4 DEF FindUser
  <2> QED
    BY <2>2, <2>3, <2>4
<1>5. CASE CheckMember(r)
  <2>1. UNCHANGED <<answers, located, task, history>> /\ req[r].at = "members"
    BY <1>5 DEF CheckMember, rows
  <2>2. CASE Reply(r)
    BY <1>1, <2>1, <2>2, QuietStep, ReplyKeepsRequests DEF Reply
  <2>3. ASSUME NEW c \in req[r].toCheck, c \in MemberOf[req[r].who],
               req' = [req EXCEPT ![r].toCheck = @ \ {c},
                                  ![r].at = IF req[r].toCheck = {c} THEN "assign" ELSE @]
        PROVE  IInv' /\ Keep
    <3> DEFINE q == [req[r] EXCEPT !.toCheck = @ \ {c},
                                   !.at = IF req[r].toCheck = {c} THEN "assign" ELSE @]
    <3>1. req' = [req EXCEPT ![r] = q]
      BY <2>3
    <3>2. /\ q \in Request /\ q.ids = req[r].ids /\ q.type = req[r].type
          /\ q.toCheck = req[r].toCheck \ {c} /\ q.who = req[r].who
          /\ q.at = IF req[r].toCheck = {c} THEN "assign" ELSE "members"
      BY ZenonT(40), <1>1, <2>1 DEF Request, Labels
    <3> HIDE DEF q
    <3>3. Knows(q)
      BY <1>2, <2>1, <2>3, <3>2 DEF Knows
    <3>4. Carries(q)
      BY <3>2 DEF Carries
    <3> QED
      BY <1>1, <2>1, <3>1, <3>2, <3>3, <3>4, QuietStep
  <2> QED
    BY <1>5, <2>2, <2>3 DEF CheckMember
<1>6. CASE AssignTasks(r)
  <2>1. /\ req[r].at = "assign" /\ Reply(r)
        /\ UNCHANGED <<answers, located, plans, overlapped, calls>>
    BY <1>6 DEF AssignTasks, history
  <2>2. \/ req[r].type = "client_task" /\ req[r].who \in Clients
        \/ req[r].type = "encore_task" /\ req[r].who \in Admins
    BY <1>2, <2>1 DEF Knows
  <2>3. \A i \in req[r].ids \cap Rows :
          /\ task[i] \in Task /\ task[i].typeTask = req[r].type
          /\ req[r].type = "client_task" => task[i].company \in MemberOf[req[r].who]
    BY <1>1, <1>2, <2>1 DEF Knows, Rows
  <2>4. /\ \A i \in Ids \ (req[r].ids \cap Rows) : task'[i] = task[i]
        /\ \A i \in Ids \cap req[r].ids \cap Rows :
             task'[i] = IF req[r].type = "client_task"
                    THEN [task[i] EXCEPT !.client = req[r].who, !.admin = None,
                                         !.typeTask = "client_task"]
                    ELSE [task[i] EXCEPT !.admin = req[r].who, !.client = None,
                                         !.typeTask = "encore_task"]
    BY <1>6 DEF AssignTasks
  <2>5. \A i \in Ids \cap req[r].ids \cap Rows :
          /\ task'[i] \in Task
          /\ task'[i].typeTask = task[i].typeTask
          /\ task'[i].company = task[i].company
          /\ task'[i].complete = task[i].complete
          /\ task'[i].client # None => req[r].type = "client_task" /\ task'[i].client = req[r].who
          /\ task'[i].admin # None => req[r].type = "encore_task"
    <3> SUFFICES ASSUME NEW i \in Ids, i \in req[r].ids, i \in Rows
                 PROVE  /\ task'[i] \in Task
                        /\ task'[i].typeTask = task[i].typeTask
                        /\ task'[i].company = task[i].company
                        /\ task'[i].complete = task[i].complete
                        /\ task'[i].client # None =>
                             req[r].type = "client_task" /\ task'[i].client = req[r].who
                        /\ task'[i].admin # None => req[r].type = "encore_task"
      OBVIOUS
    <3>1. task[i] \in Task /\ task[i].typeTask = req[r].type
      BY <2>3
    <3>2. CASE req[r].type = "client_task" /\ req[r].who \in Clients
      <4>1. task'[i] = [task[i] EXCEPT !.client = req[r].who, !.admin = None,
                                       !.typeTask = "client_task"]
        BY <2>4, <3>2
      <4> QED
        BY <3>1, <3>2, <4>1 DEF Task, TaskTypeEnum
    <3>3. CASE req[r].type = "encore_task" /\ req[r].who \in Admins
      <4>1. task'[i] = [task[i] EXCEPT !.admin = req[r].who, !.client = None,
                                       !.typeTask = "encore_task"]
        BY <2>4, <3>3
      <4> QED
        BY <3>1, <3>3, <4>1 DEF Task, TaskTypeEnum
    <3> QED
      BY <2>2, <3>2, <3>3
  <2>6. task' \in [Ids -> Task \cup {None}]
    <3>1. task' = [i \in Ids |-> task'[i]]
      BY <1>6 DEF AssignTasks
    <3>2. \A i \in Ids : task'[i] \in Task \cup {None}
      BY <1>1, <2>4, <2>5
    <3> QED
      BY <3>1, <3>2
  <2>7. Keep
    BY <2>4, <2>5 DEF Keep, Rows
  <2>8. Rows' \subseteq Rows
    BY <2>4 DEF Rows
  <2>9. NoneReturns /\ Made' /\ Len(plans) <= Len(plans)' /\ Len(plans)' \in Nat
    BY <2>1, <2>7, <2>8, NothingMade
  <2>10. req' \in [Requests -> Request] /\ Known' /\ Carried'
    BY <2>1, <2>7, <2>9, OneRequest, ReplyKeepsRequests DEF Reply
  <2>11. AssigneeBelongs'
    <3> SUFFICES ASSUME NEW i \in Rows'
                 PROVE  /\ task'[i].client # None =>
                             task'[i].typeTask = "client_task"
                             /\ task'[i].company \in MemberOf[task'[i].client]
                        /\ task'[i].admin # None => task'[i].typeTask = "encore_task"
      BY DEF AssigneeBelongs
    <3>1. i \in Ids /\ i \in Rows
      BY <2>8 DEF Rows
    <3>2. CASE i \in req[r].ids
      BY <2>3, <2>5, <3>1, <3>2
    <3>3. CASE i \notin req[r].ids
      BY <2>4, <3>1, <3>3 DEF IInv, AssigneeBelongs
    <3> QED
      BY <3>2, <3>3
  <2>12. TypeOK'
    BY <2>1, <2>6, <2>10 DEF IInv, TypeOK
  <2> QED
    BY <2>7, <2>9, <2>10, <2>11, <2>12 DEF IInv
<1> QED
  BY <1>3, <1>4, <1>5, <1>6 DEF Assigning

\* The requests of one call leave those in the slots where they are.
LEMMA OneCallKeeps ==
    ASSUME IInv, OneCall, Keep, NoneReturns, Made', AssigneeBelongs',
           task' \in [Ids -> Task \cup {None}],
           plans' \in Seq([company : Companies, kinds : SUBSET Kinds,
                           answers : SUBSET Details]),
           Len(plans) <= Len(plans)', Len(plans)' \in Nat
    PROVE  IInv'
<1>1. UNCHANGED <<answers, located, req, overlapped>> /\ calls' \in 0 .. MaxCalls
  BY BoundsType DEF OneCall, IInv, TypeOK
<1>2. TypeOK'
  BY <1>1 DEF IInv, TypeOK
<1>3. Carried'
  BY <1>1 DEF IInv, Carried
<1>4. ASSUME NEW s \in Requests PROVE Knows(req[s])'
  <2>1. PICK x \in Request : x = req[s] /\ x = req'[s] /\ Knows(x)
    BY <1>1 DEF IInv, TypeOK, Known
  <2>2. Knows(x)'
    BY <2>1, KnownStays
  <2> QED
    BY <2>1, <2>2 DEF Knows
<1> QED
  BY <1>2, <1>3, <1>4 DEF IInv, Known

LEMMA DeleteTasksKeepsIInv ==
    ASSUME IInv, NEW ids, DeleteTasks(ids)
    PROVE  IInv' /\ Keep
<1>1. /\ OneCall /\ plans' = plans
      /\ task' = [i \in Ids |-> IF i \in ids THEN None ELSE task[i]]
  BY DEF DeleteTasks
<1>2. /\ task \in [Ids -> Task \cup {None}]
      /\ plans \in Seq([company : Companies, kinds : SUBSET Kinds, answers : SUBSET Details])
  BY DEF IInv, TypeOK
<1>3. task' \in [Ids -> Task \cup {None}]
  BY <1>1, <1>2
<1>4. \A i \in Rows' : i \in Rows /\ task'[i] = task[i]
  BY <1>1 DEF Rows
<1>5. Keep
  BY <1>4 DEF Keep, Rows
<1>6. NoneReturns /\ Made' /\ Len(plans) <= Len(plans)' /\ Len(plans)' \in Nat
  BY <1>1, <1>4, <1>5, NothingMade
<1>7. AssigneeBelongs'
  BY <1>4 DEF IInv, AssigneeBelongs
<1> QED
  BY <1>1, <1>2, <1>3, <1>5, <1>6, <1>7, OneCallKeeps

LEMMA CompleteTasksKeepsIInv ==
    ASSUME IInv, NEW ids, CompleteTasks(ids)
    PROVE  IInv' /\ Keep
<1>1. /\ OneCall /\ plans' = plans
      /\ task' = [i \in Ids |-> IF i \in ids \cap Rows
                                  THEN [task[i] EXCEPT !.complete = TRUE] ELSE task[i]]
  BY DEF CompleteTasks
<1>2. /\ task \in [Ids -> Task \cup {None}]
      /\ plans \in Seq([company : Companies, kinds : SUBSET Kinds, answers : SUBSET Details])
  BY DEF IInv, TypeOK
<1>3. \A i \in Rows :
        /\ i \in Ids /\ task[i] \in Task
        /\ task'[i] = task[i] \/ task'[i] = [task[i] EXCEPT !.complete = TRUE]
  BY <1>1, <1>2 DEF Rows
<1>4. \A i \in Rows :
        /\ task'[i] \in Task
        /\ task'[i].typeTask = task[i].typeTask
        /\ task'[i].company = task[i].company
        /\ task'[i].client = task[i].client
        /\ task'[i].admin = task[i].admin
        /\ task[i].complete => task'[i].complete
  BY ZenonT(40), <1>3 DEF Task
<1>5. \A i \in Ids : i \notin Rows => task'[i] = None
  BY <1>1 DEF Rows
<1>6. task' \in [Ids -> Task \cup {None}]
  <2>1. \A i \in Ids : task'[i] \in Task \cup {None}
    BY <1>4, <1>5
  <2>2. task' = [i \in Ids |-> task'[i]]
    BY <1>1
  <2> QED
    BY <2>1, <2>2
<1>7. Keep
  BY <1>4 DEF Keep
<1>8. Rows' \subseteq Rows
  BY <1>5 DEF Rows
<1>9. NoneReturns /\ Made' /\ Len(plans) <= Len(plans)' /\ Len(plans)' \in Nat
  BY <1>1, <1>7, <1>8, NothingMade
<1>10. AssigneeBelongs'
  BY <1>4, <1>8 DEF IInv, AssigneeBelongs
<1> QED
  BY <1>1, <1>2, <1>6, <1>7, <1>9, <1>10, OneCallKeeps

LEMMA ChatTaskKeepsIInv ==
    ASSUME IInv, NEW c \in Companies, NEW lawyer \in Admins, ChatTask(c, lawyer)
    PROVE  IInv' /\ Keep
<1> DEFINE n == Len(plans) + 1
           new == [NewTask(c, "chat") EXCEPT !.admin = lawyer]
<1>1. /\ OneCall /\ task' = [task EXCEPT ![<<n, "chat">>] = new]
      /\ plans' = Append(plans, [company |-> c, kinds |-> {}, answers |-> answers[c]])
  BY DEF ChatTask
<1>2. /\ NewTask(c, "chat") \in Task /\ NewTask(c, "chat").client = None
      /\ NewTask(c, "chat").typeTask = "encore_task"
  BY NewTaskType DEF AllKinds, TypeOf
<1>3. new \in Task /\ new.client = None /\ new.typeTask = "encore_task"
  BY <1>2 DEF Task
<1>4. task \in [Ids -> Task \cup {None}]
  BY DEF IInv, TypeOK
<1> HIDE DEF new
<1>5. task' \in [Ids -> Task \cup {None}]
  BY <1>1, <1>3, <1>4
<1>6. \A i \in Ids : task'[i] # task[i] => i = <<n, "chat">> /\ task'[i] = new
  BY <1>1, <1>4
<1>7. \A i \in Ids : i[1] # Len(plans) + 1 => task'[i] = task[i]
  BY <1>6
<1>8. \A i \in Ids : i[1] = Len(plans) + 1 /\ task'[i] # task[i] =>
        /\ task'[i].client = None
        /\ task'[i].admin # None => task'[i].typeTask = "encore_task"
  BY <1>3, <1>6
<1>9. /\ Keep /\ NoneReturns /\ Made' /\ AssigneeBelongs'
      /\ Len(plans) <= Len(plans)' /\ Len(plans)' \in Nat
      /\ plans' \in Seq([company : Companies, kinds : SUBSET Kinds, answers : SUBSET Details])
  <2>1. PICK kinds \in SUBSET Kinds :
          plans' = Append(plans, [company |-> c, kinds |-> kinds, answers |-> answers[c]])
    BY <1>1
  <2> QED
    BY <1>5, <1>7, <1>8, <2>1, MadeNow
<1> QED
  BY <1>1, <1>5, <1>9, OneCallKeeps

-----------------------------------------------------------------------------
LEMMA InitIInv == Init => IInv
<1> SUFFICES ASSUME Init PROVE IInv
  OBVIOUS
<1>1. \A r \in Requests : req[r] = NoRequest
  BY DEF Init
<1>2. Known /\ Carried
  BY <1>1, ReplyKeepsRequests DEF Known, Carried
<1>3. Rows = {}
  BY DEF Init, Rows
<1>4. TypeOK
  BY ReplyKeepsRequests, BoundsType DEF Init, TypeOK
<1> QED
  BY <1>2, <1>3, <1>4 DEF IInv, Made, AssigneeBelongs

LEMMA NextKeepsIInv == IInv /\ [Next]_vars => IInv' /\ Keep
<1> SUFFICES ASSUME IInv, [Next]_vars PROVE IInv' /\ Keep
  OBVIOUS
<1>1. CASE Arrive
  BY <1>1, ArriveKeepsIInv
<1>2. ASSUME NEW r \in Requests, Intaking(r) \/ Planning(r) \/ Assigning(r) \/ Fail(r)
      PROVE  IInv' /\ Keep
  BY <1>2, IntakingKeepsIInv, PlanningKeepsIInv, AssigningKeepsIInv, FailKeepsIInv
<1>3. ASSUME NEW ids, DeleteTasks(ids) \/ CompleteTasks(ids)
      PROVE  IInv' /\ Keep
  BY <1>3, DeleteTasksKeepsIInv, CompleteTasksKeepsIInv
<1>4. ASSUME NEW c \in Companies, NEW lawyer \in Admins, ChatTask(c, lawyer)
      PROVE  IInv' /\ Keep
  BY <1>4, ChatTaskKeepsIInv
<1>5. CASE UNCHANGED vars
  BY <1>5 DEF vars, rows, IInv, TypeOK, Made, Known, Knows, Carried, AssigneeBelongs,
              Rows, Keep
<1> QED
  BY <1>1, <1>2, <1>3, <1>4, <1>5 DEF Next

LEMMA Inductive == Spec => []IInv
BY InitIInv, NextKeepsIInv, PTL DEF Spec

\* Rows and requests stay well formed (tasks.service.ts and the intake call of
\* companies.service.ts): an admin's column holds an admin, a client's a client.
THEOREM TypeCorrect == Spec => []TypeOK
<1>1. IInv => TypeOK
  BY DEF IInv
<1> QED
  BY <1>1, Inductive, PTL

\* However assignments, deletions and roadmaps interleave, a task is assigned
\* only to a member of its company or, if it is Encore's, to an admin
\* (assignTasks), although the check is some awaits old when it is used.
THEOREM AssignmentsBelong == Spec => []AssigneeBelongs
<1>1. IInv => AssigneeBelongs
  BY DEF IInv
<1> QED
  BY <1>1, Inductive, PTL

\* No step moves a task to the other list or to another company, or undoes its
\* completion (assignTasks, completeTask).
THEOREM TasksAreKept == Spec => TaskKept
<1>1. IInv /\ [Next]_vars =>
        [\A i \in Rows : task'[i] # None =>
           /\ task'[i].typeTask = task[i].typeTask
           /\ task'[i].company = task[i].company
           /\ task[i].complete => task'[i].complete]_vars
  BY NextKeepsIInv DEF Keep
<1> QED
  BY <1>1, Inductive, PTL DEF Spec, TaskKept

-----------------------------------------------------------------------------
(****************************************************************************)
(* Without overlap: createTasks looks for the tasks of a company and reads  *)
(* its answers some awaits before it creates, so a company claims nothing   *)
(* once two requests were in flight for it.  Until then what the one        *)
(* request has read is what is stored.                                      *)
(****************************************************************************)

TableLabels == {"find_place", "add_place", "drop_places"}
PlanLabels == {"existing", "ip", "financial", "create"}

SavedPlace(q, t) ==
    IF q.said.place[t] = None THEN located[q.c][t] = {} ELSE q.said.place[t] \in located[q.c][t]

SavedAnswers(q) ==
    /\ q.said.gives \ q.said.clears \subseteq answers[q.c]
    /\ q.said.clears \cap answers[q.c] = {}

\* What a request has done and read for its company so far.
Progress(q) ==
    /\ q.at = "drop_places" => q.said.place[q.table] = None
    /\ q.at \in {"get", "update", "existing", "ip"} \cup TableLabels => q.read = {}
    /\ q.c \in Companies \ overlapped =>
         /\ q.said # None =>
              /\ q.at \in TableLabels /\ q.table = "countries" => SavedPlace(q, "w2_states")
              /\ q.at \in {"update"} \cup PlanLabels => \A t \in Tables : SavedPlace(q, t)
              /\ q.at \in PlanLabels => SavedAnswers(q)
         /\ q.at \in {"ip", "financial", "create"} => RoadmapOf(q.c) = {}
         /\ q.at = "financial" => q.read = answers[q.c] \cap {"intellectualProperty"}
         /\ q.at = "create" => q.read = answers[q.c]

\* Of a company with no overlap, one request is in flight at most.
Sole ==
    \A c \in Companies \ overlapped : \A r, s \in Requests :
        req[r].c = c /\ req[s].c = c => r = s

JInv ==
    /\ \A r \in Requests : Progress(req[r])
    /\ Sole
    /\ OneRoadmap
    /\ RoadmapAsAnswered

LEMMA Requested ==
    ASSUME IInv, JInv, NEW r \in Requests
    PROVE  /\ req \in [Requests -> Request] /\ req[r] \in Request
           /\ Progress(req[r]) /\ Carries(req[r])
           /\ req[r].c \in Companies \cup {None} /\ None \notin Companies \cup Intakes
           /\ answers \in [Companies -> SUBSET Details]
           /\ located \in [Companies -> [Tables -> SUBSET Places]]
           /\ overlapped \subseteq Companies
BY NoneIsNobody DEF IInv, TypeOK, JInv, Carried, Request

\* No roadmap gets a task.
Shrinking == \A c \in Companies : RoadmapOf(c)' \subseteq RoadmapOf(c)

LEMMA SameTasks ==
    ASSUME UNCHANGED task
    PROVE  Shrinking
BY DEF Shrinking, RoadmapOf, Rows

LEMMA FewerTasks ==
    ASSUME Keep, Rows' \subseteq Rows
    PROVE  Shrinking
BY DEF Shrinking, RoadmapOf, Rows, Keep

LEMMA StaysOneRoadmap ==
    ASSUME OneRoadmap, Shrinking, overlapped \subseteq overlapped'
    PROVE  OneRoadmap'
<1> SUFFICES ASSUME NEW c \in Companies \ overlapped',
                    NEW i \in RoadmapOf(c)', NEW j \in RoadmapOf(c)'
             PROVE  i[1] = j[1]
  BY DEF OneRoadmap
<1>1. i \in RoadmapOf(c) /\ j \in RoadmapOf(c) /\ c \notin overlapped
  BY DEF Shrinking
<1> QED
  BY <1>1 DEF OneRoadmap

LEMMA StaysAsAnswered ==
    ASSUME RoadmapAsAnswered, plans' = plans, overlapped \subseteq overlapped'
    PROVE  RoadmapAsAnswered'
BY DEF RoadmapAsAnswered

LEMMA StaysProgress ==
    ASSUME NEW q, Progress(q), overlapped \subseteq overlapped',
           q.c \in Companies \ overlapped =>
             /\ answers'[q.c] = answers[q.c] /\ located'[q.c] = located[q.c]
             /\ RoadmapOf(q.c)' \subseteq RoadmapOf(q.c)
    PROVE  Progress(q)'
<1>1. ASSUME q.c \in Companies \ overlapped'
      PROVE  /\ q.c \in Companies \ overlapped
             /\ answers'[q.c] = answers[q.c] /\ located'[q.c] = located[q.c]
             /\ RoadmapOf(q.c) = {} => RoadmapOf(q.c)' = {}
  BY <1>1
<1> QED
  BY <1>1 DEF Progress, SavedPlace, SavedAnswers

\* Request r moves on, for its company only.
LEMMA Moves ==
    ASSUME IInv, JInv, NEW r \in Requests, NEW q \in Request, req' = [req EXCEPT ![r] = q],
           q.c # None => q.c = req[r].c, overlapped' = overlapped,
           \A c \in Companies \ {req[r].c} :
             answers'[c] = answers[c] /\ located'[c] = located[c],
           \A c \in Companies \ {req[r].c} : RoadmapOf(c)' \subseteq RoadmapOf(c),
           Progress(q)', OneRoadmap', RoadmapAsAnswered'
    PROVE  JInv'
<1>1. req'[r] = q /\ \A s \in Requests \ {r} : req'[s] = req[s]
  BY Requested
<1>2. ASSUME NEW s \in Requests PROVE Progress(req[s])'
  <2>1. CASE s = r
    <3>1. PICK x : x = req'[s] /\ x = q
      BY <1>1, <2>1
    <3> QED
      BY <3>1 DEF Progress, SavedPlace, SavedAnswers
  <2>2. CASE s # r
    <3>1. PICK x \in Request : x = req[s] /\ Progress(x)
      BY Requested
    <3>2. x.c \in Companies \ overlapped => x.c # req[r].c
      BY <2>2, <3>1 DEF JInv, Sole
    <3>3. x.c \in Companies \ overlapped =>
             /\ answers'[x.c] = answers[x.c] /\ located'[x.c] = located[x.c]
             /\ RoadmapOf(x.c)' \subseteq RoadmapOf(x.c)
      BY <3>2
    <3>4. Progress(x)'
      BY <3>1, <3>3, StaysProgress
    <3>5. x = req'[s]
      BY <1>1, <2>2, <3>1
    <3> QED
      BY <3>4, <3>5 DEF Progress, SavedPlace, SavedAnswers
  <2> QED
    BY <2>1, <2>2
<1>3. Sole'
  BY <1>1, Requested DEF JInv, Sole
<1> QED
  BY <1>2, <1>3 DEF JInv

LEMMA PlannerStep ==
    ASSUME IInv, JInv, NEW r \in Requests, NEW q \in Request, req' = [req EXCEPT ![r] = q],
           q.c # None => q.c = req[r].c, UNCHANGED <<task, plans, overlapped>>,
           \A c \in Companies \ {req[r].c} :
             answers'[c] = answers[c] /\ located'[c] = located[c],
           Progress(q)'
    PROVE  JInv'
<1>1. Shrinking
  BY SameTasks
<1>2. OneRoadmap' /\ RoadmapAsAnswered'
  BY <1>1, StaysOneRoadmap, StaysAsAnswered DEF JInv
<1> QED
  BY <1>1, <1>2, Moves DEF Shrinking

LEMMA QuietPlanner ==
    ASSUME IInv, JInv, NEW r \in Requests, NEW q \in Request, req' = [req EXCEPT ![r] = q],
           q.c # None => q.c = req[r].c, UNCHANGED <<rows, history>>, Progress(q)
    PROVE  JInv'
<1>1. UNCHANGED <<answers, located, task, plans, overlapped>>
  BY DEF rows, history
<1>2. Progress(q)'
  BY <1>1, SameTasks, StaysProgress DEF Shrinking
<1> QED
  BY <1>1, <1>2, PlannerStep

LEMMA NoProgress ==
    NoRequest \in Request /\ NoRequest.c = None /\ Progress(NoRequest) /\ Progress(NoRequest)'
BY ReplyKeepsRequests, NoneIsNobody DEF NoRequest, Progress, TableLabels

LEMMA ReplyStep ==
    ASSUME IInv, JInv, NEW r \in Requests, Reply(r), UNCHANGED <<rows, history>>
    PROVE  JInv'
BY NoProgress, QuietPlanner DEF Reply

\* On to the location table t.
LEMMA ToTableProgress ==
    ASSUME IInv, JInv, NEW r \in Requests, NEW t \in Tables, NEW x \in Request, x = req[r],
           x.at \in {"get"} \cup TableLabels,
           UNCHANGED <<task, plans, overlapped, answers>>,
           \A c \in Companies \ {x.c} : located'[c] = located[c],
           t = "countries" /\ x.said # None /\ x.c \in Companies \ overlapped =>
             SavedPlace(x, "w2_states")',
           ToTable(r, t)
    PROVE  JInv'
<1> DEFINE label == IF x.said.place[t] # None THEN "find_place" ELSE "drop_places"
<1>1. label \in Labels
  BY DEF Labels
<1>2. PICK q \in Request : q = [x EXCEPT !.table = t, !.at = label]
  BY <1>1 DEF Request
<1>3. q.at = label /\ q.table = t /\ q.c = x.c /\ q.said = x.said /\ q.read = x.read
  BY <1>2 DEF Request
<1>4. req' = [req EXCEPT ![r] = q]
  BY <1>2, Requested DEF ToTable
<1>5. x.read = {}
  BY Requested DEF Progress
<1>6. Progress(q)'
  <2>1. q.at \in TableLabels /\ (q.at = "drop_places" => q.said.place[q.table] = None)
    BY <1>3 DEF TableLabels
  <2>2. ASSUME q.said # None, q.c \in Companies \ overlapped, q.table = "countries"
        PROVE  SavedPlace(q, "w2_states")'
    BY <1>3, <2>2 DEF SavedPlace
  <2>3. q.at \notin {"update", "ip", "financial", "create"} \cup PlanLabels
    BY <2>1 DEF TableLabels, PlanLabels
  <2> QED
    BY <1>3, <1>5, <2>1, <2>2, <2>3 DEF Progress
<1> QED
  BY <1>3, <1>4, <1>6, PlannerStep

\* The table of x is as its payload asks; on to the next one, or to the update.
LEMMA AfterTableProgress ==
    ASSUME IInv, JInv, NEW r \in Requests, NEW x \in Request, x = req[r], x.at \in TableLabels,
           UNCHANGED <<task, plans, overlapped, answers>>,
           \A c \in Companies \ {x.c} : located'[c] = located[c],
           \A t \in Tables \ {x.table} : located'[x.c][t] = located[x.c][t],
           SavedPlace(x, x.table)',
           AfterTable(r)
    PROVE  JInv'
<1>1. x.table \in Tables /\ Progress(x)
  BY Requested DEF Carries, TableLabels
<1>2. CASE x.table = "w2_states"
  BY <1>2, ToTableProgress DEF AfterTable, Tables
<1>3. CASE x.table = "countries"
  <2>1. PICK q \in Request : q = [x EXCEPT !.at = "update"]
    BY DEF Request, Labels
  <2>2. q.at = "update" /\ q.c = x.c /\ q.said = x.said /\ q.read = x.read
    BY <2>1 DEF Request
  <2>3. req' = [req EXCEPT ![r] = q]
    BY <1>3, <2>1 DEF AfterTable, Goto
  <2>4. x.read = {}
    BY <1>1 DEF Progress
  <2>5. ASSUME q.said # None, q.c \in Companies \ overlapped, NEW t \in Tables
        PROVE  SavedPlace(q, t)'
    <3>1. CASE t = "countries"
      BY <1>3, <2>2, <3>1 DEF SavedPlace
    <3>2. CASE t = "w2_states"
      <4>1. SavedPlace(x, "w2_states")
        BY <1>1, <1>3, <2>2, <2>5 DEF Progress
      <4>2. located'[x.c][t] = located[x.c][t]
        BY <1>3, <3>2
      <4> QED
        BY <2>2, <3>2, <4>1, <4>2 DEF SavedPlace
    <3> QED
      BY <3>1, <3>2 DEF Tables
  <2>6. Progress(q)'
    BY <2>2, <2>4, <2>5 DEF Progress, TableLabels, PlanLabels
  <2> QED
    BY <2>2, <2>3, <2>6, PlannerStep
<1> QED
  BY <1>1, <1>2, <1>3 DEF Tables

LEMMA IntakingKeepsJInv ==
    ASSUME IInv, JInv, NEW r \in Requests, Intaking(r)
    PROVE  JInv'
<1>1. PICK x \in Request : x = req[r] /\ Progress(x) /\ Carries(x)
  BY Requested
<1>2. CASE GetCompany(r)
  BY <1>1, <1>2, ToTableProgress DEF GetCompany, At, rows, history, Tables
<1>3. CASE FindPlace(r)
  <2>1. /\ x.at = "find_place" /\ UNCHANGED <<rows, history>>
        /\ UNCHANGED <<task, plans, overlapped, answers, located>>
    BY <1>1, <1>3 DEF FindPlace, At, rows, history
  <2>2. CASE Place(r) \in located[x.c][x.table] /\ AfterTable(r)
    <3>1. x.said.place[x.table] # None
      BY <1>1, <2>1, NoneIsNobody DEF Carries
    <3>2. SavedPlace(x, x.table)'
      BY <1>1, <2>1, <2>2, <3>1 DEF SavedPlace, Place
    <3> QED
      BY <1>1, <2>1, <2>2, <3>2, AfterTableProgress DEF TableLabels
  <2>3. CASE Goto(r, "add_place")
    <3>1. PICK q \in Request : q = [x EXCEPT !.at = "add_place"]
      BY DEF Request, Labels
    <3>2. /\ q.at = "add_place" /\ q.c = x.c /\ q.said = x.said /\ q.read = x.read
          /\ q.table = x.table
      BY <3>1 DEF Request
    <3>3. Progress(q)
      BY <1>1, <2>1, <3>2 DEF Progress, SavedPlace, TableLabels, PlanLabels
    <3>4. req' = [req EXCEPT ![r] = q]
      BY <1>1, <2>3, <3>1 DEF Goto
    <3> QED
      BY <1>1, <2>1, <3>2, <3>3, <3>4, QuietPlanner
  <2> QED
    BY <1>1, <1>3, <2>2, <2>3 DEF FindPlace
<1>4. CASE AddPlace(r)
  <2>1. /\ x.at = "add_place" /\ AfterTable(r)
        /\ UNCHANGED <<task, plans, overlapped, answers>>
        /\ located' = [located EXCEPT ![x.c][x.table] = @ \cup {x.said.place[x.table]}]
    BY <1>1, <1>4 DEF AddPlace, At, Place, history
  <2>2. x.c \in Companies /\ x.table \in Tables /\ located \in [Companies -> [Tables -> SUBSET Places]]
    BY <1>1, <2>1, Requested DEF Carries
  <2>3. /\ \A c \in Companies \ {x.c} : located'[c] = located[c]
        /\ \A t \in Tables \ {x.table} : located'[x.c][t] = located[x.c][t]
        /\ x.said.place[x.table] \in located'[x.c][x.table]
    BY <2>1, <2>2
  <2>4. x.said.place[x.table] # None
    BY <1>1, <2>1, NoneIsNobody DEF Carries
  <2>5. SavedPlace(x, x.table)'
    BY <2>3, <2>4 DEF SavedPlace
  <2> QED
    BY <1>1, <2>1, <2>3, <2>5, AfterTableProgress DEF TableLabels
<1>5. CASE DropPlaces(r)
  <2>1. /\ x.at = "drop_places" /\ AfterTable(r)
        /\ UNCHANGED <<task, plans, overlapped, answers>>
        /\ located' = [located EXCEPT ![x.c][x.table] = {}]
    BY <1>1, <1>5 DEF DropPlaces, At, history
  <2>2. x.c \in Companies /\ x.table \in Tables /\ located \in [Companies -> [Tables -> SUBSET Places]]
    BY <1>1, <2>1, Requested DEF Carries
  <2>3. /\ \A c \in Companies \ {x.c} : located'[c] = located[c]
        /\ \A t \in Tables \ {x.table} : located'[x.c][t] = located[x.c][t]
        /\ located'[x.c][x.table] = {}
    BY <2>1, <2>2
  <2>4. x.said.place[x.table] = None
    BY <1>1, <2>1 DEF Progress
  <2>5. SavedPlace(x, x.table)'
    BY <2>3, <2>4 DEF SavedPlace
  <2> QED
    BY <1>1, <2>1, <2>3, <2>5, AfterTableProgress DEF TableLabels
<1>6. CASE UpdateCompany(r)
  <2>1. /\ x.at = "update" /\ UNCHANGED <<located, task, plans, overlapped>>
        /\ answers' = [answers EXCEPT ![x.c] = (@ \cup x.said.gives) \ x.said.clears]
    BY <1>1, <1>6 DEF UpdateCompany, At, history
  <2>2. x.c \in Companies /\ answers \in [Companies -> SUBSET Details]
    BY <1>1, <2>1, Requested DEF Carries
  <2>3. PICK q \in Request : q = [x EXCEPT !.at = "existing"]
    BY DEF Request, Labels
  <2>4. q.at = "existing" /\ q.c = x.c /\ q.said = x.said /\ q.read = x.read
    BY <2>3 DEF Request
  <2>5. answers'[x.c] = (answers[x.c] \cup x.said.gives) \ x.said.clears
    BY <2>1, <2>2
  <2>6. SavedAnswers(q)'
    BY <2>4, <2>5 DEF SavedAnswers
  <2>7. Progress(q)'
    BY <1>1, <2>1, <2>4, <2>6 DEF Progress, SavedPlace, TableLabels
  <2>8. req' = [req EXCEPT ![r] = q]
    BY <1>1, <1>6, <2>3 DEF UpdateCompany, Goto
  <2>9. \A c \in Companies \ {x.c} : answers'[c] = answers[c] /\ located'[c] = located[c]
    BY <2>1, <2>2
  <2> QED
    BY <1>1, <2>1, <2>4, <2>7, <2>8, <2>9, PlannerStep
<1> QED
  BY <1>2, <1>3, <1>4, <1>5, <1>6 DEF Intaking

\* createTasks makes the tasks of a company that has none.
LEMMA CreateTasksKeepsJInv ==
    ASSUME IInv, JInv, NEW r \in Requests, CreateTasks(r)
    PROVE  JInv'
<1>1. PICK x \in Request : x = req[r] /\ Progress(x) /\ Carries(x)
  BY Requested
<1>2. x.at = "create" /\ x.c \in Companies
  BY <1>1 DEF CreateTasks, At, Carries
<1>3. PICK c \in Companies : c = x.c
  BY <1>2
<1> DEFINE n == Len(plans) + 1
<1>4. PICK kinds \in SUBSET Kinds : kinds = {k \in Kinds : NeedsOf(k) \subseteq x.read}
  OBVIOUS
<1>5. /\ task' = [i \in Ids |-> IF i[1] = n /\ i[2] \in kinds THEN NewTask(c, i[2]) ELSE task[i]]
      /\ plans' = Append(plans, [company |-> c, kinds |-> kinds, answers |-> answers[c]])
      /\ req' = [req EXCEPT ![r] = NoRequest]
      /\ UNCHANGED <<answers, located, overlapped, calls>>
  BY <1>1, <1>3, <1>4 DEF CreateTasks, Reply
<1>6. \A i \in Ids : i[1] = n /\ i[2] \in kinds => task'[i].company = c
  BY <1>5 DEF NewTask
<1>7. \A d \in Companies \ {c} : RoadmapOf(d)' \subseteq RoadmapOf(d)
  BY <1>5, <1>6 DEF RoadmapOf, Rows
<1>8. \A i \in RoadmapOf(c)' : i[1] = n \/ i \in RoadmapOf(c)
  BY <1>5 DEF RoadmapOf, Rows
<1>9. c \notin overlapped => RoadmapOf(c) = {} /\ x.read = answers[c]
  BY <1>1, <1>2, <1>3 DEF Progress
<1>10. OneRoadmap'
  <2> SUFFICES ASSUME NEW d \in Companies \ overlapped', NEW i \in RoadmapOf(d)',
                      NEW j \in RoadmapOf(d)'
               PROVE  i[1] = j[1]
    BY DEF OneRoadmap
  <2>1. CASE d = c
    BY <1>5, <1>8, <1>9, <2>1
  <2>2. CASE d # c
    BY <1>5, <1>7, <2>2 DEF JInv, OneRoadmap
  <2> QED
    BY <2>1, <2>2
<1>11. RoadmapAsAnswered'
  <2> SUFFICES ASSUME NEW m \in DOMAIN plans', plans'[m].company \notin overlapped,
                      plans'[m].kinds # {}
               PROVE  plans'[m].kinds = {k \in Kinds : NeedsOf(k) \subseteq plans'[m].answers}
    BY <1>5 DEF RoadmapAsAnswered
  <2>1. plans \in Seq([company : Companies, kinds : SUBSET Kinds, answers : SUBSET Details])
    BY DEF IInv, TypeOK
  <2>2. PICK new : new = [company |-> c, kinds |-> kinds, answers |-> answers[c]]
    OBVIOUS
  <2>3. \/ m \in DOMAIN plans /\ plans'[m] = plans[m]
        \/ plans'[m] = new
    BY <1>5, <2>1, <2>2
  <2>4. CASE m \in DOMAIN plans /\ plans'[m] = plans[m]
    BY <2>4 DEF JInv, RoadmapAsAnswered
  <2>5. CASE plans'[m] = new
    BY <1>4, <1>9, <2>2, <2>5
  <2> QED
    BY <2>3, <2>4, <2>5
<1> QED
  BY <1>1, <1>3, <1>5, <1>7, <1>10, <1>11, NoProgress, Moves

LEMMA PlanningKeepsJInv ==
    ASSUME IInv, JInv, NEW r \in Requests, Planning(r)
    PROVE  JInv'
<1>1. PICK x \in Request : x = req[r] /\ Progress(x) /\ Carries(x)
  BY Requested
<1>2. CASE FindExisting(r) /\ Reply(r)
  BY <1>2, ReplyStep DEF FindExisting
<1>3. CASE FindExisting(r) /\ Goto(r, "ip") /\ RoadmapOf(x.c) = {}
  <2>1. x.at = "existing" /\ UNCHANGED <<rows, history>>
    BY <1>1, <1>3 DEF FindExisting, At
  <2>2. PICK q \in Request : q = [x EXCEPT !.at = "ip"]
    BY DEF Request, Labels
  <2>3. q.at = "ip" /\ q.c = x.c /\ q.said = x.said /\ q.read = x.read
    BY <2>2 DEF Request
  <2>4. Progress(q)
    BY <1>1, <1>3, <2>1, <2>3 DEF Progress, SavedPlace, SavedAnswers, TableLabels, PlanLabels
  <2>5. req' = [req EXCEPT ![r] = q]
    BY <1>1, <1>3, <2>2 DEF Goto
  <2> QED
    BY <1>1, <2>1, <2>3, <2>4, <2>5, QuietPlanner
<1>4. CASE ReadIntellectualProperty(r)
  <2>1. x.at = "ip" /\ UNCHANGED <<rows, history>>
    BY <1>1, <1>4 DEF ReadIntellectualProperty, At, Read
  <2> DEFINE seen == x.read \cup (answers[x.c] \cap {"intellectualProperty"})
  <2>2. seen \in SUBSET Details
    BY DEF Details, Request
  <2>3. PICK q \in Request : q = [x EXCEPT !.read = seen, !.at = "financial"]
    BY <2>2 DEF Request, Labels
  <2>4. q.at = "financial" /\ q.c = x.c /\ q.said = x.said /\ q.read = seen
    BY <2>3 DEF Request
  <2>5. x.read = {}
    BY <1>1, <2>1 DEF Progress
  <2>6. Progress(q)
    BY <1>1, <2>1, <2>4, <2>5 DEF Progress, SavedPlace, SavedAnswers, TableLabels, PlanLabels
  <2>7. req' = [req EXCEPT ![r] = q]
    BY <1>1, <1>4, <2>3 DEF ReadIntellectualProperty, Read
  <2> QED
    BY <1>1, <2>1, <2>4, <2>6, <2>7, QuietPlanner
<1>5. CASE ReadFinancialDetails(r)
  <2>1. x.at = "financial" /\ UNCHANGED <<rows, history>>
    BY <1>1, <1>5 DEF ReadFinancialDetails, At, Read
  <2> DEFINE seen == x.read \cup (answers[x.c] \cap {"intendToHaveAsset"})
  <2>2. seen \in SUBSET Details
    BY DEF Details, Request
  <2>3. PICK q \in Request : q = [x EXCEPT !.read = seen, !.at = "create"]
    BY <2>2 DEF Request, Labels
  <2>4. q.at = "create" /\ q.c = x.c /\ q.said = x.said /\ q.read = seen
    BY <2>3 DEF Request
  <2>5. x.c \in Companies \ overlapped => seen = answers[x.c]
    <3>1. x.c \in Companies => answers[x.c] \subseteq Details
      BY Requested
    <3> QED
      BY <3>1, <1>1, <2>1 DEF Progress, Details
  <2> HIDE DEF seen
  <2>6. Progress(q)
    BY <1>1, <2>1, <2>4, <2>5 DEF Progress, SavedPlace, SavedAnswers, TableLabels, PlanLabels
  <2>7. req' = [req EXCEPT ![r] = q]
    BY <1>1, <1>5, <2>3 DEF ReadFinancialDetails, Read, seen
  <2> QED
    BY <1>1, <2>1, <2>4, <2>6, <2>7, QuietPlanner
<1> QED
  BY <1>1, <1>2, <1>3, <1>4, <1>5, CreateTasksKeepsJInv DEF Planning, FindExisting

\* An assignment is of no company: it makes no progress to speak of.
LEMMA AssigningKeepsJInv ==
    ASSUME IInv, JInv, NEW r \in Requests, Assigning(r)
    PROVE  JInv'
<1>1. req[r] \in Request /\ req \in [Requests -> Request]
  BY Requested
<1>2. ASSUME NEW q \in Request, req' = [req EXCEPT ![r] = q], q.c = req[r].c,
             q.at \in {"user", "members", "assign"}, UNCHANGED <<rows, history>>
      PROVE  JInv'
  <2>1. Progress(q)
    BY <1>2 DEF Progress, TableLabels, PlanLabels
  <2> QED
    BY <1>2, <2>1, QuietPlanner
<1>3. ASSUME NEW label \in {"members", "assign"}, Goto(r, label), UNCHANGED <<rows, history>>
      PROVE  JInv'
  <2>1. PICK q \in Request : q = [req[r] EXCEPT !.at = label]
    BY <1>1 DEF Request, Labels
  <2>2. q.at = label /\ q.c = req[r].c
    BY <1>1, <2>1 DEF Request
  <2> QED
    BY <1>1, <1>2, <1>3, <2>1, <2>2 DEF Goto
<1>4. CASE FindTasks(r)
  <2>1. CASE Reply(r)
    BY <1>4, <2>1, ReplyStep DEF FindTasks
  <2>2. CASE ~ Reply(r)
    <3> DEFINE found == {i \in req[r].ids \cap Rows : task[i].typeTask = req[r].type}
               owners == {task[i].company : i \in found}
    <3>1. owners \in SUBSET Companies
      BY DEF IInv, TypeOK, Task, Rows
    <3> HIDE DEF owners
    <3>2. PICK q \in Request : q = [req[r] EXCEPT !.at = "user", !.toCheck = owners]
      BY <1>1, <3>1 DEF Request, Labels
    <3>3. q.at = "user" /\ q.c = req[r].c
      BY <1>1, <3>2 DEF Request
    <3>4. req' = [req EXCEPT ![r] = q] /\ UNCHANGED <<rows, history>>
      BY <1>1, <1>4, <2>2, <3>2 DEF FindTasks, owners
    <3> QED
      BY <1>2, <3>3, <3>4
  <2> QED
    BY <2>1, <2>2
<1>5. CASE FindUser(r)
  <2>1. UNCHANGED <<rows, history>> /\ (Goto(r, "members") \/ Goto(r, "assign") \/ Reply(r))
    BY <1>5 DEF FindUser
  <2> QED
    BY <1>3, <2>1, ReplyStep
<1>6. CASE CheckMember(r)
  <2>1. PICK c \in req[r].toCheck :
          IF c \in MemberOf[req[r].who]
            THEN req' = [req EXCEPT ![r].toCheck = @ \ {c},
                                    ![r].at = IF req[r].toCheck = {c} THEN "assign" ELSE @]
            ELSE Reply(r)
    BY <1>6 DEF CheckMember
  <2>2. req[r].at = "members" /\ UNCHANGED <<rows, history>>
    BY <1>6 DEF CheckMember, At
  <2>3. CASE Reply(r)
    BY <2>2, <2>3, ReplyStep
  <2>4. CASE ~ Reply(r)
    <3> DEFINE label == IF req[r].toCheck = {c} THEN "assign" ELSE "members"
    <3>1. label \in Labels /\ label \in {"members", "assign"}
      BY DEF Labels
    <3>2. req[r].toCheck \ {c} \in SUBSET Companies
      BY <1>1 DEF Request
    <3> HIDE DEF label
    <3>3. PICK q \in Request : q = [req[r] EXCEPT !.toCheck = @ \ {c}, !.at = label]
      BY <1>1, <3>1, <3>2 DEF Request
    <3>4. q.at = label /\ q.c = req[r].c
      BY <1>1, <3>3 DEF Request
    <3>5. req' = [req EXCEPT ![r] = q]
      BY <1>1, <2>1, <2>2, <2>4, <3>3 DEF label
    <3> QED
      BY <1>2, <2>2, <3>1, <3>4, <3>5
  <2> QED
    BY <2>3, <2>4
<1>7. CASE AssignTasks(r)
  <2>1. Rows' \subseteq Rows
    BY <1>7 DEF AssignTasks, Rows
  <2>2. Keep
    BY <1>7, AssigningKeepsIInv DEF Assigning
  <2>3. Shrinking
    BY <2>1, <2>2, FewerTasks
  <2>4. UNCHANGED <<answers, located, plans, overlapped>> /\ Reply(r)
    BY <1>7 DEF AssignTasks, history
  <2>5. OneRoadmap' /\ RoadmapAsAnswered'
    BY <2>3, <2>4, StaysOneRoadmap, StaysAsAnswered DEF JInv
  <2> QED
    BY <2>3, <2>4, <2>5, NoProgress, Moves DEF Reply, Shrinking
<1> QED
  BY <1>4, <1>5, <1>6, <1>7 DEF Assigning

\* A request arrives: for a company that another is in flight for, it overlaps.
LEMMA AcceptKeepsJInv ==
    ASSUME IInv, JInv, NEW r \in Requests, NEW q, req' = [req EXCEPT ![r] = q],
           q.at \in {"get", "existing", "tasks"}, q.read = {},
           q.at = "existing" => q.said = None,
           UNCHANGED <<rows, plans>>, overlapped \subseteq overlapped',
           \A s \in Requests : q.c # None /\ req[s].c = q.c => q.c \in overlapped'
    PROVE  JInv'
<1>1. req'[r] = q /\ \A s \in Requests \ {r} : req'[s] = req[s]
  BY Requested
<1>2. UNCHANGED <<answers, located, task>>
  BY DEF rows
<1>3. Shrinking
  BY <1>2, SameTasks
<1>4. Progress(q)'
  BY DEF Progress, TableLabels, PlanLabels
<1>5. ASSUME NEW s \in Requests PROVE Progress(req[s])'
  <2>1. CASE s = r
    <3>1. PICK x : x = req'[s] /\ x = q
      BY <1>1, <2>1
    <3> QED
      BY <3>1, <1>4 DEF Progress, SavedPlace, SavedAnswers
  <2>2. CASE s # r
    <3>1. PICK x \in Request : x = req[s] /\ Progress(x)
      BY Requested
    <3>2. Progress(x)'
      BY <1>2, <1>3, <3>1, StaysProgress DEF Shrinking
    <3>3. x = req'[s]
      BY <1>1, <2>2, <3>1
    <3> QED
      BY <3>2, <3>3 DEF Progress, SavedPlace, SavedAnswers
  <2> QED
    BY <2>1, <2>2
<1>6. Sole'
  <2> SUFFICES ASSUME NEW c \in Companies \ overlapped', NEW s \in Requests \ {r}, q.c = c
               PROVE  req[s].c # c
    BY <1>1 DEF JInv, Sole
  <2> QED
    BY NoneIsNobody
<1>7. OneRoadmap' /\ RoadmapAsAnswered'
  BY <1>3, StaysOneRoadmap, StaysAsAnswered DEF JInv
<1> QED
  BY <1>5, <1>6, <1>7 DEF JInv

LEMMA ArriveKeepsJInv ==
    ASSUME IInv, JInv, Arrive
    PROVE  JInv'
<1>1. ASSUME NEW r \in Requests, NEW q, AcceptPlanner(r, q), q.at \in {"get", "existing"},
             q.read = {}, q.at = "existing" => q.said = None
      PROVE  JInv'
  <2>1. req' = [req EXCEPT ![r] = q] /\ UNCHANGED <<rows, plans>>
    BY <1>1 DEF AcceptPlanner, Accept
  <2>2. overlapped' = overlapped \cup {c \in {q.c} : \E x \in Planners : req[x].c = c}
    BY <1>1 DEF AcceptPlanner
  <2>3. \A s \in Requests : q.c # None /\ req[s].c = q.c => q.c \in overlapped'
    BY <2>2 DEF Planners
  <2> QED
    BY <1>1, <2>1, <2>2, <2>3, AcceptKeepsJInv
<1>2. ASSUME NEW r \in Requests, NEW c \in Companies, ArrivePlan(r, c)
      PROVE  JInv'
  <2>1. PICK q : q = [NoRequest EXCEPT !.at = "existing", !.c = c]
    OBVIOUS
  <2>2. q.at = "existing" /\ q.read = {} /\ q.said = None
    BY <2>1 DEF NoRequest
  <2> QED
    BY <1>1, <1>2, <2>1, <2>2 DEF ArrivePlan
<1>3. ASSUME NEW r \in Requests, NEW c \in Companies, NEW payload \in Intakes,
             ArriveIntake(r, c, payload)
      PROVE  JInv'
  <2>1. PICK q : q = [NoRequest EXCEPT !.at = "get", !.c = c, !.said = payload]
    OBVIOUS
  <2>2. q.at = "get" /\ q.read = {}
    BY <2>1 DEF NoRequest
  <2> QED
    BY <1>1, <1>3, <2>1, <2>2 DEF ArriveIntake
<1>4. ASSUME NEW r \in Requests, NEW ids, NEW type, NEW who, ArriveAssign(r, ids, type, who)
      PROVE  JInv'
  <2>1. PICK q : q = [NoRequest EXCEPT !.at = "tasks", !.ids = ids, !.type = type, !.who = who]
    OBVIOUS
  <2>2. q.at = "tasks" /\ q.read = {} /\ q.c = None
    BY <2>1 DEF NoRequest
  <2>3. req' = [req EXCEPT ![r] = q] /\ UNCHANGED <<rows, plans, overlapped>>
    BY <1>4, <2>1 DEF ArriveAssign, Accept
  <2> QED
    BY <2>2, <2>3, AcceptKeepsJInv
<1> QED
  BY <1>2, <1>3, <1>4 DEF Arrive

\* A request of one call: no roadmap grows.
LEMMA OneCallKeepsJInv ==
    ASSUME IInv, JInv, OneCall, Shrinking, RoadmapAsAnswered'
    PROVE  JInv'
<1>1. UNCHANGED <<answers, located, req, overlapped>>
  BY DEF OneCall
<1>2. ASSUME NEW s \in Requests PROVE Progress(req[s])'
  <2>1. PICK x \in Request : x = req[s] /\ Progress(x)
    BY Requested
  <2>2. Progress(x)'
    BY <1>1, <2>1, StaysProgress DEF Shrinking
  <2> QED
    BY <1>1, <2>1, <2>2 DEF Progress, SavedPlace, SavedAnswers
<1>3. Sole'
  BY <1>1 DEF JInv, Sole
<1>4. OneRoadmap'
  BY <1>1, StaysOneRoadmap DEF JInv
<1> QED
  BY <1>2, <1>3, <1>4 DEF JInv

LEMMA DeleteOrCompleteKeepsJInv ==
    ASSUME IInv, JInv, NEW ids, DeleteTasks(ids) \/ CompleteTasks(ids)
    PROVE  JInv'
<1>1. OneCall /\ UNCHANGED plans
  BY DEF DeleteTasks, CompleteTasks
<1>2. Rows' \subseteq Rows
  BY DEF DeleteTasks, CompleteTasks, Rows
<1>3. Keep
  BY DeleteTasksKeepsIInv, CompleteTasksKeepsIInv
<1>4. RoadmapAsAnswered'
  BY <1>1, StaysAsAnswered DEF JInv, OneCall
<1> QED
  BY <1>1, <1>2, <1>3, <1>4, FewerTasks, OneCallKeepsJInv

\* The lawyer's task is of no roadmap.
LEMMA ChatTaskKeepsJInv ==
    ASSUME IInv, JInv, NEW c \in Companies, NEW lawyer \in Admins, ChatTask(c, lawyer)
    PROVE  JInv'
<1>1. /\ OneCall /\ \A i \in Ids : i[2] # "chat" => task'[i] = task[i]
      /\ plans' = Append(plans, [company |-> c, kinds |-> {}, answers |-> answers[c]])
  BY DEF ChatTask, IInv, TypeOK
<1>2. Shrinking
  BY <1>1 DEF Shrinking, RoadmapOf, Rows
<1>3. RoadmapAsAnswered'
  <2> SUFFICES ASSUME NEW m \in DOMAIN plans', plans'[m].company \notin overlapped,
                      plans'[m].kinds # {}
               PROVE  plans'[m].kinds = {k \in Kinds : NeedsOf(k) \subseteq plans'[m].answers}
    BY <1>1 DEF RoadmapAsAnswered, OneCall
  <2>1. plans \in Seq([company : Companies, kinds : SUBSET Kinds, answers : SUBSET Details])
    BY DEF IInv, TypeOK
  <2>2. PICK new : new = [company |-> c, kinds |-> {}, answers |-> answers[c]]
    OBVIOUS
  <2>3. \/ m \in DOMAIN plans /\ plans'[m] = plans[m]
        \/ plans'[m] = new
    BY <1>1, <2>1, <2>2
  <2> QED
    BY <2>2, <2>3 DEF JInv, RoadmapAsAnswered
<1> QED
  BY <1>1, <1>2, <1>3, OneCallKeepsJInv

LEMMA InitJInv == Init => JInv
<1> SUFFICES ASSUME Init PROVE JInv
  OBVIOUS
<1>1. \A r \in Requests : req[r] = NoRequest
  BY DEF Init
<1>2. \A r \in Requests : Progress(req[r])
  BY <1>1, NoProgress
<1>3. Sole
  BY <1>1, NoProgress, NoneIsNobody DEF Sole
<1>4. OneRoadmap
  BY DEF Init, OneRoadmap, RoadmapOf, Rows
<1>5. RoadmapAsAnswered
  BY DEF Init, RoadmapAsAnswered
<1> QED
  BY <1>2, <1>3, <1>4, <1>5 DEF JInv

LEMMA NextKeepsJInv ==
    ASSUME IInv, JInv, [Next]_vars
    PROVE  JInv'
<1>1. CASE Arrive
  BY <1>1, ArriveKeepsJInv
<1>2. ASSUME NEW r \in Requests, Intaking(r) \/ Planning(r) \/ Assigning(r) \/ Fail(r)
      PROVE  JInv'
  <2>1. CASE Fail(r)
    BY <2>1, ReplyStep DEF Fail
  <2> QED
    BY <1>2, <2>1, IntakingKeepsJInv, PlanningKeepsJInv, AssigningKeepsJInv
<1>3. ASSUME NEW ids, DeleteTasks(ids) \/ CompleteTasks(ids) PROVE JInv'
  BY <1>3, DeleteOrCompleteKeepsJInv
<1>4. ASSUME NEW c \in Companies, NEW lawyer \in Admins, ChatTask(c, lawyer) PROVE JInv'
  BY <1>4, ChatTaskKeepsJInv
<1>5. CASE UNCHANGED vars
  <2>1. UNCHANGED <<answers, located, task, req, plans, overlapped>>
    BY <1>5 DEF vars, rows
  <2>2. ASSUME NEW s \in Requests PROVE Progress(req[s])'
    <3>1. PICK x \in Request : x = req[s] /\ Progress(x)
      BY Requested
    <3>2. Progress(x)'
      BY <2>1, <3>1, SameTasks, StaysProgress DEF Shrinking
    <3> QED
      BY <2>1, <3>1, <3>2 DEF Progress, SavedPlace, SavedAnswers
  <2>3. Sole'
    BY <2>1 DEF JInv, Sole
  <2>4. OneRoadmap' /\ RoadmapAsAnswered'
    BY <2>1, SameTasks, StaysOneRoadmap, StaysAsAnswered DEF JInv
  <2> QED
    BY <2>2, <2>3, <2>4 DEF JInv
<1> QED
  BY <1>1, <1>2, <1>3, <1>4, <1>5 DEF Next

LEMMA InductiveAlone == Spec => []JInv
<1>1. IInv /\ JInv /\ [Next]_vars => JInv'
  BY NextKeepsJInv
<1> QED
  BY <1>1, InitJInv, Inductive, PTL DEF Spec

\* A company never has tasks of two roadmaps (createTasks), whatever was
\* deleted, completed or failed, unless two createTasks were in flight for it.
THEOREM RoadmapIsOne == Spec => []OneRoadmap
<1>1. JInv => OneRoadmap
  BY DEF JInv
<1> QED
  BY <1>1, InductiveAlone, PTL

\* The roadmap has the steps for what the company's rows said when it was
\* created (createTasks), unless two of its intakes overlapped.
THEOREM RoadmapIsAsAnswered == Spec => []RoadmapAsAnswered
<1>1. JInv => RoadmapAsAnswered
  BY DEF JInv
<1> QED
  BY <1>1, InductiveAlone, PTL

\* When createTasks ends an intake that overlapped no other, the company holds
\* what the payload gave and the places it named (updateIntakeCallForm).
THEOREM IntakesAreSaved == Spec => []IntakeIsSaved
<1>1. ASSUME IInv, JInv PROVE IntakeIsSaved
  <2> SUFFICES ASSUME NEW r \in Requests, req[r].said # None, req[r].c \notin overlapped
               PROVE  /\ req[r].at \in PlanLabels => SavedAnswers(req[r])
                      /\ req[r].at \in {"update"} \cup PlanLabels =>
                           \A t \in Tables : SavedPlace(req[r], t)
    BY DEF IntakeIsSaved, SavedAnswers, SavedPlace, PlanLabels
  <2>1. PICK x \in Request : x = req[r] /\ Progress(x) /\ Carries(x)
    BY <1>1, Requested
  <2>2. x.at \in {"update"} \cup PlanLabels => x.c \in Companies \ overlapped
    BY <2>1 DEF Carries, PlanLabels
  <2> QED
    BY <2>1, <2>2 DEF Progress
<1> QED
  BY <1>1, Inductive, InductiveAlone, PTL
=============================================================================
