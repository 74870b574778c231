----------------------------- MODULE TaskBoard ------------------------------
(****************************************************************************)
(* The tasks of the companies and who may change them: tasks.service.ts and *)
(* updateIntakeCallForm of companies.service.ts, await by await.            *)
(*                                                                          *)
(*   intake   get -> for both location tables: find -> add, or drop         *)
(*            -> update -> createTasks                                      *)
(*   plan     createTasks (POST /tasks/create-for-company)                  *)
(*   assign   tasks -> user -> members -> assign                            *)
(*                                                                          *)
(* createTasks is "existing -> ip -> financial -> create"; its dates are    *)
(* module Roadmap, and the steps it leaves out are here.  deleteTask and    *)
(* completeTask are one call each.                                          *)
(****************************************************************************)
EXTENDS Naturals, Sequences, FiniteSets

CONSTANTS
    Companies, Clients, Admins,
    MemberOf,   \* MemberOf[u]: the companies of client u (UserCompany)
    Places,     \* states and countries
    Intakes,    \* what an intake call may say
    Requests,   \* request slots: how many requests are in flight at once
    MaxBatches, \* bound: createMany calls on tasks
    MaxCalls,   \* bound: requests accepted
    MaxIds,     \* bound: tasks named by one request
    None        \* null; undefined in a request

Details == {"intellectualProperty", "intendToHaveAsset"}
Tables == {"w2_states", "countries"}

\* A detail that is neither given nor cleared is undefined in the payload.
Intake == [gives : SUBSET Details, clears : SUBSET Details,
           place : [Tables -> Places \cup {None}]]

ASSUME MemberOfType == MemberOf \in [Clients -> SUBSET Companies]
ASSUME IntakesType == Intakes \subseteq Intake
ASSUME BoundsType == MaxBatches \in Nat /\ MaxCalls \in Nat /\ MaxIds \in Nat
ASSUME NoneIsNobody == None \notin Companies \cup Clients \cup Admins \cup Places \cup Intakes

TaskTypeEnum == {"client_task", "encore_task"}

\* A kind of task stands for the tasks of the steps alike in answers and type;
\* "chat" is the one requestLawyer creates, of another category.
Kinds == {"board_decision", "transfer_ip", "sell_asset"}
AllKinds == Kinds \cup {"chat"}
TypeOf(k) == IF k \in {"sell_asset", "chat"} THEN "encore_task" ELSE "client_task"
NeedsOf(k) == CASE k = "transfer_ip" -> {"intellectualProperty"}
                [] k = "sell_asset" -> {"intendToHaveAsset"}
                [] OTHER -> {}

\* The n-th createMany makes at most one task of a kind.
Ids == (1 .. MaxBatches) \X AllKinds

Task == [company : Companies, typeTask : TaskTypeEnum, complete : BOOLEAN,
         client : Clients \cup {None}, admin : Admins \cup {None}]

VARIABLES
    answers,    \* answers[c]: the details stored for c
    located,    \* located[c][table]: the places in a location table
    task,       \* task[i]: the Task row, or None
    req,        \* req[r]: the request in slot r
    plans,      \* history: [company, kinds, answers] of each createMany
    overlapped, \* history: companies on which two createTasks were in flight
    calls       \* how many requests were accepted

rows == <<answers, located, task>>
vars == <<rows, req, plans, overlapped, calls>>

Labels == {"idle", "get", "find_place", "add_place", "drop_places", "update",
           "existing", "ip", "financial", "create",
           "tasks", "user", "members", "assign"}

Request == [at      : Labels,
            c       : Companies \cup {None},
            said    : Intakes \cup {None},
            table   : Tables \cup {None},
            read    : SUBSET Details,
            ids     : SUBSET Ids,
            type    : TaskTypeEnum \cup {None},
            who     : Clients \cup Admins \cup {None},
            toCheck : SUBSET Companies]

NoRequest == [at |-> "idle", c |-> None, said |-> None, table |-> None,
              read |-> {}, ids |-> {}, type |-> None, who |-> None, toCheck |-> {}]

Init ==
    /\ answers = [c \in Companies |-> {}]
    /\ located = [c \in Companies |-> [t \in Tables |-> {}]]
    /\ task = [i \in Ids |-> None]
    /\ req = [r \in Requests |-> NoRequest]
    /\ plans = <<>>
    /\ overlapped = {}
    /\ calls = 0

Rows == {i \in Ids : task[i] # None}

-----------------------------------------------------------------------------
(* Requests arrive.                                                         *)

At(r, label) == req[r].at = label

Planners == {r \in Requests : req[r].c # None}

Accept(r, q) ==
    /\ At(r, "idle")
    /\ calls < MaxCalls
    /\ calls' = calls + 1
    /\ req' = [req EXCEPT ![r] = q]
    /\ UNCHANGED <<rows, plans>>

\* (While there is a createMany left for everyone.)
AcceptPlanner(r, q) ==
    /\ Len(plans) + Cardinality(Planners) < MaxBatches
    /\ Accept(r, q)
    /\ overlapped' = overlapped \cup {c \in {q.c} : \E p \in Planners : req[p].c = c}

ArriveIntake(r, c, payload) ==
    AcceptPlanner(r, [NoRequest EXCEPT !.at = "get", !.c = c, !.said = payload])

ArrivePlan(r, c) == AcceptPlanner(r, [NoRequest EXCEPT !.at = "existing", !.c = c])

ArriveAssign(r, ids, type, who) ==
    /\ Accept(r, [NoRequest EXCEPT !.at = "tasks", !.ids = ids, !.type = type, !.who = who])
    /\ UNCHANGED overlapped

-----------------------------------------------------------------------------
(* One awaited call each.                                                   *)

history == <<plans, overlapped, calls>>

Goto(r, label) == req' = [req EXCEPT ![r].at = label]

Reply(r) == req' = [req EXCEPT ![r] = NoRequest]

\* A location table is looked up when the payload has a place for it.
ToTable(r, t) ==
    req' = [req EXCEPT ![r].table = t,
                       ![r].at = IF req[r].said.place[t] # None
                                   THEN "find_place" ELSE "drop_places"]

\* The company is there; validateUpdateIntakeCall has accepted the payload.
GetCompany(r) ==
    /\ At(r, "get")
    /\ ToTable(r, "w2_states")
    /\ UNCHANGED <<rows, history>>

AfterTable(r) ==
    IF req[r].table = "w2_states" THEN ToTable(r, "countries") ELSE Goto(r, "update")

Place(r) == req[r].said.place[req[r].table]

FindPlace(r) ==
    /\ At(r, "find_place")
    /\ IF Place(r) \in located[req[r].c][req[r].table]
         THEN AfterTable(r) ELSE Goto(r, "add_place")
    /\ UNCHANGED <<rows, history>>

\* (companyId, state) and (companyId, country) are unique.
AddPlace(r) ==
    /\ At(r, "add_place")
    /\ Place(r) \notin located[req[r].c][req[r].table]
    /\ located' = [located EXCEPT ![req[r].c][req[r].table] = @ \cup {Place(r)}]
    /\ AfterTable(r)
    /\ UNCHANGED <<answers, task, history>>

DropPlaces(r) ==
    /\ At(r, "drop_places")
    /\ located' = [located EXCEPT ![req[r].c][req[r].table] = {}]
    /\ AfterTable(r)
    /\ UNCHANGED <<answers, task, history>>

\* (Mutant of UpdateCompany: what is null or empty is left out as well.)
UpdateGiven(r) ==
    /\ At(r, "update")
    /\ answers' = [answers EXCEPT ![req[r].c] = @ \cup req[r].said.gives]
    /\ Goto(r, "existing")
    /\ UNCHANGED <<located, task, history>>

\* Both nested upserts; undefined leaves the stored detail as it is.
UpdateCompany(r) ==
    /\ At(r, "update")
    /\ answers' = [answers EXCEPT ![req[r].c] =
                     (@ \cup req[r].said.gives) \ req[r].said.clears]
    /\ Goto(r, "existing")
    /\ UNCHANGED <<located, task, history>>

\* The tasks of the roadmap; those of requestLawyer are of another category.
RoadmapOf(c) == {i \in Rows : task[i].company = c /\ i[2] # "chat"}

\* (Mutant of FindExisting: tasks that are complete do not count.)
FindPending(r) ==
    /\ At(r, "existing")
    /\ IF \A i \in RoadmapOf(req[r].c) : task[i].complete
         THEN Goto(r, "ip") ELSE Reply(r)
    /\ UNCHANGED <<rows, history>>

FindExisting(r) ==
    /\ At(r, "existing")
    /\ IF RoadmapOf(req[r].c) = {} THEN Goto(r, "ip") ELSE Reply(r)
    /\ UNCHANGED <<rows, history>>

Read(r, detail, label) ==
    /\ req' = [req EXCEPT ![r].read = @ \cup (answers[req[r].c] \cap {detail}),
                          ![r].at = label]
    /\ UNCHANGED <<rows, history>>

ReadIntellectualProperty(r) ==
    At(r, "ip") /\ Read(r, "intellectualProperty", "financial")

\* (Mutant of ReadFinancialDetails: the first company's details are read.)
ReadSomeFinancialDetails(r) ==
    /\ At(r, "financial")
    /\ \E c \in Companies :
         req' = [req EXCEPT ![r].read = @ \cup (answers[c] \cap {"intendToHaveAsset"}),
                            ![r].at = "create"]
    /\ UNCHANGED <<rows, history>>

ReadFinancialDetails(r) ==
    At(r, "financial") /\ Read(r, "intendToHaveAsset", "create")

NewTask(c, k) == [company |-> c, typeTask |-> TypeOf(k), complete |-> FALSE,
                  client |-> None, admin |-> None]

CreateTasks(r) ==
    LET c == req[r].c
        n == Len(plans) + 1
        kinds == {k \in Kinds : NeedsOf(k) \subseteq req[r].read} IN
      /\ At(r, "create")
      /\ task' = [i \in Ids |-> IF i[1] = n /\ i[2] \in kinds
                                  THEN NewTask(c, i[2]) ELSE task[i]]
      /\ plans' = Append(plans, [company |-> c, kinds |-> kinds, answers |-> answers[c]])
      /\ Reply(r)
      /\ UNCHANGED <<answers, located, overlapped, calls>>

-----------------------------------------------------------------------------
\* (Mutant of FindTasks: the tasks may be of any type.)
FindTasksOfAnyType(r) ==
    LET found == req[r].ids \cap Rows IN
      /\ At(r, "tasks")
      /\ IF found = req[r].ids
           THEN req' = [req EXCEPT ![r].at = "user",
                                   ![r].toCheck = {task[i].company : i \in found}]
           ELSE Reply(r)
      /\ UNCHANGED <<rows, history>>

FindTasks(r) ==
    LET found == {i \in req[r].ids \cap Rows : task[i].typeTask = req[r].type} IN
      /\ At(r, "tasks")
      /\ IF found = req[r].ids
           THEN req' = [req EXCEPT ![r].at = "user",
                                   ![r].toCheck = {task[i].company : i \in found}]
           ELSE Reply(r)
      /\ UNCHANGED <<rows, history>>

\* A client is looked for among the users, an admin among the staff.
FindUser(r) ==
    /\ At(r, "user")
    /\ CASE req[r].type = "client_task" /\ req[r].who \in Clients -> Goto(r, "members")
         [] req[r].type = "encore_task" /\ req[r].who \in Admins  -> Goto(r, "assign")
         [] OTHER -> Reply(r)
    /\ UNCHANGED <<rows, history>>

\* (Mutant of CheckMember: the company of one task is enough.)
CheckOneMember(r) ==
    /\ At(r, "members")
    /\ \E c \in req[r].toCheck :
         IF c \in MemberOf[req[r].who] THEN Goto(r, "assign") ELSE Reply(r)
    /\ UNCHANGED <<rows, history>>

\* The loop over the tasks found: one look-up for each company.
CheckMember(r) ==
    /\ At(r, "members")
    /\ \E c \in req[r].toCheck :
         IF c \in MemberOf[req[r].who]
           THEN req' = [req EXCEPT ![r].toCheck = @ \ {c},
                                   ![r].at = IF req[r].toCheck = {c} THEN "assign" ELSE @]
           ELSE Reply(r)
    /\ UNCHANGED <<rows, history>>

\* By id alone: what was deleted meanwhile is left out.
AssignTasks(r) ==
    /\ At(r, "assign")
    /\ task' = [i \in Ids |->
                  IF i \notin req[r].ids \cap Rows THEN task[i]
                  ELSE IF req[r].type = "client_task"
                    THEN [task[i] EXCEPT !.client = req[r].who, !.admin = None,
                                         !.typeTask = "client_task"]
                    ELSE [task[i] EXCEPT !.admin = req[r].who, !.client = None,
                                         !.typeTask = "encore_task"]]
    /\ Reply(r)
    /\ UNCHANGED <<answers, located, history>>

\* The awaited call rejects: nothing is written and the request fails.
Fail(r) ==
    /\ ~ At(r, "idle")
    /\ Reply(r)
    /\ UNCHANGED <<rows, history>>

-----------------------------------------------------------------------------
(* Requests of one call.                                                    *)

OneCall ==
    /\ calls < MaxCalls
    /\ calls' = calls + 1
    /\ UNCHANGED <<answers, located, req, overlapped>>

DeleteTasks(ids) ==
    /\ OneCall
    /\ task' = [i \in Ids |-> IF i \in ids THEN None ELSE task[i]]
    /\ UNCHANGED plans

\* Only of tasks that are pending or in progress.
CompleteTasks(ids) ==
    /\ OneCall
    /\ task' = [i \in Ids |-> IF i \in ids \cap Rows
                                THEN [task[i] EXCEPT !.complete = TRUE] ELSE task[i]]
    /\ UNCHANGED plans

\* requestLawyer (module ChatLawyer) creates the lawyer's task.
ChatTask(c, lawyer) ==
    LET n == Len(plans) + 1 IN
      /\ n + Cardinality(Planners) <= MaxBatches
      /\ OneCall
      /\ task' = [task EXCEPT ![<<n, "chat">>] = [NewTask(c, "chat") EXCEPT !.admin = lawyer]]
      /\ plans' = Append(plans, [company |-> c, kinds |-> {}, answers |-> answers[c]])

IdLists == {ids \in SUBSET Rows : Cardinality(ids) \in 1 .. MaxIds}

Arrive ==
    \/ \E r \in Requests, c \in Companies :
         ArrivePlan(r, c) \/ \E payload \in Intakes : ArriveIntake(r, c, payload)
    \/ \E r \in Requests, ids \in IdLists, type \in TaskTypeEnum,
          who \in Clients \cup Admins : ArriveAssign(r, ids, type, who)

Intaking(r) ==
    \/ GetCompany(r) \/ FindPlace(r) \/ AddPlace(r) \/ DropPlaces(r) \/ UpdateCompany(r)

Planning(r) ==
    \/ FindExisting(r) \/ ReadIntellectualProperty(r) \/ ReadFinancialDetails(r)
    \/ CreateTasks(r)

Assigning(r) == FindTasks(r) \/ FindUser(r) \/ CheckMember(r) \/ AssignTasks(r)

Next ==
    \/ Arrive
    \/ \E r \in Requests : Intaking(r) \/ Planning(r) \/ Assigning(r) \/ Fail(r)
    \/ \E ids \in IdLists : DeleteTasks(ids) \/ CompleteTasks(ids)
    \/ \E c \in Companies, lawyer \in Admins : ChatTask(c, lawyer)

Spec == Init /\ [][Next]_vars

-----------------------------------------------------------------------------
(* Properties                                                               *)

TypeOK ==
    /\ answers \in [Companies -> SUBSET Details]
    /\ located \in [Companies -> [Tables -> SUBSET Places]]
    /\ task \in [Ids -> Task \cup {None}]
    /\ req \in [Requests -> Request]
    /\ plans \in Seq([company : Companies, kinds : SUBSET Kinds, answers : SUBSET Details])
    /\ overlapped \subseteq Companies
    /\ calls \in 0 .. MaxCalls

\* A company never has tasks of two roadmaps (createTasks, the look for
\* existing tasks, tasks.service.ts:51), whatever was deleted, completed or
\* failed in between, unless two createTasks were in flight for it.
OneRoadmap ==
    \A c \in Companies \ overlapped : \A i, j \in RoadmapOf(c) : i[1] = j[1]

\* The roadmap has the steps for what the company's rows said when it was
\* created, although they are read one await apart (tasks.service.ts:61-67),
\* unless two of its intakes overlapped.
RoadmapAsAnswered ==
    \A n \in DOMAIN plans :
        plans[n].company \notin overlapped /\ plans[n].kinds # {} =>
            plans[n].kinds = {k \in Kinds : NeedsOf(k) \subseteq plans[n].answers}

\* A task is assigned to one person at most: a client who is a member of the
\* task's company, of a client task, or an admin, of an encore task
\* (assignTasks), however assignments, deletions and roadmaps interleave.
AssigneeBelongs ==
    \A i \in Rows :
        /\ task[i].client # None => task[i].typeTask = "client_task"
                                    /\ task[i].company \in MemberOf[task[i].client]
        /\ task[i].admin # None => task[i].typeTask = "encore_task"

\* Assignment never moves a task between the clients' and Encore's lists, and
\* a task that is complete stays so (assignTasks, completeTask).
TaskKept ==
    [][\A i \in Rows : task'[i] # None =>
         /\ task'[i].typeTask = task[i].typeTask
         /\ task'[i].company = task[i].company
         /\ task[i].complete => task'[i].complete]_vars

\* When createTasks ends an intake that overlapped no other, the company holds
\* all the payload gave, none of what it cleared, and the places it named or
\* none (updateIntakeCallForm).
IntakeIsSaved ==
    \A r \in Requests : req[r].said # None /\ req[r].c \notin overlapped =>
        /\ req[r].at \in {"existing", "ip", "financial", "create"} =>
             /\ req[r].said.gives \ req[r].said.clears \subseteq answers[req[r].c]
             /\ req[r].said.clears \cap answers[req[r].c] = {}
        /\ req[r].at \in {"update", "existing", "ip", "financial", "create"} =>
             \A t \in Tables :
                 LET p == req[r].said.place[t] IN
                   IF p = None THEN located[req[r].c][t] = {} ELSE p \in located[req[r].c][t]
=============================================================================
