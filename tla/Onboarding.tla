----------------------------- MODULE Onboarding -----------------------------
(****************************************************************************)
(* registration.service.ts, with what it calls of companies.service.ts and  *)
(* companies.repository.ts: the three steps in which a user registers a     *)
(* company.  Each step is a request of several awaited calls:               *)
(*                                                                          *)
(*   step 1   create -> list, sync (states) -> list, sync (countries)       *)
(*            -> name_user                                                  *)
(*   step 2   get -> update -> list, sync (W2 states) -> list, sync         *)
(*            (employee countries)                                          *)
(*   step 3   get -> set_up -> update -> find_owner -> register             *)
(*                                                                          *)
(* "create", "sync" and "set_up" are transactions.  Nothing spans the steps *)
(* of a request: the guard hasCompletedSetup is read at "get" only.         *)
(* A user may begin any number of companies, also when registered already,  *)
(* and has one column "registered" for all of them.                         *)
(****************************************************************************)
EXTENDS Naturals, FiniteSets

CONSTANTS
    Users,      \* user ids
    Companies,  \* bound: the company ids there are
    Folders,    \* bound: the folder ids there are
    Places,     \* states and countries
    Asks,       \* the sets of places a request may list
    Requests,   \* request slots: how many requests are in flight at once
    None        \* null; undefined in a request

ASSUME AsksType == Asks \subseteq SUBSET Places
ASSUME NoneIsNoId == None \notin Users \cup Companies \cup Folders \cup Asks

VARIABLES
    company,    \* company[c]: the Company row, or None
    owner,      \* owner[c]: the userId of the OWNER among the UserCompany rows of c
    roots,      \* roots[c]: the Folder rows made as root of c
    located,    \* located[c][table]: the places in a location table
    registered, \* registered[u]: the column of the User row
    req,        \* req[r]: the request in slot r
    given,      \* history: the structure last stored by step 2 of c
    asked,      \* history: asked[c][table]: the set last synchronised
    overlapped  \* history: the companies two requests were in flight on

rows == <<company, owner, roots, located, registered>>
vars == <<rows, req, given, asked, overlapped>>

\* Structures and stages: a word of the enum, or free text.
CompanyStructureEnum == {"LLC"}
CurrentStage == {"UNDECIDED"}
Structures == CompanyStructureEnum \cup {"text"}
Stages == CurrentStage \cup {"text"}

Tables == {"states", "countries", "w2_states", "employee_countries"}

Company == [structure : Structures \cup {None}, otherStructure : Structures \cup {None},
            currentStage : Stages \cup {None}, otherStage : Stages \cup {None},
            hasPaidTheFee : BOOLEAN, hasCompletedSetup : BOOLEAN,
            rootFolderId : Folders \cup {None}]

ASSUME NoneIsNoRow == None \notin Company

Labels == {"idle", "create", "list", "sync", "name_user", "get", "set_up",
           "update", "find_owner", "register"}

Request == [at     : Labels,
            step   : 0 .. 3,
            u      : Users \cup {None},  \* user of step 1, userCompany.userId of step 3
            c      : Companies \cup {None},
            said   : Structures \cup Stages \cup {None},
            places : Asks \cup {None},
            table  : Tables \cup {None},
            listed : SUBSET Places]

NoRequest == [at |-> "idle", step |-> 0, u |-> None, c |-> None, said |-> None,
              places |-> None, table |-> None, listed |-> {}]

Init ==
    /\ company = [c \in Companies |-> None]
    /\ owner = [c \in Companies |-> None]
    /\ roots = [c \in Companies |-> {}]
    /\ located = [c \in Companies |-> [t \in Tables |-> {}]]
    /\ registered = [u \in Users |-> FALSE]
    /\ req = [r \in Requests |-> NoRequest]
    /\ given = [c \in Companies |-> None]
    /\ asked = [c \in Companies |-> [t \in Tables |-> {}]]
    /\ overlapped = {}

-----------------------------------------------------------------------------
(* Requests arrive.                                                         *)

At(r, label) == req[r].at = label

Stored == {c \in Companies : company[c] # None}

InFlight(c) == \E r \in Requests : req[r].c = c

Accept(r, q) ==
    /\ At(r, "idle")
    /\ req' = [req EXCEPT ![r] = q]
    /\ overlapped' = overlapped \cup {c \in Stored \cap {q.c} : InFlight(c)}
    /\ UNCHANGED <<rows, given, asked>>

\* (While there is an id left for the company.)
ArriveStep1(r, u, places) ==
    /\ Cardinality(Companies \ Stored) > Cardinality({x \in Requests : At(x, "create")})
    /\ Accept(r, [NoRequest EXCEPT !.at = "create", !.step = 1,
                                   !.u = u, !.places = places])

ArriveStep2(r, c, places, structure) ==
    Accept(r, [NoRequest EXCEPT !.at = "get", !.step = 2, !.c = c,
                                !.places = places, !.said = structure])

ArriveStep3(r, c, stage) ==
    Accept(r, [NoRequest EXCEPT !.at = "get", !.step = 3, !.c = c, !.said = stage])

-----------------------------------------------------------------------------
(* One awaited call each.                                                   *)

Goto(r, label) == req' = [req EXCEPT ![r].at = label]

Reply(r) == req' = [req EXCEPT ![r] = NoRequest]

Unused == Folders \ UNION {roots[c] : c \in Companies}

\* createWithUser: the company, its OWNER and its root folder, or nothing.
CreateCompany(r) ==
    /\ At(r, "create")
    /\ \E c \in Companies \ Stored, f \in Unused :
         /\ company' = [company EXCEPT ![c] =
              [structure |-> None, otherStructure |-> None, currentStage |-> None,
               otherStage |-> None, hasPaidTheFee |-> FALSE,
               hasCompletedSetup |-> FALSE, rootFolderId |-> f]]
         /\ owner' = [owner EXCEPT ![c] = req[r].u]
         /\ roots' = [roots EXCEPT ![c] = {f}]
         /\ req' = [req EXCEPT ![r].c = c, ![r].at = "list", ![r].table = "states"]
    /\ UNCHANGED <<located, registered, given, asked, overlapped>>

\* (Mutant of GetCompany: the setup may be repeated.)
GetCompanyUnguarded(r) ==
    /\ At(r, "get")
    /\ Goto(r, IF req[r].step = 2 THEN "update" ELSE "set_up")
    /\ UNCHANGED <<rows, given, asked, overlapped>>

\* 'Company has already completed setup' ends the request.
GetCompany(r) ==
    /\ At(r, "get")
    /\ IF company[req[r].c].hasCompletedSetup
         THEN Reply(r)
         ELSE Goto(r, IF req[r].step = 2 THEN "update" ELSE "set_up")
    /\ UNCHANGED <<rows, given, asked, overlapped>>

\* setUpAfterPayment: a new root folder takes the place of the one there is.
SetUpAfterPayment(r) ==
    /\ At(r, "set_up")
    /\ \E f \in Unused :
         /\ roots' = [roots EXCEPT ![req[r].c] = @ \cup {f}]
         /\ company' = [company EXCEPT ![req[r].c].rootFolderId = f,
                                       ![req[r].c].hasPaidTheFee = TRUE]
    /\ Goto(r, "update")
    /\ UNCHANGED <<owner, located, registered, given, asked, overlapped>>

\* updateById: an undefined or free structure nulls structure, and an
\* undefined field is not written; the text of a free stage is lost, because
\* currentStage is nulled before it is copied.
Updated(row, structure, stage) ==
    [row EXCEPT
       !.structure      = IF structure \in CompanyStructureEnum THEN structure ELSE None,
       !.otherStructure = IF structure \in CompanyStructureEnum THEN None
                          ELSE IF structure = None THEN @ ELSE structure,
       !.currentStage   = IF stage \in CurrentStage THEN stage ELSE None,
       !.otherStage     = None]

UpdateStep2(r) ==
    LET q == req[r] IN
    /\ At(r, "update") /\ q.step = 2
    /\ company' = [company EXCEPT ![q.c] = Updated(@, q.said, None)]
    /\ given' = [given EXCEPT ![q.c] = q.said]
    /\ req' = [req EXCEPT ![r].at = "list", ![r].table = "w2_states"]
    /\ UNCHANGED <<owner, roots, located, registered, asked, overlapped>>

UpdateStep3(r) ==
    LET q == req[r] IN
    /\ At(r, "update") /\ q.step = 3
    /\ company' = [company EXCEPT
                     ![q.c] = [Updated(@, None, q.said) EXCEPT !.hasCompletedSetup = TRUE]]
    /\ Goto(r, "find_owner")
    /\ UNCHANGED <<owner, roots, located, registered, given, asked, overlapped>>

\* What follows the synchronisation of q.table.
AfterTable(q) ==
    CASE q.table = "states"    -> [q EXCEPT !.at = "list", !.table = "countries"]
      [] q.table = "countries" -> [q EXCEPT !.at = "name_user", !.table = None]
      [] q.table = "w2_states" -> [q EXCEPT !.at = "list", !.table = "employee_countries"]
      [] q.table = "employee_countries" -> NoRequest

\* The rows in place are read; an undefined list leaves the table alone.
ListPlaces(r) ==
    LET q == req[r] IN
    /\ At(r, "list")
    /\ req' = [req EXCEPT ![r] =
                 IF q.places = None THEN AfterTable(q)
                 ELSE [q EXCEPT !.at = "sync", !.listed = located[q.c][q.table]]]
    /\ UNCHANGED <<rows, given, asked, overlapped>>

Missing(q) == q.places \ q.listed
Surplus(q) == q.listed \ q.places

\* (Mutant of Synced: what is no longer listed stays.)
SyncedAdding(place, q) == place \cup Missing(q)

Synced(place, q) == (place \cup Missing(q)) \ Surplus(q)

\* createMany and deleteMany in one transaction, from the rows read before.
SyncPlaces(r) ==
    LET q == req[r]
        place == located[q.c][q.table] IN
    /\ At(r, "sync")
    /\ Missing(q) \cap place = {}
    /\ located' = [located EXCEPT ![q.c][q.table] = Synced(place, q)]
    /\ asked' = [asked EXCEPT ![q.c][q.table] = q.places]
    /\ req' = [req EXCEPT ![r] = AfterTable([q EXCEPT !.listed = {}])]
    /\ UNCHANGED <<company, owner, roots, registered, given, overlapped>>

NameUser(r) ==
    At(r, "name_user") /\ Reply(r) /\ UNCHANGED <<rows, given, asked, overlapped>>

\* (Mutant of FindOwner: findFirst takes any OWNER.)
FindAnyOwner(r) ==
    /\ At(r, "find_owner")
    /\ \E c \in Stored :
         req' = [req EXCEPT ![r].u = owner[c], ![r].at = "register"]
    /\ UNCHANGED <<rows, given, asked, overlapped>>

\* Every company has the OWNER it was created with.
FindOwner(r) ==
    /\ At(r, "find_owner")
    /\ req' = [req EXCEPT ![r].u = owner[req[r].c], ![r].at = "register"]
    /\ UNCHANGED <<rows, given, asked, overlapped>>

Register(r) ==
    /\ At(r, "register")
    /\ registered' = [registered EXCEPT ![req[r].u] = TRUE]
    /\ Reply(r)
    /\ UNCHANGED <<company, owner, roots, located, given, asked, overlapped>>

\* The awaited call rejects: a transaction is rolled back, "sync" also when a
\* place was inserted since it was read.  What is done is not undone.
CallFails(r) ==
    ~ At(r, "idle") /\ Reply(r) /\ UNCHANGED <<rows, given, asked, overlapped>>

-----------------------------------------------------------------------------
Arrive(r) ==
    \E places \in Asks \cup {None} :
        \/ \E u \in Users : ArriveStep1(r, u, places)
        \/ \E c \in Stored, s \in Structures : ArriveStep2(r, c, places, s)
        \/ \E c \in Stored, s \in Stages : ArriveStep3(r, c, s)

Answer(r) ==
    \/ CreateCompany(r) \/ GetCompany(r) \/ SetUpAfterPayment(r)
    \/ UpdateStep2(r) \/ UpdateStep3(r) \/ ListPlaces(r) \/ SyncPlaces(r)
    \/ NameUser(r) \/ FindOwner(r) \/ Register(r) \/ CallFails(r)

Next == \E r \in Requests : Arrive(r) \/ Answer(r)

Spec == Init /\ [][Next]_vars

-----------------------------------------------------------------------------
(* Properties                                                               *)

TypeOK ==
    /\ company \in [Companies -> Company \cup {None}]
    /\ roots \in [Companies -> SUBSET Folders]
    /\ located \in [Companies -> [Tables -> SUBSET Places]]
    /\ owner \in [Companies -> Users \cup {None}]
    /\ registered \in [Users -> BOOLEAN]
    /\ req \in [Requests -> Request]
    /\ given \in [Companies -> Structures \cup {None}]
    /\ asked \in [Companies -> [Tables -> SUBSET Places]]
    /\ overlapped \subseteq Companies
    /\ \A r \in Requests : req[r].c # None => req[r].c \in Stored
    /\ \A c \in Stored : company[c].rootFolderId \in roots[c] /\ owner[c] \in Users

\* What getStep2 answers.
Step2Structure(c) ==
    IF company[c].structure # None THEN company[c].structure ELSE company[c].otherStructure

\* The setup of a company is completed only after its payment was recorded
\* with a root folder of its own, and a user is registered only after a company
\* of that user has completed its setup: whichever of the five calls of step 3
\* rejects, and however those of the user's and others' companies interleave
\* (registration.service.ts 168-198).
SetupInOrder ==
    /\ \A c \in Stored : company[c].hasCompletedSetup =>
         company[c].hasPaidTheFee /\ Cardinality(roots[c]) > 1
    /\ \A u \in Users : registered[u] =>
         \E c \in Stored : owner[c] = u /\ company[c].hasCompletedSetup

\* Unless requests overlapped, each location table of a company holds what the
\* last request that came to write it listed, however many have failed
\* half-way (companies.repository.ts 113-193, 251-325).
LocationsAsAsked ==
    \A c \in Stored \ overlapped : located[c] = asked[c]

\* A company that has completed its setup is not registered again: unless
\* requests overlapped, neither its row nor its locations change any more.
SetupIsFinal ==
    [][\A c \in Stored :
         company[c].hasCompletedSetup =>
            /\ company'[c].hasCompletedSetup
            /\ c \notin overlapped =>
                 /\ company'[c] = company[c]
                 /\ located'[c] = located[c]]_vars

\* registration.controller.ts:96: 'Retrieve the submitted data for registration
\* step 2'.  What step 2 stored can be retrieved.
Step2Retrievable == \A c \in Stored : Step2Structure(c) = given[c]
=============================================================================
