-------------------------- MODULE OnboardingProofs --------------------------
(****************************************************************************)
(* For any number of companies, folders, places and requests: how far the   *)
(* registration of a company is, what its location tables hold, and that a  *)
(* completed setup stays.  A request acts on what it read some calls ago,   *)
(* so each label carries what is still true of the rows at that point; the  *)
(* parts that other requests could spoil are claimed of the companies only  *)
(* on which no two requests were ever in flight together.                   *)
(****************************************************************************)
EXTENDS Onboarding, FiniteSetTheorems, TLAPS

RowsTyped ==
    /\ company \in [Companies -> Company \cup {None}]
    /\ roots \in [Companies -> SUBSET Folders]
    /\ located \in [Companies -> [Tables -> SUBSET Places]]
    /\ owner \in [Companies -> Users \cup {None}]
    /\ registered \in [Users -> BOOLEAN]
    /\ given \in [Companies -> Structures \cup {None}]
    /\ asked \in [Companies -> [Tables -> SUBSET Places]]
    /\ overlapped \subseteq Companies

\* How the rows of one company belong together.
CompanyOK(c) ==
    /\ IsFiniteSet(roots[c])
    /\ c \in Stored =>
         /\ owner[c] \in Users
         /\ company[c].rootFolderId \in roots[c]
         /\ Cardinality(roots[c]) > 0
         /\ company[c].hasPaidTheFee => Cardinality(roots[c]) > 1
         /\ company[c].hasCompletedSetup => company[c].hasPaidTheFee
    /\ c \notin overlapped => located[c] = asked[c]

\* A company of u has completed its setup.
SetUpFor(u) == \E c \in Stored : owner[c] = u /\ company[c].hasCompletedSetup

\* What a request relies on at each label.
Reached(q) ==
    /\ q.c # None => q.c \in Stored
    /\ q.at \notin {"idle", "create"} <=> q.c # None
    /\ q.at = "create" => q.u \in Users
    /\ q.at = "register" => q.u = owner[q.c]
    /\ q.at \in {"get", "update"} /\ q.step = 2 => q.said \in Structures
    /\ q.at = "set_up" => q.step # 2
    /\ q.at \in {"list", "sync"} => q.table \in Tables
    /\ q.at = "sync" => q.places \in Asks
    /\ q.at = "update" /\ q.step = 3 => company[q.c].hasPaidTheFee
    /\ q.at \in {"find_owner", "register"} => company[q.c].hasCompletedSetup
    /\ q.c # None /\ q.c \notin overlapped =>
         /\ company[q.c].hasCompletedSetup => q.at \in {"get", "find_owner", "register"}
         /\ q.at = "sync" => q.listed = located[q.c][q.table]

\* Of a company with no overlap, one request is in flight at most.
Sole ==
    \A c \in Companies \ overlapped : \A r, s \in Requests :
        req[r].c = c /\ req[s].c = c => r = s

IInv ==
    /\ RowsTyped
    /\ req \in [Requests -> Request]
    /\ \A c \in Companies : CompanyOK(c)
    /\ \A u \in Users : registered[u] => SetUpFor(u)
    /\ \A r \in Requests : Reached(req[r])
    /\ Sole

LEMMA IInvIsTyped == IInv => TypeOK
BY DEF IInv, RowsTyped, TypeOK, CompanyOK, Reached, Stored

\* What no step may undo.
Monotone ==
    \A c \in Stored :
        /\ c \in Stored'
        /\ owner'[c] = owner[c]
        /\ company[c].hasPaidTheFee => company'[c].hasPaidTheFee
        /\ company[c].hasCompletedSetup => company'[c].hasCompletedSetup

\* No company but d is written.
OnlyWrites(d) ==
    \A c \in Stored \ {d} : company'[c] = company[c] /\ located'[c] = located[c]

\* The step of SetupIsFinal.
Final ==
    \A c \in Stored :
        company[c].hasCompletedSetup =>
            /\ company'[c].hasCompletedSetup
            /\ c \notin overlapped => company'[c] = company[c] /\ located'[c] = located[c]

LEMMA Known ==
    ASSUME IInv, NEW r \in Requests
    PROVE  /\ req \in [Requests -> Request] /\ req[r] \in Request /\ Reached(req[r])
           /\ Stored \subseteq Companies /\ None \notin Companies
           /\ \A c \in Stored : company[c] \in Company
BY NoneIsNoId DEF IInv, RowsTyped, Stored

-----------------------------------------------------------------------------
(* What is true of the requests that do not move.                           *)

LEMMA StaysReached ==
    ASSUME NEW q, Reached(q), Monotone, overlapped \subseteq overlapped',
           q.c \in Stored \ overlapped => company'[q.c] = company[q.c] /\ located'[q.c] = located[q.c]
    PROVE  Reached(q)'
BY DEF Reached, Monotone

\* A step that turns request r into q and writes the rows of its company.
LEMMA Step ==
    ASSUME IInv, NEW r \in Requests, NEW q \in Request, req' = [req EXCEPT ![r] = q],
           overlapped' = overlapped, RowsTyped', \A c \in Companies : CompanyOK(c)',
           Reached(q)', q.c # None => q.c = req[r].c \/ q.c \notin Stored,
           Monotone, OnlyWrites(req[r].c),
           \A u \in Users : registered'[u] => registered[u] \/ SetUpFor(u)
    PROVE  IInv'
<1>0. \A u \in Users : registered'[u] => SetUpFor(u)'
  BY DEF IInv, SetUpFor, Monotone
<1>1. req' \in [Requests -> Request] /\ req'[r] = q
  BY Known
<1>2. \A s \in Requests \ {r} : req'[s] = req[s]
  BY Known
<1>3. ASSUME NEW s \in Requests PROVE Reached(req[s])'
  <2>1. CASE s = r
    BY <1>1, <2>1 DEF Reached
  <2>2. CASE s # r
    <3>1. PICK x \in Request : x = req[s] /\ Reached(x)
      BY Known
    <3>2. x.c \in Stored \ overlapped => x.c # req[r].c
      BY <2>2, <3>1, Known DEF IInv, Sole
    <3>3. Reached(x)'
      BY <3>1, <3>2, StaysReached DEF OnlyWrites
    <3> QED
      BY <1>2, <2>2, <3>1, <3>3 DEF Reached
  <2> QED
    BY <2>1, <2>2
<1>4. Sole'
  <2> SUFFICES ASSUME NEW c \in Companies \ overlapped, NEW s \in Requests \ {r}, q.c = c
               PROVE  req[s].c # c
    BY <1>1, <1>2 DEF Sole, IInv
  <2>1. CASE c = req[r].c
    BY <2>1 DEF IInv, Sole
  <2>2. CASE c \notin Stored
    BY <2>2, Known DEF Reached
  <2> QED
    BY <2>1, <2>2, Known
<1> QED
  BY <1>0, <1>1, <1>3, <1>4 DEF IInv

\* A step that reads, or has its call rejected.
LEMMA QuietStep ==
    ASSUME IInv, NEW r \in Requests, NEW q \in Request, req' = [req EXCEPT ![r] = q],
           UNCHANGED <<rows, given, asked, overlapped>>,
           Reached(q), q.c # None => q.c = req[r].c
    PROVE  IInv' /\ Final
<1>1. /\ RowsTyped' /\ \A c \in Companies : CompanyOK(c)'
      /\ UNCHANGED registered
  BY DEF IInv, RowsTyped, CompanyOK, rows, Stored
<1>2. Monotone /\ OnlyWrites(req[r].c) /\ Final
  BY DEF Monotone, OnlyWrites, Final, rows, Stored
<1>3. Reached(q)'
  BY <1>2, StaysReached DEF rows
<1> QED
  BY <1>1, <1>2, <1>3, Step

LEMMA Nothing == NoRequest \in Request /\ Reached(NoRequest) /\ Reached(NoRequest)' /\ NoRequest.c = None
BY DEF NoRequest, Request, Labels, Reached

LEMMA ReplyQuietly ==
    ASSUME IInv, NEW r \in Requests, Reply(r), UNCHANGED <<rows, given, asked, overlapped>>
    PROVE  IInv' /\ Final
BY QuietStep, Nothing DEF Reply

-----------------------------------------------------------------------------
(* Requests arrive.                                                         *)

LEMMA AcceptKeepsIInv ==
    ASSUME IInv, NEW r \in Requests, NEW q \in Request, Accept(r, q), Reached(q)
    PROVE  IInv' /\ Final
<1>1. req' \in [Requests -> Request] /\ req'[r] = q /\ \A s \in Requests \ {r} : req'[s] = req[s]
  BY Known DEF Accept
<1>2. Monotone /\ Final /\ overlapped \subseteq overlapped' /\ UNCHANGED <<company, located>>
  BY DEF Accept, Monotone, Final, rows, Stored
<1>3. RowsTyped' /\ \A c \in Companies : CompanyOK(c)'
  BY Known DEF Accept, IInv, RowsTyped, CompanyOK, rows, Stored
<1>4. ASSUME NEW s \in Requests PROVE Reached(req[s])'
  <2>1. PICK x \in Request : x = req'[s] /\ Reached(x)
    BY <1>1, Known
  <2>2. Reached(x)'
    BY <1>2, <2>1, StaysReached
  <2> QED
    BY <2>1, <2>2 DEF Reached
<1>5. \A u \in Users : registered'[u] => SetUpFor(u)'
  BY DEF Accept, IInv, SetUpFor, Stored, rows
<1>6. Sole'
  <2> SUFFICES ASSUME NEW c \in Companies \ overlapped', NEW s \in Requests \ {r}, q.c = c
               PROVE  req[s].c # c
    BY <1>1, <1>2 DEF Sole, IInv
  <2>1. c \in Stored
    BY Known DEF Reached
  <2> QED
    BY <2>1 DEF Accept, InFlight
<1> QED
  BY <1>1, <1>2, <1>3, <1>4, <1>5, <1>6 DEF IInv

LEMMA ArriveKeepsIInv ==
    ASSUME IInv, NEW r \in Requests, Arrive(r)
    PROVE  IInv' /\ Final
<1>0. "create" \in Labels /\ "get" \in Labels /\ 1 \in 0 .. 3 /\ 2 \in 0 .. 3 /\ 3 \in 0 .. 3
  BY DEF Labels
<1>1. ASSUME NEW places \in Asks \cup {None}, NEW u \in Users, ArriveStep1(r, u, places)
      PROVE  IInv' /\ Final
  <2> DEFINE q == [NoRequest EXCEPT !.at = "create", !.step = 1,
                                    !.u = u, !.places = places]
  <2>1. q \in Request
    BY <1>0 DEF NoRequest, Request
  <2>2. Reached(q)
    BY DEF NoRequest, Reached
  <2> QED
    BY <1>1, <2>1, <2>2, AcceptKeepsIInv DEF ArriveStep1
<1>2. ASSUME NEW places \in Asks \cup {None}, NEW c \in Stored, NEW s \in Structures,
             ArriveStep2(r, c, places, s)
      PROVE  IInv' /\ Final
  <2> DEFINE q == [NoRequest EXCEPT !.at = "get", !.step = 2, !.c = c,
                                    !.places = places, !.said = s]
  <2>0. c \in Companies \cup {None} /\ s \in Structures \cup Stages \cup {None}
    BY Known
  <2>1. q \in Request
    BY <1>0, <2>0 DEF NoRequest, Request
  <2>2. Reached(q)
    BY Known DEF NoRequest, Reached
  <2> QED
    BY <1>2, <2>1, <2>2, AcceptKeepsIInv DEF ArriveStep2
<1>3. ASSUME NEW c \in Stored, NEW s \in Stages, ArriveStep3(r, c, s)
      PROVE  IInv' /\ Final
  <2> DEFINE q == [NoRequest EXCEPT !.at = "get", !.step = 3, !.c = c, !.said = s]
  <2>0. c \in Companies \cup {None} /\ s \in Structures \cup Stages \cup {None}
    BY Known
  <2>1. q \in Request
    BY <1>0, <2>0 DEF NoRequest, Request
  <2>2. Reached(q)
    BY Known DEF NoRequest, Reached
  <2> QED
    BY <1>3, <2>1, <2>2, AcceptKeepsIInv DEF ArriveStep3
<1> QED
  BY <1>1, <1>2, <1>3 DEF Arrive

-----------------------------------------------------------------------------
(* One awaited call each: first those that write no row.                    *)

\* The labels a request goes to, as elements of their set.
LEMMA Known2 ==
    {"list", "sync", "name_user", "set_up", "update", "find_owner", "register"} \subseteq Labels
BY DEF Labels

LEMMA GetCompanyKeepsIInv ==
    ASSUME IInv, NEW r \in Requests, GetCompany(r)
    PROVE  IInv' /\ Final
<1>1. CASE company[req[r].c].hasCompletedSetup
  BY <1>1, ReplyQuietly DEF GetCompany
<1>2. CASE ~ company[req[r].c].hasCompletedSetup
  <2> DEFINE label == IF req[r].step = 2 THEN "update" ELSE "set_up"
             q == [req[r] EXCEPT !.at = label]
  <2>1. q \in Request
    BY Known, Known2 DEF Request
  <2>2. Reached(q)
    BY <1>2, Known DEF Reached, GetCompany, At, Request
  <2>3. req' = [req EXCEPT ![r] = q] /\ UNCHANGED <<rows, given, asked, overlapped>>
    BY <1>2, Known DEF GetCompany, Goto
  <2>4. q.c = req[r].c
    BY Known DEF Request
  <2> QED
    BY <2>1, <2>2, <2>3, <2>4, QuietStep
<1> QED
  BY <1>1, <1>2

\* Where a request is after a table.
LEMMA AfterTableReached ==
    ASSUME NEW q \in Request, q.table \in Tables, Reached(q), q.at \in {"list", "sync"}
    PROVE  /\ AfterTable(q) \in Request /\ Reached(AfterTable(q))
           /\ AfterTable(q).c # None => AfterTable(q).c = q.c
<1>1. CASE q.table \in {"states", "w2_states"}
  <2> DEFINE t == IF q.table = "states" THEN "countries" ELSE "employee_countries"
  <2>1. AfterTable(q) = [q EXCEPT !.at = "list", !.table = t]
    BY <1>1 DEF AfterTable
  <2>2. t \in Tables
    BY DEF Tables
  <2>3. [q EXCEPT !.at = "list", !.table = t] \in Request
    BY <2>2, Known2 DEF Request
  <2>4. Reached([q EXCEPT !.at = "list", !.table = t])
    BY <2>2 DEF Reached, Request
  <2> QED
    BY <2>1, <2>3, <2>4 DEF Request
<1>2. CASE q.table = "countries"
  <2>1. AfterTable(q) = [q EXCEPT !.at = "name_user", !.table = None]
    BY <1>2 DEF AfterTable
  <2>2. [q EXCEPT !.at = "name_user", !.table = None] \in Request
    BY Known2 DEF Request
  <2>3. Reached([q EXCEPT !.at = "name_user", !.table = None])
    BY DEF Reached, Request
  <2> QED
    BY <2>1, <2>2, <2>3 DEF Request
<1>3. CASE q.table = "employee_countries"
  <2>1. AfterTable(q) = NoRequest
    BY <1>3 DEF AfterTable
  <2> QED
    BY <2>1, Nothing
<1> QED
  BY <1>1, <1>2, <1>3 DEF Tables

LEMMA ListPlacesKeepsIInv ==
    ASSUME IInv, NEW r \in Requests, ListPlaces(r)
    PROVE  IInv' /\ Final
<1>1. /\ req[r].at = "list" /\ req[r].table \in Tables /\ req[r].c \in Companies
  BY Known DEF ListPlaces, At, Reached
<1>2. CASE req[r].places = None
  <2>1. req' = [req EXCEPT ![r] = AfterTable(req[r])] /\ UNCHANGED <<rows, given, asked, overlapped>>
    BY <1>2 DEF ListPlaces
  <2>2. /\ AfterTable(req[r]) \in Request /\ Reached(AfterTable(req[r]))
        /\ AfterTable(req[r]).c # None => AfterTable(req[r]).c = req[r].c
    BY <1>1, Known, AfterTableReached
  <2> QED
    BY <2>1, <2>2, QuietStep
<1>3. CASE req[r].places # None
  <2> DEFINE here == located[req[r].c][req[r].table]
             q == [req[r] EXCEPT !.at = "sync", !.listed = here]
  <2>1. here \in SUBSET Places
    BY <1>1 DEF IInv, RowsTyped
  <2>2. q \in Request
    BY <2>1, Known, Known2 DEF Request
  <2>3. Reached(q)
    BY <1>1, <1>3, Known DEF Reached, Request
  <2>4. req' = [req EXCEPT ![r] = q] /\ UNCHANGED <<rows, given, asked, overlapped>>
    BY <1>3, Known DEF ListPlaces
  <2>5. q.c = req[r].c
    BY Known DEF Request
  <2> QED
    BY <2>2, <2>3, <2>4, <2>5, QuietStep
<1> QED
  BY <1>2, <1>3

LEMMA FindOwnerKeepsIInv ==
    ASSUME IInv, NEW r \in Requests, FindOwner(r)
    PROVE  IInv' /\ Final
<1> DEFINE u == owner[req[r].c]
           q == [req[r] EXCEPT !.u = u, !.at = "register"]
<1>1. req[r].at = "find_owner" /\ req[r].c \in Stored /\ u \in Users
  BY Known DEF FindOwner, At, Reached, IInv, CompanyOK
<1>2. q \in Request /\ q.c = req[r].c
  BY <1>1, Known, Known2 DEF Request
<1>3. Reached(q)
  BY <1>1, Known DEF Reached, Request
<1>4. req' = [req EXCEPT ![r] = q] /\ UNCHANGED <<rows, given, asked, overlapped>>
  BY Known DEF FindOwner
<1> QED
  BY <1>2, <1>3, <1>4, QuietStep

-----------------------------------------------------------------------------
(* Those that write.                                                        *)

LEMMA CreateCompanyKeepsIInv ==
    ASSUME IInv, NEW r \in Requests, CreateCompany(r)
    PROVE  IInv' /\ Final
<1>1. PICK c \in Companies \ Stored, f \in Unused :
        /\ company' = [company EXCEPT ![c] =
             [structure |-> None, otherStructure |-> None, currentStage |-> None,
              otherStage |-> None, hasPaidTheFee |-> FALSE,
              hasCompletedSetup |-> FALSE, rootFolderId |-> f]]
        /\ owner' = [owner EXCEPT ![c] = req[r].u]
        /\ roots' = [roots EXCEPT ![c] = {f}]
        /\ req' = [req EXCEPT ![r].c = c, ![r].at = "list", ![r].table = "states"]
  BY DEF CreateCompany
<1> DEFINE row == [structure |-> None, otherStructure |-> None, currentStage |-> None,
                   otherStage |-> None, hasPaidTheFee |-> FALSE,
                   hasCompletedSetup |-> FALSE, rootFolderId |-> f]
           q == [req[r] EXCEPT !.c = c, !.at = "list", !.table = "states"]
<1>2. row \in Company /\ row # None
  <2>1. row \in Company
    BY DEF Company, Unused
  <2> QED
    BY <2>1, NoneIsNoRow
<1>3. /\ company'[c] = row /\ owner'[c] = req[r].u /\ roots'[c] = {f}
      /\ \A d \in Companies \ {c} :
           company'[d] = company[d] /\ owner'[d] = owner[d] /\ roots'[d] = roots[d]
      /\ UNCHANGED <<located, registered, given, asked, overlapped>>
  BY <1>1 DEF CreateCompany, IInv, RowsTyped
<1>4. RowsTyped'
  <2>1. company' \in [Companies -> Company \cup {None}]
    BY <1>1, <1>2 DEF IInv, RowsTyped
  <2>2. roots' \in [Companies -> SUBSET Folders]
    BY <1>1 DEF IInv, RowsTyped, Unused
  <2>3. req[r].u \in Users
    BY Known DEF CreateCompany, At, Reached
  <2>4. owner' \in [Companies -> Users \cup {None}]
    BY <1>1, <2>3 DEF IInv, RowsTyped
  <2> QED
    BY <1>3, <2>1, <2>2, <2>4 DEF IInv, RowsTyped
<1>5. Stored' = Stored \cup {c}
  BY <1>2, <1>3 DEF Stored
<1>6. ASSUME NEW d \in Companies PROVE CompanyOK(d)'
  <2>1. CASE d = c
    <3>1. IsFiniteSet({f}) /\ Cardinality({f}) = 1
      BY FS_Singleton
    <3>2. c \notin overlapped => located[c] = asked[c]
      BY DEF IInv, CompanyOK
    <3>3. row.rootFolderId = f /\ ~ row.hasPaidTheFee /\ ~ row.hasCompletedSetup
      OBVIOUS
    <3>4. req[r].u \in Users
      BY Known DEF CreateCompany, At, Reached
    <3> HIDE DEF row
    <3> QED
      BY <2>1, <3>1, <3>2, <3>3, <3>4, <1>3 DEF CompanyOK
  <2>2. CASE d # c
    BY <2>2, <1>3, <1>5 DEF IInv, CompanyOK
  <2> QED
    BY <2>1, <2>2
<1>7. q \in Request /\ q.c = c /\ q.at = "list" /\ q.table = "states"
  <2>1. "states" \in Tables
    BY DEF Tables
  <2> QED
    BY <2>1, Known, Known2 DEF Request
<1>8. PICK x \in Request : x = q
  BY <1>7
<1>9. Reached(x)'
  <2>1. ~ company'[c].hasCompletedSetup
    BY <1>3
  <2>2. c \in Stored' /\ c # None
    BY <1>5, NoneIsNoId
  <2>3. x.c = c /\ x.at = "list" /\ x.table \in Tables
    BY <1>7, <1>8 DEF Tables
  <2> QED
    BY <2>1, <2>2, <2>3 DEF Reached
<1>10. Monotone /\ OnlyWrites(req[r].c) /\ Final
  BY <1>3, <1>5 DEF Monotone, OnlyWrites, Final, Stored
<1>11. req' = [req EXCEPT ![r] = x] /\ x.c \notin Stored
  BY <1>1, <1>7, <1>8, Known
<1> QED
  BY <1>3, <1>4, <1>6, <1>9, <1>10, <1>11, Step

\* A request that is still writing finds the setup incomplete, unless another
\* has overtaken it.
LEMMA FinalWhileWriting ==
    ASSUME IInv, NEW r \in Requests, req[r].at \in {"set_up", "update", "sync"},
           Monotone, OnlyWrites(req[r].c)
    PROVE  Final
<1> SUFFICES ASSUME NEW c \in Stored, company[c].hasCompletedSetup, c \notin overlapped
             PROVE  c # req[r].c
  BY DEF Final, Monotone, OnlyWrites
<1> QED
  BY Known DEF Reached

LEMMA SetUpKeepsIInv ==
    ASSUME IInv, NEW r \in Requests, SetUpAfterPayment(r)
    PROVE  IInv' /\ Final
<1> DEFINE c == req[r].c
<1>1. PICK f \in Unused :
        /\ roots' = [roots EXCEPT ![c] = @ \cup {f}]
        /\ company' = [company EXCEPT ![c].rootFolderId = f, ![c].hasPaidTheFee = TRUE]
  BY DEF SetUpAfterPayment
<1>2. c \in Stored /\ c \in Companies /\ c # None /\ company[c] \in Company
  BY Known DEF SetUpAfterPayment, At, Reached
<1> DEFINE row == [company[c] EXCEPT !.rootFolderId = f, !.hasPaidTheFee = TRUE]
<1>3. row \in Company /\ row # None /\ row.rootFolderId = f /\ row.hasPaidTheFee
      /\ row.hasCompletedSetup = company[c].hasCompletedSetup
  <2>1. row \in Company
    BY <1>2 DEF Company, Unused
  <2> QED
    BY <1>2, <2>1, NoneIsNoRow DEF Company
<1>4. /\ company' = [company EXCEPT ![c] = row]
      /\ UNCHANGED <<owner, located, registered, given, asked, overlapped>>
  BY <1>1, <1>2 DEF SetUpAfterPayment, IInv, RowsTyped
<1> HIDE DEF row
<1>5. company'[c] = row /\ \A d \in Companies \ {c} : company'[d] = company[d]
  BY <1>2, <1>4 DEF IInv, RowsTyped
<1>6. Stored' = Stored
  BY <1>2, <1>3, <1>5 DEF Stored
<1>7. RowsTyped'
  <2>1. roots' \in [Companies -> SUBSET Folders]
    <3>1. roots[c] \cup {f} \in SUBSET Folders
      BY <1>2 DEF IInv, RowsTyped, Unused
    <3> QED
      BY <3>1, <1>1, <1>2 DEF IInv, RowsTyped
  <2> QED
    BY <2>1, <1>3, <1>4 DEF IInv, RowsTyped
<1>8. ASSUME NEW d \in Companies PROVE CompanyOK(d)'
  <2>1. CASE d = c
    <3>1. f \notin roots[c] /\ IsFiniteSet(roots[c]) /\ Cardinality(roots[c]) > 0
      BY <1>2 DEF Unused, IInv, CompanyOK
    <3>2. Cardinality(roots[c]) \in Nat
      BY <3>1, FS_CardinalityType
    <3>3. /\ IsFiniteSet(roots[c] \cup {f})
          /\ Cardinality(roots[c] \cup {f}) = Cardinality(roots[c]) + 1
      BY <3>1, FS_AddElement
    <3>4. roots'[c] = roots[c] \cup {f}
      BY <1>1, <1>2 DEF IInv, RowsTyped
    <3>5. IsFiniteSet(roots'[c]) /\ Cardinality(roots'[c]) > 1
      BY <3>1, <3>2, <3>3, <3>4
    <3>6. owner[c] \in Users /\ (c \notin overlapped => located[c] = asked[c])
      BY <1>2 DEF IInv, CompanyOK
    <3>7. f \in roots'[c] /\ Cardinality(roots'[c]) > 0
      BY <3>1, <3>2, <3>3, <3>4
    <3> QED
      BY <1>2, <1>3, <1>4, <1>5, <1>6, <2>1, <3>5, <3>6, <3>7 DEF CompanyOK
  <2>2. CASE d # c
    <3>1. roots'[d] = roots[d]
      BY <1>1, <2>2 DEF IInv, RowsTyped
    <3> QED
      BY <3>1, <2>2, <1>4, <1>5, <1>6 DEF IInv, CompanyOK
  <2> QED
    BY <2>1, <2>2
<1>9. PICK x \in Request : x = [req[r] EXCEPT !.at = "update"]
  BY Known, Known2 DEF Request
<1>10. x.at = "update" /\ x.c = c /\ x.step = req[r].step /\ x.said = req[r].said
  BY <1>9, Known DEF Request
<1>11. Reached(x)'
  <2>1. c \notin overlapped => ~ company[c].hasCompletedSetup
    BY <1>2, Known DEF Reached, SetUpAfterPayment, At
  <2>2. req[r].step # 2
    BY Known DEF Reached, SetUpAfterPayment, At
  <2> QED
    BY <1>2, <1>3, <1>4, <1>5, <1>6, <1>10, <2>1, <2>2 DEF Reached
<1>12. Monotone /\ OnlyWrites(c)
  BY <1>3, <1>4, <1>5, <1>6, Known DEF Monotone, OnlyWrites
<1>13. Final
  BY <1>12, FinalWhileWriting DEF SetUpAfterPayment, At
<1>14. req' = [req EXCEPT ![r] = x]
  BY <1>9, Known DEF SetUpAfterPayment, Goto
<1> QED
  BY <1>4, <1>7, <1>8, <1>10, <1>11, <1>12, <1>13, <1>14, Step

\* What updateById leaves alone.
LEMMA UpdatedKeeps ==
    ASSUME NEW row \in Company, NEW structure \in Structures \cup {None},
           NEW stage \in Stages \cup {None}
    PROVE  /\ Updated(row, structure, stage) \in Company
           /\ Updated(row, structure, stage).hasPaidTheFee = row.hasPaidTheFee
           /\ Updated(row, structure, stage).hasCompletedSetup = row.hasCompletedSetup
           /\ Updated(row, structure, stage).rootFolderId = row.rootFolderId
<1> DEFINE known  == IF structure \in CompanyStructureEnum THEN structure ELSE None
           other  == IF structure \in CompanyStructureEnum THEN None
                     ELSE IF structure = None THEN row.otherStructure ELSE structure
           common == IF stage \in CurrentStage THEN stage ELSE None
<1>1. /\ known \in Structures \cup {None}
      /\ other \in Structures \cup {None}
      /\ common \in Stages \cup {None}
  BY DEF Company, Structures, Stages
<1>2. Updated(row, structure, stage) =
        [row EXCEPT !.structure = known, !.otherStructure = other,
                    !.currentStage = common, !.otherStage = None]
  BY DEF Updated
<1> HIDE DEF known, other, common
<1> QED
  BY <1>1, <1>2 DEF Company

\* Either update: a row whose folders and payment stay, and whose setup may be
\* completed if it has been paid.
LEMMA UpdateStep ==
    ASSUME IInv, NEW r \in Requests, req[r].at = "update", NEW row \in Company,
           row.hasPaidTheFee = company[req[r].c].hasPaidTheFee,
           row.rootFolderId = company[req[r].c].rootFolderId,
           company[req[r].c].hasCompletedSetup => row.hasCompletedSetup,
           row.hasCompletedSetup => row.hasPaidTheFee,
           company' = [company EXCEPT ![req[r].c] = row],
           UNCHANGED <<owner, roots, located, registered, asked, overlapped>>,
           given' \in [Companies -> Structures \cup {None}]
    PROVE  /\ RowsTyped' /\ \A d \in Companies : CompanyOK(d)'
           /\ Monotone /\ OnlyWrites(req[r].c) /\ Final
           /\ Stored' = Stored /\ company'[req[r].c] = row
           /\ req[r].c \in Stored /\ req[r].c # None
<1> DEFINE c == req[r].c
<1>1. c \in Stored /\ c \in Companies /\ c # None
  BY Known DEF Reached
<1>2. row # None
  BY NoneIsNoRow
<1>3. company'[c] = row /\ \A d \in Companies \ {c} : company'[d] = company[d]
  BY <1>1 DEF IInv, RowsTyped
<1>4. Stored' = Stored
  BY <1>1, <1>2, <1>3 DEF Stored
<1>5. RowsTyped'
  BY DEF IInv, RowsTyped
<1>6. ASSUME NEW d \in Companies PROVE CompanyOK(d)'
  BY <1>1, <1>3, <1>4 DEF IInv, CompanyOK
<1>7. Monotone /\ OnlyWrites(c)
  BY <1>1, <1>3, <1>4, Known DEF Monotone, OnlyWrites
<1>8. Final
  BY <1>7, FinalWhileWriting
<1> QED
  BY <1>1, <1>3, <1>4, <1>5, <1>6, <1>7, <1>8

LEMMA UpdateStep2KeepsIInv ==
    ASSUME IInv, NEW r \in Requests, UpdateStep2(r)
    PROVE  IInv' /\ Final
<1> DEFINE c == req[r].c
<1>1. PICK row : row = Updated(company[c], req[r].said, None)
  OBVIOUS
<1>2. c \in Stored /\ c \in Companies /\ company[c] \in Company /\ req[r].said \in Structures
  BY Known DEF UpdateStep2, At, Reached
<1>3. row \in Company /\ row.hasPaidTheFee = company[c].hasPaidTheFee
      /\ row.rootFolderId = company[c].rootFolderId
      /\ row.hasCompletedSetup = company[c].hasCompletedSetup
  BY <1>1, <1>2, UpdatedKeeps
<1>4. /\ company' = [company EXCEPT ![c] = row]
      /\ given' \in [Companies -> Structures \cup {None}]
  BY <1>1, <1>2 DEF UpdateStep2, IInv, RowsTyped
<1>5. row.hasCompletedSetup => row.hasPaidTheFee
  BY <1>2, <1>3 DEF IInv, CompanyOK
<1>6. /\ RowsTyped' /\ \A d \in Companies : CompanyOK(d)'
      /\ Monotone /\ OnlyWrites(req[r].c) /\ Final
      /\ Stored' = Stored /\ company'[req[r].c] = row /\ req[r].c # None
  BY <1>3, <1>4, <1>5, UpdateStep DEF UpdateStep2, At
<1>7. PICK x \in Request : x = [req[r] EXCEPT !.at = "list", !.table = "w2_states"]
  <2>1. "w2_states" \in Tables
    BY DEF Tables
  <2> QED
    BY <2>1, Known, Known2 DEF Request
<1>8. x.at = "list" /\ x.table \in Tables /\ x.c = c
  BY <1>7, Known DEF Request, Tables
<1>9. Reached(x)'
  <2>1. c \notin overlapped => ~ company[c].hasCompletedSetup
    BY <1>6, Known DEF Reached, UpdateStep2, At
  <2> QED
    BY <1>2, <1>3, <1>6, <1>8, <2>1 DEF Reached, UpdateStep2
<1>10. req' = [req EXCEPT ![r] = x] /\ UNCHANGED <<overlapped, registered>>
  BY <1>7, Known DEF UpdateStep2
<1> QED
  BY <1>6, <1>8, <1>9, <1>10, Step

LEMMA UpdateStep3KeepsIInv ==
    ASSUME IInv, NEW r \in Requests, UpdateStep3(r)
    PROVE  IInv' /\ Final
<1> DEFINE c == req[r].c
<1>1. PICK row : row = [Updated(company[c], None, req[r].said) EXCEPT !.hasCompletedSetup = TRUE]
  OBVIOUS
<1>2. c \in Stored /\ c \in Companies /\ company[c] \in Company /\ company[c].hasPaidTheFee
  BY Known DEF UpdateStep3, At, Reached
<1>3. row \in Company /\ row.hasPaidTheFee = company[c].hasPaidTheFee
      /\ row.rootFolderId = company[c].rootFolderId
      /\ row.hasCompletedSetup
  <2>1. PICK said : said = IF req[r].said \in CurrentStage THEN req[r].said ELSE None
    OBVIOUS
  <2>2. said \in Stages \cup {None}
    BY <2>1 DEF Stages
  <2>3. Updated(company[c], None, req[r].said) = Updated(company[c], None, said)
    BY <2>1 DEF Updated
  <2>4. None \in Structures \cup {None}
    OBVIOUS
  <2>5. PICK was \in Company : was = company[c]
    BY <1>2
  <2>6. /\ Updated(was, None, said) \in Company
        /\ Updated(was, None, said).hasPaidTheFee = was.hasPaidTheFee
        /\ Updated(was, None, said).rootFolderId = was.rootFolderId
    BY <2>2, <2>4, UpdatedKeeps
  <2>7. PICK base \in Company : base = Updated(was, None, said)
    BY <2>6
  <2>8. row = [base EXCEPT !.hasCompletedSetup = TRUE]
    BY <1>1, <2>3, <2>5, <2>7
  <2> QED
    BY <2>5, <2>6, <2>7, <2>8 DEF Company
<1>4. company' = [company EXCEPT ![c] = row] /\ given' \in [Companies -> Structures \cup {None}]
  BY <1>1, <1>2 DEF UpdateStep3, IInv, RowsTyped
<1>5. /\ RowsTyped' /\ \A d \in Companies : CompanyOK(d)'
      /\ Monotone /\ OnlyWrites(req[r].c) /\ Final
      /\ Stored' = Stored /\ company'[req[r].c] = row /\ req[r].c # None
  BY <1>2, <1>3, <1>4, UpdateStep DEF UpdateStep3, At
<1>6. PICK x \in Request : x = [req[r] EXCEPT !.at = "find_owner"]
  BY Known, Known2 DEF Request
<1>7. x.at = "find_owner" /\ x.c = c
  BY <1>6, Known DEF Request
<1>8. Reached(x)'
  BY <1>2, <1>3, <1>5, <1>7 DEF Reached
<1>9. req' = [req EXCEPT ![r] = x] /\ UNCHANGED <<overlapped, registered>>
  BY <1>6, Known DEF UpdateStep3, Goto
<1> QED
  BY <1>5, <1>7, <1>8, <1>9, Step

\* The synchronisation leaves what was listed, if the table was as read.
LEMMA SyncedIsAsked ==
    ASSUME NEW q, q.places \in Asks
    PROVE  Synced(q.listed, q) = q.places
BY DEF Synced, Missing, Surplus

LEMMA SyncPlacesKeepsIInv ==
    ASSUME IInv, NEW r \in Requests, SyncPlaces(r)
    PROVE  IInv' /\ Final
<1> DEFINE c == req[r].c
           t == req[r].table
<1>1. /\ c \in Stored /\ c \in Companies /\ c # None /\ t \in Tables
      /\ req[r].places \in Asks /\ req[r].at = "sync"
  BY Known DEF SyncPlaces, At, Reached
<1>2. PICK new : new = Synced(located[c][t], req[r])
  OBVIOUS
<1>3. new \in SUBSET Places
  BY <1>1, <1>2, Known, AsksType DEF Synced, Missing, Surplus, Request, IInv, RowsTyped
<1>4. /\ located' = [located EXCEPT ![c][t] = new]
      /\ asked' = [asked EXCEPT ![c][t] = req[r].places]
      /\ UNCHANGED <<company, owner, roots, registered, given, overlapped>>
  BY <1>2 DEF SyncPlaces
<1>5. RowsTyped'
  <2>1. located' \in [Companies -> [Tables -> SUBSET Places]]
    BY <1>1, <1>3, <1>4 DEF IInv, RowsTyped
  <2>2. req[r].places \in SUBSET Places
    BY <1>1, AsksType
  <2>3. asked' \in [Companies -> [Tables -> SUBSET Places]]
    BY <1>1, <1>4, <2>2 DEF IInv, RowsTyped
  <2> QED
    BY <1>4, <2>1, <2>3 DEF IInv, RowsTyped
<1>6. \A d \in Companies \ {c} : located'[d] = located[d] /\ asked'[d] = asked[d]
  BY <1>4 DEF IInv, RowsTyped
<1>7. Stored' = Stored
  BY <1>4 DEF Stored
<1>8. c \notin overlapped => located'[c] = asked'[c]
  <2> SUFFICES ASSUME c \notin overlapped PROVE located'[c] = asked'[c]
    OBVIOUS
  <2>1. req[r].listed = located[c][t] /\ located[c] = asked[c]
    BY <1>1, Known DEF Reached, IInv, CompanyOK
  <2>2. new = req[r].places
    BY <1>1, <1>2, <2>1, SyncedIsAsked
  <2> QED
    BY <1>1, <1>4, <2>1, <2>2 DEF IInv, RowsTyped
<1>9. ASSUME NEW d \in Companies PROVE CompanyOK(d)'
  BY <1>1, <1>4, <1>6, <1>7, <1>8 DEF IInv, CompanyOK
<1>10. Monotone /\ OnlyWrites(c)
  BY <1>4, <1>6, <1>7, Known DEF Monotone, OnlyWrites
<1>11. Final
  BY <1>1, <1>10, FinalWhileWriting
<1>12. PICK y \in Request : y = [req[r] EXCEPT !.listed = {}]
  BY Known DEF Request
<1>13. /\ y.at = "sync" /\ y.c = c /\ y.table = t /\ y.step = req[r].step
       /\ y.said = req[r].said /\ y.places = req[r].places
  BY <1>1, <1>12, Known DEF Request
<1>14. PICK x \in Request : x = [y EXCEPT !.at = "list"]
  BY Known2 DEF Request
<1>15. Reached(x)
  <2>1. x.at = "list" /\ x.c = c /\ x.table = t
    BY <1>13, <1>14 DEF Request
  <2> QED
    BY <1>1, <2>1, Known DEF Reached
<1>16. AfterTable(y) = AfterTable(x)
  BY <1>14 DEF AfterTable, Request
<1>17. PICK z \in Request : z = AfterTable(x) /\ Reached(z) /\ (z.c # None => z.c = c)
  BY <1>1, <1>13, <1>14, <1>15, AfterTableReached DEF Request
<1>18. z.at # "sync"
  BY <1>17, <1>14, <1>1, <1>13 DEF AfterTable, Tables, Request, NoRequest
<1>19. Reached(z)'
  BY <1>4, <1>7, <1>17, <1>18 DEF Reached
<1>20. req' = [req EXCEPT ![r] = z] /\ overlapped' = overlapped
  BY <1>12, <1>16, <1>17 DEF SyncPlaces
<1> QED
  BY <1>4, <1>5, <1>9, <1>10, <1>11, <1>17, <1>19, <1>20, Step

\* The column is the user's, and the company whose step 3 it is has completed.
LEMMA RegisterKeepsIInv ==
    ASSUME IInv, NEW r \in Requests, Register(r)
    PROVE  IInv' /\ Final
<1> DEFINE c == req[r].c
           u == req[r].u
<1>1. c \in Stored /\ company[c].hasCompletedSetup /\ u = owner[c] /\ u \in Users
  BY Known DEF Register, At, Reached, IInv, CompanyOK
<1>2. /\ registered' = [registered EXCEPT ![u] = TRUE] /\ Reply(r)
      /\ UNCHANGED <<company, owner, roots, located, given, asked, overlapped>>
  BY DEF Register
<1>3. RowsTyped'
  BY <1>2 DEF IInv, RowsTyped
<1>4. Stored' = Stored
  BY <1>2 DEF Stored
<1>5. ASSUME NEW d \in Companies PROVE CompanyOK(d)'
  BY <1>2, <1>4 DEF IInv, CompanyOK
<1>6. Monotone /\ OnlyWrites(c) /\ Final
  BY <1>2, <1>4 DEF Monotone, OnlyWrites, Final
<1>7. \A v \in Users : registered'[v] => registered[v] \/ SetUpFor(v)
  BY <1>1, <1>2 DEF IInv, RowsTyped, SetUpFor
<1> QED
  BY <1>2, <1>3, <1>5, <1>6, <1>7, Nothing, Step DEF Reply

-----------------------------------------------------------------------------
LEMMA NextKeepsIInv ==
    ASSUME IInv, [Next]_vars
    PROVE  IInv' /\ Final
<1>1. CASE UNCHANGED vars
  BY <1>1 DEF vars, rows, IInv, RowsTyped, CompanyOK, SetUpFor, Reached, Sole, Final, Stored
<1>2. ASSUME NEW r \in Requests, Arrive(r) PROVE IInv' /\ Final
  BY <1>2, ArriveKeepsIInv
<1>3. ASSUME NEW r \in Requests, Answer(r) PROVE IInv' /\ Final
  <2>1. CASE NameUser(r) \/ CallFails(r)
    BY <2>1, ReplyQuietly DEF NameUser, CallFails
  <2> QED
    BY <1>3, <2>1, CreateCompanyKeepsIInv, GetCompanyKeepsIInv, SetUpKeepsIInv,
       UpdateStep2KeepsIInv, UpdateStep3KeepsIInv, ListPlacesKeepsIInv,
       SyncPlacesKeepsIInv, FindOwnerKeepsIInv, RegisterKeepsIInv DEF Answer
<1> QED
  BY <1>1, <1>2, <1>3 DEF Next

LEMMA InitIInv == Init => IInv
<1> SUFFICES ASSUME Init PROVE IInv
  OBVIOUS
<1>1. Stored = {}
  BY DEF Init, Stored
<1>2. RowsTyped
  BY DEF Init, RowsTyped
<1>3. ASSUME NEW c \in Companies PROVE CompanyOK(c)
  BY <1>1, FS_EmptySet DEF Init, CompanyOK
<1>4. req \in [Requests -> Request] /\ \A r \in Requests : req[r] = NoRequest
  BY Nothing DEF Init
<1>5. Sole
  BY <1>4, Nothing, NoneIsNoId DEF Sole
<1>6. \A u \in Users : ~ registered[u]
  BY DEF Init
<1> QED
  BY <1>2, <1>3, <1>4, <1>5, <1>6, Nothing DEF IInv

LEMMA Inductive == Spec => []IInv
<1>1. IInv /\ [Next]_vars => IInv'
  BY NextKeepsIInv
<1> QED
  BY <1>1, InitIInv, PTL DEF Spec

-----------------------------------------------------------------------------
\* Every row and every request of registration.service.ts has its type; a
\* request in flight has its company, and a company its root folder.
THEOREM TypeCorrect == Spec => []TypeOK
BY Inductive, IInvIsTyped, PTL

\* The setup of a company is completed only after its payment was recorded with
\* a root folder of its own, and a user is registered only after a company they
\* own has completed its setup, whatever becomes of their other companies.
THEOREM SetupIsInOrder == Spec => []SetupInOrder
<1>1. IInv => SetupInOrder
  BY DEF IInv, SetupInOrder, CompanyOK, SetUpFor, Stored
<1> QED
  BY <1>1, Inductive, PTL

\* Unless requests overlapped, a location table holds what was last listed.
THEOREM LocationsAreAsAsked == Spec => []LocationsAsAsked
<1>1. IInv => LocationsAsAsked
  BY DEF IInv, LocationsAsAsked, CompanyOK, Stored
<1> QED
  BY <1>1, Inductive, PTL

\* A completed setup stays completed, and unless requests overlapped neither
\* the company's row nor its locations change after it.
THEOREM SetupStaysFinal == Spec => SetupIsFinal
<1>1. IInv /\ [Next]_vars => Final
  BY NextKeepsIInv
<1>2. Final =>
        \A c \in Stored :
          company[c].hasCompletedSetup =>
            /\ company'[c].hasCompletedSetup
            /\ c \notin overlapped =>
                 /\ company'[c] = company[c]
                 /\ located'[c] = located[c]
  BY DEF Final
<1> QED
  BY <1>1, <1>2, Inductive, PTL DEF Spec, SetupIsFinal
=============================================================================
