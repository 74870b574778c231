----------------------------- MODULE ChatAccess -----------------------------
(****************************************************************************)
(* What opens the chatbot to a company, written by four parts of the code   *)
(* that know nothing of each other:                                         *)
(*                                                                          *)
(*   changeCompaniesTypes       find_without -> pay -> (find_chat ->        *)
(*   (companies.service.ts)     create_chat)* -> add_services               *)
(*   createThread               find_chat -> create_chat -> create_thread   *)
(*   (chatbot.service.ts)                                                   *)
(*   activateDeactivateService  one upsert of a service                     *)
(*   requestLawyer              one upsert of the ChatCompany (the rest of  *)
(*                              it is in ChatLawyer)                        *)
(*                                                                          *)
(* No transaction spans two calls.  What keeps a second row from being made *)
(* after a stale look are the unique keys of ChatCompany and                *)
(* CompanyServices: the late create rejects, and the request with it.       *)
(****************************************************************************)
EXTENDS FiniteSets

CONSTANTS
    Companies,
    Services,  \* those in use of CompanyServicesEnum
    Threads,   \* bound: the thread ids there are
    Requests,  \* request slots: how many requests are in flight at once
    None

CompanyServicesEnum == {"DISSOLUTION", "AI_CHATBOT"}

VARIABLES
    paid,        \* the companies with hasPaidTheFee
    service,     \* service[c][s]: who made the CompanyServices row, or None
    chatCompany, \* chatCompany[c]: lawyerReqStatus of the ChatCompany, or None
    thread,      \* thread[t]: the company of the thread's ChatCompany, or None
    req,         \* req[r]: the request in slot r
    promised     \* history: the <<c, s>> of change requests that succeeded

rows == <<paid, service, chatCompany, thread>>
vars == <<rows, req, promised>>

\* The flag "enabled" of a service is left out: nothing here reads it.
Makers == {"change", "switch"}

ChatbotLawyerReqStatusEnum == {"none", "done"}   \* those the code ever stores

LawyerReqStatus == ChatbotLawyerReqStatusEnum \cup {"PENDING"}

\* Those of the enum that chatbotHasRequest takes for a request.
Requested == {"requested", "in_process", "done"}

\* What the module assumes of its constants: null is none of what it stands for.
ConstantsOK ==
    /\ Services \subseteq CompanyServicesEnum
    /\ None \notin Companies \cup Services \cup Makers \cup LawyerReqStatus \cup Requested

Labels == {"idle", "find_without", "pay", "find_chat", "create_chat",
           "add_services", "create_thread"}

Request == [at   : Labels,
            op   : {"none", "change", "thread"},
            s    : Services \cup {None},
            ids  : SUBSET Companies,        \* companyIds of the payload
            todo : SUBSET Companies,        \* those found without the service
            left : SUBSET Companies,        \* those the loop has yet to visit
            c    : Companies \cup {None}]   \* the company it looks at

NoRequest == [at |-> "idle", op |-> "none", s |-> None, ids |-> {},
              todo |-> {}, left |-> {}, c |-> None]

Init ==
    /\ paid = {}
    /\ service = [c \in Companies |-> [s \in Services |-> None]]
    /\ chatCompany = [c \in Companies |-> None]
    /\ thread = [t \in Threads |-> None]
    /\ req = [r \in Requests |-> NoRequest]
    /\ promised = {}

-----------------------------------------------------------------------------
(* Requests arrive.                                                         *)

At(r, label) == req[r].at = label

Put(r, q) == req' = [req EXCEPT ![r] = q]

Reply(r) == Put(r, NoRequest)

Accept(r, q) == At(r, "idle") /\ Put(r, q) /\ UNCHANGED <<rows, promised>>

\* All ids name companies, or the request ends before its first write.
ArriveChange(r, s, ids) ==
    Accept(r, [NoRequest EXCEPT !.at = "find_without", !.op = "change", !.s = s,
                                !.ids = ids])

\* By a user of company c; the membership never changes.
ArriveThread(r, c) ==
    Accept(r, [NoRequest EXCEPT !.at = "find_chat", !.op = "thread", !.c = c])

-----------------------------------------------------------------------------
(* One awaited call each.                                                   *)

\* (Mutant of Without: a company that has paid is taken for one that has it.)
WithoutFee(s, ids) == ids \ paid

Without(s, ids) == {c \in ids : service[c][s] = None}

FindWithout(r) ==
    /\ At(r, "find_without")
    /\ Put(r, [req[r] EXCEPT !.at = "pay", !.todo = Without(req[r].s, req[r].ids)])
    /\ UNCHANGED <<rows, promised>>

\* Where the loop over the companies goes next, in the order they were read.
Onward(q) ==
    IF q.s = "AI_CHATBOT" /\ q.left # {}
      THEN {[q EXCEPT !.at = "find_chat", !.c = c, !.left = @ \ {c}] : c \in q.left}
      ELSE {[q EXCEPT !.at = "add_services", !.c = None]}

\* updateMany: hasPaidTheFee of all of them at once.
Pay(r) ==
    /\ At(r, "pay")
    /\ paid' = paid \cup req[r].todo
    /\ \E q \in Onward([req[r] EXCEPT !.left = req[r].todo]) : Put(r, q)
    /\ UNCHANGED <<service, chatCompany, thread, promised>>

\* The company has its ChatCompany: on to what the request wants it for.
WithChat(q) ==
    IF q.op = "thread" THEN {[q EXCEPT !.at = "create_thread"]} ELSE Onward(q)

\* (Mutant of FindChat: what it found is not looked at.)
FindChatBlind(r) ==
    /\ At(r, "find_chat")
    /\ \E q \in WithChat(req[r]) : Put(r, q)
    /\ UNCHANGED <<rows, promised>>

FindChat(r) ==
    /\ At(r, "find_chat")
    /\ IF chatCompany[req[r].c] = None
         THEN Put(r, [req[r] EXCEPT !.at = "create_chat"])
         ELSE \E q \in WithChat(req[r]) : Put(r, q)
    /\ UNCHANGED <<rows, promised>>

\* 'PENDING' is no status of the enum.
FirstStatus(q) == IF q.op = "thread" THEN "PENDING" ELSE "none"

\* (Mutant of CreateChat: an upsert in place of the create.)
UpsertChat(r) ==
    /\ At(r, "create_chat")
    /\ chatCompany' = [chatCompany EXCEPT ![req[r].c] = FirstStatus(req[r])]
    /\ \E q \in WithChat(req[r]) : Put(r, q)
    /\ UNCHANGED <<paid, service, thread, promised>>

\* The unique companyId: it rejects if a row was made since find_chat.
CreateChat(r) ==
    /\ At(r, "create_chat")
    /\ \/ /\ chatCompany[req[r].c] = None
          /\ chatCompany' = [chatCompany EXCEPT ![req[r].c] = FirstStatus(req[r])]
          /\ \E q \in WithChat(req[r]) : Put(r, q)
       \/ chatCompany[req[r].c] # None /\ Reply(r) /\ UNCHANGED chatCompany
    /\ UNCHANGED <<paid, service, thread, promised>>

CreateThread(r) ==
    /\ At(r, "create_thread")
    /\ \E t \in Threads :
         /\ thread[t] = None
         /\ thread' = [thread EXCEPT ![t] = req[r].c]
    /\ Reply(r)
    /\ UNCHANGED <<paid, service, chatCompany, promised>>

\* createMany: all rows, or none if one of them exists by now.
AddServices(r) ==
    /\ At(r, "add_services")
    /\ LET q == req[r]
           fresh == q.todo = Without(q.s, q.todo) IN
         /\ service' = [c \in Companies |->
                          IF fresh /\ c \in q.todo
                            THEN [service[c] EXCEPT ![q.s] = "change"] ELSE service[c]]
         /\ promised' = IF fresh THEN promised \cup (q.ids \X {q.s}) ELSE promised
    /\ Reply(r)
    /\ UNCHANGED <<paid, chatCompany, thread>>

\* activateDeactivateService: the row stays who made it; only the flag changes.
SetEnabled(c, s) ==
    /\ service[c][s] = None
    /\ service' = [service EXCEPT ![c][s] = "switch"]
    /\ UNCHANGED <<paid, chatCompany, thread, req, promised>>

\* requestLawyer's upsert, in a thread of the company.
RequestLawyer(t) ==
    /\ thread[t] # None
    /\ chatCompany' = [chatCompany EXCEPT ![thread[t]] = "done"]
    /\ UNCHANGED <<paid, service, thread, req, promised>>

\* The awaited call rejects; what was written stays.
CallFails(r) == ~ At(r, "idle") /\ Reply(r) /\ UNCHANGED <<rows, promised>>

-----------------------------------------------------------------------------
Arrive(r) ==
    \/ \E s \in Services, ids \in SUBSET Companies \ {{}} : ArriveChange(r, s, ids)
    \/ \E c \in Companies : ArriveThread(r, c)

Answer(r) ==
    \/ FindWithout(r) \/ Pay(r) \/ FindChat(r) \/ CreateChat(r)
    \/ CreateThread(r) \/ AddServices(r) \/ CallFails(r)

Next ==
    \/ \E r \in Requests : Arrive(r) \/ Answer(r)
    \/ \E c \in Companies, s \in Services : SetEnabled(c, s)
    \/ \E t \in Threads : RequestLawyer(t)

Spec == Init /\ [][Next]_vars

-----------------------------------------------------------------------------
(* Properties                                                               *)

TypeOK ==
    /\ paid \subseteq Companies
    /\ service \in [Companies -> [Services -> Makers \cup {None}]]
    /\ chatCompany \in [Companies -> LawyerReqStatus \cup {None}]
    /\ thread \in [Threads -> Companies \cup {None}]
    /\ req \in [Requests -> Request]
    /\ promised \subseteq Companies \X Services
    /\ \A t \in Threads : thread[t] # None => chatCompany[thread[t]] # None

\* What the list of companies shows: the services of a company, and whether it
\* has asked for a lawyer (chatbotHasRequest).
ServicesOf(c) == {s \in Services : service[c][s] # None}

HasRequest(c) == chatCompany[c] \in Requested

\* The companies of a tab: all of them, or by hasReqChatbotLawyer.
List(tab, hasReq) ==
    {c \in Companies :
       /\ CASE tab = "PROSPECT"    -> ServicesOf(c) = {}
            [] tab = "DISSOLUTION" -> "DISSOLUTION" \in ServicesOf(c)
            [] tab = "CHATBOT"     -> "AI_CHATBOT" \in ServicesOf(c)
       /\ CASE hasReq = "all" -> TRUE
            [] hasReq = "yes" -> HasRequest(c)
            [] hasReq = "no"  -> chatCompany[c] = "none"}

TabOf(s) == IF s = "AI_CHATBOT" THEN "CHATBOT" ELSE s

\* A change of type that answers 'successfully' has moved every company named
\* from the prospects to the tab of the service, and a service it gave is backed
\* by the fee and, if it is the chatbot, by a ChatCompany: whatever an earlier
\* attempt left half-done, and whatever others create meanwhile
\* (changeCompaniesTypes, 274-337; additionalsFilters).
ServiceIsBacked ==
    /\ \A p \in promised : p[1] \in List(TabOf(p[2]), "all") \ List("PROSPECT", "all")
    /\ \A c \in Companies, s \in Services :
         service[c][s] = "change" =>
             c \in paid /\ (s = "AI_CHATBOT" => chatCompany[c] # None)

\* A company that has asked for a lawyer is never shown as one that has not, nor
\* leaves the chatbot's list of those: createThread and changeCompaniesTypes,
\* which look for the row one await before they create it, never write over its
\* status.
RequestIsKept ==
    [][\A c \in Companies :
         /\ HasRequest(c) => HasRequest(c)'
         /\ c \in List("CHATBOT", "yes") => (c \in List("CHATBOT", "yes"))']_vars
=============================================================================
