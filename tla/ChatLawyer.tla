----------------------------- MODULE ChatLawyer -----------------------------
(****************************************************************************)
(* chat-lawyer.service.ts: how a chat thread is handed from the chatbot to  *)
(* a lawyer.  Three handlers write the ChatLawyer rows of a thread, each in *)
(* a sequence of awaited calls with no transaction around them:             *)
(*                                                                          *)
(*   requestLawyer     count -> finalize -> assign -> company -> notify     *)
(*                     -> mark -> client_link -> task                       *)
(*   sendMessage       read_chat -> find_link -> join -> join_mark -> post  *)
(*                     (admin), find_active -> post (other staff)           *)
(*   sendAdminMessage  read_chat -> admin_mark -> find_link -> join -> post *)
(*                                                                          *)
(* Any call can reject.  requestLawyer and sendAdminMessage then answer     *)
(* with an error and undo nothing; sendMessage swallows the error and posts.*)
(* The owner's own messages touch none of this state and are left out, as   *)
(* are the SSE events and e-mails, which never throw.                       *)
(****************************************************************************)
EXTENDS Naturals, FiniteSetsExt

CONSTANTS
    Threads,   \* chat threads
    Staff,     \* staff users
    Lawyers,   \* those with isLawyer, whom requestLawyer may choose
    Admins,    \* those with isAdmin, who may write in any thread
    Requests,  \* request slots: how many requests are in flight at once
    None

ASSUME StaffRoles == Lawyers \subseteq Staff /\ Admins \subseteq Staff
ASSUME NoneIsNobody == None \notin Staff \cup Threads

VARIABLES
    active,    \* active[t][s]: ChatLawyer rows of (t, s) with status ACTIVE
    linked,    \* the pairs (t, s) with a ChatLawyer row of any status
    chatType,  \* chatType[t]: ChatThread.chatType
    lawyerReq, \* lawyerReq[t]: ChatCompany.lawyerReqStatus of the owner's company
    filed,     \* notification, LawyerUsers and Task rows: <<t, s, kind>>
    req,       \* req[r]: the request in slot r
    rejected,  \* history: the threads on which a call has rejected
    overlapped \* history: the threads on which two requests were in flight

rows == <<active, linked, chatType, lawyerReq, filed>>
vars == <<rows, req, rejected, overlapped>>

Labels == {"idle", "count", "finalize", "assign", "company", "notify", "mark",
           "client_link", "task", "read_chat", "admin_mark", "find_link",
           "find_active", "join", "join_mark", "post"}

Request == [at     : Labels,
            op     : {"none", "request", "message", "admin_message"},
            thread : Threads \cup {None},
            who    : Staff \cup {None},   \* the sender, or the lawyer chosen
            marked : BOOLEAN]             \* the chat read said CHAT_LAWYER

NoRequest == [at |-> "idle", op |-> "none", thread |-> None, who |-> None,
              marked |-> FALSE]

Init ==
    /\ active = [t \in Threads |-> [s \in Staff |-> 0]]
    /\ linked = {}
    /\ chatType = [t \in Threads |-> "CHATBOT"]
    /\ lawyerReq = [t \in Threads |-> "none"]
    /\ filed = {}
    /\ req = [r \in Requests |-> NoRequest]
    /\ rejected = {}
    /\ overlapped = {}

-----------------------------------------------------------------------------
(* Requests arrive.                                                         *)

InFlight(t) == \E r \in Requests : req[r].thread = t

Accept(r, op, at, t, s) ==
    /\ req[r].at = "idle"
    /\ req' = [req EXCEPT ![r] = [at |-> at, op |-> op, thread |-> t, who |-> s,
                                  marked |-> FALSE]]
    /\ overlapped' = overlapped \cup {u \in {t} : InFlight(u)}
    /\ UNCHANGED <<rows, rejected>>

ArriveRequest(r, t) == Accept(r, "request", "count", t, None)

\* Staff without isAdmin must have an ACTIVE row; admins are let through.
ArriveMessage(r, t, s) ==
    Accept(r, "message", IF s \in Admins THEN "read_chat" ELSE "find_active", t, s)

ArriveAdminMessage(r, t, s) == Accept(r, "admin_message", "read_chat", t, s)

-----------------------------------------------------------------------------
(* One awaited call each; q is the request, At(r, l) says where it is.      *)

At(r, label) == req[r].at = label

Goto(r, label) == req' = [req EXCEPT ![r].at = label]

Reply(r) == req' = [req EXCEPT ![r] = NoRequest]

Calm == UNCHANGED <<rejected, overlapped>>

\* A lawyer's load: the ACTIVE rows it holds in all threads.
Load(s) == MapThenSumSet(LAMBDA t : active[t][s], Threads)

(****************************************************************************)
(* requestLawyer                                                            *)
(****************************************************************************)

\* The lawyer with the fewest ACTIVE rows is chosen from this one read.
CountLawyers(r) ==
    /\ At(r, "count")
    /\ \/ \E s \in Lawyers :
            /\ \A other \in Lawyers : Load(s) <= Load(other)
            /\ req' = [req EXCEPT ![r].who = s, ![r].at = "finalize"]
       \/ Lawyers = {} /\ Reply(r)     \* 'No lawyers available in the system'
    /\ UNCHANGED rows /\ Calm

\* (Mutant of Finalize: the rows in place are left ACTIVE.)
FinalizeNothing(r) == At(r, "finalize") /\ Goto(r, "assign") /\ UNCHANGED rows /\ Calm

\* updateMany: every ACTIVE row of the thread becomes FINALIZED.
Finalize(r) ==
    /\ At(r, "finalize")
    /\ active' = [active EXCEPT ![req[r].thread] = [s \in Staff |-> 0]]
    /\ Goto(r, "assign")
    /\ UNCHANGED <<linked, chatType, lawyerReq, filed>> /\ Calm

\* A new ACTIVE row for q.who.
CreateRow(q) ==
    /\ active' = [active EXCEPT ![q.thread][q.who] = @ + 1]
    /\ linked' = linked \cup {<<q.thread, q.who>>}
    /\ UNCHANGED <<chatType, lawyerReq, filed>>

\* (Mutant of Assign: the row is created without a status.)
AssignUnset(r) ==
    /\ At(r, "assign")
    /\ linked' = linked \cup {<<req[r].thread, req[r].who>>}
    /\ Goto(r, "company")
    /\ UNCHANGED <<active, chatType, lawyerReq, filed>> /\ Calm

Assign(r) == At(r, "assign") /\ CreateRow(req[r]) /\ Goto(r, "company") /\ Calm

CompanyStatus(r) ==
    /\ At(r, "company")
    /\ lawyerReq' = [lawyerReq EXCEPT ![req[r].thread] = "done"]
    /\ Goto(r, "notify")
    /\ UNCHANGED <<active, linked, chatType, filed>> /\ Calm

File(r, kind) ==
    /\ filed' = filed \cup {<<req[r].thread, req[r].who, kind>>}
    /\ UNCHANGED <<active, linked, chatType, lawyerReq>>

\* The notification, then two e-mails: EmailService never throws.
Notify(r) == At(r, "notify") /\ File(r, "notification") /\ Goto(r, "mark") /\ Calm

\* (Mutant of MarkThread: chatType is a String column, so the database takes
\* a word that is not a ChatTypeEnum, as createThread's 'PENDING' at
\* chatbot.service.ts:792 is not a ChatbotLawyerReqStatusEnum.)
MarkPending(r) ==
    /\ chatType' = [chatType EXCEPT ![req[r].thread] = "PENDING"]
    /\ UNCHANGED <<active, linked, lawyerReq, filed>>

MarkThread(r) ==
    /\ chatType' = [chatType EXCEPT ![req[r].thread] = "CHAT_LAWYER"]
    /\ UNCHANGED <<active, linked, lawyerReq, filed>>

\* (Mutant of Mark: requestLawyer never turns the thread.)
MarkNot(r) == At(r, "mark") /\ Goto(r, "client_link") /\ UNCHANGED rows /\ Calm

Mark(r) == At(r, "mark") /\ MarkThread(r) /\ Goto(r, "client_link") /\ Calm

ClientLink(r) == At(r, "client_link") /\ File(r, "client") /\ Goto(r, "task") /\ Calm

CreateTask(r) == At(r, "task") /\ File(r, "task") /\ Reply(r) /\ Calm

(****************************************************************************)
(* sendMessage and sendAdminMessage                                         *)
(****************************************************************************)

ReadChat(r) ==
    /\ At(r, "read_chat")
    /\ LET isLawyerChat == chatType[req[r].thread] = "CHAT_LAWYER" IN
         req' = [req EXCEPT
                   ![r].marked = isLawyerChat,
                   ![r].at = IF req[r].op = "admin_message" /\ ~ isLawyerChat
                               THEN "admin_mark" ELSE "find_link"]
    /\ UNCHANGED rows /\ Calm

AdminMark(r) ==
    At(r, "admin_mark") /\ MarkThread(r) /\ Goto(r, "find_link") /\ Calm

\* A row of any status counts: a FINALIZED one is not made ACTIVE again.
FindLink(r) ==
    /\ At(r, "find_link")
    /\ Goto(r, IF <<req[r].thread, req[r].who>> \in linked THEN "post" ELSE "join")
    /\ UNCHANGED rows /\ Calm

FindActive(r) ==
    /\ At(r, "find_active")
    /\ IF active[req[r].thread][req[r].who] > 0 THEN Goto(r, "post") ELSE Reply(r)
    /\ UNCHANGED rows /\ Calm

\* (Mutant of Join: sendMessage leaves the thread to the chatbot.)
JoinUnmarked(r) == At(r, "join") /\ CreateRow(req[r]) /\ Goto(r, "post") /\ Calm

\* sendMessage marks the thread after the row, if the chat read was unmarked.
Join(r) ==
    /\ At(r, "join")
    /\ CreateRow(req[r])
    /\ Goto(r, IF req[r].op = "message" /\ ~ req[r].marked THEN "join_mark" ELSE "post")
    /\ Calm

JoinMark(r) == At(r, "join_mark") /\ MarkThread(r) /\ Goto(r, "post") /\ Calm

\* The ChatLawyerMessage row; nothing here depends on it.
Post(r) == At(r, "post") /\ Reply(r) /\ UNCHANGED rows /\ Calm

\* The awaited call rejects, or finds no user, thread or company and the
\* handler throws.  Only sendMessage's own catch goes on.
CallFails(r) ==
    /\ ~ At(r, "idle")
    /\ IF req[r].op = "message" /\ req[r].at \in {"join", "join_mark"}
         THEN Goto(r, "post") ELSE Reply(r)
    /\ rejected' = rejected \cup {req[r].thread}
    /\ UNCHANGED <<rows, overlapped>>

-----------------------------------------------------------------------------
Arrive(r) ==
    \E t \in Threads :
        \/ ArriveRequest(r, t)
        \/ \E s \in Staff : ArriveMessage(r, t, s) \/ ArriveAdminMessage(r, t, s)

Answer(r) ==
    \/ CountLawyers(r) \/ Finalize(r) \/ Assign(r) \/ CompanyStatus(r)
    \/ Notify(r) \/ Mark(r) \/ ClientLink(r) \/ CreateTask(r)
    \/ ReadChat(r) \/ AdminMark(r) \/ FindLink(r) \/ FindActive(r)
    \/ Join(r) \/ JoinMark(r) \/ Post(r) \/ CallFails(r)

Next == \E r \in Requests : Arrive(r) \/ Answer(r)

Spec == Init /\ [][Next]_vars

\* Every awaited call is answered or rejects; nothing is assumed of clients.
FairSpec == Spec /\ \A r \in Requests : WF_vars(Answer(r))

-----------------------------------------------------------------------------
(* Properties                                                               *)

TypeOK ==
    /\ active \in [Threads -> [Staff -> Nat]]
    /\ linked \subseteq Threads \X Staff
    /\ chatType \in [Threads -> {"CHATBOT", "CHAT_LAWYER"}]
    /\ lawyerReq \in [Threads -> {"none", "done"}]
    /\ filed \subseteq Threads \X Staff \X {"notification", "client", "task"}
    /\ req \in [Requests -> Request]
    /\ rejected \subseteq Threads
    /\ overlapped \subseteq Threads
    /\ \A t \in Threads, s \in Staff : active[t][s] > 0 => <<t, s>> \in linked

\* A thread taken from the chatbot has an ACTIVE lawyer whenever no request on
\* it is in flight, unless a call has rejected half-way: however the writes of
\* concurrent requests interleave, the last finalize is followed by its own
\* create (chat-lawyer.service.ts 325-341).
NeverAbandoned ==
    \A t \in Threads \ rejected :
        chatType[t] = "CHAT_LAWYER" /\ ~ InFlight(t) => \E s \in Staff : active[t][s] > 0

\* While requests on a thread do not overlap, nobody holds two ACTIVE rows in
\* it and a lawyer just assigned is the only one ACTIVE, whatever calls have
\* rejected before: a retry replaces the row its failed predecessor left.
SoleAssignee ==
    \A t \in Threads \ overlapped :
        /\ \A s \in Staff : active[t][s] <= 1
        /\ \A r \in Requests :
             /\ req[r].thread = t
             /\ req[r].at \in {"company", "notify", "mark", "client_link", "task"}
             => \A s \in Staff : active[t][s] > 0 <=> s = req[r].who

\* What getAllThreadsForAdmin tells an admin, of the thread as it is now.
CanWrite(t, s) == chatType[t] = "CHAT_LAWYER" /\ active[t][s] > 0

\* Who has a row in a thread can write in it once the requests on it are over,
\* or has lost that to a later request for a lawyer: then another lawyer has
\* been notified, given the task, and can write; unless a call has rejected.
\* An admin's FINALIZED row is never made ACTIVE again (FindLink), so a loss
\* for any other reason would be for ever.
LostOnlyToHandover ==
    \A t \in Threads \ rejected, s \in Staff :
        <<t, s>> \in linked /\ ~ InFlight(t) =>
            \/ CanWrite(t, s)
            \/ \E l \in Staff \ {s} :
                 CanWrite(t, l) /\ {<<t, l, "notification">>, <<t, l, "task">>} \subseteq filed

\* A request for a lawyer ends in a lawyer chat or in an error.
RequestServed ==
    \A t \in Threads :
        (\E r \in Requests : req[r].thread = t /\ req[r].op = "request")
            ~> (chatType[t] = "CHAT_LAWYER" \/ t \in rejected)

\* Those about to answer t: a lawyer chosen and not yet assigned, an admin on the
\* way to a first row in t.
Coming(t) ==
    {s \in Staff : \E r \in Requests :
        /\ req[r].thread = t /\ req[r].who = s
        /\ \/ req[r].at \in {"assign", "join"}
           \/ req[r].at = "find_link" /\ <<t, s>> \notin linked}

Turned == {t \in Threads : chatType[t] = "CHAT_LAWYER"}

Handlers ==
    [t \in Threads |-> IF t \in Turned \ rejected
                         THEN {s \in Staff : active[t][s] > 0} \cup Coming(t) ELSE {}]

Promise == INSTANCE Handover WITH turned <- Turned, handlers <- Handlers, failed <- rejected

\* The awaited calls of overlapping requests hand a thread over as the atomic
\* steps of Handover do: a lawyer's row is in place, or its request on the way,
\* when the thread turns and whenever other rows are finalized
\* (chat-lawyer.service.ts 181-218, 325-384, 452-478).
ImplementsHandover == Promise!Spec
=============================================================================
