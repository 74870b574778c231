----------------------------- MODULE ChatProofs -----------------------------
(****************************************************************************)
(* The hand-over to a lawyer and the prompts of the chatbot, for any number *)
(* of threads, users, staff and requests, with any call rejecting.          *)
(*                                                                          *)
(* ChatLawyer: a thread that was handed over has a lawyer.  Three handlers  *)
(* write the rows of a thread with no transaction around them, so at each   *)
(* moment a thread that lacks a row, a mark or a notification must have a   *)
(* request in flight that is still going to write it.                       *)
(*                                                                          *)
(* ChatPrompt: a request runs on its own agent, because who has set the     *)
(* shared one has the turn; and a response ends once, because it is ended   *)
(* exactly when its last event is an ending.                                *)
(****************************************************************************)
EXTENDS MCChat, Sequences, TLAPS

RowsTyped ==
    /\ active \in [Threads -> [Staff -> Nat]]
    /\ linked \subseteq Threads \X Staff
    /\ chatType \in [Threads -> {"CHATBOT", "CHAT_LAWYER"}]
    /\ lawyerReq \in [Threads -> {"none", "done"}]
    /\ filed \subseteq Threads \X Staff \X {"notification", "client", "task"}
    /\ rejected \subseteq Threads
    /\ overlapped \subseteq Threads
    /\ \A t \in Threads, s \in Staff : active[t][s] > 0 => <<t, s>> \in linked

\* The steps of requestLawyer that follow its row, and what has been filed by
\* the time a request is at each of them.
AfterAssign == {"company", "notify", "mark", "client_link", "task"}

\* What a request relies on at each label.
Reached(q) ==
    /\ q.at # "idle" <=> q.thread # None
    /\ q.op = "request" <=> q.at \in {"count", "finalize", "assign"} \cup AfterAssign
    /\ q.at \notin {"idle", "count", "finalize"} => q.who \in Staff
    /\ q.at = "finalize" => q.who \in Staff
    /\ q.at \in {"read_chat", "find_link", "find_active", "join", "join_mark", "post"} =>
         q.op \in {"message", "admin_message"}
    /\ q.at = "admin_mark" => q.op = "admin_message"
    /\ q.at = "join_mark" => <<q.thread, q.who>> \in linked
    /\ q.at \in AfterAssign => <<q.thread, q.who>> \in linked
    /\ q.at \in {"mark", "client_link", "task"} =>
         <<q.thread, q.who, "notification">> \in filed
    /\ q.at \in {"client_link", "task"} => chatType[q.thread] = "CHAT_LAWYER"
    /\ q.marked => q.at # "idle" /\ chatType[q.thread] = "CHAT_LAWYER"
    /\ q.op = "admin_message" /\ q.at \in {"find_link", "join"} =>
         chatType[q.thread] = "CHAT_LAWYER"
    /\ q.thread \notin overlapped =>
         /\ q.at = "join" => <<q.thread, q.who>> \notin linked
         /\ q.at = "assign" => \A s \in Staff : active[q.thread][s] = 0
         /\ q.at \in AfterAssign =>
              \A s \in Staff : active[q.thread][s] > 0 <=> s = q.who

\* Who has lost a row has lost it to a request that is still in flight, or to a
\* lawyer who was notified and given the task, or is going to be.
HandedTo(t, l) ==
    \/ \E r \in Requests : req[r].thread = t /\ req[r].who = l /\ req[r].at \in AfterAssign
    \/ {<<t, l, "notification">>, <<t, l, "task">>} \subseteq filed

RowOrHandover(t, s) ==
    <<t, s>> \in linked =>
        \/ active[t][s] > 0
        \/ \E r \in Requests : req[r].thread = t /\ req[r].at = "assign"
        \/ \E l \in Staff \ {s} : active[t][l] > 0 /\ HandedTo(t, l)

\* A thread with a row is a lawyer chat, or is going to be.
Marked(t) ==
    (\E s \in Staff : <<t, s>> \in linked) =>
        \/ chatType[t] = "CHAT_LAWYER"
        \/ \E r \in Requests : req[r].thread = t
                               /\ req[r].at \in {"company", "notify", "mark", "join_mark"}

\* A lawyer chat has a row, or is going to have one.
Joined(t) ==
    chatType[t] = "CHAT_LAWYER" =>
        \/ \E s \in Staff : <<t, s>> \in linked
        \/ \E r \in Requests : req[r].thread = t /\ req[r].at \in {"find_link", "join"}

ThreadOK(t) ==
    /\ t \notin rejected => (\A s \in Staff : RowOrHandover(t, s)) /\ Marked(t) /\ Joined(t)
    /\ t \notin overlapped => \A s \in Staff : active[t][s] <= 1

\* Of a thread with no overlap, one request is in flight at most.
Sole ==
    \A t \in Threads \ overlapped : \A r, s \in Requests :
        req[r].thread = t /\ req[s].thread = t => r = s

IInv ==
    /\ RowsTyped
    /\ req \in [Requests -> Request]
    /\ \A t \in Threads : ThreadOK(t)
    /\ \A r \in Requests : Reached(req[r])
    /\ Sole

LEMMA Known ==
    ASSUME IInv, NEW r \in Requests
    PROVE  /\ req \in [Requests -> Request] /\ req[r] \in Request /\ Reached(req[r])
           /\ None \notin Threads
BY NoneIsNobody DEF IInv

-----------------------------------------------------------------------------
(* What a step on one thread leaves alone.                                  *)

\* No row goes, and no lawyer chat is turned back.
Growing ==
    /\ linked \subseteq linked' /\ filed \subseteq filed' /\ rejected \subseteq rejected'
    /\ \A t \in Threads : chatType[t] = "CHAT_LAWYER" => chatType'[t] = "CHAT_LAWYER"

\* Only the thread T is written.
OnlyOn(T) ==
    \A t \in Threads \ {T} :
        /\ active'[t] = active[t] /\ chatType'[t] = chatType[t]
        /\ \A s \in Staff : <<t, s>> \in linked' => <<t, s>> \in linked

LEMMA StaysReached ==
    ASSUME NEW T, NEW q \in Request, Reached(q), RowsTyped, Growing, OnlyOn(T),
           overlapped \subseteq overlapped', q.thread = T => T \in overlapped'
    PROVE  Reached(q)'
<1>1. q.thread \in Threads \/ q.thread = None
  BY DEF Request
<1>2. CASE q.at = "idle"
  BY <1>2, NoneIsNobody, <1>1 DEF Reached, AfterAssign
<1>3. CASE q.at # "idle"
  <2>1. q.thread \in Threads
    BY <1>1, <1>3 DEF Reached
  <2> QED
    BY <1>3, <2>1 DEF Reached, Growing, OnlyOn, AfterAssign
<1> QED
  BY <1>2, <1>3

\* Request r, on thread T, becomes q.
LEMMA Step ==
    ASSUME IInv, NEW r \in Requests, NEW q \in Request, req' = [req EXCEPT ![r] = q],
           NEW T \in Threads, T = req[r].thread, q.thread \in {T, None},
           overlapped' = overlapped, RowsTyped', Growing, OnlyOn(T),
           Reached(q)', ThreadOK(T)'
    PROVE  IInv'
<1>1. req' \in [Requests -> Request] /\ req'[r] = q
  BY Known
<1>2. \A s \in Requests \ {r} : req'[s] = req[s]
  BY Known
<1>3. ASSUME NEW s \in Requests PROVE Reached(req[s])'
  <2>1. CASE s = r
    BY <1>1, <2>1 DEF Reached
  <2>2. CASE s # r
    <3>1. PICK x \in Request : x = req[s] /\ Reached(x)
      BY Known
    <3>2. x.thread = T => T \in overlapped
      BY <2>2, <3>1 DEF IInv, Sole
    <3>3. Reached(x)'
      BY <3>1, <3>2, StaysReached DEF IInv
    <3> QED
      BY <1>2, <2>2, <3>1, <3>3 DEF Reached
  <2> QED
    BY <2>1, <2>2
<1>4. Sole'
  BY <1>1, <1>2, NoneIsNobody DEF Sole, IInv
<1>5. ASSUME NEW t \in Threads PROVE ThreadOK(t)'
  <2>1. CASE t = T
    BY <2>1 DEF ThreadOK, RowOrHandover, HandedTo, Marked, Joined
  <2>2. CASE t # T
    <3>1. ASSUME NEW s \in Requests, req[s].thread = t PROVE req'[s] = req[s]
      BY <1>2, <2>2, <3>1
    <3>2. ThreadOK(t)
      BY DEF IInv
    <3>3. active'[t] = active[t] /\ chatType'[t] = chatType[t]
      BY <2>2 DEF OnlyOn
    <3>4. ASSUME t \notin rejected'
          PROVE  (\A s \in Staff : RowOrHandover(t, s)') /\ Marked(t)' /\ Joined(t)'
      <4>1. t \notin rejected
        BY <3>4 DEF Growing
      <4>2. ASSUME NEW s \in Staff, <<t, s>> \in linked' PROVE <<t, s>> \in linked
        BY <2>2, <4>2 DEF OnlyOn
      <4>3. ASSUME NEW l, HandedTo(t, l) PROVE HandedTo(t, l)'
        BY <3>1, <4>3 DEF HandedTo, Growing
      <4>4. ASSUME NEW s \in Staff PROVE RowOrHandover(t, s)'
        <5> SUFFICES ASSUME <<t, s>> \in linked', ~ (active[t][s] > 0),
                            ~ \E x \in Requests : req'[x].thread = t /\ req'[x].at = "assign"
                     PROVE  \E l \in Staff \ {s} : active[t][l] > 0 /\ HandedTo(t, l)'
          BY <3>3 DEF RowOrHandover
        <5>1. RowOrHandover(t, s) /\ <<t, s>> \in linked
          BY <3>2, <4>1, <4>2 DEF ThreadOK
        <5>2. ~ \E x \in Requests : req[x].thread = t /\ req[x].at = "assign"
          BY <3>1
        <5>3. PICK l \in Staff \ {s} : active[t][l] > 0 /\ HandedTo(t, l)
          BY <5>1, <5>2 DEF RowOrHandover
        <5>4. HandedTo(t, l)'
          BY <4>3, <5>3
        <5> QED
          BY <5>3, <5>4
      <4>5. Marked(t)'
        BY <3>1, <3>2, <3>3, <4>1, <4>2 DEF ThreadOK, Marked
      <4>6. Joined(t)'
        BY <3>1, <3>2, <3>3, <4>1 DEF ThreadOK, Joined, Growing
      <4> QED
        BY <4>4, <4>5, <4>6
    <3> QED
      BY <3>2, <3>3, <3>4 DEF ThreadOK
  <2> QED
    BY <2>1, <2>2
<1> QED
  BY <1>1, <1>3, <1>4, <1>5 DEF IInv

-----------------------------------------------------------------------------
(* Requests arrive.                                                         *)

LEMMA AcceptKeepsIInv ==
    ASSUME IInv, NEW r \in Requests, NEW op \in {"request", "message", "admin_message"},
           NEW at \in Labels, NEW t \in Threads, NEW s \in Staff \cup {None},
           Accept(r, op, at, t, s),
           op = "request" => at = "count",
           op # "request" => s \in Staff /\ at \in {"read_chat", "find_active"}
    PROVE  IInv'
<1>1. PICK q \in Request : q = [at |-> at, op |-> op, thread |-> t, who |-> s, marked |-> FALSE]
  BY DEF Request
<1>2. q.at = at /\ q.op = op /\ q.thread = t /\ q.who = s /\ ~ q.marked
  BY <1>1
<1>3. req' \in [Requests -> Request] /\ req'[r] = q /\ \A x \in Requests \ {r} : req'[x] = req[x]
  BY <1>1, Known DEF Accept
<1>4. /\ UNCHANGED rows /\ rejected' = rejected
      /\ overlapped' \subseteq Threads /\ overlapped \subseteq overlapped'
  BY DEF Accept, IInv, RowsTyped
<1>5. RowsTyped'
  BY <1>4 DEF IInv, RowsTyped, rows
<1>6. Reached(q)
  BY <1>2, NoneIsNobody DEF Reached, AfterAssign
<1>7. ASSUME NEW x \in Requests PROVE Reached(req[x])'
  <2>1. PICK y \in Request : y = req'[x] /\ Reached(y)
    BY <1>3, <1>6, Known
  <2>2. Reached(y)'
    BY <2>1, <1>4 DEF Reached, rows
  <2> QED
    BY <2>1, <2>2 DEF Reached
<1>8. Sole'
  <2> SUFFICES ASSUME t \notin overlapped', NEW x \in Requests \ {r}
               PROVE  req[x].thread # t
    BY <1>2, <1>3, <1>4 DEF Sole, IInv
  <2> QED
    BY DEF Accept, InFlight
<1>9. ASSUME NEW u \in Threads PROVE ThreadOK(u)'
  <2>1. ASSUME NEW x \in Requests, req[x].thread = u PROVE req'[x] = req[x]
    <3>1. x # r
      BY <2>1, Known DEF Accept, Reached
    <3> QED
      BY <3>1, <1>3
  <2>2. ThreadOK(u)
    BY DEF IInv
  <2> QED
    BY SMTT(30), <2>1, <2>2, <1>4
       DEF ThreadOK, RowOrHandover, HandedTo, Marked, Joined, rows
<1> QED
  BY <1>3, <1>5, <1>7, <1>8, <1>9 DEF IInv

LEMMA ArriveKeepsIInv ==
    ASSUME IInv, NEW r \in Requests, Arrive(r)
    PROVE  IInv'
<1>0. {"count", "read_chat", "find_active"} \subseteq Labels
  BY DEF Labels
<1>1. ASSUME NEW t \in Threads, ArriveRequest(r, t) PROVE IInv'
  BY <1>0, <1>1, AcceptKeepsIInv DEF ArriveRequest
<1>2. ASSUME NEW t \in Threads, NEW s \in Staff, ArriveMessage(r, t, s) PROVE IInv'
  BY <1>0, <1>2, AcceptKeepsIInv DEF ArriveMessage
<1>3. ASSUME NEW t \in Threads, NEW s \in Staff, ArriveAdminMessage(r, t, s) PROVE IInv'
  BY <1>0, <1>3, AcceptKeepsIInv DEF ArriveAdminMessage
<1> QED
  BY <1>1, <1>2, <1>3 DEF Arrive

-----------------------------------------------------------------------------
(* The awaited calls that write no row.                                     *)

LEMMA QuietStep ==
    ASSUME IInv, NEW r \in Requests, NEW q \in Request, req' = [req EXCEPT ![r] = q],
           NEW T \in Threads, T = req[r].thread, q.thread \in {T, None},
           UNCHANGED rows, Calm, Reached(q),
           req[r].at \notin {"assign", "join_mark"} \cup AfterAssign,
           req[r].at \in {"find_link", "join"} =>
             (q.at \in {"find_link", "join"} /\ q.thread = T) \/ \E s \in Staff : <<T, s>> \in linked
    PROVE  IInv'
<1>1. RowsTyped' /\ Growing /\ OnlyOn(T) /\ overlapped' = overlapped
  BY DEF IInv, RowsTyped, Growing, OnlyOn, rows, Calm
<1>2. Reached(q)'
  BY DEF Reached, rows, Calm
<1>3. req'[r] = q /\ \A x \in Requests \ {r} : req'[x] = req[x]
  BY Known
<1>4. ThreadOK(T)
  BY DEF IInv
<1>5. ASSUME NEW x \in Requests, req[x].at \in {"assign", "join_mark"} \cup AfterAssign
      PROVE  req'[x] = req[x]
  BY <1>3, <1>5
<1>6. ASSUME NEW l, HandedTo(T, l) PROVE HandedTo(T, l)'
  BY <1>5, <1>6 DEF HandedTo, rows
<1>7. ASSUME NEW s \in Staff, RowOrHandover(T, s) PROVE RowOrHandover(T, s)'
  <2>1. CASE \E l \in Staff \ {s} : active[T][l] > 0 /\ HandedTo(T, l)
    <3>1. PICK l \in Staff \ {s} : active[T][l] > 0 /\ HandedTo(T, l)
      BY <2>1
    <3>2. HandedTo(T, l)'
      BY <1>6, <3>1
    <3> QED
      BY <3>1, <3>2 DEF RowOrHandover, rows
  <2>2. CASE ~ \E l \in Staff \ {s} : active[T][l] > 0 /\ HandedTo(T, l)
    BY <1>5, <1>7, <2>2 DEF RowOrHandover, rows
  <2> QED
    BY <2>1, <2>2
<1>8. Marked(T) => Marked(T)'
  BY <1>5 DEF Marked, rows, AfterAssign
<1>9. Joined(T) => Joined(T)'
  BY <1>3 DEF Joined, rows
<1>10. ThreadOK(T)'
  BY <1>4, <1>7, <1>8, <1>9 DEF ThreadOK, rows, Calm
<1> QED
  BY <1>1, <1>2, <1>10, Step

LEMMA Nothing ==
    /\ NoRequest \in Request /\ NoRequest.thread = None
    /\ Reached(NoRequest) /\ Reached(NoRequest)'
BY NoneIsNobody DEF NoRequest, Request, Labels, Reached, AfterAssign

LEMMA Elsewhere ==
    {"finalize", "assign", "company", "notify", "mark", "client_link", "task", "admin_mark",
     "find_link", "join", "join_mark", "post"} \subseteq Labels
BY DEF Labels

LEMMA CountLawyersKeepsIInv ==
    ASSUME IInv, NEW r \in Requests, CountLawyers(r)
    PROVE  IInv'
<1>1. PICK T \in Threads : T = req[r].thread
  BY Known DEF CountLawyers, At, Reached, Request
<1>2. CASE Reply(r)
  BY <1>1, <1>2, Nothing, QuietStep DEF CountLawyers, At, Reply, AfterAssign
<1>3. ASSUME NEW s \in Lawyers, req' = [req EXCEPT ![r].who = s, ![r].at = "finalize"]
      PROVE  IInv'
  <2>1. PICK q \in Request : q = [req[r] EXCEPT !.who = s, !.at = "finalize"]
    BY Known, Elsewhere, StaffRoles DEF Request
  <2>2. q.at = "finalize" /\ q.who = s /\ q.thread = T /\ q.op = req[r].op /\ q.marked = req[r].marked
    BY <1>1, <2>1, Known DEF Request
  <2>3. Reached(q)
    <3>1. Reached(req[r]) /\ req[r].at = "count" /\ T # None
      BY Known DEF CountLawyers, At
    <3>2. s \in Staff
      BY StaffRoles
    <3> QED
      BY <1>1, <2>2, <3>1, <3>2 DEF Reached, AfterAssign
  <2>4. req' = [req EXCEPT ![r] = q]
    BY <1>3, <2>1, Known
  <2> QED
    BY <1>1, <2>2, <2>3, <2>4, QuietStep DEF CountLawyers, At, AfterAssign
<1> QED
  BY <1>2, <1>3 DEF CountLawyers

LEMMA ReadChatKeepsIInv ==
    ASSUME IInv, NEW r \in Requests, ReadChat(r)
    PROVE  IInv'
<1>1. PICK T \in Threads : T = req[r].thread
  BY Known DEF ReadChat, At, Reached, Request
<1> DEFINE turned == chatType[T] = "CHAT_LAWYER"
           label == IF req[r].op = "admin_message" /\ ~ turned THEN "admin_mark" ELSE "find_link"
<1>2. PICK q \in Request : q = [req[r] EXCEPT !.marked = turned, !.at = label]
  BY ZenonT(40), Known, Elsewhere DEF Request
<1>3. /\ q.at = label /\ q.marked = turned
      /\ q.thread = T /\ q.op = req[r].op /\ q.who = req[r].who
  BY <1>1, <1>2, Known DEF Request
<1>4. Reached(q)
  <2>1. Reached(req[r]) /\ req[r].at = "read_chat" /\ T # None
    BY Known DEF ReadChat, At
  <2> QED
    BY <1>1, <1>3, <2>1 DEF Reached, AfterAssign
<1>5. req' = [req EXCEPT ![r] = q]
  BY <1>1, <1>2, Known DEF ReadChat
<1> QED
  BY <1>1, <1>3, <1>4, <1>5, QuietStep DEF ReadChat, At, AfterAssign

LEMMA FindLinkKeepsIInv ==
    ASSUME IInv, NEW r \in Requests, FindLink(r)
    PROVE  IInv'
<1>1. PICK T \in Threads : T = req[r].thread
  BY Known DEF FindLink, At, Reached, Request
<1> DEFINE label == IF <<T, req[r].who>> \in linked THEN "post" ELSE "join"
<1>2. PICK q \in Request : q = [req[r] EXCEPT !.at = label]
  BY Known, Elsewhere DEF Request
<1>3. /\ q.at = label /\ q.marked = req[r].marked
      /\ q.thread = T /\ q.op = req[r].op /\ q.who = req[r].who
  BY <1>1, <1>2, Known DEF Request
<1>4. Reached(q)
  <2>1. Reached(req[r]) /\ req[r].at = "find_link" /\ T # None
    BY Known DEF FindLink, At
  <2> QED
    BY <1>1, <1>3, <2>1 DEF Reached, AfterAssign
<1>5. req' = [req EXCEPT ![r] = q]
  BY <1>1, <1>2, Known DEF FindLink, Goto
<1>6. q.at = "join" \/ \E s \in Staff : <<T, s>> \in linked
  BY <1>3, Known DEF Reached, FindLink, At
<1> QED
  BY <1>1, <1>3, <1>4, <1>5, <1>6, QuietStep DEF FindLink, At, AfterAssign

LEMMA FindActiveKeepsIInv ==
    ASSUME IInv, NEW r \in Requests, FindActive(r)
    PROVE  IInv'
<1>1. PICK T \in Threads : T = req[r].thread
  BY Known DEF FindActive, At, Reached, Request
<1>2. CASE Reply(r)
  BY <1>1, <1>2, Nothing, QuietStep DEF FindActive, At, Reply, AfterAssign
<1>3. CASE Goto(r, "post")
  <2>1. PICK q \in Request : q = [req[r] EXCEPT !.at = "post"]
    BY Known, Elsewhere DEF Request
  <2>2. /\ q.at = "post" /\ q.marked = req[r].marked
        /\ q.thread = T /\ q.op = req[r].op /\ q.who = req[r].who
    BY <1>1, <2>1, Known DEF Request
  <2>3. Reached(q)
    <3>1. Reached(req[r]) /\ req[r].at = "find_active" /\ T # None
      BY Known DEF FindActive, At
    <3> QED
      BY <1>1, <2>2, <3>1 DEF Reached, AfterAssign
  <2>4. req' = [req EXCEPT ![r] = q]
    BY <1>3, <2>1, Known DEF Goto
  <2> QED
    BY <1>1, <2>2, <2>3, <2>4, QuietStep DEF FindActive, At, AfterAssign
<1> QED
  BY <1>2, <1>3 DEF FindActive

LEMMA PostKeepsIInv ==
    ASSUME IInv, NEW r \in Requests, Post(r)
    PROVE  IInv'
<1>1. PICK T \in Threads : T = req[r].thread
  BY Known DEF Post, At, Reached, Request
<1> QED
  BY <1>1, Nothing, QuietStep DEF Post, At, Reply, AfterAssign

-----------------------------------------------------------------------------
(* requestLawyer writes.                                                    *)

LEMMA FinalizeKeepsIInv ==
    ASSUME IInv, NEW r \in Requests, Finalize(r)
    PROVE  IInv'
<1>1. Reached(req[r]) /\ req[r].at = "finalize"
  BY Known DEF Finalize, At
<1>2. PICK T \in Threads : T = req[r].thread
  BY <1>1, Known DEF Reached, Request
<1>3. PICK q \in Request : q = [req[r] EXCEPT !.at = "assign"]
  BY Known, Elsewhere DEF Request
<1>4. /\ q.at = "assign" /\ q.marked = req[r].marked /\ q.thread = T
      /\ q.op = req[r].op /\ q.who = req[r].who
  BY <1>2, <1>3, Known DEF Request
<1>5. /\ active' = [active EXCEPT ![T] = [s \in Staff |-> 0]]
      /\ UNCHANGED <<linked, chatType, lawyerReq, filed>> /\ UNCHANGED <<rejected, overlapped>>
      /\ req' = [req EXCEPT ![r] = q]
  BY <1>2, <1>3, Known DEF Finalize, Goto, Calm
<1>6. /\ \A s \in Staff : active'[T][s] = 0
      /\ \A t \in Threads \ {T} : active'[t] = active[t]
  BY <1>5 DEF IInv, RowsTyped
<1>7. RowsTyped'
  <2>1. active' \in [Threads -> [Staff -> Nat]]
    BY <1>5 DEF IInv, RowsTyped
  <2>2. \A t \in Threads, s \in Staff : active'[t][s] > 0 => <<t, s>> \in linked
    BY <1>6 DEF IInv, RowsTyped
  <2> QED
    BY <1>5, <2>1, <2>2 DEF IInv, RowsTyped
<1>8. Growing /\ OnlyOn(T)
  BY <1>5, <1>6 DEF Growing, OnlyOn
<1>9. Reached(q)'
  BY <1>1, <1>2, <1>4, <1>5, <1>6, NoneIsNobody DEF Reached, AfterAssign
<1>10. ThreadOK(T)'
  <2>1. req'[r] = q /\ \A x \in Requests \ {r} : req'[x] = req[x]
    BY <1>5, Known
  <2>2. \A s \in Staff : RowOrHandover(T, s)'
    BY <2>1, <1>4 DEF RowOrHandover
  <2>3. ASSUME NEW x \in Requests, req[x].at # "finalize" PROVE req'[x] = req[x]
    BY <2>1, <2>3, <1>1
  <2>4. Marked(T) => Marked(T)'
    BY <1>5, <2>3 DEF Marked
  <2>5. Joined(T) => Joined(T)'
    BY <1>5, <2>3 DEF Joined
  <2> QED
    BY <1>5, <1>6, <2>2, <2>4, <2>5 DEF ThreadOK, IInv
<1> QED
  BY <1>2, <1>4, <1>5, <1>7, <1>8, <1>9, <1>10, Step

\* A new row: what both requestLawyer and the admin's messages do.
LEMMA RowMade ==
    ASSUME IInv, NEW T \in Threads, NEW s \in Staff, NEW q \in Request,
           q.thread = T, q.who = s, CreateRow(q)
    PROVE  /\ active'[T][s] = active[T][s] + 1 /\ <<T, s>> \in linked'
           /\ \A l \in Staff \ {s} : active'[T][l] = active[T][l]
           /\ \A l \in Staff : active[T][l] \in Nat
           /\ \A t \in Threads \ {T} : active'[t] = active[t]
           /\ linked' = linked \cup {<<T, s>>}
           /\ UNCHANGED <<chatType, lawyerReq, filed>>
           /\ active' \in [Threads -> [Staff -> Nat]]
           /\ \A t \in Threads, l \in Staff : active'[t][l] > 0 => <<t, l>> \in linked'
<1>1. /\ active' = [active EXCEPT ![T][s] = @ + 1]
      /\ linked' = linked \cup {<<T, s>>}
      /\ UNCHANGED <<chatType, lawyerReq, filed>>
  BY DEF CreateRow
<1>2. active \in [Threads -> [Staff -> Nat]]
  BY DEF IInv, RowsTyped
<1>3. active' \in [Threads -> [Staff -> Nat]]
  BY <1>1, <1>2
<1>4. /\ active'[T][s] = active[T][s] + 1
      /\ \A l \in Staff \ {s} : active'[T][l] = active[T][l]
      /\ \A t \in Threads \ {T} : active'[t] = active[t]
  BY <1>1, <1>2
<1>5. \A t \in Threads, l \in Staff : active'[t][l] > 0 => <<t, l>> \in linked'
  <2> SUFFICES ASSUME NEW t \in Threads, NEW l \in Staff, active'[t][l] > 0,
                      ~ (t = T /\ l = s)
               PROVE  <<t, l>> \in linked
    BY <1>1
  <2>1. active'[t][l] = active[t][l]
    BY <1>4
  <2> QED
    BY <2>1 DEF IInv, RowsTyped
<1> QED
  BY <1>1, <1>2, <1>3, <1>4, <1>5

LEMMA AssignKeepsIInv ==
    ASSUME IInv, NEW r \in Requests, Assign(r)
    PROVE  IInv'
<1>1. Reached(req[r]) /\ req[r].at = "assign"
  BY Known DEF Assign, At
<1>2. PICK T \in Threads : T = req[r].thread
  BY <1>1, Known DEF Reached, Request
<1>3. PICK s \in Staff : s = req[r].who
  BY <1>1 DEF Reached
<1>4. PICK q \in Request : q = [req[r] EXCEPT !.at = "company"]
  BY Known, Elsewhere DEF Request
<1>5. /\ q.at = "company" /\ q.marked = req[r].marked /\ q.thread = T
      /\ q.op = req[r].op /\ q.who = s
  BY <1>2, <1>3, <1>4, Known DEF Request
<1>6. /\ CreateRow(req[r]) /\ UNCHANGED <<rejected, overlapped>>
      /\ req' = [req EXCEPT ![r] = q]
  BY <1>4, Known DEF Assign, Goto, Calm
<1>7. /\ active'[T][s] = active[T][s] + 1 /\ <<T, s>> \in linked'
      /\ \A l \in Staff \ {s} : active'[T][l] = active[T][l]
      /\ \A l \in Staff : active[T][l] \in Nat
      /\ \A t \in Threads \ {T} : active'[t] = active[t]
      /\ linked' = linked \cup {<<T, s>>}
      /\ UNCHANGED <<chatType, lawyerReq, filed>>
      /\ active' \in [Threads -> [Staff -> Nat]]
      /\ \A t \in Threads, l \in Staff : active'[t][l] > 0 => <<t, l>> \in linked'
  BY <1>2, <1>3, <1>6, Known, RowMade
<1>8. RowsTyped'
  BY <1>6, <1>7 DEF IInv, RowsTyped
<1>9. Growing /\ OnlyOn(T)
  BY <1>6, <1>7 DEF Growing, OnlyOn
<1>10. active'[T][s] > 0
  BY <1>7
<1>11. T \notin overlapped =>
         /\ \A l \in Staff : active'[T][l] > 0 <=> l = s
         /\ \A l \in Staff : active'[T][l] <= 1
  <2> SUFFICES ASSUME T \notin overlapped, NEW l \in Staff
               PROVE  (active'[T][l] > 0 <=> l = s) /\ active'[T][l] <= 1
    OBVIOUS
  <2>1. active[T][l] = 0
    BY <1>1, <1>2 DEF Reached
  <2> QED
    BY <2>1, <1>7
<1>12. Reached(q)'
  <2>1. q.thread \notin overlapped' => \A l \in Staff : active'[q.thread][l] > 0 <=> l = q.who
    BY <1>5, <1>6, <1>11
  <2>2. <<q.thread, q.who>> \in linked' /\ q.thread # None /\ q.who \in Staff
    BY <1>5, <1>7, NoneIsNobody
  <2>3. q.marked => chatType'[q.thread] = "CHAT_LAWYER"
    BY <1>1, <1>2, <1>5, <1>7 DEF Reached
  <2>4. q.op = "request"
    BY <1>1, <1>5 DEF Reached
  <2> QED
    BY <1>5, <2>1, <2>2, <2>3, <2>4 DEF Reached, AfterAssign
<1>13. ThreadOK(T)'
  <2>1. req'[r] = q /\ \A x \in Requests \ {r} : req'[x] = req[x]
    BY <1>6, Known
  <2>2. HandedTo(T, s)'
    BY <2>1, <1>5 DEF HandedTo, AfterAssign
  <2>3. \A l \in Staff : RowOrHandover(T, l)'
    BY <1>10, <2>2 DEF RowOrHandover
  <2>4. Marked(T)' /\ Joined(T)'
    BY <2>1, <1>5, <1>7 DEF Marked, Joined
  <2> QED
    BY <1>6, <1>11, <2>3, <2>4 DEF ThreadOK
<1> QED
  BY <1>2, <1>5, <1>6, <1>8, <1>9, <1>12, <1>13, Step

\* A step of requestLawyer after its row, on to the next one.
LEMMA Along ==
    ASSUME IInv, NEW r \in Requests, req[r].at \in AfterAssign,
           NEW T \in Threads, T = req[r].thread, NEW label \in AfterAssign, Goto(r, label),
           UNCHANGED <<active, linked, rejected, overlapped>>,
           RowsTyped', Growing, OnlyOn(T),
           label \in {"mark", "client_link", "task"} =>
             <<T, req[r].who, "notification">> \in filed',
           chatType'[T] = "CHAT_LAWYER" \/ label \in {"company", "notify", "mark"}
    PROVE  IInv'
<1>1. Reached(req[r]) /\ req[r].at # "idle"
  BY Known DEF AfterAssign
<1>2. PICK s \in Staff : s = req[r].who
  BY <1>1 DEF Reached, AfterAssign
<1>3. label \in Labels
  BY DEF AfterAssign, Labels
<1>4. PICK q \in Request : q = [req[r] EXCEPT !.at = label]
  BY <1>3, Known DEF Request
<1>5. /\ q.at = label /\ q.marked = req[r].marked /\ q.thread = T
      /\ q.op = req[r].op /\ q.who = s
  BY <1>2, <1>4, Known DEF Request
<1>6. req' = [req EXCEPT ![r] = q]
  BY <1>4, Known DEF Goto
<1>7. Reached(q)'
  <2>1. q.thread \notin overlapped' => \A l \in Staff : active'[q.thread][l] > 0 <=> l = q.who
    BY <1>1, <1>2, <1>5 DEF Reached
  <2>2. <<q.thread, q.who>> \in linked' /\ q.thread # None /\ q.who \in Staff
    BY <1>1, <1>2, <1>5, NoneIsNobody DEF Reached, AfterAssign
  <2>3. q.marked => chatType'[q.thread] = "CHAT_LAWYER"
    BY <1>1, <1>5 DEF Reached, Growing
  <2>4. q.op = "request"
    BY <1>1, <1>5 DEF Reached
  <2>5. /\ q.at \in AfterAssign
        /\ q.at \in {"mark", "client_link", "task"} => <<q.thread, q.who, "notification">> \in filed'
        /\ q.at \in {"client_link", "task"} => chatType'[q.thread] = "CHAT_LAWYER"
    BY <1>2, <1>5
  <2> QED
    BY <2>1, <2>2, <2>3, <2>4, <2>5 DEF Reached, AfterAssign
<1>8. ThreadOK(T)'
  <2>1. req'[r] = q /\ \A x \in Requests \ {r} : req'[x] = req[x]
    BY <1>6, Known
  <2>2. ThreadOK(T)
    BY DEF IInv
  <2>3. ASSUME NEW l, HandedTo(T, l) PROVE HandedTo(T, l)'
    <3>1. CASE \E x \in Requests : req[x].thread = T /\ req[x].who = l /\ req[x].at \in AfterAssign
      <4>1. PICK x \in Requests : req[x].thread = T /\ req[x].who = l /\ req[x].at \in AfterAssign
        BY <3>1
      <4>2. req'[x].thread = T /\ req'[x].who = l /\ req'[x].at \in AfterAssign
        BY <4>1, <2>1, <1>2, <1>5
      <4> QED
        BY <4>2 DEF HandedTo
    <3>2. CASE {<<T, l, "notification">>, <<T, l, "task">>} \subseteq filed
      BY <3>2 DEF HandedTo, Growing
    <3> QED
      BY <2>3, <3>1, <3>2 DEF HandedTo
  <2>4. ASSUME NEW l \in Staff, RowOrHandover(T, l) PROVE RowOrHandover(T, l)'
    <3> SUFFICES ASSUME <<T, l>> \in linked, ~ (active[T][l] > 0),
                        ~ \E x \in Requests : req'[x].thread = T /\ req'[x].at = "assign"
                 PROVE  \E o \in Staff \ {l} : active[T][o] > 0 /\ HandedTo(T, o)'
      BY DEF RowOrHandover
    <3>1. ~ \E x \in Requests : req[x].thread = T /\ req[x].at = "assign"
      BY <2>1 DEF AfterAssign
    <3>2. PICK o \in Staff \ {l} : active[T][o] > 0 /\ HandedTo(T, o)
      BY <2>4, <3>1 DEF RowOrHandover
    <3>3. HandedTo(T, o)'
      BY <2>3, <3>2
    <3> QED
      BY <3>2, <3>3
  <2>5. Marked(T)'
    <3>1. CASE chatType'[T] = "CHAT_LAWYER"
      BY <3>1 DEF Marked
    <3>2. CASE label \in {"company", "notify", "mark"}
      BY <2>1, <1>5, <3>2 DEF Marked
    <3> QED
      BY <3>1, <3>2
  <2>6. Joined(T)'
    BY <1>1, <1>2 DEF Joined, Reached
  <2> QED
    BY <2>2, <2>4, <2>5, <2>6 DEF ThreadOK
<1> QED
  BY <1>5, <1>6, <1>7, <1>8, Step

\* What is filed for r, and that it stays.
LEMMA FileKeepsRows ==
    ASSUME IInv, NEW r \in Requests, NEW T \in Threads, T = req[r].thread, req[r].who \in Staff,
           NEW kind \in {"notification", "client", "task"}, File(r, kind),
           UNCHANGED <<rejected, overlapped>>
    PROVE  RowsTyped' /\ Growing /\ OnlyOn(T) /\ <<T, req[r].who, kind>> \in filed'
BY DEF File, IInv, RowsTyped, Growing, OnlyOn

LEMMA MarkKeepsRows ==
    ASSUME IInv, NEW r \in Requests, NEW T \in Threads, T = req[r].thread, MarkThread(r),
           UNCHANGED <<rejected, overlapped>>
    PROVE  RowsTyped' /\ Growing /\ OnlyOn(T) /\ chatType'[T] = "CHAT_LAWYER"
BY DEF MarkThread, IInv, RowsTyped, Growing, OnlyOn

LEMMA CompanyStatusKeepsIInv ==
    ASSUME IInv, NEW r \in Requests, CompanyStatus(r)
    PROVE  IInv'
<1>1. Reached(req[r]) /\ req[r].at = "company"
  BY Known DEF CompanyStatus, At
<1>2. PICK T \in Threads : T = req[r].thread
  BY <1>1, Known DEF Reached, Request
<1>3. RowsTyped' /\ Growing /\ OnlyOn(T)
  BY <1>2 DEF CompanyStatus, Calm, IInv, RowsTyped, Growing, OnlyOn
<1> QED
  BY <1>1, <1>2, <1>3, Along DEF CompanyStatus, Calm, AfterAssign

LEMMA NotifyKeepsIInv ==
    ASSUME IInv, NEW r \in Requests, Notify(r)
    PROVE  IInv'
<1>1. Reached(req[r]) /\ req[r].at = "notify"
  BY Known DEF Notify, At
<1>2. PICK T \in Threads : T = req[r].thread
  BY <1>1, Known DEF Reached, Request
<1>3. RowsTyped' /\ Growing /\ OnlyOn(T) /\ <<T, req[r].who, "notification">> \in filed'
  BY <1>1, <1>2, FileKeepsRows DEF Notify, Calm, Reached
<1> QED
  BY <1>1, <1>2, <1>3, Along DEF Notify, File, Calm, AfterAssign

LEMMA MarkKeepsIInv ==
    ASSUME IInv, NEW r \in Requests, Mark(r)
    PROVE  IInv'
<1>1. Reached(req[r]) /\ req[r].at = "mark"
  BY Known DEF Mark, At
<1>2. PICK T \in Threads : T = req[r].thread
  BY <1>1, Known DEF Reached, Request
<1>3. RowsTyped' /\ Growing /\ OnlyOn(T) /\ chatType'[T] = "CHAT_LAWYER"
  BY <1>2, MarkKeepsRows DEF Mark, Calm
<1>4. <<T, req[r].who, "notification">> \in filed'
  BY <1>1, <1>2, <1>3 DEF Reached, Growing
<1> QED
  BY <1>1, <1>2, <1>3, <1>4, Along DEF Mark, MarkThread, Calm, AfterAssign

LEMMA ClientLinkKeepsIInv ==
    ASSUME IInv, NEW r \in Requests, ClientLink(r)
    PROVE  IInv'
<1>1. Reached(req[r]) /\ req[r].at = "client_link"
  BY Known DEF ClientLink, At
<1>2. PICK T \in Threads : T = req[r].thread
  BY <1>1, Known DEF Reached, Request
<1>3. RowsTyped' /\ Growing /\ OnlyOn(T)
  BY <1>1, <1>2, FileKeepsRows DEF ClientLink, Calm, Reached
<1>4. <<T, req[r].who, "notification">> \in filed' /\ chatType'[T] = "CHAT_LAWYER"
  BY <1>1, <1>2, <1>3 DEF Reached, Growing
<1> QED
  BY <1>1, <1>2, <1>3, <1>4, Along DEF ClientLink, File, Calm, AfterAssign

\* The last step: what was owed to the lawyer is all filed.
LEMMA CreateTaskKeepsIInv ==
    ASSUME IInv, NEW r \in Requests, CreateTask(r)
    PROVE  IInv'
<1>1. Reached(req[r]) /\ req[r].at = "task"
  BY Known DEF CreateTask, At
<1>2. PICK T \in Threads : T = req[r].thread
  BY <1>1, Known DEF Reached, Request
<1>3. RowsTyped' /\ Growing /\ OnlyOn(T) /\ <<T, req[r].who, "task">> \in filed'
  BY <1>1, <1>2, FileKeepsRows DEF CreateTask, Calm, Reached
<1>4. /\ UNCHANGED <<active, linked, chatType, rejected, overlapped>>
      /\ req' = [req EXCEPT ![r] = NoRequest]
  BY DEF CreateTask, File, Calm, Reply
<1>5. req'[r] = NoRequest /\ \A x \in Requests \ {r} : req'[x] = req[x]
  BY <1>4, Known
<1>6. ThreadOK(T)
  BY DEF IInv
<1>7. ASSUME NEW l, HandedTo(T, l) PROVE HandedTo(T, l)'
  <2>1. CASE l = req[r].who
    BY <1>1, <1>2, <1>3, <2>1 DEF HandedTo, Reached, Growing
  <2>2. CASE l # req[r].who
    BY <1>3, <1>5, <1>7, <2>2 DEF HandedTo, Growing
  <2> QED
    BY <2>1, <2>2
<1>8. ASSUME NEW l \in Staff, RowOrHandover(T, l) PROVE RowOrHandover(T, l)'
  <2> SUFFICES ASSUME <<T, l>> \in linked, ~ (active[T][l] > 0),
                      ~ \E x \in Requests : req'[x].thread = T /\ req'[x].at = "assign"
               PROVE  \E o \in Staff \ {l} : active[T][o] > 0 /\ HandedTo(T, o)'
    BY <1>4 DEF RowOrHandover
  <2>1. ~ \E x \in Requests : req[x].thread = T /\ req[x].at = "assign"
    BY <1>1, <1>5
  <2>2. PICK o \in Staff \ {l} : active[T][o] > 0 /\ HandedTo(T, o)
    BY <1>8, <2>1 DEF RowOrHandover
  <2>3. HandedTo(T, o)'
    BY <1>7, <2>2
  <2> QED
    BY <2>2, <2>3
<1>9. Marked(T)'
  BY <1>1, <1>2, <1>4 DEF Marked, Reached
<1>10. Joined(T)'
  BY <1>1, <1>2, <1>4 DEF Joined, Reached, AfterAssign
<1>11. ThreadOK(T)'
  BY <1>4, <1>6, <1>8, <1>9, <1>10 DEF ThreadOK
<1> QED
  BY <1>2, <1>3, <1>4, <1>11, Nothing, Step

-----------------------------------------------------------------------------
(* sendMessage and sendAdminMessage write.                                  *)

\* A thread is marked, and the request goes on to label.
LEMMA MarkingStep ==
    ASSUME IInv, NEW r \in Requests, req[r].at \in {"admin_mark", "join_mark"},
           MarkThread(r), Calm,
           NEW label \in {"find_link", "post"}, Goto(r, label),
           req[r].at = "admin_mark" => label = "find_link",
           req[r].at = "join_mark" => label = "post"
    PROVE  IInv'
<1>1. Reached(req[r]) /\ req[r].at # "idle"
  BY Known
<1>2. PICK T \in Threads : T = req[r].thread
  BY <1>1, Known DEF Reached, Request
<1>3. RowsTyped' /\ Growing /\ OnlyOn(T) /\ chatType'[T] = "CHAT_LAWYER"
  BY <1>2, MarkKeepsRows DEF Calm
<1>4. PICK q \in Request : q = [req[r] EXCEPT !.at = label]
  BY Known, Elsewhere DEF Request
<1>5. /\ q.at = label /\ q.marked = req[r].marked /\ q.thread = T
      /\ q.op = req[r].op /\ q.who = req[r].who
  BY <1>2, <1>4, Known DEF Request
<1>6. /\ UNCHANGED <<active, linked, filed, rejected, overlapped>>
      /\ req' = [req EXCEPT ![r] = q]
  BY <1>4, Known DEF MarkThread, Calm, Goto
<1>7. Reached(q)'
  BY <1>1, <1>3, <1>5, NoneIsNobody DEF Reached, AfterAssign
<1>8. req'[r] = q /\ \A x \in Requests \ {r} : req'[x] = req[x]
  BY <1>6, Known
<1>9. ThreadOK(T)
  BY DEF IInv
<1>10. ASSUME NEW x \in Requests, req[x].at = "assign" \/ req[x].at \in AfterAssign
       PROVE  req'[x] = req[x]
  BY <1>8, <1>10 DEF AfterAssign
<1>11. ASSUME NEW l, HandedTo(T, l) PROVE HandedTo(T, l)'
  BY <1>6, <1>10, <1>11 DEF HandedTo
<1>12. ASSUME NEW l \in Staff, RowOrHandover(T, l) PROVE RowOrHandover(T, l)'
  <2> SUFFICES ASSUME <<T, l>> \in linked, ~ (active[T][l] > 0),
                      ~ \E x \in Requests : req'[x].thread = T /\ req'[x].at = "assign"
               PROVE  \E o \in Staff \ {l} : active[T][o] > 0 /\ HandedTo(T, o)'
    BY <1>6 DEF RowOrHandover
  <2>1. ~ \E x \in Requests : req[x].thread = T /\ req[x].at = "assign"
    BY <1>10
  <2>2. PICK o \in Staff \ {l} : active[T][o] > 0 /\ HandedTo(T, o)
    BY <1>12, <2>1 DEF RowOrHandover
  <2>3. HandedTo(T, o)'
    BY <1>11, <2>2
  <2> QED
    BY <2>2, <2>3
<1>13. Marked(T)'
  BY <1>3 DEF Marked
<1>14. Joined(T)'
  <2>1. CASE label = "find_link"
    BY <1>5, <1>8, <2>1 DEF Joined
  <2>2. CASE label = "post"
    BY <1>1, <1>2, <1>6, <2>2 DEF Joined, Reached
  <2> QED
    BY <2>1, <2>2
<1>15. ThreadOK(T)'
  BY <1>6, <1>9, <1>12, <1>13, <1>14 DEF ThreadOK
<1> QED
  BY <1>2, <1>3, <1>5, <1>6, <1>7, <1>15, Step

LEMMA MarkingsKeepIInv ==
    ASSUME IInv, NEW r \in Requests, AdminMark(r) \/ JoinMark(r)
    PROVE  IInv'
<1>1. CASE AdminMark(r)
  BY <1>1, MarkingStep DEF AdminMark, At
<1>2. CASE JoinMark(r)
  BY <1>2, MarkingStep DEF JoinMark, At
<1> QED
  BY <1>1, <1>2

LEMMA JoinKeepsIInv ==
    ASSUME IInv, NEW r \in Requests, Join(r)
    PROVE  IInv'
<1>1. Reached(req[r]) /\ req[r].at = "join"
  BY Known DEF Join, At
<1>2. PICK T \in Threads : T = req[r].thread
  BY <1>1, Known DEF Reached, Request
<1>3. PICK s \in Staff : s = req[r].who
  BY <1>1 DEF Reached
<1>4. PICK label \in {"join_mark", "post"} :
        /\ label = IF req[r].op = "message" /\ ~ req[r].marked THEN "join_mark" ELSE "post"
  OBVIOUS
<1>5. PICK q \in Request : q = [req[r] EXCEPT !.at = label]
  BY Known, Elsewhere DEF Request
<1>6. /\ q.at = label /\ q.marked = req[r].marked /\ q.thread = T
      /\ q.op = req[r].op /\ q.who = s
  BY <1>2, <1>3, <1>5, Known DEF Request
<1>7. /\ CreateRow(req[r]) /\ UNCHANGED <<rejected, overlapped>>
      /\ req' = [req EXCEPT ![r] = q]
  BY <1>4, <1>5, Known DEF Join, Goto, Calm
<1>8. /\ active'[T][s] = active[T][s] + 1 /\ <<T, s>> \in linked'
      /\ \A l \in Staff \ {s} : active'[T][l] = active[T][l]
      /\ \A l \in Staff : active[T][l] \in Nat
      /\ \A t \in Threads \ {T} : active'[t] = active[t]
      /\ linked' = linked \cup {<<T, s>>}
      /\ UNCHANGED <<chatType, lawyerReq, filed>>
      /\ active' \in [Threads -> [Staff -> Nat]]
      /\ \A t \in Threads, l \in Staff : active'[t][l] > 0 => <<t, l>> \in linked'
  BY <1>2, <1>3, <1>7, Known, RowMade
<1>9. RowsTyped' /\ Growing /\ OnlyOn(T)
  <2>1. RowsTyped'
    BY <1>7, <1>8 DEF IInv, RowsTyped
  <2>2. Growing /\ OnlyOn(T)
    BY <1>7, <1>8 DEF Growing, OnlyOn
  <2> QED
    BY <2>1, <2>2
<1>10. active'[T][s] > 0
  BY <1>8
<1>11. Reached(q)'
  <2>1. <<q.thread, q.who>> \in linked' /\ q.thread # None /\ q.who \in Staff
    BY <1>6, <1>8, NoneIsNobody
  <2>2. q.marked => chatType'[q.thread] = "CHAT_LAWYER"
    BY <1>1, <1>2, <1>6, <1>8 DEF Reached
  <2>3. q.op \in {"message", "admin_message"}
    BY <1>1, <1>6 DEF Reached
  <2> QED
    BY <1>6, <2>1, <2>2, <2>3 DEF Reached, AfterAssign
<1>12. req'[r] = q /\ \A x \in Requests \ {r} : req'[x] = req[x]
  BY <1>7, Known
<1>13. ThreadOK(T)
  BY DEF IInv
<1>14. ASSUME NEW x \in Requests, req[x].at # "join" PROVE req'[x] = req[x]
  BY <1>1, <1>12, <1>14
<1>15. ASSUME NEW l, HandedTo(T, l) PROVE HandedTo(T, l)'
  BY <1>8, <1>14, <1>15 DEF HandedTo, AfterAssign
<1>16. ASSUME NEW l \in Staff, RowOrHandover(T, l) PROVE RowOrHandover(T, l)'
  <2>1. CASE l = s
    BY <1>10, <2>1 DEF RowOrHandover
  <2>2. CASE l # s
    <3> SUFFICES ASSUME <<T, l>> \in linked', ~ (active'[T][l] > 0),
                        ~ \E x \in Requests : req'[x].thread = T /\ req'[x].at = "assign"
                 PROVE  \E o \in Staff \ {l} : active'[T][o] > 0 /\ HandedTo(T, o)'
      BY DEF RowOrHandover
    <3>1. <<T, l>> \in linked /\ ~ (active[T][l] > 0)
      BY <1>8, <2>2
    <3>2. ~ \E x \in Requests : req[x].thread = T /\ req[x].at = "assign"
      BY <1>14
    <3>3. PICK o \in Staff \ {l} : active[T][o] > 0 /\ HandedTo(T, o)
      BY <1>16, <3>1, <3>2 DEF RowOrHandover
    <3>4. HandedTo(T, o)' /\ active'[T][o] > 0
      BY <1>8, <1>10, <1>15, <3>3
    <3> QED
      BY <3>4
  <2> QED
    BY <2>1, <2>2
<1>17. Marked(T)'
  <2>1. CASE label = "join_mark"
    BY <1>6, <1>12, <2>1 DEF Marked
  <2>2. CASE label = "post"
    <3>1. req[r].marked \/ req[r].op = "admin_message"
      BY <1>1, <1>4, <2>2 DEF Reached
    <3>2. chatType[T] = "CHAT_LAWYER"
      BY <1>1, <1>2, <3>1 DEF Reached
    <3> QED
      BY <1>8, <3>2 DEF Marked
  <2> QED
    BY <2>1, <2>2
<1>18. Joined(T)'
  BY <1>8 DEF Joined
<1>19. T \notin overlapped => \A l \in Staff : active'[T][l] <= 1
  <2> SUFFICES ASSUME T \notin overlapped, NEW l \in Staff PROVE active'[T][l] <= 1
    OBVIOUS
  <2>1. CASE l = s
    <3>1. <<T, s>> \notin linked
      BY <1>1, <1>2, <1>3 DEF Reached
    <3>2. active[T][s] = 0
      BY <1>8, <3>1 DEF IInv, RowsTyped
    <3> QED
      BY <1>8, <2>1, <3>2
  <2>2. CASE l # s
    BY <1>8, <1>13, <2>2 DEF ThreadOK
  <2> QED
    BY <2>1, <2>2
<1>20. ThreadOK(T)'
  BY <1>7, <1>13, <1>16, <1>17, <1>18, <1>19 DEF ThreadOK
<1> QED
  BY <1>2, <1>6, <1>7, <1>9, <1>11, <1>20, Step

-----------------------------------------------------------------------------
\* A call rejects: nothing is claimed of its thread any more but its rows.
LEMMA CallFailsKeepsIInv ==
    ASSUME IInv, NEW r \in Requests, CallFails(r)
    PROVE  IInv'
<1>1. Reached(req[r]) /\ req[r].at # "idle"
  BY Known DEF CallFails, At
<1>2. PICK T \in Threads : T = req[r].thread
  BY <1>1, Known DEF Reached, Request
<1>3. UNCHANGED <<rows, overlapped>> /\ rejected' = rejected \cup {T}
  BY <1>2 DEF CallFails
<1>4. RowsTyped' /\ Growing /\ OnlyOn(T)
  BY <1>2, <1>3 DEF IInv, RowsTyped, Growing, OnlyOn, rows
<1>5. ThreadOK(T)'
  BY <1>3 DEF ThreadOK, IInv, rows
<1>6. CASE Reply(r)
  BY <1>2, <1>3, <1>4, <1>5, <1>6, Nothing, Step DEF Reply
<1>7. CASE req[r].op = "message" /\ req[r].at \in {"join", "join_mark"} /\ Goto(r, "post")
  <2>1. PICK q \in Request : q = [req[r] EXCEPT !.at = "post"]
    BY Known, Elsewhere DEF Request
  <2>2. /\ q.at = "post" /\ q.marked = req[r].marked
        /\ q.thread = T /\ q.op = req[r].op /\ q.who = req[r].who
    BY <1>2, <2>1, Known DEF Request
  <2>3. Reached(q)'
    BY <1>1, <1>2, <1>3, <1>7, <2>2, NoneIsNobody DEF Reached, AfterAssign, rows
  <2>4. req' = [req EXCEPT ![r] = q]
    BY <1>7, <2>1, Known DEF Goto
  <2> QED
    BY <1>2, <1>3, <1>4, <1>5, <2>2, <2>3, <2>4, Step
<1> QED
  BY <1>6, <1>7 DEF CallFails

LEMMA NextKeepsIInv ==
    ASSUME IInv, [Next]_vars
    PROVE  IInv'
<1>1. CASE UNCHANGED vars
  <2>1. UNCHANGED <<active, linked, chatType, lawyerReq, filed, req, rejected, overlapped>>
    BY <1>1 DEF vars, rows
  <2>2. RowsTyped' /\ Sole'
    BY <2>1 DEF IInv, RowsTyped, Sole
  <2>3. ASSUME NEW r \in Requests PROVE Reached(req[r])'
    BY <2>1, Known DEF Reached
  <2>4. ASSUME NEW t \in Threads PROVE ThreadOK(t)'
    <3>1. ThreadOK(t)
      BY DEF IInv
    <3> QED
      BY <2>1, <3>1 DEF ThreadOK, RowOrHandover, HandedTo, Marked, Joined
  <2> QED
    BY <2>1, <2>2, <2>3, <2>4 DEF IInv
<1>2. ASSUME NEW r \in Requests, Arrive(r) PROVE IInv'
  BY <1>2, ArriveKeepsIInv
<1>3. ASSUME NEW r \in Requests, Answer(r) PROVE IInv'
  BY <1>3, CountLawyersKeepsIInv, FinalizeKeepsIInv, AssignKeepsIInv, CompanyStatusKeepsIInv,
     NotifyKeepsIInv, MarkKeepsIInv, ClientLinkKeepsIInv, CreateTaskKeepsIInv,
     ReadChatKeepsIInv, MarkingsKeepIInv, FindLinkKeepsIInv, FindActiveKeepsIInv,
     JoinKeepsIInv, PostKeepsIInv, CallFailsKeepsIInv DEF Answer
<1> QED
  BY <1>1, <1>2, <1>3 DEF Next

LEMMA InitIInv == Init => IInv
<1> SUFFICES ASSUME Init PROVE IInv
  OBVIOUS
<1>1. RowsTyped
  BY DEF Init, RowsTyped
<1>2. req \in [Requests -> Request] /\ \A r \in Requests : req[r] = NoRequest
  BY Nothing DEF Init
<1>3. ASSUME NEW t \in Threads PROVE ThreadOK(t)
  BY DEF Init, ThreadOK, RowOrHandover, Marked, Joined
<1>4. Sole
  BY <1>2, Nothing, NoneIsNobody DEF Sole
<1> QED
  BY <1>1, <1>2, <1>3, <1>4, Nothing DEF IInv

LEMMA Inductive == Spec => []IInv
<1>1. IInv /\ [Next]_vars => IInv'
  BY NextKeepsIInv
<1> QED
  BY <1>1, InitIInv, PTL DEF Spec

-----------------------------------------------------------------------------
\* Every row and every request of chat-lawyer.service.ts has its type, and who
\* is ACTIVE in a thread has a row in it.
THEOREM TypeCorrect == Spec => []TypeOK
<1>1. IInv => TypeOK
  BY DEF IInv, RowsTyped, TypeOK
<1> QED
  BY <1>1, Inductive, PTL

\* A thread taken from the chatbot has an ACTIVE lawyer whenever no request on
\* it is in flight, unless a call has rejected half-way.
THEOREM ThreadsAreNotAbandoned == Spec => []NeverAbandoned
<1>1. ASSUME IInv PROVE NeverAbandoned
  <2> SUFFICES ASSUME NEW t \in Threads \ rejected, chatType[t] = "CHAT_LAWYER", ~ InFlight(t)
               PROVE  \E s \in Staff : active[t][s] > 0
    BY DEF NeverAbandoned
  <2>1. Joined(t) /\ \A s \in Staff : RowOrHandover(t, s)
    BY <1>1 DEF IInv, ThreadOK
  <2>2. PICK s \in Staff : <<t, s>> \in linked
    BY <2>1 DEF Joined, InFlight
  <2> QED
    BY <2>1, <2>2 DEF RowOrHandover, InFlight
<1> QED
  BY <1>1, Inductive, PTL

\* Without overlapping requests nobody holds two ACTIVE rows in a thread, and
\* the lawyer just assigned is the only one ACTIVE.
THEOREM AssigneeIsSole == Spec => []SoleAssignee
<1>1. ASSUME IInv PROVE SoleAssignee
  <2> SUFFICES ASSUME NEW t \in Threads \ overlapped
               PROVE  /\ \A s \in Staff : active[t][s] <= 1
                      /\ \A r \in Requests :
                           req[r].thread = t /\ req[r].at \in AfterAssign
                             => \A s \in Staff : active[t][s] > 0 <=> s = req[r].who
    BY DEF SoleAssignee, AfterAssign
  <2>1. \A s \in Staff : active[t][s] <= 1
    BY <1>1 DEF IInv, ThreadOK
  <2>2. ASSUME NEW r \in Requests, req[r].thread = t, req[r].at \in AfterAssign, NEW s \in Staff
        PROVE  active[t][s] > 0 <=> s = req[r].who
    BY <1>1, <2>2 DEF IInv, Reached
  <2> QED
    BY <2>1, <2>2
<1> QED
  BY <1>1, Inductive, PTL

\* Who has a row in a thread can write in it once the requests on it are over,
\* or has lost that to a lawyer who was notified and given the task.
THEOREM LossesAreHandovers == Spec => []LostOnlyToHandover
<1>1. ASSUME IInv PROVE LostOnlyToHandover
  <2> SUFFICES ASSUME NEW t \in Threads \ rejected, NEW s \in Staff,
                      <<t, s>> \in linked, ~ InFlight(t)
               PROVE  \/ CanWrite(t, s)
                      \/ \E l \in Staff \ {s} :
                           CanWrite(t, l)
                           /\ {<<t, l, "notification">>, <<t, l, "task">>} \subseteq filed
    BY DEF LostOnlyToHandover
  <2>1. Marked(t) /\ RowOrHandover(t, s)
    BY <1>1 DEF IInv, ThreadOK
  <2>2. chatType[t] = "CHAT_LAWYER"
    BY <2>1 DEF Marked, InFlight
  <2> QED
    BY <2>1, <2>2 DEF RowOrHandover, HandedTo, CanWrite, InFlight
<1> QED
  BY <1>1, Inductive, PTL

-----------------------------------------------------------------------------
(* The hand-over as Handover promises it.  A step is of one request, on one *)
(* thread, and brings at most that request's own staff user to it.          *)

LocalTo(r, T) ==
    /\ OnlyOn(T) /\ Growing /\ rejected' \subseteq rejected \cup {T}
    /\ \A q \in Requests \ {r} : req'[q] = req[q]
    /\ req[r].thread \in {T, None} /\ req'[r].thread \in {T, None}
    /\ \A s \in Staff : active'[T][s] > 0 => active[T][s] > 0 \/ s = req'[r].who

LEMMA ArriveIsLocal ==
    ASSUME IInv, NEW r \in Requests, Arrive(r)
    PROVE  \E T \in Threads : LocalTo(r, T)
<1>1. PICK T \in Threads, op \in {"request", "message", "admin_message"}, at \in Labels,
           who \in Staff \cup {None} : Accept(r, op, at, T, who)
  BY DEF Arrive, ArriveRequest, ArriveMessage, ArriveAdminMessage, Labels
<1>2. req[r].at = "idle" /\ req[r].thread = None
  BY <1>1, Known DEF Accept, Reached
<1>3. req' = [req EXCEPT ![r] = [at |-> at, op |-> op, thread |-> T, who |-> who, marked |-> FALSE]]
  BY <1>1 DEF Accept
<1>4. UNCHANGED <<rows, rejected>>
  BY <1>1 DEF Accept
<1>5. req'[r].thread = T /\ \A q \in Requests \ {r} : req'[q] = req[q]
  BY <1>3, Known
<1> QED
  BY <1>2, <1>4, <1>5 DEF LocalTo, OnlyOn, Growing, rows

\* A step whose request stays on its thread, or is answered.
LEMMA KeepsThread ==
    ASSUME IInv, NEW r \in Requests, NEW label,
           Goto(r, label) \/ Reply(r)
    PROVE  /\ \A q \in Requests \ {r} : req'[q] = req[q]
           /\ req'[r].thread \in {req[r].thread, None}
           /\ Goto(r, label) => req'[r].who = req[r].who
BY Known DEF Goto, Reply, NoRequest, Request

LEMMA AnswerIsLocal ==
    ASSUME IInv, NEW r \in Requests, Answer(r)
    PROVE  \E T \in Threads : LocalTo(r, T)
<1>1. req[r].at # "idle"
  BY DEF Answer, CountLawyers, Finalize, Assign, CompanyStatus, Notify, Mark, ClientLink,
         CreateTask, ReadChat, AdminMark, FindLink, FindActive, Join, JoinMark, Post,
         CallFails, At
<1>2. req[r].thread \in Threads
  BY <1>1, Known DEF Request, Reached
<1> DEFINE T == req[r].thread
<1>3. CASE CountLawyers(r) \/ ReadChat(r)
  <2>1. UNCHANGED <<rows, rejected>>
    BY <1>3 DEF CountLawyers, ReadChat, Calm
  <2>2. /\ \A q \in Requests \ {r} : req'[q] = req[q]
        /\ req'[r].thread \in {T, None}
    <3>1. CASE CountLawyers(r)
      <4>1. CASE Reply(r)
        BY <4>1, KeepsThread
      <4>2. ASSUME NEW s \in Lawyers,
                   req' = [req EXCEPT ![r].who = s, ![r].at = "finalize"]
            PROVE  /\ \A q \in Requests \ {r} : req'[q] = req[q]
                   /\ req'[r].thread = T
        BY <4>2, Known DEF Request
      <4> QED
        BY <3>1, <4>1, <4>2 DEF CountLawyers
    <3>2. CASE ReadChat(r)
      <4>1. PICK m, l : req' = [req EXCEPT ![r].marked = m, ![r].at = l]
        BY <3>2 DEF ReadChat
      <4> QED
        BY <4>1, Known DEF Request
    <3> QED
      BY <1>3, <3>1, <3>2
  <2> QED
    BY <1>2, <2>1, <2>2 DEF LocalTo, OnlyOn, Growing, rows
<1>4. CASE FindLink(r) \/ FindActive(r) \/ Post(r) \/ CallFails(r)
  <2>1. UNCHANGED rows /\ rejected \subseteq rejected' /\ rejected' \subseteq rejected \cup {T}
    BY <1>4 DEF FindLink, FindActive, Post, CallFails, Calm
  <2>2. Reply(r) \/ \E label : Goto(r, label)
    BY <1>4 DEF FindLink, FindActive, Post, CallFails
  <2>3. /\ \A q \in Requests \ {r} : req'[q] = req[q]
        /\ req'[r].thread \in {T, None}
    BY <2>2, KeepsThread
  <2> QED
    BY <1>2, <2>1, <2>3 DEF LocalTo, OnlyOn, Growing, rows
<1>5. CASE Finalize(r)
  <2>1. Goto(r, "assign")
    BY <1>5 DEF Finalize
  <2>2. /\ \A q \in Requests \ {r} : req'[q] = req[q]
        /\ req'[r].thread \in {T, None}
    BY <2>1, KeepsThread
  <2>3. /\ UNCHANGED <<linked, chatType, filed, rejected>>
        /\ \A t \in Threads \ {T} : active'[t] = active[t]
        /\ \A s \in Staff : active'[T][s] = 0
    BY <1>2, <1>5 DEF Finalize, Calm, IInv, RowsTyped
  <2> QED
    BY <1>2, <2>2, <2>3 DEF LocalTo, OnlyOn, Growing
<1>6. CASE Assign(r) \/ Join(r)
  <2>1. CreateRow(req[r]) /\ (\E label : Goto(r, label)) /\ rejected' = rejected
    BY <1>6 DEF Assign, Join, Calm
  <2>2. /\ \A q \in Requests \ {r} : req'[q] = req[q]
        /\ req'[r].thread \in {T, None} /\ req'[r].who = req[r].who
    BY <2>1, KeepsThread
  <2>3. req[r].who \in Staff
    BY <1>6, Known DEF Assign, Join, At, Reached
  <2>4. /\ UNCHANGED <<chatType, filed>> /\ linked' = linked \cup {<<T, req[r].who>>}
        /\ \A t \in Threads \ {T} : active'[t] = active[t]
        /\ \A s \in Staff \ {req[r].who} : active'[T][s] = active[T][s]
    BY <1>2, <2>1, <2>3 DEF CreateRow, IInv, RowsTyped
  <2> QED
    BY <1>2, <2>1, <2>2, <2>4 DEF LocalTo, OnlyOn, Growing
<1>7. CASE Mark(r) \/ AdminMark(r) \/ JoinMark(r)
  <2>1. MarkThread(r) /\ (\E label : Goto(r, label)) /\ rejected' = rejected
    BY <1>7 DEF Mark, AdminMark, JoinMark, Calm
  <2>2. /\ \A q \in Requests \ {r} : req'[q] = req[q]
        /\ req'[r].thread \in {T, None}
    BY <2>1, KeepsThread
  <2>3. /\ UNCHANGED <<active, linked, filed>>
        /\ \A t \in Threads \ {T} : chatType'[t] = chatType[t]
        /\ chatType'[T] = "CHAT_LAWYER"
    BY <1>2, <2>1 DEF MarkThread, IInv, RowsTyped
  <2> QED
    BY <1>2, <2>1, <2>2, <2>3 DEF LocalTo, OnlyOn, Growing
<1>8. CASE CompanyStatus(r) \/ Notify(r) \/ ClientLink(r) \/ CreateTask(r)
  <2>1. UNCHANGED <<active, linked, chatType, rejected>> /\ filed \subseteq filed'
    BY <1>8 DEF CompanyStatus, Notify, ClientLink, CreateTask, File, Calm
  <2>2. Reply(r) \/ \E label : Goto(r, label)
    BY <1>8 DEF CompanyStatus, Notify, ClientLink, CreateTask
  <2>3. /\ \A q \in Requests \ {r} : req'[q] = req[q]
        /\ req'[r].thread \in {T, None}
    BY <2>2, KeepsThread
  <2> QED
    BY <1>2, <2>1, <2>3 DEF LocalTo, OnlyOn, Growing
<1> QED
  BY <1>3, <1>4, <1>5, <1>6, <1>7, <1>8 DEF Answer

\* A thread taken from the chatbot has a row, or a request on the way to one.
LEMMA SomebodyAnswers == IInv => Promise!InHands
<1> SUFFICES ASSUME IInv, NEW t \in Turned \ rejected
             PROVE  Handlers[t] # {}
  BY DEF Promise!InHands
<1>1. /\ t \in Threads /\ chatType[t] = "CHAT_LAWYER"
      /\ Joined(t) /\ \A s \in Staff : RowOrHandover(t, s)
  BY DEF Turned, IInv, ThreadOK
<1>2. Handlers[t] = {s \in Staff : active[t][s] > 0} \cup Coming(t)
  BY <1>1 DEF Handlers
<1>3. ASSUME NEW s \in Staff, <<t, s>> \in linked PROVE Handlers[t] # {}
  <2>1. CASE \E l \in Staff : active[t][l] > 0
    BY <1>2, <2>1
  <2>2. CASE \E r \in Requests : req[r].thread = t /\ req[r].at = "assign"
    <3>1. PICK r \in Requests : req[r].thread = t /\ req[r].at = "assign"
      BY <2>2
    <3>2. req[r].who \in Staff
      BY <3>1, Known DEF Reached
    <3>3. req[r].who \in Coming(t)
      BY <3>1, <3>2 DEF Coming
    <3> QED
      BY <1>2, <3>3
  <2> QED
    BY <1>1, <1>3, <2>1, <2>2 DEF RowOrHandover
<1>4. ASSUME NEW r \in Requests, req[r].thread = t, req[r].at \in {"find_link", "join"}
      PROVE  Handlers[t] # {}
  <2>1. req[r].who \in Staff
    BY <1>4, Known DEF Reached
  <2>2. CASE <<t, req[r].who>> \in linked
    BY <1>3, <2>1, <2>2
  <2>3. CASE <<t, req[r].who>> \notin linked
    <3>1. req[r].who \in Coming(t)
      BY <1>4, <2>1, <2>3 DEF Coming
    <3> QED
      BY <1>2, <3>1
  <2> QED
    BY <2>2, <2>3
<1> QED
  BY <1>1, <1>3, <1>4 DEF Joined

LEMMA AnswersNext == IInv' => Promise!InHands'
BY SomebodyAnswers, PTL

\* Elsewhere the same staff answer.
LEMMA OthersAnswer ==
    ASSUME IInv, NEW r \in Requests, NEW T \in Threads, LocalTo(r, T),
           NEW t \in Threads \ {T}
    PROVE  /\ Handlers'[t] = Handlers[t] /\ (t \in Turned' <=> t \in Turned)
           /\ t \in rejected' <=> t \in rejected
<1>1. /\ active'[t] = active[t] /\ chatType'[t] = chatType[t]
      /\ \A s \in Staff : <<t, s>> \in linked' <=> <<t, s>> \in linked
      /\ t \in rejected' <=> t \in rejected
  BY DEF LocalTo, OnlyOn, Growing
<1>2. \A q \in Requests : req'[q].thread = t \/ req[q].thread = t => req'[q] = req[q]
  BY NoneIsNobody DEF LocalTo
<1>3. Coming(t)' = Coming(t)
  BY <1>1, <1>2 DEF Coming
<1> QED
  BY <1>1, <1>3 DEF Handlers, Turned

\* Who comes to answer T is the request's own staff user.
LEMMA OneComes ==
    ASSUME IInv, IInv', NEW r \in Requests, NEW T \in Threads, LocalTo(r, T),
           T \in Turned \ rejected, T \in Turned' \ rejected',
           NEW s \in Handlers'[T] \ Handlers[T]
    PROVE  s = req'[r].who
<1>1. /\ Handlers[T] = {u \in Staff : active[T][u] > 0} \cup Coming(T)
      /\ Handlers'[T] = {u \in Staff : active'[T][u] > 0} \cup Coming(T)'
  BY DEF Handlers
<1>2. CASE s \in Coming(T)'
  <2>1. PICK q \in Requests :
          /\ req'[q].thread = T /\ req'[q].who = s
          /\ \/ req'[q].at \in {"assign", "join"}
             \/ req'[q].at = "find_link" /\ <<T, s>> \notin linked'
    BY <1>2 DEF Coming
  <2>2. q # r => s \in Coming(T)
    BY <1>2, <2>1 DEF LocalTo, Growing, Coming
  <2> QED
    BY <1>1, <2>1, <2>2
<1>3. CASE s \in Staff /\ active'[T][s] > 0
  BY <1>1, <1>3 DEF LocalTo
<1> QED
  BY <1>1, <1>2, <1>3

LEMMA StepIsHandover ==
    ASSUME IInv, IInv', NEW r \in Requests, NEW T \in Threads, LocalTo(r, T)
    PROVE  Promise!Next \/ UNCHANGED <<Turned, Handlers, rejected>>
<1>1. Turned \subseteq Turned' /\ Turned' \subseteq Turned \cup {T} /\ Turned' \subseteq Threads
  <2>1. T \in Turned => T \in Turned'
    BY DEF LocalTo, Growing, Turned
  <2>2. Turned \subseteq Threads /\ Turned' \subseteq Threads
    BY DEF Turned
  <2> QED
    BY <2>1, <2>2, OthersAnswer
<1>2. /\ rejected \subseteq rejected' /\ rejected' \subseteq rejected \cup {T}
  BY DEF LocalTo, Growing
<1>3. PICK h \in [Threads -> SUBSET Staff] : h = Handlers
  BY DEF Handlers, Coming
<1>4. PICK g \in [Threads -> SUBSET Staff] : g = Handlers'
  BY DEF Handlers, Coming
<1>5. g = [h EXCEPT ![T] = g[T]]
  BY <1>3, <1>4, OthersAnswer
<1>6. CASE T \in rejected'
  <2>1. g[T] = {}
    BY <1>4, <1>6 DEF Handlers
  <2>2. rejected' = rejected \cup {T} /\ Turned' \in {Turned, Turned \cup {T}}
    BY <1>1, <1>2, <1>6
  <2>3. Handlers' = [Handlers EXCEPT ![T] = {}]
    BY <1>3, <1>4, <1>5, <2>1
  <2>4. Promise!Fail(T)
    BY <2>2, <2>3 DEF Promise!Fail
  <2> QED
    BY <2>4 DEF Promise!Next
<1>7. CASE T \notin rejected' /\ T \notin Turned'
  <2>1. g[T] = {} /\ h[T] = {}
    BY <1>1, <1>3, <1>4, <1>7 DEF Handlers
  <2>2. g = h
    BY <1>5, <2>1
  <2> QED
    BY <1>1, <1>2, <1>3, <1>4, <1>7, <2>2
<1>8. CASE T \notin rejected' /\ T \in Turned'
  <2>1. g[T] # {}
    <3>1. Promise!InHands'
      BY AnswersNext
    <3>2. Handlers'[T] # {}
      BY <1>8, <3>1 DEF Promise!InHands
    <3> QED
      BY <1>4, <3>2
  <2>2. rejected' = rejected /\ T \notin rejected
    BY <1>2, <1>8
  <2>3. CASE T \notin Turned
    <3>1. Turned' = Turned \cup {T}
      BY <1>1, <1>8
    <3>2. Promise!Turn(T)
      BY <1>3, <1>4, <1>5, <2>1, <2>2, <2>3, <3>1 DEF Promise!Turn
    <3> QED
      BY <3>2 DEF Promise!Next
  <2>4. CASE T \in Turned
    <3>1. Turned' = Turned
      BY <1>1, <2>4
    <3>2. \A s \in g[T] \ h[T] : s = req'[r].who
      BY <1>3, <1>4, <1>8, <2>2, <2>4, OneComes
    <3>3. PICK s \in g[T] : g[T] \ {s} \subseteq h[T]
      BY <2>1, <3>2
    <3>4. s \in Staff /\ g[T] \ {s} \in SUBSET h[T] /\ g[T] = (g[T] \ {s}) \cup {s}
      BY <1>3, <1>4, <3>3
    <3>5. g = [h EXCEPT ![T] = (g[T] \ {s}) \cup {s}]
      BY <1>5, <3>4
    <3>6. Promise!Take(T, s)
      BY <1>3, <1>4, <2>2, <2>4, <3>1, <3>4, <3>5 DEF Promise!Take
    <3> QED
      BY <3>4, <3>6 DEF Promise!Next
  <2> QED
    BY <2>3, <2>4
<1> QED
  BY <1>6, <1>7, <1>8

\* The awaited calls of any number of overlapping requests hand threads over as
\* the atomic steps of Handover do (requestLawyer, sendMessage,
\* sendAdminMessage): each has its request's own staff user join those who
\* answer, and by IInv somebody always does.
THEOREM ImplementsPromise == Spec => ImplementsHandover
<1>1. Init => Promise!Init
  BY DEF Init, Promise!Init, Turned, Handlers
<1>2. IInv /\ IInv' /\ [Next]_vars => [Promise!Next]_<<Turned, Handlers, rejected>>
  <2> SUFFICES ASSUME IInv, IInv', [Next]_vars
               PROVE  Promise!Next \/ UNCHANGED <<Turned, Handlers, rejected>>
    OBVIOUS
  <2>1. CASE UNCHANGED vars
    BY <2>1 DEF vars, rows, Turned, Handlers, Coming
  <2>2. ASSUME NEW r \in Requests, Arrive(r) \/ Answer(r)
        PROVE  Promise!Next \/ UNCHANGED <<Turned, Handlers, rejected>>
    <3>1. PICK T \in Threads : LocalTo(r, T)
      BY <2>2, ArriveIsLocal, AnswerIsLocal
    <3> QED
      BY <3>1, StepIsHandover
  <2> QED
    BY <2>1, <2>2 DEF Next
<1> QED
  BY <1>1, <1>2, Inductive, PTL DEF Spec, ImplementsHandover, Promise!Spec

\* From its turn on, somebody answers a thread or is on the way to its row, at
\* every await of every request, as long as no call on it has rejected.
THEOREM HandsAreNeverEmpty == Spec => []Promise!InHands
BY SomebodyAnswers, Inductive, PTL

-----------------------------------------------------------------------------
(****************************************************************************)
(* ChatPrompt                                                               *)
(****************************************************************************)

\* What the response of a request of kind op has got so far.
Answered(op, sent, ended) ==
    /\ op # "stream" => sent = <<>> /\ ~ ended
    /\ \A i \in 1 .. Len(sent) : sent[i] \in Prompt!Endings => i = Len(sent)
    /\ ended <=> (sent # <<>> /\ sent[Len(sent)] \in Prompt!Endings)
    /\ Len(sent) <= MaxSent + (IF ended THEN 1 ELSE 0)

ByLawyer(t) == t \in Threads /\ chatType[t] = "CHAT_LAWYER"

\* What a request relies on at each label.
Knows(q) ==
    /\ q.at # "idle" => q.user \in Prompt!Keys /\ q.thread \in Threads
    /\ q.at \in {"stream", "get_state"} => q.agent = q.user
    /\ q.at = "get_thread" /\ ~ q.ended => q.sent = <<>>
    /\ q.handed \/ q.seen = "CHAT_LAWYER" => ByLawyer(q.thread)
    /\ q.at = "post" => q.seen = "CHAT_LAWYER"
    /\ q.handed /\ q.op \in {"stream", "ask"} =>
         /\ q.at \notin {"connect", "pause", "opened", "stream"}
         /\ q.at \in {"idle", "get_thread", "validate"} \/ q.seen = "CHAT_LAWYER"

AgentsTyped ==
    /\ agent \in Prompt!Keys
    /\ cache \in [Prompt!Keys -> Prompt!Keys \cup {None}]
    /\ \A k \in Prompt!Keys : cache[k] \in {k, None}
    /\ chatType \in [Threads -> {"CHATBOT", "CHAT_LAWYER"}]
    /\ titled \subseteq Threads

\* A request whose agent is open has the turn, so nobody else has set the agent.
PInv ==
    /\ AgentsTyped
    /\ prompts \in [Requests -> Prompt!Request]
    /\ turn \in Requests \cup {None}
    /\ \A r \in Requests :
         /\ Knows(prompts[r])
         /\ Answered(prompts[r].op, prompts[r].sent, prompts[r].ended)
         /\ prompts[r].at = "opened" => turn = r /\ agent = prompts[r].user

LEMMA PromptKnown ==
    ASSUME PInv, NEW r \in Requests
    PROVE  /\ prompts \in [Requests -> Prompt!Request] /\ prompts[r] \in Prompt!Request
           /\ Knows(prompts[r])
           /\ Answered(prompts[r].op, prompts[r].sent, prompts[r].ended)
           /\ None \notin Prompt!Keys
BY SpecialKeys DEF PInv, Prompt!Keys

\* Request r becomes q: either nothing stays open, or r has just opened its agent.
LEMMA PromptStep ==
    ASSUME PInv, NEW r \in Requests, NEW q \in Prompt!Request,
           prompts' = [prompts EXCEPT ![r] = q],
           Knows(q), Answered(q.op, q.sent, q.ended), chatType' = chatType, AgentsTyped',
           \/ turn \in {None, r} /\ turn' = None /\ q.at # "opened"
           \/ turn = None /\ turn' = r /\ agent' = q.user
    PROVE  PInv'
<1>1. prompts' \in [Requests -> Prompt!Request]
  BY PromptKnown
<1>2. turn' \in Requests \cup {None}
  OBVIOUS
<1>3. ASSUME NEW s \in Requests
      PROVE  /\ Knows(prompts[s])'
             /\ Answered(prompts[s].op, prompts[s].sent, prompts[s].ended)'
             /\ prompts'[s].at = "opened" => turn' = s /\ agent' = prompts'[s].user
  <2>1. CASE s = r
    <3>1. prompts'[s] = q
      BY <2>1, PromptKnown
    <3> QED
      BY <2>1, <3>1, SpecialKeys DEF Knows, ByLawyer, Answered
  <2>2. CASE s # r
    <3>1. PICK x : x = prompts[s] /\ prompts'[s] = x
      BY <2>2, PromptKnown
    <3>2. Knows(x) /\ Answered(x.op, x.sent, x.ended)
      BY <3>1, PromptKnown
    <3>3. x.at # "opened"
      BY <2>2, <3>1, SpecialKeys DEF PInv
    <3> QED
      BY <3>1, <3>2, <3>3 DEF Knows, ByLawyer, Answered
  <2> QED
    BY <2>1, <2>2
<1> QED
  BY <1>1, <1>2, <1>3 DEF PInv

-----------------------------------------------------------------------------
(* The response.                                                            *)

LEMMA OneMore ==
    ASSUME NEW s \in Seq(Prompt!Events), NEW e \in Prompt!Events,
           Answered("stream", s, FALSE),
           e \notin Prompt!Endings => Len(s) < MaxSent
    PROVE  /\ Append(s, e) \in Seq(Prompt!Events)
           /\ Answered("stream", Append(s, e), e \in Prompt!Endings)
<1> DEFINE a == Append(s, e)
<1>1. a \in Seq(Prompt!Events) /\ Len(a) = Len(s) + 1 /\ a[Len(a)] = e /\ a # <<>>
  OBVIOUS
<1>2. \A i \in 1 .. Len(s) : a[i] = s[i] /\ s[i] \notin Prompt!Endings
  <2>1. \A i \in 1 .. Len(s) : s[i] \in Prompt!Endings => i = Len(s)
    BY DEF Answered
  <2>2. s # <<>> => s[Len(s)] \notin Prompt!Endings
    BY DEF Answered
  <2> QED
    BY <2>1, <2>2
<1>3. \A i \in 1 .. Len(a) : a[i] \in Prompt!Endings => i = Len(a)
  BY <1>1, <1>2
<1>4. Len(a) <= MaxSent + (IF e \in Prompt!Endings THEN 1 ELSE 0)
  <2>1. Len(s) <= MaxSent /\ Len(s) \in Nat /\ MaxSent \in Nat
    BY MaxSentType DEF Answered
  <2> QED
    BY <1>1, <2>1
<1> QED
  BY <1>1, <1>3, <1>4 DEF Answered

\* q and w differ in the response only.
SameRequest(q, w) ==
    /\ w.at = q.at /\ w.op = q.op /\ w.user = q.user /\ w.thread = q.thread
    /\ w.handed = q.handed /\ w.seen = q.seen /\ w.tries = q.tries
    /\ w.agent = q.agent /\ w.got = q.got

LEMMA WrittenIs ==
    ASSUME NEW q \in Prompt!Request, NEW e \in Prompt!Events,
           Answered(q.op, q.sent, q.ended),
           e \notin Prompt!Endings => (Prompt!IsOpen(q) => Len(q.sent) < MaxSent)
    PROVE  \E w \in Prompt!Request :
             /\ w = Prompt!Written(q, e) /\ SameRequest(q, w) /\ w.ended = q.ended
             /\ Answered(w.op, w.sent, IF Prompt!IsOpen(q) THEN e \in Prompt!Endings
                                                           ELSE w.ended)
<1>1. CASE ~ Prompt!IsOpen(q)
  BY <1>1 DEF Prompt!Written, SameRequest
<1>2. CASE Prompt!IsOpen(q)
  <2>1. q.sent \in Seq(Prompt!Events) /\ q.op = "stream" /\ q.ended = FALSE
    BY <1>2 DEF Prompt!IsOpen, Prompt!Request
  <2>2. PICK a \in Seq(Prompt!Events) : /\ a = Append(q.sent, e)
                                        /\ Answered("stream", a, e \in Prompt!Endings)
    BY <1>2, <2>1, OneMore
  <2>3. PICK w \in Prompt!Request : w = [q EXCEPT !.sent = a]
    BY DEF Prompt!Request
  <2>4. SameRequest(q, w) /\ w.ended = q.ended /\ w.sent = a
    BY <2>3 DEF Prompt!Request, SameRequest
  <2>5. w = Prompt!Written(q, e)
    BY <1>2, <2>2, <2>3 DEF Prompt!Written
  <2>6. Answered(w.op, w.sent, e \in Prompt!Endings)
    BY <2>1, <2>2, <2>4 DEF SameRequest
  <2> QED
    BY <1>2, <2>4, <2>5, <2>6
<1> QED
  BY <1>1, <1>2

LEMMA WrittenStays ==
    ASSUME NEW q \in Prompt!Request, NEW e \in Prompt!Events \ Prompt!Endings,
           Answered(q.op, q.sent, q.ended),
           Prompt!IsOpen(q) => Len(q.sent) < MaxSent
    PROVE  \E w \in Prompt!Request :
             /\ w = Prompt!Written(q, e) /\ SameRequest(q, w)
             /\ w.ended = q.ended /\ Answered(w.op, w.sent, w.ended)
<1>1. PICK w \in Prompt!Request :
         /\ w = Prompt!Written(q, e) /\ SameRequest(q, w) /\ w.ended = q.ended
         /\ Answered(w.op, w.sent, IF Prompt!IsOpen(q) THEN e \in Prompt!Endings
                                                       ELSE w.ended)
  BY WrittenIs
<1>2. CASE Prompt!IsOpen(q)
  <2>1. w.ended = FALSE
    BY <1>1, <1>2 DEF Prompt!IsOpen, Prompt!Request
  <2> QED
    BY <1>1, <1>2, <2>1 DEF Answered
<1>3. CASE ~ Prompt!IsOpen(q)
  BY <1>1, <1>3
<1> QED
  BY <1>2, <1>3

LEMMA EndedIs ==
    ASSUME NEW q \in Prompt!Request, NEW e \in Prompt!Endings,
           Answered(q.op, q.sent, q.ended)
    PROVE  \E w \in Prompt!Request :
             w = Prompt!Ended(q, e) /\ SameRequest(q, w) /\ Answered(w.op, w.sent, w.ended)
             /\ (q.op = "stream" => w.ended)
<1>0. e \in Prompt!Events
  BY DEF Prompt!Events, Prompt!Endings
<1>1. PICK v \in Prompt!Request :
         /\ v = Prompt!Written(q, e) /\ SameRequest(q, v) /\ v.ended = q.ended
         /\ Answered(v.op, v.sent, IF Prompt!IsOpen(q) THEN e \in Prompt!Endings
                                                       ELSE v.ended)
  BY <1>0, WrittenIs
<1>2. PICK w \in Prompt!Request : w = [v EXCEPT !.ended = q.op = "stream"]
  BY Zenon DEF Prompt!Request
<1>3. SameRequest(v, w) /\ w.sent = v.sent /\ (w.ended <=> q.op = "stream")
  BY <1>2 DEF Prompt!Request, SameRequest
<1>4. Answered(w.op, w.sent, w.ended)
  <2>1. q.ended => q.op = "stream"
    BY DEF Answered
  <2> QED
    BY <1>1, <1>3, <2>1 DEF Answered, Prompt!IsOpen, SameRequest
<1> QED
  BY <1>1, <1>2, <1>3, <1>4 DEF Prompt!Ended, SameRequest

LEMMA FinishedIs ==
    ASSUME NEW q \in Prompt!Request, NEW e \in Prompt!Endings,
           Answered(q.op, q.sent, q.ended)
    PROVE  \E f \in Prompt!Request :
             /\ f = Prompt!Finished(q, e) /\ f.at = "idle"
             /\ Knows(f) /\ Answered(f.op, f.sent, f.ended)
<1>1. PICK w \in Prompt!Request :
         w = Prompt!Ended(q, e) /\ Answered(w.op, w.sent, w.ended)
  BY EndedIs
<1>2. Prompt!NoRequest \in [at     : Prompt!Labels,
            op     : Ops \cup {"none"},
            user   : Prompt!Keys \cup {None},
            thread : Threads \cup {None},
            handed : BOOLEAN,
            seen   : {"CHATBOT", "CHAT_LAWYER"},
            tries  : 0 .. Prompt!Retries,
            agent  : Prompt!Keys \cup {None},
            got    : BOOLEAN,
            sent   : {<<>>},
            ended  : BOOLEAN]
  BY DEF Prompt!NoRequest, Prompt!Labels, Prompt!Retries
<1>3. PICK f \in Prompt!Request :
         f = [Prompt!NoRequest EXCEPT !.op = w.op, !.thread = w.thread, !.sent = w.sent,
                                      !.ended = w.ended]
  BY <1>2 DEF Prompt!Request
<1>4. /\ f.at = "idle" /\ ~ f.handed /\ f.seen = "CHATBOT"
      /\ f.op = w.op /\ f.sent = w.sent /\ f.ended = w.ended
  BY <1>3 DEF Prompt!NoRequest
<1>5. f = Prompt!Finished(q, e)
  BY <1>1, <1>3 DEF Prompt!Finished
<1>6. Knows(f)
  BY <1>4 DEF Knows
<1> QED
  BY <1>1, <1>4, <1>5, <1>6

-----------------------------------------------------------------------------
(* Steps of one request.                                                    *)

LEMMA AloneStep ==
    ASSUME PInv, NEW r \in Requests, NEW q \in Prompt!Request, Prompt!Put(r, q), Prompt!Alone,
           q.at # "opened", Knows(q), Answered(q.op, q.sent, q.ended)
    PROVE  PInv'
<1>1. AgentsTyped' /\ chatType' = chatType /\ turn = None /\ turn' = None
  BY DEF PInv, AgentsTyped, Prompt!Alone
<1> QED
  BY <1>1, PromptStep DEF Prompt!Put

\* q is p at another label, of another agent, or after another try.
SameCall(p, q) ==
    /\ q.op = p.op /\ q.user = p.user /\ q.thread = p.thread
    /\ q.handed = p.handed /\ q.seen = p.seen
    /\ q.sent = p.sent /\ q.ended = p.ended

Relabels(p, q, at) == q = [p EXCEPT !.at = at] /\ q.at = at /\ q.agent = p.agent /\ SameCall(p, q)

LEMMA Relabelled ==
    ASSUME NEW p \in Prompt!Request, NEW at \in Prompt!Labels
    PROVE  \E q \in Prompt!Request : Relabels(p, q, at)
<1>1. PICK q \in Prompt!Request : q = [p EXCEPT !.at = at]
  BY DEF Prompt!Request
<1> QED
  BY <1>1 DEF Prompt!Request, Relabels, SameCall

LEMMA LabelsHold ==
    {"get_thread", "validate", "title", "save_title", "post", "connect", "pause", "opened",
     "stream", "get_state", "link", "process", "set_file"} \subseteq Prompt!Labels
BY DEF Prompt!Labels

\* The response has ended, and nothing but the cache may have changed.
LEMMA FinishStep ==
    ASSUME PInv, NEW r \in Requests, NEW e \in Prompt!Endings, turn = None,
           Prompt!Put(r, Prompt!Finished(prompts[r], e)), AgentsTyped',
           chatType' = chatType, turn' = turn
    PROVE  PInv'
<1>1. PICK f \in Prompt!Request :
         /\ f = Prompt!Finished(prompts[r], e) /\ f.at = "idle"
         /\ Knows(f) /\ Answered(f.op, f.sent, f.ended)
  BY PromptKnown, FinishedIs
<1> QED
  BY <1>1, PromptStep DEF Prompt!Put

LEMMA DroppedAgent ==
    ASSUME PInv, NEW u \in Prompt!Keys, Prompt!DropAgent(u),
           agent' = agent, chatType' = chatType, titled' = titled
    PROVE  AgentsTyped'
BY DEF PInv, AgentsTyped, Prompt!DropAgent, Prompt!CacheKey

LEMMA KeptAgents ==
    ASSUME PInv, UNCHANGED <<agent, cache, chatType, titled>>
    PROVE  AgentsTyped'
BY DEF PInv, AgentsTyped

LEMMA EndsAlone ==
    ASSUME PInv, NEW r \in Requests, Prompt!Alone, NEW e \in {"done", "failed"},
           Prompt!Put(r, Prompt!Finished(prompts[r], e))
    PROVE  PInv'
<1>1. e \in Prompt!Endings /\ turn = None /\ chatType' = chatType /\ turn' = turn
  BY DEF Prompt!Alone, Prompt!Endings
<1>2. AgentsTyped'
  BY KeptAgents DEF Prompt!Alone
<1> QED
  BY <1>1, <1>2, FinishStep

-----------------------------------------------------------------------------
(* Arrival.                                                                 *)

LEMMA AcceptKeepsPInv ==
    ASSUME PInv, NEW r \in Requests, NEW op, NEW u \in Prompt!Keys, NEW t \in Threads,
           NEW at \in {"get_thread", "validate"}, Prompt!Accept(r, op, u, t, at)
    PROVE  PInv'
<1> DEFINE turned == chatType[t] = "CHAT_LAWYER"
<1>1. PICK q \in Prompt!Request :
         q = [Prompt!NoRequest EXCEPT !.at = at, !.op = op, !.user = u, !.thread = t,
                                      !.handed = turned]
  <2>1. at \in Prompt!Labels /\ op \in Ops /\ 0 \in 0 .. 3 /\ <<>> \in Seq(Prompt!Events)
    BY LabelsHold DEF Prompt!Accept
  <2> HIDE DEF turned
  <2>2. (turned = TRUE \/ turned = FALSE)
    BY DEF turned
  <2> QED
    BY <2>1, <2>2 DEF Prompt!NoRequest, Prompt!Request, Prompt!Retries
<1>2. /\ q.at = at /\ q.op = op /\ q.user = u /\ q.thread = t /\ q.handed = turned
      /\ q.seen = "CHATBOT" /\ q.sent = <<>> /\ q.ended = FALSE
  BY <1>1 DEF Prompt!NoRequest
<1>3. Knows(q)
  BY <1>2 DEF Knows, ByLawyer
<1>4. Answered(q.op, q.sent, q.ended)
  BY <1>2, MaxSentType DEF Answered
<1> QED
  BY <1>1, <1>2, <1>3, <1>4, AloneStep DEF Prompt!Accept

LEMMA ArriveKeepsPInv ==
    ASSUME PInv, NEW r \in Requests, Prompt!Arrive(r)
    PROVE  PInv'
<1>1. \A t \in Threads : Owner[t] \in Prompt!Keys
  BY OwnerType DEF Prompt!Keys
<1>2. Default \in Prompt!Keys /\ Users \subseteq Prompt!Keys
  BY DEF Prompt!Keys
<1>3. ASSUME NEW t \in Threads, Prompt!ArrivePrompt(r, t) PROVE PInv'
  BY <1>1, <1>3, AcceptKeepsPInv DEF Prompt!ArrivePrompt
<1>4. ASSUME NEW t \in Threads, Prompt!ArriveUpload(r, t) PROVE PInv'
  BY <1>1, <1>4, AcceptKeepsPInv DEF Prompt!ArriveUpload
<1>5. ASSUME NEW t \in Threads, Prompt!ArriveHistory(r, t) PROVE PInv'
  BY <1>2, <1>5, AcceptKeepsPInv DEF Prompt!ArriveHistory
<1>6. ASSUME NEW t \in Threads, Prompt!ArriveAdminHistory(r, t) PROVE PInv'
  BY <1>2, <1>6, AcceptKeepsPInv DEF Prompt!ArriveAdminHistory
<1> QED
  BY <1>3, <1>4, <1>5, <1>6 DEF Prompt!Arrive

\* A thread that is handed over stays so, and no request is under way alone.
LEMMA HandOverKeepsPInv ==
    ASSUME PInv, NEW t \in Threads, Prompt!HandOver(t)
    PROVE  PInv'
<1>1. /\ chatType' \in [Threads -> {"CHATBOT", "CHAT_LAWYER"}]
      /\ \A s \in Threads : chatType[s] = "CHAT_LAWYER" => chatType'[s] = "CHAT_LAWYER"
  BY DEF PInv, AgentsTyped, Prompt!HandOver
<1>2. AgentsTyped'
  BY <1>1 DEF PInv, AgentsTyped, Prompt!HandOver
<1>3. ASSUME NEW r \in Requests PROVE Knows(prompts[r])'
  <2>1. PICK x : x = prompts[r] /\ x = prompts'[r] /\ Knows(x)
    BY DEF PInv, Prompt!HandOver
  <2>2. Knows(x)'
    BY <1>1, <2>1 DEF Knows, ByLawyer
  <2> QED
    BY <2>1, <2>2 DEF Knows, ByLawyer
<1> QED
  BY <1>2, <1>3 DEF PInv, Prompt!HandOver, Answered

-----------------------------------------------------------------------------
(* initializeAgent.                                                         *)

LEMMA OpenAgentKeepsPInv ==
    ASSUME PInv, NEW r \in Requests, NEW q \in Prompt!Request, turn = None,
           Prompt!OpenAgent(r, q), q.user \in Prompt!Keys, q.thread \in Threads,
           q.handed \/ q.seen = "CHAT_LAWYER" => ByLawyer(q.thread),
           ~ (q.handed /\ q.op \in {"stream", "ask"}),
           Answered(q.op, q.sent, q.ended),
           chatType' = chatType, titled' \subseteq Threads
    PROVE  PInv'
<1>1. CASE cache[q.user] # None
  <2>1. PICK p \in Prompt!Request : Relabels(q, p, "opened")
    BY LabelsHold, Relabelled
  <2>2. agent' = q.user
    BY <1>1 DEF PInv, AgentsTyped, Prompt!OpenAgent, Prompt!CacheKey
  <2>3. AgentsTyped'
    BY <1>1, <2>2 DEF PInv, AgentsTyped, Prompt!OpenAgent, Prompt!CacheKey
  <2>4. Prompt!Put(r, p) /\ turn' = r
    BY <1>1, <2>1 DEF Prompt!OpenAgent, Prompt!CacheKey, Prompt!Resume, Relabels
  <2>5. Knows(p) /\ Answered(p.op, p.sent, p.ended) /\ p.user = q.user
    BY <2>1 DEF Knows, Relabels, SameCall
  <2> QED
    BY <2>1, <2>2, <2>3, <2>4, <2>5, PromptStep DEF Prompt!Put
<1>2. CASE cache[q.user] = None
  <2>1. PICK p \in Prompt!Request : p = [q EXCEPT !.at = "connect", !.tries = Prompt!Retries]
    <3>1. "connect" \in Prompt!Labels /\ 3 \in 0 .. 3
      BY LabelsHold
    <3> QED
      BY <3>1 DEF Prompt!Request, Prompt!Retries
  <2>2. p.at = "connect" /\ SameCall(q, p)
    BY <2>1 DEF Prompt!Request, SameCall
  <2>3. AgentsTyped' /\ Prompt!Put(r, p) /\ turn' = None
    BY <1>2, <2>1 DEF PInv, AgentsTyped, Prompt!OpenAgent, Prompt!CacheKey
  <2>4. Knows(p) /\ Answered(p.op, p.sent, p.ended)
    BY <2>2 DEF Knows, SameCall
  <2> QED
    BY <2>2, <2>3, <2>4, PromptStep DEF Prompt!Put
<1> QED
  BY <1>1, <1>2

LEMMA MakeAgentKeepsPInv ==
    ASSUME PInv, NEW r \in Requests, Prompt!MakeAgent(r)
    PROVE  PInv'
<1>1. prompts[r].at = "connect"
  BY DEF Prompt!MakeAgent, Prompt!At
<1>2. PICK q \in Prompt!Request : Relabels(prompts[r], q, "opened")
  <2>1. prompts[r] \in Prompt!Request /\ "opened" \in Prompt!Labels
    BY PromptKnown, LabelsHold
  <2> QED
    BY <2>1, Relabelled
<1>3. q.user \in Prompt!Keys /\ Knows(q) /\ Answered(q.op, q.sent, q.ended)
  BY <1>1, <1>2, PromptKnown DEF Knows, Relabels, SameCall
<1>4. AgentsTyped' /\ agent' = q.user
  BY <1>2, <1>3 DEF PInv, AgentsTyped, Prompt!MakeAgent, Prompt!CacheKey, Relabels, SameCall
<1> QED
  BY <1>2, <1>3, <1>4, PromptStep DEF Prompt!MakeAgent, Prompt!Put, Prompt!Resume, Relabels

LEMMA NoConnectionKeepsPInv ==
    ASSUME PInv, NEW r \in Requests, Prompt!NoConnection(r)
    PROVE  PInv'
<1>1. prompts[r].at = "connect"
  BY DEF Prompt!NoConnection, Prompt!At
<1>2. CASE prompts[r].tries > 1
  <2>1. PICK q \in Prompt!Request : q = [prompts[r] EXCEPT !.at = "pause", !.tries = @ - 1]
    <3>1. prompts[r] \in Prompt!Request /\ prompts[r].tries \in 0 .. 3
      BY PromptKnown DEF Prompt!Request, Prompt!Retries
    <3>2. prompts[r].tries - 1 \in 0 .. 3
      BY <1>2, <3>1
    <3> QED
      BY <3>1, <3>2, LabelsHold DEF Prompt!Request, Prompt!Retries
  <2>2. q.at = "pause" /\ SameCall(prompts[r], q)
    BY <2>1, PromptKnown DEF Prompt!Request, SameCall
  <2>3. Knows(q) /\ Answered(q.op, q.sent, q.ended)
    BY <1>1, <2>2, PromptKnown DEF Knows, SameCall
  <2> QED
    BY <1>2, <2>1, <2>2, <2>3, AloneStep DEF Prompt!NoConnection
<1>3. CASE ~ (prompts[r].tries > 1)
  <2>1. PICK q \in Prompt!Request : q = [prompts[r] EXCEPT !.tries = 0]
    <3>1. prompts[r] \in Prompt!Request /\ 0 \in 0 .. 3
      BY PromptKnown
    <3> QED
      BY <3>1 DEF Prompt!Request, Prompt!Retries
  <2>2. q.op = prompts[r].op /\ q.sent = prompts[r].sent /\ q.ended = prompts[r].ended
    BY <2>1, PromptKnown DEF Prompt!Request
  <2>3. "failed" \in Prompt!Endings /\ Answered(q.op, q.sent, q.ended)
    BY <2>2, PromptKnown DEF Prompt!Endings
  <2>4. PICK f \in Prompt!Request :
           /\ f = Prompt!Finished(q, "failed") /\ f.at = "idle"
           /\ Knows(f) /\ Answered(f.op, f.sent, f.ended)
    BY <2>3, FinishedIs
  <2> QED
    BY <1>3, <2>1, <2>4, AloneStep DEF Prompt!NoConnection
<1> QED
  BY <1>2, <1>3

LEMMA RetryConnectionKeepsPInv ==
    ASSUME PInv, NEW r \in Requests, Prompt!RetryConnection(r)
    PROVE  PInv'
<1>1. prompts[r].at = "pause"
  BY DEF Prompt!RetryConnection, Prompt!At
<1>2. PICK q \in Prompt!Request : Relabels(prompts[r], q, "connect")
  <2>1. prompts[r] \in Prompt!Request /\ "connect" \in Prompt!Labels
    BY PromptKnown, LabelsHold
  <2> QED
    BY <2>1, Relabelled
<1>3. Knows(q) /\ Answered(q.op, q.sent, q.ended)
  BY <1>1, <1>2, PromptKnown DEF Knows, Relabels, SameCall
<1> QED
  BY <1>2, <1>3, AloneStep DEF Prompt!RetryConnection, Relabels

LEMMA UseAgentKeepsPInv ==
    ASSUME PInv, NEW r \in Requests, Prompt!UseAgent(r)
    PROVE  PInv'
<1> DEFINE label == IF prompts[r].op \in Prompt!Readings THEN "get_state" ELSE "stream"
<1>1. prompts[r].at = "opened"
  BY DEF Prompt!UseAgent, Prompt!At
<1>2. turn = r /\ agent = prompts[r].user /\ agent \in Prompt!Keys
  BY <1>1 DEF PInv, AgentsTyped
<1>3. PICK q \in Prompt!Request : q = [prompts[r] EXCEPT !.at = label, !.agent = agent]
  <2>1. label \in Prompt!Labels
    BY LabelsHold
  <2> HIDE DEF label
  <2> QED
    BY <1>2, <2>1, PromptKnown DEF Prompt!Request
<1>4. /\ q.at = label /\ q.agent = agent /\ q.op = prompts[r].op /\ q.user = prompts[r].user
      /\ q.thread = prompts[r].thread /\ q.handed = prompts[r].handed
      /\ q.seen = prompts[r].seen /\ q.sent = prompts[r].sent /\ q.ended = prompts[r].ended
  BY <1>3, PromptKnown DEF Prompt!Request
<1>5. Knows(q) /\ Answered(q.op, q.sent, q.ended)
  BY <1>1, <1>2, <1>4, PromptKnown DEF Knows
<1>6. AgentsTyped' /\ chatType' = chatType /\ turn' = None
  BY KeptAgents DEF Prompt!UseAgent
<1>7. prompts' = [prompts EXCEPT ![r] = q] /\ q.at # "opened" /\ turn \in {None, r}
  BY <1>2, <1>3, <1>4 DEF Prompt!UseAgent, Prompt!Put
<1> QED
  BY <1>3, <1>5, <1>6, <1>7, PromptStep

-----------------------------------------------------------------------------
(* processPrompt, getHistory and loadAndProcessDocuments.                   *)

\* Most steps only move the label on.
LEMMA MoveStep ==
    ASSUME PInv, NEW r \in Requests, NEW at \in Prompt!Labels,
           Prompt!Put(r, [prompts[r] EXCEPT !.at = at]), Prompt!Alone,
           at \notin {"idle", "opened", "stream", "get_state", "get_thread", "connect", "pause"},
           prompts[r].at # "idle",
           at = "post" => prompts[r].seen = "CHAT_LAWYER",
           prompts[r].at \notin {"get_thread", "validate"}
    PROVE  PInv'
<1>1. PICK q \in Prompt!Request : Relabels(prompts[r], q, at)
  BY PromptKnown, Relabelled
<1>2. Knows(q) /\ Answered(q.op, q.sent, q.ended)
  BY <1>1, PromptKnown DEF Knows, Relabels, SameCall
<1> QED
  BY <1>1, <1>2, AloneStep DEF Relabels

LEMMA ThreadReadKeepsPInv ==
    ASSUME PInv, NEW r \in Requests, Prompt!ThreadRead(r)
    PROVE  PInv'
<1>1. prompts[r].at = "get_thread"
  BY DEF Prompt!ThreadRead, Prompt!At
<1>2. "start" \in Prompt!Events /\ "start" \notin Prompt!Endings
  BY DEF Prompt!Events, Prompt!Endings
<1>3. Prompt!IsOpen(prompts[r]) => Len(prompts[r].sent) < MaxSent
  <2>1. Prompt!IsOpen(prompts[r]) => prompts[r].sent = <<>>
    BY <1>1, PromptKnown DEF Knows, Prompt!IsOpen
  <2> QED
    BY <2>1, MaxSentType
<1>4. PICK w \in Prompt!Request :
         /\ w = Prompt!Written(prompts[r], "start") /\ SameRequest(prompts[r], w)
         /\ w.ended = prompts[r].ended
         /\ Answered(w.op, w.sent, w.ended)
  BY <1>2, <1>3, PromptKnown, WrittenStays
<1>5. PICK q \in Prompt!Request : Relabels(w, q, "validate")
  BY LabelsHold, Relabelled
<1>6. Knows(q) /\ Answered(q.op, q.sent, q.ended)
  BY <1>1, <1>4, <1>5, PromptKnown DEF Knows, Relabels, SameCall, SameRequest
<1> QED
  BY <1>4, <1>5, <1>6, AloneStep DEF Prompt!ThreadRead, Relabels

\* A prompt whose thread was read as a lawyer's is posted, any other is run.
LEMMA RouteKeepsPInv ==
    ASSUME PInv, NEW r \in Requests, NEW q \in Prompt!Request, turn = None,
           Prompt!Route(r, q), q.user \in Prompt!Keys, q.thread \in Threads,
           q.handed \/ q.seen = "CHAT_LAWYER" => ByLawyer(q.thread),
           q.handed /\ q.op \in {"stream", "ask"} => q.seen = "CHAT_LAWYER",
           Answered(q.op, q.sent, q.ended),
           chatType' = chatType, titled' \subseteq Threads
    PROVE  PInv'
<1>1. CASE q.seen = "CHAT_LAWYER"
  <2>1. PICK p \in Prompt!Request : Relabels(q, p, "post")
    BY LabelsHold, Relabelled
  <2>2. Knows(p) /\ Answered(p.op, p.sent, p.ended) /\ p.at # "opened"
    BY <1>1, <2>1 DEF Knows, Relabels, SameCall
  <2>3. prompts' = [prompts EXCEPT ![r] = p] /\ UNCHANGED <<agent, cache, turn>>
    BY <1>1, <2>1 DEF Prompt!Route, Prompt!Put, Relabels
  <2>4. AgentsTyped'
    BY <2>3 DEF PInv, AgentsTyped
  <2> QED
    BY <2>1, <2>2, <2>3, <2>4, PromptStep
<1>2. CASE q.seen # "CHAT_LAWYER"
  <2>1. Prompt!OpenAgent(r, q) /\ ~ (q.handed /\ q.op \in {"stream", "ask"})
    BY <1>2 DEF Prompt!Route
  <2> QED
    BY <2>1, OpenAgentKeepsPInv
<1> QED
  BY <1>1, <1>2

LEMMA ValidatedKeepsPInv ==
    ASSUME PInv, NEW r \in Requests, Prompt!Validated(r)
    PROVE  PInv'
<1>1. prompts[r].at = "validate" /\ turn = None /\ chatType' = chatType /\ titled' = titled
  BY DEF Prompt!Validated, Prompt!At
<1>2. prompts[r].thread \in Threads /\ prompts[r].user \in Prompt!Keys
  BY <1>1, PromptKnown DEF Knows
<1>3. PICK type \in {"CHATBOT", "CHAT_LAWYER"} : type = chatType[prompts[r].thread]
  BY <1>2 DEF PInv, AgentsTyped
<1>4. PICK q \in Prompt!Request : q = [prompts[r] EXCEPT !.seen = type]
  BY PromptKnown DEF Prompt!Request
<1>5. /\ q.at = "validate" /\ q.seen = type
      /\ q.op = prompts[r].op /\ q.user = prompts[r].user /\ q.thread = prompts[r].thread
      /\ q.handed = prompts[r].handed /\ q.sent = prompts[r].sent
      /\ q.ended = prompts[r].ended
  BY <1>1, <1>4, PromptKnown DEF Prompt!Request
<1>6. /\ q.user \in Prompt!Keys /\ q.thread \in Threads
      /\ q.handed \/ q.seen = "CHAT_LAWYER" => ByLawyer(q.thread)
      /\ q.handed => q.seen = "CHAT_LAWYER"
  <2>1. Knows(prompts[r])
    BY PromptKnown
  <2> QED
    BY <1>2, <1>3, <1>5, <2>1 DEF Knows, ByLawyer
<1>7. Answered(q.op, q.sent, q.ended)
  BY <1>5, PromptKnown
<1>8. titled' \subseteq Threads
  BY <1>1 DEF PInv, AgentsTyped
<1>9. CASE q.op \in Prompt!Readings /\ Prompt!OpenAgent(r, q)
  <2>1. q.op \notin {"stream", "ask"}
    BY <1>9 DEF Prompt!Readings
  <2> QED
    BY <1>1, <1>6, <1>7, <1>8, <1>9, <2>1, OpenAgentKeepsPInv
<1>10. ASSUME NEW label \in {"link", "title"}, Prompt!Put(r, [q EXCEPT !.at = label]),
              UNCHANGED <<agent, cache, turn>>
       PROVE  PInv'
  <2>1. label \in Prompt!Labels
    BY LabelsHold
  <2>2. PICK p \in Prompt!Request : Relabels(q, p, label)
    BY <2>1, Relabelled
  <2>3. Knows(p) /\ Answered(p.op, p.sent, p.ended)
    BY <1>6, <1>7, <2>2 DEF Knows, Relabels, SameCall
  <2>4. Prompt!Put(r, p) /\ Prompt!Alone /\ p.at # "opened"
    BY <1>1, <1>10, <2>2 DEF Relabels, Prompt!Alone
  <2> QED
    BY <2>3, <2>4, AloneStep
<1>11. CASE Prompt!Route(r, q)
  BY <1>1, <1>6, <1>7, <1>8, <1>11, RouteKeepsPInv
<1>12. q = [prompts[r] EXCEPT !.seen = chatType[prompts[r].thread]]
  BY <1>3, <1>4
<1> QED
  BY <1>9, <1>10, <1>11, <1>12 DEF Prompt!Validated

LEMMA TitleSavedKeepsPInv ==
    ASSUME PInv, NEW r \in Requests, Prompt!TitleSaved(r)
    PROVE  PInv'
<1>1. prompts[r].at = "save_title" /\ turn = None /\ chatType' = chatType
  BY DEF Prompt!TitleSaved, Prompt!At
<1>2. PICK q \in Prompt!Request : q = prompts[r] /\ Knows(q) /\ Answered(q.op, q.sent, q.ended)
  BY PromptKnown
<1>3. /\ q.user \in Prompt!Keys /\ q.thread \in Threads
      /\ q.handed \/ q.seen = "CHAT_LAWYER" => ByLawyer(q.thread)
      /\ q.handed /\ q.op \in {"stream", "ask"} => q.seen = "CHAT_LAWYER"
  BY <1>1, <1>2 DEF Knows
<1>4. titled' \subseteq Threads
  BY <1>2, <1>3 DEF Prompt!TitleSaved, PInv, AgentsTyped
<1> QED
  BY <1>1, <1>2, <1>3, <1>4, RouteKeepsPInv DEF Prompt!TitleSaved

LEMMA TitledKeepsPInv ==
    ASSUME PInv, NEW r \in Requests, Prompt!Titled(r)
    PROVE  PInv'
BY MoveStep, LabelsHold DEF Prompt!Titled, Prompt!At

LEMMA FileProcessedKeepsPInv ==
    ASSUME PInv, NEW r \in Requests, Prompt!FileProcessed(r)
    PROVE  PInv'
BY MoveStep, LabelsHold DEF Prompt!FileProcessed, Prompt!At

LEMMA FileLinkedKeepsPInv ==
    ASSUME PInv, NEW r \in Requests, Prompt!FileLinked(r)
    PROVE  PInv'
<1>1. CASE prompts[r].seen = "CHATBOT"
  BY <1>1, MoveStep, LabelsHold DEF Prompt!FileLinked, Prompt!At
<1>2. CASE prompts[r].seen # "CHATBOT"
  BY <1>2, EndsAlone DEF Prompt!FileLinked
<1> QED
  BY <1>1, <1>2

LEMMA ChunkKeepsPInv ==
    ASSUME PInv, NEW r \in Requests, Prompt!Chunk(r)
    PROVE  PInv'
<1>1. prompts[r].at = "stream" /\ Len(prompts[r].sent) < MaxSent
  BY DEF Prompt!Chunk, Prompt!At
<1>2. "chunk" \in Prompt!Events /\ "chunk" \notin Prompt!Endings
  BY DEF Prompt!Events, Prompt!Endings
<1>3. PICK w \in Prompt!Request :
         /\ w = Prompt!Written(prompts[r], "chunk") /\ SameRequest(prompts[r], w)
         /\ w.ended = prompts[r].ended /\ Answered(w.op, w.sent, w.ended)
  BY <1>1, <1>2, PromptKnown, WrittenStays
<1>4. PICK q \in Prompt!Request : q = [w EXCEPT !.got = TRUE]
  BY DEF Prompt!Request
<1>5. q.at = w.at /\ q.agent = w.agent /\ SameCall(w, q)
  BY <1>4 DEF Prompt!Request, SameCall
<1>6. Knows(q) /\ Answered(q.op, q.sent, q.ended) /\ q.at # "opened"
  BY <1>1, <1>3, <1>5, PromptKnown DEF Knows, SameCall, SameRequest
<1> QED
  BY <1>3, <1>4, <1>6, AloneStep DEF Prompt!Chunk

LEMMA TimeoutKeepsPInv ==
    ASSUME PInv, NEW r \in Requests, Prompt!Timeout(r)
    PROVE  PInv'
<1>1. prompts[r].at # "opened"
  BY SpecialKeys DEF PInv, Prompt!Timeout, Prompt!Alone
<1>2. PICK w \in Prompt!Request :
         /\ w = Prompt!Ended(prompts[r], "timeout") /\ SameRequest(prompts[r], w)
         /\ Answered(w.op, w.sent, w.ended) /\ (prompts[r].op = "stream" => w.ended)
  BY PromptKnown, EndedIs DEF Prompt!Endings
<1>3. Knows(w) /\ w.at # "opened"
  BY <1>1, <1>2, PromptKnown DEF Knows, SameRequest, Prompt!Timeout, Prompt!IsOpen
<1> QED
  BY <1>2, <1>3, AloneStep DEF Prompt!Timeout

\* The steps that end a request.
LEMMA EndingKeepsPInv ==
    ASSUME PInv, NEW r \in Requests,
           \/ Prompt!PostedToLawyer(r) \/ Prompt!StreamDone(r) \/ Prompt!StreamFailed(r)
           \/ Prompt!StateRead(r) \/ Prompt!FileSet(r) \/ Prompt!CallFails(r)
    PROVE  PInv'
<1>1. {"done", "failed"} \subseteq Prompt!Endings
  BY DEF Prompt!Endings
<1>2. prompts[r].at # "idle" => prompts[r].user \in Prompt!Keys
  BY PromptKnown DEF Knows
<1>3. CASE Prompt!PostedToLawyer(r)
  BY <1>3, EndsAlone DEF Prompt!PostedToLawyer
<1>4. CASE Prompt!StreamDone(r)
  BY <1>4, EndsAlone DEF Prompt!StreamDone
<1>5. CASE Prompt!CallFails(r)
  BY <1>5, EndsAlone DEF Prompt!CallFails
<1>6. CASE Prompt!StreamFailed(r)
  <2>1. AgentsTyped'
    BY <1>2, <1>6, DroppedAgent DEF Prompt!StreamFailed, Prompt!At
  <2> QED
    BY <1>1, <1>6, <2>1, FinishStep DEF Prompt!StreamFailed
<1>7. CASE Prompt!StateRead(r)
  <2>1. AgentsTyped'
    BY <1>2, <1>7, DroppedAgent, KeptAgents DEF Prompt!StateRead, Prompt!At
  <2> QED
    BY <1>1, <1>7, <2>1, FinishStep DEF Prompt!StateRead
<1>8. CASE Prompt!FileSet(r)
  <2>1. AgentsTyped'
    BY <1>2, <1>8, DroppedAgent DEF Prompt!FileSet, Prompt!At
  <2> QED
    BY <1>1, <1>8, <2>1, FinishStep DEF Prompt!FileSet
<1> QED
  BY <1>3, <1>4, <1>5, <1>6, <1>7, <1>8

-----------------------------------------------------------------------------
LEMMA PInvInitially == Prompt!Init => PInv
<1> SUFFICES ASSUME Prompt!Init PROVE PInv
  OBVIOUS
<1>1. AgentsTyped
  BY DEF Prompt!Init, AgentsTyped, Prompt!Keys
<1>2. Prompt!NoRequest \in Prompt!Request
  <2>1. "idle" \in Prompt!Labels /\ 0 \in 0 .. 3 /\ <<>> \in Seq(Prompt!Events)
    BY DEF Prompt!Labels
  <2> QED
    BY <2>1 DEF Prompt!NoRequest, Prompt!Request, Prompt!Retries
<1>3. Knows(Prompt!NoRequest)
  BY DEF Prompt!NoRequest, Knows
<1>4. Answered("none", <<>>, FALSE)
  BY MaxSentType DEF Answered
<1>5. PICK q \in Prompt!Request :
         /\ q = Prompt!NoRequest /\ Knows(q)
         /\ q.op = "none" /\ q.sent = <<>> /\ q.ended = FALSE /\ q.at = "idle"
  BY <1>2, <1>3 DEF Prompt!NoRequest
<1> QED
  BY <1>1, <1>4, <1>5 DEF Prompt!Init, PInv

LEMMA PInvKept == PInv /\ [Prompt!Next]_(Prompt!vars) => PInv'
<1> SUFFICES ASSUME PInv, [Prompt!Next]_(Prompt!vars) PROVE PInv'
  OBVIOUS
<1>1. CASE UNCHANGED Prompt!vars
  BY <1>1 DEF PInv, Prompt!vars, AgentsTyped, Knows, ByLawyer, Answered
<1>2. ASSUME NEW r \in Requests, Prompt!Arrive(r) PROVE PInv'
  BY <1>2, ArriveKeepsPInv
<1>3. ASSUME NEW r \in Requests, Prompt!Reply(r) PROVE PInv'
  BY <1>3, MakeAgentKeepsPInv, NoConnectionKeepsPInv, RetryConnectionKeepsPInv,
     UseAgentKeepsPInv, ThreadReadKeepsPInv, ValidatedKeepsPInv, TitleSavedKeepsPInv,
     EndingKeepsPInv, FileLinkedKeepsPInv
     DEF Prompt!Reply
<1>4. ASSUME NEW r \in Requests, Prompt!ModelReply(r) PROVE PInv'
  BY <1>4, TitledKeepsPInv, ChunkKeepsPInv, EndingKeepsPInv, FileProcessedKeepsPInv
     DEF Prompt!ModelReply
<1>5. ASSUME NEW r \in Requests, Prompt!CallFails(r) PROVE PInv'
  BY <1>5, EndingKeepsPInv
<1>6. ASSUME NEW r \in Requests, Prompt!Timeout(r) PROVE PInv'
  BY <1>6, TimeoutKeepsPInv
<1>7. ASSUME NEW t \in Threads, Prompt!HandOver(t) PROVE PInv'
  BY <1>7, HandOverKeepsPInv
<1> QED
  BY <1>1, <1>2, <1>3, <1>4, <1>5, <1>6, <1>7 DEF Prompt!Next, Prompt!Serve

LEMMA PromptsKnown == Prompt!Spec => []PInv
BY PInvInitially, PInvKept, PTL DEF Prompt!Spec

\* Agents, threads and prompts have their types (chatbot.service.ts 52-109):
\* a response has at most one event more than its chunks can be.
THEOREM PromptsAreTyped == Prompt!Spec => []PromptTypeOK
<1>1. ASSUME PInv PROVE PromptTypeOK
  <2>1. \A r \in Requests : Len(prompts[r].sent) <= MaxSent + 1
    <3> SUFFICES ASSUME NEW r \in Requests PROVE Len(prompts[r].sent) <= MaxSent + 1
      OBVIOUS
    <3>1. PICK n \in Nat : n = Len(prompts[r].sent)
      BY <1>1 DEF PInv, Prompt!Request
    <3>2. n <= MaxSent + (IF prompts[r].ended THEN 1 ELSE 0)
      BY <1>1, <3>1 DEF PInv, Answered
    <3> QED
      BY <3>1, <3>2, MaxSentType
  <2> QED
    BY <1>1, <2>1 DEF PInv, AgentsTyped, PromptTypeOK, Prompt!TypeOK
<1> QED
  BY <1>1, PromptsKnown, PTL

\* A prompt or history runs on the agent made for its own user although all
\* share this.agent (chatbot.service.ts 118-123, 199-270): who has set the agent
\* uses it before anyone else runs.
THEOREM AgentsAreOwn == Prompt!Spec => []OwnAgent
<1>1. ASSUME PInv PROVE OwnAgent
  BY <1>1 DEF PInv, AgentsTyped, Knows, OwnAgent, Prompt!OwnAgent
<1> QED
  BY <1>1, PromptsKnown, PTL

\* The timer and the late answer never both end a stream
\* (chatbot.controller.ts 240-256, 334-391).
THEOREM EndingsAreLast == Prompt!Spec => []EndingIsLast
<1>1. ASSUME PInv, NEW r \in Requests
      PROVE  /\ \A i \in DOMAIN prompts[r].sent :
                  prompts[r].sent[i] \in Prompt!Endings => i = Len(prompts[r].sent)
             /\ prompts[r].ended <=>
                  (prompts[r].sent # <<>>
                   /\ prompts[r].sent[Len(prompts[r].sent)] \in Prompt!Endings)
  <2>1. PICK s \in Seq(Prompt!Events) : s = prompts[r].sent
    BY <1>1 DEF PInv, Prompt!Request
  <2>2. DOMAIN s = 1 .. Len(s)
    OBVIOUS
  <2> QED
    BY <1>1, <2>1, <2>2 DEF PInv, Answered
<1>2. ASSUME PInv PROVE EndingIsLast
  BY <1>1, <1>2 DEF EndingIsLast, Prompt!EndingIsLast
<1> QED
  BY <1>2, PromptsKnown, PTL

\* A prompt that arrives after the hand-over of its thread never reaches the
\* bot, and one posted to the lawyers is in a lawyer's chat (630-652).
THEOREM BotStaysOut == Prompt!Spec => []BotIsOut
<1>1. ASSUME PInv PROVE BotIsOut
  BY <1>1 DEF PInv, Knows, ByLawyer, BotIsOut, Prompt!BotIsOut
<1> QED
  BY <1>1, PromptsKnown, PTL

\* What is proved of ChatLawyer and of ChatPrompt holds in the runs of MCChat,
\* which add that the other one rests.
THEOREM RunsAreSteps == (LawyerSpec => Spec) /\ (PromptSpec => Prompt!Spec)
<1>1. [OfLawyer(Next)]_bothVars => [Next]_vars
  BY Zenon DEF OfLawyer, bothVars
<1>2. [OfPrompt(Prompt!Next)]_bothVars => [Prompt!Next]_(Prompt!vars)
  BY Zenon DEF OfPrompt, bothVars, vars, rows, promptOnly, Prompt!vars
<1>3. LawyerSpec => Spec
  BY <1>1, PTL DEF LawyerSpec, InitBoth, Spec
<1>4. PromptSpec => Prompt!Spec
  BY <1>2, PTL DEF PromptSpec, InitBoth, Prompt!Spec
<1> QED
  BY <1>3, <1>4

-----------------------------------------------------------------------------
(****************************************************************************)
(* Both at once.  A step of the staff's turns no thread or hands one over,  *)
(* and a step of a prompt's turns none.                                     *)
(****************************************************************************)

LEMMA LawyerTurnsOneThread ==
    ASSUME IInv, NEW r \in Requests, Arrive(r) \/ Answer(r)
    PROVE  \/ chatType' = chatType
           \/ \E t \in Threads : chatType' = [chatType EXCEPT ![t] = "CHAT_LAWYER"]
<1>1. CASE Mark(r) \/ AdminMark(r) \/ JoinMark(r)
  <2>1. req[r].at # "idle" /\ chatType' = [chatType EXCEPT ![req[r].thread] = "CHAT_LAWYER"]
    BY <1>1 DEF Mark, AdminMark, JoinMark, MarkThread, At
  <2>2. req[r].thread \in Threads
    BY <2>1, Known DEF Request, Reached
  <2> QED
    BY <2>1, <2>2
<1>2. CASE Arrive(r)
  BY <1>2 DEF Arrive, ArriveRequest, ArriveMessage, ArriveAdminMessage, Accept, rows
<1>3. CASE CountLawyers(r) \/ ReadChat(r) \/ FindLink(r) \/ FindActive(r) \/ Post(r)
           \/ CallFails(r)
  BY <1>3 DEF CountLawyers, ReadChat, FindLink, FindActive, Post, CallFails, rows
<1>4. CASE Finalize(r) \/ Assign(r) \/ Join(r) \/ CompanyStatus(r) \/ Notify(r)
           \/ ClientLink(r) \/ CreateTask(r)
  BY <1>4 DEF Finalize, Assign, Join, CreateRow, CompanyStatus, Notify, ClientLink,
              CreateTask, File
<1> QED
  BY <1>1, <1>2, <1>3, <1>4 DEF Answer

LEMMA PromptsTurnNoThread ==
    ASSUME NEW r \in Requests, Prompt!Serve(r)
    PROVE  chatType' = chatType
<1>1. CASE Prompt!Alone
  BY <1>1 DEF Prompt!Alone
<1>2. CASE Prompt!Arrive(r)
  BY <1>2 DEF Prompt!Arrive, Prompt!ArrivePrompt, Prompt!ArriveUpload, Prompt!ArriveHistory,
              Prompt!ArriveAdminHistory, Prompt!Accept, Prompt!Alone
<1>3. CASE Prompt!Reply(r)
  BY <1>3 DEF Prompt!Reply, Prompt!MakeAgent, Prompt!NoConnection, Prompt!RetryConnection,
              Prompt!UseAgent, Prompt!ThreadRead, Prompt!Validated, Prompt!TitleSaved,
              Prompt!PostedToLawyer, Prompt!StateRead, Prompt!FileLinked, Prompt!FileSet,
              Prompt!Alone
<1>4. CASE Prompt!ModelReply(r)
  BY <1>4 DEF Prompt!ModelReply, Prompt!Titled, Prompt!Chunk, Prompt!StreamDone,
              Prompt!StreamFailed, Prompt!FileProcessed, Prompt!Alone
<1>5. CASE Prompt!CallFails(r) \/ Prompt!Timeout(r)
  BY <1>5 DEF Prompt!CallFails, Prompt!Timeout, Prompt!Alone
<1> QED
  BY <1>2, <1>3, <1>4, <1>5 DEF Prompt!Serve

LEMMA JointLawyer == [JointNext]_bothVars => [Next]_vars
<1> SUFFICES ASSUME [JointNext]_bothVars PROVE [Next]_vars
  OBVIOUS
<1>1. CASE UNCHANGED bothVars
  BY <1>1 DEF bothVars
<1>2. CASE OfLawyer(Next)
  BY <1>2 DEF OfLawyer
<1>3. ASSUME NEW r \in Requests, OfPrompt(Prompt!Serve(r)) PROVE [Next]_vars
  <2>1. chatType' = chatType /\ UNCHANGED lawyerOnly
    BY <1>3, PromptsTurnNoThread DEF OfPrompt
  <2> QED
    BY <2>1 DEF lawyerOnly, vars, rows
<1> QED
  BY <1>1, <1>2, <1>3 DEF JointNext

LEMMA JointPrompt == IInv /\ [JointNext]_bothVars => [Prompt!Next]_(Prompt!vars)
<1> SUFFICES ASSUME IInv, [JointNext]_bothVars PROVE [Prompt!Next]_(Prompt!vars)
  OBVIOUS
<1>1. CASE UNCHANGED bothVars
  BY <1>1 DEF bothVars, vars, rows, promptOnly, Prompt!vars
<1>2. CASE turn = None /\ OfLawyer(Next)
  <2>1. PICK r \in Requests : Arrive(r) \/ Answer(r)
    BY <1>2 DEF OfLawyer, Next
  <2>2. UNCHANGED promptOnly
    BY <1>2 DEF OfLawyer
  <2>3. CASE chatType' = chatType
    BY <2>2, <2>3 DEF promptOnly, Prompt!vars
  <2>4. ASSUME NEW t \in Threads, chatType' = [chatType EXCEPT ![t] = "CHAT_LAWYER"]
        PROVE  Prompt!Next
    <3>1. Prompt!HandOver(t)
      BY <1>2, <2>2, <2>4 DEF promptOnly, Prompt!HandOver
    <3> QED
      BY <3>1 DEF Prompt!Next
  <2> QED
    BY <2>1, <2>3, <2>4, LawyerTurnsOneThread
<1>3. ASSUME NEW r \in Requests, OfPrompt(Prompt!Serve(r)) PROVE Prompt!Next
  BY <1>3 DEF OfPrompt, Prompt!Next
<1> QED
  BY <1>1, <1>2, <1>3 DEF JointNext

\* The staff's requests and the clients' prompts beside each other, over one
\* column chatType, are each what it is alone: so all that is proved of either
\* holds of both at once.
THEOREM ComposedIsBoth == JointSpec => Spec /\ Prompt!Spec
<1>1. JointSpec => Spec
  BY JointLawyer, PTL DEF JointSpec, InitBoth, Spec
<1>2. JointSpec => Prompt!Spec
  BY <1>1, Inductive, JointPrompt, PTL DEF JointSpec, InitBoth, Prompt!Spec
<1> QED
  BY <1>1, <1>2

\* A client's message for the lawyers is stored in a thread in which one can
\* write, once the staff's requests on it are over, unless a call has rejected:
\* what either module alone cannot say.
THEOREM MessagesReachALawyer == JointSpec => []PromptsReachALawyer
<1>1. ASSUME IInv, PInv, NeverAbandoned PROVE PromptsReachALawyer
  <2> SUFFICES ASSUME NEW p \in Requests, prompts[p].at = "post",
                      prompts[p].thread \notin rejected, ~ InFlight(prompts[p].thread)
               PROVE  \E s \in Staff : CanWrite(prompts[p].thread, s)
    BY DEF PromptsReachALawyer
  <2>1. prompts[p].thread \in Threads /\ chatType[prompts[p].thread] = "CHAT_LAWYER"
    BY <1>1, PromptKnown DEF Knows, ByLawyer
  <2> QED
    BY <1>1, <2>1 DEF NeverAbandoned, CanWrite
<1> QED
  BY <1>1, ComposedIsBoth, Inductive, PromptsKnown, ThreadsAreNotAbandoned, PTL
=============================================================================
