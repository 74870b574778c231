------------------------------ MODULE Meetings ------------------------------
(****************************************************************************)
(* The meetings of one company: the events Calendly sends                   *)
(* (webhook.service.ts) and the DELETE of meetings.controller.ts.  An event *)
(* is a request with one await after the other:                             *)
(*                                                                          *)
(*   scheduled              find_user -> get_companies -> create            *)
(*   canceled, rescheduled  find_meeting -> update                          *)
(*                                                                          *)
(* Calendly sends an event until it is answered, so an event may come late, *)
(* before an earlier one, or again.  An event of a meeting nobody knows is  *)
(* answered like one that was handled.  PATCH meetings/:id changes nothing: *)
(* UpdateMeetingDto has no fields, and main.ts forbids others.              *)
(*                                                                          *)
(* Some names begin with Meetings so that Roadmap can be beside it.         *)
(****************************************************************************)
CONSTANTS
    Urls,      \* join urls: one for each meeting in Calendly
    Ids,       \* bound: the ids of Meeting rows there are
    Dates,     \* the dates a meeting may be moved to
    Requests,  \* request slots: how many requests are in flight at once
    None

VARIABLES
    meeting,   \* meeting[i]: the Meeting row i, or None
    made,      \* the ids given so far: a uuid is not given twice
    client,    \* what is known of the invitee: "nobody", "user" or "company"
    req,       \* req[r]: the request in slot r
    canceled   \* history: the rows whose cancellation was answered with 2xx

meetingsVars == <<meeting, made, client, req, canceled>>

Meeting == [joinUrl : Urls, date : Dates, status : {"PENDING", "CANCELLED"}]

ASSUME NoneApart ==
    /\ None \notin Meeting
    /\ None \notin [date : Dates, status : {"PENDING", "CANCELLED"}]

Rows == {i \in Ids : meeting[i] # None}

\* joinUrl is unique: there is one row at most.
WithUrl(url) == {i \in Rows : meeting[i].joinUrl = url}

Labels == {"idle", "find_user", "get_companies", "create", "find_meeting", "update"}

Request == [at    : Labels,
            event : {"none", "scheduled", "canceled", "rescheduled"},
            url   : Urls \cup {None},
            date  : Dates \cup {None},
            id    : Ids \cup {None},      \* the row found
            old   : Meeting \cup {None}]  \* and what was read of it

NoRequest == [at |-> "idle", event |-> "none", url |-> None, date |-> None,
              id |-> None, old |-> None]

MeetingsInit ==
    /\ meeting = [i \in Ids |-> None]
    /\ made = {}
    /\ client = "nobody"
    /\ req = [r \in Requests |-> NoRequest]
    /\ canceled = {}

-----------------------------------------------------------------------------
At(r, label) == req[r].at = label

Goto(r, label) == req' = [req EXCEPT ![r].at = label]

Reply(r) == req' = [req EXCEPT ![r] = NoRequest]

Calm == UNCHANGED <<meeting, made, client, canceled>>

\* The invitee signs up, and registers a company.
SignUp ==
    /\ \/ client = "nobody" /\ client' = "user"
       \/ client = "user" /\ client' = "company"
    /\ UNCHANGED <<meeting, made, req, canceled>>

Accept(r, q) ==
    /\ At(r, "idle")
    /\ req' = [req EXCEPT ![r] = q]
    /\ Calm

ArriveScheduled(r, url, date) ==
    Accept(r, [NoRequest EXCEPT !.at = "find_user", !.event = "scheduled",
                                !.url = url, !.date = date])

ArriveCanceled(r, url) ==
    Accept(r, [NoRequest EXCEPT !.at = "find_meeting", !.event = "canceled", !.url = url])

ArriveRescheduled(r, url, date) ==
    Accept(r, [NoRequest EXCEPT !.at = "find_meeting", !.event = "rescheduled",
                                !.url = url, !.date = date])

\* No user of that e-mail address: the event is dropped.
FindUser(r) ==
    /\ At(r, "find_user")
    /\ IF client = "nobody" THEN Reply(r) ELSE Goto(r, "get_companies")
    /\ Calm

\* Nor a company; otherwise the meeting is one of the first of them.
GetCompanies(r) ==
    /\ At(r, "get_companies")
    /\ IF client # "company" THEN Reply(r) ELSE Goto(r, "create")
    /\ Calm

\* A second row for the url is rejected.
Create(r) ==
    /\ At(r, "create")
    /\ WithUrl(req[r].url) = {}
    /\ \E i \in Ids \ made :
         /\ meeting' = [meeting EXCEPT ![i] =
                          [joinUrl |-> req[r].url, date |-> req[r].date, status |-> "PENDING"]]
         /\ made' = made \cup {i}
    /\ Reply(r)
    /\ UNCHANGED <<client, canceled>>

\* Without the row the event is dropped, and answered all the same.
FindMeeting(r) ==
    /\ At(r, "find_meeting")
    /\ \/ WithUrl(req[r].url) = {} /\ Reply(r)
       \/ \E i \in WithUrl(req[r].url) :
            req' = [req EXCEPT ![r].at = "update", ![r].id = i, ![r].old = meeting[i]]
    /\ Calm

\* (Mutant of Updated: the row that was read is changed and written back.)
UpdatedWhole(q) ==
    IF q.event = "canceled" THEN [q.old EXCEPT !.status = "CANCELLED"]
    ELSE [q.old EXCEPT !.date = q.date]

\* The one field that the event is about.
Updated(q) ==
    IF q.event = "canceled" THEN [meeting[q.id] EXCEPT !.status = "CANCELLED"]
    ELSE [meeting[q.id] EXCEPT !.date = q.date]

\* By id: a row deleted meanwhile makes the update reject.
Update(r) ==
    /\ At(r, "update")
    /\ req[r].id \in Rows
    /\ meeting' = [meeting EXCEPT ![req[r].id] = Updated(req[r])]
    /\ canceled' = canceled \cup {i \in {req[r].id} : req[r].event = "canceled"}
    /\ Reply(r)
    /\ UNCHANGED <<made, client>>

CallFails(r) == ~ At(r, "idle") /\ Reply(r) /\ Calm

\* DELETE meetings/:id, one call.
Remove(i) ==
    /\ i \in Rows
    /\ meeting' = [meeting EXCEPT ![i] = None]
    /\ UNCHANGED <<made, client, req, canceled>>

-----------------------------------------------------------------------------
Arrive(r) ==
    \E url \in Urls :
        \/ ArriveCanceled(r, url)
        \/ \E date \in Dates : ArriveScheduled(r, url, date) \/ ArriveRescheduled(r, url, date)

Answer(r) ==
    \/ FindUser(r) \/ GetCompanies(r) \/ Create(r)
    \/ FindMeeting(r) \/ Update(r) \/ CallFails(r)

MeetingsNext ==
    \/ SignUp
    \/ \E i \in Ids : Remove(i)
    \/ \E r \in Requests : Arrive(r) \/ Answer(r)

MeetingsSpec == MeetingsInit /\ [][MeetingsNext]_meetingsVars

-----------------------------------------------------------------------------
(* The calendar that the rows are                                           *)

\* The row of a url, without its id.
Entry(i) == [date |-> meeting[i].date, status |-> meeting[i].status]

CalendarOf ==
    [u \in Urls |-> IF WithUrl(u) = {} THEN None
                    ELSE Entry(CHOOSE i \in Ids : i \in WithUrl(u))]

Acknowledged == {u \in Urls : \E i \in WithUrl(u) : i \in canceled}

Promise == INSTANCE Calendar
             WITH calendar <- CalendarOf, acknowledged <- Acknowledged

-----------------------------------------------------------------------------
(* Properties                                                               *)

\* The rows and the requests are well formed, no two rows have the same
\* joinUrl, and a request that is going to write has found a row some time.
MeetingsTypeOK ==
    /\ meeting \in [Ids -> Meeting \cup {None}]
    /\ made \subseteq Ids
    /\ Rows \subseteq made
    /\ client \in {"nobody", "user", "company"}
    /\ req \in [Requests -> Request]
    /\ canceled \subseteq made
    /\ \A i, j \in Rows : meeting[i].joinUrl = meeting[j].joinUrl => i = j
    /\ \A r \in Requests :
         /\ req[r].at \in {"find_user", "get_companies", "create"} =>
              req[r].url \in Urls /\ req[r].date \in Dates
         /\ req[r].at \in {"find_meeting", "update"} =>
              \/ req[r].event = "canceled"
              \/ req[r].event = "rescheduled" /\ req[r].date \in Dates
         /\ At(r, "update") => req[r].id \in made /\ req[r].old \in Meeting

\* However often, late and out of order the events are delivered, and whatever
\* they read before they write: each changes one meeting in what it is about,
\* and a cancellation answered with success is never undone by another event
\* (webhook.service.ts 65-110).
ImplementsCalendar == Promise!Spec
=============================================================================
