------------------------------ MODULE Calendar -------------------------------
(****************************************************************************)
(* What a company is promised of its meetings: a calendar that changes one  *)
(* meeting at a time, in which a new date does not revive a meeting that is *)
(* cancelled, and a cancellation is acknowledged when it is there to be     *)
(* seen.  Every event of Calendly is one step here, or none when it is      *)
(* dropped; in Meetings it is a request that looks for the row first and    *)
(* writes to it an await later.                                             *)
(****************************************************************************)
CONSTANTS
    Urls,   \* the meetings in Calendly
    Dates,
    None    \* not in the calendar

VARIABLES
    calendar,     \* calendar[u]: [date, status] of u, or None
    acknowledged  \* the meetings of the calendar known to be cancelled

cvars == <<calendar, acknowledged>>

Init ==
    /\ calendar = [u \in Urls |-> None]
    /\ acknowledged = {}

Schedule(u, d) ==
    /\ calendar[u] = None
    /\ calendar' = [calendar EXCEPT ![u] = [date |-> d, status |-> "PENDING"]]
    /\ UNCHANGED acknowledged

Cancel(u) ==
    /\ calendar[u] # None
    /\ calendar' = [calendar EXCEPT ![u].status = "CANCELLED"]
    /\ acknowledged' = acknowledged \cup {u}

Reschedule(u, d) ==
    /\ calendar[u] # None
    /\ calendar' = [calendar EXCEPT ![u].date = d]
    /\ UNCHANGED acknowledged

Remove(u) ==
    /\ calendar[u] # None
    /\ calendar' = [calendar EXCEPT ![u] = None]
    /\ acknowledged' = acknowledged \ {u}

Next ==
    \E u \in Urls :
        \/ Cancel(u) \/ Remove(u)
        \/ \E d \in Dates : Schedule(u, d) \/ Reschedule(u, d)

Spec == Init /\ [][Next]_cvars

\* Who has been told that a meeting is cancelled will not find it pending.
CancelStays == \A u \in acknowledged : calendar[u] # None /\ calendar[u].status = "CANCELLED"
=============================================================================
