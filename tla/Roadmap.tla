------------------------------ MODULE Roadmap -------------------------------
(****************************************************************************)
(* tasks.service.ts, createTasks: the dissolution roadmap of a company.     *)
(* The steps of the flow (prisma/seed/dissolution.seed.ts) are planned one  *)
(* after the other: a step starts the day after the step it waits for is    *)
(* due, and is due its duration later.  The answers of the intake call      *)
(* leave some steps out; three steps without an end of their own then get   *)
(* the date on which the last step is due.                                  *)
(*                                                                          *)
(* A date is the number of days since the start of step 1.                  *)
(****************************************************************************)
EXTENDS Integers, FiniteSets, Sequences

CONSTANTS Duration  \* Duration[s]: durationDays of step s

Steps == 1 .. 26

ASSUME DurationType == Duration \in [Steps -> Nat]

\* The durations of the seeded flow, which the runs use: of the steps up to the
\* sale of the assets and the payment of creditors,
SellingDuration == <<7, 28, 1, 14, 7, 7, 3, 14, 14, 56, 56, 0, 28>>

\* and of those that settle, close and end the company, from step 14 on.
ClosingDuration == <<60, 14, 7, 0, 14, 28, 2, 0, 7, 14, 0, 1, 1>>

SeedDuration == SellingDuration \o ClosingDuration

VARIABLES
    answers,  \* what the company said: a set of Answers
    next,     \* the step the loop is at; 27 after the loop, 28 at the end
    dates,    \* dates[s]: [startDate, dueDate] of s, or Unplanned
    endDate   \* the day step 26 is due, or -1

vars == <<answers, next, dates, endDate>>

Answers == {"intellectualProperty", "intendToHaveAsset", "hasReceivedOffers",
            "ongoingNegotations", "financialObligations"}

Unplanned == [startDate |-> -1, dueDate |-> -1]

Planned(s) == dates[s] # Unplanned

\* The answers without which the loop continues with the next step.
Needs(s) ==
    CASE s = 4  -> {"intellectualProperty"}
      [] s = 9  -> {"intendToHaveAsset"}
      [] s = 10 -> {"intendToHaveAsset", "hasReceivedOffers"}
      [] s = 11 -> {"intendToHaveAsset", "ongoingNegotations"}
      [] s = 12 -> {"financialObligations"}
      [] OTHER  -> {}

\* The step whose dueDate is read to start s (steps 1, 19 and 25 apart).
UsualWait(s) ==
    CASE s \in {2, 3, 7, 8, 17, 21, 26} -> s - 1
      [] s \in {4, 6, 12, 13, 14}       -> 2
      [] s \in {5, 9}                   -> 3
      [] s = 24                         -> 7
      [] s = 20                         -> 8
      [] s \in {10, 11}                 -> 9
      [] s \in {15, 16, 22}             -> 13
      [] s = 18                         -> 14
      [] s = 23                         -> 17

\* (Mutant of WaitsFor: step 5 does not wait for step 3.)
WaitsForConsent(s) ==
    IF s = 25 THEN IF Planned(11) THEN 11 ELSE 18
    ELSE IF s = 5 THEN 2 ELSE UsualWait(s)

\* The final meeting waits for the transfer of ownership, if there is one.
WaitsFor(s) ==
    IF s = 25 THEN IF Planned(11) THEN 11 ELSE 18 ELSE UsualWait(s)

Init ==
    /\ answers \in SUBSET Answers
    /\ next = 1
    /\ dates = [s \in Steps |-> Unplanned]
    /\ endDate = -1

-----------------------------------------------------------------------------
Set(s, start, due) ==
    /\ dates' = [dates EXCEPT ![s] = [startDate |-> start, dueDate |-> due]]
    /\ next' = next + 1
    /\ UNCHANGED answers

\* The company has nothing for this step.
LeaveOut ==
    /\ next \in Steps
    /\ ~ Needs(next) \subseteq answers
    /\ next' = next + 1
    /\ UNCHANGED <<answers, dates, endDate>>

BoardDecision ==
    next = 1 /\ Set(1, 0, Duration[1]) /\ UNCHANGED endDate

Usual == Steps \ {1, 19, 24, 26}

\* A step that reads the date of an unplanned one would throw.
PlanStep ==
    /\ next \in Usual
    /\ Needs(next) \subseteq answers
    /\ Planned(WaitsFor(next))
    /\ LET start == dates[WaitsFor(next)].dueDate + 1 IN
         Set(next, start, start + Duration[next])
    /\ UNCHANGED endDate

\* (Mutant of ArchiveRecords: the archive begins before the dissolution.)
ArchiveAhead ==
    /\ next = 19
    /\ Planned(1) /\ Planned(8)
    /\ Set(19, dates[1].startDate - 1, dates[8].dueDate - 1)
    /\ UNCHANGED endDate

\* Records are archived from the beginning until step 8 is nearly over.
ArchiveRecords ==
    /\ next = 19
    /\ Planned(1) /\ Planned(8)
    /\ Set(19, dates[1].startDate, dates[8].dueDate - 1)
    /\ UNCHANGED endDate

\* The last day of the month the step starts in: 0 to 30 days on.
FinalizeEmployees ==
    /\ next = 24
    /\ Planned(WaitsFor(24))
    /\ \E rest \in 0 .. 30 :
         LET start == dates[WaitsFor(24)].dueDate + 1 IN Set(24, start, start + rest)
    /\ UNCHANGED endDate

\* (Mutant of Terminate: the duration of the last step is forgotten.)
TerminateAtOnce ==
    /\ next = 26
    /\ Planned(WaitsFor(26))
    /\ LET start == dates[WaitsFor(26)].dueDate + 1 IN
         /\ Set(26, start, start + Duration[26])
         /\ endDate' = start

Terminate ==
    /\ next = 26
    /\ Planned(WaitsFor(26))
    /\ LET start == dates[WaitsFor(26)].dueDate + 1 IN
         /\ Set(26, start, start + Duration[26])
         /\ endDate' = start + Duration[26]

OpenEnded == {12, 17, 21}

\* The dates of open-ended steps are set before the rows are created.
ExtendOpenEnded ==
    /\ next = 27
    /\ dates' = [s \in Steps |->
                   IF s \in OpenEnded /\ Planned(s)
                     THEN [dates[s] EXCEPT !.dueDate = endDate] ELSE dates[s]]
    /\ next' = 28
    /\ UNCHANGED <<answers, endDate>>

\* So a plan that gets stuck before is a deadlock.
Finished == next = 28 /\ UNCHANGED vars

Next ==
    \/ LeaveOut \/ BoardDecision \/ PlanStep \/ ArchiveRecords
    \/ FinalizeEmployees \/ Terminate \/ ExtendOpenEnded \/ Finished

Spec == Init /\ [][Next]_vars

-----------------------------------------------------------------------------
(* Properties                                                               *)

\* What the "dependencies" of the seeded steps say, of the steps whose row is
\* planned by them.  Left out: step 13 ('complete steps 10 and 12'), which the
\* code starts after step 2, 11 ('during step 10'), 12 ('none'), and 25 and 26
\* ('after all previus steps').
Dependencies ==
    [s \in Steps |->
       CASE s = 2 -> {1}          [] s \in {3, 4, 6, 14} -> {2}
         [] s = 5 -> {2, 3}       [] s = 7 -> {6}
         [] s = 8 -> {7}          [] s = 9 -> {3}
         [] s = 10 -> {9}         [] s \in {15, 16, 22} -> {13}
         [] s = 17 -> {16}        [] s = 18 -> {14}
         [] s = 20 -> {7, 8}      [] s = 21 -> {20}
         [] s = 23 -> {13, 16, 17} [] s = 24 -> {7}
         [] OTHER -> {}]

TypeOK ==
    /\ answers \subseteq Answers
    /\ next \in 1 .. 28
    /\ dates \in [Steps -> [startDate : Int, dueDate : Int]]
    /\ endDate \in Int
    /\ \A s \in Steps : Planned(s) => dates[s].startDate >= 0
    /\ \A s \in Steps : Planned(s) => s < next

\* A planned step starts after every step it depends on is due, through the
\* chains of steps the code follows one link of (seed 'dependencies' against
\* tasks.service.ts 78-271); an open-ended step no longer counts once its end
\* has been put off.
FollowsFlow ==
    \A s \in Steps : \A d \in Dependencies[s] :
        Planned(s) /\ (next = 28 => d \notin OpenEnded) =>
            Planned(d) /\ dates[s].startDate > dates[d].dueDate

\* No task is due after the company's legal termination or before it starts,
\* and the archive is closed before the final meeting (seed: 'before step
\* 25'), whatever was left out and in whatever month it falls.
EndsLast ==
    next = 28 =>
        /\ \A s \in Steps : Planned(s) =>
             dates[s].startDate <= dates[s].dueDate /\ dates[s].dueDate <= endDate
        /\ dates[19].dueDate < dates[25].startDate

\* The steps whose dates are read to plan s.
Reads(s) == IF s = 1 THEN {} ELSE IF s = 19 THEN {1, 8} ELSE {WaitsFor(s)}

\* No answers make the loop throw half-way: a step that is not left out finds
\* the dates it reads, although the steps before it may be (78-271).
NeverThrows ==
    next \in Steps /\ Needs(next) \subseteq answers => \A d \in Reads(next) : Planned(d)
=============================================================================
