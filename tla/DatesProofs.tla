---------------------------- MODULE DatesProofs -----------------------------
(****************************************************************************)
(* The dates the server keeps, proved: the roadmap for all durations of its *)
(* steps (its end for the seeded ones), the meetings for any number of      *)
(* meetings, rows and requests, and the periods of the metrics on every day *)
(* there is.                                                                *)
(****************************************************************************)
EXTENDS MCRoadmap, TLAPS

VARIABLES today, weekday

Report == INSTANCE Metrics

-----------------------------------------------------------------------------
(* The roadmap.                                                             *)

(****************************************************************************)
(* The code follows one link per step; that all dependencies are met needs  *)
(* the links of all planned steps at once: Linked.  It holds until the      *)
(* open-ended steps are extended, after which FollowsFlow keeps itself.     *)
(****************************************************************************)

\* The steps planned by UsualWait.
LinkedSteps == Steps \ {1, 19, 25}

Linked ==
    next <= 27 =>
        \A s \in LinkedSteps : Planned(s) =>
            /\ Planned(UsualWait(s))
            /\ dates[s].startDate = dates[UsualWait(s)].dueDate + 1

NotBackwards ==
    next <= 27 => \A s \in Steps \ {19} : Planned(s) => dates[s].startDate <= dates[s].dueDate

IInv == TypeOK /\ Linked /\ NotBackwards /\ FollowsFlow

Date == [startDate : Int, dueDate : Int]

\* The step a step waits for is an earlier one, and never the archive (19).
LEMMA WaitsForEarlier ==
    \A s \in LinkedSteps : UsualWait(s) \in Steps \ {19} /\ UsualWait(s) < s
<1>1. LinkedSteps = {2, 3, 4, 5, 6, 7, 8, 9, 10, 11, 12, 13, 14, 15, 16, 17, 18, 20,
                     21, 22, 23, 24, 26}
  BY DEF LinkedSteps, Steps
<1>2. \A s \in {2, 3, 7, 8, 17, 21, 26} : UsualWait(s) = s - 1
  BY DEF UsualWait
<1>3. /\ \A s \in {4, 6, 12, 13, 14} : UsualWait(s) = 2
      /\ \A s \in {5, 9} : UsualWait(s) = 3
      /\ \A s \in {10, 11} : UsualWait(s) = 9
      /\ \A s \in {15, 16, 22} : UsualWait(s) = 13
  BY DEF UsualWait
<1>4. UsualWait(24) = 7 /\ UsualWait(20) = 8 /\ UsualWait(18) = 14 /\ UsualWait(23) = 17
  BY DEF UsualWait
<1>5. ASSUME NEW s \in LinkedSteps
      PROVE  UsualWait(s) \in 1 .. 25 /\ UsualWait(s) # 19 /\ UsualWait(s) < s
  BY <1>1, <1>2, <1>3, <1>4
<1> QED
  BY <1>5 DEF Steps

\* ... and the steps it depends on lie on the chain of links.
LEMMA ChainsCoverDependencies ==
    TypeOK /\ Linked /\ NotBackwards /\ next <= 27 => FollowsFlow
<1> SUFFICES ASSUME TypeOK, Linked, NotBackwards, next <= 27
             PROVE  FollowsFlow
  OBVIOUS
<1>1. \A s \in {2, 3, 4, 6, 7, 8, 9, 10, 14, 15, 16, 17, 18, 21, 22, 24} :
        s \in LinkedSteps /\ Dependencies[s] = {UsualWait(s)}
  BY DEF LinkedSteps, Steps, UsualWait, Dependencies
<1>2. \A s \in {1, 11, 12, 13, 19, 25, 26} : Dependencies[s] = {}
  BY DEF Steps, Dependencies
<1>3. /\ Dependencies[5] = {2, 3} /\ Dependencies[20] = {7, 8}
      /\ Dependencies[23] = {13, 16, 17}
  BY DEF Steps, Dependencies
<1>4. /\ UsualWait(5) = 3 /\ UsualWait(3) = 2 /\ UsualWait(20) = 8
      /\ UsualWait(8) = 7 /\ UsualWait(23) = 17 /\ UsualWait(17) = 16
      /\ UsualWait(16) = 13
  BY DEF UsualWait
<1>5. \A s \in Steps : dates[s].startDate \in Int /\ dates[s].dueDate \in Int
  BY DEF TypeOK
<1>6. {3, 5, 8, 16, 17, 20, 23} \subseteq LinkedSteps
  BY DEF LinkedSteps, Steps
<1>7. \A s \in LinkedSteps : Planned(s) =>
        Planned(UsualWait(s)) /\ dates[s].startDate = dates[UsualWait(s)].dueDate + 1
  BY DEF Linked
<1>8. \A s \in Steps \ {19} : Planned(s) => dates[s].startDate <= dates[s].dueDate
  BY DEF NotBackwards
<1> SUFFICES ASSUME NEW s \in Steps, NEW d \in Dependencies[s], Planned(s)
             PROVE  Planned(d) /\ dates[s].startDate > dates[d].dueDate
  BY DEF FollowsFlow
<1>a. CASE s \in {2, 3, 4, 6, 7, 8, 9, 10, 14, 15, 16, 17, 18, 21, 22, 24}
  <2>1. s \in LinkedSteps /\ d = UsualWait(s)
    BY <1>a, <1>1
  <2>2. Planned(d) /\ dates[s].startDate = dates[d].dueDate + 1 /\ d \in Steps
    BY <1>7, <2>1, WaitsForEarlier
  <2> QED
    BY <1>5, <2>2
<1>b. CASE s \in {1, 11, 12, 13, 19, 25, 26}
  BY <1>b, <1>2
<1>c. CASE s = 5
  BY <1>c, <1>3, <1>4, <1>5, <1>6, <1>7, <1>8 DEF Steps
<1>d. CASE s = 20
  BY <1>d, <1>3, <1>4, <1>5, <1>6, <1>7, <1>8 DEF Steps
<1>e. CASE s = 23
  BY <1>e, <1>3, <1>4, <1>5, <1>6, <1>7, <1>8 DEF Steps
<1> QED
  BY <1>a, <1>b, <1>c, <1>d, <1>e DEF Steps

-----------------------------------------------------------------------------
LEMMA InitIInv == Init => IInv
<1> SUFFICES ASSUME Init PROVE IInv
  OBVIOUS
<1>1. TypeOK
  BY DEF Init, TypeOK, Planned, Unplanned, Steps
<1>2. \A s \in Steps : ~ Planned(s)
  BY DEF Init, Planned
<1>3. Linked /\ NotBackwards /\ FollowsFlow
  BY <1>2 DEF Linked, NotBackwards, FollowsFlow, LinkedSteps
<1> QED
  BY <1>1, <1>3 DEF IInv

\* One step is planned: all that an action that does so has to show.
LEMMA SetKeepsIInv ==
    ASSUME IInv, next \in Steps, NEW start \in Int, NEW due \in Int,
           Set(next, start, due), start >= 0, endDate' \in Int,
           next # 19 => start <= due,
           next \in LinkedSteps =>
             Planned(UsualWait(next)) /\ start = dates[UsualWait(next)].dueDate + 1
    PROVE  IInv'
<1> USE DEF IInv
<1> DEFINE date == [startDate |-> start, dueDate |-> due]
<1>1. date \in Date /\ date # Unplanned
  BY DEF Date, Unplanned
<1>2. /\ dates' = [dates EXCEPT ![next] = date]
      /\ next' = next + 1 /\ answers' = answers
  BY DEF Set
<1>3. dates \in [Steps -> Date] /\ next \in 1 .. 28
  BY DEF TypeOK, Date
<1>4. dates' \in [Steps -> Date]
  BY <1>1, <1>2, <1>3
<1>5. \A s \in Steps : s # next => dates'[s] = dates[s] /\ (Planned(s)' <=> Planned(s))
  BY <1>2, <1>3 DEF Planned, Unplanned
<1>6. dates'[next] = date /\ dates'[next] # Unplanned
  BY <1>1, <1>2, <1>3
<1>7. \A s \in Steps : Planned(s) => s < next
  BY DEF TypeOK
<1>8. TypeOK'
  <2>1. answers' \subseteq Answers
    BY <1>2 DEF TypeOK
  <2>2. next' \in 1 .. 28
    BY <1>2 DEF Steps
  <2>3. \A s \in Steps : Planned(s)' => dates'[s].startDate >= 0
    BY <1>5, <1>6 DEF TypeOK
  <2>4. \A s \in Steps : Planned(s)' => s < next'
    BY <1>2, <1>5, <1>7 DEF Steps
  <2> QED
    BY <1>4, <2>1, <2>2, <2>3, <2>4 DEF TypeOK, Date
<1>9. Linked'
  <2> SUFFICES ASSUME NEW s \in LinkedSteps, Planned(s)'
               PROVE  /\ Planned(UsualWait(s))'
                      /\ dates'[s].startDate = dates'[UsualWait(s)].dueDate + 1
    BY DEF Linked
  <2>1. s \in Steps /\ UsualWait(s) \in Steps /\ UsualWait(s) < s
    BY WaitsForEarlier DEF LinkedSteps
  <2>2. CASE s = next
    <3>1. UsualWait(s) # next
      BY <2>1, <2>2 DEF Steps
    <3> QED
      BY <1>5, <1>6, <2>1, <2>2, <3>1
  <2>3. CASE s # next
    <3>1. Planned(s) /\ s < next
      BY <1>5, <1>7, <2>1, <2>3
    <3>2. UsualWait(s) # next
      BY <2>1, <3>1 DEF Steps
    <3>3. Planned(UsualWait(s)) /\ dates[s].startDate = dates[UsualWait(s)].dueDate + 1
      BY <3>1 DEF Linked, Steps
    <3> QED
      BY <1>5, <2>1, <2>3, <3>2, <3>3
  <2> QED
    BY <2>2, <2>3
<1>10. NotBackwards'
  <2> SUFFICES ASSUME NEW s \in Steps \ {19}, Planned(s)'
               PROVE  dates'[s].startDate <= dates'[s].dueDate
    BY DEF NotBackwards
  <2>1. CASE s = next
    BY <1>6, <2>1
  <2>2. CASE s # next
    BY <1>5, <2>2 DEF NotBackwards, Steps
  <2> QED
    BY <2>1, <2>2
<1>11. (next <= 27)'
  BY <1>2 DEF Steps
<1>12. FollowsFlow'
  BY <1>8, <1>9, <1>10, <1>11, ChainsCoverDependencies, PTL
<1> QED
  BY <1>8, <1>9, <1>10, <1>12

\* Once a step is due another can start the next day, at 0 or later.
LEMMA DueDates ==
    ASSUME IInv, next <= 27, NEW s \in Steps \ {19}, Planned(s)
    PROVE  dates[s].dueDate \in Nat
BY DEF IInv, TypeOK, NotBackwards

LEMMA LeaveOutKeepsIInv ==
    ASSUME IInv, LeaveOut
    PROVE  IInv'
<1> USE DEF IInv
<1>1. dates' = dates /\ endDate' = endDate /\ answers' = answers
  BY DEF LeaveOut
<1>2. next' = next + 1 /\ next' <= 27 /\ next <= 27 /\ next \in Int
  BY DEF LeaveOut, Steps
<1>3. \A s \in Steps : Planned(s)' <=> Planned(s)
  BY <1>1 DEF Planned
<1>4. TypeOK'
  BY <1>1, <1>2, <1>3 DEF TypeOK, Steps
<1>5. Linked'
  <2> SUFFICES ASSUME NEW s \in LinkedSteps, Planned(s)'
               PROVE  /\ Planned(UsualWait(s))'
                      /\ dates'[s].startDate = dates'[UsualWait(s)].dueDate + 1
    BY DEF Linked
  <2>1. s \in Steps /\ UsualWait(s) \in Steps
    BY WaitsForEarlier DEF LinkedSteps
  <2> QED
    BY <1>1, <1>2, <1>3, <2>1 DEF Linked
<1>6. NotBackwards'
  BY <1>1, <1>2, <1>3 DEF NotBackwards
<1>7. (next <= 27)'
  BY <1>2
<1>8. FollowsFlow'
  BY <1>4, <1>5, <1>6, <1>7, ChainsCoverDependencies, PTL
<1> QED
  BY <1>4, <1>5, <1>6, <1>8

LEMMA BoardDecisionKeepsIInv ==
    ASSUME IInv, BoardDecision
    PROVE  IInv'
<1>1. next = 1 /\ Set(next, 0, Duration[1]) /\ endDate' = endDate
  BY DEF BoardDecision
<1>2. Duration[1] \in Nat
  BY DurationType DEF Steps
<1>3. endDate' \in Int
  BY <1>1 DEF IInv, TypeOK
<1>4. next \in Steps /\ next \notin LinkedSteps
  BY <1>1 DEF Steps, LinkedSteps
<1> QED
  BY <1>1, <1>2, <1>3, <1>4, SetKeepsIInv

LEMMA PlanStepKeepsIInv ==
    ASSUME IInv, PlanStep
    PROVE  IInv'
<1> DEFINE start == dates[WaitsFor(next)].dueDate + 1
<1>1. /\ next \in Usual /\ Planned(WaitsFor(next)) /\ endDate' = endDate
      /\ Set(next, start, start + Duration[next])
  BY DEF PlanStep
<1>2. next \in Steps /\ next # 19 /\ next <= 27
  BY <1>1 DEF Usual, Steps
<1>3. next # 25 => next \in LinkedSteps /\ WaitsFor(next) = UsualWait(next)
  BY <1>1 DEF Usual, LinkedSteps, WaitsFor
<1>4. WaitsFor(next) \in Steps \ {19}
  <2>1. CASE next = 25
    BY <2>1 DEF WaitsFor, Steps
  <2>2. CASE next # 25
    BY <1>3, <2>2, WaitsForEarlier
  <2> QED
    BY <2>1, <2>2
<1>5. start \in Nat
  BY <1>1, <1>2, <1>4, DueDates
<1>6. Duration[next] \in Nat /\ endDate' \in Int
  BY <1>1, <1>2, DurationType DEF IInv, TypeOK
<1>7. next \in LinkedSteps => Planned(UsualWait(next)) /\ start = dates[UsualWait(next)].dueDate + 1
  BY <1>1, <1>3 DEF LinkedSteps
<1> HIDE DEF start
<1>8. start + Duration[next] \in Int /\ start >= 0 /\ start <= start + Duration[next]
  BY <1>5, <1>6
<1> QED
  BY <1>1, <1>2, <1>5, <1>6, <1>7, <1>8, SetKeepsIInv

LEMMA ArchiveRecordsKeepsIInv ==
    ASSUME IInv, ArchiveRecords
    PROVE  IInv'
<1>1. /\ next = 19 /\ Planned(1) /\ endDate' = endDate
      /\ Set(next, dates[1].startDate, dates[8].dueDate - 1)
  BY DEF ArchiveRecords
<1>2. /\ dates[1].startDate \in Int /\ dates[1].startDate >= 0
      /\ dates[8].dueDate - 1 \in Int /\ endDate' \in Int
  BY <1>1 DEF IInv, TypeOK, Steps
<1>3. next \in Steps /\ next \notin LinkedSteps
  BY <1>1 DEF Steps, LinkedSteps
<1> QED
  BY <1>1, <1>2, <1>3, SetKeepsIInv

LEMMA FinalizeEmployeesKeepsIInv ==
    ASSUME IInv, FinalizeEmployees
    PROVE  IInv'
<1> DEFINE start == dates[UsualWait(24)].dueDate + 1
<1>1. 24 \in LinkedSteps /\ WaitsFor(24) = UsualWait(24)
  BY DEF LinkedSteps, Steps, WaitsFor
<1>2. PICK rest \in 0 .. 30 : Set(24, start, start + rest)
  BY <1>1 DEF FinalizeEmployees
<1>3. next = 24 /\ Planned(UsualWait(24)) /\ endDate' = endDate
  BY <1>1 DEF FinalizeEmployees
<1>4. start \in Nat
  BY <1>1, <1>3, WaitsForEarlier, DueDates
<1>5. endDate' \in Int
  BY <1>3 DEF IInv, TypeOK
<1>6. next \in LinkedSteps => Planned(UsualWait(next)) /\ start = dates[UsualWait(next)].dueDate + 1
  BY <1>3
<1>7. Set(next, start, start + rest) /\ next \in Steps
  BY <1>2, <1>3 DEF Steps
<1> HIDE DEF start
<1> QED
  BY <1>4, <1>5, <1>6, <1>7, SetKeepsIInv

LEMMA TerminateKeepsIInv ==
    ASSUME IInv, Terminate
    PROVE  IInv'
<1> DEFINE start == dates[UsualWait(26)].dueDate + 1
<1>1. 26 \in LinkedSteps /\ WaitsFor(26) = UsualWait(26)
  BY DEF LinkedSteps, Steps, WaitsFor
<1>2. /\ next = 26 /\ Planned(UsualWait(26))
      /\ Set(next, start, start + Duration[next]) /\ endDate' = start + Duration[next]
  BY <1>1 DEF Terminate
<1>3. start \in Nat
  BY <1>1, <1>2, WaitsForEarlier, DueDates
<1>4. Duration[next] \in Nat /\ next \in Steps
  BY <1>2, DurationType DEF Steps
<1>5. next \in LinkedSteps => Planned(UsualWait(next)) /\ start = dates[UsualWait(next)].dueDate + 1
  BY <1>2
<1> HIDE DEF start
<1>6. endDate' \in Int /\ start + Duration[next] \in Int /\ start <= start + Duration[next]
  BY <1>2, <1>3, <1>4
<1> QED
  BY <1>2, <1>3, <1>4, <1>5, <1>6, SetKeepsIInv

\* The extension moves the ends of open-ended steps and nothing else.
LEMMA ExtendOpenEndedKeepsIInv ==
    ASSUME IInv, ExtendOpenEnded
    PROVE  IInv'
<1> USE DEF IInv
<1>1. next = 27 /\ next' = 28 /\ answers' = answers /\ endDate' = endDate
  BY DEF ExtendOpenEnded
<1>2. dates \in [Steps -> Date] /\ endDate \in Int
  BY DEF TypeOK, Date
<1>3. \A s \in Steps : dates'[s] = IF s \in OpenEnded /\ Planned(s)
                                     THEN [dates[s] EXCEPT !.dueDate = endDate] ELSE dates[s]
  BY DEF ExtendOpenEnded
<1>4. dates' \in [Steps -> Date]
  BY <1>2 DEF ExtendOpenEnded, Date
<1>5. \A s \in Steps : dates'[s].startDate = dates[s].startDate
  BY <1>2, <1>3 DEF Date
<1>6. \A s \in Steps : s \notin OpenEnded => dates'[s] = dates[s]
  BY <1>3
<1>7. \A s \in Steps : Planned(s) => dates[s].startDate >= 0 /\ s < next
  BY DEF TypeOK
<1>8. \A s \in Steps : Planned(s)' <=> Planned(s)
  <2> SUFFICES ASSUME NEW s \in Steps PROVE Planned(s)' <=> Planned(s)
    OBVIOUS
  <2>1. CASE Planned(s)
    <3>1. dates'[s].startDate >= 0
      BY <1>5, <1>7, <2>1
    <3> QED
      BY <2>1, <3>1 DEF Planned, Unplanned
  <2>2. CASE ~ Planned(s)
    BY <1>3, <2>2 DEF Planned
  <2> QED
    BY <2>1, <2>2
<1>9. TypeOK'
  BY <1>1, <1>2, <1>4, <1>5, <1>7, <1>8 DEF TypeOK, Date, Steps
<1>10. Linked' /\ NotBackwards'
  BY <1>1 DEF Linked, NotBackwards
<1>11. FollowsFlow'
  <2> SUFFICES ASSUME NEW s \in Steps, NEW d \in Dependencies[s],
                      Planned(s)', d \notin OpenEnded
               PROVE  Planned(d)' /\ dates'[s].startDate > dates'[d].dueDate
    BY <1>1 DEF FollowsFlow
  <2>1. Planned(d) /\ dates[s].startDate > dates[d].dueDate
    BY <1>1, <1>8 DEF FollowsFlow
  <2>2. d \in Steps
    BY DEF Dependencies, Steps
  <2> QED
    BY <1>5, <1>6, <1>8, <2>1, <2>2
<1> QED
  BY <1>9, <1>10, <1>11

-----------------------------------------------------------------------------
LEMMA Inductive == Spec => []IInv
<1>1. Init => IInv
  BY InitIInv
<1>2. IInv /\ [Next]_vars => IInv'
  <2> SUFFICES ASSUME IInv, [Next]_vars PROVE IInv'
    OBVIOUS
  <2>1. CASE LeaveOut
    BY <2>1, LeaveOutKeepsIInv
  <2>2. CASE BoardDecision
    BY <2>2, BoardDecisionKeepsIInv
  <2>3. CASE PlanStep
    BY <2>3, PlanStepKeepsIInv
  <2>4. CASE ArchiveRecords
    BY <2>4, ArchiveRecordsKeepsIInv
  <2>5. CASE FinalizeEmployees
    BY <2>5, FinalizeEmployeesKeepsIInv
  <2>6. CASE Terminate
    BY <2>6, TerminateKeepsIInv
  <2>7. CASE ExtendOpenEnded
    BY <2>7, ExtendOpenEndedKeepsIInv
  <2>8. CASE Finished \/ UNCHANGED vars
    BY <2>8 DEF Finished, vars, IInv, TypeOK, Linked, NotBackwards, FollowsFlow, Planned
  <2> QED
    BY <2>1, <2>2, <2>3, <2>4, <2>5, <2>6, <2>7, <2>8 DEF Next
<1> QED
  BY <1>1, <1>2, PTL DEF Spec

\* The plan stays well formed (tasks.service.ts createTasks): steps are planned
\* in their order and none starts before the first day, whatever they take.
THEOREM RoadmapTypeCorrect == Spec => []TypeOK
<1>1. IInv => TypeOK
  BY DEF IInv
<1> QED
  BY <1>1, Inductive, PTL

\* Whatever the durations, the answers and the month, no task of the roadmap
\* (createTasks) starts before the tasks its step depends on are due.
THEOREM RoadmapFollowsFlow == Spec => []FollowsFlow
<1>1. IInv => FollowsFlow
  BY DEF IInv
<1> QED
  BY <1>1, Inductive, PTL

-----------------------------------------------------------------------------
(* The loop never gets stuck: what has been passed and was not left out is  *)
(* planned, and a step needs the answers of the step it waits for.          *)

Passed == \A s \in Steps : s < next /\ Needs(s) \subseteq answers => Planned(s)

LEMMA NeedsOfWait ==
    \A s \in LinkedSteps : Needs(UsualWait(s)) \subseteq Needs(s)
<1>1. LinkedSteps = {2, 3, 4, 5, 6, 7, 8, 9, 10, 11, 12, 13, 14, 15, 16, 17, 18, 20,
                     21, 22, 23, 24, 26}
  BY DEF LinkedSteps, Steps
<1>2. \A s \in Steps \ {4, 9, 10, 11, 12} : Needs(s) = {}
  BY DEF Needs, Steps
<1>3. ASSUME NEW s \in LinkedSteps \ {10, 11}
      PROVE  UsualWait(s) \in Steps \ {4, 9, 10, 11, 12}
  BY <1>1 DEF UsualWait, Steps
<1>4. \A s \in {10, 11} : UsualWait(s) = 9 /\ Needs(9) \subseteq Needs(s)
  BY DEF UsualWait, Needs
<1> QED
  BY <1>2, <1>3, <1>4

LEMMA NothingIsMissing == TypeOK /\ Passed => NeverThrows
<1> SUFFICES ASSUME TypeOK, Passed, next \in Steps, Needs(next) \subseteq answers,
                    NEW d \in Reads(next)
             PROVE  Planned(d)
  BY DEF NeverThrows
<1>1. CASE next = 1
  BY <1>1 DEF Reads
<1>2. CASE next = 19
  <2>1. d \in Steps /\ d < next /\ Needs(d) = {}
    BY <1>2 DEF Reads, Needs, Steps
  <2> QED
    BY <2>1 DEF Passed
<1>3. CASE next = 25
  <2>1. (d = 11 /\ Planned(11)) \/ d = 18
    BY <1>3 DEF Reads, WaitsFor
  <2>2. 18 \in Steps /\ 18 < next /\ Needs(18) = {}
    BY <1>3 DEF Needs, Steps
  <2> QED
    BY <2>1, <2>2 DEF Passed
<1>4. CASE next \in LinkedSteps
  <2>1. d = UsualWait(next)
    BY <1>4 DEF Reads, WaitsFor, LinkedSteps, Steps
  <2> QED
    BY <1>4, <2>1, NeedsOfWait, WaitsForEarlier DEF Passed
<1> QED
  BY <1>1, <1>2, <1>3, <1>4 DEF LinkedSteps

LEMMA SetIsPassed ==
    ASSUME TypeOK, Passed, next \in Steps, NEW start \in Int, NEW due \in Int,
           Set(next, start, due), start >= 0
    PROVE  Passed'
<1>1. PICK n \in Steps : n = next
  OBVIOUS
<1>2. /\ next' = n + 1 /\ answers' = answers
      /\ \A s \in Steps \ {n} : dates'[s] = dates[s]
      /\ dates'[n].startDate = start
  BY <1>1 DEF Set, TypeOK
<1>3. dates'[n] # Unplanned
  BY <1>2 DEF Unplanned
<1>4. \A s \in Steps : s < n + 1 => s < n \/ s = n
  BY DEF Steps
<1> QED
  BY <1>1, <1>2, <1>3, <1>4 DEF Passed, Planned

LEMMA NextIsPassed == IInv /\ Passed /\ [Next]_vars => Passed'
<1> SUFFICES ASSUME IInv, Passed, [Next]_vars PROVE Passed'
  OBVIOUS
<1>0. TypeOK
  BY DEF IInv
<1>1. ASSUME NEW s \in Steps \ {19}, Planned(s), next <= 27
      PROVE  dates[s].dueDate + 1 \in Nat
  BY <1>1, DueDates
<1>2. CASE LeaveOut
  BY <1>0, <1>2 DEF LeaveOut, TypeOK, Passed, Planned, Steps
<1>3. CASE BoardDecision
  <2>1. next \in Steps /\ Set(next, 0, Duration[1]) /\ Duration[1] \in Int
    BY <1>3, DurationType DEF BoardDecision, Steps
  <2> QED
    BY <1>0, <2>1, SetIsPassed
<1>4. CASE PlanStep
  <2> DEFINE start == dates[WaitsFor(next)].dueDate + 1
  <2>1. next \in Usual /\ Set(next, start, start + Duration[next]) /\ Planned(WaitsFor(next))
    BY <1>4 DEF PlanStep
  <2>2. next \in Steps /\ next <= 27 /\ Duration[next] \in Int
    BY <2>1, DurationType DEF Usual, Steps
  <2>3. WaitsFor(next) \in Steps \ {19}
    <3>1. next = 25 \/ (next \in LinkedSteps /\ WaitsFor(next) = UsualWait(next))
      BY <2>1 DEF Usual, LinkedSteps, WaitsFor
    <3> QED
      BY <3>1, WaitsForEarlier DEF WaitsFor, Steps
  <2>4. start \in Nat
    BY <1>1, <2>1, <2>2, <2>3
  <2> HIDE DEF start
  <2> QED
    BY <1>0, <2>1, <2>2, <2>4, SetIsPassed
<1>5. CASE ArchiveRecords
  <2>1. /\ next = 19 /\ Planned(1) /\ next \in Steps
        /\ Set(next, dates[1].startDate, dates[8].dueDate - 1)
    BY <1>5 DEF ArchiveRecords, Steps
  <2>2. dates[1].startDate \in Int /\ dates[1].startDate >= 0 /\ dates[8].dueDate - 1 \in Int
    BY <1>0, <2>1 DEF TypeOK, Steps
  <2> QED
    BY <1>0, <2>1, <2>2, SetIsPassed
<1>6. CASE FinalizeEmployees \/ Terminate
  <2> DEFINE start == dates[WaitsFor(next)].dueDate + 1
  <2>1. /\ next \in {24, 26} /\ next \in Steps /\ next <= 27 /\ Planned(WaitsFor(next))
        /\ \E rest \in Nat : Set(next, start, start + rest)
    BY <1>6, DurationType DEF FinalizeEmployees, Terminate, Steps
  <2>2. WaitsFor(next) \in Steps \ {19}
    BY <2>1 DEF WaitsFor, UsualWait, Steps
  <2>3. start \in Nat
    BY <1>1, <2>1, <2>2
  <2> HIDE DEF start
  <2> QED
    BY <1>0, <2>1, <2>3, SetIsPassed
<1>7. CASE ExtendOpenEnded
  <2>1. ASSUME NEW s \in Steps, Planned(s) PROVE Planned(s)'
    <3>1. dates[s].startDate >= 0 /\ dates[s].startDate \in Int
      BY <1>0, <2>1 DEF TypeOK
    <3>2. dates'[s].startDate = dates[s].startDate
      BY <1>0, <1>7 DEF ExtendOpenEnded, TypeOK
    <3> QED
      BY <3>1, <3>2 DEF Planned, Unplanned
  <2>2. next = 27 /\ answers' = answers
    BY <1>7 DEF ExtendOpenEnded
  <2> QED
    BY <2>1, <2>2 DEF Passed, Steps
<1>8. CASE Finished \/ UNCHANGED vars
  BY <1>8 DEF Finished, vars, Passed, Planned
<1> QED
  BY <1>2, <1>3, <1>4, <1>5, <1>6, <1>7, <1>8 DEF Next

\* Whatever a company answers, the plan of its roadmap goes through: no step
\* reads the dates of one that was left out (createTasks, 78-271).
THEOREM RoadmapNeverThrows == Spec => []NeverThrows
<1>1. Init => Passed
  BY DEF Init, Passed, Steps
<1>2. IInv /\ Passed /\ [Next]_vars => Passed'
  BY NextIsPassed
<1>3. IInv => TypeOK
  BY DEF IInv
<1> QED
  BY <1>1, <1>2, <1>3, Inductive, NothingIsMissing, PTL DEF Spec

-----------------------------------------------------------------------------
(* The roadmap with the durations of the seeded flow: its end.              *)

\* How long each planned step takes, and what the archive (19), the final meeting
\* (25) and the termination (26), which nothing leaves out, begin or end with.
LastsAt(s) ==
    Planned(s) =>
      /\ s \notin {19, 24} => dates[s].dueDate = dates[s].startDate + Duration[s]
      /\ s = 24 => dates[s].dueDate <= dates[s].startDate + 30
      /\ s = 1 => dates[s].startDate = 0
      /\ s = 19 => Planned(8) /\ dates[s] = [startDate |-> 0, dueDate |-> dates[8].dueDate - 1]
      /\ s = 25 => \E w \in {11, 18} : Planned(w) /\ dates[s].startDate = dates[w].dueDate + 1
      /\ s = 26 => endDate = dates[s].dueDate

Lasts ==
    next <= 27 => \A s \in Steps : LastsAt(s) /\ (s \in {19, 25, 26} /\ s < next => Planned(s))

\* What planning one step leaves to show.
LEMMA SetKeepsLasts ==
    ASSUME IInv, Lasts, NEW n \in Steps, n = next, NEW start \in Int, NEW due \in Int,
           start >= 0, Set(n, start, due), n # 26 => UNCHANGED endDate, LastsAt(n)'
    PROVE  Lasts'
<1> DEFINE date == [startDate |-> start, dueDate |-> due]
<1>1. date \in Date /\ date # Unplanned
  BY DEF Date, Unplanned
<1>2. dates' = [dates EXCEPT ![n] = date] /\ next' = n + 1
  BY DEF Set
<1>3. dates \in [Steps -> Date] /\ \A s \in Steps : Planned(s) => s < n
  BY DEF IInv, TypeOK, Date
<1>4. \A s \in Steps : s # n => dates'[s] = dates[s] /\ (Planned(s)' <=> Planned(s))
  BY <1>2, <1>3 DEF Planned
<1>5. Planned(n)' /\ \A s \in Steps : Planned(s) => Planned(s)'
  BY <1>1, <1>2, <1>3, <1>4 DEF Planned
<1>6. next <= 27 /\ n \in Int
  BY DEF Steps
<1> SUFFICES ASSUME NEW s \in Steps
             PROVE  LastsAt(s)' /\ (s \in {19, 25, 26} /\ s < next' => Planned(s)')
  BY DEF Lasts
<1>7. CASE s = n
  BY <1>5, <1>7
<1>8. CASE s # n
  <2>1. LastsAt(s) /\ (s \in {19, 25, 26} /\ s < next => Planned(s))
    BY <1>6 DEF Lasts
  <2>2. s < next' => s < next
    BY <1>2, <1>6, <1>8 DEF Steps
  <2>3. ASSUME Planned(s)' PROVE LastsAt(s)'
    <3>1. Planned(s) /\ dates'[s] = dates[s] /\ s < n
      BY <1>3, <1>4, <1>8, <2>3
    <3>2. \A w \in {8, 11, 18} : Planned(w) => Planned(w)' /\ dates'[w] = dates[w]
      <4>1. \A w \in {8, 11, 18} : w \in Steps
        BY DEF Steps
      <4>2. \A w \in Steps : Planned(w) => w # n
        BY <1>3, <1>6 DEF Steps
      <4> QED
        BY <1>4, <4>1, <4>2
    <3>3. s = 26 => endDate' = endDate
      BY <1>6, <3>1 DEF Steps
    <3>4. s = 19 => Planned(8)' /\ dates'[s] = [startDate |-> 0, dueDate |-> dates'[8].dueDate - 1]
      BY <2>1, <3>1, <3>2 DEF LastsAt
    <3>5. s = 25 => \E w \in {11, 18} : Planned(w)' /\ dates'[s].startDate = dates'[w].dueDate + 1
      BY <2>1, <3>1, <3>2 DEF LastsAt
    <3> QED
      BY <2>1, <3>1, <3>3, <3>4, <3>5 DEF LastsAt
  <2> QED
    BY <1>4, <1>8, <2>1, <2>2, <2>3 DEF LastsAt
<1> QED
  BY <1>7, <1>8

LEMMA LeaveOutKeepsLasts ==
    ASSUME IInv, Lasts, LeaveOut
    PROVE  Lasts'
<1>1. UNCHANGED <<dates, endDate>> /\ next' = next + 1 /\ next \in Steps
  BY DEF LeaveOut
<1>2. next \notin {19, 25, 26} /\ next <= 27
  BY <1>1 DEF LeaveOut, Needs, Steps
<1>3. \A s \in Steps : s \in {19, 25, 26} /\ s < next' => s < next
  BY <1>1, <1>2 DEF Steps
<1> QED
  BY <1>1, <1>2, <1>3 DEF Lasts, LastsAt, Planned

LEMMA BoardDecisionKeepsLasts ==
    ASSUME IInv, Lasts, BoardDecision
    PROVE  Lasts'
<1>1. next = 1 /\ Set(1, 0, Duration[1]) /\ UNCHANGED endDate /\ 1 \in Steps
  BY DEF BoardDecision, Steps
<1>2. Duration[1] \in Nat /\ dates \in [Steps -> Date]
  BY <1>1, DurationType DEF IInv, TypeOK, Date
<1>3. dates'[1] = [startDate |-> 0, dueDate |-> Duration[1]]
  BY <1>1, <1>2 DEF Set
<1>4. LastsAt(1)'
  BY <1>1, <1>2, <1>3 DEF LastsAt
<1> QED
  BY <1>1, <1>2, <1>4, SetKeepsLasts

LEMMA PlanStepKeepsLasts ==
    ASSUME IInv, Lasts, PlanStep
    PROVE  Lasts'
<1> PICK n \in Steps : n = next
  BY DEF PlanStep, Usual
<1> DEFINE w == WaitsFor(n)
           start == dates[w].dueDate + 1
<1>1. /\ n = next /\ n \in Usual /\ Planned(w) /\ UNCHANGED endDate
      /\ Set(n, start, start + Duration[n])
  BY DEF PlanStep
<1>2. n \in Steps /\ n = next /\ n \notin {1, 19, 24, 26} /\ next <= 27
  BY <1>1 DEF Usual, Steps
<1>3. w \in Steps \ {19} /\ (n = 25 => w \in {11, 18})
  <2>1. CASE n = 25
    BY <2>1 DEF WaitsFor, Steps
  <2>2. CASE n # 25
    <3>1. n \in LinkedSteps /\ w = UsualWait(n)
      BY <1>2, <2>2 DEF LinkedSteps, WaitsFor
    <3> QED
      BY <2>2, <3>1, WaitsForEarlier
  <2> QED
    BY <2>1, <2>2
<1>4. w # n
  BY <1>1, <1>2 DEF IInv, TypeOK, Steps
<1> HIDE DEF w
<1>5. start \in Nat
  BY <1>1, <1>2, <1>3, DueDates
<1>6. Duration[n] \in Nat /\ dates \in [Steps -> Date]
  BY <1>2, DurationType DEF IInv, TypeOK, Date
<1>7. /\ dates'[n] = [startDate |-> start, dueDate |-> start + Duration[n]]
      /\ \A v \in Steps : v # n => dates'[v] = dates[v]
  BY <1>1, <1>2, <1>6 DEF Set
<1>8. n = 25 => \E v \in {11, 18} : Planned(v)' /\ dates'[n].startDate = dates'[v].dueDate + 1
  BY <1>1, <1>3, <1>4, <1>7 DEF Planned
<1> HIDE DEF start
<1>9. start + Duration[n] \in Int /\ start >= 0 /\ start \in Int
  BY <1>5, <1>6
<1>10. LastsAt(n)'
  BY <1>2, <1>7, <1>8 DEF LastsAt
<1> QED
  BY <1>1, <1>2, <1>9, <1>10, SetKeepsLasts

LEMMA ArchiveRecordsKeepsLasts ==
    ASSUME IInv, Lasts, ArchiveRecords
    PROVE  Lasts'
<1>1. /\ next = 19 /\ Planned(1) /\ Planned(8) /\ UNCHANGED endDate /\ 19 \in Steps
      /\ Set(19, dates[1].startDate, dates[8].dueDate - 1)
  BY DEF ArchiveRecords, Steps
<1>2. dates[1].startDate = 0
  BY <1>1 DEF Lasts, LastsAt, Steps
<1>3. dates \in [Steps -> Date] /\ 8 \in Steps /\ dates[8].dueDate - 1 \in Int
  BY DEF IInv, TypeOK, Date, Steps
<1>4. /\ dates'[19] = [startDate |-> 0, dueDate |-> dates[8].dueDate - 1]
      /\ dates'[8] = dates[8]
  BY <1>1, <1>2, <1>3 DEF Set
<1>5. LastsAt(19)'
  BY <1>1, <1>4 DEF LastsAt, Planned
<1>6. 0 \in Int /\ 0 >= 0
  OBVIOUS
<1> QED
  BY <1>1, <1>2, <1>3, <1>5, <1>6, SetKeepsLasts

LEMMA FinalizeEmployeesKeepsLasts ==
    ASSUME IInv, Lasts, FinalizeEmployees
    PROVE  Lasts'
<1> DEFINE start == dates[UsualWait(24)].dueDate + 1
<1>1. 24 \in LinkedSteps /\ WaitsFor(24) = UsualWait(24)
  BY DEF LinkedSteps, Steps, WaitsFor
<1>2. PICK rest \in 0 .. 30 : Set(24, start, start + rest)
  BY <1>1 DEF FinalizeEmployees
<1>3. next = 24 /\ 24 \in Steps /\ Planned(UsualWait(24)) /\ UNCHANGED endDate
  BY <1>1 DEF FinalizeEmployees, Steps
<1>4. start \in Nat
  BY <1>1, <1>3, WaitsForEarlier, DueDates
<1>5. dates \in [Steps -> Date]
  BY DEF IInv, TypeOK, Date
<1> HIDE DEF start
<1>6. dates'[24] = [startDate |-> start, dueDate |-> start + rest]
  BY <1>2, <1>3, <1>5 DEF Set
<1>7. LastsAt(24)'
  BY <1>3, <1>4, <1>6 DEF LastsAt
<1>8. start + rest \in Int /\ start >= 0 /\ start \in Int
  BY <1>4
<1> QED
  BY <1>2, <1>3, <1>7, <1>8, SetKeepsLasts

LEMMA TerminateKeepsLasts ==
    ASSUME IInv, Lasts, Terminate
    PROVE  Lasts'
<1> DEFINE start == dates[UsualWait(26)].dueDate + 1
<1>1. 26 \in LinkedSteps /\ WaitsFor(26) = UsualWait(26)
  BY DEF LinkedSteps, Steps, WaitsFor
<1>2. /\ next = 26 /\ 26 \in Steps /\ Planned(UsualWait(26))
      /\ Set(26, start, start + Duration[26]) /\ endDate' = start + Duration[26]
  BY <1>1 DEF Terminate, Steps
<1>3. start \in Nat
  BY <1>1, <1>2, WaitsForEarlier, DueDates
<1>4. Duration[26] \in Nat /\ dates \in [Steps -> Date]
  BY <1>2, DurationType DEF IInv, TypeOK, Date
<1> HIDE DEF start
<1>5. dates'[26] = [startDate |-> start, dueDate |-> start + Duration[26]]
  BY <1>2, <1>4 DEF Set
<1>6. LastsAt(26)'
  BY <1>2, <1>5 DEF LastsAt
<1>7. start + Duration[26] \in Int /\ start >= 0 /\ start \in Int
  BY <1>3, <1>4
<1> QED
  BY <1>2, <1>6, <1>7, SetKeepsLasts

\* Every date but that of the month's end is known before the extension.
LEMMA SeededDates ==
    ASSUME IInv, Lasts, next = 27, Duration = SeedDuration
    PROVE  /\ \A s \in Steps : Planned(s) =>
                /\ dates[s].startDate <= dates[s].dueDate
                /\ dates[s].dueDate <= endDate /\ dates[s].startDate <= endDate
           /\ dates[19].dueDate < dates[25].startDate
           /\ Planned(19) /\ Planned(25)
<1>1. /\ Duration[1] = 7 /\ Duration[2] = 28 /\ Duration[3] = 1 /\ Duration[4] = 14
      /\ Duration[5] = 7 /\ Duration[6] = 7 /\ Duration[7] = 3 /\ Duration[8] = 14
      /\ Duration[9] = 14 /\ Duration[10] = 56 /\ Duration[11] = 56 /\ Duration[12] = 0
      /\ Duration[13] = 28
  BY DEF SeedDuration, SellingDuration, ClosingDuration
<1>2. /\ Duration[14] = 60 /\ Duration[15] = 14 /\ Duration[16] = 7 /\ Duration[17] = 0
      /\ Duration[18] = 14 /\ Duration[20] = 2 /\ Duration[21] = 0
      /\ Duration[22] = 7 /\ Duration[23] = 14 /\ Duration[25] = 1 /\ Duration[26] = 1
  BY DEF SeedDuration, SellingDuration, ClosingDuration
<1> DEFINE Runs(s, m, n) == Planned(s) => dates[s].startDate = m /\ dates[s].dueDate = n
<1>3. \A s \in Steps : LastsAt(s)
  BY DEF Lasts
<1>4. \A s \in LinkedSteps :
        Planned(s) => Planned(UsualWait(s)) /\ dates[s].startDate = dates[UsualWait(s)].dueDate + 1
  BY DEF IInv, Linked
<1>5. ASSUME NEW s \in LinkedSteps \ {24}, NEW w, UsualWait(s) = w, Planned(s)
      PROVE  /\ Planned(w) /\ dates[s].startDate = dates[w].dueDate + 1
             /\ dates[s].dueDate = dates[s].startDate + Duration[s]
  <2>1. s \in Steps \ {19, 24}
    BY DEF LinkedSteps
  <2> QED
    BY <1>3, <1>4, <1>5, <2>1 DEF LastsAt
<1>6. Runs(1, 0, 7)
  BY <1>1, <1>3 DEF LastsAt, Steps
<1> HIDE DEF Runs
<1>7. Runs(2, 8, 36)
  <2>1. 2 \in LinkedSteps \ {24} /\ UsualWait(2) = 1
    BY DEF LinkedSteps, Steps, UsualWait
  <2> QED
    BY <1>1, <1>5, <1>6, <2>1 DEF Runs
<1>8. Runs(3, 37, 38) /\ Runs(4, 37, 51) /\ Runs(6, 37, 44) /\ Runs(12, 37, 37) /\ Runs(13, 37, 65) /\ Runs(14, 37, 97)
  <2>1. Runs(3, 37, 38)
    <3>1. 3 \in LinkedSteps \ {24} /\ UsualWait(3) = 2
      BY DEF LinkedSteps, Steps, UsualWait
    <3> QED
      BY <1>1, <1>5, <1>7, <3>1 DEF Runs
  <2>2. Runs(4, 37, 51)
    <3>1. 4 \in LinkedSteps \ {24} /\ UsualWait(4) = 2
      BY DEF LinkedSteps, Steps, UsualWait
    <3> QED
      BY <1>1, <1>5, <1>7, <3>1 DEF Runs
  <2>3. Runs(6, 37, 44)
    <3>1. 6 \in LinkedSteps \ {24} /\ UsualWait(6) = 2
      BY DEF LinkedSteps, Steps, UsualWait
    <3> QED
      BY <1>1, <1>5, <1>7, <3>1 DEF Runs
  <2>4. Runs(12, 37, 37)
    <3>1. 12 \in LinkedSteps \ {24} /\ UsualWait(12) = 2
      BY DEF LinkedSteps, Steps, UsualWait
    <3> QED
      BY <1>1, <1>5, <1>7, <3>1 DEF Runs
  <2>5. Runs(13, 37, 65)
    <3>1. 13 \in LinkedSteps \ {24} /\ UsualWait(13) = 2
      BY DEF LinkedSteps, Steps, UsualWait
    <3> QED
      BY <1>1, <1>5, <1>7, <3>1 DEF Runs
  <2>6. Runs(14, 37, 97)
    <3>1. 14 \in LinkedSteps \ {24} /\ UsualWait(14) = 2
      BY DEF LinkedSteps, Steps, UsualWait
    <3> QED
      BY <1>2, <1>5, <1>7, <3>1 DEF Runs
  <2> QED
    BY <2>1, <2>2, <2>3, <2>4, <2>5, <2>6
<1>9. Runs(5, 39, 46) /\ Runs(7, 45, 48) /\ Runs(9, 39, 53)
  <2>1. Runs(5, 39, 46)
    <3>1. 5 \in LinkedSteps \ {24} /\ UsualWait(5) = 3
      BY DEF LinkedSteps, Steps, UsualWait
    <3> QED
      BY <1>1, <1>5, <1>8, <3>1 DEF Runs
  <2>2. Runs(7, 45, 48)
    <3>1. 7 \in LinkedSteps \ {24} /\ UsualWait(7) = 6
      BY DEF LinkedSteps, Steps, UsualWait
    <3> QED
      BY <1>1, <1>5, <1>8, <3>1 DEF Runs
  <2>3. Runs(9, 39, 53)
    <3>1. 9 \in LinkedSteps \ {24} /\ UsualWait(9) = 3
      BY DEF LinkedSteps, Steps, UsualWait
    <3> QED
      BY <1>1, <1>5, <1>8, <3>1 DEF Runs
  <2> QED
    BY <2>1, <2>2, <2>3
<1>10. Runs(8, 49, 63) /\ Runs(10, 54, 110) /\ Runs(11, 54, 110)
  <2>1. Runs(8, 49, 63)
    <3>1. 8 \in LinkedSteps \ {24} /\ UsualWait(8) = 7
      BY DEF LinkedSteps, Steps, UsualWait
    <3> QED
      BY <1>1, <1>5, <1>9, <3>1 DEF Runs
  <2>2. Runs(10, 54, 110)
    <3>1. 10 \in LinkedSteps \ {24} /\ UsualWait(10) = 9
      BY DEF LinkedSteps, Steps, UsualWait
    <3> QED
      BY <1>1, <1>5, <1>9, <3>1 DEF Runs
  <2>3. Runs(11, 54, 110)
    <3>1. 11 \in LinkedSteps \ {24} /\ UsualWait(11) = 9
      BY DEF LinkedSteps, Steps, UsualWait
    <3> QED
      BY <1>1, <1>5, <1>9, <3>1 DEF Runs
  <2> QED
    BY <2>1, <2>2, <2>3
<1>11. Runs(15, 66, 80) /\ Runs(16, 66, 73) /\ Runs(18, 98, 112) /\ Runs(22, 66, 73)
  <2>1. Runs(15, 66, 80)
    <3>1. 15 \in LinkedSteps \ {24} /\ UsualWait(15) = 13
      BY DEF LinkedSteps, Steps, UsualWait
    <3> QED
      BY <1>2, <1>5, <1>8, <3>1 DEF Runs
  <2>2. Runs(16, 66, 73)
    <3>1. 16 \in LinkedSteps \ {24} /\ UsualWait(16) = 13
      BY DEF LinkedSteps, Steps, UsualWait
    <3> QED
      BY <1>2, <1>5, <1>8, <3>1 DEF Runs
  <2>3. Runs(18, 98, 112)
    <3>1. 18 \in LinkedSteps \ {24} /\ UsualWait(18) = 14
      BY DEF LinkedSteps, Steps, UsualWait
    <3> QED
      BY <1>2, <1>5, <1>8, <3>1 DEF Runs
  <2>4. Runs(22, 66, 73)
    <3>1. 22 \in LinkedSteps \ {24} /\ UsualWait(22) = 13
      BY DEF LinkedSteps, Steps, UsualWait
    <3> QED
      BY <1>2, <1>5, <1>8, <3>1 DEF Runs
  <2> QED
    BY <2>1, <2>2, <2>3, <2>4
<1>12. Runs(17, 74, 74) /\ Runs(20, 64, 66)
  <2>1. Runs(17, 74, 74)
    <3>1. 17 \in LinkedSteps \ {24} /\ UsualWait(17) = 16
      BY DEF LinkedSteps, Steps, UsualWait
    <3> QED
      BY <1>2, <1>5, <1>11, <3>1 DEF Runs
  <2>2. Runs(20, 64, 66)
    <3>1. 20 \in LinkedSteps \ {24} /\ UsualWait(20) = 8
      BY DEF LinkedSteps, Steps, UsualWait
    <3> QED
      BY <1>2, <1>5, <1>10, <3>1 DEF Runs
  <2> QED
    BY <2>1, <2>2
<1>13. Runs(21, 67, 67) /\ Runs(23, 75, 89)
  <2>1. Runs(21, 67, 67)
    <3>1. 21 \in LinkedSteps \ {24} /\ UsualWait(21) = 20
      BY DEF LinkedSteps, Steps, UsualWait
    <3> QED
      BY <1>2, <1>5, <1>12, <3>1 DEF Runs
  <2>2. Runs(23, 75, 89)
    <3>1. 23 \in LinkedSteps \ {24} /\ UsualWait(23) = 17
      BY DEF LinkedSteps, Steps, UsualWait
    <3> QED
      BY <1>2, <1>5, <1>12, <3>1 DEF Runs
  <2> QED
    BY <2>1, <2>2
<1> USE DEF Runs
<1>14. Planned(24) => /\ dates[24].startDate = 49 /\ dates[24].dueDate <= 79
                      /\ dates[24].startDate <= dates[24].dueDate
  <2>1. 24 \in LinkedSteps /\ 24 \in Steps \ {19} /\ UsualWait(24) = 7
    BY DEF LinkedSteps, Steps, UsualWait
  <2> QED
    BY <1>3, <1>4, <1>9, <2>1 DEF LastsAt, IInv, NotBackwards
<1>15. /\ Planned(19) /\ Planned(25) /\ Planned(26)
       /\ dates[19].startDate = 0 /\ dates[19].dueDate = 62
  <2>1. 8 \in Steps /\ {19, 25, 26} \subseteq Steps
    BY DEF Steps
  <2> QED
    BY <1>3, <1>10, <2>1 DEF Lasts, LastsAt
<1>16. /\ dates[25].startDate \in {111, 113}
       /\ dates[25].dueDate = dates[25].startDate + 1
  <2>1. 25 \in Steps
    BY DEF Steps
  <2> QED
    BY <1>2, <1>3, <1>10, <1>11, <1>15, <2>1 DEF LastsAt
<1>17. /\ dates[26].startDate = dates[25].dueDate + 1
       /\ dates[26].dueDate = dates[26].startDate + 1 /\ endDate = dates[26].dueDate
  <2>1. 26 \in LinkedSteps /\ 26 \in Steps /\ UsualWait(26) = 25
    BY DEF LinkedSteps, Steps, UsualWait
  <2> QED
    BY <1>2, <1>3, <1>4, <1>15, <2>1 DEF LastsAt
<1>18. endDate \in Int /\ endDate >= 114
  BY <1>16, <1>17
<1>19. ASSUME NEW s \in Steps, Planned(s)
       PROVE  /\ dates[s].startDate <= dates[s].dueDate
              /\ dates[s].dueDate <= endDate /\ dates[s].startDate <= endDate
  <2>1. CASE s \in {1, 2, 5, 7, 9}
    BY <1>6, <1>7, <1>9, <1>18, <1>19, <2>1
  <2>2. CASE s \in {3, 4, 6, 12, 13, 14}
    BY <1>8, <1>18, <1>19, <2>2
  <2>3. CASE s \in {8, 10, 11}
    BY <1>10, <1>18, <1>19, <2>3
  <2>4. CASE s \in {15, 16, 18, 22}
    BY <1>11, <1>18, <1>19, <2>4
  <2>5. CASE s \in {17, 20, 21, 23}
    BY <1>12, <1>13, <1>18, <1>19, <2>5
  <2>6. CASE s = 19
    BY <1>15, <1>18, <2>6
  <2>7. CASE s = 24
    <3>1. dates[24].dueDate \in Int
      BY <2>7 DEF IInv, TypeOK
    <3> QED
      BY <1>14, <1>18, <1>19, <2>7, <3>1
  <2>8. CASE s \in {25, 26}
    BY <1>16, <1>17, <2>8
  <2> QED
    BY <2>1, <2>2, <2>3, <2>4, <2>5, <2>6, <2>7, <2>8 DEF Steps
<1>20. dates[19].dueDate < dates[25].startDate
  BY <1>15, <1>16
<1> QED
  BY <1>15, <1>19, <1>20

\* The extension ends at the end what began before it.
LEMMA ExtendOpenEndedEndsLast ==
    ASSUME IInv, Lasts, ExtendOpenEnded, Duration = SeedDuration
    PROVE  EndsLast'
<1>1. next = 27 /\ UNCHANGED endDate
  BY DEF ExtendOpenEnded
<1>2. dates \in [Steps -> Date] /\ endDate \in Int
  BY DEF IInv, TypeOK, Date
<1>3. \A s \in Steps : dates'[s] = IF s \in OpenEnded /\ Planned(s)
                                     THEN [dates[s] EXCEPT !.dueDate = endDate] ELSE dates[s]
  BY DEF ExtendOpenEnded
<1>4. ASSUME NEW s \in Steps, Planned(s)'
      PROVE  dates'[s].startDate <= dates'[s].dueDate /\ dates'[s].dueDate <= endDate'
  <2>1. CASE s \in OpenEnded /\ Planned(s)
    <3>1. dates'[s].startDate = dates[s].startDate /\ dates'[s].dueDate = endDate
      BY <1>2, <1>3, <2>1 DEF Date
    <3>2. dates[s].startDate <= endDate /\ endDate <= endDate
      BY <1>1, <1>2, <2>1, SeededDates
    <3> QED
      BY <1>1, <3>1, <3>2
  <2>2. CASE ~ (s \in OpenEnded /\ Planned(s))
    <3>1. dates'[s] = dates[s] /\ Planned(s)
      BY <1>3, <1>4, <2>2 DEF Planned
    <3> QED
      BY <1>1, <3>1, SeededDates
  <2> QED
    BY <2>1, <2>2
<1>5. 19 \in Steps \ OpenEnded /\ 25 \in Steps \ OpenEnded
  BY DEF Steps, OpenEnded
<1>6. dates'[19].dueDate < dates'[25].startDate
  BY <1>1, <1>3, <1>5, SeededDates
<1> QED
  BY <1>4, <1>6 DEF EndsLast

\* With the durations of the seeded flow no task is due before it starts or
\* after the company's legal termination, and the archive is closed before the
\* final meeting, whatever was answered and in whatever month it falls
\* (createTasks, dissolution.seed.ts).
THEOREM SeededFlowEndsLast ==
    ASSUME Duration = SeedDuration
    PROVE  Spec => []EndsLast
<1>1. Init => Lasts /\ EndsLast
  <2> SUFFICES ASSUME Init PROVE Lasts /\ EndsLast
    OBVIOUS
  <2>1. next = 1 /\ \A s \in Steps : ~ Planned(s)
    BY DEF Init, Planned
  <2> QED
    BY <2>1 DEF Lasts, LastsAt, EndsLast, Steps
<1>2. IInv /\ Lasts /\ EndsLast /\ [Next]_vars => Lasts' /\ EndsLast'
  <2> SUFFICES ASSUME IInv, Lasts, EndsLast, [Next]_vars PROVE Lasts' /\ EndsLast'
    OBVIOUS
  <2>1. CASE LeaveOut \/ BoardDecision \/ PlanStep \/ ArchiveRecords \/ FinalizeEmployees
               \/ Terminate
    <3>1. Lasts'
      BY <2>1, LeaveOutKeepsLasts, BoardDecisionKeepsLasts, PlanStepKeepsLasts,
         ArchiveRecordsKeepsLasts, FinalizeEmployeesKeepsLasts, TerminateKeepsLasts
    <3>2. next \in Steps /\ next' = next + 1
      BY <2>1 DEF LeaveOut, BoardDecision, PlanStep, ArchiveRecords, FinalizeEmployees,
                  Terminate, Set, Usual, Steps
    <3> QED
      BY <3>1, <3>2 DEF EndsLast, Steps
  <2>2. CASE ExtendOpenEnded
    <3>1. Lasts'
      BY <2>2 DEF ExtendOpenEnded, Lasts
    <3> QED
      BY <2>2, <3>1, ExtendOpenEndedEndsLast
  <2>3. CASE Finished \/ UNCHANGED vars
    BY <2>3 DEF Finished, vars, Lasts, LastsAt, EndsLast, Planned
  <2> QED
    BY <2>1, <2>2, <2>3 DEF Next
<1> QED
  BY <1>1, <1>2, Inductive, PTL DEF Spec

-----------------------------------------------------------------------------
(* The meetings: their types.                                               *)

\* A row that is there is a meeting.
LEMMA RowIsMeeting ==
    ASSUME MeetingsTypeOK, NEW i \in Rows
    PROVE  i \in Ids /\ i \in made /\ meeting[i] \in Meeting
BY DEF MeetingsTypeOK, Rows

LEMMA InitTypeOK == ASSUME MeetingsInit PROVE MeetingsTypeOK
BY NoneApart DEF MeetingsInit, MeetingsTypeOK, Rows, NoRequest, Request, Labels, Meeting, At

\* What a request that writes no row keeps.
LEMMA CalmTypeOK ==
    ASSUME MeetingsTypeOK, NEW r \in Requests,
           Arrive(r) \/ FindUser(r) \/ GetCompanies(r) \/ FindMeeting(r) \/ CallFails(r)
    PROVE  MeetingsTypeOK'
<1> USE DEF Request, Labels, NoRequest, Goto, Reply, Calm, At
<1>1. UNCHANGED <<meeting, made, client, canceled>>
    BY DEF Arrive, ArriveCanceled, ArriveScheduled, ArriveRescheduled, Accept,
           FindUser, GetCompanies, FindMeeting, CallFails
<1>2. ASSUME NEW q, q \in Request, req' = [req EXCEPT ![r] = q],
             q.at \in {"find_user", "get_companies", "create"} =>
               q.url \in Urls /\ q.date \in Dates,
             q.at \in {"find_meeting", "update"} =>
               \/ q.event = "canceled"
               \/ q.event = "rescheduled" /\ q.date \in Dates,
             q.at = "update" => q.id \in made /\ q.old \in Meeting
      PROVE  MeetingsTypeOK'
    BY <1>1, <1>2 DEF MeetingsTypeOK, Rows
<1>3. CASE Arrive(r)
    <2>1. CASE \E url \in Urls : ArriveCanceled(r, url)
        BY <1>2, <2>1 DEF ArriveCanceled, Accept
    <2>2. CASE \E url \in Urls, date \in Dates : ArriveScheduled(r, url, date)
        BY <1>2, <2>2 DEF ArriveScheduled, Accept
    <2>3. CASE \E url \in Urls, date \in Dates : ArriveRescheduled(r, url, date)
        BY <1>2, <2>3 DEF ArriveRescheduled, Accept
    <2> QED BY <1>3, <2>1, <2>2, <2>3 DEF Arrive
<1>4. req[r] \in Request
    BY DEF MeetingsTypeOK
<1>5. CASE Reply(r)
    BY <1>2, <1>5
<1>6. CASE FindUser(r) /\ Goto(r, "get_companies")
    <2>1. [req[r] EXCEPT !.at = "get_companies"] \in Request
        BY <1>4
    <2>2. req' = [req EXCEPT ![r] = [req[r] EXCEPT !.at = "get_companies"]]
        BY <1>6
    <2> QED BY <1>2, <1>4, <1>6, <2>1, <2>2 DEF FindUser, MeetingsTypeOK
<1>7. CASE GetCompanies(r) /\ Goto(r, "create")
    <2>1. [req[r] EXCEPT !.at = "create"] \in Request
        BY <1>4
    <2>2. req' = [req EXCEPT ![r] = [req[r] EXCEPT !.at = "create"]]
        BY <1>7
    <2> QED BY <1>2, <1>4, <1>7, <2>1, <2>2 DEF GetCompanies, MeetingsTypeOK
<1>8. CASE FindMeeting(r) /\ ~ Reply(r)
    <2>1. PICK i \in WithUrl(req[r].url) :
            req' = [req EXCEPT ![r].at = "update", ![r].id = i, ![r].old = meeting[i]]
        BY <1>8 DEF FindMeeting
    <2>2. i \in Ids /\ i \in made /\ meeting[i] \in Meeting
        BY <2>1, RowIsMeeting DEF WithUrl
    <2> DEFINE q == [req[r] EXCEPT !.at = "update", !.id = i, !.old = meeting[i]]
    <2>3. q \in Request
        BY <1>4, <2>2
    <2>4. req' = [req EXCEPT ![r] = q]
        BY <2>1, <1>4 DEF MeetingsTypeOK
    <2>5. q.at = "update" /\ q.id = i /\ q.old = meeting[i]
            /\ q.event = req[r].event /\ q.date = req[r].date
        BY <1>4
    <2>6. \/ req[r].event = "canceled"
          \/ req[r].event = "rescheduled" /\ req[r].date \in Dates
        BY <1>8 DEF FindMeeting, MeetingsTypeOK
    <2> HIDE DEF q
    <2> QED BY <1>2, <2>2, <2>3, <2>4, <2>5, <2>6
<1> QED
    BY <1>3, <1>5, <1>6, <1>7, <1>8 DEF FindUser, GetCompanies, FindMeeting, CallFails

LEMMA CreateTypeOK ==
    ASSUME MeetingsTypeOK, NEW r \in Requests, Create(r)
    PROVE  MeetingsTypeOK'
<1> DEFINE new == [joinUrl |-> req[r].url, date |-> req[r].date, status |-> "PENDING"]
<1>1. new \in Meeting
    BY DEF Create, At, MeetingsTypeOK, Meeting
<1>2. PICK i \in Ids \ made :
        /\ meeting' = [meeting EXCEPT ![i] = new]
        /\ made' = made \cup {i}
    BY DEF Create
<1>3. new.joinUrl = req[r].url
    OBVIOUS
<1> HIDE DEF new
<1>4. i \notin Rows /\ meeting'[i] = new /\ Rows' = Rows \cup {i}
    BY <1>1, <1>2, NoneApart DEF MeetingsTypeOK, Rows
<1>5. \A j \in Rows : meeting'[j] = meeting[j] /\ meeting[j].joinUrl # req[r].url
    BY <1>2, <1>4 DEF Create, WithUrl, Rows, MeetingsTypeOK
<1>6. \A j, k \in Rows' : meeting'[j].joinUrl = meeting'[k].joinUrl => j = k
    BY <1>3, <1>4, <1>5 DEF MeetingsTypeOK
<1>7. meeting' \in [Ids -> Meeting \cup {None}]
    BY <1>1, <1>2 DEF MeetingsTypeOK
<1>8. req' \in [Requests -> Request] /\ client' = client /\ canceled' = canceled
    BY DEF Create, Reply, MeetingsTypeOK, Request, NoRequest, Labels
<1>9. \A s \in Requests : req'[s] = req[s] \/ req'[s] = NoRequest
    BY DEF Create, Reply, MeetingsTypeOK
<1> QED
    BY <1>2, <1>4, <1>6, <1>7, <1>8, <1>9 DEF MeetingsTypeOK, At, NoRequest

\* A row is written in place: its url stays, and so do all others.
LEMMA UpdateWrites ==
    ASSUME MeetingsTypeOK, NEW r \in Requests, Update(r)
    PROVE  /\ req[r].id \in Rows
           /\ Updated(req[r]) \in Meeting
           /\ Updated(req[r]).joinUrl = meeting[req[r].id].joinUrl
           /\ Rows' = Rows
           /\ meeting'[req[r].id] = Updated(req[r])
           /\ \A j \in Ids \ {req[r].id} : meeting'[j] = meeting[j]
<1> DEFINE q == req[r]
<1>1. q.id \in Rows /\ q.id \in Ids /\ meeting[q.id] \in Meeting
    BY RowIsMeeting DEF Update
<1>2. \/ q.event = "canceled"
      \/ q.event = "rescheduled" /\ q.date \in Dates
    BY DEF Update, MeetingsTypeOK, At
<1>3. Updated(q) \in Meeting /\ Updated(q).joinUrl = meeting[q.id].joinUrl
    BY <1>1, <1>2 DEF Updated, Meeting
<1>4. meeting' = [meeting EXCEPT ![q.id] = Updated(q)]
    BY DEF Update
<1>5. \A j \in Ids : meeting'[j] = IF j = q.id THEN Updated(q) ELSE meeting[j]
    BY <1>1, <1>4 DEF MeetingsTypeOK
<1> QED
    BY <1>1, <1>3, <1>5, NoneApart DEF Rows

LEMMA UpdateTypeOK ==
    ASSUME MeetingsTypeOK, NEW r \in Requests, Update(r)
    PROVE  MeetingsTypeOK'
<1> DEFINE q == req[r]
<1>1. /\ q.id \in Rows
      /\ Updated(q) \in Meeting
      /\ Updated(q).joinUrl = meeting[q.id].joinUrl
      /\ Rows' = Rows
      /\ meeting'[q.id] = Updated(q)
      /\ \A j \in Ids \ {q.id} : meeting'[j] = meeting[j]
    BY UpdateWrites
<1>2. \A j \in Rows : meeting'[j].joinUrl = meeting[j].joinUrl
    BY <1>1 DEF Rows
<1>3. meeting' \in [Ids -> Meeting \cup {None}]
    BY <1>1 DEF Update, MeetingsTypeOK, Rows
<1>4. q.id \in made /\ made' = made /\ client' = client /\ canceled' \subseteq made
    BY <1>1 DEF Update, MeetingsTypeOK
<1>5. req' \in [Requests -> Request]
    BY DEF Update, Reply, MeetingsTypeOK, Request, NoRequest, Labels
<1>6. \A s \in Requests : req'[s] = req[s] \/ req'[s] = NoRequest
    BY DEF Update, Reply, MeetingsTypeOK
<1> QED
    BY <1>1, <1>2, <1>3, <1>4, <1>5, <1>6 DEF MeetingsTypeOK, At, NoRequest

LEMMA RemoveTypeOK ==
    ASSUME MeetingsTypeOK, NEW i \in Ids, Remove(i)
    PROVE  MeetingsTypeOK'
<1>1. meeting' \in [Ids -> Meeting \cup {None}] /\ Rows' \subseteq Rows
        /\ \A j \in Rows' : meeting'[j] = meeting[j]
    BY DEF Remove, MeetingsTypeOK, Rows
<1>2. UNCHANGED <<made, client, req, canceled>>
    BY DEF Remove
<1> QED
    BY <1>1, <1>2 DEF MeetingsTypeOK, At

LEMMA StepTypeOK == ASSUME MeetingsTypeOK, [MeetingsNext]_meetingsVars PROVE MeetingsTypeOK'
<1>1. CASE SignUp
    BY <1>1 DEF SignUp, MeetingsTypeOK, Rows, At
<1>2. CASE \E i \in Ids : Remove(i)
    BY <1>2, RemoveTypeOK
<1>3. ASSUME NEW r \in Requests, Arrive(r) \/ Answer(r)
      PROVE  MeetingsTypeOK'
    BY <1>3, CalmTypeOK, CreateTypeOK, UpdateTypeOK DEF Answer
<1>4. CASE UNCHANGED meetingsVars
    BY <1>4 DEF meetingsVars, MeetingsTypeOK, Rows, At
<1> QED BY <1>1, <1>2, <1>3, <1>4 DEF MeetingsNext

\* Rows and requests of the meetings stay well formed, and no two rows have the
\* same joinUrl (meetings.repository.ts, webhook.service.ts).
THEOREM MeetingsTypeCorrect == MeetingsSpec => []MeetingsTypeOK
<1>1. MeetingsInit => MeetingsTypeOK
    BY InitTypeOK
<1>2. MeetingsTypeOK /\ [MeetingsNext]_meetingsVars => MeetingsTypeOK'
    BY StepTypeOK
<1> QED BY <1>1, <1>2, PTL DEF MeetingsSpec

\* Beside each other, as MCRoadmap runs them, roadmap and meetings stay what
\* they are alone (createTasks of tasks.service.ts, webhook.service.ts).
LEMMA EachRuns == SpecBoth => Spec /\ MeetingsSpec
<1>1. InitBoth => Init /\ MeetingsInit
    BY DEF InitBoth
<1>2. [NextRoadmap \/ NextMeetings]_bothVars => [Next]_vars /\ [MeetingsNext]_meetingsVars
    BY DEF NextRoadmap, NextMeetings, bothVars
<1> QED BY <1>1, <1>2, PTL DEF SpecBoth, Spec, MeetingsSpec

\* The dates of a company's dissolution have their types: its tasks' and its
\* meetings', whatever the durations, answers, events and requests are.
THEOREM TypesAreKept == SpecBoth => []TypesOK
<1>1. TypeOK /\ MeetingsTypeOK => TypesOK
    BY DEF TypesOK
<1> QED BY <1>1, EachRuns, RoadmapTypeCorrect, MeetingsTypeCorrect, PTL

-----------------------------------------------------------------------------
(* The rows implement the calendar.                                         *)

\* The calendar has for a url the row with that url.
LEMMA EntryOfRow ==
    ASSUME MeetingsTypeOK, NEW i \in Rows
    PROVE  /\ WithUrl(meeting[i].joinUrl) = {i}
           /\ meeting[i].joinUrl \in Urls
           /\ CalendarOf[meeting[i].joinUrl] = Entry(i)
<1>1. i \in Ids /\ meeting[i] \in Meeting
    BY RowIsMeeting
<1>2. meeting[i].joinUrl \in Urls
    BY <1>1 DEF Meeting
<1>3. WithUrl(meeting[i].joinUrl) = {i}
    BY DEF WithUrl, MeetingsTypeOK
<1>4. (CHOOSE j \in Ids : j \in {i}) = i
    BY <1>1
<1> QED BY <1>2, <1>3, <1>4 DEF CalendarOf

\* The same after a step.
LEMMA NewEntry ==
    ASSUME NEW u \in Urls, NEW i \in Ids, WithUrl(u)' = {i}
    PROVE  CalendarOf'[u] = Entry(i)'
<1>1. (CHOOSE j \in Ids : j \in {i}) = i
    OBVIOUS
<1> QED BY <1>1 DEF CalendarOf

LEMMA NoEntry ==
    ASSUME NEW u \in Urls, WithUrl(u) = {}
    PROVE  CalendarOf[u] = None
BY DEF CalendarOf

\* Rows with other urls have no part in an entry.
LEMMA SameEntry ==
    ASSUME NEW u \in Urls, WithUrl(u)' = WithUrl(u),
           \A i \in WithUrl(u) : meeting'[i] = meeting[i]
    PROVE  CalendarOf'[u] = CalendarOf[u]
<1>1. CASE WithUrl(u) = {}
    BY <1>1 DEF CalendarOf
<1>2. CASE WithUrl(u) # {}
    <2> DEFINE i == CHOOSE i \in Ids : i \in WithUrl(u)
    <2>1. i \in WithUrl(u)
        BY <1>2 DEF WithUrl, Rows
    <2>2. Entry(i)' = Entry(i)
        BY <2>1 DEF Entry
    <2> QED BY <1>2, <2>2 DEF CalendarOf
<1> QED BY <1>1, <1>2

\* A change of one entry.
LEMMA CalendarChange ==
    ASSUME NEW u \in Urls, NEW e, CalendarOf'[u] = e,
           \A v \in Urls \ {u} : CalendarOf'[v] = CalendarOf[v]
    PROVE  CalendarOf' = [CalendarOf EXCEPT ![u] = e]
<1>1. CalendarOf' = [v \in Urls |-> CalendarOf'[v]]
    BY DEF CalendarOf
<1>2. DOMAIN CalendarOf = Urls
    BY DEF CalendarOf
<1> HIDE DEF CalendarOf
<1> QED BY <1>1, <1>2

LEMMA InitCalendar == ASSUME MeetingsInit PROVE Promise!Init
BY DEF MeetingsInit, Promise!Init, CalendarOf, Acknowledged, WithUrl, Rows

LEMMA SameCalendar ==
    ASSUME UNCHANGED <<meeting, canceled>>
    PROVE  UNCHANGED Promise!cvars
BY DEF Promise!cvars, CalendarOf, Acknowledged, WithUrl, Rows, Entry

LEMMA CreateSchedules ==
    ASSUME MeetingsTypeOK, NEW r \in Requests, Create(r)
    PROVE  \E u \in Urls, d \in Dates : Promise!Schedule(u, d)
<1>1. PICK u \in Urls, d \in Dates : u = req[r].url /\ d = req[r].date
    BY DEF Create, At, MeetingsTypeOK
<1> DEFINE new == [joinUrl |-> u, date |-> d, status |-> "PENDING"]
<1>2. PICK i \in Ids \ made :
        /\ meeting' = [meeting EXCEPT ![i] = new]
        /\ made' = made \cup {i}
    BY <1>1 DEF Create
<1>3. new \in Meeting /\ new.joinUrl = u /\ new.date = d /\ new.status = "PENDING"
    BY DEF Meeting
<1> HIDE DEF new
<1>4. /\ i \notin Rows /\ i \notin canceled
      /\ meeting'[i] = new
      /\ Rows' = Rows \cup {i}
      /\ \A j \in Rows : meeting'[j] = meeting[j]
    BY <1>2, <1>3, NoneApart DEF MeetingsTypeOK, Rows
<1>5. WithUrl(u) = {} /\ canceled' = canceled
    BY <1>1 DEF Create
<1>6. \A v \in Urls \ {u} : WithUrl(v)' = WithUrl(v)
    BY <1>3, <1>4 DEF WithUrl
<1>7. \A v \in Urls \ {u} : CalendarOf'[v] = CalendarOf[v]
    <2> SUFFICES ASSUME NEW v \in Urls \ {u} PROVE CalendarOf'[v] = CalendarOf[v]
        OBVIOUS
    <2>1. \A j \in WithUrl(v) : meeting'[j] = meeting[j]
        BY <1>4 DEF WithUrl
    <2> QED BY <1>6, <2>1, SameEntry
<1>8. CalendarOf'[u] = [date |-> d, status |-> "PENDING"]
    <2>1. WithUrl(u)' = {i}
        BY <1>3, <1>4, <1>5 DEF WithUrl
    <2>2. CalendarOf'[u] = Entry(i)'
        BY <2>1, NewEntry
    <2> QED BY <1>3, <1>4, <2>2 DEF Entry
<1>9. Acknowledged' = Acknowledged
    BY <1>3, <1>4, <1>5 DEF Acknowledged, WithUrl
<1>10. CalendarOf[u] = None
    BY <1>5, NoEntry
<1>11. CalendarOf' = [CalendarOf EXCEPT ![u] = [date |-> d, status |-> "PENDING"]]
    BY <1>7, <1>8, CalendarChange
<1>12. Promise!Schedule(u, d)
    BY <1>9, <1>10, <1>11 DEF Promise!Schedule
<1> QED BY <1>12

LEMMA UpdateChanges ==
    ASSUME MeetingsTypeOK, NEW r \in Requests, Update(r)
    PROVE  \E u \in Urls : Promise!Cancel(u) \/ \E d \in Dates : Promise!Reschedule(u, d)
<1>1. PICK i \in Ids : i = req[r].id
    BY UpdateWrites, RowIsMeeting
<1>2. PICK e \in Meeting : e = Updated(req[r])
    BY UpdateWrites
<1>3. /\ i \in Rows
      /\ e.joinUrl = meeting[i].joinUrl
      /\ Rows' = Rows
      /\ meeting'[i] = e
      /\ \A j \in Ids \ {i} : meeting'[j] = meeting[j]
    BY <1>1, <1>2, UpdateWrites
<1>4. PICK u \in Urls : u = meeting[i].joinUrl
    BY <1>3, EntryOfRow
<1>5. WithUrl(u) = {i} /\ CalendarOf[u] = Entry(i)
    BY <1>3, <1>4, EntryOfRow
<1>6. \A j \in Rows : meeting'[j].joinUrl = meeting[j].joinUrl
    BY <1>3 DEF Rows
<1>7. \A v \in Urls : WithUrl(v)' = WithUrl(v)
    BY <1>3, <1>6 DEF WithUrl
<1>8. \A v \in Urls \ {u} : CalendarOf'[v] = CalendarOf[v]
    <2> SUFFICES ASSUME NEW v \in Urls \ {u} PROVE CalendarOf'[v] = CalendarOf[v]
        OBVIOUS
    <2>1. \A j \in WithUrl(v) : meeting'[j] = meeting[j]
        BY <1>3, <1>4 DEF WithUrl, Rows
    <2> QED BY <1>7, <2>1, SameEntry
<1>9. CalendarOf'[u] = Entry(i)'
    BY <1>5, <1>7, NewEntry
<1>10. CalendarOf' = [CalendarOf EXCEPT ![u] = Entry(i)']
    BY <1>8, <1>9, CalendarChange
<1>11. CalendarOf[u] # None
    <2>1. Entry(i) \in [date : Dates, status : {"PENDING", "CANCELLED"}]
        BY <1>3, RowIsMeeting DEF Entry, Meeting
    <2> QED BY <1>5, <2>1, NoneApart
<1>12. CASE req[r].event = "canceled"
    <2>1. e = [meeting[i] EXCEPT !.status = "CANCELLED"] /\ meeting[i] \in Meeting
        BY <1>1, <1>2, <1>3, <1>12, RowIsMeeting DEF Updated
    <2>2. Entry(i)' = [Entry(i) EXCEPT !.status = "CANCELLED"]
        BY <1>3, <2>1 DEF Entry, Meeting
    <2>3. CalendarOf' = [CalendarOf EXCEPT ![u].status = "CANCELLED"]
        BY <1>5, <1>10, <2>2
    <2>4. canceled' = canceled \cup {i}
        BY <1>1, <1>12 DEF Update
    <2>5. Acknowledged' = Acknowledged \cup {u}
        <3>1. \A v \in Urls \ {u} : i \notin WithUrl(v)
            BY <1>4 DEF WithUrl
        <3> QED BY <1>5, <1>7, <2>4, <3>1 DEF Acknowledged
    <2>6. Promise!Cancel(u)
        BY <1>11, <2>3, <2>5 DEF Promise!Cancel
    <2> QED BY <2>6
<1>13. CASE req[r].event = "rescheduled"
    <2>1. PICK d \in Dates : d = req[r].date
        BY <1>13 DEF Update, MeetingsTypeOK, At
    <2>2. e = [meeting[i] EXCEPT !.date = d] /\ meeting[i] \in Meeting
        BY <1>1, <1>2, <1>3, <1>13, <2>1, RowIsMeeting DEF Updated
    <2>3. Entry(i)' = [Entry(i) EXCEPT !.date = d]
        BY <1>3, <2>2 DEF Entry, Meeting
    <2>4. CalendarOf' = [CalendarOf EXCEPT ![u].date = d]
        BY <1>5, <1>10, <2>3
    <2>5. canceled' = canceled
        BY <1>13 DEF Update
    <2>6. Acknowledged' = Acknowledged
        BY <1>7, <2>5 DEF Acknowledged
    <2>7. Promise!Reschedule(u, d)
        BY <1>11, <2>4, <2>6 DEF Promise!Reschedule
    <2> QED BY <2>7
<1> QED BY <1>12, <1>13 DEF Update, MeetingsTypeOK, At

LEMMA RemoveRemoves ==
    ASSUME MeetingsTypeOK, NEW i \in Ids, Remove(i)
    PROVE  \E u \in Urls : Promise!Remove(u)
<1>1. i \in Rows /\ meeting' = [meeting EXCEPT ![i] = None] /\ canceled' = canceled
    BY DEF Remove
<1>2. PICK u \in Urls : u = meeting[i].joinUrl
    BY <1>1, EntryOfRow
<1>3. WithUrl(u) = {i} /\ CalendarOf[u] = Entry(i)
    BY <1>1, <1>2, EntryOfRow
<1>4. Rows' = Rows \ {i} /\ \A j \in Rows \ {i} : meeting'[j] = meeting[j]
    BY <1>1 DEF MeetingsTypeOK, Rows
<1>5. \A v \in Urls \ {u} : WithUrl(v)' = WithUrl(v)
    BY <1>2, <1>4 DEF WithUrl
<1>6. \A v \in Urls \ {u} : CalendarOf'[v] = CalendarOf[v]
    <2> SUFFICES ASSUME NEW v \in Urls \ {u} PROVE CalendarOf'[v] = CalendarOf[v]
        OBVIOUS
    <2>1. \A j \in WithUrl(v) : meeting'[j] = meeting[j]
        BY <1>2, <1>4 DEF WithUrl
    <2> QED BY <1>5, <2>1, SameEntry
<1>7. WithUrl(u)' = {}
    BY <1>3, <1>4 DEF WithUrl
<1>8. CalendarOf'[u] = None
    BY <1>7 DEF CalendarOf
<1>9. CalendarOf' = [CalendarOf EXCEPT ![u] = None]
    BY <1>6, <1>8, CalendarChange
<1>10. CalendarOf[u] # None
    <2>1. Entry(i) \in [date : Dates, status : {"PENDING", "CANCELLED"}]
        BY <1>1, RowIsMeeting DEF Entry, Meeting
    <2> QED BY <1>3, <2>1, NoneApart
<1>11. Acknowledged' = Acknowledged \ {u}
    BY <1>1, <1>5, <1>7 DEF Acknowledged
<1> QED BY <1>9, <1>10, <1>11 DEF Promise!Remove

\* Every step of an event is a step of the calendar or changes nothing of it.
LEMMA StepImplements ==
    ASSUME MeetingsTypeOK, [MeetingsNext]_meetingsVars
    PROVE  [Promise!Next]_(Promise!cvars)
<1>1. CASE UNCHANGED <<meeting, canceled>>
    BY <1>1, SameCalendar
<1>2. ASSUME NEW i \in Ids, Remove(i)
      PROVE  Promise!Next
    BY <1>2, RemoveRemoves DEF Promise!Next
<1>3. ASSUME NEW r \in Requests, Create(r)
      PROVE  Promise!Next
    BY <1>3, CreateSchedules DEF Promise!Next
<1>4. ASSUME NEW r \in Requests, Update(r)
      PROVE  Promise!Next
    BY <1>4, UpdateChanges DEF Promise!Next
<1>5. CASE SignUp \/ UNCHANGED meetingsVars
    BY <1>1, <1>5 DEF SignUp, meetingsVars
<1>6. ASSUME NEW r \in Requests, Arrive(r) \/ Answer(r), ~ Create(r), ~ Update(r)
      PROVE  UNCHANGED <<meeting, canceled>>
    BY <1>6 DEF Arrive, ArriveCanceled, ArriveScheduled, ArriveRescheduled, Accept, Answer,
                FindUser, GetCompanies, FindMeeting, CallFails, Calm
<1> QED BY <1>1, <1>2, <1>3, <1>4, <1>5, <1>6 DEF MeetingsNext

\* The rows of Meeting are the calendar, whatever events are delivered when.
THEOREM MeetingsImplementCalendar == MeetingsSpec => ImplementsCalendar
<1>1. MeetingsInit => Promise!Init
    BY InitCalendar
<1>2. MeetingsTypeOK /\ [MeetingsNext]_meetingsVars => [Promise!Next]_(Promise!cvars)
    BY StepImplements
<1>3. MeetingsSpec => []MeetingsTypeOK
    BY MeetingsTypeCorrect
<1> QED BY <1>1, <1>2, <1>3, PTL DEF MeetingsSpec, ImplementsCalendar, Promise!Spec

-----------------------------------------------------------------------------
(* A cancellation stays.                                                    *)

\* The rows whose cancellation was acknowledged are cancelled.
Kept == \A i \in canceled \cap Rows : meeting[i].status = "CANCELLED"

LEMMA StepKept == ASSUME MeetingsTypeOK, Kept, [MeetingsNext]_meetingsVars PROVE Kept'
<1>1. CASE UNCHANGED <<meeting, canceled>>
    BY <1>1 DEF Kept, Rows
<1>2. ASSUME NEW i \in Ids, Remove(i)
      PROVE  Kept'
    BY <1>2 DEF Kept, Remove, Rows, MeetingsTypeOK
<1>3. ASSUME NEW r \in Requests, Create(r)
      PROVE  Kept'
    \* The new row's id was never given, so it is not among the canceled ones.
    <2>1. PICK i \in Ids \ made : \A j \in Ids \ {i} : meeting'[j] = meeting[j]
        BY <1>3 DEF Create, MeetingsTypeOK
    <2>2. canceled' = canceled /\ i \notin canceled
        BY <1>3, <2>1 DEF Create, MeetingsTypeOK
    <2> QED BY <2>1, <2>2 DEF Kept, Rows
<1>4. ASSUME NEW r \in Requests, Update(r)
      PROVE  Kept'
    <2>1. PICK i \in Ids : i = req[r].id
        BY <1>4, UpdateWrites, RowIsMeeting
    <2>2. /\ i \in Rows /\ Rows' = Rows
          /\ meeting'[i] = Updated(req[r])
          /\ \A j \in Ids \ {i} : meeting'[j] = meeting[j]
        BY <1>4, <2>1, UpdateWrites
    <2>3. CASE req[r].event = "canceled"
        <3>1. meeting'[i].status = "CANCELLED"
            BY <2>1, <2>2, <2>3, RowIsMeeting DEF Updated, Meeting
        <3>2. canceled' \subseteq canceled \cup {i}
            BY <1>4, <2>1 DEF Update
        <3> QED BY <2>2, <3>1, <3>2 DEF Kept, Rows
    <2>4. CASE req[r].event = "rescheduled"
        <3>1. meeting'[i].status = meeting[i].status
            BY <2>1, <2>2, <2>4, RowIsMeeting DEF Updated, Meeting
        <3>2. canceled' = canceled
            BY <1>4, <2>4 DEF Update
        <3> QED BY <2>2, <3>1, <3>2 DEF Kept, Rows
    <2> QED BY <1>4, <2>3, <2>4 DEF Update, MeetingsTypeOK, At
<1>5. CASE SignUp \/ UNCHANGED meetingsVars
    BY <1>1, <1>5 DEF SignUp, meetingsVars
<1>6. ASSUME NEW r \in Requests, Arrive(r) \/ Answer(r), ~ Create(r), ~ Update(r)
      PROVE  UNCHANGED <<meeting, canceled>>
    BY <1>6 DEF Arrive, ArriveCanceled, ArriveScheduled, ArriveRescheduled, Accept, Answer,
                FindUser, GetCompanies, FindMeeting, CallFails, Calm
<1> QED BY <1>1, <1>2, <1>3, <1>4, <1>5, <1>6 DEF MeetingsNext

LEMMA KeptInCalendar == ASSUME MeetingsTypeOK, Kept PROVE Promise!CancelStays
<1> SUFFICES ASSUME NEW u \in Urls, NEW i \in WithUrl(u), i \in canceled
             PROVE  CalendarOf[u] # None /\ CalendarOf[u].status = "CANCELLED"
    BY DEF Promise!CancelStays, Acknowledged
<1>1. i \in Rows /\ u = meeting[i].joinUrl
    BY DEF WithUrl
<1>2. CalendarOf[u] = Entry(i)
    BY <1>1, EntryOfRow
<1>3. Entry(i) \in [date : Dates, status : {"PENDING", "CANCELLED"}]
    BY <1>1, RowIsMeeting DEF Entry, Meeting
<1>4. Entry(i).status = "CANCELLED"
    BY <1>1 DEF Entry, Kept
<1> QED BY <1>2, <1>3, <1>4, NoneApart

\* Who has been told that a meeting is cancelled does not find it pending again,
\* whatever is delivered later (handleMeetingCanceled, handleMeetingRescheduled).
THEOREM CancellationsStay == MeetingsSpec => []Promise!CancelStays
<1>1. MeetingsInit => Kept
    BY DEF MeetingsInit, Kept
<1>2. MeetingsTypeOK /\ Kept /\ [MeetingsNext]_meetingsVars => Kept'
    BY StepKept
<1>3. MeetingsTypeOK /\ Kept => Promise!CancelStays
    BY KeptInCalendar
<1> QED BY <1>1, <1>2, <1>3, MeetingsTypeCorrect, PTL DEF MeetingsSpec

-----------------------------------------------------------------------------
(* The metrics: the calendar.                                               *)

\* What the calendar contributes: a month has 28 to 31 days.
LEMMA DaysOfMonth == ASSUME NEW m \in Int PROVE Report!DaysIn(m) \in 28 .. 31
  BY DEF Report!DaysIn

\* getMonth is a number from 0 to 11, and that of the month before is one less.
LEMMA MonthOfYear ==
  ASSUME NEW m \in Int
  PROVE  /\ m % 12 \in 0 .. 11
         /\ (m - 1) % 12 = IF m % 12 = 0 THEN 11 ELSE (m % 12) - 1
         /\ (m + 12) % 12 = m % 12
  OBVIOUS

\* The server's date is always one of the calendar.
THEOREM DatesAreReal == Report!Spec => []Report!TypeOK
<1>1. Report!Init => Report!TypeOK
  BY DaysOfMonth DEF Report!Init, Report!TypeOK
<1>2. Report!TypeOK /\ [Report!NextDay]_Report!vars => Report!TypeOK'
  <2> SUFFICES ASSUME Report!TypeOK, Report!NextDay PROVE Report!TypeOK'
    BY DEF Report!TypeOK, Report!vars
  <2>1. PICK m \in Nat, d \in 1 .. 31 : today = [month |-> m, date |-> d]
    BY DEF Report!TypeOK
  <2>2. /\ Report!DaysIn(m) \in 28 .. 31 /\ Report!DaysIn(m + 1) \in 28 .. 31
        /\ d <= Report!DaysIn(m)
    BY <2>1, DaysOfMonth DEF Report!TypeOK
  <2>3. today' = IF d + 1 > Report!DaysIn(m) THEN [month |-> m + 1, date |-> d + 1 - Report!DaysIn(m)]
                                      ELSE [month |-> m, date |-> d + 1]
    BY <2>1, <2>2 DEF Report!NextDay, Report!Day
  <2>4. weekday' \in 0 .. 6
    BY DEF Report!TypeOK, Report!NextDay
  <2> QED BY <2>2, <2>3, <2>4 DEF Report!TypeOK
<1> QED BY <1>1, <1>2, PTL DEF Report!Spec

-----------------------------------------------------------------------------
(* What getRange makes of a real date                                       *)

\* The facts about today that the calculations need.
LEMMA TodayIsReal ==
  ASSUME Report!TypeOK
  PROVE  /\ today.month \in Int
         /\ today.date \in 1 .. Report!DaysIn(today.month)
         /\ Report!SinceMonday \in 0 .. 6
         /\ \A n \in -2 .. 1 : Report!DaysIn(today.month + n) \in 28 .. 31
<1>1. today.month \in Int /\ today.date \in 1 .. 31
  BY DEF Report!TypeOK
<1>2. Report!SinceMonday \in 0 .. 6
  BY DEF Report!TypeOK, Report!SinceMonday
<1>3. \A n \in -2 .. 1 : today.month + n \in Int
  BY <1>1
<1> QED BY <1>1, <1>2, <1>3, DaysOfMonth DEF Report!TypeOK

\* setMonth counts from the year of today: back from January to December.
LEMMA LastMonthFrom ==
  ASSUME Report!TypeOK
  PROVE  /\ Report!LastMonth.start = Report!At(Report!Day(today.month - 1, 1), Report!Midnight)
         /\ Report!LastMonth.end = Report!At(Report!Day(today.month, 0), Report!LastMoment)
<1> DEFINE g == Report!GetMonth(today)
<1>1. today.month \in Int /\ g \in 0 .. 11
  BY TodayIsReal, MonthOfYear DEF Report!GetMonth
<1>2. today.month - g + (g - 1) = today.month - 1 /\ today.month - g + g = today.month
  BY <1>1
<1> QED BY <1>2 DEF Report!LastMonth, Report!Range, Report!SetMonth

LEMMA MonthIsRight == ASSUME Report!TypeOK PROVE Report!IsPeriod("last_month")
<1> DEFINE last == Report!DaysIn(today.month - 1)
<1>1. today.month \in Int /\ last \in 28 .. 31
  BY TodayIsReal
<1>2. Report!Day(today.month - 1, 1) = [month |-> today.month - 1, date |-> 1]
  BY <1>1 DEF Report!Day
<1>3. Report!Day(today.month, 0) = [month |-> today.month - 1, date |-> last]
  BY <1>1 DEF Report!Day
<1>4. Report!Day(today.month - 1, last) = [month |-> today.month - 1, date |-> last]
  BY <1>1 DEF Report!Day
<1> QED BY <1>3, <1>4, LastMonthFrom DEF Report!IsPeriod, Report!GetRange, Report!Period

LEMMA CurrentWeekIsRight ==
  ASSUME Report!TypeOK
  PROVE  Report!IsPeriod("current_week") <=> Report!WeekDay(0).month = today.month
<1> DEFINE m == today.month
           n == today.date - Report!SinceMonday
           start == Report!CurrentWeek.start
           end == Report!CurrentWeek.end
<1>1. /\ m \in Int /\ today.date \in 1 .. Report!DaysIn(m) /\ Report!SinceMonday \in 0 .. 6
      /\ Report!DaysIn(m - 1) \in 28 .. 31 /\ Report!DaysIn(m) \in 28 .. 31
  BY TodayIsReal
<1>2. start = Report!At(Report!Day(m, n), Report!Midnight) /\ end = Report!At(Report!Day(m, Report!Day(m, n).date + 6), Report!LastMoment)
  BY DEF Report!CurrentWeek, Report!Range, Report!SetDate, Report!At
<1>3. Report!WeekDay(0) = Report!Day(m, n) /\ Report!WeekDay(6) = Report!Day(m, n + 6)
  BY <1>1 DEF Report!WeekDay
<1>4. Report!IsPeriod("current_week") <=>
        Report!At(Report!Day(m, Report!Day(m, n).date + 6), Report!LastMoment) = Report!At(Report!Day(m, n + 6), Report!LastMoment)
  BY <1>2, <1>3 DEF Report!IsPeriod, Report!GetRange, Report!Period
<1>5. CASE n >= 1
  <2>1. Report!Day(m, n) = [month |-> m, date |-> n]
    BY <1>1, <1>5 DEF Report!Day
  <2> QED BY <1>3, <1>4, <2>1
<1>6. CASE n < 1
  <2>1. Report!Day(m, n) = [month |-> m - 1, date |-> n + Report!DaysIn(m - 1)]
    BY <1>6 DEF Report!Day
  <2>2. Report!Day(m, n + 6) # Report!Day(m, n + Report!DaysIn(m - 1) + 6)
    BY <1>1, <1>6 DEF Report!Day
  <2>3. Report!At(Report!Day(m, n + Report!DaysIn(m - 1) + 6), Report!LastMoment) # Report!At(Report!Day(m, n + 6), Report!LastMoment)
    BY <1>1, <1>6, <2>2 DEF Report!At, Report!Day
  <2> QED BY <1>1, <1>3, <1>4, <2>1, <2>3
<1> QED BY <1>1, <1>5, <1>6

\* When Sunday was last month, the range starts after its end.
LEMMA LastWeekRange ==
  ASSUME Report!TypeOK
  PROVE  /\ Report!LastWeek.end = Report!At(Report!WeekDay(-1), Report!LastMoment)
         /\ Report!WeekDay(-1).month = today.month =>
              Report!LastWeek.start = Report!At(Report!WeekDay(-7), Report!Midnight)
         /\ Report!WeekDay(-1).month # today.month =>
              /\ Report!WeekDay(-1).month = today.month - 1
              /\ Report!WeekDay(-7).month = today.month - 1
              /\ Report!LastWeek.start.month = today.month
<1> DEFINE m == today.month
           n == today.date - Report!SinceMonday - 1
<1>1. /\ m \in Int /\ today.date \in 1 .. Report!DaysIn(m) /\ Report!SinceMonday \in 0 .. 6
      /\ Report!DaysIn(m - 1) \in 28 .. 31 /\ Report!DaysIn(m) \in 28 .. 31
  BY TodayIsReal
<1>2. /\ Report!LastWeek.start = Report!At(Report!Day(m, Report!Day(m, n).date - 6), Report!Midnight)
      /\ Report!LastWeek.end = Report!At(Report!Day(m, n), Report!LastMoment)
  BY DEF Report!LastWeek, Report!Range, Report!SetDate, Report!At
<1>3. Report!WeekDay(-1) = Report!Day(m, n) /\ Report!WeekDay(-7) = Report!Day(m, n - 6)
  BY <1>1 DEF Report!WeekDay
<1>4. CASE n >= 1
  <2>1. Report!Day(m, n) = [month |-> m, date |-> n]
    BY <1>1, <1>4 DEF Report!Day
  <2> QED BY <1>2, <1>3, <2>1
<1>5. CASE n < 1
  <2>1. Report!Day(m, n) = [month |-> m - 1, date |-> n + Report!DaysIn(m - 1)]
    BY <1>5 DEF Report!Day
  <2>2. Report!Day(m, n - 6).month = m - 1
    BY <1>1, <1>5 DEF Report!Day
  <2>3. Report!Day(m, n + Report!DaysIn(m - 1) - 6).month = m
    BY <1>1, <1>5 DEF Report!Day
  <2> QED BY <1>1, <1>2, <1>3, <2>1, <2>2, <2>3 DEF Report!At
<1> QED BY <1>1, <1>4, <1>5

LEMMA LastWeekIsRight ==
  ASSUME Report!TypeOK
  PROVE  Report!IsPeriod("last_week") <=> Report!WeekDay(-1).month = today.month
<1>1. Report!IsPeriod("last_week") <=>
        /\ Report!LastWeek.start = Report!At(Report!WeekDay(-7), Report!Midnight)
        /\ Report!LastWeek.end = Report!At(Report!WeekDay(-1), Report!LastMoment)
  BY DEF Report!IsPeriod, Report!GetRange, Report!Period
<1>2. today.month # today.month - 1
  BY TodayIsReal
<1>3. Report!At(Report!WeekDay(-7), Report!Midnight).month = Report!WeekDay(-7).month
  BY DEF Report!At
<1> QED BY <1>1, <1>2, <1>3, LastWeekRange

-----------------------------------------------------------------------------
\* A period is right on exactly the days from which its Monday (or, for the
\* week before, its Sunday) lies in the month of today, and months always are.
THEOREM RightExactlyWithinMonth == Report!Spec => []Report!RightWithinMonth
<1>1. Report!TypeOK => Report!RightWithinMonth
  BY MonthIsRight, CurrentWeekIsRight, LastWeekIsRight DEF Report!RightWithinMonth
<1> QED BY <1>1, DatesAreReal, PTL

\* On every day on which the Sunday before was in another month, the metrics of
\* last_week count no row, whenever it was created.
THEOREM NothingLastWeek == Report!Spec => []Report!LastWeekIsEmpty
<1>1. Report!TypeOK => Report!LastWeekIsEmpty
  <2> SUFFICES ASSUME Report!TypeOK, Report!WeekDay(-1).month # today.month, NEW d \in Report!Date,
                      Report!Counts(d, Report!LastWeek.start, Report!LastWeek.end)
               PROVE  FALSE
    BY DEF Report!LastWeekIsEmpty
  <2>1. /\ Report!LastWeek.start.month = today.month
        /\ Report!LastWeek.end.month = today.month - 1
        /\ today.month \in Int /\ d.month \in Int
    BY LastWeekRange, TodayIsReal DEF Report!At, Report!Date
  <2>2. d.month >= today.month /\ d.month <= today.month - 1
    BY <2>1 DEF Report!Counts, Report!Before
  <2> QED BY <2>1, <2>2
<1> QED BY <1>1, DatesAreReal, PTL

\* last_month is compared with dates that never end with the month before it.
THEOREM NeverThePreviousMonth == Report!Spec => []Report!PreviousMonthIsWrong
<1>1. Report!TypeOK => Report!PreviousMonthIsWrong
  <2> SUFFICES ASSUME Report!TypeOK PROVE Report!PreviousMonthIsWrong
    OBVIOUS
  <2> DEFINE m == today.month
             g == Report!GetMonth(today)
             start == Report!Day(m - 1, 1)
             startPrev == Report!SetMonth(Report!GetMonth(start) - 1, 1)
             k == Report!GetMonth(startPrev)
  <2>1. m \in Int /\ g \in 0 .. 11 /\ g = m % 12
    BY TodayIsReal, MonthOfYear DEF Report!GetMonth
  <2>2. Report!DaysIn(m - 1) \in 28 .. 31 /\ Report!DaysIn(m - 2) \in 28 .. 31
    BY <2>1, DaysOfMonth
  <2>3. start.month = m - 1
    BY <2>1, <2>2 DEF Report!Day
  <2>4. Report!GetMonth(start) = IF g = 0 THEN 11 ELSE g - 1
    BY <2>1, <2>3, MonthOfYear DEF Report!GetMonth
  <2>5. startPrev.month = IF g = 0 THEN m + 10 ELSE m - 2
    <3> DEFINE p == m - g + (Report!GetMonth(start) - 1)
    <3>1. p \in Int /\ p = IF g = 0 THEN m + 10 ELSE m - 2
      BY <2>1, <2>4
    <3>2. Report!Day(p, 1).month = p
      BY <3>1, DaysOfMonth DEF Report!Day
    <3>3. startPrev = Report!Day(p, 1)
      BY DEF Report!SetMonth
    <3> QED BY <3>1, <3>2, <3>3
  <2>6. k = IF g = 0 THEN 10 ELSE IF g = 1 THEN 11 ELSE g - 2
    BY <2>1, <2>5 DEF Report!GetMonth
  <2>7. Report!LastMonth.endPrev = Report!At(Report!Day(m - g + k, 0), Report!Now)
    BY LastMonthFrom, <2>1 DEF Report!LastMonth, Report!Range, Report!SetMonth, Report!At, Report!GetMonth
  <2>8. Report!Day(m - g + k, 0).month = m - g + k - 1
    BY <2>1, <2>6 DEF Report!Day
  <2>9. Report!Day(m - 2, Report!DaysIn(m - 2)).month = m - 2
    BY <2>1, <2>2 DEF Report!Day
  <2>10. m - g + k - 1 # m - 2
    BY <2>1, <2>6
  <2> QED BY <2>7, <2>8, <2>9, <2>10 DEF Report!PreviousMonthIsWrong, Report!At
<1> QED BY <1>1, DatesAreReal, PTL
=============================================================================
