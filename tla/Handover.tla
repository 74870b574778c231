------------------------------ MODULE Handover ------------------------------
(****************************************************************************)
(* What the hand-over of chats promises: a thread that is taken from the    *)
(* chatbot goes to somebody of the staff in the same moment, and from then  *)
(* on is passed from hand to hand without ever being in nobody's.           *)
(*                                                                          *)
(* Every hand-over is one step here.  ChatLawyer is the implementation: the *)
(* row, the mark of the thread and the rest are a sequence of calls there,  *)
(* of several requests at a time, and of a thread on which a call rejects   *)
(* nothing is promised.                                                     *)
(****************************************************************************)
CONSTANTS
    Threads,  \* chat threads
    Staff     \* staff users

VARIABLES
    turned,   \* the threads taken from the chatbot
    handlers, \* handlers[t]: the staff who answer t, or are about to
    failed    \* the threads of which nothing is promised any more

Init ==
    /\ turned = {}
    /\ handlers = [t \in Threads |-> {}]
    /\ failed = {}

\* The chatbot gives t up to somebody.
Turn(t) ==
    /\ t \notin turned \cup failed
    /\ turned' = turned \cup {t}
    /\ \E team \in SUBSET Staff :
         team # {} /\ handlers' = [handlers EXCEPT ![t] = team]
    /\ UNCHANGED failed

\* s joins those who answer t, or takes the place of some of them.
Take(t, s) ==
    /\ t \in turned \ failed
    /\ \E kept \in SUBSET handlers[t] :
         handlers' = [handlers EXCEPT ![t] = kept \cup {s}]
    /\ UNCHANGED <<turned, failed>>

\* A call on t rejects, or did before.
Fail(t) ==
    /\ failed' = failed \cup {t}
    /\ handlers' = [handlers EXCEPT ![t] = {}]
    /\ turned' \in {turned, turned \cup {t}}

Next == \E t \in Threads : Turn(t) \/ Fail(t) \/ \E s \in Staff : Take(t, s)

Spec == Init /\ [][Next]_<<turned, handlers, failed>>

\* No thread taken from the chatbot is in nobody's hands.
InHands == \A t \in turned \ failed : handlers[t] # {}
=============================================================================
