------------------------------- MODULE MCChat -------------------------------
(****************************************************************************)
(* ChatLawyer and ChatPrompt for TLC and for their proofs.  They share the  *)
(* column ChatThread.chatType: the staff's requests turn a thread, and the  *)
(* clients' prompts are routed by it.  Each module contains what the other  *)
(* does to it, a hand-over being a step of ChatPrompt at any time; so a run *)
(* is of one of the two, while what the other alone has stays as it is.     *)
(* JointSpec is both at once, for the proof that each is what it is alone.  *)
(****************************************************************************)
EXTENDS ChatLawyer

CONSTANTS Users, Owner, Default, Ops, MaxSent   \* see ChatPrompt

ASSUME OwnerType == Owner \in [Threads -> Users]
ASSUME SpecialKeys == None \notin Users \cup {Default} \cup Requests /\ Default \notin Users
ASSUME OpsType == Ops \subseteq {"stream", "ask", "upload", "history", "admin_history"}
ASSUME MaxSentType == MaxSent \in Nat \ {0}

VARIABLES agent, cache, titled, prompts, turn

Prompt == INSTANCE ChatPrompt WITH req <- prompts

lawyerOnly == <<active, linked, lawyerReq, filed, req, rejected, overlapped>>
promptOnly == <<agent, cache, titled, prompts, turn>>
bothVars == <<vars, promptOnly>>

InitBoth == Init /\ Prompt!Init

OfLawyer(A) == A /\ UNCHANGED promptOnly
OfPrompt(A) == A /\ UNCHANGED lawyerOnly

\* ChatLawyer's FairSpec and ChatPrompt's, with the other one at rest.
LawyerSpec ==
    /\ InitBoth /\ [][OfLawyer(Next)]_bothVars
    /\ \A r \in Requests : WF_bothVars(OfLawyer(Answer(r)))

PromptSpec ==
    /\ InitBoth /\ [][OfPrompt(Prompt!Next)]_bothVars
    /\ \A r \in Requests : SF_bothVars(OfPrompt(Prompt!Reply(r) \/ Prompt!Timeout(r)))

\* Both on one event loop: a reply to the staff waits for the turn of a prompt,
\* and the only hand-overs are ChatLawyer's.
JointNext ==
    \/ turn = None /\ OfLawyer(Next)
    \/ \E r \in Requests : OfPrompt(Prompt!Serve(r))

JointSpec == InitBoth /\ [][JointNext]_bothVars

\* Agents, threads and prompts have their types.
PromptTypeOK == Prompt!TypeOK

\* A prompt runs on the agent of its own user, see ChatPrompt.
OwnAgent == Prompt!OwnAgent

\* A stream has one ending, see ChatPrompt.
EndingIsLast == Prompt!EndingIsLast

\* A prompt for a lawyer's thread never reaches the bot, see ChatPrompt.
BotIsOut == Prompt!BotIsOut

\* A client's message for the lawyers is stored in a thread in which one can
\* write, once the staff's requests on it are over: the chat was turned for the
\* prompt by a request that has left an ACTIVE row; unless a call has rejected
\* (chat-lawyer.service.ts 311-370, chatbot.service.ts 630-652).
PromptsReachALawyer ==
    \A p \in Requests :
        LET t == prompts[p].thread IN
        prompts[p].at = "post" /\ t \notin rejected /\ ~ InFlight(t) =>
          \E s \in Staff : CanWrite(t, s)

\* Every stream ends, see ChatPrompt.
StreamEnds == Prompt!StreamEnds

CONSTANT u1

OwnerOf == [t \in Threads |-> u1]
=============================================================================
