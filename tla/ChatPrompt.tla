----------------------------- MODULE ChatPrompt -----------------------------
(****************************************************************************)
(* chatbot.service.ts and chatbot.controller.ts: prompts, histories and     *)
(* uploads of chat threads, and the agent they share.                       *)
(*                                                                          *)
(* ChatbotService is a singleton: this.agent is one field for all users,    *)
(* overwritten by initializeAgent from a cache keyed by user.  Node runs    *)
(* one callback and its microtasks to the end before the next, so what a    *)
(* request does between two replies of the database or the model is one     *)
(* turn; "turn" is the request whose continuation of initializeAgent is     *)
(* still queued, and nothing else runs until it has.                        *)
(*                                                                          *)
(* A streamed prompt answers by server-sent events, guarded by a timer of   *)
(* 60 seconds that races with the late answer of the model.                 *)
(****************************************************************************)
EXTENDS Naturals, Sequences

CONSTANTS
    Users,     \* client users
    Threads,   \* chat threads
    Owner,     \* Owner[t]: ChatThread.userId
    Default,   \* the cache key and agent of no user
    None,
    Requests,  \* request slots: how many requests are in flight at once
    Ops,       \* the kinds of requests that arrive
    MaxSent    \* bound: a response takes chunks while it has fewer events

Readings == {"history", "admin_history"}

Retries == 3   \* initializeAgent's attempts to reach the database

VARIABLES
    agent,     \* this.agent: the user its tools were made for
    cache,     \* agentCache: key -> the user its agent was made for, or None
    chatType,  \* chatType[t]: ChatThread.chatType
    titled,    \* the threads with a title
    req,       \* req[r]: the request in slot r, and the response it sent
    turn       \* the request that runs next and alone, or None

vars == <<agent, cache, chatType, titled, req, turn>>

Keys == Users \cup {Default}

Labels == {"idle", "get_thread", "validate", "title", "save_title", "post",
           "connect", "pause", "opened", "stream", "get_state",
           "link", "process", "set_file"}

Events == {"start", "chunk", "done", "timeout", "failed"}

Endings == {"done", "timeout", "failed"}

Request == [at     : Labels,
            op     : Ops \cup {"none"},
            user   : Keys \cup {None},            \* Default: no user
            thread : Threads \cup {None},
            handed : BOOLEAN,                     \* arrived after a hand-over
            seen   : {"CHATBOT", "CHAT_LAWYER"},  \* thread.chatType as read
            tries  : 0 .. Retries,
            agent  : Keys \cup {None},            \* the agent it runs on
            got    : BOOLEAN,                     \* hasResponse
            sent   : Seq(Events),                 \* the events written
            ended  : BOOLEAN]                     \* isResponseEnded

NoRequest == [at |-> "idle", op |-> "none", user |-> None, thread |-> None,
              handed |-> FALSE, seen |-> "CHATBOT", tries |-> 0, agent |-> None,
              got |-> FALSE, sent |-> <<>>, ended |-> FALSE]

\* onModuleInit has made the default agent.
Init ==
    /\ agent = Default
    /\ cache = [k \in Keys |-> IF k = Default THEN Default ELSE None]
    /\ chatType = [t \in Threads |-> "CHATBOT"]
    /\ titled = {}
    /\ req = [r \in Requests |-> NoRequest]
    /\ turn = None

-----------------------------------------------------------------------------
(* The response of a stream.                                                *)

IsOpen(q) == q.op = "stream" /\ ~ q.ended

Written(q, event) == IF IsOpen(q) THEN [q EXCEPT !.sent = Append(@, event)] ELSE q

\* (Mutant of Ended: the check of isResponseEnded is gone.)
EndedAgain(q, event) ==
    IF q.op = "stream" THEN [q EXCEPT !.sent = Append(@, event), !.ended = TRUE] ELSE q

Ended(q, event) == [Written(q, event) EXCEPT !.ended = q.op = "stream"]

\* The request is over; what it sent stays until the slot is used again.
Finished(q, event) ==
    LET e == Ended(q, event) IN
    [NoRequest EXCEPT !.op = e.op, !.thread = e.thread, !.sent = e.sent,
                      !.ended = e.ended]

Put(r, q) == req' = [req EXCEPT ![r] = q]

\* Nothing but r's own record changes.
Alone == turn = None /\ UNCHANGED <<agent, cache, chatType, titled, turn>>

At(r, label) == req[r].at = label

-----------------------------------------------------------------------------
(* Arrival.                                                                 *)

Accept(r, op, u, t, at) ==
    /\ At(r, "idle")
    /\ op \in Ops
    /\ Put(r, [NoRequest EXCEPT !.at = at, !.op = op, !.user = u, !.thread = t,
                                !.handed = chatType[t] = "CHAT_LAWYER"])
    /\ Alone

\* Controllers verify that the thread is the user's before a prompt.
ArrivePrompt(r, t) ==
    \E op \in {"stream", "ask"} : Accept(r, op, Owner[t], t, "get_thread")

ArriveHistory(r, t) == \E u \in Users : Accept(r, "history", u, t, "validate")

\* The staff read a thread's history as no user.
ArriveAdminHistory(r, t) == Accept(r, "admin_history", Default, t, "validate")

\* The file is in S3 and has its FileReference.
ArriveUpload(r, t) == Accept(r, "upload", Owner[t], t, "validate")

\* requestLawyer, sendMessage or sendAdminMessage turns the thread.
HandOver(t) ==
    /\ turn = None
    /\ chatType' = [chatType EXCEPT ![t] = "CHAT_LAWYER"]
    /\ UNCHANGED <<agent, cache, titled, req, turn>>

-----------------------------------------------------------------------------
(* initializeAgent, called with the request's record q as updated so far.   *)

CacheKey(u) == u

\* handleAgentError, and an upload to the owner's thread.
DropAgent(u) == cache' = [cache EXCEPT ![CacheKey(u)] = None]

\* (Mutant of Resume: something is awaited before initializeAgent returns.)
ResumeLater(r) == turn' = None

Resume(r) == turn' = r

\* A cached agent is taken at once; otherwise the database is tried first.
OpenAgent(r, q) ==
    LET key == CacheKey(q.user) IN
    IF cache[key] # None
      THEN /\ agent' = cache[key]
           /\ Put(r, [q EXCEPT !.at = "opened"])
           /\ Resume(r)
           /\ UNCHANGED cache
      ELSE /\ Put(r, [q EXCEPT !.at = "connect", !.tries = Retries])
           /\ UNCHANGED <<agent, cache, turn>>

\* checkConnection answers true: the agent is made and cached in one go.
MakeAgent(r) ==
    /\ turn = None /\ At(r, "connect")
    /\ agent' = req[r].user
    /\ cache' = [cache EXCEPT ![CacheKey(req[r].user)] = req[r].user]
    /\ Put(r, [req[r] EXCEPT !.at = "opened"])
    /\ Resume(r)
    /\ UNCHANGED <<chatType, titled>>

\* checkConnection answers false.
NoConnection(r) ==
    /\ At(r, "connect")
    /\ IF req[r].tries > 1
         THEN Put(r, [req[r] EXCEPT !.at = "pause", !.tries = @ - 1])
         ELSE Put(r, Finished([req[r] EXCEPT !.tries = 0], "failed"))
    /\ Alone

RetryConnection(r) ==
    At(r, "pause") /\ Put(r, [req[r] EXCEPT !.at = "connect"]) /\ Alone

\* The caller resumes and reads this.agent.
UseAgent(r) ==
    /\ turn \in {None, r} /\ At(r, "opened")
    /\ Put(r, [req[r] EXCEPT
                 !.at = IF req[r].op \in Readings THEN "get_state" ELSE "stream",
                 !.agent = agent])
    /\ turn' = None
    /\ UNCHANGED <<agent, cache, chatType, titled>>

-----------------------------------------------------------------------------
(* processPrompt, getHistory and loadAndProcessDocuments.                   *)

\* getThread of the controller found the thread.
ThreadRead(r) ==
    /\ At(r, "get_thread")
    /\ Put(r, [Written(req[r], "start") EXCEPT !.at = "validate"])
    /\ Alone

\* (Mutant of Route: a user with a cached agent is answered by it.)
RouteCached(r, q) ==
    IF q.seen = "CHAT_LAWYER" /\ cache[q.user] = None
      THEN Put(r, [q EXCEPT !.at = "post"]) /\ UNCHANGED <<agent, cache, turn>>
      ELSE OpenAgent(r, q)

\* A prompt goes where the thread, as read at validateThread, says.
Route(r, q) ==
    IF q.seen = "CHAT_LAWYER"
      THEN Put(r, [q EXCEPT !.at = "post"]) /\ UNCHANGED <<agent, cache, turn>>
      ELSE OpenAgent(r, q)

Validated(r) ==
    LET q == [req[r] EXCEPT !.seen = chatType[req[r].thread]] IN
    /\ turn = None /\ At(r, "validate")
    /\ \/ q.op \in Readings /\ OpenAgent(r, q)
       \/ /\ q.op = "upload" /\ Put(r, [q EXCEPT !.at = "link"])
          /\ UNCHANGED <<agent, cache, turn>>
       \/ /\ q.op \in {"stream", "ask"} /\ q.thread \notin titled
          /\ Put(r, [q EXCEPT !.at = "title"])
          /\ UNCHANGED <<agent, cache, turn>>
       \/ q.op \in {"stream", "ask"} /\ q.thread \in titled /\ Route(r, q)
    /\ UNCHANGED <<chatType, titled>>

\* The model words a title, which may take long.
Titled(r) ==
    At(r, "title") /\ Put(r, [req[r] EXCEPT !.at = "save_title"]) /\ Alone

TitleSaved(r) ==
    /\ turn = None /\ At(r, "save_title")
    /\ titled' = titled \cup {req[r].thread}
    /\ Route(r, req[r])
    /\ UNCHANGED chatType

\* The prompt was stored as a message to the lawyers.
PostedToLawyer(r) == At(r, "post") /\ Put(r, Finished(req[r], "done")) /\ Alone

\* onChunk: a chunk after the end is dropped; of one that cannot be written an
\* error is written instead, and the stream goes on.
Chunk(r) ==
    /\ At(r, "stream") /\ req[r].op = "stream"
    /\ Len(req[r].sent) < MaxSent
    /\ Put(r, [Written(req[r], "chunk") EXCEPT !.got = TRUE])
    /\ Alone

\* The model has finished; without any content a stream is an error.
StreamDone(r) ==
    /\ At(r, "stream")
    /\ req[r].op = "stream" => req[r].got
    /\ Put(r, Finished(req[r], "done"))
    /\ Alone

\* The model failed or had no content: handleAgentError drops the agent.
StreamFailed(r) ==
    /\ turn = None /\ At(r, "stream")
    /\ DropAgent(req[r].user)
    /\ Put(r, Finished(req[r], "failed"))
    /\ UNCHANGED <<agent, chatType, titled, turn>>

\* getState answers, or fails and drops the agent too.
StateRead(r) ==
    /\ turn = None /\ At(r, "get_state")
    /\ \/ UNCHANGED cache
       \/ DropAgent(req[r].user)
    /\ Put(r, Finished(req[r], "done"))
    /\ UNCHANGED <<agent, chatType, titled, turn>>

\* The ChatThreadFile row; only a chatbot's file is embedded.
FileLinked(r) ==
    /\ At(r, "link")
    /\ Put(r, IF req[r].seen = "CHATBOT" THEN [req[r] EXCEPT !.at = "process"]
                                         ELSE Finished(req[r], "done"))
    /\ Alone

FileProcessed(r) ==
    At(r, "process") /\ Put(r, [req[r] EXCEPT !.at = "set_file"]) /\ Alone

\* chatFileId is set and the owner's agent leaves the cache.
FileSet(r) ==
    /\ turn = None /\ At(r, "set_file")
    /\ DropAgent(req[r].user)
    /\ Put(r, Finished(req[r], "done"))
    /\ UNCHANGED <<agent, chatType, titled, turn>>

\* The awaited call of any other step rejects, or the thread is not found.
CallFails(r) ==
    /\ req[r].at \in {"get_thread", "validate", "title", "save_title", "post",
                      "link", "process", "set_file"}
    /\ Put(r, Finished(req[r], "failed"))
    /\ Alone

\* (Mutant of Timeout: the response is told of the timeout but not ended.)
TimeoutTold(r) ==
    /\ ~ At(r, "idle") /\ IsOpen(req[r]) /\ Len(req[r].sent) < MaxSent
    /\ Put(r, Written(req[r], "timeout"))
    /\ Alone

\* The 60 seconds are over before the answer.
Timeout(r) ==
    /\ ~ At(r, "idle") /\ IsOpen(req[r])
    /\ Put(r, Ended(req[r], "timeout"))
    /\ Alone

-----------------------------------------------------------------------------
Arrive(r) ==
    \E t \in Threads :
        \/ ArrivePrompt(r, t) \/ ArriveUpload(r, t)
        \/ ArriveHistory(r, t) \/ ArriveAdminHistory(r, t)

\* What the database and the timer of a retry answer.
Reply(r) ==
    \/ MakeAgent(r) \/ NoConnection(r) \/ RetryConnection(r) \/ UseAgent(r)
    \/ ThreadRead(r) \/ Validated(r) \/ TitleSaved(r) \/ PostedToLawyer(r)
    \/ StateRead(r) \/ FileLinked(r) \/ FileSet(r)

\* What the language model answers, if it does.
ModelReply(r) ==
    \/ Titled(r) \/ Chunk(r) \/ StreamDone(r) \/ StreamFailed(r)
    \/ FileProcessed(r)

Serve(r) == Arrive(r) \/ Reply(r) \/ ModelReply(r) \/ CallFails(r) \/ Timeout(r)

Next == (\E r \in Requests : Serve(r)) \/ \E t \in Threads : HandOver(t)

Spec == Init /\ [][Next]_vars

\* The event loop comes back to a request with a reply or a timer due (strongly
\* fair: another request's turn disables it for a moment).  Nothing is assumed
\* of the language model.
FairSpec ==
    Spec /\ \A r \in Requests : SF_vars(Reply(r) \/ Timeout(r))

-----------------------------------------------------------------------------
(* Properties                                                               *)

TypeOK ==
    /\ agent \in Keys
    /\ cache \in [Keys -> Keys \cup {None}]
    /\ chatType \in [Threads -> {"CHATBOT", "CHAT_LAWYER"}]
    /\ titled \subseteq Threads
    /\ req \in [Requests -> Request]
    /\ turn \in Requests \cup {None}
    /\ \A r \in Requests : Len(req[r].sent) <= MaxSent + 1

\* A prompt or history runs on the agent made for its own user, whose tools
\* search that user's documents, though all requests share this.agent
\* (chatbot.service.ts 118-123, 199-270, 652-674); and no agent sits in the
\* cache under another's key.
OwnAgent ==
    /\ \A r \in Requests :
         req[r].at \in {"stream", "get_state"} => req[r].agent = req[r].user
    /\ \A k \in Keys : cache[k] \in {k, None}

\* A stream has one ending, nothing is written after it, and the response is
\* ended exactly then: the timer and the late answer never both speak
\* (chatbot.controller.ts 240-256, 334-391).
EndingIsLast ==
    \A r \in Requests :
        LET sent == req[r].sent IN
        /\ \A i \in DOMAIN sent : sent[i] \in Endings => i = Len(sent)
        /\ req[r].ended <=> sent # <<>> /\ sent[Len(sent)] \in Endings

\* A prompt that arrives after the hand-over of its thread never reaches the
\* bot, and one posted to the lawyers is in a lawyer's chat, although the
\* thread is read two awaits before the prompt is routed (630-652).
BotIsOut ==
    \A r \in Requests :
        /\ req[r].handed /\ req[r].op \in {"stream", "ask"} =>
             req[r].at \notin {"connect", "pause", "opened", "stream"}
        /\ req[r].at = "post" => chatType[req[r].thread] = "CHAT_LAWYER"

\* Every stream ends, even when the model never answers.
StreamEnds ==
    \A r \in Requests : (req[r].at # "idle" /\ IsOpen(req[r])) ~> ~ IsOpen(req[r])
=============================================================================
