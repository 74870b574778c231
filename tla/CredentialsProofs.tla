--------------------------- MODULE CredentialsProofs ------------------------
(****************************************************************************)
(* The account of an e-mail address, for any number of requests, tokens and *)
(* sessions: an account can be verified, a token is used once and counted,  *)
(* and a change of password ends the sessions of the passwords before it.   *)
(****************************************************************************)
EXTENDS Credentials, FiniteSetTheorems, TLAPS

(****************************************************************************)
(* The invariant, one part for each thing that is awaited and then relied   *)
(* on: the user, the tokens, the count of them, the times of the changes.   *)
(****************************************************************************)

\* What a request has only once there is a user.
WithUser == {"create_verification", "mail", "verify", "delete_verification",
             "global_guard", "guard", "reread", "count", "create_reset", "hash",
             "change", "delete_reset"}

\* What has a time that was computed before.
WithStamp == {"create_verification", "mail", "count", "create_reset", "change"}

Stamped == \A r \in Requests : req[r].at \in WithStamp => req[r].stamp \in Nat

UserKnown ==
    /\ user = None =>
         /\ verification = None /\ sessions = {} /\ landed = {}
         /\ \A t \in Tokens : reset[t] = None
         /\ \A r \in Requests : req[r].at \notin WithUser
    /\ \A r \in Requests : At(r, "delete_verification") => user.isVerified
    /\ NotStranded

WithToken == {"get_reset", "hash", "change", "delete_reset"}

TokensCounted ==
    /\ \A t \in Tokens : t > made => reset[t] = None /\ uses[t] = 0
    /\ \A r \in Requests : req[r].token # None =>
         req[r].token <= made /\ req[r].at \in WithToken
    /\ \A r \in Requests : req[r].at \in {"get_reset", "delete_reset"} => req[r].token # None

\* A token that is not excused is with one request, and once it is used it is
\* gone or about to be deleted.
OneUse(t) ==
    /\ \A q, r \in Requests : req[q].token = t /\ req[r].token = t => q = r
    /\ uses[t] \in {0, 1}
    /\ uses[t] = 1 =>
         \/ reset[t] = None
         \/ \E r \in Requests : At(r, "delete_reset") /\ req[r].token = t
    /\ \A r \in Requests : req[r].token = t /\ req[r].at \in {"hash", "change"} => uses[t] = 0

TokensUsed == \A t \in Tokens \ excused : OneUse(t)

Creating == {r \in Requests : At(r, "create_reset")}

\* Of the requests that were counted under the limit, all may create a token.
Room == Cardinality(Recent) + Cardinality(Creating) < Limit + Cardinality(Requests)

\* The changes of password: the last that landed is the latest, unless two
\* crossed.
ChangesKnown ==
    /\ \A c \in landed : c <= now
    /\ \A r \in Changing : req[r].stamp <= now
    /\ user # None /\ user.lastPasswordChange # None => user.lastPasswordChange \in landed
    /\ user # None /\ landed # {} => user.lastPasswordChange # None
    /\ ~ crossed =>
         /\ \A q, r \in Changing : q = r
         /\ \A r \in Changing, c \in landed : c <= req[r].stamp
         /\ user # None => \A c \in landed : c <= user.lastPasswordChange

\* No change lies between the password a session goes back to and the session.
SessionKnown(s) ==
    /\ s.since <= s.signed /\ s.signed <= now
    /\ s.iat * Second <= s.signed /\ s.signed < s.iat * Second + Second
    /\ ~ crossed /\ ~ s.raced =>
         /\ \A c \in landed : c <= s.since \/ s.signed <= c
         /\ \A r \in Changing : req[r].stamp <= s.since \/ s.signed <= req[r].stamp

\* Nothing has changed while the request makes a session, unless it says so.
SigningKnown(r) ==
    /\ req[r].at \in {"global_guard", "guard", "reread"} => req[r].session \in sessions
    /\ req[r].at \in {"create_verification", "mail"} =>
         /\ req[r].stamp <= now
         /\ ~ crossed /\ ~ req[r].raced => landed = {} /\ Changing = {}
    /\ At(r, "reread") /\ ~ crossed /\ ~ req[r].raced /\ ~ req[r].session.raced =>
         /\ Changing = {}
         /\ \A c \in landed : c <= req[r].session.since \/ c = req[r].session.signed

SessionsKnown ==
    /\ ChangesKnown
    /\ \A s \in sessions : SessionKnown(s)
    /\ \A r \in Requests : SigningKnown(r)

IInv ==
    /\ TypeOK /\ Stamped /\ UserKnown /\ TokensCounted /\ TokensUsed /\ Room /\ SessionsKnown

-----------------------------------------------------------------------------
(* Time, and the record of a request.                                       *)

\* The second of an instant begins no later, and less than a second before.
LEMMA SecondOf ==
    ASSUME NEW n \in Nat
    PROVE  /\ n \div Second \in Nat
           /\ (n \div Second) * Second <= n /\ n < (n \div Second) * Second + Second
BY ScaleType

LEMMA RequestGoes ==
    ASSUME TypeOK, NEW r \in Requests, NEW label \in Labels, Goto(r, label)
    PROVE  /\ req' \in [Requests -> Request]
           /\ req'[r].at = label /\ req'[r].token = req[r].token
           /\ req'[r].stamp = req[r].stamp /\ req'[r].session = req[r].session
           /\ req'[r].raced = req[r].raced
           /\ \A q \in Requests \ {r} : req'[q] = req[q]
<1>1. req[r] \in Request /\ req \in [Requests -> Request]
    BY DEF TypeOK
<1>2. [req[r] EXCEPT !.at = label] \in Request
    BY <1>1 DEF Request
<1>3. req' = [req EXCEPT ![r] = [req[r] EXCEPT !.at = label]]
    BY <1>1 DEF Goto
<1> QED BY <1>1, <1>2, <1>3 DEF Request

LEMMA NoRequestType ==
    /\ NoRequest \in Request /\ NoRequest.at = "idle" /\ NoRequest.token = None
    /\ NoRequest.stamp = None /\ NoRequest.session = None /\ NoRequest.raced = FALSE
BY DEF NoRequest, Request, Labels

LEMMA RequestEnds ==
    ASSUME TypeOK, NEW r \in Requests, Reply(r)
    PROVE  /\ req' \in [Requests -> Request] /\ req'[r] = NoRequest
           /\ \A q \in Requests \ {r} : req'[q] = req[q]
BY NoRequestType DEF TypeOK, Reply

LEMMA RequestSet ==
    ASSUME TypeOK, NEW r \in Requests, NEW q \in Request, req' = [req EXCEPT ![r] = q]
    PROVE  /\ req' \in [Requests -> Request] /\ req'[r] = q
           /\ \A p \in Requests \ {r} : req'[p] = req[p]
BY DEF TypeOK

-----------------------------------------------------------------------------
(* What a step of one request leaves of each part.                          *)

\* A step of request r, and of no other.
Moves(r) == \A q \in Requests \ {r} : req'[q] = req[q]

LEMMA StampedStays ==
    ASSUME Stamped, NEW r \in Requests, Moves(r),
           req'[r].at \in WithStamp => req'[r].stamp \in Nat
    PROVE  Stamped'
BY DEF Stamped, Moves

\* The user stays, and what verifies them stays or is no longer needed.
LEMMA UserStays ==
    ASSUME UserKnown, NEW r \in Requests, Moves(r), UNCHANGED user,
           user = None =>
             /\ verification' = None /\ sessions' = {} /\ landed' = {}
             /\ \A t \in Tokens : reset'[t] = None,
           req'[r].at \in WithUser => user # None,
           req'[r].at = "delete_verification" => user.isVerified,
           stranded => stranded',
           \/ UNCHANGED verification /\ (At(r, "create_verification") => stranded')
           \/ verification' # None
           \/ At(r, "delete_verification")
    PROVE  UserKnown'
<1>1. user' = None =>
        /\ verification' = None /\ sessions' = {} /\ landed' = {}
        /\ \A t \in Tokens : reset'[t] = None
        /\ \A q \in Requests : req'[q].at \notin WithUser
    BY DEF UserKnown, Moves
<1>2. ASSUME NEW q \in Requests, At(q, "delete_verification")'
      PROVE  user'.isVerified
    BY <1>2 DEF UserKnown, Moves, At
<1>3. NotStranded'
    <2> SUFFICES ASSUME user' # None, ~ stranded', ~ user'.isVerified
                 PROVE  verification' # None \/ \E q \in Requests : At(q, "create_verification")'
        BY DEF NotStranded
    <2>1. ~ At(r, "delete_verification")
        BY DEF UserKnown
    <2>2. verification # None \/ \E q \in Requests : At(q, "create_verification")
        BY DEF UserKnown, NotStranded
    <2>3. ASSUME NEW q \in Requests, At(q, "create_verification"), UNCHANGED verification
          PROVE  verification' # None \/ At(q, "create_verification")'
        BY <2>1, <2>3 DEF Moves, At
    <2> QED BY <2>1, <2>2, <2>3
<1> QED BY <1>1, <1>2, <1>3 DEF UserKnown

\* No token is used, created or deleted.
LEMMA TokensStay ==
    ASSUME TypeOK, TokensCounted, TokensUsed, NEW r \in Requests, Moves(r), TypeOK',
           UNCHANGED <<reset, made, uses>>, excused \subseteq excused',
           req'[r].token \in {None, req[r].token},
           req'[r].token # None => req'[r].at \in WithToken,
           req'[r].at \in {"get_reset", "delete_reset"} => req'[r].token # None,
           At(r, "delete_reset") => req[r].token \in excused',
           req'[r].at \in {"hash", "change"} /\ req'[r].token \in Tokens \ excused' =>
             uses[req'[r].token] = 0
    PROVE  TokensCounted' /\ TokensUsed'
<1>1. TokensCounted'
    BY DEF TokensCounted, Moves
<1>2. ASSUME NEW t \in Tokens \ excused' PROVE OneUse(t)'
    <2>1. OneUse(t)
        BY DEF TokensUsed
    <2>2. t # None
        BY NoneIsNoNumber DEF Tokens
    <2>3. \A q \in Requests : req'[q].token = t => req[q].token = t
        BY <2>2 DEF Moves
    <2>4. \A p, q \in Requests : req'[p].token = t /\ req'[q].token = t => p = q
        BY <2>1, <2>3 DEF OneUse
    <2>5. ASSUME NEW q \in Requests, At(q, "delete_reset"), req[q].token = t
          PROVE  At(q, "delete_reset")' /\ req'[q].token = t
        BY <2>5 DEF Moves, At
    <2>6. ASSUME NEW q \in Requests, req'[q].token = t, req'[q].at \in {"hash", "change"}
          PROVE  uses[t] = 0
        BY <2>1, <2>6 DEF OneUse, Moves
    <2> QED BY <2>1, <2>4, <2>5, <2>6 DEF OneUse
<1> QED BY <1>1, <1>2 DEF TokensUsed

LEMMA Finite ==
    /\ IsFiniteSet(Tokens) /\ IsFiniteSet(Recent) /\ Recent \subseteq Tokens
    /\ IsFiniteSet(Creating) /\ Creating \subseteq Requests
<1>1. IsFiniteSet(Tokens)
    BY ScaleType, FS_Interval DEF Tokens
<1> QED BY <1>1, FS_Subset, SlotsAreFinite DEF Recent, Creating

\* No token becomes recent, and r asks for one only if it counted few enough.
LEMMA RoomStays ==
    ASSUME Room, NEW r \in Requests, Moves(r), Recent' \subseteq Recent,
           req'[r].at = "create_reset" =>
             At(r, "create_reset") \/ Cardinality(Recent) < Limit
    PROVE  Room'
<1>1. /\ Cardinality(Recent') \in Nat /\ Cardinality(Recent') <= Cardinality(Recent)
      /\ Cardinality(Recent) \in Nat /\ IsFiniteSet(Recent')
    BY Finite, FS_Subset, FS_CardinalityType
<1>2. Creating' \subseteq Requests
    BY DEF Creating
<1>3. /\ Cardinality(Creating') \in Nat /\ Cardinality(Requests) \in Nat
      /\ Cardinality(Creating') <= Cardinality(Requests) /\ Cardinality(Creating) \in Nat
    BY <1>2, Finite, SlotsAreFinite, FS_Subset, FS_CardinalityType
<1>4. CASE Creating' \subseteq Creating
    <2>1. Cardinality(Creating') <= Cardinality(Creating)
        BY <1>4, Finite, FS_Subset
    <2> QED BY <1>1, <1>3, <2>1, ScaleType DEF Room
<1>5. CASE Cardinality(Recent) < Limit
    BY <1>1, <1>3, <1>5, ScaleType DEF Room
<1> QED BY <1>4, <1>5 DEF Creating, Moves, At

\* No change begins or lands; one may fail.
LEMMA ChangesStay ==
    ASSUME ChangesKnown, NEW r \in Requests, Moves(r), UNCHANGED <<now, landed, crossed>>,
           user' = None <=> user = None, user'.lastPasswordChange = user.lastPasswordChange,
           req'[r].at # "change"
    PROVE  /\ ChangesKnown' /\ Changing' \subseteq Changing
           /\ \A q \in Changing' : req'[q] = req[q]
<1>1. Changing' \subseteq Changing /\ \A q \in Changing' : req'[q] = req[q]
    BY DEF Changing, At, Moves
<1> QED BY <1>1 DEF ChangesKnown

LEMMA SessionsStay ==
    ASSUME SessionsKnown, NEW r \in Requests, Moves(r), UNCHANGED <<now, landed, crossed>>,
           user' = None <=> user = None, user'.lastPasswordChange = user.lastPasswordChange,
           req'[r].at # "change", sessions \subseteq sessions',
           \A s \in sessions' \ sessions : SessionKnown(s), SigningKnown(r)'
    PROVE  SessionsKnown'
<1>1. /\ ChangesKnown' /\ Changing' \subseteq Changing
      /\ \A q \in Changing' : req'[q] = req[q]
    BY ChangesStay DEF SessionsKnown
<1>2. ASSUME NEW s \in sessions' PROVE SessionKnown(s)'
    <2>1. SessionKnown(s)
        BY DEF SessionsKnown
    <2> QED BY <1>1, <2>1 DEF SessionKnown
<1>3. ASSUME NEW q \in Requests PROVE SigningKnown(q)'
    <2>1. CASE q # r
        <3>1. req'[q] = req[q] /\ SigningKnown(q)
            BY <2>1 DEF SessionsKnown, Moves
        <3> QED BY <1>1, <3>1 DEF SigningKnown, At
    <2> QED BY <2>1
<1> QED BY <1>1, <1>2, <1>3 DEF SessionsKnown

\* A step of r that reads, with q for its record afterwards.
LEMMA QuietStep ==
    ASSUME IInv, NEW r \in Requests, NEW q \in Request, req' = [req EXCEPT ![r] = q],
           UNCHANGED <<now, rows, sessions, made, landed, crossed, uses>>,
           calls' \in 0 .. MaxCalls, excused \subseteq excused', excused' \subseteq Tokens,
           stranded' \in BOOLEAN, stranded => stranded',
           q.at \in WithStamp => q.stamp \in Nat,
           q.at \in WithUser => user # None,
           q.at \notin {"delete_verification", "change"},
           At(r, "create_verification") => stranded',
           q.token \in {None, req[r].token},
           q.token # None => q.at \in WithToken,
           q.at \in {"get_reset", "delete_reset"} => q.token # None,
           At(r, "delete_reset") => req[r].token \in excused',
           q.at = "hash" /\ q.token \in Tokens \ excused' => uses[q.token] = 0,
           q.at = "create_reset" => Cardinality(Recent) < Limit,
           SigningKnown(r)'
    PROVE  IInv'
<1> USE DEF rows
<1>1. req' \in [Requests -> Request] /\ req'[r] = q /\ Moves(r)
    BY RequestSet DEF IInv, Moves
<1>2. TypeOK'
    BY <1>1 DEF IInv, TypeOK
<1>3. Stamped'
    BY <1>1, StampedStays DEF IInv
<1>4. UserKnown'
    BY <1>1, UserStays DEF IInv, UserKnown
<1>5. TokensCounted' /\ TokensUsed'
    BY <1>1, <1>2, TokensStay DEF IInv
<1>6. Room'
    <2>1. Recent' = Recent
        BY DEF Recent
    <2> QED BY <1>1, <2>1, RoomStays DEF IInv
<1>7. SessionsKnown'
    BY <1>1, SessionsStay DEF IInv
<1> QED BY <1>2, <1>3, <1>4, <1>5, <1>6, <1>7 DEF IInv

\* A request that ends without having written.
LEMMA ReplyStep ==
    ASSUME IInv, NEW r \in Requests, Reply(r),
           UNCHANGED <<now, rows, sessions, made, calls, landed, crossed, uses>>,
           excused \subseteq excused', excused' \subseteq Tokens,
           stranded' \in BOOLEAN, stranded => stranded',
           At(r, "create_verification") => stranded',
           At(r, "delete_reset") => req[r].token \in excused'
    PROVE  IInv'
<1>1. req' = [req EXCEPT ![r] = NoRequest] /\ calls' \in 0 .. MaxCalls
    BY DEF IInv, TypeOK, Reply
<1>2. SigningKnown(r)'
    <2>1. req'[r].at = "idle"
        BY RequestEnds, NoRequestType DEF IInv
    <2> QED BY <2>1 DEF SigningKnown, At
<1> QED BY <1>1, <1>2, NoRequestType, QuietStep DEF WithStamp, WithUser

LEMMA FailStep ==
    ASSUME IInv, NEW r \in Requests, Fail(r)
    PROVE  IInv'
<1>1. excused' \subseteq Tokens /\ stranded' \in BOOLEAN
    <2>1. At(r, "delete_reset") => req[r].token \in Tokens
        BY DEF IInv, TypeOK, Request, TokensCounted, At
    <2>2. excused \subseteq Tokens /\ stranded \in BOOLEAN
        BY DEF IInv, TypeOK
    <2> QED BY <2>1, <2>2 DEF Fail
<1> QED BY <1>1, ReplyStep DEF Fail

-----------------------------------------------------------------------------
(* Requests that arrive, and what they only read.                           *)

LEMMA ArriveStep ==
    ASSUME IInv, NEW r \in Requests,
           \/ \E label \in {"signup", "get_verification", "login", "find_user"} : Arrive(r, label)
           \/ ArriveForgot(r)
    PROVE  IInv'
<1>1. PICK label \in {"signup", "get_verification", "login", "find_user", "forgot"} :
        Arrive(r, label)
    BY DEF ArriveForgot
<1> DEFINE q == [NoRequest EXCEPT !.at = label]
<1>2. /\ q \in Request /\ q.at = label /\ q.token = None
    BY NoRequestType DEF Request, Labels
<1>3. req' = [req EXCEPT ![r] = q] /\ calls' = calls + 1 /\ calls < MaxCalls /\ At(r, "idle")
        /\ UNCHANGED <<now, rows, sessions, made, landed, crossed, uses, stranded, excused>>
    BY <1>1 DEF Arrive, Accept
<1>4. calls' \in 0 .. MaxCalls /\ excused' \subseteq Tokens /\ stranded' \in BOOLEAN
    BY <1>3, ScaleType DEF IInv, TypeOK
<1>5. req'[r] = q
    BY <1>3 DEF IInv, TypeOK
<1> HIDE DEF q
<1>6. SigningKnown(r)'
    BY <1>2, <1>5 DEF SigningKnown, At
<1> QED BY <1>2, <1>3, <1>4, <1>6, QuietStep DEF WithStamp, WithUser, At

LEMMA ArriveRefreshStep ==
    ASSUME IInv, NEW r \in Requests, NEW s \in sessions, ArriveRefresh(r, s)
    PROVE  IInv'
<1> DEFINE q == [NoRequest EXCEPT !.at = "global_guard", !.session = s]
<1>1. s \in Session /\ user # None
    BY DEF IInv, TypeOK, UserKnown
<1>2. /\ q \in Request /\ q.at = "global_guard" /\ q.token = None /\ q.session = s
    BY <1>1, NoRequestType DEF Request, Labels
<1>3. req' = [req EXCEPT ![r] = q] /\ calls' = calls + 1 /\ calls < MaxCalls /\ At(r, "idle")
        /\ UNCHANGED <<now, rows, sessions, made, landed, crossed, uses, stranded, excused>>
    BY DEF ArriveRefresh, Accept
<1>4. calls' \in 0 .. MaxCalls /\ excused' \subseteq Tokens /\ stranded' \in BOOLEAN
    BY <1>3, ScaleType DEF IInv, TypeOK
<1>5. req'[r] = q
    BY <1>3 DEF IInv, TypeOK
<1> HIDE DEF q
<1>6. SigningKnown(r)'
    BY <1>2, <1>3, <1>5 DEF SigningKnown, At
<1> QED BY <1>1, <1>2, <1>3, <1>4, <1>6, QuietStep DEF WithStamp, WithUser, At

\* A request that goes on having read.
LEMMA ReadStep ==
    ASSUME IInv, NEW r \in Requests, NEW label \in Labels, Goto(r, label),
           UNCHANGED <<now, rows, sessions, made, calls, history>>,
           label \in {"create_user", "verify", "create_reset", "hash"},
           At(r, "signup") \/ At(r, "get_verification") \/ At(r, "count") \/ At(r, "find_user")
             \/ At(r, "get_reset"),
           label \in WithUser => user # None,
           label = "create_reset" => At(r, "count") /\ Cardinality(Recent) < Limit,
           req[r].token # None => label = "hash",
           label = "hash" /\ req[r].token \in Tokens \ excused => uses[req[r].token] = 0
    PROVE  IInv'
<1> DEFINE q == [req[r] EXCEPT !.at = label]
<1>1. /\ q \in Request /\ q.at = label /\ q.token = req[r].token /\ q.stamp = req[r].stamp
    BY DEF IInv, TypeOK, Request
<1>2. req' = [req EXCEPT ![r] = q]
    BY DEF Goto, IInv, TypeOK
<1>3. req'[r] = q
    BY <1>2 DEF IInv, TypeOK
<1>4. q.at \in WithStamp => q.stamp \in Nat
    BY <1>1 DEF IInv, Stamped, WithStamp, At
<1>5. /\ calls' \in 0 .. MaxCalls /\ excused' \subseteq Tokens /\ stranded' \in BOOLEAN
      /\ excused' = excused /\ stranded' = stranded
      /\ UNCHANGED <<now, rows, sessions, made, landed, crossed, uses>>
    BY DEF IInv, TypeOK, history
<1> HIDE DEF q
<1>6. SigningKnown(r)'
    BY <1>1, <1>3 DEF SigningKnown, At
<1> QED BY <1>1, <1>2, <1>4, <1>5, <1>6, QuietStep DEF At, WithToken

LEMMA FindNobodyStep ==
    ASSUME IInv, NEW r \in Requests, FindNobody(r)
    PROVE  IInv'
<1>1. req[r].token = None
    BY DEF IInv, TokensCounted, FindNobody, At, WithToken
<1>2. CASE Reply(r)
    BY <1>2, ReplyStep DEF IInv, TypeOK, FindNobody, At, history
<1>3. CASE Goto(r, "create_user")
    BY <1>1, <1>3, ReadStep DEF FindNobody, Labels, WithUser
<1> QED BY <1>2, <1>3 DEF FindNobody

LEMMA GetVerificationStep ==
    ASSUME IInv, NEW r \in Requests, GetVerification(r)
    PROVE  IInv'
<1>1. req[r].token = None
    BY DEF IInv, TokensCounted, GetVerification, At, WithToken
<1>2. CASE Reply(r)
    BY <1>2, ReplyStep DEF IInv, TypeOK, GetVerification, At, history
<1>3. CASE verification # None /\ Goto(r, "verify")
    BY <1>1, <1>3, ReadStep DEF IInv, UserKnown, GetVerification, Labels
<1> QED BY <1>2, <1>3 DEF GetVerification

LEMMA CountTokensStep ==
    ASSUME IInv, NEW r \in Requests, CountTokens(r)
    PROVE  IInv'
<1>1. req[r].token = None /\ user # None
    BY DEF IInv, TokensCounted, UserKnown, CountTokens, At, WithToken, WithUser
<1>2. CASE Reply(r)
    BY <1>2, ReplyStep DEF IInv, TypeOK, CountTokens, At, history
<1>3. CASE ~ Cardinality(Recent) >= Limit /\ Goto(r, "create_reset")
    <2>1. Cardinality(Recent) < Limit
        BY <1>3, Finite, FS_CardinalityType, ScaleType
    <2> QED BY <1>1, <1>3, <2>1, ReadStep DEF CountTokens, Labels
<1> QED BY <1>2, <1>3 DEF CountTokens

LEMMA FindUserStep ==
    ASSUME IInv, NEW r \in Requests, FindUser(r)
    PROVE  IInv'
<1>1. req[r].token = None
    BY DEF IInv, TokensCounted, FindUser, At, WithToken
<1>2. CASE Reply(r)
    BY <1>2, ReplyStep DEF IInv, TypeOK, FindUser, At, history
<1>3. CASE user # None /\ Goto(r, "hash")
    BY <1>1, <1>3, NoneIsNoNumber, ReadStep DEF FindUser, Labels, Tokens
<1> QED BY <1>2, <1>3 DEF FindUser

\* Whoever finds the token there finds it unused, or is one of two with it.
LEMMA GetResetStep ==
    ASSUME IInv, NEW r \in Requests, GetReset(r)
    PROVE  IInv'
<1>1. req[r].token \in Tokens /\ At(r, "get_reset")
    BY DEF IInv, TypeOK, Request, TokensCounted, GetReset, At
<1>2. CASE Reply(r)
    BY <1>2, ReplyStep DEF IInv, TypeOK, GetReset, At, history
<1>3. CASE reset[req[r].token] # None /\ Goto(r, "hash")
    <2>1. user # None
        BY <1>1, <1>3 DEF IInv, UserKnown
    <2>2. ASSUME req[r].token \notin excused PROVE uses[req[r].token] = 0
        <3>1. OneUse(req[r].token)
            BY <1>1, <2>2 DEF IInv, TokensUsed
        <3> QED BY <1>1, <1>3, <3>1 DEF OneUse, At
    <2> QED BY <1>1, <1>3, <2>1, <2>2, ReadStep DEF GetReset, Labels
<1> QED BY <1>2, <1>3 DEF GetReset

\* The end of an hour is computed before the tokens are counted.
LEMMA FindForgetfulStep ==
    ASSUME IInv, NEW r \in Requests, FindForgetful(r)
    PROVE  IInv'
<1>1. CASE Reply(r)
    BY <1>1, ReplyStep DEF IInv, TypeOK, FindForgetful, At, history
<1>2. CASE user # None /\ req' = [req EXCEPT ![r].at = "count", ![r].stamp = now + TokenLife]
    <2> DEFINE q == [req[r] EXCEPT !.at = "count", !.stamp = now + TokenLife]
    <2>1. now + TokenLife \in Nat
        BY ScaleType DEF IInv, TypeOK
    <2>2. /\ q \in Request /\ q.at = "count" /\ q.token = req[r].token
          /\ q.stamp = now + TokenLife
        BY <2>1 DEF IInv, TypeOK, Request, Labels
    <2>3. req[r].token = None /\ ~ At(r, "create_verification") /\ ~ At(r, "delete_reset")
        BY DEF IInv, TokensCounted, FindForgetful, At, WithToken
    <2>4. req' = [req EXCEPT ![r] = q] /\ req'[r] = q
        BY <1>2 DEF IInv, TypeOK
    <2>5. /\ calls' \in 0 .. MaxCalls /\ excused' \subseteq Tokens /\ stranded' \in BOOLEAN
          /\ excused' = excused /\ stranded' = stranded
          /\ UNCHANGED <<now, rows, sessions, made, landed, crossed, uses>>
        BY DEF IInv, TypeOK, history, FindForgetful
    <2> HIDE DEF q
    <2>6. SigningKnown(r)'
        BY <2>2, <2>4 DEF SigningKnown, At
    <2> QED BY <1>2, <2>1, <2>2, <2>3, <2>4, <2>5, <2>6, QuietStep
<1> QED BY <1>1, <1>2 DEF FindForgetful

\* A session that is accepted goes back to the last change, or is of its very
\* instant.
LEMMA AcceptedIsLatest ==
    ASSUME IInv, NEW s \in sessions, Accepts(s), ~ crossed, ~ s.raced, NEW c \in landed
    PROVE  c <= s.since \/ c = s.signed
<1>1. SessionKnown(s) /\ ChangesKnown /\ user # None
    BY DEF IInv, SessionsKnown, Accepts
<1>2. user.lastPasswordChange # None /\ c <= user.lastPasswordChange
        /\ user.lastPasswordChange <= s.iat * Second
    BY <1>1 DEF ChangesKnown, Accepts
<1>3. /\ c \in Nat /\ user.lastPasswordChange \in Nat
      /\ s.since \in Nat /\ s.signed \in Nat /\ s.iat * Second \in Nat
    BY <1>1, <1>2, ScaleType DEF IInv, TypeOK, User, Session
<1> QED BY <1>1, <1>2, <1>3 DEF SessionKnown

\* A guard that accepts the session of r reads whether a change is under way.
LEMMA GuardStep ==
    ASSUME IInv, NEW r \in Requests, GlobalGuard(r) \/ RouteGuard(r)
    PROVE  IInv'
<1>1. CASE Reply(r)
    BY <1>1, ReplyStep DEF IInv, TypeOK, GlobalGuard, RouteGuard, At, history
<1>2. ASSUME NEW label \in {"guard", "reread"}, Accepts(req[r].session),
             req' = [req EXCEPT ![r].at = label, ![r].raced = (Changing # {})]
      PROVE  IInv'
    <2> DEFINE q == [req[r] EXCEPT !.at = label, !.raced = (Changing # {})]
    <2>1. /\ q \in Request /\ q.at = label /\ q.token = req[r].token
          /\ q.session = req[r].session /\ q.raced = (Changing # {})
        BY DEF IInv, TypeOK, Request, Labels
    <2>2. /\ req[r].token = None /\ ~ At(r, "create_verification") /\ ~ At(r, "delete_reset")
          /\ user # None /\ req[r].session \in sessions
        BY DEF IInv, TokensCounted, UserKnown, SessionsKnown, SigningKnown, GlobalGuard,
               RouteGuard, At, WithToken, WithUser
    <2>3. req' = [req EXCEPT ![r] = q] /\ req'[r] = q
        BY <1>2 DEF IInv, TypeOK
    <2>4. /\ calls' \in 0 .. MaxCalls /\ excused' \subseteq Tokens /\ stranded' \in BOOLEAN
          /\ excused' = excused /\ stranded' = stranded
          /\ UNCHANGED <<now, rows, sessions, made, landed, crossed, uses>>
        BY DEF IInv, TypeOK, history, GlobalGuard, RouteGuard
    <2> HIDE DEF q
    <2>5. Changing' \subseteq Changing
        BY <2>1, <2>3 DEF Changing, At, IInv, TypeOK
    <2>6. SigningKnown(r)'
        <3>1. req[r].session \in sessions'
            BY <2>2, <2>4
        <3>2. ASSUME ~ crossed, ~ q.raced, ~ req[r].session.raced
              PROVE  /\ Changing' = {}
                     /\ \A c \in landed : c <= req[r].session.since \/ c = req[r].session.signed
            BY <1>2, <2>1, <2>2, <2>5, <3>2, AcceptedIsLatest
        <3> QED BY <2>1, <2>3, <2>4, <3>1, <3>2 DEF SigningKnown, At
    <2> QED BY <2>1, <2>2, <2>3, <2>4, <2>6, QuietStep DEF WithStamp
<1> QED BY <1>1, <1>2 DEF GlobalGuard, RouteGuard

-----------------------------------------------------------------------------
(* Requests that hand out a session.                                        *)

\* A session that is signed for what was so at an instant since.
LEMMA SignStep ==
    ASSUME IInv, NEW r \in Requests, NEW since \in Nat, NEW raced \in BOOLEAN,
           Sign(r, since, raced), user # None, since <= now,
           At(r, "mail") \/ At(r, "reread") \/ At(r, "login"),
           ~ crossed /\ ~ raced =>
             /\ \A c \in landed : c <= since
             /\ \A q \in Changing : req[q].stamp <= since,
           UNCHANGED <<now, rows, made, calls, history>>
    PROVE  IInv'
<1> DEFINE s == [iat |-> now \div Second, signed |-> now, since |-> since, raced |-> raced]
<1>1. now \in Nat
    BY ScaleType DEF IInv, TypeOK
<1>2. /\ s \in Session /\ s.signed = now /\ s.since = since /\ s.raced = raced
      /\ s.iat * Second <= now /\ now < s.iat * Second + Second
    BY <1>1, SecondOf DEF Session
<1>3. sessions' = sessions \cup {s} /\ Reply(r)
    BY DEF Sign
<1> HIDE DEF s
<1>4. req' \in [Requests -> Request] /\ req'[r] = NoRequest /\ Moves(r)
    BY <1>3, RequestEnds DEF IInv, Moves
<1>5. TypeOK'
    BY <1>2, <1>3, <1>4 DEF IInv, TypeOK, rows, history
<1>6. Stamped'
    BY <1>4, NoRequestType, StampedStays DEF IInv, WithStamp
<1>7. UserKnown'
    BY <1>4, NoRequestType, UserStays DEF IInv, WithUser, At, rows, history
<1>8. TokensCounted' /\ TokensUsed'
    BY <1>4, <1>5, NoRequestType, TokensStay DEF IInv, At, rows, history
<1>9. Room'
    <2>1. Recent' = Recent
        BY DEF Recent, rows
    <2> QED BY <1>4, <2>1, NoRequestType, RoomStays DEF IInv
<1>10. SessionsKnown'
    <2>1. SessionKnown(s)
        <3>1. s.since <= s.signed /\ s.signed <= now
            BY <1>1, <1>2
        <3>2. s.iat * Second <= s.signed /\ s.signed < s.iat * Second + Second
            BY <1>2
        <3>3. ~ crossed /\ ~ s.raced =>
                /\ \A c \in landed : c <= s.since
                /\ \A q \in Changing : req[q].stamp <= s.since
            BY <1>2
        <3> QED BY <3>1, <3>2, <3>3 DEF SessionKnown
    <2>2. SigningKnown(r)'
        BY <1>4, NoRequestType DEF SigningKnown, At
    <2> QED BY <1>3, <1>4, <2>1, <2>2, NoRequestType, SessionsStay DEF IInv, rows, history
<1> QED BY <1>5, <1>6, <1>7, <1>8, <1>9, <1>10 DEF IInv

LEMMA LogInStep ==
    ASSUME IInv, NEW r \in Requests, LogIn(r)
    PROVE  IInv'
<1>1. CASE user # None
    <2>1. now \in Nat /\ \A c \in landed : c <= now
        BY ScaleType DEF IInv, TypeOK, SessionsKnown, ChangesKnown
    <2>2. \A q \in Changing : req[q].stamp <= now
        BY DEF IInv, SessionsKnown, ChangesKnown
    <2>3. Sign(r, now, FALSE) /\ At(r, "login") /\ UNCHANGED <<now, rows, made, calls, history>>
        BY <1>1 DEF LogIn
    <2>4. now <= now /\ FALSE \in BOOLEAN
        BY <2>1
    <2> QED BY <1>1, <2>1, <2>2, <2>3, <2>4, SignStep
<1>2. CASE user = None
    <2>1. /\ Reply(r) /\ At(r, "login")
          /\ UNCHANGED <<now, rows, sessions, made, calls, history>>
        BY <1>2 DEF LogIn
    <2> QED BY <2>1, ReplyStep DEF IInv, TypeOK, At, history
<1> QED BY <1>1, <1>2

LEMMA MailVerificationStep ==
    ASSUME IInv, NEW r \in Requests, MailVerification(r)
    PROVE  IInv'
<1>1. /\ req[r].stamp \in Nat /\ req[r].raced \in BOOLEAN /\ user # None /\ At(r, "mail")
      /\ SigningKnown(r)
    BY DEF IInv, TypeOK, Request, Stamped, UserKnown, SessionsKnown, MailVerification, At,
           WithStamp, WithUser
<1>2. /\ req[r].stamp <= now
      /\ ~ crossed /\ ~ req[r].raced => landed = {} /\ Changing = {}
    BY <1>1 DEF SigningKnown, At
<1> QED BY <1>1, <1>2, SignStep DEF MailVerification

LEMMA RefreshStep ==
    ASSUME IInv, NEW r \in Requests, Refresh(r)
    PROVE  IInv'
<1>1. PICK s \in sessions : s = req[r].session
    BY DEF IInv, SessionsKnown, SigningKnown, Refresh, At
<1>2. /\ s.since \in Nat /\ s.signed \in Nat /\ s.raced \in BOOLEAN /\ req[r].raced \in BOOLEAN
      /\ now \in Nat /\ landed \subseteq Nat
    BY ScaleType DEF IInv, TypeOK, Session, Request
<1>3. s.since <= s.signed /\ s.signed <= now /\ user # None /\ At(r, "reread")
    BY DEF IInv, SessionsKnown, SessionKnown, UserKnown, Refresh, At, WithUser
<1> DEFINE since == IF s.signed \in landed THEN s.signed ELSE s.since
<1>4. since \in Nat /\ since <= now
    BY <1>2, <1>3
<1>5. ~ crossed /\ ~ (s.raced \/ req[r].raced) =>
        /\ \A c \in landed : c <= since
        /\ \A q \in Changing : req[q].stamp <= since
    BY <1>1, <1>2, <1>3 DEF IInv, SessionsKnown, SigningKnown
<1>6. Sign(r, since, s.raced \/ req[r].raced)
    BY <1>1 DEF Refresh
<1>7. UNCHANGED <<now, rows, made, calls, history>>
    BY DEF Refresh
<1> HIDE DEF since
<1> QED BY <1>2, <1>3, <1>4, <1>5, <1>6, <1>7, SignStep

-----------------------------------------------------------------------------
(* Requests that write the user or the verification token.                  *)

LEMMA CreateUserStep ==
    ASSUME IInv, NEW r \in Requests, CreateUser(r)
    PROVE  IInv'
<1> DEFINE q == [req[r] EXCEPT !.at = "create_verification", !.stamp = now,
                               !.raced = (Changing # {})]
<1>1. now \in Nat
    BY ScaleType DEF IInv, TypeOK
<1>2. /\ q \in Request /\ q.at = "create_verification" /\ q.token = req[r].token
      /\ q.stamp = now
    BY <1>1 DEF IInv, TypeOK, Request, Labels
<1>3. req' = [req EXCEPT ![r] = q]
    BY DEF CreateUser, IInv, TypeOK
<1> HIDE DEF q
<1>4. req' \in [Requests -> Request] /\ req'[r] = q /\ Moves(r)
    BY <1>2, <1>3, RequestSet DEF IInv, Moves
<1>5. /\ user = None /\ user' = [lastPasswordChange |-> None, isVerified |-> FALSE]
      /\ user' \in User /\ user' # None
      /\ UNCHANGED <<now, verification, reset, sessions, made, calls, landed, crossed, uses,
                     excused, stranded>>
    <2>1. [lastPasswordChange |-> None, isVerified |-> FALSE] \in User
        BY DEF User
    <2> QED BY <2>1, NoneIsNoRow DEF CreateUser, history
<1>6. /\ sessions = {} /\ landed = {} /\ \A p \in Requests : req[p].at \notin WithUser
    BY <1>5 DEF IInv, UserKnown
<1>7. TypeOK'
    BY <1>4, <1>5 DEF IInv, TypeOK
<1>8. Stamped'
    BY <1>1, <1>2, <1>4, StampedStays DEF IInv
<1>9. UserKnown'
    <2>1. \A p \in Requests : req'[p].at # "delete_verification"
        BY <1>2, <1>4, <1>6 DEF Moves, WithUser
    <2>2. At(r, "create_verification")'
        BY <1>2, <1>4 DEF At
    <2> QED BY <1>5, <2>1, <2>2 DEF UserKnown, NotStranded, At
<1>10. TokensCounted' /\ TokensUsed'
    <2>1. req[r].token = None /\ ~ At(r, "delete_reset")
        BY DEF IInv, TokensCounted, CreateUser, At, WithToken
    <2> QED BY <1>2, <1>4, <1>5, <1>7, <2>1, TokensStay DEF IInv
<1>11. Room'
    <2>1. Recent' = Recent
        BY <1>5 DEF Recent
    <2> QED BY <1>2, <1>4, <2>1, RoomStays DEF IInv
<1>12. SessionsKnown'
    <2>1. Changing' = {}
        BY <1>2, <1>4, <1>6 DEF Changing, At, Moves, WithUser
    <2>2. ChangesKnown'
        BY <1>5, <1>6, <2>1 DEF ChangesKnown
    <2>3. ASSUME NEW p \in Requests PROVE SigningKnown(p)'
        <3>1. CASE p = r
            BY <1>1, <1>2, <1>4, <1>5, <1>6, <2>1, <3>1 DEF SigningKnown, At
        <3>2. CASE p # r
            BY <1>4, <1>6, <3>2 DEF SigningKnown, At, Moves, WithUser
        <3> QED BY <3>1, <3>2
    <2> QED BY <1>5, <1>6, <2>2, <2>3 DEF SessionsKnown
<1> QED BY <1>7, <1>8, <1>9, <1>10, <1>11, <1>12 DEF IInv

LEMMA CreateVerificationStep ==
    ASSUME IInv, NEW r \in Requests, CreateVerification(r)
    PROVE  IInv'
<1>1. /\ req' \in [Requests -> Request] /\ Moves(r) /\ req'[r].at = "mail"
      /\ req'[r].token = req[r].token /\ req'[r].stamp = req[r].stamp
      /\ req'[r].raced = req[r].raced
    BY RequestGoes DEF IInv, CreateVerification, Labels, Moves
<1>2. now + Window \in Nat /\ now + Window # None
    BY ScaleType, NoneIsNoNumber DEF IInv, TypeOK
<1>3. /\ verification' = now + Window /\ At(r, "create_verification")
      /\ UNCHANGED <<now, user, reset, sessions, made, calls, landed, crossed, uses,
                     excused, stranded>>
    BY DEF CreateVerification, history
<1>4. user # None /\ req[r].token = None /\ req[r].stamp \in Nat
    BY <1>3 DEF IInv, UserKnown, TokensCounted, Stamped, At, WithUser, WithToken, WithStamp
<1>5. TypeOK'
    BY <1>1, <1>2, <1>3 DEF IInv, TypeOK
<1>6. Stamped'
    BY <1>1, <1>4, StampedStays DEF IInv
<1>7. UserKnown'
    BY <1>1, <1>2, <1>3, <1>4, UserStays DEF IInv
<1>8. TokensCounted' /\ TokensUsed'
    BY <1>1, <1>3, <1>4, <1>5, TokensStay DEF IInv, At
<1>9. Room'
    <2>1. Recent' = Recent
        BY <1>3 DEF Recent
    <2> QED BY <1>1, <2>1, RoomStays DEF IInv
<1>10. SessionsKnown'
    <2>1. Changing' \subseteq Changing
        BY <1>1 DEF Changing, At, Moves
    <2>2. SigningKnown(r)'
        BY <1>1, <1>3, <2>1 DEF IInv, SessionsKnown, SigningKnown, At
    <2> QED BY <1>1, <1>3, <2>2, SessionsStay DEF IInv
<1> QED BY <1>5, <1>6, <1>7, <1>8, <1>9, <1>10 DEF IInv

\* The user is verified before the token goes.
LEMMA VerifyEmailStep ==
    ASSUME IInv, NEW r \in Requests, VerifyEmail(r)
    PROVE  IInv'
<1>1. /\ req' \in [Requests -> Request] /\ Moves(r) /\ req'[r].at = "delete_verification"
      /\ req'[r].token = req[r].token
    BY RequestGoes DEF IInv, VerifyEmail, Labels, Moves
<1>2. /\ At(r, "verify") /\ user # None /\ user \in User /\ req[r].token = None
    BY DEF IInv, TypeOK, UserKnown, TokensCounted, VerifyEmail, At, WithUser, WithToken
<1>3. /\ user' = [user EXCEPT !.isVerified = TRUE]
      /\ UNCHANGED <<now, verification, reset, sessions, made, calls, landed, crossed, uses,
                     excused, stranded>>
    BY DEF VerifyEmail, history
<1>4. /\ user' \in User /\ user' # None /\ user'.isVerified = TRUE
      /\ user'.lastPasswordChange = user.lastPasswordChange
    BY <1>2, <1>3, NoneIsNoRow DEF User
<1>5. TypeOK'
    BY <1>1, <1>3, <1>4 DEF IInv, TypeOK
<1>6. Stamped'
    BY <1>1, StampedStays DEF IInv, WithStamp
<1>7. UserKnown'
    BY <1>4 DEF UserKnown, NotStranded
<1>8. TokensCounted' /\ TokensUsed'
    BY <1>1, <1>2, <1>3, <1>5, TokensStay DEF IInv, At
<1>9. Room'
    <2>1. Recent' = Recent
        BY <1>3 DEF Recent
    <2> QED BY <1>1, <2>1, RoomStays DEF IInv
<1>10. SessionsKnown'
    <2>1. SigningKnown(r)'
        BY <1>1 DEF SigningKnown, At
    <2> QED BY <1>1, <1>2, <1>3, <1>4, <2>1, SessionsStay DEF IInv
<1> QED BY <1>5, <1>6, <1>7, <1>8, <1>9, <1>10 DEF IInv

\* A step that ends a request, and with it a token.
LEMMA EndStep ==
    ASSUME IInv, TypeOK', NEW r \in Requests, Reply(r), UserKnown', TokensCounted', TokensUsed',
           UNCHANGED <<now, user, sessions, landed, crossed>>,
           Recent' \subseteq Recent
    PROVE  IInv'
<1>1. Moves(r) /\ req'[r] = NoRequest
    BY RequestEnds DEF IInv, Moves
<1>2. Stamped'
    BY <1>1, NoRequestType, StampedStays DEF IInv, WithStamp
<1>3. Room'
    BY <1>1, NoRequestType, RoomStays DEF IInv
<1>4. SessionsKnown'
    <2>1. SigningKnown(r)'
        BY <1>1, NoRequestType DEF SigningKnown, At
    <2> QED BY <1>1, <2>1, NoRequestType, SessionsStay DEF IInv
<1> QED BY <1>2, <1>3, <1>4 DEF IInv

LEMMA DeleteVerificationStep ==
    ASSUME IInv, NEW r \in Requests, DeleteVerification(r)
    PROVE  IInv'
<1>1. /\ req' \in [Requests -> Request] /\ Moves(r) /\ req'[r] = NoRequest
    BY RequestEnds DEF IInv, DeleteVerification, Moves
<1>2. /\ verification' = None /\ At(r, "delete_verification") /\ Reply(r)
      /\ UNCHANGED <<now, user, reset, sessions, made, calls, landed, crossed, uses,
                     excused, stranded>>
    BY DEF DeleteVerification, history
<1>3. TypeOK'
    BY <1>1, <1>2 DEF IInv, TypeOK
<1>4. UserKnown'
    BY <1>1, <1>2, NoRequestType, UserStays DEF IInv, UserKnown, WithUser
<1>5. TokensCounted' /\ TokensUsed'
    BY <1>1, <1>2, <1>3, NoRequestType, TokensStay DEF IInv, At
<1>6. Recent' = Recent
    BY <1>2 DEF Recent
<1> QED BY <1>2, <1>3, <1>4, <1>5, <1>6, EndStep

-----------------------------------------------------------------------------
(* Requests that create, use and delete a reset token.                      *)

\* The token is deleted: what it may still be held for is no use of it.
LEMMA DeleteResetStep ==
    ASSUME IInv, NEW r \in Requests, DeleteReset(r)
    PROVE  IInv'
<1>1. /\ req' \in [Requests -> Request] /\ Moves(r) /\ req'[r] = NoRequest
    BY RequestEnds DEF IInv, DeleteReset, Moves
<1>2. PICK t \in Tokens : t = req[r].token
    BY DEF IInv, TypeOK, Request, TokensCounted, DeleteReset, At
<1>3. /\ reset' = [reset EXCEPT ![t] = None] /\ At(r, "delete_reset") /\ Reply(r)
      /\ UNCHANGED <<now, user, verification, sessions, made, calls, landed, crossed, uses,
                     excused, stranded>>
    BY <1>2 DEF DeleteReset, history
<1>4. reset'[t] = None /\ \A u \in Tokens \ {t} : reset'[u] = reset[u]
    BY <1>3 DEF IInv, TypeOK
<1>5. TypeOK'
    BY <1>1, <1>3 DEF IInv, TypeOK
<1>6. UserKnown'
    <2>1. user # None
        BY <1>3 DEF IInv, UserKnown, At, WithUser
    <2> QED BY <1>1, <1>3, <2>1, NoRequestType, UserStays DEF IInv, WithUser, At
<1>7. TokensCounted'
    BY <1>1, <1>3, <1>4, NoRequestType DEF IInv, TokensCounted, Moves
<1>8. ASSUME NEW u \in Tokens \ excused' PROVE OneUse(u)'
    <2>1. OneUse(u) /\ u # None
        BY <1>3, NoneIsNoNumber DEF IInv, TokensUsed, Tokens
    <2>2. \A q \in Requests : req'[q].token = u => q # r /\ req'[q] = req[q]
        BY <1>1, <2>1, NoRequestType DEF Moves
    <2>3. uses[u] = 1 => reset'[u] = None \/ \E q \in Requests : At(q, "delete_reset")' /\
                                                             req'[q].token = u
        <3>1. ASSUME NEW q \in Requests, At(q, "delete_reset"), req[q].token = u, u # t
              PROVE  At(q, "delete_reset")' /\ req'[q].token = u
            BY <1>1, <1>2, <3>1 DEF Moves, At
        <3> QED BY <1>4, <2>1, <3>1 DEF OneUse
    <2> QED BY <1>3, <2>1, <2>2, <2>3 DEF OneUse
<1>9. Recent' \subseteq Recent
    BY <1>3, <1>4 DEF Recent
<1> QED BY <1>3, <1>5, <1>6, <1>7, <1>8, <1>9, EndStep DEF TokensUsed

\* The new token is the first that was never there.
LEMMA CreateResetStep ==
    ASSUME IInv, NEW r \in Requests, CreateReset(r)
    PROVE  IInv'
<1>1. /\ req' \in [Requests -> Request] /\ Moves(r) /\ req'[r] = NoRequest /\ Reply(r)
    BY RequestEnds DEF IInv, CreateReset, Moves
<1>2. PICK t \in Tokens : t = made + 1
    BY ScaleType DEF IInv, TypeOK, CreateReset, Tokens
<1>3. /\ reset' = [reset EXCEPT ![t] = [createdAt |-> now, expiresAt |-> req[r].stamp]]
      /\ made' = t /\ At(r, "create_reset")
      /\ UNCHANGED <<now, user, verification, sessions, calls, landed, crossed, uses,
                     excused, stranded>>
    BY <1>2 DEF CreateReset, history
<1>4. /\ made \in Nat /\ now \in Nat /\ req[r].stamp \in Nat /\ req[r].token = None /\ user # None
    BY <1>3, ScaleType DEF IInv, TypeOK, Stamped, TokensCounted, UserKnown, At, WithStamp,
                           WithToken, WithUser
<1>5. reset' \in [Tokens -> ResetToken \cup {None}] /\ \A u \in Tokens \ {t} : reset'[u] = reset[u]
    BY <1>3, <1>4 DEF IInv, TypeOK, ResetToken
<1>6. TypeOK'
    BY <1>1, <1>3, <1>5, ScaleType DEF IInv, TypeOK, Tokens
<1>7. reset[t] = None /\ uses[t] = 0
    BY <1>2, <1>4 DEF IInv, TokensCounted
<1>8. Stamped'
    BY <1>1, NoRequestType, StampedStays DEF IInv, WithStamp
<1>9. UserKnown'
    BY <1>1, <1>3, <1>4, NoRequestType, UserStays DEF IInv, WithUser, At
<1>10. TokensCounted'
    <2>1. ASSUME NEW u \in Tokens, u > made' PROVE reset'[u] = None /\ uses'[u] = 0
        BY <1>2, <1>3, <1>4, <1>5, <2>1 DEF IInv, TokensCounted, Tokens
    <2>2. ASSUME NEW q \in Requests, req'[q].token # None
          PROVE  req'[q].token <= made' /\ req'[q].at \in WithToken
        <3>1. req'[q] = req[q] /\ req[q].token \in Tokens
            BY <1>1, <2>2, NoRequestType DEF Moves, IInv, TypeOK, Request
        <3>2. req[q].token <= made /\ req[q].at \in WithToken
            BY <2>2, <3>1 DEF IInv, TokensCounted
        <3> QED BY <1>2, <1>3, <1>4, <3>1, <3>2 DEF Tokens
    <2>3. \A q \in Requests : req'[q].at \in {"get_reset", "delete_reset"} => req'[q].token # None
        BY <1>1, NoRequestType DEF IInv, TokensCounted, Moves
    <2> QED BY <2>1, <2>2, <2>3 DEF TokensCounted
<1>11. ASSUME NEW u \in Tokens \ excused' PROVE OneUse(u)'
    <2>1. OneUse(u) /\ u # None
        BY <1>3, NoneIsNoNumber DEF IInv, TokensUsed, Tokens
    <2>2. \A q \in Requests : req'[q].token = u => q # r /\ req'[q] = req[q]
        BY <1>1, <2>1, NoRequestType DEF Moves
    <2>3. ASSUME uses[u] = 1
          PROVE  reset'[u] = None \/ \E q \in Requests : At(q, "delete_reset")' /\ req'[q].token = u
        <3>1. reset'[u] = reset[u]
            BY <1>5, <1>7, <2>3
        <3>2. ASSUME NEW q \in Requests, At(q, "delete_reset"), req[q].token = u
              PROVE  At(q, "delete_reset")' /\ req'[q].token = u
            BY <1>1, <1>3, <3>2 DEF Moves, At
        <3> QED BY <2>1, <2>3, <3>1, <3>2 DEF OneUse
    <2> QED BY <1>3, <2>1, <2>2, <2>3 DEF OneUse
<1>12. Room'
    <2>1. Recent' \subseteq Recent \cup {t}
        BY <1>3, <1>5 DEF Recent
    <2>2. /\ Cardinality(Recent') \in Nat /\ Cardinality(Recent) \in Nat
          /\ Cardinality(Recent') <= Cardinality(Recent) + 1
        <3>1. /\ IsFiniteSet(Recent \cup {t}) /\ Cardinality(Recent) \in Nat
              /\ Cardinality(Recent \cup {t}) \in Nat
              /\ Cardinality(Recent \cup {t}) <= Cardinality(Recent) + 1
            <4>1. IsFiniteSet(Recent)
                BY Finite
            <4>2. /\ IsFiniteSet(Recent \cup {t})
                  /\ \/ Cardinality(Recent \cup {t}) = Cardinality(Recent)
                     \/ Cardinality(Recent \cup {t}) = Cardinality(Recent) + 1
                BY <4>1, FS_AddElement
            <4>3. Cardinality(Recent) \in Nat
                BY <4>1, FS_CardinalityType
            <4> QED BY <4>2, <4>3
        <3>2. IsFiniteSet(Recent') /\ Cardinality(Recent') <= Cardinality(Recent \cup {t})
            BY <2>1, <3>1, FS_Subset
        <3>3. Cardinality(Recent') \in Nat
            BY <3>2, FS_CardinalityType
        <3> QED BY <3>1, <3>2, <3>3
    <2>3. Creating' \subseteq Creating \ {r} /\ r \in Creating
        BY <1>1, <1>3, NoRequestType DEF Creating, At, Moves
    <2>4. /\ Cardinality(Creating') \in Nat /\ Cardinality(Creating) \in Nat
          /\ Cardinality(Creating') <= Cardinality(Creating) - 1
        <3>1. /\ IsFiniteSet(Creating \ {r}) /\ Cardinality(Creating) \in Nat
              /\ Cardinality(Creating \ {r}) = Cardinality(Creating) - 1
            BY <2>3, Finite, FS_RemoveElement, FS_CardinalityType
        <3>2. IsFiniteSet(Creating') /\ Cardinality(Creating') <= Cardinality(Creating \ {r})
            BY <2>3, <3>1, FS_Subset
        <3>3. Cardinality(Creating') \in Nat
            BY <3>2, FS_CardinalityType
        <3> QED BY <3>1, <3>2, <3>3
    <2>5. Cardinality(Requests) \in Nat
        BY SlotsAreFinite, FS_CardinalityType
    <2> QED BY <2>2, <2>4, <2>5, ScaleType DEF IInv, Room
<1>13. SessionsKnown'
    <2>1. SigningKnown(r)'
        BY <1>1, NoRequestType DEF SigningKnown, At
    <2> QED BY <1>1, <1>3, <2>1, NoRequestType, SessionsStay DEF IInv
<1> QED BY <1>6, <1>8, <1>9, <1>10, <1>11, <1>12, <1>13 DEF IInv, TokensUsed

\* A request with a token that another one has excuses both.
LEMMA ArriveResetStep ==
    ASSUME IInv, NEW r \in Requests, NEW t \in 1 .. made, ArriveReset(r, t)
    PROVE  IInv'
<1> DEFINE q == [NoRequest EXCEPT !.at = "get_reset", !.token = t]
<1>1. t \in Tokens /\ t # None /\ t <= made
    BY ScaleType, NoneIsNoNumber DEF IInv, TypeOK, Tokens
<1>2. q \in Request /\ q.at = "get_reset" /\ q.token = t
    BY <1>1, NoRequestType DEF Request, Labels
<1>3. /\ req' = [req EXCEPT ![r] = q] /\ At(r, "idle") /\ calls' \in 0 .. MaxCalls
      /\ UNCHANGED <<now, user, verification, reset, sessions, made, landed, crossed, uses, stranded>>
    BY ScaleType DEF IInv, TypeOK, ArriveReset, Accept, rows
<1>4. /\ excused' \subseteq Tokens /\ excused \subseteq excused'
      /\ t \notin excused' => \A p \in Requests : req[p].token # t
    BY <1>1 DEF IInv, TypeOK, ArriveReset
<1> HIDE DEF q
<1>5. req' \in [Requests -> Request] /\ req'[r] = q /\ Moves(r)
    BY <1>2, <1>3, RequestSet DEF IInv, Moves
<1>6. TypeOK'
    BY <1>3, <1>4, <1>5 DEF IInv, TypeOK
<1>7. Stamped'
    BY <1>2, <1>5, StampedStays DEF IInv, WithStamp
<1>8. UserKnown'
    BY <1>2, <1>3, <1>5, UserStays DEF IInv, UserKnown, WithUser, At
<1>9. TokensCounted'
    BY <1>1, <1>2, <1>3, <1>5 DEF IInv, TokensCounted, Moves, WithToken
<1>10. ASSUME NEW u \in Tokens \ excused' PROVE OneUse(u)'
    <2>1. OneUse(u) /\ u # None
        BY <1>4, NoneIsNoNumber DEF IInv, TokensUsed, Tokens
    <2>2. CASE u = t
        <3>1. \A p \in Requests : req'[p].token = u => p = r
            BY <1>4, <1>5, <2>2 DEF Moves
        <3>2. \A p \in Requests : req[p].token # u
            BY <1>4, <2>2
        <3>3. req'[r].at \notin {"hash", "change"}
            BY <1>2, <1>5
        <3> QED BY <1>3, <2>1, <3>1, <3>2, <3>3 DEF OneUse
    <2>3. CASE u # t
        <3>1. \A p \in Requests : req'[p].token = u => req'[p] = req[p]
            BY <1>2, <1>5, <2>3 DEF Moves
        <3>2. ASSUME NEW p \in Requests, At(p, "delete_reset"), req[p].token = u
              PROVE  At(p, "delete_reset")' /\ req'[p].token = u
            BY <1>3, <1>5, <3>2 DEF Moves, At
        <3> QED BY <1>3, <2>1, <3>1, <3>2 DEF OneUse
    <2> QED BY <2>2, <2>3
<1>11. Room'
    <2>1. Recent' = Recent
        BY <1>3 DEF Recent
    <2> QED BY <1>2, <1>5, <2>1, RoomStays DEF IInv
<1>12. SessionsKnown'
    <2>1. SigningKnown(r)'
        BY <1>2, <1>5 DEF SigningKnown, At
    <2> QED BY <1>2, <1>3, <1>5, <2>1, SessionsStay DEF IInv
<1> QED BY <1>6, <1>7, <1>8, <1>9, <1>10, <1>11, <1>12 DEF IInv, TokensUsed
-----------------------------------------------------------------------------
(* The change of the password, and the clock.                               *)

\* A change begins: whoever is making a session takes note of it.
LEMMA HashPasswordStep ==
    ASSUME IInv, NEW r \in Requests, HashPassword(r)
    PROVE  IInv'
<1>1. /\ At(r, "hash") /\ crossed' = (crossed \/ Changing # {}) /\ now \in Nat
      /\ UNCHANGED <<now, user, verification, reset, sessions, made, calls, landed, uses,
                     excused, stranded>>
    <2>1. now \in Nat
        BY ScaleType DEF IInv, TypeOK
    <2> QED BY <2>1 DEF HashPassword, rows
<1>2. /\ req \in [Requests -> Request]
      /\ req' = [q \in Requests |->
                   IF q = r THEN [req[q] EXCEPT !.at = "change", !.stamp = now]
                   ELSE [req[q] EXCEPT !.raced = @ \/ req[q].at \in Signing]]
    BY DEF IInv, TypeOK, HashPassword
<1>3. /\ req'[r] \in Request /\ req'[r].at = "change" /\ req'[r].stamp = now
      /\ req'[r].token = req[r].token
    BY <1>1, <1>2 DEF Request, Labels
<1>4. ASSUME NEW q \in Requests, q # r
      PROVE  /\ req'[q] \in Request /\ req'[q].at = req[q].at /\ req'[q].token = req[q].token
             /\ req'[q].stamp = req[q].stamp /\ req'[q].session = req[q].session
             /\ req'[q].raced = (req[q].raced \/ req[q].at \in Signing)
    <2>1. req'[q] = [req[q] EXCEPT !.raced = req[q].raced \/ req[q].at \in Signing]
        BY <1>2, <1>4
    <2>2. req[q] \in Request /\ (req[q].raced \/ req[q].at \in Signing) \in BOOLEAN
        BY <1>2 DEF Request
    <2> QED BY <2>1, <2>2 DEF Request
<1>5. TypeOK'
    <2>1. req' \in [Requests -> Request]
        BY <1>2, <1>3, <1>4
    <2>2. crossed' \in BOOLEAN
        BY <1>1 DEF IInv, TypeOK
    <2> QED BY <1>1, <2>1, <2>2 DEF IInv, TypeOK
<1>6. Stamped'
    BY <1>1, <1>3, <1>4 DEF IInv, Stamped
<1>7. UserKnown'
    <2>1. user # None
        BY <1>1 DEF IInv, UserKnown, At, WithUser
    <2>2. \A q \in Requests : At(q, "delete_verification")' => user'.isVerified
        BY <1>1, <1>3, <1>4 DEF IInv, UserKnown, At
    <2>3. NotStranded'
        BY <1>1, <1>4 DEF IInv, UserKnown, NotStranded, At
    <2> QED BY <1>1, <2>1, <2>2, <2>3 DEF UserKnown
<1>8. TokensCounted'
    BY <1>1, <1>3, <1>4 DEF IInv, TokensCounted, WithToken
<1>9. ASSUME NEW t \in Tokens \ excused' PROVE OneUse(t)'
    <2>1. OneUse(t)
        BY <1>1 DEF IInv, TokensUsed
    <2>2. \A q \in Requests : req'[q].token = req[q].token
        BY <1>3, <1>4
    <2>3. ASSUME NEW q \in Requests, At(q, "delete_reset") PROVE At(q, "delete_reset")'
        BY <1>1, <1>4, <2>3 DEF At
    <2>4. ASSUME NEW q \in Requests, req'[q].at \in {"hash", "change"}
          PROVE  req[q].at \in {"hash", "change"}
        BY <1>1, <1>4, <2>4 DEF At
    <2> QED BY <1>1, <2>1, <2>2, <2>3, <2>4 DEF OneUse
<1>10. Room'
    <2>1. Recent' = Recent
        BY <1>1 DEF Recent
    <2>2. Creating' = Creating
        BY <1>1, <1>3, <1>4 DEF Creating, At
    <2> QED BY <2>1, <2>2 DEF IInv, Room
<1>11. SessionsKnown'
    <2>1. Changing' = Changing \cup {r}
        BY <1>3, <1>4 DEF Changing, At
    <2>2. ChangesKnown /\ \A q \in Changing : q # r /\ req'[q].stamp = req[q].stamp
        BY <1>1, <1>4 DEF IInv, SessionsKnown, Changing, At
    <2>3. ~ crossed' => ~ crossed /\ Changing' = {r}
        BY <1>1, <2>1
    <2>4. ChangesKnown'
        <3>1. \A q \in Changing' : req'[q].stamp <= now
            <4>1. now <= now
                BY <1>1
            <4> QED BY <1>3, <2>1, <2>2, <4>1 DEF ChangesKnown
        <3> QED BY <1>1, <1>3, <2>2, <2>3, <3>1 DEF ChangesKnown
    <2>5. ASSUME NEW s \in sessions' PROVE SessionKnown(s)'
        <3>1. SessionKnown(s)
            BY <1>1 DEF IInv, SessionsKnown
        <3> QED BY <1>1, <1>3, <2>3, <3>1 DEF SessionKnown
    <2>6. ASSUME NEW q \in Requests PROVE SigningKnown(q)'
        <3>1. CASE q = r
            BY <1>3, <3>1 DEF SigningKnown, At
        <3>2. CASE q # r
            <4>1. SigningKnown(q)
                BY DEF IInv, SessionsKnown
            <4> QED BY <1>1, <1>4, <3>2, <4>1 DEF SigningKnown, At, Signing
        <3> QED BY <3>1, <3>2
    <2> QED BY <2>4, <2>5, <2>6 DEF SessionsKnown
<1> QED BY <1>5, <1>6, <1>7, <1>8, <1>9, <1>10, <1>11 DEF IInv, TokensUsed

\* A change lands: nobody is making a session who has not taken note of it.
LEMMA ChangePasswordStep ==
    ASSUME IInv, NEW r \in Requests, ChangePassword(r)
    PROVE  IInv'
<1>1. /\ At(r, "change") /\ landed' = landed \cup {req[r].stamp}
      /\ UNCHANGED <<now, verification, reset, sessions, made, calls, crossed, excused, stranded>>
    BY DEF ChangePassword
<1>2. /\ req' \in [Requests -> Request] /\ Moves(r) /\ req'[r].at \in {"idle", "delete_reset"}
      /\ req'[r].token = req[r].token /\ (req'[r].at = "delete_reset" <=> req[r].token # None)
    <2>1. CASE req[r].token = None
        BY <2>1, RequestEnds, NoRequestType DEF IInv, ChangePassword, Moves
    <2>2. CASE req[r].token # None
        BY <2>2, RequestGoes DEF IInv, ChangePassword, Moves, Labels
    <2> QED BY <2>1, <2>2
<1>3. user # None /\ user \in User /\ req[r].stamp \in Nat /\ req[r] \in Request
    BY <1>1 DEF IInv, TypeOK, UserKnown, Stamped, At, WithUser, WithStamp
<1>4. /\ user' \in User /\ user' # None /\ user'.isVerified = user.isVerified
      /\ user'.lastPasswordChange = req[r].stamp
    BY <1>3, NoneIsNoRow DEF User, ChangePassword
<1>5. /\ uses' \in [Tokens -> Nat]
      /\ \A t \in Tokens : uses'[t] = IF t = req[r].token THEN uses[t] + 1 ELSE uses[t]
    BY DEF IInv, TypeOK, ChangePassword
<1>6. TypeOK'
    BY <1>1, <1>2, <1>3, <1>4, <1>5 DEF IInv, TypeOK
<1>7. Stamped'
    BY <1>2, StampedStays DEF IInv, WithStamp
<1>8. UserKnown'
    <2>1. \A q \in Requests : At(q, "delete_verification")' => user'.isVerified
        BY <1>2, <1>4 DEF IInv, UserKnown, At, Moves
    <2>2. NotStranded'
        BY <1>1, <1>2, <1>3, <1>4 DEF IInv, UserKnown, NotStranded, At, Moves
    <2> QED BY <1>4, <2>1, <2>2 DEF UserKnown
<1>9. TokensCounted'
    <2>1. ASSUME NEW t \in Tokens, t > made' PROVE reset'[t] = None /\ uses'[t] = 0
        <3>1. reset[t] = None /\ uses[t] = 0
            BY <1>1, <2>1 DEF IInv, TokensCounted
        <3>2. t # req[r].token
            <4>1. ASSUME t = req[r].token PROVE FALSE
                <5>1. t # None /\ t \in Nat /\ made \in Nat
                    BY NoneIsNoNumber, ScaleType DEF Tokens, IInv, TypeOK
                <5>2. t <= made
                    BY <4>1, <5>1 DEF IInv, TokensCounted
                <5> QED BY <1>1, <2>1, <5>1, <5>2
            <4> QED BY <4>1
        <3> QED BY <1>1, <1>5, <3>1, <3>2
    <2>2. ASSUME NEW q \in Requests, req'[q].token # None
          PROVE  req'[q].token <= made' /\ req'[q].at \in WithToken
        BY <1>1, <1>2, <2>2 DEF IInv, TokensCounted, Moves, WithToken
    <2>3. \A q \in Requests : req'[q].at \in {"get_reset", "delete_reset"} => req'[q].token # None
        BY <1>2 DEF IInv, TokensCounted, Moves
    <2> QED BY <2>1, <2>2, <2>3 DEF TokensCounted
<1>10. ASSUME NEW t \in Tokens \ excused' PROVE OneUse(t)'
    <2>1. OneUse(t) /\ t # None
        BY <1>1, NoneIsNoNumber DEF IInv, TokensUsed, Tokens
    <2>2. \A q \in Requests : req'[q].token = req[q].token
        BY <1>2 DEF Moves
    <2>3. CASE t = req[r].token
        <3>1. uses[t] = 0 /\ uses'[t] = 1
            BY <1>1, <1>5, <2>1, <2>3 DEF OneUse, At
        <3>2. At(r, "delete_reset")' /\ req'[r].token = t
            BY <1>2, <2>1, <2>3 DEF At
        <3>3. \A q \in Requests : req'[q].token = t => q = r
            BY <2>1, <2>2, <2>3 DEF OneUse
        <3>4. req'[r].at \notin {"hash", "change"}
            BY <1>2
        <3> QED BY <2>1, <2>2, <3>1, <3>2, <3>3, <3>4 DEF OneUse
    <2>4. CASE t # req[r].token
        <3>1. uses'[t] = uses[t]
            BY <1>5, <2>4
        <3>2. \A q \in Requests : req[q].token = t => req'[q] = req[q]
            BY <1>2, <2>4 DEF Moves
        <3>3. ASSUME NEW q \in Requests, At(q, "delete_reset"), req[q].token = t
              PROVE  At(q, "delete_reset")' /\ req'[q].token = t
            BY <3>2, <3>3 DEF At
        <3> QED BY <1>1, <2>1, <2>2, <3>1, <3>2, <3>3 DEF OneUse
    <2> QED BY <2>3, <2>4
<1>11. Room'
    <2>1. Recent' = Recent
        BY <1>1 DEF Recent
    <2> QED BY <1>2, <2>1, RoomStays DEF IInv
<1>12. SessionsKnown'
    <2>1. r \in Changing /\ ChangesKnown
        BY <1>1 DEF Changing, IInv, SessionsKnown
    <2>2. Changing' \subseteq Changing \ {r} /\ \A q \in Changing' : req'[q] = req[q]
        BY <1>2 DEF Changing, At, Moves
    <2>3. ~ crossed => Changing' = {} /\ \A c \in landed : c <= req[r].stamp
        BY <2>1, <2>2 DEF ChangesKnown
    <2>4. ChangesKnown'
        <3>1. req[r].stamp <= req[r].stamp
            BY <1>3
        <3>2. \A c \in landed' : c <= now'
            BY <1>1, <2>1 DEF ChangesKnown
        <3>3. \A q \in Changing' : req'[q].stamp <= now'
            BY <1>1, <2>1, <2>2 DEF ChangesKnown
        <3>4. user'.lastPasswordChange \in landed' /\ user'.lastPasswordChange # None
            BY <1>1, <1>3, <1>4, NoneIsNoNumber
        <3>5. ~ crossed' => \A c \in landed' : c <= user'.lastPasswordChange
            BY <1>1, <1>4, <2>3, <3>1
        <3> QED BY <1>1, <2>3, <3>2, <3>3, <3>4, <3>5 DEF ChangesKnown
    <2>5. ASSUME NEW s \in sessions' PROVE SessionKnown(s)'
        <3>1. SessionKnown(s)
            BY <1>1 DEF IInv, SessionsKnown
        <3>2. ~ crossed' /\ ~ s.raced => \A c \in landed' : c <= s.since \/ s.signed <= c
            BY <1>1, <2>1, <3>1 DEF SessionKnown
        <3> QED BY <1>1, <2>3, <3>1, <3>2 DEF SessionKnown
    <2>6. ASSUME NEW q \in Requests PROVE SigningKnown(q)'
        <3>1. CASE q = r
            BY <1>2, <3>1 DEF SigningKnown, At
        <3>2. CASE q # r
            <4>1. SigningKnown(q) /\ req'[q] = req[q]
                BY <1>2, <3>2 DEF IInv, SessionsKnown, Moves
            <4> QED BY <1>1, <2>1, <4>1 DEF SigningKnown, At
        <3> QED BY <3>1, <3>2
    <2> QED BY <2>4, <2>5, <2>6 DEF SessionsKnown
<1> QED BY <1>6, <1>7, <1>8, <1>9, <1>10, <1>11, <1>12 DEF IInv, TokensUsed

\* Time only ages the tokens; or nothing happens.
LEMMA TickStep ==
    ASSUME IInv, Tick \/ UNCHANGED vars
    PROVE  IInv'
<1>1. /\ UNCHANGED <<user, verification, reset, req, sessions, made, calls, landed, crossed,
                     uses, excused, stranded>>
      /\ now \in Nat /\ now' \in 0 .. MaxTime /\ now <= now'
    BY ScaleType DEF IInv, TypeOK, Tick, vars, rows, history
<1>2. TypeOK' /\ Stamped'
    BY <1>1 DEF IInv, TypeOK, Stamped
<1>3. UserKnown'
    BY <1>1 DEF IInv, UserKnown, NotStranded, At
<1>4. TokensCounted' /\ TokensUsed'
    BY <1>1 DEF IInv, TokensCounted, TokensUsed, OneUse, At
<1>5. Room'
    <2>1. Recent' \subseteq Recent /\ Creating' = Creating
        <3>1. ASSUME NEW t \in Tokens, reset[t] # None, now' <= reset[t].createdAt + Window
              PROVE  now <= reset[t].createdAt + Window
            <4>1. reset[t].createdAt \in Nat
                BY <3>1 DEF IInv, TypeOK, ResetToken
            <4> QED BY <1>1, <3>1, <4>1, ScaleType
        <3> QED BY <1>1, <3>1 DEF Recent, Creating, At
    <2>2. /\ Cardinality(Recent') \in Nat /\ Cardinality(Recent) \in Nat
          /\ Cardinality(Recent') <= Cardinality(Recent)
        BY <2>1, Finite, FS_Subset, FS_CardinalityType
    <2>3. Cardinality(Creating) \in Nat /\ Cardinality(Requests) \in Nat
        BY Finite, SlotsAreFinite, FS_CardinalityType
    <2> QED BY <2>1, <2>2, <2>3, ScaleType DEF IInv, Room
<1>6. SessionsKnown'
    <2>1. ASSUME NEW n \in Nat, n <= now PROVE n <= now'
        BY <1>1, <2>1
    <2>2. Changing' = Changing
        BY <1>1 DEF Changing, At
    <2>3. ChangesKnown'
        <3>1. \A c \in landed' : c <= now'
            BY <1>1, <2>1 DEF IInv, TypeOK, SessionsKnown, ChangesKnown
        <3>2. \A q \in Changing' : req'[q].stamp <= now'
            BY <1>1, <2>1, <2>2 DEF IInv, Stamped, SessionsKnown, ChangesKnown, Changing, At,
                                    WithStamp
        <3> QED BY <1>1, <2>2, <3>1, <3>2 DEF IInv, SessionsKnown, ChangesKnown
    <2>4. ASSUME NEW s \in sessions' PROVE SessionKnown(s)'
        <3>1. SessionKnown(s) /\ s \in Session
            BY <1>1 DEF IInv, TypeOK, SessionsKnown
        <3>2. s.signed <= now'
            BY <2>1, <3>1 DEF SessionKnown, Session
        <3> QED BY <1>1, <2>2, <3>1, <3>2 DEF SessionKnown
    <2>5. ASSUME NEW q \in Requests PROVE SigningKnown(q)'
        <3>1. SigningKnown(q)
            BY DEF IInv, SessionsKnown
        <3>2. req[q].at \in {"create_verification", "mail"} => req[q].stamp <= now'
            BY <2>1, <3>1 DEF SigningKnown, IInv, Stamped, WithStamp
        <3> QED BY <1>1, <2>2, <3>1, <3>2 DEF SigningKnown, At
    <2> QED BY <2>3, <2>4, <2>5 DEF SessionsKnown
<1> QED BY <1>2, <1>3, <1>4, <1>5, <1>6 DEF IInv

-----------------------------------------------------------------------------
LEMMA InitIInv == Init => IInv
<1> SUFFICES ASSUME Init PROVE IInv
    OBVIOUS
<1>1. \A r \in Requests : req[r] = NoRequest
    BY DEF Init
<1>2. TypeOK
    <2>1. now \in 0 .. MaxTime /\ made \in 0 .. MaxTokens /\ calls \in 0 .. MaxCalls
        BY ScaleType DEF Init
    <2>2. user \in User \cup {None}
        <3>1. [lastPasswordChange |-> None, isVerified |-> TRUE] \in User
            BY DEF User
        <3> QED BY <3>1 DEF Init
    <2>3. req \in [Requests -> Request]
        BY NoRequestType DEF Init
    <2> QED BY <2>1, <2>2, <2>3 DEF Init, TypeOK
<1>3. Stamped /\ UserKnown /\ TokensCounted
    <2>1. user = None \/ user.isVerified
        BY DEF Init
    <2> QED BY <1>1, <2>1, NoRequestType
            DEF Init, Stamped, UserKnown, NotStranded, TokensCounted, At, WithStamp, WithUser
<1>4. TokensUsed
    <2> SUFFICES ASSUME NEW t \in Tokens PROVE OneUse(t)
        BY DEF TokensUsed
    <2>1. t # None /\ uses[t] = 0
        BY NoneIsNoNumber DEF Init, Tokens
    <2> QED BY <1>1, <2>1, NoRequestType DEF OneUse
<1>5. Room
    <2>1. Recent = {} /\ Creating = {}
        BY <1>1, NoRequestType DEF Init, Recent, Creating, At
    <2> QED BY <2>1, FS_EmptySet, SlotsAreFinite, FS_CardinalityType, ScaleType DEF Room
<1>6. SessionsKnown
    <2>1. Changing = {}
        BY <1>1, NoRequestType DEF Changing, At
    <2>2. user # None => user.lastPasswordChange = None
        BY DEF Init
    <2> QED BY <1>1, <2>1, <2>2, NoRequestType
            DEF Init, SessionsKnown, ChangesKnown, SigningKnown, At
<1> QED BY <1>2, <1>3, <1>4, <1>5, <1>6 DEF IInv

LEMMA NextIInv == IInv /\ [Next]_vars => IInv'
<1> SUFFICES ASSUME IInv, [Next]_vars PROVE IInv'
    OBVIOUS
<1>1. ASSUME NEW r \in Requests,
             NEW label \in {"signup", "get_verification", "login", "find_user"},
             Arrive(r, label)
      PROVE  IInv'
    BY <1>1, ArriveStep
<1>2. ASSUME NEW r \in Requests, ArriveForgot(r) PROVE IInv'
    BY <1>2, ArriveStep
<1>3. ASSUME NEW r \in Requests, NEW s \in sessions, ArriveRefresh(r, s) PROVE IInv'
    BY <1>3, ArriveRefreshStep
<1>4. ASSUME NEW r \in Requests, NEW t \in 1 .. made, ArriveReset(r, t) PROVE IInv'
    BY <1>4, ArriveResetStep
<1>5. ASSUME NEW r \in Requests, SigningUp(r) PROVE IInv'
    BY <1>5, FindNobodyStep, CreateUserStep, CreateVerificationStep, MailVerificationStep
    DEF SigningUp
<1>6. ASSUME NEW r \in Requests, Verifying(r) PROVE IInv'
    BY <1>6, GetVerificationStep, VerifyEmailStep, DeleteVerificationStep DEF Verifying
<1>7. ASSUME NEW r \in Requests, LogIn(r) PROVE IInv'
    BY <1>7, LogInStep
<1>8. ASSUME NEW r \in Requests, Refreshing(r) PROVE IInv'
    BY <1>8, GuardStep, RefreshStep DEF Refreshing
<1>9. ASSUME NEW r \in Requests, FindForgetful(r) \/ CountTokens(r) \/ CreateReset(r)
      PROVE  IInv'
    BY <1>9, FindForgetfulStep, CountTokensStep, CreateResetStep
<1>10. ASSUME NEW r \in Requests, Resetting(r) PROVE IInv'
    BY <1>10, GetResetStep, FindUserStep, HashPasswordStep, ChangePasswordStep, DeleteResetStep
    DEF Resetting
<1>11. ASSUME NEW r \in Requests, Fail(r) PROVE IInv'
    BY <1>11, FailStep
<1>12. CASE Tick \/ UNCHANGED vars
    BY <1>12, TickStep
<1> QED BY <1>1, <1>2, <1>3, <1>4, <1>5, <1>6, <1>7, <1>8, <1>9, <1>10, <1>11, <1>12 DEF Next

LEMMA Inductive == Spec => []IInv
BY InitIInv, NextIInv, PTL DEF Spec

-----------------------------------------------------------------------------
(* Theorems.                                                                *)

\* The rows, the requests and the tokens handed out have their types.
THEOREM TypeCorrect == Spec => []TypeOK
<1>1. IInv => TypeOK
    BY DEF IInv
<1> QED BY <1>1, Inductive, PTL

\* An account that is not verified keeps the token it can be verified with,
\* whatever fails in verifyEmail, for any number of requests at once.
THEOREM AccountsCanBeVerified == Spec => []NotStranded
<1>1. IInv => NotStranded
    BY DEF IInv, UserKnown
<1> QED BY <1>1, Inductive, PTL

\* A reset token changes the password at most once, unless two resets with it
\* overlap or its deletion fails (resetPassword updates, then deletes).
THEOREM TokensChangeOnce == Spec => []TokenUsedOnce
<1>1. IInv => TokenUsedOnce
    <2> SUFFICES ASSUME IInv, NEW t \in Tokens \ excused PROVE uses[t] <= 1
        BY DEF TokenUsedOnce
    <2>1. uses[t] \in {0, 1}
        BY DEF IInv, TokensUsed, OneUse
    <2> QED BY <2>1
<1> QED BY <1>1, Inductive, PTL

\* There are never more recent reset tokens than the limit and one for each
\* further request in flight, however the counts and the creations interleave.
THEOREM ResetsAreLimited == Spec => []TokensLimited
<1>1. IInv => TokensLimited
    <2> SUFFICES ASSUME IInv PROVE TokensLimited
        OBVIOUS
    <2>1. /\ Cardinality(Recent) \in Nat /\ Cardinality(Creating) \in Nat
          /\ Cardinality(Requests) \in Nat
        BY Finite, SlotsAreFinite, FS_CardinalityType
    <2>2. Cardinality(Recent) + Cardinality(Creating) < Limit + Cardinality(Requests)
        BY DEF IInv, Room
    <2> QED BY <2>1, <2>2, ScaleType DEF TokensLimited
<1> QED BY <1>1, Inductive, PTL

\* A change of password ends every session of a password before it, however
\* often it was refreshed, unless one of the two was being made meanwhile; and
\* it ends no session of a password given a second after it.
THEOREM ChangesEndSessions == Spec => []SessionsEndWithPassword
<1>1. ASSUME IInv, NEW s \in sessions PROVE
        /\ s \in Session /\ SessionKnown(s) /\ ChangesKnown /\ landed \subseteq Nat
        /\ user # None /\ (landed # {} => user.lastPasswordChange \in landed)
    BY <1>1 DEF IInv, TypeOK, UserKnown, SessionsKnown, ChangesKnown
<1>2. ASSUME IInv, NEW s \in sessions, ~ crossed, ~ s.raced,
             NEW change \in landed \ {s.signed}, s.since < change, Accepts(s)
      PROVE  FALSE
    <2>1. change <= s.since \/ change = s.signed
        BY <1>2, AcceptedIsLatest
    <2>2. change \in Nat /\ s.since \in Nat
        BY <1>1, <1>2 DEF Session
    <2> QED BY <1>2, <2>1, <2>2
<1>3. ASSUME IInv, NEW s \in sessions, \A change \in landed : change + Second <= s.since
      PROVE  Accepts(s) \/ s.iat + SessionLife <= now \div Second
    <2>1. now \div Second \in Nat /\ s.iat \in Nat /\ s.since \in Nat /\ s.signed \in Nat
        BY <1>1, <1>3, SecondOf, ScaleType DEF Session, IInv, TypeOK
    <2>2. s.iat * Second \in Nat
        BY <2>1, ScaleType
    <2>3. ASSUME user.lastPasswordChange # None
          PROVE  user.lastPasswordChange <= s.iat * Second
        <3>1. user.lastPasswordChange \in landed /\ user.lastPasswordChange \in Nat
            BY <1>1, <1>3, <2>3 DEF ChangesKnown
        <3>2. user.lastPasswordChange + Second <= s.since
            BY <1>3, <3>1
        <3>3. s.since <= s.signed /\ s.signed < s.iat * Second + Second
            BY <1>1, <1>3 DEF SessionKnown
        <3> QED BY <2>1, <2>2, <3>1, <3>2, <3>3, ScaleType
    <2>4. s.iat + SessionLife <= now \div Second \/ now \div Second < s.iat + SessionLife
        BY <2>1, ScaleType
    <2> QED BY <1>1, <1>3, <2>3, <2>4 DEF Accepts
<1>4. IInv => SessionsEndWithPassword
    BY <1>2, <1>3 DEF SessionsEndWithPassword
<1> QED BY <1>4, Inductive, PTL

=============================================================================
