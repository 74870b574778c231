----------------------------- MODULE Credentials ----------------------------
(****************************************************************************)
(* The account of one e-mail address: auth.service.ts, user.service.ts and  *)
(* jwt.strategy.ts, await by await.                                         *)
(*                                                                          *)
(*   sign up    signup -> create_user -> create_verification -> mail        *)
(*   verify     get_verification -> verify -> delete_verification           *)
(*   log in     login                                                       *)
(*   refresh    global_guard -> guard -> reread                             *)
(*   forgot     forgot -> count -> create_reset                             *)
(*   reset      get_reset -> hash -> change -> delete_reset                 *)
(*   default    find_user -> hash -> change     (reset-password-default)    *)
(*                                                                          *)
(* Times are ticks of one clock, shorter than a second.  Whoever logs in    *)
(* gives the stored password; a wrong one, like a wrong address, is refused *)
(* without effect and left out.  EmailService catches every error, so the   *)
(* deletion of a token whose e-mail was not sent is never reached.          *)
(****************************************************************************)
EXTENDS Naturals, FiniteSets

CONSTANTS
    Requests,    \* request slots: how many requests are in flight at once
    Second,      \* ticks of a second
    TokenLife,   \* ticks a reset token is valid (an hour)
    Window,      \* ticks for which it counts (a day), and a verification is valid
    SessionLife, \* seconds a session is valid (a day)
    Limit,       \* reset tokens in a Window (3)
    MaxTime,     \* bound: the clock
    MaxTokens,   \* bound: reset tokens created
    MaxCalls,    \* bound: requests accepted
    None         \* null

ASSUME ScaleType ==
    /\ Second \in Nat \ {0} /\ Limit \in Nat \ {0}
    /\ {TokenLife, Window, SessionLife, MaxTime, MaxTokens, MaxCalls} \subseteq Nat
ASSUME SlotsAreFinite == IsFiniteSet(Requests)
ASSUME NoneIsNoNumber == None \notin Nat

Tokens == 1 .. MaxTokens

User == [lastPasswordChange : Nat \cup {None}, isVerified : BOOLEAN]

ASSUME NoneIsNoRow == None \notin User

ResetToken == [createdAt : Nat, expiresAt : Nat]

\* A JWT carries the second in which it was signed.  History: the instant of
\* that, the instant at which the password it goes back to was given, and
\* whether a change of password was being written while it was made.
Session == [iat : Nat, signed : Nat, since : Nat, raced : BOOLEAN]

Labels == {"idle", "signup", "create_user", "create_verification", "mail",
           "get_verification", "verify", "delete_verification", "login",
           "global_guard", "guard", "reread", "forgot", "count", "create_reset",
           "get_reset", "hash", "change", "delete_reset", "find_user"}

\* stamp is a time the handler computed before the call that stores it.
Request == [at : Labels, token : Tokens \cup {None}, stamp : Nat \cup {None},
            session : Session \cup {None}, raced : BOOLEAN]

NoRequest == [at |-> "idle", token |-> None, stamp |-> None, session |-> None,
              raced |-> FALSE]

VARIABLES
    now,          \* the clock
    user,         \* the User row, or None
    verification, \* expiresAt of the UserVerification row, or None
    reset,        \* reset[t]: the UserResetPassword row, or None
    req,          \* req[r]: the request in slot r
    sessions,     \* the JWTs handed out
    made,         \* how many reset tokens were created
    calls,        \* how many requests were accepted
    landed,       \* history: the lastPasswordChange of each change
    crossed,      \* history: two changes were being written at once
    uses,         \* history: how often a token changed the password
    excused,      \* history: tokens of two resets at once, or not deleted
    stranded      \* history: a sign-up failed once the user was created

rows == <<user, verification, reset>>
history == <<landed, crossed, uses, excused, stranded>>
vars == <<now, rows, req, sessions, made, calls, history>>

Init ==
    /\ now = 0
    /\ user \in {None, [lastPasswordChange |-> None, isVerified |-> TRUE]}
    /\ verification = None
    /\ reset = [t \in Tokens |-> None]
    /\ req = [r \in Requests |-> NoRequest]
    /\ sessions = {}
    /\ made = 0 /\ calls = 0
    /\ landed = {} /\ crossed = FALSE
    /\ uses = [t \in Tokens |-> 0] /\ excused = {}
    /\ stranded = FALSE

-----------------------------------------------------------------------------
At(r, label) == req[r].at = label

\* (Mutant of Accepts: a change ends what was signed in the second before.)
AcceptsUntilLater(s) ==
    /\ user # None
    /\ now \div Second < s.iat + SessionLife
    /\ user.lastPasswordChange # None =>
         user.lastPasswordChange < (s.iat + 1) * Second

\* validate of the JWT strategy, and the expiry passport checks before.
Accepts(s) ==
    /\ user # None
    /\ now \div Second < s.iat + SessionLife
    /\ user.lastPasswordChange # None => user.lastPasswordChange <= s.iat * Second

Reply(r) == req' = [req EXCEPT ![r] = NoRequest]

Goto(r, label) == req' = [req EXCEPT ![r].at = label]

Changing == {r \in Requests : At(r, "change")}

\* The requests that will hand out a session for what was checked already.
Signing == {"create_verification", "mail", "guard", "reread"}

Sign(r, since, raced) ==
    /\ sessions' = sessions \cup {[iat |-> now \div Second, signed |-> now,
                                  since |-> since, raced |-> raced]}
    /\ Reply(r)

Forgetting == {r \in Requests : req[r].at \in {"forgot", "count", "create_reset"}}

Accept(r, q) ==
    /\ At(r, "idle")
    /\ calls < MaxCalls
    /\ calls' = calls + 1
    /\ req' = [req EXCEPT ![r] = q]
    /\ UNCHANGED <<now, rows, sessions, made, landed, crossed, uses, stranded>>

Arrive(r, label) == Accept(r, [NoRequest EXCEPT !.at = label]) /\ UNCHANGED excused

\* (While there is a token left for everyone.)
ArriveForgot(r) == made + Cardinality(Forgetting) < MaxTokens /\ Arrive(r, "forgot")

ArriveRefresh(r, s) ==
    /\ Accept(r, [NoRequest EXCEPT !.at = "global_guard", !.session = s])
    /\ UNCHANGED excused

ArriveReset(r, t) ==
    /\ Accept(r, [NoRequest EXCEPT !.at = "get_reset", !.token = t])
    /\ excused' = excused \cup {u \in {t} : \E q \in Requests : req[q].token = u}

-----------------------------------------------------------------------------
(* Sign-up, verification, log-in and refresh: one awaited call each.        *)

FindNobody(r) ==
    /\ At(r, "signup")
    /\ IF user = None THEN Goto(r, "create_user") ELSE Reply(r)
    /\ UNCHANGED <<now, rows, sessions, made, calls, history>>

\* The address is unique: the later of two sign-ups fails.
CreateUser(r) ==
    /\ At(r, "create_user")
    /\ user = None
    /\ user' = [lastPasswordChange |-> None, isVerified |-> FALSE]
    /\ req' = [req EXCEPT ![r].at = "create_verification", ![r].stamp = now,
                          ![r].raced = (Changing # {})]
    /\ UNCHANGED <<now, verification, reset, sessions, made, calls, history>>

CreateVerification(r) ==
    /\ At(r, "create_verification")
    /\ verification' = now + Window
    /\ Goto(r, "mail")
    /\ UNCHANGED <<now, user, reset, sessions, made, calls, history>>

MailVerification(r) ==
    /\ At(r, "mail")
    /\ Sign(r, req[r].stamp, req[r].raced)
    /\ UNCHANGED <<now, rows, made, calls, history>>

GetVerification(r) ==
    /\ At(r, "get_verification")
    /\ IF verification # None /\ now <= verification THEN Goto(r, "verify") ELSE Reply(r)
    /\ UNCHANGED <<now, rows, sessions, made, calls, history>>

\* (Mutant of VerifyEmail: the token is deleted before the user is updated.)
DeleteThenVerify(r) ==
    /\ At(r, "verify")
    /\ verification' = None
    /\ user' = IF verification = None THEN [user EXCEPT !.isVerified = TRUE] ELSE user
    /\ IF verification = None THEN Reply(r) ELSE UNCHANGED req
    /\ UNCHANGED <<now, reset, sessions, made, calls, history>>

VerifyEmail(r) ==
    /\ At(r, "verify")
    /\ user' = [user EXCEPT !.isVerified = TRUE]
    /\ Goto(r, "delete_verification")
    /\ UNCHANGED <<now, verification, reset, sessions, made, calls, history>>

DeleteVerification(r) ==
    /\ At(r, "delete_verification")
    /\ verification' = None
    /\ Reply(r)
    /\ UNCHANGED <<now, user, reset, sessions, made, calls, history>>

\* The password is compared and the JWT signed as soon as the row is read.
LogIn(r) ==
    /\ At(r, "login")
    /\ IF user # None THEN Sign(r, now, FALSE) ELSE Reply(r) /\ UNCHANGED sessions
    /\ UNCHANGED <<now, rows, made, calls, history>>

\* refresh passes two guards, the global one and its own.
GlobalGuard(r) ==
    /\ At(r, "global_guard")
    /\ IF Accepts(req[r].session)
         THEN req' = [req EXCEPT ![r].at = "guard", ![r].raced = (Changing # {})]
         ELSE Reply(r)
    /\ UNCHANGED <<now, rows, sessions, made, calls, history>>

RouteGuard(r) ==
    /\ At(r, "guard")
    /\ IF Accepts(req[r].session)
         THEN req' = [req EXCEPT ![r].at = "reread", ![r].raced = (Changing # {})]
         ELSE Reply(r)
    /\ UNCHANGED <<now, rows, sessions, made, calls, history>>

\* (A session of the very instant of a change is taken to be of its password.)
Refresh(r) ==
    /\ At(r, "reread")
    /\ LET s == req[r].session IN
         Sign(r, IF s.signed \in landed THEN s.signed ELSE s.since,
              s.raced \/ req[r].raced)
    /\ UNCHANGED <<now, rows, made, calls, history>>

-----------------------------------------------------------------------------
(* Forgotten passwords.                                                     *)

\* (Mutant of FindForgetful: expiresAt is not computed.)
FindForgetfulOnly(r) ==
    /\ At(r, "forgot")
    /\ IF user # None THEN Goto(r, "count") ELSE Reply(r)
    /\ UNCHANGED <<now, rows, sessions, made, calls, history>>

FindForgetful(r) ==
    /\ At(r, "forgot")
    /\ IF user # None
         THEN req' = [req EXCEPT ![r].at = "count", ![r].stamp = now + TokenLife]
         ELSE Reply(r)
    /\ UNCHANGED <<now, rows, sessions, made, calls, history>>

Recent == {t \in Tokens : reset[t] # None /\ now <= reset[t].createdAt + Window}

\* (Mutant of CountTokens: tokens that have expired do not count.)
CountValidTokens(r) ==
    /\ At(r, "count")
    /\ IF Cardinality({t \in Recent : now <= reset[t].expiresAt}) >= Limit
         THEN Reply(r) ELSE Goto(r, "create_reset")
    /\ UNCHANGED <<now, rows, sessions, made, calls, history>>

CountTokens(r) ==
    /\ At(r, "count")
    /\ IF Cardinality(Recent) >= Limit THEN Reply(r) ELSE Goto(r, "create_reset")
    /\ UNCHANGED <<now, rows, sessions, made, calls, history>>

CreateReset(r) ==
    /\ At(r, "create_reset")
    /\ made < MaxTokens
    /\ made' = made + 1
    /\ reset' = [reset EXCEPT ![made + 1] = [createdAt |-> now, expiresAt |-> req[r].stamp]]
    /\ Reply(r)
    /\ UNCHANGED <<now, user, verification, sessions, calls, history>>

GetReset(r) ==
    /\ At(r, "get_reset")
    /\ LET t == req[r].token IN
         IF reset[t] # None /\ now <= reset[t].expiresAt THEN Goto(r, "hash") ELSE Reply(r)
    /\ UNCHANGED <<now, rows, sessions, made, calls, history>>

FindUser(r) ==
    /\ At(r, "find_user")
    /\ IF user # None THEN Goto(r, "hash") ELSE Reply(r)
    /\ UNCHANGED <<now, rows, sessions, made, calls, history>>

\* lastPasswordChange is the time at which the update is issued.
HashPassword(r) ==
    /\ At(r, "hash")
    /\ req' = [q \in Requests |->
                 IF q = r THEN [req[q] EXCEPT !.at = "change", !.stamp = now]
                 ELSE [req[q] EXCEPT !.raced = @ \/ req[q].at \in Signing]]
    /\ crossed' = (crossed \/ Changing # {})
    /\ UNCHANGED <<now, rows, sessions, made, calls, landed, uses, excused, stranded>>

\* (Mutant of ChangePassword: the token is not deleted.)
ChangePasswordOnly(r) ==
    /\ At(r, "change")
    /\ user' = [user EXCEPT !.lastPasswordChange = req[r].stamp]
    /\ landed' = landed \cup {req[r].stamp}
    /\ uses' = [t \in Tokens |-> IF t = req[r].token THEN uses[t] + 1 ELSE uses[t]]
    /\ Reply(r)
    /\ UNCHANGED <<now, verification, reset, sessions, made, calls, crossed, excused, stranded>>

ChangePassword(r) ==
    /\ At(r, "change")
    /\ user' = [user EXCEPT !.lastPasswordChange = req[r].stamp]
    /\ landed' = landed \cup {req[r].stamp}
    /\ uses' = [t \in Tokens |-> IF t = req[r].token THEN uses[t] + 1 ELSE uses[t]]
    /\ IF req[r].token = None THEN Reply(r) ELSE Goto(r, "delete_reset")
    /\ UNCHANGED <<now, verification, reset, sessions, made, calls, crossed, excused, stranded>>

DeleteReset(r) ==
    /\ At(r, "delete_reset")
    /\ reset' = [reset EXCEPT ![req[r].token] = None]
    /\ Reply(r)
    /\ UNCHANGED <<now, user, verification, sessions, made, calls, history>>

\* The awaited call rejects (deleting what another request has deleted does):
\* nothing is written and the request fails.
Fail(r) ==
    /\ ~ At(r, "idle")
    /\ Reply(r)
    /\ stranded' = (stranded \/ At(r, "create_verification"))
    /\ excused' = excused \cup {t \in {req[r].token} : At(r, "delete_reset")}
    /\ UNCHANGED <<now, rows, sessions, made, calls, landed, crossed, uses>>

Tick ==
    /\ now < MaxTime
    /\ now' = now + 1
    /\ UNCHANGED <<rows, req, sessions, made, calls, history>>

SigningUp(r) == FindNobody(r) \/ CreateUser(r) \/ CreateVerification(r) \/ MailVerification(r)

Verifying(r) == GetVerification(r) \/ VerifyEmail(r) \/ DeleteVerification(r)

Refreshing(r) == GlobalGuard(r) \/ RouteGuard(r) \/ Refresh(r)

Resetting(r) ==
    \/ GetReset(r) \/ FindUser(r) \/ HashPassword(r) \/ ChangePassword(r) \/ DeleteReset(r)

Next ==
    \/ \E r \in Requests, label \in {"signup", "get_verification", "login", "find_user"} :
         Arrive(r, label)
    \/ \E r \in Requests : ArriveForgot(r)
    \/ \E r \in Requests, s \in sessions : ArriveRefresh(r, s)
    \/ \E r \in Requests, t \in 1 .. made : ArriveReset(r, t)
    \/ \E r \in Requests :
         \/ SigningUp(r) \/ Verifying(r) \/ LogIn(r) \/ Refreshing(r)
         \/ FindForgetful(r) \/ CountTokens(r) \/ CreateReset(r)
         \/ Resetting(r) \/ Fail(r)
    \/ Tick

Spec == Init /\ [][Next]_vars

-----------------------------------------------------------------------------
(* Properties                                                               *)

TypeOK ==
    /\ now \in 0 .. MaxTime
    /\ user \in User \cup {None}
    /\ verification \in Nat \cup {None}
    /\ reset \in [Tokens -> ResetToken \cup {None}]
    /\ req \in [Requests -> Request]
    /\ sessions \subseteq Session
    /\ made \in 0 .. MaxTokens /\ calls \in 0 .. MaxCalls
    /\ landed \subseteq Nat /\ crossed \in BOOLEAN
    /\ uses \in [Tokens -> Nat] /\ excused \subseteq Tokens
    /\ stranded \in BOOLEAN

\* A change of password ends every session that goes back to a password given
\* before, however often it was refreshed, for ever (jwt.strategy.ts:41), unless
\* a refresh or sign-up overlapped a change or two changes overlapped; and it
\* ends none of a password given a second after it, although a JWT carries
\* whole seconds only.
SessionsEndWithPassword ==
    \A s \in sessions :
        /\ ~ crossed /\ ~ s.raced =>
             \A change \in landed \ {s.signed} : s.since < change => ~ Accepts(s)
        /\ (\A change \in landed : change + Second <= s.since) =>
             Accepts(s) \/ s.iat + SessionLife <= now \div Second

\* However requests for a reset race, and however the counted tokens age, there
\* are never more recent tokens than the limit and one for each further request
\* in flight (createResetPasswordToken, the count at user.service.ts:115).
TokensLimited == Cardinality(Recent) < Limit + Cardinality(Requests)

\* A reset token changes the password once, unless two resets with it overlap or
\* its deletion fails (resetPassword updates first and deletes afterwards,
\* auth.service.ts:149-154).
TokenUsedOnce == \A t \in Tokens \ excused : uses[t] <= 1

\* An account that is not verified keeps the token it can be verified with,
\* whatever fails in verifyEmail, once its sign-up has made the token: nothing
\* ever makes another one.
NotStranded ==
    user # None /\ ~ stranded =>
        \/ user.isVerified
        \/ verification # None
        \/ \E r \in Requests : At(r, "create_verification")

=============================================================================
