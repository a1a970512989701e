------------------------------ MODULE Sessions ------------------------------
(* The authentication service: users and refresh_tokens in PostgreSQL, the     *)
(* failure counters, reset codes and the blacklist in Redis. A handler is a    *)
(* request that goes from one database or cache call to the next; requests     *)
(* that are refused at their first call leave no trace and are not recorded.   *)
EXTENDS Naturals, Sequences, FiniteSets

CONSTANTS
    Users,          \* addresses that may have an account
    Passwords,      \* passwords in use
    MaxAttempts,    \* failures that lock (maxLoginAttempts, maxPinAttempts, maxOTPAttempts)
    MaxRequests,    \* bound: requests made
    MaxFaults       \* bound: calls to the database or the cache that fail

ASSUME SessionsAssumption ==
    /\ MaxAttempts \in Nat \ {0}
    /\ MaxRequests \in Nat
    /\ MaxFaults \in Nat
    /\ Passwords # {}

VARIABLES
    account,    \* users.is_active, or "none" where there is no row
    password,   \* users.password_hash
    pins,       \* users whose two PINs are set
    tokens,     \* refresh_tokens, in the order of their insertion
    blacklist,  \* access tokens logged out, by the number of the row minted with them
    fails,      \* login_fail:, pin_fail: and pwd_reset_fail: with their expiry
    code,       \* pwd_reset:, the number of the code or 0
    codes,      \* reset codes made so far
    req,        \* the requests, in the order of their arrival
    faults,     \* failed calls so far
    raced,      \* history: logins one exchange of which overlapped another or a revocation
    ended,      \* history: logins that were there when their user's tokens were revoked
    orphaned    \* history: counters that lost their EXPIRE, or the answer that asks for it

sessionsVars == <<account, password, pins, tokens, blacklist, fails, code, codes, req, faults,
          raced, ended, orphaned>>
accounts == <<account, password, pins>>
sessions == <<tokens, blacklist>>
redis == <<fails, code, codes>>
history == <<raced, ended, orphaned>>

Counters == {"login", "pin", "reset"} \X Users
Exchanging == {"user", "revoke", "insert"}
Steps == {"verify", "count", "window", "clear", "revokeAll", "update", "drop", "void",
          "store", "done"} \cup Exchanging
Ops == {"login", "pin", "reset", "refresh", "logout", "change", "forgot",
        "none"}
\* What a request carries is a password, a PIN, a code or the number of a token.
Request == [op : Ops, user : Users, arg : Nat \cup Passwords, step : Steps]
RefreshToken == [user : Users, root : Nat, live : BOOLEAN]

SessionsTypeOK ==
    /\ account \in [Users -> {"none", "active", "inactive"}]
    /\ password \in [Users -> Passwords]
    /\ pins \subseteq Users
    /\ tokens \in Seq(RefreshToken)
    /\ \A t \in DOMAIN tokens : tokens[t].root \in 1..t
    /\ blacklist \subseteq DOMAIN tokens
    /\ fails \in [Counters -> [n : 0..MaxRequests + MaxFaults, expires : BOOLEAN]]
    /\ code \in [Users -> 0..codes]
    /\ codes \in 0..MaxRequests
    /\ req \in Seq(Request)
    /\ Len(req) <= MaxRequests
    /\ \A r \in DOMAIN req : req[r].op = "refresh" => req[r].arg \in DOMAIN tokens
    /\ faults \in 0..MaxFaults
    /\ raced \subseteq DOMAIN tokens
    /\ ended \subseteq DOMAIN tokens
    /\ orphaned \subseteq Counters

NoFailures == [n |-> 0, expires |-> FALSE]

SessionsInit ==
    /\ account = [u \in Users |-> "none"]
    /\ password = [u \in Users |-> CHOOSE p \in Passwords : TRUE]
    /\ pins = {}
    /\ tokens = <<>>
    /\ blacklist = {}
    /\ fails = [k \in Counters |-> NoFailures]
    /\ code = [u \in Users |-> 0]
    /\ codes = 0
    /\ req = <<>>
    /\ faults = 0
    /\ raced = {}
    /\ ended = {}
    /\ orphaned = {}

---------------------------------------------------------------------------
(* Requests *)

Begin(op, u, arg, step) ==
    /\ Len(req) < MaxRequests
    /\ req' = Append(req, [op |-> op, user |-> u, arg |-> arg, step |-> step])

At(r, op, step) == req[r].op = op /\ req[r].step = step
\* A request that has been answered is forgotten.
Goto(r, step) ==
    req' = [req EXCEPT ![r] = IF step = "done"
                              THEN [op |-> "none", user |-> @.user, arg |-> 0, step |-> step]
                              ELSE [@ EXCEPT !.step = step]]
Counter(r) == <<req[r].op, req[r].user>>

Fails == faults < MaxFaults /\ faults' = faults + 1

Locked(k) == fails[k].n >= MaxAttempts
\* What isLockedOut answers: it fails open when the cache does.
SeesLocked(k, locked) ==
    \/ faults' = faults /\ locked = Locked(k)
    \/ Fails /\ ~locked

---------------------------------------------------------------------------
(* Accounts *)

CreateUser(u, p) ==
    /\ account[u] = "none"
    /\ account' = [account EXCEPT ![u] = "active"]
    /\ password' = [password EXCEPT ![u] = p]
    /\ UNCHANGED <<pins, sessions, redis, req, faults, history>>

UpdateStatus(u, status) ==
    /\ account[u] # "none"
    /\ account' = [account EXCEPT ![u] = status]
    /\ UNCHANGED <<password, pins, sessions, redis, req, faults, history>>

\* Behind RequireAuth, an access token that was not logged out speaks for its user.
Authorized(u) == \E t \in DOMAIN tokens \ blacklist : tokens[t].user = u

SetupPins(u) ==
    /\ Authorized(u)
    /\ pins' = pins \cup {u}
    /\ UNCHANGED <<account, password, sessions, redis, req, faults, history>>

StartChangePassword(u, old) ==
    /\ Authorized(u) /\ old = password[u]
    /\ Begin("change", u, 0, "update")
    /\ UNCHANGED <<accounts, sessions, redis, faults, history>>

\* UpdatePassword, as ChangePassword and ResetPassword call it.
UpdatePassword(r, p) ==
    /\ req[r].step = "update"
    /\ password' = [password EXCEPT ![req[r].user] = p]
    /\ Goto(r, IF req[r].op = "reset" THEN "drop" ELSE "done")
    /\ UNCHANGED <<account, pins, sessions, redis, faults, history>>

---------------------------------------------------------------------------
(* Login, PIN *)

StartLogin(u, p) ==
    /\ SeesLocked(<<"login", u>>, FALSE)
    /\ Begin("login", u, p, "verify")
    /\ UNCHANGED <<accounts, sessions, redis, history>>

VerifyLogin(r) ==
    /\ At(r, "login", "verify")
    /\ LET u == req[r].user IN
       Goto(r, CASE account[u] = "inactive" -> "done"
                 [] account[u] = "active" /\ password[u] = req[r].arg -> "clear"
                 [] OTHER -> "count")
    /\ UNCHANGED <<accounts, sessions, redis, faults, history>>

\* VerifyPin reads the user first, then asks whether the counter is locked. The
\* access token it answers with is kept nowhere. PIN 0 is neither of the two.
StartPin(u, pin) ==
    /\ Authorized(u) /\ account[u] = "active" /\ u \in pins
    /\ Begin("pin", u, pin, "verify")
    /\ UNCHANGED <<accounts, sessions, redis, faults, history>>

VerifyPin(r) ==
    /\ At(r, "pin", "verify")
    /\ \E locked \in BOOLEAN :
        /\ SeesLocked(Counter(r), locked)
        /\ Goto(r, IF locked THEN "done" ELSE IF req[r].arg = 0 THEN "count" ELSE "clear")
    /\ UNCHANGED <<accounts, sessions, redis, history>>

---------------------------------------------------------------------------
(* The failure counters *)

Count_WindowOnceLocked(r) ==
    /\ req[r].step = "count"
    /\ fails' = [fails EXCEPT ![Counter(r)].n = @ + 1]
    /\ Goto(r, IF fails[Counter(r)].n = MaxAttempts THEN "window" ELSE "done")
    /\ UNCHANGED <<accounts, sessions, code, codes, faults, history>>

\* recordFailure: INCR, and EXPIRE in a call of its own after the first.
Count(r) ==
    /\ req[r].step = "count"
    /\ fails' = [fails EXCEPT ![Counter(r)].n = @ + 1]
    /\ Goto(r, IF fails[Counter(r)].n = 0 THEN "window" ELSE "done")
    /\ UNCHANGED <<accounts, sessions, code, codes, faults, history>>

SetExpiry(r) ==
    /\ req[r].step = "window"
    /\ fails' = [fails EXCEPT ![Counter(r)].expires = (@ \/ fails[Counter(r)].n > 0)]
    /\ Goto(r, "done")
    /\ UNCHANGED <<accounts, sessions, code, codes, faults, history>>

AfterClear(r) == IF req[r].op = "login" THEN "insert" ELSE "done"

\* A new code resets the counter of the codes.
ClearFailures(r) ==
    /\ req[r].step = "clear"
    /\ LET k == IF req[r].op = "forgot" THEN <<"reset", req[r].user>> ELSE Counter(r) IN
        /\ fails' = [fails EXCEPT ![k] = NoFailures]
        /\ orphaned' = orphaned \ {k}
    /\ Goto(r, AfterClear(r))
    /\ UNCHANGED <<accounts, sessions, code, codes, faults, raced, ended>>

WindowEnds(k) ==
    /\ fails[k].expires
    /\ fails' = [fails EXCEPT ![k] = NoFailures]
    /\ orphaned' = orphaned \ {k}
    /\ UNCHANGED <<accounts, sessions, code, codes, req, faults, raced, ended>>

---------------------------------------------------------------------------
(* Reset codes *)

StartForgot(u) ==
    /\ account[u] # "none"
    /\ Begin("forgot", u, 0, "store")
    /\ UNCHANGED <<accounts, sessions, redis, faults, history>>

StoreCode(r) ==
    /\ req[r].step = "store"
    /\ codes' = codes + 1
    /\ code' = [code EXCEPT ![req[r].user] = codes + 1]
    /\ Goto(r, "clear")
    /\ UNCHANGED <<accounts, sessions, fails, faults, history>>

StartReset(u, c) ==
    /\ \E locked \in BOOLEAN :
        /\ SeesLocked(<<"reset", u>>, locked)
        /\ Begin("reset", u, c, IF locked THEN "void" ELSE "verify")
    /\ UNCHANGED <<accounts, sessions, redis, history>>

VerifyCode(r) ==
    /\ At(r, "reset", "verify")
    /\ Goto(r, CASE code[req[r].user] = 0 -> "done"
                 [] code[req[r].user] = req[r].arg -> "update"
                 [] OTHER -> "count")
    /\ UNCHANGED <<accounts, sessions, redis, faults, history>>

\* The code goes when it was used ("drop") or after too many wrong ones ("void").
DropCode(r) ==
    /\ req[r].step \in {"drop", "void"}
    /\ code' = [code EXCEPT ![req[r].user] = 0]
    /\ Goto(r, IF req[r].step = "drop" THEN "clear" ELSE "done")
    /\ UNCHANGED <<accounts, sessions, fails, codes, faults, history>>

CodeExpires(u) ==
    /\ code[u] # 0
    /\ code' = [code EXCEPT ![u] = 0]
    /\ UNCHANGED <<accounts, sessions, fails, codes, req, faults, history>>

---------------------------------------------------------------------------
(* Refresh tokens *)

\* The logins an exchange of which is between its read and its insert.
BeingExchanged == {tokens[req[r].arg].root : r \in
    {q \in DOMAIN req : req[q].op = "refresh" /\ req[q].step \in Exchanging}}

StartRefresh_TakesAny(t) ==
    /\ Begin("refresh", tokens[t].user, t, "user")
    /\ raced' = raced \cup ({tokens[t].root} \cap BeingExchanged)
    /\ UNCHANGED <<accounts, sessions, redis, faults, ended, orphaned>>

StartRefresh(t) ==
    /\ Begin("refresh", tokens[t].user, t, IF tokens[t].live THEN "user" ELSE "revokeAll")
    /\ raced' = IF tokens[t].live THEN raced \cup ({tokens[t].root} \cap BeingExchanged)
                                  ELSE raced
    /\ UNCHANGED <<accounts, sessions, redis, faults, ended, orphaned>>

CheckUser(r) ==
    /\ At(r, "refresh", "user")
    /\ Goto(r, IF account[req[r].user] = "active" THEN "revoke" ELSE "done")
    /\ UNCHANGED <<accounts, sessions, redis, faults, history>>

RevokeRefreshToken_Forgets(r) ==
    /\ At(r, "refresh", "revoke")
    /\ Goto(r, "insert")
    /\ UNCHANGED <<accounts, sessions, redis, faults, history>>

RevokeRefreshToken(r) ==
    /\ At(r, "refresh", "revoke")
    /\ tokens' = [tokens EXCEPT ![req[r].arg].live = FALSE]
    /\ Goto(r, "insert")
    /\ UNCHANGED <<accounts, blacklist, redis, faults, history>>

InsertRefreshToken(r) ==
    /\ req[r].step = "insert"
    /\ LET t == Len(tokens) + 1
           root == IF req[r].op = "login" THEN t ELSE tokens[req[r].arg].root IN
       tokens' = Append(tokens, [user |-> req[r].user, root |-> root, live |-> TRUE])
    /\ Goto(r, "done")
    /\ UNCHANGED <<accounts, blacklist, redis, faults, history>>

StartLogout_NamesNext(t) ==
    /\ t \notin blacklist
    /\ blacklist' = blacklist \cup {Len(tokens) + 1}
    /\ Begin("logout", tokens[t].user, 0, "revokeAll")
    /\ UNCHANGED <<accounts, tokens, redis, faults, history>>

\* An access token is taken once: RequireAuth refuses it from then on.
Blacklist(t) ==
    /\ t \notin blacklist
    /\ blacklist' = blacklist \cup {t}

StartLogout(t) ==
    /\ Blacklist(t)
    /\ Begin("logout", tokens[t].user, 0, "revokeAll")
    /\ UNCHANGED <<accounts, tokens, redis, faults, history>>

\* After a logout, and when a revoked token is presented.
RevokeAllUserRefreshTokens(r) ==
    /\ req[r].step = "revokeAll"
    /\ LET own == {t \in DOMAIN tokens : tokens[t].user = req[r].user}
           roots == {tokens[t].root : t \in own} IN
       /\ tokens' = [t \in DOMAIN tokens |->
                        [tokens[t] EXCEPT !.live = @ /\ t \notin own]]
       /\ ended' = ended \cup roots
       /\ raced' = raced \cup (roots \cap BeingExchanged)
    /\ Goto(r, "done")
    /\ UNCHANGED <<accounts, blacklist, redis, faults, orphaned>>

---------------------------------------------------------------------------
(* Faults *)

\* A call fails, or the process dies before it.
RequestFails(r) ==
    /\ req[r].step # "done" /\ Fails
    /\ orphaned' = IF req[r].step = "window" THEN orphaned \cup {Counter(r)} ELSE orphaned
    /\ Goto(r, "done")
    /\ UNCHANGED <<accounts, sessions, redis, raced, ended>>

\* INCR is carried out and its answer lost: the client gives up, or sends it again
\* and is answered by the second one, which is not the first failure any more.
CountUnanswered(r) ==
    /\ req[r].step = "count" /\ Fails
    /\ fails' = [fails EXCEPT ![Counter(r)].n = @ + 1]
    /\ orphaned' = IF fails[Counter(r)].n = 0 THEN orphaned \cup {Counter(r)} ELSE orphaned
    /\ \E step \in {"count", "done"} : Goto(r, step)
    /\ UNCHANGED <<accounts, sessions, code, codes, raced, ended>>

\* The errors of DEL are ignored.
DelFails(r) ==
    /\ Fails
    /\ \/ req[r].step = "clear" /\ Goto(r, AfterClear(r))
       \/ req[r].step = "drop" /\ Goto(r, "clear")
    /\ UNCHANGED <<accounts, sessions, redis, history>>

---------------------------------------------------------------------------
Proceed(r) ==
    \/ VerifyLogin(r) \/ VerifyPin(r) \/ VerifyCode(r)
    \/ Count(r) \/ SetExpiry(r) \/ ClearFailures(r)
    \/ StoreCode(r) \/ DropCode(r)
    \/ \E p \in Passwords : UpdatePassword(r, p)
    \/ CheckUser(r) \/ RevokeRefreshToken(r) \/ InsertRefreshToken(r)
    \/ RevokeAllUserRefreshTokens(r)

Stumble(r) == RequestFails(r) \/ CountUnanswered(r) \/ DelFails(r)

SessionsNext ==
    \/ \E u \in Users, p \in Passwords :
        CreateUser(u, p) \/ StartLogin(u, p) \/ StartChangePassword(u, p)
    \/ \E u \in Users : SetupPins(u) \/ StartForgot(u) \/ CodeExpires(u)
    \/ \E u \in Users, status \in {"active", "inactive"} : UpdateStatus(u, status)
    \/ \E u \in Users, pin \in 0..2 : StartPin(u, pin)
    \/ \E u \in Users, c \in 0..codes : StartReset(u, c)
    \/ \E t \in DOMAIN tokens : StartRefresh(t) \/ StartLogout(t)
    \/ \E k \in Counters : WindowEnds(k)
    \/ \E r \in DOMAIN req : Proceed(r) \/ Stumble(r)

\* While requests are in progress one of them goes on, and Redis lets what has an
\* expiry expire.
SessionsSafetySpec == SessionsInit /\ [][SessionsNext]_sessionsVars

SessionsSpec ==
    /\ SessionsSafetySpec
    /\ WF_sessionsVars(\E r \in DOMAIN req : Proceed(r))
    /\ WF_sessionsVars(\E k \in Counters : WindowEnds(k))

---------------------------------------------------------------------------
(* Properties *)

\* A login has one refresh token in use at a time, whatever its exchanges,
\* unless two of them overlapped or one overlapped a revocation: the token is read,
\* revoked and replaced in three statements (RefreshToken).
OneSessionPerLogin ==
    \A s, t \in DOMAIN tokens :
        tokens[s].live /\ tokens[t].live /\ tokens[s].root = tokens[t].root
            /\ tokens[s].root \notin raced => s = t

\* After Logout, or after a revoked token was presented, nothing that came of the user's
\* earlier logins can be exchanged any more, unless an exchange was in progress just then.
LogoutEndsSessions ==
    \A t \in DOMAIN tokens :
        tokens[t].root \in ended \ raced => ~tokens[t].live

\* A lock-out ends: recordFailure gives a counter its expiry with the first
\* failure, so no order of failures and successes leaves one that blocks the account
\* for good, unless the call that sets the expiry, or the answer that asks for it, was
\* lost since the counter was last at zero.
LockoutEnds ==
    \A k \in Counters : Locked(k) ~> (~Locked(k) \/ k \in orphaned)
=============================================================================
