------------------------------ MODULE Accounts ------------------------------
(***************************************************************************)
(* Accounts, sessions and refresh tokens of the HTTP API (api/auth/, and   *)
(* the users, refresh_tokens and sessions tables of api/routes/memory.py). *)
(* Every handler is a coroutine: between two awaits it runs alone, and at  *)
(* each await another request may run.  An await of the database is one    *)
(* step, since every helper opens its own connection and commits.  SQLite  *)
(* never enforces the declared foreign keys (no PRAGMA foreign_keys), so   *)
(* deleting a user removes one row.                                        *)
(*                                                                         *)
(* A session id and the refresh token of the same _issue_tokens call are   *)
(* one number: both are random and never reused.  One client address is    *)
(* modelled; the login limiter keeps a separate record for each.           *)
(***************************************************************************)
EXTENDS Integers, FiniteSets

CONSTANTS Reqs,         \* requests the server may be handling at once
          Names,        \* user names
          Passwords,
          MaxSessions,  \* MAX_SESSIONS_PER_USER, 5
          MaxFailed,    \* _RATE_LIMIT_MAX, 5
          Window,       \* _RATE_LIMIT_WINDOW, 15 minutes
          BearerLife,   \* ACCESS_TOKEN_EXPIRE_MINUTES, one day
          RefreshLife,  \* REFRESH_TOKEN_EXPIRE_DAYS, 7
          SessionLife,  \* the 7 days of prune_expired_sessions
          Nobody,       \* Python's None
          Commands,     \* what the command line client is used for
          MaxUsers,     \* bound of the model: accounts ever created
          MaxIssued,    \* bound of the model: token pairs ever issued
          MaxBadLogins, \* bound of the model: failures the limiter counts
          MaxTime       \* bound of the model: last instant of the clock

ASSUME AccountsAssumption ==
    /\ Nobody \notin Names \cup Passwords
                     \cup {"register", "create", "refresh", "delete", "reset"}
    /\ IsFiniteSet(Reqs)
    /\ Commands \subseteq {"create", "delete", "reset"}
    /\ MaxSessions \in Nat \ {0}
    /\ MaxFailed \in Nat \ {0}
    /\ {Window, BearerLife, RefreshLife, SessionLife} \subseteq Nat
    /\ {MaxUsers, MaxIssued, MaxBadLogins, MaxTime} \subseteq Nat

VARIABLES users,     \* table users: id -> row
          lastId,    \* its AUTOINCREMENT counter
          sessions,  \* table sessions
          tokens,    \* table refresh_tokens
          issued,    \* session ids and refresh tokens generated so far
          bearer,    \* id -> when its latest access token (a JWT) expires
          attempts,  \* _login_attempts of the client address, in memory
          req,       \* the local variables of each request
          cli,       \* the command line client: [name, id]
          now        \* the clock

tables == <<users, lastId, sessions, tokens, issued>>
vars == <<tables, bearer, attempts, req, cli, now>>

Ids == 1..MaxUsers

SessionsOf(u) == {s \in sessions : s.user = u}
Admins == {u \in DOMAIN users : users[u].role = "admin"}
RowsNamed(name) == {u \in DOMAIN users : users[u].name = name}

Idle == [pc |-> "idle", op |-> Nobody, caller |-> 0, user |-> 0, name |-> Nobody,
         pw |-> Nobody, role |-> "user", tok |-> 0, sid |-> 0, active |-> {}]

\* request r goes on to await at "step", its locals otherwise as in "locals"
Await(r, locals, step) == req' = [req EXCEPT ![r] = [locals EXCEPT !.pc = step]]
Respond(r) == req' = [req EXCEPT ![r] = Idle]

NoRecord == [count |-> 0, start |-> -(Window + 1)]     \* a window long past

Init ==
    /\ users = [u \in {} |-> Idle]
    /\ lastId = 0
    /\ sessions = {}
    /\ tokens = {}
    /\ issued = 0
    /\ bearer = [u \in {} |-> 0]
    /\ attempts = NoRecord
    /\ req = [r \in Reqs |-> Idle]
    /\ cli = [name |-> Nobody, id |-> 0]
    /\ now = 0

-----------------------------------------------------------------------------
(* _issue_tokens, the tail of register, login and refresh                  *)

(* prune_expired_sessions; last_active is never updated after the insert   *)
Prune(r) ==
    /\ req[r].pc = "prune"
    /\ sessions' = {s \in sessions : s.at >= now - SessionLife}
    /\ Await(r, req[r], "list")
    /\ UNCHANGED <<users, lastId, tokens, issued, bearer, attempts, cli, now>>

(* list_sessions_for_user *)
List(r) ==
    /\ req[r].pc = "list"
    /\ issued < MaxIssued          \* bound of the model, as in CreateSession
    /\ Await(r, [req[r] EXCEPT !.active = SessionsOf(req[r].user)],
             IF Cardinality(SessionsOf(req[r].user)) >= MaxSessions
             THEN "evict" ELSE "create")
    /\ UNCHANGED <<tables, bearer, attempts, cli, now>>

\* Mutant: the oldest session is looked up but not deleted.
Evict_kept(r) ==
    /\ req[r].pc = "evict"
    /\ Await(r, req[r], "create")
    /\ UNCHANGED <<tables, bearer, attempts, cli, now>>

(* delete_session of the oldest in the list read before; created_at has a  *)
(* resolution of one second, so several may be the oldest.                 *)
Evict(r) ==
    /\ req[r].pc = "evict"
    /\ \E oldest \in req[r].active :
          /\ \A s \in req[r].active : oldest.at <= s.at
          /\ sessions' = sessions \ {oldest}
    /\ Await(r, req[r], "create")
    /\ UNCHANGED <<users, lastId, tokens, issued, bearer, attempts, cli, now>>

(* create_session *)
CreateSession(r) ==
    /\ req[r].pc = "create"
    /\ issued < MaxIssued          \* bound of the model
    /\ issued' = issued + 1
    /\ sessions' = sessions \cup
                     {[sid |-> issued', user |-> req[r].user, at |-> now]}
    /\ Await(r, [req[r] EXCEPT !.sid = issued', !.active = {}], "save")
    /\ UNCHANGED <<users, lastId, tokens, bearer, attempts, cli, now>>

(* save_refresh_token; the JWT was signed just before, and the response    *)
(* carries both.  update_user_last_login changes nothing modelled.         *)
SaveToken(r) ==
    /\ req[r].pc = "save"
    /\ tokens' = tokens \cup {[tok |-> req[r].sid, user |-> req[r].user,
                               exp |-> now + RefreshLife]}
    /\ bearer' = [u \in DOMAIN bearer \cup {req[r].user} |->
                     IF u = req[r].user THEN now + BearerLife ELSE bearer[u]]
    /\ Respond(r)
    /\ UNCHANGED <<users, lastId, sessions, issued, attempts, cli, now>>

-----------------------------------------------------------------------------
(* register and admin_create_user *)

(* register up to its first answer from get_user_by_username *)
Register(r, name, pw) ==
    /\ req[r].pc = "idle"
    /\ RowsNamed(name) = {}        \* otherwise 409
    /\ Await(r, [Idle EXCEPT !.op = "register", !.name = name, !.pw = pw], "count")
    /\ UNCHANGED <<tables, bearer, attempts, cli, now>>

(* count_users: the first account becomes the administrator *)
CountUsers(r) ==
    /\ req[r].pc = "count"
    /\ Await(r, [req[r] EXCEPT !.role = IF DOMAIN users = {} THEN "admin"
                                        ELSE "user"], "insert")
    /\ UNCHANGED <<tables, bearer, attempts, cli, now>>

(* admin_create_user once require_admin has passed: get_user_by_username   *)
CheckName(r) ==
    /\ req[r].pc = "name"
    /\ IF RowsNamed(req[r].name) = {} THEN Await(r, req[r], "insert") ELSE Respond(r)
    /\ UNCHANGED <<tables, bearer, attempts, cli, now>>

\* Mutant: ids without AUTOINCREMENT, the largest one in the table plus one.
NewId_reused ==
    IF DOMAIN users = {} THEN 1
    ELSE 1 + CHOOSE u \in DOMAIN users : \A v \in DOMAIN users : v <= u

NewId == lastId + 1

(* create_user; the UNIQUE constraint on username makes a second insert of *)
(* a name fail, and the handler with it.                                   *)
CreateUser(r) ==
    /\ req[r].pc = "insert"
    /\ \/ /\ RowsNamed(req[r].name) # {}
          /\ Respond(r)
          /\ UNCHANGED <<users, lastId>>
       \/ /\ RowsNamed(req[r].name) = {}
          /\ NewId \in Ids         \* bound of the model
          /\ lastId' = NewId
          /\ users' = [u \in DOMAIN users \cup {NewId} |->
                         IF u = NewId THEN [name |-> req[r].name, pw |-> req[r].pw,
                                            role |-> req[r].role]
                         ELSE users[u]]
          /\ IF req[r].op = "register"
             THEN Await(r, [Idle EXCEPT !.user = NewId], "prune")
             ELSE Respond(r)
    /\ UNCHANGED <<sessions, tokens, issued, bearer, attempts, cli, now>>

-----------------------------------------------------------------------------
(* login and its limiter *)

Rewound == IF now - attempts.start > Window THEN [count |-> 0, start |-> now]
           ELSE attempts

\* Mutant: the limiter lets one failure too many through.
Login_lenient(r, name, pw) ==
    /\ req[r].pc = "idle"
    /\ attempts' = Rewound
    /\ IF Rewound.count > MaxFailed
       THEN UNCHANGED req
       ELSE Await(r, [Idle EXCEPT !.name = name, !.pw = pw], "verify")
    /\ UNCHANGED <<tables, bearer, cli, now>>

(* check_login_rate_limit *)
Login(r, name, pw) ==
    /\ req[r].pc = "idle"
    /\ attempts' = Rewound
    /\ IF Rewound.count >= MaxFailed
       THEN UNCHANGED req          \* 429
       ELSE Await(r, [Idle EXCEPT !.name = name, !.pw = pw], "verify")
    /\ UNCHANGED <<tables, bearer, cli, now>>

(* get_user_by_username and verify_password, then record_failed_login or   *)
(* clear_login_attempts                                                    *)
VerifyLogin(r) ==
    /\ req[r].pc = "verify"
    /\ \/ \E u \in RowsNamed(req[r].name) :
            /\ users[u].pw = req[r].pw
            /\ attempts' = NoRecord
            /\ Await(r, [Idle EXCEPT !.user = u], "prune")
       \/ /\ \A u \in RowsNamed(req[r].name) : users[u].pw # req[r].pw
          /\ Rewound.count < MaxBadLogins      \* bound of the model
          /\ attempts' = [Rewound EXCEPT !.count = @ + 1]
          /\ Respond(r)
    /\ UNCHANGED <<tables, bearer, cli, now>>

-----------------------------------------------------------------------------
(* refresh_token, and logout after its get_current_user *)

(* get_refresh_token and the test of its expiry *)
Refresh(r, t) ==
    /\ req[r].pc = "idle"
    /\ IF now > t.exp
       THEN Await(r, [Idle EXCEPT !.tok = t.tok], "drop")
       ELSE Await(r, [Idle EXCEPT !.op = "refresh", !.user = t.user, !.tok = t.tok],
                  "consume")
    /\ UNCHANGED <<tables, bearer, attempts, cli, now>>

\* Mutant: the token is left in the table while its successor is issued.
ConsumeToken_later(r) ==
    /\ req[r].pc = "consume"
    /\ Await(r, req[r], "prune")
    /\ UNCHANGED <<tables, bearer, attempts, cli, now>>

(* delete_refresh_token, then _issue_tokens *)
ConsumeToken(r) ==
    /\ req[r].pc = "consume"
    /\ tokens' = {t \in tokens : t.tok # req[r].tok}
    /\ Await(r, req[r], "prune")
    /\ UNCHANGED <<users, lastId, sessions, issued, bearer, attempts, cli, now>>

(* delete_refresh_token as the last call of logout or an expired refresh   *)
DropToken(r) ==
    /\ req[r].pc = "drop"
    /\ tokens' = {t \in tokens : t.tok # req[r].tok}
    /\ Respond(r)
    /\ UNCHANGED <<users, lastId, sessions, issued, bearer, attempts, cli, now>>

-----------------------------------------------------------------------------
(* Requests with an access token: get_current_user, then the handler       *)

Current(u) == u \in DOMAIN bearer /\ now <= bearer[u] /\ u \in DOMAIN users

Logout(r, u, t) ==
    /\ req[r].pc = "idle" /\ Current(u)
    /\ Await(r, [Idle EXCEPT !.tok = t], "drop")
    /\ UNCHANGED <<tables, bearer, attempts, cli, now>>

Revoke(r, u, s) ==
    /\ req[r].pc = "idle" /\ Current(u)
    /\ Await(r, [Idle EXCEPT !.caller = u, !.sid = s], "own")
    /\ UNCHANGED <<tables, bearer, attempts, cli, now>>

(* get_session and the owner test of revoke_session *)
CheckOwner(r) ==
    /\ req[r].pc = "own"
    /\ IF \E s \in SessionsOf(req[r].caller) : s.sid = req[r].sid
       THEN Await(r, req[r], "unlist") ELSE Respond(r)
    /\ UNCHANGED <<tables, bearer, attempts, cli, now>>

(* delete_session *)
DeleteSession(r) ==
    /\ req[r].pc = "unlist"
    /\ sessions' = {s \in sessions : s.sid # req[r].sid}
    /\ Respond(r)
    /\ UNCHANGED <<users, lastId, tokens, issued, bearer, attempts, cli, now>>

RevokeAll(r, u) ==
    /\ req[r].pc = "idle" /\ Current(u)
    /\ Await(r, [Idle EXCEPT !.caller = u], "clear")
    /\ UNCHANGED <<tables, bearer, attempts, cli, now>>

(* delete_all_sessions_for_user *)
ClearSessions(r) ==
    /\ req[r].pc = "clear"
    /\ sessions' = sessions \ SessionsOf(req[r].caller)
    /\ Respond(r)
    /\ UNCHANGED <<users, lastId, tokens, issued, bearer, attempts, cli, now>>

AdminCreate(r, u, name, pw, role) ==
    /\ req[r].pc = "idle" /\ Current(u) /\ u \in Admins
    /\ Await(r, [Idle EXCEPT !.op = "create", !.name = name, !.pw = pw,
                             !.role = role], "name")
    /\ UNCHANGED <<tables, bearer, attempts, cli, now>>

\* Mutant: an administrator may delete the account it is using.
AdminDelete_self(r, u, target) ==
    /\ req[r].pc = "idle" /\ Current(u) /\ u \in Admins
    /\ Await(r, [Idle EXCEPT !.op = "delete", !.caller = u, !.user = target], "target")
    /\ UNCHANGED <<tables, bearer, attempts, cli, now>>

AdminDelete(r, u, target) ==
    /\ req[r].pc = "idle" /\ Current(u) /\ u \in Admins
    /\ target # u                  \* "Cannot delete your own account"
    /\ Await(r, [Idle EXCEPT !.op = "delete", !.caller = u, !.user = target], "target")
    /\ UNCHANGED <<tables, bearer, attempts, cli, now>>

AdminReset(r, u, target, pw) ==
    /\ req[r].pc = "idle" /\ Current(u) /\ u \in Admins
    /\ Await(r, [Idle EXCEPT !.op = "reset", !.user = target, !.pw = pw], "target")
    /\ UNCHANGED <<tables, bearer, attempts, cli, now>>

(* get_user_by_id of the target *)
FindTarget(r) ==
    /\ req[r].pc = "target"
    /\ IF req[r].user \in DOMAIN users THEN Await(r, req[r], req[r].op) ELSE Respond(r)
    /\ UNCHANGED <<tables, bearer, attempts, cli, now>>

(* delete_user *)
DeleteUser(r) ==
    /\ req[r].pc = "delete"
    /\ users' = [u \in DOMAIN users \ {req[r].user} |-> users[u]]
    /\ Respond(r)
    /\ UNCHANGED <<lastId, sessions, tokens, issued, bearer, attempts, cli, now>>

(* update_user_password, of no row if the account was deleted meanwhile *)
UpdatePassword(r) ==
    /\ req[r].pc = "reset"
    /\ users' = [u \in DOMAIN users |-> IF u = req[r].user
                    THEN [users[u] EXCEPT !.pw = req[r].pw] ELSE users[u]]
    /\ Await(r, req[r], "detach")
    /\ UNCHANGED <<lastId, sessions, tokens, issued, bearer, attempts, cli, now>>

(* delete_all_refresh_tokens_for_user *)
DetachTokens(r) ==
    /\ req[r].pc = "detach"
    /\ tokens' = {t \in tokens : t.user # req[r].user}
    /\ Respond(r)
    /\ UNCHANGED <<users, lastId, sessions, issued, bearer, attempts, cli, now>>

-----------------------------------------------------------------------------
(* scripts/braincbrain-cli.py users: another process, which writes to the  *)
(* same tables and asks no token.  Each command ends in one transaction.   *)

(* a name that is taken when it is looked up, or when it is inserted, ends *)
(* the command                                                             *)
cmd_users_create(name, pw, role) ==
    /\ "create" \in Commands /\ cli.name = Nobody
    /\ RowsNamed(name) = {}
    /\ NewId \in Ids               \* bound of the model
    /\ lastId' = NewId
    /\ users' = [u \in DOMAIN users \cup {NewId} |->
                   IF u = NewId THEN [name |-> name, pw |-> pw, role |-> role] ELSE users[u]]
    /\ UNCHANGED <<sessions, tokens, issued, bearer, attempts, req, cli, now>>

(* by name, whoever has it by now; nothing keeps an administrator *)
cmd_users_delete(name) ==
    /\ "delete" \in Commands /\ cli.name = Nobody
    /\ RowsNamed(name) # {}
    /\ users' = [u \in DOMAIN users \ RowsNamed(name) |-> users[u]]
    /\ UNCHANGED <<lastId, sessions, tokens, issued, bearer, attempts, req, cli, now>>

(* _get_user, before the prompts *)
cmd_users_reset_password(u) ==
    /\ "reset" \in Commands /\ cli.name = Nobody
    /\ cli' = [name |-> users[u].name, id |-> u]
    /\ UNCHANGED <<tables, bearer, attempts, req, now>>

(* the password goes by the name, the tokens by the id found before *)
ResetByName(pw) ==
    /\ cli.name # Nobody
    /\ users' = [u \in DOMAIN users |-> IF users[u].name = cli.name
                    THEN [users[u] EXCEPT !.pw = pw] ELSE users[u]]
    /\ tokens' = {t \in tokens : t.user # cli.id}
    /\ cli' = [name |-> Nobody, id |-> 0]
    /\ UNCHANGED <<lastId, sessions, issued, bearer, attempts, req, now>>

CommandLine ==
    \/ \E name \in Names, pw \in Passwords, role \in {"admin", "user"} :
          cmd_users_create(name, pw, role)
    \/ \E name \in Names : cmd_users_delete(name)
    \/ \E u \in DOMAIN users : cmd_users_reset_password(u)
    \/ \E pw \in Passwords : ResetByName(pw)

-----------------------------------------------------------------------------
(* The server is stopped and started: what is in memory is lost *)
Restart ==
    /\ req' = [r \in Reqs |-> Idle]
    /\ attempts' = NoRecord
    /\ UNCHANGED <<tables, bearer, cli, now>>

(* a write of the database fails and the request ends in an error *)
Abort(r) ==
    /\ req[r].pc # "idle"
    /\ Respond(r)
    /\ UNCHANGED <<tables, bearer, attempts, cli, now>>

Tick ==
    /\ now < MaxTime
    /\ now' = now + 1
    /\ UNCHANGED <<tables, bearer, attempts, req, cli>>

Issue(r) == Prune(r) \/ List(r) \/ Evict(r) \/ CreateSession(r) \/ SaveToken(r)

SignUp(r) ==
    \/ \E name \in Names, pw \in Passwords : Register(r, name, pw)
    \/ CountUsers(r) \/ CheckName(r) \/ CreateUser(r)

SignIn(r) ==
    \/ \E name \in Names, pw \in Passwords : Login(r, name, pw)
    \/ VerifyLogin(r)
    \/ \E t \in tokens : Refresh(r, t)
    \/ ConsumeToken(r) \/ DropToken(r)

(* a token or session id found in no row is answered without a change *)
SignOut(r) ==
    \/ \E u \in DOMAIN users, t \in tokens : Logout(r, u, t.tok)
    \/ \E u \in DOMAIN users, s \in sessions : Revoke(r, u, s.sid)
    \/ \E u \in DOMAIN users : RevokeAll(r, u)
    \/ CheckOwner(r) \/ DeleteSession(r) \/ ClearSessions(r)

Administer(r) ==
    \/ \E u \in Admins, name \in Names, pw \in Passwords, role \in {"admin", "user"} :
          AdminCreate(r, u, name, pw, role)
    \/ \E u \in Admins, target \in DOMAIN users : AdminDelete(r, u, target)
    \/ \E u \in Admins, target \in DOMAIN users, pw \in Passwords :
          AdminReset(r, u, target, pw)
    \/ FindTarget(r) \/ DeleteUser(r) \/ UpdatePassword(r) \/ DetachTokens(r)

Handler(r) == Issue(r) \/ SignUp(r) \/ SignIn(r) \/ SignOut(r) \/ Administer(r)
              \/ Abort(r)

Next == (\E r \in Reqs : Handler(r)) \/ CommandLine \/ Restart \/ Tick

Spec == Init /\ [][Next]_vars

-----------------------------------------------------------------------------
(* What the accounts promise *)

Row == [name : Names, pw : Passwords, role : {"admin", "user"}]

Local ==
    [pc : {"idle", "prune", "list", "evict", "create", "save", "count", "name",
           "insert", "verify", "consume", "drop", "own", "unlist", "clear",
           "target", "delete", "reset", "detach"},
     op : {Nobody, "register", "create", "refresh", "delete", "reset"},
     caller : Ids \cup {0}, user : Ids \cup {0}, name : Names \cup {Nobody},
     pw : Passwords \cup {Nobody}, role : {"admin", "user"},
     tok : 0..MaxIssued, sid : 0..MaxIssued,
     active : SUBSET [sid : 1..MaxIssued, user : Ids, at : 0..MaxTime]]

\* The type invariant; a row of sessions or refresh_tokens always carries a
\* number that was generated, for an account that was created.
TypeOK ==
    /\ DOMAIN users \subseteq 1..lastId /\ users \in [DOMAIN users -> Row]
    /\ lastId \in 0..MaxUsers
    /\ sessions \subseteq [sid : 1..issued, user : 1..lastId, at : 0..now]
    /\ tokens \subseteq [tok : 1..issued, user : 1..lastId,
                         exp : RefreshLife..(now + RefreshLife)]
    /\ issued \in 0..MaxIssued
    /\ DOMAIN bearer \subseteq 1..lastId
    /\ bearer \in [DOMAIN bearer -> BearerLife..(now + BearerLife)]
    /\ attempts \in [count : Nat, start : -(Window + 1)..now]
    /\ req \in [Reqs -> Local]
    /\ cli \in [name : Names \cup {Nobody}, id : 0..lastId]
    /\ now \in 0..MaxTime

\* Deleting an account leaves its sessions and tokens behind, and requests of
\* its owner may still be running; a new account never inherits any of them.
NewAccountIsClean ==
    [][\A u \in DOMAIN users' \ DOMAIN users :
          /\ \A row \in sessions \cup tokens : row.user # u
          /\ u \notin DOMAIN bearer
          /\ \A r \in Reqs : u \notin {req[r].caller, req[r].user}
          /\ u # cli.id]_vars

\* A refresh token is spent before its successor exists: while a request is
\* issuing the pair it exchanged a token for, that token is in no row, also
\* when a twin request exchanges the same token or the server restarts.
ExchangedTokenIsDead ==
    \A r \in Reqs :
        req[r].op = "refresh" /\ req[r].pc \in {"prune", "list", "evict", "create", "save"}
        => \A t \in tokens : t.tok # req[r].tok

\* "Cannot delete your own account" (routes.py:262) is what keeps one
\* administrator: over the API, the last one is deleted only by a request
\* whose caller was itself deleted while the request was running.
LastAdminOnlyByCrossing ==
    [][Admins # {} /\ Admins' = {} =>
          \/ \E r \in Reqs : req[r].pc = "delete" /\ req[r].caller \notin DOMAIN users
          \/ req' = req]_vars

\* _issue_tokens lets an account exceed MAX_SESSIONS_PER_USER only when some
\* other request added a session after the list was read, or when the list
\* was already over the cap: one request at a time never exceeds it.
SessionExcessOnlyByOverlap ==
    [][\A r \in Reqs :
          LET mine == SessionsOf(req[r].user)
          IN  /\ req[r].pc = "create" /\ req'[r].pc = "save"
              /\ Cardinality(mine) >= MaxSessions
              => \/ ~(mine \subseteq req[r].active)
                 \/ Cardinality(req[r].active) > MaxSessions]_vars

\* The limiter tests its count before the password is read and raises it
\* after, so requests in flight overshoot it, by at most one each.
FailedLoginsBounded == attempts.count <= MaxFailed - 1 + Cardinality(Reqs)

-----------------------------------------------------------------------------
(* What the repository says and the code does not do *)

\* "Revoke all sessions for the current user (logout everywhere)"
\* (sessions.py:35): once it has answered, no refresh token signs the user in.
LogoutEverywhere ==
    [][\A r \in Reqs :
          req[r].pc = "clear" /\ sessions' # sessions =>
              \A t \in tokens' : t.user # req[r].caller]_vars
=============================================================================
