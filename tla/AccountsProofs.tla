---------------------------- MODULE AccountsProofs ----------------------------
(***************************************************************************)
(* Proofs about accounts, sessions and refresh tokens, for any number of   *)
(* requests at once, any names and any limits and lifetimes.               *)
(***************************************************************************)
EXTENDS Accounts, FiniteSetTheorems, TLAPS

Issuing == {"prune", "list", "evict", "create", "save"}

(* TypeOK without the requests' locals. *)
WorldOK ==
    /\ DOMAIN users \subseteq 1..lastId /\ users \in [DOMAIN users -> Row]
    /\ lastId \in 0..MaxUsers
    /\ sessions \subseteq [sid : 1..issued, user : 1..lastId, at : 0..now]
    /\ tokens \subseteq [tok : 1..issued, user : 1..lastId,
                         exp : RefreshLife..(now + RefreshLife)]
    /\ issued \in 0..MaxIssued
    /\ DOMAIN bearer \subseteq 1..lastId
    /\ bearer \in [DOMAIN bearer -> BearerLife..(now + BearerLife)]
    /\ attempts \in [count : Nat, start : -(Window + 1)..now]
    /\ cli \in [name : Names \cup {Nobody}, id : 0..lastId]
    /\ now \in 0..MaxTime
    /\ IsFiniteSet(sessions)

(* What a request holds between two awaits, given the tables us and ss,    *)
(* the counters n and k and the time t: ids that were given out, what its  *)
(* next step takes for granted, and in "create" that the list it read was  *)
(* below the cap or has lost a session since.                              *)
LocalOK(l, us, ss, n, k, t) ==
    /\ l \in Local
    /\ l.caller <= n /\ l.user <= n
    /\ l.tok <= k /\ l.sid <= k
    /\ l.active \subseteq [sid : 1..k, user : 1..n, at : 0..t]
    /\ IsFiniteSet(l.active)
    /\ l.pc \in Issuing \cup {"consume"} => l.user # 0
    /\ l.pc = "save" => l.sid # 0
    /\ l.pc \in {"count", "name", "insert", "verify"} =>
          l.name \in Names /\ l.pw \in Passwords
    /\ l.pc = "target" => l.op \in {"delete", "reset"}
    /\ l.pc \in {"delete", "reset"} => l.op = l.pc
    /\ l.op = "reset" => l.pw \in Passwords
    /\ l.op = "delete" =>
          /\ l.caller # l.user
          /\ l.caller \in DOMAIN us => us[l.caller].role = "admin"
    /\ l.pc = "create" =>
          \/ Cardinality(l.active) < MaxSessions
          \/ \E s \in l.active : s \notin ss

LocalsOK ==
    \A r \in Reqs : LocalOK(req[r], users, sessions, lastId, issued, now)

(* The token a request is exchanging, and the number of the pair it is     *)
(* about to hand out.                                                      *)
Spends(l) == IF l.op = "refresh" /\ l.pc \in Issuing \cup {"consume"}
             THEN {l.tok} ELSE {}
Mints(l) == IF l.pc = "save" THEN {l.sid} ELSE {}

TokenNumbers == {t.tok : t \in tokens}

(* A number is in one place at a time: handed out by one request, in the   *)
(* table, or spent.                                                        *)
TokensOK ==
    /\ \A r, q \in Reqs : Spends(req[r]) \cap Mints(req[q]) = {}
    /\ \A r, q \in Reqs : r # q => Mints(req[r]) \cap Mints(req[q]) = {}
    /\ \A r \in Reqs : Mints(req[r]) \cap TokenNumbers = {}
    /\ \A r \in Reqs : req[r].pc \in Issuing => Spends(req[r]) \cap TokenNumbers = {}

(* Failures already counted, and the ones that requests in flight may add. *)
Verifying == {r \in Reqs : req[r].pc = "verify"}

LimiterOK ==
    attempts.count + Cardinality(Verifying) <= MaxFailed - 1 + Cardinality(Reqs)

\* The inductive invariant.
IInv == /\ WorldOK
        /\ req \in [Reqs -> Local]
        /\ LocalsOK
        /\ TokensOK
        /\ LimiterOK

(* What every step does to the tables: counters and clock only grow, an    *)
(* account keeps its role, and new rows carry new numbers.                 *)
Grows ==
    /\ lastId <= lastId' /\ issued <= issued' /\ now <= now'
    /\ \A u \in DOMAIN users' :
          u <= lastId => u \in DOMAIN users /\ users'[u].role = users[u].role
    /\ \A s \in sessions' : s \in sessions \/ s.sid > issued

-----------------------------------------------------------------------------
(* Frame lemmas *)

\* What a request holds stays right while other requests run.
LEMMA LocalKept ==
    ASSUME NEW l, NEW us, NEW ss, NEW n \in Nat, NEW k \in Nat, NEW t \in Nat,
           NEW us2, NEW ss2, NEW n2 \in Nat, NEW k2 \in Nat, NEW t2 \in Nat,
           n <= n2, k <= k2, t <= t2,
           \A u \in DOMAIN us2 :
              u <= n => u \in DOMAIN us /\ us2[u].role = us[u].role,
           \A s \in ss2 : s \in ss \/ s.sid > k,
           LocalOK(l, us, ss, n, k, t)
    PROVE  LocalOK(l, us2, ss2, n2, k2, t2)
<1>1. l.caller <= n2 /\ l.user <= n2 /\ l.tok <= k2 /\ l.sid <= k2
  BY AccountsAssumption DEF LocalOK, Local, Ids
<1>2. l.active \subseteq [sid : 1..k2, user : 1..n2, at : 0..t2]
  BY DEF LocalOK
<1>3. l.caller \in DOMAIN us2 /\ l.op = "delete" => us2[l.caller].role = "admin"
  BY DEF LocalOK
<1>4. \A s \in l.active : s \notin ss => s \notin ss2
  BY DEF LocalOK
<1> QED BY <1>1, <1>2, <1>3, <1>4 DEF LocalOK

LEMMA IdleLocal == Idle \in Local
BY AccountsAssumption DEF Idle, Local, Ids

\* A request that has ended holds nothing.
LEMMA IdleOK ==
    ASSUME NEW us, NEW ss, NEW n \in Nat, NEW k \in Nat, NEW t \in Nat
    PROVE  /\ LocalOK(Idle, us, ss, n, k, t)
           /\ Spends(Idle) = {} /\ Mints(Idle) = {} /\ Idle.pc = "idle"
BY IdleLocal, FS_EmptySet, AccountsAssumption
DEF LocalOK, Idle, Spends, Mints, Issuing

LEMMA WorldTypes ==
    ASSUME WorldOK
    PROVE  lastId \in Nat /\ issued \in Nat /\ now \in Nat
BY AccountsAssumption DEF WorldOK

\* The ids and numbers found in the tables were given out.
LEMMA KnownIds ==
    ASSUME WorldOK
    PROVE  /\ \A u \in DOMAIN users : u \in Ids /\ u \in 1..lastId
           /\ \A t \in tokens : /\ t.tok \in 0..MaxIssued /\ t.tok \in 1..issued
                                /\ t.user \in Ids /\ t.user \in 1..lastId
           /\ \A s \in sessions : /\ s.sid \in 0..MaxIssued /\ s.sid \in 1..issued
                                  /\ s.user \in Ids /\ s.user \in 1..lastId
                                  /\ s.at \in 0..MaxTime
                                  /\ s \in [sid : 1..MaxIssued, user : Ids, at : 0..MaxTime]
BY AccountsAssumption DEF WorldOK, Ids

\* One request steps to the locals l, the others keep theirs.
LEMMA LocalsStep ==
    ASSUME IInv, WorldOK', Grows, NEW r \in Reqs, NEW l,
           req' = [req EXCEPT ![r] = l],
           LocalOK(l, users', sessions', lastId', issued', now')
    PROVE  req' \in [Reqs -> Local] /\ LocalsOK'
<1>1. l \in Local
  BY DEF LocalOK
<1>2. req' \in [Reqs -> Local]
  BY <1>1 DEF IInv
<1>3. ASSUME NEW q \in Reqs
      PROVE  LocalOK(req'[q], users', sessions', lastId', issued', now')
  <2>1. CASE q = r
    BY <2>1 DEF IInv
  <2>2. CASE q # r
    <3>1. req'[q] = req[q] /\ LocalOK(req[q], users, sessions, lastId, issued, now)
      BY <2>2 DEF IInv, LocalsOK
    <3>2. lastId \in Nat /\ issued \in Nat /\ now \in Nat
      BY WorldTypes DEF IInv
    <3>3. lastId' \in Nat /\ issued' \in Nat /\ now' \in Nat
      BY AccountsAssumption DEF WorldOK
    <3>4. LocalOK(req[q], users', sessions', lastId', issued', now')
      BY <3>1, <3>2, <3>3, LocalKept DEF Grows
    <3> QED BY <3>1, <3>4
  <2> QED BY <2>1, <2>2
<1> QED BY <1>2, <1>3 DEF LocalsOK

\* No other request's locals change when the tables alone do.
LEMMA LocalsFrame ==
    ASSUME IInv, WorldOK', Grows, UNCHANGED req
    PROVE  req' \in [Reqs -> Local] /\ LocalsOK'
<1>1. lastId \in Nat /\ issued \in Nat /\ now \in Nat
  BY WorldTypes DEF IInv
<1>2. lastId' \in Nat /\ issued' \in Nat /\ now' \in Nat
  BY AccountsAssumption DEF WorldOK
<1>3. ASSUME NEW q \in Reqs
      PROVE  LocalOK(req[q], users', sessions', lastId', issued', now')
  BY <1>1, <1>2, LocalKept DEF Grows, IInv, LocalsOK
<1> QED BY <1>3 DEF IInv, LocalsOK

\* A step that hands out no number keeps each number in one place.
LEMMA TokensStep ==
    ASSUME IInv, NEW r \in Reqs, NEW l,
           req' = [req EXCEPT ![r] = l],
           tokens' \subseteq tokens,
           Mints(l) = {},
           Spends(l) \subseteq Spends(req[r]) \cup TokenNumbers,
           l.pc \in Issuing => Spends(l) \cap TokenNumbers' = {}
    PROVE  TokensOK'
<1>1. \A q \in Reqs : req'[q] = IF q = r THEN l ELSE req[q]
  BY DEF IInv
<1>2. TokenNumbers' \subseteq TokenNumbers
  BY DEF TokenNumbers
<1>3. \A p, q \in Reqs : Spends(req'[p]) \cap Mints(req'[q]) = {}
  BY <1>1 DEF IInv, TokensOK
<1>4. \A p, q \in Reqs : p # q => Mints(req'[p]) \cap Mints(req'[q]) = {}
  BY <1>1 DEF IInv, TokensOK
<1>5. \A q \in Reqs : Mints(req'[q]) \cap TokenNumbers' = {}
  BY <1>1, <1>2 DEF IInv, TokensOK
<1>6. \A q \in Reqs : req'[q].pc \in Issuing
                       => Spends(req'[q]) \cap TokenNumbers' = {}
  BY <1>1, <1>2 DEF IInv, TokensOK
<1> QED BY <1>3, <1>4, <1>5, <1>6 DEF TokensOK

LEMMA TokensFrame ==
    ASSUME IInv, UNCHANGED req, tokens' \subseteq tokens
    PROVE  TokensOK'
<1>1. TokenNumbers' \subseteq TokenNumbers
  BY DEF TokenNumbers
<1> QED BY <1>1 DEF IInv, TokensOK

\* The requests in flight are finitely many.
LEMMA VerifyingFinite ==
    IsFiniteSet(Verifying) /\ Cardinality(Verifying) \in Nat
    /\ Cardinality(Verifying) <= Cardinality(Reqs) /\ Cardinality(Reqs) \in Nat
<1>1. Verifying \subseteq Reqs
  BY DEF Verifying
<1> QED BY <1>1, FS_Subset, FS_CardinalityType, AccountsAssumption

\* A step that starts no password check and counts no failure.
LEMMA LimiterStep ==
    ASSUME IInv, NEW r \in Reqs, NEW l,
           req' = [req EXCEPT ![r] = l], l.pc # "verify", UNCHANGED attempts
    PROVE  LimiterOK'
<1>1. Verifying' \subseteq Verifying
  BY DEF Verifying, IInv
<1>2. Cardinality(Verifying') <= Cardinality(Verifying)
      /\ Cardinality(Verifying') \in Nat
  BY <1>1, VerifyingFinite, FS_Subset, FS_CardinalityType
<1>3. attempts.count \in Nat
  BY DEF IInv, WorldOK
<1> QED
  BY <1>2, <1>3, VerifyingFinite, AccountsAssumption DEF IInv, LimiterOK

LEMMA LimiterFrame ==
    ASSUME IInv, UNCHANGED <<req, attempts>>
    PROVE  LimiterOK'
BY DEF IInv, LimiterOK, Verifying

\* A step that changes the locals of one request and no table.
LEMMA QuietStep ==
    ASSUME IInv, NEW r \in Reqs, NEW l,
           req' = [req EXCEPT ![r] = l],
           UNCHANGED <<tables, bearer, attempts, cli, now>>,
           LocalOK(l, users, sessions, lastId, issued, now),
           Mints(l) = {}, l.pc # "verify",
           Spends(l) \subseteq Spends(req[r]) \cup TokenNumbers,
           l.pc \in Issuing => Spends(l) \cap TokenNumbers = {}
    PROVE  IInv'
<1>1. WorldOK'
  BY DEF IInv, WorldOK, tables
<1>2. Grows
  BY WorldTypes DEF Grows, IInv, tables
<1>3. req' \in [Reqs -> Local] /\ LocalsOK'
  <2>1. LocalOK(l, users', sessions', lastId', issued', now')
    BY DEF tables
  <2> QED BY <1>1, <1>2, <2>1, LocalsStep
<1>4. TokensOK'
  <2>1. tokens' \subseteq tokens /\ TokenNumbers' = TokenNumbers
    BY DEF tables, TokenNumbers
  <2> QED BY <2>1, TokensStep
<1>5. LimiterOK'
  BY LimiterStep
<1> QED BY <1>1, <1>3, <1>4, <1>5 DEF IInv

\* A request may end at any await.
LEMMA QuietEnd ==
    ASSUME IInv, NEW r \in Reqs, Respond(r),
           UNCHANGED <<tables, bearer, attempts, cli, now>>
    PROVE  IInv'
<1>1. lastId \in Nat /\ issued \in Nat /\ now \in Nat
  BY WorldTypes DEF IInv
<1>2. LocalOK(Idle, users, sessions, lastId, issued, now)
      /\ Spends(Idle) = {} /\ Mints(Idle) = {} /\ Idle.pc = "idle"
  BY <1>1, IdleOK
<1>3. req' = [req EXCEPT ![r] = Idle]
  BY DEF Respond
<1> HIDE DEF Idle
<1> QED BY <1>2, <1>3, QuietStep DEF Issuing

\* A step that ends a request and changes the tables, but hands out nothing.
LEMMA TableEnd ==
    ASSUME IInv, NEW r \in Reqs, Respond(r), WorldOK', Grows,
           tokens' \subseteq tokens, UNCHANGED attempts
    PROVE  IInv'
<1>1. lastId' \in Nat /\ issued' \in Nat /\ now' \in Nat
  BY AccountsAssumption DEF WorldOK
<1>2. LocalOK(Idle, users', sessions', lastId', issued', now')
      /\ Spends(Idle) = {} /\ Mints(Idle) = {} /\ Idle.pc = "idle"
  BY <1>1, IdleOK
<1>3. req' = [req EXCEPT ![r] = Idle]
  BY DEF Respond
<1> HIDE DEF Idle
<1>4. req' \in [Reqs -> Local] /\ LocalsOK'
  BY <1>2, <1>3, LocalsStep
<1>5. TokensOK'
  BY <1>2, <1>3, TokensStep DEF Issuing
<1>6. LimiterOK'
  BY <1>2, <1>3, LimiterStep
<1> QED BY <1>4, <1>5, <1>6 DEF IInv

-----------------------------------------------------------------------------
(* Requests that start: their locals are Idle with a few fields set *)

LEMMA RegisterStep ==
    ASSUME IInv, NEW r \in Reqs, NEW name \in Names, NEW pw \in Passwords,
           Register(r, name, pw)
    PROVE  IInv'
<1> DEFINE l == [Idle EXCEPT !.op = "register", !.name = name, !.pw = pw,
                           !.pc = "count"]
<1>1. req' = [req EXCEPT ![r] = l]
  BY DEF Register, Await, Idle
<1>2. LocalOK(l, users, sessions, lastId, issued, now)
  <2>1. l \in Local
    BY IdleLocal, KnownIds, AccountsAssumption DEF Register, Local, IInv, Admins
  <2> QED
    BY <2>1, FS_EmptySet, AccountsAssumption
    DEF Register, LocalOK, Idle, Issuing, IInv, WorldOK, Admins
<1>3. Mints(l) = {} /\ Spends(l) = {} /\ l.pc \notin Issuing \cup {"verify"}
  BY DEF Mints, Spends, Issuing, Idle
<1>4. UNCHANGED <<tables, bearer, attempts, cli, now>>
  BY DEF Register
<1> HIDE DEF l
<1> QED BY <1>1, <1>2, <1>3, <1>4, QuietStep

LEMMA LogoutStep ==
    ASSUME IInv, NEW r \in Reqs, NEW u \in DOMAIN users, NEW t \in tokens,
           Logout(r, u, t.tok)
    PROVE  IInv'
<1> DEFINE l == [Idle EXCEPT !.tok = t.tok, !.pc = "drop"]
<1>1. req' = [req EXCEPT ![r] = l]
  BY DEF Logout, Await, Idle
<1>2. LocalOK(l, users, sessions, lastId, issued, now)
  <2>1. l \in Local
    BY IdleLocal, KnownIds, AccountsAssumption DEF Logout, Local, IInv, Admins
  <2> QED
    BY <2>1, FS_EmptySet, AccountsAssumption
    DEF Logout, LocalOK, Idle, Issuing, IInv, WorldOK, Admins
<1>3. Mints(l) = {} /\ Spends(l) = {} /\ l.pc \notin Issuing \cup {"verify"}
  BY DEF Mints, Spends, Issuing, Idle
<1>4. UNCHANGED <<tables, bearer, attempts, cli, now>>
  BY DEF Logout
<1> HIDE DEF l
<1> QED BY <1>1, <1>2, <1>3, <1>4, QuietStep

LEMMA RevokeStep ==
    ASSUME IInv, NEW r \in Reqs, NEW u \in DOMAIN users, NEW s \in sessions,
           Revoke(r, u, s.sid)
    PROVE  IInv'
<1> DEFINE l == [Idle EXCEPT !.caller = u, !.sid = s.sid, !.pc = "own"]
<1>1. req' = [req EXCEPT ![r] = l]
  BY DEF Revoke, Await, Idle
<1>2. LocalOK(l, users, sessions, lastId, issued, now)
  <2>1. l \in Local
    BY IdleLocal, KnownIds, AccountsAssumption DEF Revoke, Local, IInv, Admins
  <2> QED
    BY <2>1, FS_EmptySet, AccountsAssumption
    DEF Revoke, LocalOK, Idle, Issuing, IInv, WorldOK, Admins
<1>3. Mints(l) = {} /\ Spends(l) = {} /\ l.pc \notin Issuing \cup {"verify"}
  BY DEF Mints, Spends, Issuing, Idle
<1>4. UNCHANGED <<tables, bearer, attempts, cli, now>>
  BY DEF Revoke
<1> HIDE DEF l
<1> QED BY <1>1, <1>2, <1>3, <1>4, QuietStep

LEMMA RevokeAllStep ==
    ASSUME IInv, NEW r \in Reqs, NEW u \in DOMAIN users,
           RevokeAll(r, u)
    PROVE  IInv'
<1> DEFINE l == [Idle EXCEPT !.caller = u, !.pc = "clear"]
<1>1. req' = [req EXCEPT ![r] = l]
  BY DEF RevokeAll, Await, Idle
<1>2. LocalOK(l, users, sessions, lastId, issued, now)
  <2>1. l \in Local
    BY IdleLocal, KnownIds, AccountsAssumption DEF RevokeAll, Local, IInv, Admins
  <2> QED
    BY <2>1, FS_EmptySet, AccountsAssumption
    DEF RevokeAll, LocalOK, Idle, Issuing, IInv, WorldOK, Admins
<1>3. Mints(l) = {} /\ Spends(l) = {} /\ l.pc \notin Issuing \cup {"verify"}
  BY DEF Mints, Spends, Issuing, Idle
<1>4. UNCHANGED <<tables, bearer, attempts, cli, now>>
  BY DEF RevokeAll
<1> HIDE DEF l
<1> QED BY <1>1, <1>2, <1>3, <1>4, QuietStep

LEMMA AdminCreateStep ==
    ASSUME IInv, NEW r \in Reqs, NEW u \in Admins, NEW name \in Names,
           NEW pw \in Passwords, NEW role \in {"admin", "user"},
           AdminCreate(r, u, name, pw, role)
    PROVE  IInv'
<1> DEFINE l == [Idle EXCEPT !.op = "create", !.name = name, !.pw = pw,
                           !.role = role, !.pc = "name"]
<1>1. req' = [req EXCEPT ![r] = l]
  BY DEF AdminCreate, Await, Idle
<1>2. LocalOK(l, users, sessions, lastId, issued, now)
  <2>1. l \in Local
    BY IdleLocal, KnownIds, AccountsAssumption DEF AdminCreate, Local, IInv, Admins
  <2> QED
    BY <2>1, FS_EmptySet, AccountsAssumption
    DEF AdminCreate, LocalOK, Idle, Issuing, IInv, WorldOK, Admins
<1>3. Mints(l) = {} /\ Spends(l) = {} /\ l.pc \notin Issuing \cup {"verify"}
  BY DEF Mints, Spends, Issuing, Idle
<1>4. UNCHANGED <<tables, bearer, attempts, cli, now>>
  BY DEF AdminCreate
<1> HIDE DEF l
<1> QED BY <1>1, <1>2, <1>3, <1>4, QuietStep

LEMMA AdminDeleteStep ==
    ASSUME IInv, NEW r \in Reqs, NEW u \in Admins, NEW target \in DOMAIN users,
           AdminDelete(r, u, target)
    PROVE  IInv'
<1> DEFINE l == [Idle EXCEPT !.op = "delete", !.caller = u, !.user = target,
                           !.pc = "target"]
<1>1. req' = [req EXCEPT ![r] = l]
  BY DEF AdminDelete, Await, Idle
<1>2. LocalOK(l, users, sessions, lastId, issued, now)
  <2>1. l \in Local
    BY IdleLocal, KnownIds, AccountsAssumption DEF AdminDelete, Local, IInv, Admins
  <2> QED
    BY <2>1, FS_EmptySet, AccountsAssumption
    DEF AdminDelete, LocalOK, Idle, Issuing, IInv, WorldOK, Admins
<1>3. Mints(l) = {} /\ Spends(l) = {} /\ l.pc \notin Issuing \cup {"verify"}
  BY DEF Mints, Spends, Issuing, Idle
<1>4. UNCHANGED <<tables, bearer, attempts, cli, now>>
  BY DEF AdminDelete
<1> HIDE DEF l
<1> QED BY <1>1, <1>2, <1>3, <1>4, QuietStep

LEMMA AdminResetStep ==
    ASSUME IInv, NEW r \in Reqs, NEW u \in Admins, NEW target \in DOMAIN users,
           NEW pw \in Passwords,
           AdminReset(r, u, target, pw)
    PROVE  IInv'
<1> DEFINE l == [Idle EXCEPT !.op = "reset", !.user = target, !.pw = pw,
                           !.pc = "target"]
<1>1. req' = [req EXCEPT ![r] = l]
  BY DEF AdminReset, Await, Idle
<1>2. LocalOK(l, users, sessions, lastId, issued, now)
  <2>1. l \in Local
    BY IdleLocal, KnownIds, AccountsAssumption DEF AdminReset, Local, IInv, Admins
  <2> QED
    BY <2>1, FS_EmptySet, AccountsAssumption
    DEF AdminReset, LocalOK, Idle, Issuing, IInv, WorldOK, Admins
<1>3. Mints(l) = {} /\ Spends(l) = {} /\ l.pc \notin Issuing \cup {"verify"}
  BY DEF Mints, Spends, Issuing, Idle
<1>4. UNCHANGED <<tables, bearer, attempts, cli, now>>
  BY DEF AdminReset
<1> HIDE DEF l
<1> QED BY <1>1, <1>2, <1>3, <1>4, QuietStep

-----------------------------------------------------------------------------
(* Requests that go on or end without touching a table *)

\* What the invariant says of one request.
LEMMA HeldLocals ==
    ASSUME IInv, NEW r \in Reqs
    PROVE  /\ req[r] \in Local
           /\ LocalOK(req[r], users, sessions, lastId, issued, now)
           /\ lastId \in Nat /\ issued \in Nat /\ now \in Nat
BY WorldTypes DEF IInv, LocalsOK

\* A request's locals with another list, number and place in the handler.
LEMMA LocalWith ==
    ASSUME NEW k \in Local,
           NEW S \in SUBSET [sid : 1..MaxIssued, user : Ids, at : 0..MaxTime]
    PROVE  /\ [k EXCEPT !.active = S, !.pc = "evict"] \in Local
           /\ [k EXCEPT !.active = S, !.pc = "create"] \in Local
           /\ \A n \in 0..MaxIssued :
                [k EXCEPT !.sid = n, !.active = S, !.pc = "save"] \in Local
<1> DEFINE P == {"idle", "prune", "list", "evict", "create", "save", "count", "name",
                 "insert", "verify", "consume", "drop", "own", "unlist", "clear",
                 "target", "delete", "reset", "detach"}
           O == {Nobody, "register", "create", "refresh", "delete", "reset"}
           I == Ids \cup {0}
           N == Names \cup {Nobody}
           W == Passwords \cup {Nobody}
           R == {"admin", "user"}
           T == 0..MaxIssued
           A == SUBSET [sid : 1..MaxIssued, user : Ids, at : 0..MaxTime]
           Fields == [pc : P, op : O, caller : I, user : I, name : N, pw : W, role : R,
                      tok : T, sid : T, active : A]
<1>1. {"evict", "create", "save"} \subseteq P /\ S \in A
  OBVIOUS
<1>2. Local = Fields
  BY DEF Local
<1>3. k \in Fields
  BY <1>2
<1> HIDE DEF P, O, I, N, W, R, T, A
<1>4. \A step \in P : [k EXCEPT !.active = S, !.pc = step] \in Fields
  BY <1>1, <1>3
<1>5. \A step \in P : \A n \in T : [k EXCEPT !.sid = n, !.active = S, !.pc = step] \in Fields
  BY <1>1, <1>3
<1>6. "evict" \in P /\ "create" \in P /\ "save" \in P
  BY <1>1
<1> HIDE DEF Fields
<1> QED  BY <1>2, <1>4, <1>5, <1>6, Zenon DEF T

LEMMA RefreshStep ==
    ASSUME IInv, NEW r \in Reqs, NEW t \in tokens, Refresh(r, t)
    PROVE  IInv'
<1>1. UNCHANGED <<tables, bearer, attempts, cli, now>>
  BY DEF Refresh
<1>2. CASE now > t.exp
  <2> DEFINE l == [Idle EXCEPT !.tok = t.tok, !.pc = "drop"]
  <2>1. req' = [req EXCEPT ![r] = l]
    BY <1>2 DEF Refresh, Await, Idle
  <2>2. LocalOK(l, users, sessions, lastId, issued, now)
    <3>1. l \in Local
      BY IdleLocal, KnownIds DEF Local, IInv
    <3> QED
      BY <3>1, FS_EmptySet, KnownIds, HeldLocals, AccountsAssumption
      DEF LocalOK, Idle, Issuing, IInv
  <2>3. Mints(l) = {} /\ Spends(l) = {} /\ l.pc \notin Issuing \cup {"verify"}
    BY DEF Mints, Spends, Issuing, Idle
  <2> HIDE DEF l
  <2> QED BY <1>1, <2>1, <2>2, <2>3, QuietStep
<1>3. CASE ~(now > t.exp)
  <2> DEFINE l == [Idle EXCEPT !.op = "refresh", !.user = t.user, !.tok = t.tok,
                               !.pc = "consume"]
  <2>1. req' = [req EXCEPT ![r] = l]
    BY <1>3 DEF Refresh, Await, Idle
  <2>2. LocalOK(l, users, sessions, lastId, issued, now)
    <3>1. l \in Local
      BY IdleLocal, KnownIds DEF Local, IInv
    <3> QED
      BY <3>1, FS_EmptySet, KnownIds, HeldLocals, AccountsAssumption
      DEF LocalOK, Idle, Issuing, IInv
  <2>3. Mints(l) = {} /\ l.pc \notin Issuing \cup {"verify"}
    BY DEF Mints, Issuing, Idle
  <2>4. Spends(l) \subseteq TokenNumbers
    BY DEF Spends, TokenNumbers, Idle
  <2> HIDE DEF l
  <2> QED BY <1>1, <2>1, <2>2, <2>3, <2>4, QuietStep
<1> QED BY <1>2, <1>3

LEMMA ListStep ==
    ASSUME IInv, NEW r \in Reqs, List(r)
    PROVE  IInv'
<1>9. UNCHANGED <<tables, bearer, attempts, cli, now>>
  BY DEF List
<1> DEFINE mine == SessionsOf(req[r].user)
<1>8. IsFiniteSet(mine) /\ mine \subseteq sessions
  BY FS_Subset DEF SessionsOf, IInv, WorldOK
<1>7. /\ mine \subseteq [sid : 1..issued, user : 1..lastId, at : 0..now]
      /\ mine \in SUBSET [sid : 1..MaxIssued, user : Ids, at : 0..MaxTime]
  BY <1>8, KnownIds DEF IInv, WorldOK
<1>6. Cardinality(mine) \in Nat
  BY <1>8, FS_CardinalityType
<1> HIDE DEF mine
<1>1. CASE Cardinality(mine) >= MaxSessions
  <2> DEFINE l == [req[r] EXCEPT !.active = mine, !.pc = "evict"]
  <2>1. req' = [req EXCEPT ![r] = l]
    BY <1>1 DEF List, Await, mine
  <2>2. LocalOK(l, users, sessions, lastId, issued, now)
    <3>1. l \in Local
      <4> DEFINE k == req[r]
      <4>1. k \in Local
        BY HeldLocals
      <4> HIDE DEF k
      <4>2. [k EXCEPT !.active = mine, !.pc = "evict"] \in Local
        BY <4>1, <1>7, KnownIds, LocalWith, Zenon
      <4> QED  BY <4>2 DEF k
    <3> QED
      BY <1>1, <3>1, HeldLocals, <1>7, <1>8 DEF LocalOK, Issuing, List
  <2>3. Mints(l) = {} /\ l.pc # "verify"
    BY <1>1, HeldLocals DEF Mints, Local, List
  <2>4. req[r].pc \in Issuing /\ Spends(l) = Spends(req[r])
    BY <1>1, HeldLocals DEF Spends, Issuing, Local, List
  <2>5. Spends(l) \cap TokenNumbers = {}
    BY <2>4 DEF IInv, TokensOK
  <2> HIDE DEF l
  <2> QED BY <2>1, <2>2, <2>3, <2>4, <2>5, <1>9, QuietStep
<1>2. CASE ~(Cardinality(mine) >= MaxSessions)
  <2> DEFINE l == [req[r] EXCEPT !.active = mine, !.pc = "create"]
  <2>1. req' = [req EXCEPT ![r] = l]
    BY <1>2 DEF List, Await, mine
  <2>2. LocalOK(l, users, sessions, lastId, issued, now)
    <3>1. l \in Local
      <4> DEFINE k == req[r]
      <4>1. k \in Local
        BY HeldLocals
      <4> HIDE DEF k
      <4>2. [k EXCEPT !.active = mine, !.pc = "create"] \in Local
        BY <4>1, <1>7, KnownIds, LocalWith, Zenon
      <4> QED  BY <4>2 DEF k
    <3> QED
      BY <1>2, <3>1, HeldLocals, <1>6, <1>7, <1>8, AccountsAssumption DEF LocalOK, Issuing, List
  <2>3. Mints(l) = {} /\ l.pc # "verify"
    BY <1>2, HeldLocals DEF Mints, Local, List
  <2>4. req[r].pc \in Issuing /\ Spends(l) = Spends(req[r])
    BY <1>2, HeldLocals DEF Spends, Issuing, Local, List
  <2>5. Spends(l) \cap TokenNumbers = {}
    BY <2>4 DEF IInv, TokensOK
  <2> HIDE DEF l
  <2> QED BY <2>1, <2>2, <2>3, <2>4, <2>5, <1>9, QuietStep
<1> QED BY <1>1, <1>2

LEMMA CountUsersStep ==
    ASSUME IInv, NEW r \in Reqs, CountUsers(r)
    PROVE  IInv'
<1>9. UNCHANGED <<tables, bearer, attempts, cli, now>>
  BY DEF CountUsers
<1> DEFINE role == IF DOMAIN users = {} THEN "admin" ELSE "user"
<1>8. role \in {"admin", "user"}
  OBVIOUS
<1> HIDE DEF role
<1> DEFINE l == [req[r] EXCEPT !.role = role, !.pc = "insert"]
<1>1. req' = [req EXCEPT ![r] = l]
  BY DEF CountUsers, Await, role
<1>2. LocalOK(l, users, sessions, lastId, issued, now)
  <2>1. l \in Local
    BY HeldLocals, <1>8 DEF Local
  <2> QED
    BY <2>1, HeldLocals, <1>8 DEF LocalOK, Issuing, CountUsers
<1>3. Mints(l) = {} /\ l.pc # "verify"
  BY HeldLocals DEF Mints, Local, CountUsers
<1>4. l.pc \notin Issuing /\ Spends(l) = {}
  BY HeldLocals DEF Spends, Issuing, Local, CountUsers
<1> HIDE DEF l
<1> QED BY <1>1, <1>2, <1>3, <1>4, <1>9, QuietStep

LEMMA CheckNameStep ==
    ASSUME IInv, NEW r \in Reqs, CheckName(r)
    PROVE  IInv'
<1>9. UNCHANGED <<tables, bearer, attempts, cli, now>>
  BY DEF CheckName
<1>1. CASE RowsNamed(req[r].name) = {}
  <2> DEFINE l == [req[r] EXCEPT !.pc = "insert"]
  <2>1. req' = [req EXCEPT ![r] = l]
    BY <1>1 DEF CheckName, Await
  <2>2. LocalOK(l, users, sessions, lastId, issued, now)
    <3>1. l \in Local
      BY HeldLocals DEF Local
    <3> QED
      BY <1>1, <3>1, HeldLocals DEF LocalOK, Issuing, CheckName
  <2>3. Mints(l) = {} /\ l.pc # "verify"
    BY <1>1, HeldLocals DEF Mints, Local, CheckName
  <2>4. l.pc \notin Issuing /\ Spends(l) = {}
    BY <1>1, HeldLocals DEF Spends, Issuing, Local, CheckName
  <2> HIDE DEF l
  <2> QED BY <2>1, <2>2, <2>3, <2>4, <1>9, QuietStep
<1>2. CASE ~(RowsNamed(req[r].name) = {})
  BY <1>2, <1>9, QuietEnd DEF CheckName
<1> QED BY <1>1, <1>2

LEMMA CheckOwnerStep ==
    ASSUME IInv, NEW r \in Reqs, CheckOwner(r)
    PROVE  IInv'
<1>9. UNCHANGED <<tables, bearer, attempts, cli, now>>
  BY DEF CheckOwner
<1>1. CASE \E s \in SessionsOf(req[r].caller) : s.sid = req[r].sid
  <2> DEFINE l == [req[r] EXCEPT !.pc = "unlist"]
  <2>1. req' = [req EXCEPT ![r] = l]
    BY <1>1 DEF CheckOwner, Await
  <2>2. LocalOK(l, users, sessions, lastId, issued, now)
    <3>1. l \in Local
      BY HeldLocals DEF Local
    <3> QED
      BY <1>1, <3>1, HeldLocals DEF LocalOK, Issuing, CheckOwner
  <2>3. Mints(l) = {} /\ l.pc # "verify"
    BY <1>1, HeldLocals DEF Mints, Local, CheckOwner
  <2>4. l.pc \notin Issuing /\ Spends(l) = {}
    BY <1>1, HeldLocals DEF Spends, Issuing, Local, CheckOwner
  <2> HIDE DEF l
  <2> QED BY <2>1, <2>2, <2>3, <2>4, <1>9, QuietStep
<1>2. CASE ~(\E s \in SessionsOf(req[r].caller) : s.sid = req[r].sid)
  BY <1>2, <1>9, QuietEnd DEF CheckOwner
<1> QED BY <1>1, <1>2

LEMMA FindTargetStep ==
    ASSUME IInv, NEW r \in Reqs, FindTarget(r)
    PROVE  IInv'
<1>8. req[r].op \in {"delete", "reset"}
  BY HeldLocals DEF FindTarget, LocalOK
<1>9. UNCHANGED <<tables, bearer, attempts, cli, now>>
  BY DEF FindTarget
<1>1. CASE req[r].user \in DOMAIN users
  <2> DEFINE l == [req[r] EXCEPT !.pc = req[r].op]
  <2>1. req' = [req EXCEPT ![r] = l]
    BY <1>1 DEF FindTarget, Await
  <2>2. LocalOK(l, users, sessions, lastId, issued, now)
    <3>1. l \in Local
      BY <1>8, HeldLocals DEF Local
    <3> QED
      BY <1>1, <3>1, <1>8, HeldLocals DEF LocalOK, Issuing, FindTarget
  <2>3. Mints(l) = {} /\ l.pc # "verify"
    BY <1>1, <1>8, HeldLocals DEF Mints, Local, FindTarget
  <2>4. l.pc \notin Issuing /\ Spends(l) = {}
    BY <1>1, <1>8, HeldLocals DEF Spends, Issuing, Local, FindTarget
  <2> HIDE DEF l
  <2> QED BY <2>1, <2>2, <2>3, <2>4, <1>9, QuietStep
<1>2. CASE ~(req[r].user \in DOMAIN users)
  BY <1>2, <1>9, QuietEnd DEF FindTarget
<1> QED BY <1>1, <1>2

LEMMA AbortStep ==
    ASSUME IInv, NEW r \in Reqs, Abort(r)
    PROVE  IInv'
BY QuietEnd DEF Abort

-----------------------------------------------------------------------------
(* Requests that change a table *)

\* A step that changes tables and goes on, but hands out nothing.
LEMMA TableStep ==
    ASSUME IInv, NEW r \in Reqs, NEW l,
           req' = [req EXCEPT ![r] = l],
           WorldOK', Grows, tokens' \subseteq tokens, UNCHANGED attempts,
           LocalOK(l, users', sessions', lastId', issued', now'),
           Mints(l) = {}, l.pc # "verify",
           Spends(l) \subseteq Spends(req[r]) \cup TokenNumbers,
           l.pc \in Issuing => Spends(l) \cap TokenNumbers' = {}
    PROVE  IInv'
<1>1. req' \in [Reqs -> Local] /\ LocalsOK'
  BY LocalsStep
<1>2. TokensOK'
  BY TokensStep
<1>3. LimiterOK'
  BY LimiterStep
<1> QED BY <1>1, <1>2, <1>3 DEF IInv

\* Sessions that go leave the tables as they should be.
LEMMA SessionsShrink ==
    ASSUME IInv, sessions' \subseteq sessions,
           UNCHANGED <<users, lastId, tokens, issued, bearer, attempts, cli, now>>
    PROVE  WorldOK' /\ Grows /\ TokenNumbers' = TokenNumbers
<1>1. IsFiniteSet(sessions')
  BY FS_Subset DEF IInv, WorldOK
<1>2. WorldOK'
  BY <1>1 DEF IInv, WorldOK
<1>3. Grows
  BY WorldTypes DEF IInv, Grows
<1> QED BY <1>2, <1>3 DEF TokenNumbers

LEMMA TokensShrink ==
    ASSUME IInv, tokens' \subseteq tokens,
           UNCHANGED <<users, lastId, sessions, issued, bearer, attempts, cli, now>>
    PROVE  WorldOK' /\ Grows
<1>1. WorldOK'
  BY DEF IInv, WorldOK
<1>2. Grows
  BY WorldTypes DEF IInv, Grows
<1> QED BY <1>1, <1>2

LEMMA PruneStep ==
    ASSUME IInv, NEW r \in Reqs, Prune(r)
    PROVE  IInv'
<1> DEFINE l == [req[r] EXCEPT !.pc = "list"]
<1>1. req' = [req EXCEPT ![r] = l] /\ req[r].pc = "prune"
  BY DEF Prune, Await
<1>2. WorldOK' /\ Grows /\ TokenNumbers' = TokenNumbers
  BY SessionsShrink DEF Prune
<1>3. LocalOK(l, users', sessions', lastId', issued', now')
  <2>1. l \in Local
    BY HeldLocals DEF Local
  <2> QED
    BY <1>1, <2>1, HeldLocals DEF LocalOK, Issuing, Prune
<1>4. Mints(l) = {} /\ l.pc # "verify" /\ Spends(l) = Spends(req[r])
  BY <1>1, HeldLocals DEF Mints, Spends, Issuing, Local
<1>5. Spends(req[r]) \cap TokenNumbers = {}
  BY <1>1 DEF IInv, TokensOK, Issuing
<1>6. tokens' \subseteq tokens /\ UNCHANGED attempts
  BY DEF Prune
<1> HIDE DEF l
<1> QED BY <1>1, <1>2, <1>3, <1>4, <1>5, <1>6, TableStep

LEMMA EvictStep ==
    ASSUME IInv, NEW r \in Reqs, Evict(r)
    PROVE  IInv'
<1> DEFINE l == [req[r] EXCEPT !.pc = "create"]
<1>1. req' = [req EXCEPT ![r] = l] /\ req[r].pc = "evict"
  BY DEF Evict, Await
<1>2. PICK oldest \in req[r].active : sessions' = sessions \ {oldest}
  BY DEF Evict
<1>3. WorldOK' /\ Grows /\ TokenNumbers' = TokenNumbers
  BY <1>2, SessionsShrink DEF Evict
<1>4. LocalOK(l, users', sessions', lastId', issued', now')
  <2>1. l \in Local
    BY HeldLocals DEF Local
  <2>2. oldest \in l.active /\ oldest \notin sessions'
    BY <1>2, HeldLocals DEF Local
  <2> QED
    BY <1>1, <2>1, <2>2, HeldLocals DEF LocalOK, Issuing, Evict
<1>5. Mints(l) = {} /\ l.pc # "verify" /\ Spends(l) = Spends(req[r])
  BY <1>1, HeldLocals DEF Mints, Spends, Issuing, Local
<1>6. Spends(req[r]) \cap TokenNumbers = {}
  BY <1>1 DEF IInv, TokensOK, Issuing
<1>7. tokens' \subseteq tokens /\ UNCHANGED attempts
  BY DEF Evict
<1> HIDE DEF l
<1> QED BY <1>1, <1>3, <1>4, <1>5, <1>6, <1>7, TableStep

LEMMA ConsumeTokenStep ==
    ASSUME IInv, NEW r \in Reqs, ConsumeToken(r)
    PROVE  IInv'
<1> DEFINE l == [req[r] EXCEPT !.pc = "prune"]
<1>1. req' = [req EXCEPT ![r] = l] /\ req[r].pc = "consume"
  BY DEF ConsumeToken, Await
<1>2. tokens' \subseteq tokens /\ UNCHANGED attempts
  BY DEF ConsumeToken
<1>3. WorldOK' /\ Grows
  BY <1>2, TokensShrink DEF ConsumeToken
<1>4. LocalOK(l, users', sessions', lastId', issued', now')
  <2>1. l \in Local
    BY HeldLocals DEF Local
  <2> QED
    BY <1>1, <2>1, HeldLocals DEF LocalOK, Issuing, ConsumeToken
<1>5. Mints(l) = {} /\ l.pc # "verify" /\ Spends(l) = Spends(req[r])
  BY <1>1, HeldLocals DEF Mints, Spends, Issuing, Local
<1>6. Spends(l) \cap TokenNumbers' = {}
  <2>1. Spends(l) \subseteq {req[r].tok}
    BY HeldLocals DEF Spends, Local
  <2>2. req[r].tok \notin TokenNumbers'
    BY DEF ConsumeToken, TokenNumbers
  <2> QED BY <2>1, <2>2
<1> HIDE DEF l
<1> QED BY <1>1, <1>2, <1>3, <1>4, <1>5, <1>6, TableStep

LEMMA DropTokenStep ==
    ASSUME IInv, NEW r \in Reqs, DropToken(r)
    PROVE  IInv'
<1>1. tokens' \subseteq tokens /\ UNCHANGED attempts
  BY DEF DropToken
<1>2. WorldOK' /\ Grows
  BY <1>1, TokensShrink DEF DropToken
<1> QED BY <1>1, <1>2, TableEnd DEF DropToken

LEMMA DetachTokensStep ==
    ASSUME IInv, NEW r \in Reqs, DetachTokens(r)
    PROVE  IInv'
<1>1. tokens' \subseteq tokens /\ UNCHANGED attempts
  BY DEF DetachTokens
<1>2. WorldOK' /\ Grows
  BY <1>1, TokensShrink DEF DetachTokens
<1> QED BY <1>1, <1>2, TableEnd DEF DetachTokens

LEMMA DeleteSessionStep ==
    ASSUME IInv, NEW r \in Reqs, DeleteSession(r)
    PROVE  IInv'
<1>1. WorldOK' /\ Grows
  BY SessionsShrink DEF DeleteSession
<1> QED BY <1>1, TableEnd DEF DeleteSession

LEMMA ClearSessionsStep ==
    ASSUME IInv, NEW r \in Reqs, ClearSessions(r)
    PROVE  IInv'
<1>1. WorldOK' /\ Grows
  BY SessionsShrink DEF ClearSessions
<1> QED BY <1>1, TableEnd DEF ClearSessions

-----------------------------------------------------------------------------
(* Changes of the table users *)

\* A row is added for the next id.
LEMMA AddUser ==
    ASSUME WorldOK, NewId \in Ids, lastId' = NewId,
           NEW row \in Row,
           users' = [u \in DOMAIN users \cup {NewId} |->
                       IF u = NewId THEN row ELSE users[u]],
           UNCHANGED <<sessions, tokens, issued, bearer, attempts, cli, now>>
    PROVE  WorldOK' /\ Grows
<1>1. lastId \in Nat /\ issued \in Nat /\ now \in Nat
  BY WorldTypes
<1>2. NewId = lastId + 1 /\ NewId \in 0..MaxUsers
  BY AccountsAssumption DEF NewId, Ids
<1>3. DOMAIN users \subseteq 1..lastId
  BY DEF WorldOK
<1>4. DOMAIN users' \subseteq 1..lastId'
  BY <1>1, <1>2, <1>3
<1>5. users' \in [DOMAIN users' -> Row]
  BY DEF WorldOK
<1>6. sessions' \subseteq [sid : 1..issued', user : 1..lastId', at : 0..now']
  BY <1>1, <1>2 DEF WorldOK
<1>7. tokens' \subseteq [tok : 1..issued', user : 1..lastId',
                         exp : RefreshLife..(now' + RefreshLife)]
  BY <1>1, <1>2 DEF WorldOK
<1>8. cli' \in [name : Names \cup {Nobody}, id : 0..lastId']
  BY <1>1, <1>2 DEF WorldOK
<1>9. DOMAIN bearer' \subseteq 1..lastId'
      /\ bearer' \in [DOMAIN bearer' -> BearerLife..(now' + BearerLife)]
  BY <1>1, <1>2 DEF WorldOK
<1>10. WorldOK'
  BY <1>2, <1>4, <1>5, <1>6, <1>7, <1>8, <1>9 DEF WorldOK
<1>11. Grows
  BY <1>1, <1>2, <1>3 DEF Grows
<1> QED BY <1>10, <1>11

\* Rows are removed, or change without changing their role.
LEMMA ChangeUsers ==
    ASSUME WorldOK, DOMAIN users' \subseteq DOMAIN users,
           users' \in [DOMAIN users' -> Row],
           \A u \in DOMAIN users' : users'[u].role = users[u].role,
           tokens' \subseteq tokens,
           cli' \in [name : Names \cup {Nobody}, id : 0..lastId],
           UNCHANGED <<lastId, sessions, issued, bearer, attempts, now>>
    PROVE  WorldOK' /\ Grows
<1>1. WorldOK'
  BY DEF WorldOK
<1>2. Grows
  BY WorldTypes DEF Grows
<1> QED BY <1>1, <1>2

LEMMA CreateUserStep ==
    ASSUME IInv, NEW r \in Reqs, CreateUser(r)
    PROVE  IInv'
<1>1. CASE RowsNamed(req[r].name) # {}
  <2>1. Respond(r) /\ UNCHANGED <<tables, bearer, attempts, cli, now>>
    BY <1>1 DEF CreateUser, tables
  <2> QED BY <2>1, QuietEnd
<1>2. CASE RowsNamed(req[r].name) = {}
  <2> DEFINE row == [name |-> req[r].name, pw |-> req[r].pw, role |-> req[r].role]
  <2>1. /\ NewId \in Ids /\ lastId' = NewId
        /\ users' = [u \in DOMAIN users \cup {NewId} |->
                       IF u = NewId THEN row ELSE users[u]]
        /\ UNCHANGED <<sessions, tokens, issued, bearer, attempts, cli, now>>
    BY <1>2 DEF CreateUser
  <2>2. row \in Row
    BY HeldLocals DEF CreateUser, LocalOK, Local, Row
  <2> HIDE DEF row
  <2>3. WorldOK' /\ Grows
    BY <2>1, <2>2, AddUser DEF IInv
  <2>4. tokens' \subseteq tokens /\ UNCHANGED attempts
    BY <2>1
  <2>5. CASE req[r].op # "register"
    <3>1. Respond(r)
      BY <1>2, <2>5 DEF CreateUser
    <3> QED BY <2>3, <2>4, <3>1, TableEnd
  <2>6. CASE req[r].op = "register"
    <3> DEFINE l == [Idle EXCEPT !.user = NewId, !.pc = "prune"]
    <3>1. req' = [req EXCEPT ![r] = l]
      BY <1>2, <2>6 DEF CreateUser, Await, Idle
    <3>2. LocalOK(l, users', sessions', lastId', issued', now')
      <4>1. l \in Local
        BY <2>1, IdleLocal DEF Local
      <4>2. lastId' \in Nat /\ issued' \in Nat /\ now' \in Nat
        BY <2>3, AccountsAssumption DEF WorldOK
      <4>3. NewId = lastId' /\ NewId # 0
        BY <2>1 DEF Ids
      <4> QED
        BY <4>1, <4>2, <4>3, FS_EmptySet, AccountsAssumption
        DEF LocalOK, Idle, Issuing
    <3>3. Mints(l) = {} /\ Spends(l) = {} /\ l.pc # "verify"
      BY AccountsAssumption DEF Mints, Spends, Idle
    <3> HIDE DEF l
    <3> QED BY <2>3, <2>4, <3>1, <3>2, <3>3, TableStep
  <2> QED BY <2>5, <2>6
<1> QED BY <1>1, <1>2

LEMMA DeleteUserStep ==
    ASSUME IInv, NEW r \in Reqs, DeleteUser(r)
    PROVE  IInv'
<1>1. DOMAIN users' \subseteq DOMAIN users
      /\ \A u \in DOMAIN users' : users'[u] = users[u]
  BY DEF DeleteUser
<1>2. users' \in [DOMAIN users' -> Row]
  BY DEF DeleteUser, IInv, WorldOK
<1>3. /\ cli' \in [name : Names \cup {Nobody}, id : 0..lastId]
      /\ tokens' \subseteq tokens
      /\ UNCHANGED <<lastId, sessions, issued, bearer, attempts, now>>
  BY DEF DeleteUser, IInv, WorldOK
<1>4. WorldOK' /\ Grows
  BY <1>1, <1>2, <1>3, ChangeUsers DEF IInv
<1> QED BY <1>3, <1>4, TableEnd DEF DeleteUser

LEMMA UpdatePasswordStep ==
    ASSUME IInv, NEW r \in Reqs, UpdatePassword(r)
    PROVE  IInv'
<1> DEFINE l == [req[r] EXCEPT !.pc = "detach"]
<1>1. req' = [req EXCEPT ![r] = l] /\ req[r].pc = "reset"
  BY DEF UpdatePassword, Await
<1>2. req[r].pw \in Passwords
  BY <1>1, HeldLocals DEF LocalOK
<1>3. DOMAIN users' = DOMAIN users
      /\ \A u \in DOMAIN users : /\ users'[u] \in Row
                                 /\ users'[u].role = users[u].role
  BY <1>2 DEF UpdatePassword, IInv, WorldOK, Row
<1>4. users' \in [DOMAIN users' -> Row]
  BY <1>3 DEF UpdatePassword
<1>5. /\ cli' \in [name : Names \cup {Nobody}, id : 0..lastId]
      /\ tokens' \subseteq tokens
      /\ UNCHANGED <<lastId, sessions, issued, bearer, attempts, now>>
  BY DEF UpdatePassword, IInv, WorldOK
<1>6. WorldOK' /\ Grows
  BY <1>3, <1>4, <1>5, ChangeUsers DEF IInv
<1>7. LocalOK(l, users', sessions', lastId', issued', now')
  <2>1. l \in Local
    BY HeldLocals DEF Local
  <2> QED
    BY <1>1, <1>3, <1>5, <2>1, HeldLocals DEF LocalOK, Issuing
<1>8. Mints(l) = {} /\ l.pc \notin Issuing \cup {"verify"} /\ Spends(l) = {}
  BY <1>1, HeldLocals DEF Mints, Spends, Issuing, Local
<1> HIDE DEF l
<1> QED BY <1>1, <1>5, <1>6, <1>7, <1>8, TableStep

-----------------------------------------------------------------------------
(* The pair handed out: a new number, then a row of refresh_tokens *)

LEMMA CreateSessionStep ==
    ASSUME IInv, NEW r \in Reqs, CreateSession(r)
    PROVE  IInv'
<1> DEFINE l == [req[r] EXCEPT !.sid = issued', !.active = {}, !.pc = "save"]
           row == [sid |-> issued', user |-> req[r].user, at |-> now]
<1>1. req' = [req EXCEPT ![r] = l] /\ req[r].pc = "create"
  BY DEF CreateSession, Await
<1>2. /\ issued \in Nat /\ lastId \in Nat /\ now \in Nat
      /\ issued' = issued + 1 /\ issued' \in 0..MaxIssued
  BY WorldTypes, AccountsAssumption DEF CreateSession, IInv, WorldOK
<1>3. req[r].user \in 1..lastId
  BY <1>1, <1>2, HeldLocals, AccountsAssumption DEF LocalOK, Local, Issuing, Ids
<1>4. sessions' = sessions \cup {row}
      /\ UNCHANGED <<users, lastId, tokens, bearer, attempts, cli, now>>
  BY DEF CreateSession
<1>5. row \in [sid : 1..issued', user : 1..lastId, at : 0..now]
      /\ row.sid > issued
  BY <1>2, <1>3
<1> HIDE DEF row
<1>6. WorldOK'
  <2>1. IsFiniteSet(sessions')
    BY <1>4, FS_AddElement DEF IInv, WorldOK
  <2>2. sessions' \subseteq [sid : 1..issued', user : 1..lastId, at : 0..now]
    BY <1>2, <1>4, <1>5 DEF IInv, WorldOK
  <2>3. tokens' \subseteq [tok : 1..issued', user : 1..lastId,
                           exp : RefreshLife..(now + RefreshLife)]
    BY <1>2, <1>4 DEF IInv, WorldOK
  <2> QED BY <1>2, <1>4, <2>1, <2>2, <2>3 DEF IInv, WorldOK
<1>7. Grows
  BY <1>2, <1>4, <1>5 DEF Grows
<1>8. LocalOK(l, users', sessions', lastId', issued', now')
  <2>1. l \in Local
    <3>1. {} \in SUBSET [sid : 1..MaxIssued, user : Ids, at : 0..MaxTime]
      OBVIOUS
    <3> QED  BY <1>2, <3>1, HeldLocals, LocalWith
  <2>2. /\ l.pc = "save" /\ l.sid = issued' /\ l.active = {}
        /\ l.op = req[r].op /\ l.caller = req[r].caller /\ l.user = req[r].user
        /\ l.tok = req[r].tok /\ l.pw = req[r].pw
    BY HeldLocals DEF Local
  <2>3. l.tok <= issued'
    BY <1>2, <2>2, HeldLocals, AccountsAssumption DEF LocalOK, Local
  <2>4. IsFiniteSet(l.active)
    BY <2>2, FS_EmptySet
  <2> QED
    BY <1>1, <1>2, <1>4, <2>1, <2>2, <2>3, <2>4, HeldLocals DEF LocalOK, Issuing
<1>9. req' \in [Reqs -> Local] /\ LocalsOK'
  BY <1>1, <1>6, <1>7, <1>8, LocalsStep
<1>10. Mints(l) = {issued'} /\ Spends(l) = Spends(req[r]) /\ l.pc = "save"
       /\ Spends(req[r]) \cap TokenNumbers = {}
  <2>1. l.pc = "save" /\ l.sid = issued' /\ l.op = req[r].op /\ l.tok = req[r].tok
    BY HeldLocals DEF Local
  <2>2. Spends(req[r]) \cap TokenNumbers = {}
    BY <1>1 DEF IInv, TokensOK, Issuing
  <2> QED BY <1>1, <2>1, <2>2 DEF Mints, Spends, Issuing
<1>11. issued' \notin TokenNumbers /\ TokenNumbers' = TokenNumbers
  BY <1>2, <1>4 DEF IInv, WorldOK, TokenNumbers
<1>12. \A q \in Reqs : issued' \notin Spends(req[q]) \cup Mints(req[q])
  <2> SUFFICES ASSUME NEW q \in Reqs
               PROVE  issued' \notin Spends(req[q]) \cup Mints(req[q])
    OBVIOUS
  <2>1. req[q].tok <= issued /\ req[q].sid <= issued
    BY HeldLocals DEF LocalOK
  <2> QED BY <1>2, <2>1 DEF Spends, Mints
<1>13. \A q \in Reqs : req'[q] = IF q = r THEN l ELSE req[q]
  BY <1>1 DEF IInv
<1> HIDE DEF l
<1>14. TokensOK'
  <2>1. \A p, q \in Reqs : Spends(req'[p]) \cap Mints(req'[q]) = {}
    BY <1>10, <1>12, <1>13 DEF IInv, TokensOK
  <2>2. \A p, q \in Reqs : p # q => Mints(req'[p]) \cap Mints(req'[q]) = {}
    BY <1>10, <1>12, <1>13 DEF IInv, TokensOK
  <2>3. \A q \in Reqs : Mints(req'[q]) \cap TokenNumbers' = {}
    BY <1>10, <1>11, <1>13 DEF IInv, TokensOK
  <2>4. \A q \in Reqs : req'[q].pc \in Issuing
                        => Spends(req'[q]) \cap TokenNumbers' = {}
    BY <1>10, <1>11, <1>13 DEF IInv, TokensOK
  <2> QED BY <2>1, <2>2, <2>3, <2>4 DEF TokensOK
<1>15. LimiterOK'
  BY <1>1, <1>4, <1>10, LimiterStep
<1> QED BY <1>6, <1>9, <1>14, <1>15 DEF IInv

LEMMA SaveTokenStep ==
    ASSUME IInv, NEW r \in Reqs, SaveToken(r)
    PROVE  IInv'
<1> DEFINE row == [tok |-> req[r].sid, user |-> req[r].user, exp |-> now + RefreshLife]
<1>1. req' = [req EXCEPT ![r] = Idle] /\ req[r].pc = "save"
  BY DEF SaveToken, Respond
<1>2. /\ issued \in Nat /\ lastId \in Nat /\ now \in Nat
      /\ RefreshLife \in Nat /\ BearerLife \in Nat
  BY WorldTypes, AccountsAssumption DEF IInv
<1>3. req[r].user \in 1..lastId /\ req[r].sid \in 1..issued
  BY <1>1, <1>2, HeldLocals, AccountsAssumption DEF LocalOK, Local, Issuing, Ids
<1>4. /\ tokens' = tokens \cup {row}
      /\ bearer' = [u \in DOMAIN bearer \cup {req[r].user} |->
                      IF u = req[r].user THEN now + BearerLife ELSE bearer[u]]
      /\ UNCHANGED <<users, lastId, sessions, issued, attempts, cli, now>>
  BY DEF SaveToken
<1>5. row \in [tok : 1..issued, user : 1..lastId,
               exp : RefreshLife..(now + RefreshLife)]
      /\ row.tok = req[r].sid
  BY <1>2, <1>3
<1> HIDE DEF row
<1>6. WorldOK'
  <2>1. DOMAIN bearer' \subseteq 1..lastId
        /\ bearer' \in [DOMAIN bearer' -> BearerLife..(now + BearerLife)]
    BY <1>2, <1>3, <1>4 DEF IInv, WorldOK
  <2>2. tokens' \subseteq [tok : 1..issued, user : 1..lastId,
                           exp : RefreshLife..(now + RefreshLife)]
    BY <1>4, <1>5 DEF IInv, WorldOK
  <2> QED BY <1>4, <2>1, <2>2 DEF IInv, WorldOK
<1>7. Grows
  BY <1>2, <1>4 DEF Grows
<1>8. /\ LocalOK(Idle, users', sessions', lastId', issued', now')
      /\ Spends(Idle) = {} /\ Mints(Idle) = {} /\ Idle.pc = "idle"
  BY <1>2, <1>4, IdleOK
<1> HIDE DEF Idle
<1>9. req' \in [Reqs -> Local] /\ LocalsOK'
  BY <1>1, <1>6, <1>7, <1>8, LocalsStep
<1>10. TokenNumbers' = TokenNumbers \cup {req[r].sid}
  BY <1>4, <1>5 DEF TokenNumbers
<1>11. Mints(req[r]) = {req[r].sid}
  BY <1>1 DEF Mints
<1>12. \A q \in Reqs : req'[q] = IF q = r THEN Idle ELSE req[q]
  BY <1>1 DEF IInv
<1>13. TokensOK'
  <2>1. \A p, q \in Reqs : Spends(req'[p]) \cap Mints(req'[q]) = {}
    BY <1>8, <1>12 DEF IInv, TokensOK
  <2>2. \A p, q \in Reqs : p # q => Mints(req'[p]) \cap Mints(req'[q]) = {}
    BY <1>8, <1>12 DEF IInv, TokensOK
  <2>3. \A q \in Reqs : Mints(req'[q]) \cap TokenNumbers' = {}
    BY <1>8, <1>10, <1>11, <1>12 DEF IInv, TokensOK
  <2>4. \A q \in Reqs : req'[q].pc \in Issuing
                        => Spends(req'[q]) \cap TokenNumbers' = {}
    BY <1>8, <1>10, <1>11, <1>12 DEF IInv, TokensOK
  <2> QED BY <2>1, <2>2, <2>3, <2>4 DEF TokensOK
<1>14. LimiterOK'
  BY <1>1, <1>4, <1>8, LimiterStep
<1> QED BY <1>6, <1>9, <1>13, <1>14 DEF IInv

-----------------------------------------------------------------------------
(* The limiter of login *)

\* Starting a new window never raises the count.
LEMMA RewoundCount ==
    ASSUME WorldOK
    PROVE  /\ Rewound \in [count : Nat, start : -(Window + 1)..now]
           /\ Rewound.count <= attempts.count
<1>1. attempts \in [count : Nat, start : -(Window + 1)..now]
      /\ now \in Nat /\ Window \in Nat
  BY WorldTypes, AccountsAssumption DEF WorldOK
<1> QED BY <1>1 DEF Rewound

\* The tables stay as they are when only the limiter's record changes.
LEMMA WorldRecords ==
    ASSUME WorldOK, attempts' \in [count : Nat, start : -(Window + 1)..now],
           UNCHANGED <<tables, bearer, cli, now>>
    PROVE  WorldOK' /\ Grows /\ tokens' \subseteq tokens /\ TokenNumbers' = TokenNumbers
<1>1. WorldOK'
  BY DEF WorldOK, tables
<1>2. Grows
  BY WorldTypes DEF Grows, tables
<1> QED BY <1>1, <1>2 DEF tables, TokenNumbers

LEMMA LoginStep ==
    ASSUME IInv, NEW r \in Reqs, NEW name \in Names, NEW pw \in Passwords,
           Login(r, name, pw)
    PROVE  IInv'
<1>1. attempts' = Rewound /\ UNCHANGED <<tables, bearer, cli, now>>
  BY DEF Login
<1>2. /\ Rewound \in [count : Nat, start : -(Window + 1)..now]
      /\ Rewound.count <= attempts.count
      /\ Rewound.count \in Nat /\ attempts.count \in Nat
  BY RewoundCount DEF IInv, WorldOK
<1>3. WorldOK' /\ Grows /\ tokens' \subseteq tokens /\ TokenNumbers' = TokenNumbers
  BY <1>1, <1>2, WorldRecords DEF IInv
<1>4. CASE Rewound.count >= MaxFailed
  <2>1. UNCHANGED req
    BY <1>4 DEF Login
  <2>2. req' \in [Reqs -> Local] /\ LocalsOK' /\ TokensOK'
    BY <1>3, <2>1, LocalsFrame, TokensFrame
  <2>3. Verifying' = Verifying
    BY <2>1 DEF Verifying
  <2>4. LimiterOK'
    BY <1>1, <1>2, <2>3, VerifyingFinite, AccountsAssumption DEF IInv, LimiterOK
  <2> QED BY <1>3, <2>2, <2>4 DEF IInv
<1>5. CASE ~(Rewound.count >= MaxFailed)
  <2> DEFINE l == [Idle EXCEPT !.name = name, !.pw = pw, !.pc = "verify"]
  <2>1. req' = [req EXCEPT ![r] = l]
    BY <1>5 DEF Login, Await, Idle
  <2>2. LocalOK(l, users', sessions', lastId', issued', now')
    <3>1. l \in Local
      BY IdleLocal DEF Local
    <3>2. lastId' \in Nat /\ issued' \in Nat /\ now' \in Nat
      BY <1>3, AccountsAssumption DEF WorldOK
    <3> QED BY <3>1, <3>2, FS_EmptySet, AccountsAssumption DEF LocalOK, Idle, Issuing
  <2>3. Mints(l) = {} /\ Spends(l) = {} /\ l.pc \notin Issuing
    BY AccountsAssumption DEF Mints, Spends, Idle, Issuing
  <2> HIDE DEF l
  <2>4. req' \in [Reqs -> Local] /\ LocalsOK'
    BY <1>3, <2>1, <2>2, LocalsStep
  <2>5. TokensOK'
    BY <1>3, <2>1, <2>3, TokensStep
  <2>6. /\ Cardinality(Verifying') <= Cardinality(Reqs)
        /\ Cardinality(Verifying') \in Nat /\ Cardinality(Reqs) \in Nat
    <3>1. Verifying' \subseteq Reqs
      BY DEF Verifying
    <3> QED BY <3>1, FS_Subset, FS_CardinalityType, AccountsAssumption
  <2>7. LimiterOK'
    BY <1>1, <1>2, <1>5, <2>6, AccountsAssumption DEF LimiterOK
  <2> QED BY <1>3, <2>4, <2>5, <2>7 DEF IInv
<1> QED BY <1>4, <1>5

LEMMA VerifyLoginStep ==
    ASSUME IInv, NEW r \in Reqs, VerifyLogin(r)
    PROVE  IInv'
<1>1. req[r].pc = "verify" /\ UNCHANGED <<tables, bearer, cli, now>>
  BY DEF VerifyLogin
<1>2. /\ Rewound \in [count : Nat, start : -(Window + 1)..now]
      /\ Rewound.count <= attempts.count
      /\ Rewound.count \in Nat /\ attempts.count \in Nat
  BY RewoundCount DEF IInv, WorldOK
<1>3. \* the check that ends is no longer in flight
      ASSUME NEW l, l.pc # "verify", req' = [req EXCEPT ![r] = l]
      PROVE  /\ Cardinality(Verifying') = Cardinality(Verifying) - 1
             /\ Cardinality(Verifying) \in Nat /\ Cardinality(Verifying') \in Nat
  <2>1. r \in Verifying
    BY <1>1 DEF Verifying
  <2>2. Verifying' = Verifying \ {r}
    BY <1>3 DEF Verifying, IInv
  <2>3. IsFiniteSet(Verifying)
    BY VerifyingFinite
  <2>4. IsFiniteSet(Verifying') /\ Cardinality(Verifying') = Cardinality(Verifying) - 1
    BY <2>1, <2>2, <2>3, FS_RemoveElement
  <2> QED BY <2>3, <2>4, FS_CardinalityType
<1>4. ASSUME NEW u \in RowsNamed(req[r].name), attempts' = NoRecord,
             Await(r, [Idle EXCEPT !.user = u], "prune")
      PROVE  IInv'
  <2> DEFINE l == [Idle EXCEPT !.user = u, !.pc = "prune"]
  <2>1. req' = [req EXCEPT ![r] = l]
    BY <1>4 DEF Await, Idle
  <2>2. u \in Ids /\ u \in 1..lastId
    BY KnownIds DEF RowsNamed, IInv
  <2>3. attempts' \in [count : Nat, start : -(Window + 1)..now] /\ attempts'.count = 0
    BY <1>4, WorldTypes, AccountsAssumption DEF NoRecord, IInv
  <2>4. WorldOK' /\ Grows /\ tokens' \subseteq tokens /\ TokenNumbers' = TokenNumbers
    BY <1>1, <2>3, WorldRecords DEF IInv
  <2>5. LocalOK(l, users', sessions', lastId', issued', now')
    <3>1. l \in Local
      BY <2>2, IdleLocal DEF Local
    <3>2. lastId' \in Nat /\ issued' \in Nat /\ now' \in Nat /\ lastId' = lastId
      BY <1>1, <2>4, AccountsAssumption DEF WorldOK, tables
    <3> QED
      BY <2>2, <3>1, <3>2, FS_EmptySet, AccountsAssumption DEF LocalOK, Idle, Issuing
  <2>6. Mints(l) = {} /\ Spends(l) = {} /\ l.pc # "verify"
    BY AccountsAssumption DEF Mints, Spends, Idle
  <2> HIDE DEF l
  <2>7. req' \in [Reqs -> Local] /\ LocalsOK'
    BY <2>1, <2>4, <2>5, LocalsStep
  <2>8. TokensOK'
    BY <2>1, <2>4, <2>6, TokensStep
  <2>9. LimiterOK'
    <3>1. /\ Cardinality(Verifying') = Cardinality(Verifying) - 1
          /\ Cardinality(Verifying) \in Nat
      BY <1>3, <2>1, <2>6
    <3> QED
      BY <1>2, <2>3, <3>1, VerifyingFinite, AccountsAssumption DEF IInv, LimiterOK
  <2> QED BY <2>4, <2>7, <2>8, <2>9 DEF IInv
<1>5. ASSUME attempts' = [Rewound EXCEPT !.count = @ + 1], Respond(r)
      PROVE  IInv'
  <2>1. req' = [req EXCEPT ![r] = Idle]
    BY <1>5 DEF Respond
  <2>2. attempts' \in [count : Nat, start : -(Window + 1)..now]
        /\ attempts'.count = Rewound.count + 1
    BY <1>2, <1>5
  <2>3. WorldOK' /\ Grows /\ tokens' \subseteq tokens /\ TokenNumbers' = TokenNumbers
    BY <1>1, <2>2, WorldRecords DEF IInv
  <2>4. /\ LocalOK(Idle, users', sessions', lastId', issued', now')
        /\ Spends(Idle) = {} /\ Mints(Idle) = {} /\ Idle.pc = "idle"
    <3>1. lastId' \in Nat /\ issued' \in Nat /\ now' \in Nat
      BY <2>3, AccountsAssumption DEF WorldOK
    <3> QED BY <3>1, IdleOK
  <2> HIDE DEF Idle
  <2>5. req' \in [Reqs -> Local] /\ LocalsOK'
    BY <2>1, <2>3, <2>4, LocalsStep
  <2>6. TokensOK'
    BY <2>1, <2>3, <2>4, TokensStep
  <2>7. LimiterOK'
    <3>1. /\ Cardinality(Verifying') = Cardinality(Verifying) - 1
          /\ Cardinality(Verifying) \in Nat
      BY <1>3, <2>1, <2>4
    <3> QED
      BY <1>2, <2>2, <3>1, VerifyingFinite, AccountsAssumption DEF IInv, LimiterOK
  <2> QED BY <2>3, <2>5, <2>6, <2>7 DEF IInv
<1> QED BY <1>4, <1>5 DEF VerifyLogin

-----------------------------------------------------------------------------
(* The command line client, the clock and a restart *)

\* A step of another process leaves every request where it was.
LEMMA OutsideStep ==
    ASSUME IInv, WorldOK', Grows, tokens' \subseteq tokens,
           UNCHANGED <<req, attempts>>
    PROVE  IInv'
BY LocalsFrame, TokensFrame, LimiterFrame DEF IInv

LEMMA CommandLineStep ==
    ASSUME IInv, CommandLine
    PROVE  IInv'
<1>1. ASSUME NEW name \in Names, NEW pw \in Passwords,
             NEW role \in {"admin", "user"}, cmd_users_create(name, pw, role)
      PROVE  IInv'
  <2> DEFINE row == [name |-> name, pw |-> pw, role |-> role]
  <2>1. /\ NewId \in Ids /\ lastId' = NewId
        /\ users' = [u \in DOMAIN users \cup {NewId} |->
                       IF u = NewId THEN row ELSE users[u]]
        /\ UNCHANGED <<sessions, tokens, issued, bearer, attempts, req, cli, now>>
    BY <1>1 DEF cmd_users_create
  <2>2. row \in Row
    BY DEF Row
  <2> HIDE DEF row
  <2>3. WorldOK' /\ Grows
    BY <2>1, <2>2, AddUser DEF IInv
  <2> QED BY <2>1, <2>3, OutsideStep
<1>2. ASSUME NEW name \in Names, cmd_users_delete(name)
      PROVE  IInv'
  <2>1. /\ DOMAIN users' \subseteq DOMAIN users
        /\ \A u \in DOMAIN users' : users'[u] = users[u]
        /\ users' \in [DOMAIN users' -> Row]
    BY <1>2 DEF cmd_users_delete, IInv, WorldOK
  <2>2. /\ cli' \in [name : Names \cup {Nobody}, id : 0..lastId]
        /\ UNCHANGED <<lastId, sessions, tokens, issued, bearer, attempts, req, now>>
    BY <1>2 DEF cmd_users_delete, IInv, WorldOK
  <2>3. WorldOK' /\ Grows
    BY <2>1, <2>2, ChangeUsers DEF IInv
  <2> QED BY <2>2, <2>3, OutsideStep
<1>3. ASSUME NEW u \in DOMAIN users, cmd_users_reset_password(u)
      PROVE  IInv'
  <2>1. cli' \in [name : Names \cup {Nobody}, id : 0..lastId]
    BY <1>3, WorldTypes, KnownIds DEF cmd_users_reset_password, IInv, WorldOK, Row
  <2>2. UNCHANGED <<users, lastId, sessions, tokens, issued, bearer, attempts, req, now>>
    BY <1>3 DEF cmd_users_reset_password, tables
  <2>3. WorldOK' /\ Grows
    BY <2>1, <2>2, ChangeUsers DEF IInv, WorldOK
  <2> QED BY <2>2, <2>3, OutsideStep
<1>4. ASSUME NEW pw \in Passwords, ResetByName(pw)
      PROVE  IInv'
  <2>1. /\ DOMAIN users' = DOMAIN users
        /\ \A u \in DOMAIN users : /\ users'[u] \in Row
                                   /\ users'[u].role = users[u].role
    BY <1>4 DEF ResetByName, IInv, WorldOK, Row
  <2>2. users' \in [DOMAIN users' -> Row]
    BY <1>4, <2>1 DEF ResetByName
  <2>3. /\ cli' \in [name : Names \cup {Nobody}, id : 0..lastId]
        /\ tokens' \subseteq tokens
        /\ UNCHANGED <<lastId, sessions, issued, bearer, attempts, req, now>>
    BY <1>4, WorldTypes DEF ResetByName, IInv
  <2>4. WorldOK' /\ Grows
    BY <2>1, <2>2, <2>3, ChangeUsers DEF IInv
  <2> QED BY <2>3, <2>4, OutsideStep
<1> QED BY <1>1, <1>2, <1>3, <1>4 DEF CommandLine

LEMMA TickStep ==
    ASSUME IInv, Tick
    PROVE  IInv'
<1>1. /\ now \in Nat /\ now' = now + 1 /\ now' \in 0..MaxTime
      /\ {RefreshLife, BearerLife, Window} \subseteq Nat
  BY WorldTypes, AccountsAssumption DEF Tick, IInv
<1>2. UNCHANGED <<users, lastId, sessions, tokens, issued, bearer, attempts, req, cli>>
  BY DEF Tick, tables
<1>3. WorldOK'
  <2>1. sessions' \subseteq [sid : 1..issued', user : 1..lastId', at : 0..now']
    BY <1>1, <1>2 DEF IInv, WorldOK
  <2>2. tokens' \subseteq [tok : 1..issued', user : 1..lastId',
                           exp : RefreshLife..(now' + RefreshLife)]
    BY <1>1, <1>2 DEF IInv, WorldOK
  <2>3. bearer' \in [DOMAIN bearer' -> BearerLife..(now' + BearerLife)]
    BY <1>1, <1>2 DEF IInv, WorldOK
  <2>4. attempts' \in [count : Nat, start : -(Window + 1)..now']
    BY <1>1, <1>2 DEF IInv, WorldOK
  <2> QED BY <1>1, <1>2, <2>1, <2>2, <2>3, <2>4 DEF IInv, WorldOK
<1>4. Grows
  BY <1>1, <1>2, WorldTypes DEF Grows, IInv
<1> QED BY <1>2, <1>3, <1>4, OutsideStep

LEMMA NoneInFlight ==
    ASSUME NEW f, f = [r \in Reqs |-> Idle]
    PROVE  Cardinality({r \in Reqs : f[r].pc = "verify"}) = 0
<1>1. {r \in Reqs : f[r].pc = "verify"} = {}
  BY DEF Idle
<1> QED BY <1>1, FS_EmptySet

LEMMA RestartStep ==
    ASSUME IInv, Restart
    PROVE  IInv'
<1>1. /\ req' = [r \in Reqs |-> Idle] /\ attempts' = NoRecord
      /\ UNCHANGED <<tables, bearer, cli, now>>
  BY DEF Restart
<1>2. attempts' \in [count : Nat, start : -(Window + 1)..now] /\ attempts'.count = 0
  BY <1>1, WorldTypes, AccountsAssumption DEF NoRecord, IInv
<1>3. WorldOK'
  BY <1>1, <1>2, WorldRecords DEF IInv
<1>4. /\ LocalOK(Idle, users', sessions', lastId', issued', now')
      /\ Spends(Idle) = {} /\ Mints(Idle) = {} /\ Idle.pc = "idle"
  <2>1. lastId' \in Nat /\ issued' \in Nat /\ now' \in Nat
    BY <1>3, AccountsAssumption DEF WorldOK
  <2> QED BY <2>1, IdleOK
<1>5. Cardinality(Verifying') = 0
  BY <1>1, NoneInFlight DEF Verifying
<1> HIDE DEF Idle
<1>6. req' \in [Reqs -> Local] /\ LocalsOK'
  BY <1>1, <1>4, IdleLocal DEF LocalsOK
<1>7. TokensOK'
  BY <1>1, <1>4 DEF TokensOK, Issuing
<1>8. LimiterOK'
  BY <1>2, <1>5, VerifyingFinite, AccountsAssumption DEF LimiterOK
<1> QED BY <1>3, <1>6, <1>7, <1>8 DEF IInv

-----------------------------------------------------------------------------
(* The invariant *)

LEMMA InitInvariant == Init => IInv
<1> SUFFICES ASSUME Init PROVE IInv
  OBVIOUS
<1>1. WorldOK
  <2>1. users = [u \in {} |-> Idle] /\ DOMAIN users = {}
    BY DEF Init
  <2>2. users \in [DOMAIN users -> Row]
    BY <2>1
  <2>3. bearer \in [DOMAIN bearer -> BearerLife..(now + BearerLife)]
        /\ DOMAIN bearer = {}
    BY DEF Init
  <2>4. attempts \in [count : Nat, start : -(Window + 1)..now]
    BY AccountsAssumption DEF Init, NoRecord
  <2>5. cli \in [name : Names \cup {Nobody}, id : 0..lastId]
    BY DEF Init
  <2> QED
    BY <2>1, <2>2, <2>3, <2>4, <2>5, FS_EmptySet, AccountsAssumption
    DEF Init, WorldOK
<1>2. req = [r \in Reqs |-> Idle] /\ attempts.count = 0 /\ tokens = {}
  BY DEF Init, NoRecord
<1>3. /\ LocalOK(Idle, users, sessions, lastId, issued, now)
      /\ Spends(Idle) = {} /\ Mints(Idle) = {} /\ Idle.pc = "idle"
  BY <1>1, WorldTypes, IdleOK
<1>4. Cardinality(Verifying) = 0
  BY <1>2, NoneInFlight DEF Verifying
<1> HIDE DEF Idle
<1>5. req \in [Reqs -> Local] /\ LocalsOK
  BY <1>2, <1>3, IdleLocal DEF LocalsOK
<1>6. TokensOK
  BY <1>2, <1>3 DEF TokensOK, Issuing
<1>7. LimiterOK
  BY <1>2, <1>4, VerifyingFinite, AccountsAssumption DEF LimiterOK
<1> QED BY <1>1, <1>5, <1>6, <1>7 DEF IInv

LEMMA HandlerStep ==
    ASSUME IInv, NEW r \in Reqs, Handler(r)
    PROVE  IInv'
<1>1. CASE Issue(r)
  BY <1>1, PruneStep, ListStep, EvictStep, CreateSessionStep, SaveTokenStep DEF Issue
<1>2. CASE SignUp(r)
  BY <1>2, RegisterStep, CountUsersStep, CheckNameStep, CreateUserStep DEF SignUp
<1>3. CASE SignIn(r)
  BY <1>3, LoginStep, VerifyLoginStep, RefreshStep, ConsumeTokenStep, DropTokenStep
  DEF SignIn
<1>4. CASE SignOut(r)
  BY <1>4, LogoutStep, RevokeStep, RevokeAllStep, CheckOwnerStep, DeleteSessionStep,
     ClearSessionsStep DEF SignOut
<1>5. CASE Administer(r)
  BY <1>5, AdminCreateStep, AdminDeleteStep, AdminResetStep, FindTargetStep,
     DeleteUserStep, UpdatePasswordStep, DetachTokensStep DEF Administer
<1>6. CASE Abort(r)
  BY <1>6, AbortStep
<1> QED BY <1>1, <1>2, <1>3, <1>4, <1>5, <1>6 DEF Handler

LEMMA NextInvariant == IInv /\ [Next]_vars => IInv'
<1> SUFFICES ASSUME IInv, [Next]_vars PROVE IInv'
  OBVIOUS
<1>1. CASE UNCHANGED vars
  <2>1. UNCHANGED <<users, lastId, sessions, tokens, issued, bearer, attempts, req, cli, now>>
    BY <1>1 DEF vars, tables
  <2>2. WorldOK' /\ Grows
    BY <2>1, ChangeUsers DEF IInv, WorldOK
  <2> QED BY <2>1, <2>2, OutsideStep
<1>2. CASE Next
  BY <1>2, HandlerStep, CommandLineStep, RestartStep, TickStep DEF Next
<1> QED BY <1>1, <1>2

\* Accounts, sessions and tokens keep IInv, whatever the requests, the
\* command line client, the clock and restarts do.
THEOREM AccountsInvariant == Spec => []IInv
<1> QED BY InitInvariant, NextInvariant, PTL DEF Spec

\* Rows and locals carry numbers that were given out: TypeOK always holds.
THEOREM AccountsTypeCorrect == Spec => []TypeOK
<1>1. IInv => TypeOK
  BY DEF IInv, WorldOK, TypeOK
<1> QED BY <1>1, AccountsInvariant, PTL

\* ExchangedTokenIsDead: no refresh token is left in the table while its
\* successor is being issued (refresh_token deletes it first).
THEOREM ExchangedTokensAreDead == Spec => []ExchangedTokenIsDead
<1>1. IInv => ExchangedTokenIsDead
  BY DEF IInv, TokensOK, ExchangedTokenIsDead, Issuing, Spends, TokenNumbers
<1> QED BY <1>1, AccountsInvariant, PTL

\* FailedLoginsBounded: check_login_rate_limit runs before the password is
\* read, so the count may pass the limit by one for each request in flight.
THEOREM FailuresAreBounded == Spec => []FailedLoginsBounded
<1>1. IInv => FailedLoginsBounded
  BY VerifyingFinite, AccountsAssumption
  DEF IInv, WorldOK, LimiterOK, FailedLoginsBounded
<1> QED BY <1>1, AccountsInvariant, PTL

-----------------------------------------------------------------------------
(* What no step may do *)

\* SessionExcessOnlyByOverlap: the list a request read was below the cap, or
\* a session of it is gone; either leaves room for the one it creates.
THEOREM ExcessNeedsOverlap == Spec => SessionExcessOnlyByOverlap
<1> DEFINE Excess(r) == LET mine == SessionsOf(req[r].user)
                        IN  /\ req[r].pc = "create" /\ req'[r].pc = "save"
                            /\ Cardinality(mine) >= MaxSessions
                            => \/ ~(mine \subseteq req[r].active)
                               \/ Cardinality(req[r].active) > MaxSessions
<1>1. ASSUME IInv, NEW r \in Reqs PROVE Excess(r)
  <2> DEFINE mine == SessionsOf(req[r].user)
             read == req[r].active
  <2> SUFFICES ASSUME req[r].pc = "create", Cardinality(mine) >= MaxSessions,
                      mine \subseteq read, ~(Cardinality(read) > MaxSessions)
               PROVE  FALSE
    OBVIOUS
  <2>1. IsFiniteSet(read) /\ (\/ Cardinality(read) < MaxSessions
                              \/ \E s \in read : s \notin sessions)
    BY <1>1, HeldLocals DEF LocalOK
  <2>2. mine \subseteq sessions
    BY DEF SessionsOf
  <2> HIDE DEF mine, read
  <2>3. /\ Cardinality(mine) <= Cardinality(read)
        /\ Cardinality(mine) = Cardinality(read) => mine = read
        /\ Cardinality(mine) \in Nat /\ Cardinality(read) \in Nat
    BY <2>1, FS_Subset, FS_CardinalityType
  <2>4. Cardinality(mine) # Cardinality(read)
    BY <2>1, <2>2, <2>3, AccountsAssumption
  <2> QED BY <2>3, <2>4, AccountsAssumption
<1>2. IInv => \A r \in Reqs : Excess(r)
  BY <1>1
<1> QED BY <1>2, AccountsInvariant, PTL DEF SessionExcessOnlyByOverlap

\* The steps that change the table users.
LEMMA UserSteps ==
    ASSUME [Next]_vars
    PROVE  \/ UNCHANGED users
           \/ \E r \in Reqs : CreateUser(r) \/ DeleteUser(r) \/ UpdatePassword(r)
           \/ CommandLine /\ UNCHANGED req
<1>1. CASE UNCHANGED vars
  BY <1>1 DEF vars, tables
<1>2. CASE Restart \/ Tick
  BY <1>2 DEF Restart, Tick, tables
<1>3. CASE CommandLine
  <2>1. UNCHANGED req
    BY <1>3 DEF CommandLine, cmd_users_create, cmd_users_delete,
       cmd_users_reset_password, ResetByName
  <2> QED BY <1>3, <2>1
<1>4. ASSUME NEW r \in Reqs, Handler(r)
      PROVE  UNCHANGED users \/ CreateUser(r) \/ DeleteUser(r) \/ UpdatePassword(r)
  <2>1. CASE Issue(r)
    BY <2>1 DEF Issue, Prune, List, Evict, CreateSession, SaveToken, tables
  <2>2. CASE SignUp(r)
    BY <2>2 DEF SignUp, Register, CountUsers, CheckName, tables
  <2>3. CASE SignIn(r)
    BY <2>3 DEF SignIn, Login, VerifyLogin, Refresh, ConsumeToken, DropToken, tables
  <2>4. CASE SignOut(r)
    BY <2>4 DEF SignOut, Logout, Revoke, RevokeAll, CheckOwner, DeleteSession,
       ClearSessions, tables
  <2>5. CASE Administer(r)
    BY <2>5 DEF Administer, AdminCreate, AdminDelete, AdminReset, FindTarget,
       DetachTokens, tables
  <2>6. CASE Abort(r)
    BY <2>6 DEF Abort, tables
  <2> QED BY <1>4, <2>1, <2>2, <2>3, <2>4, <2>5, <2>6 DEF Handler
<1> QED BY <1>1, <1>2, <1>3, <1>4 DEF Next

\* An account that appears has an id beyond all that were ever given out.
LEMMA FreshIds ==
    ASSUME IInv, [Next]_vars, NEW u \in DOMAIN users', u \notin DOMAIN users
    PROVE  u > lastId
<1>1. lastId \in Nat
  BY WorldTypes DEF IInv
<1>2. CASE UNCHANGED users
  BY <1>2
<1>3. ASSUME NEW r \in Reqs, CreateUser(r)
      PROVE  u > lastId
  BY <1>1, <1>3 DEF CreateUser, NewId
<1>4. ASSUME NEW r \in Reqs, DeleteUser(r) \/ UpdatePassword(r)
      PROVE  FALSE
  BY <1>4 DEF DeleteUser, UpdatePassword
<1>5. CASE CommandLine
  <2>1. ASSUME NEW name, NEW pw, NEW role, cmd_users_create(name, pw, role)
        PROVE  u > lastId
    BY <1>1, <2>1 DEF cmd_users_create, NewId
  <2>2. ASSUME NEW name, cmd_users_delete(name)
        PROVE  FALSE
    BY <2>2 DEF cmd_users_delete
  <2>3. ASSUME NEW v, cmd_users_reset_password(v)
        PROVE  FALSE
    BY <2>3 DEF cmd_users_reset_password, tables
  <2>4. ASSUME NEW pw, ResetByName(pw)
        PROVE  FALSE
    BY <2>4 DEF ResetByName
  <2> QED BY <1>5, <2>1, <2>2, <2>3, <2>4 DEF CommandLine
<1> QED BY <1>2, <1>3, <1>4, <1>5, UserSteps

\* NewAccountIsClean: users.id is AUTOINCREMENT, so a new account has an id
\* that no session, token, access token or request in flight can carry.
THEOREM NewAccountsAreClean == Spec => NewAccountIsClean
<1> DEFINE Clean(u) == /\ \A row \in sessions \cup tokens : row.user # u
                       /\ u \notin DOMAIN bearer
                       /\ \A r \in Reqs : u \notin {req[r].caller, req[r].user}
                       /\ u # cli.id
<1>1. ASSUME IInv, [Next]_vars, NEW u \in DOMAIN users' \ DOMAIN users
      PROVE  Clean(u)
  <2>1. u > lastId /\ lastId \in Nat
    BY <1>1, FreshIds, WorldTypes DEF IInv
  <2>2. u \in Nat
    <3>1. DOMAIN users' \subseteq 1..lastId' /\ lastId' \in Nat
      BY <1>1, NextInvariant, AccountsAssumption DEF IInv, WorldOK
    <3> QED BY <3>1
  <2>3. \A row \in sessions \cup tokens : row.user # u
    BY <1>1, <2>1, <2>2, KnownIds DEF IInv
  <2>4. u \notin DOMAIN bearer /\ u # cli.id
    BY <1>1, <2>1, <2>2 DEF IInv, WorldOK
  <2>5. ASSUME NEW r \in Reqs
        PROVE  u \notin {req[r].caller, req[r].user}
    BY <1>1, <2>1, <2>2, HeldLocals DEF LocalOK
  <2> QED BY <2>3, <2>4, <2>5
<1>2. IInv /\ [Next]_vars => [\A u \in DOMAIN users' \ DOMAIN users : Clean(u)]_vars
  BY <1>1
<1> QED BY <1>2, AccountsInvariant, PTL DEF Spec, NewAccountIsClean

\* LastAdminOnlyByCrossing: delete_user was asked for by an administrator
\* other than the target; while that one has its row, one remains.
THEOREM LastAdminNeedsCrossing == Spec => LastAdminOnlyByCrossing
<1> DEFINE Crossing == Admins # {} /\ Admins' = {} =>
              \/ \E r \in Reqs : req[r].pc = "delete" /\ req[r].caller \notin DOMAIN users
              \/ req' = req
<1>1. ASSUME IInv, [Next]_vars, Admins # {}, Admins' = {}, req' # req
      PROVE  \E r \in Reqs : req[r].pc = "delete" /\ req[r].caller \notin DOMAIN users
  <2>1. users' # users
    BY <1>1 DEF Admins
  <2>2. PICK a \in Admins : TRUE
    BY <1>1
  <2>3. ASSUME NEW r \in Reqs, CreateUser(r)
        PROVE  FALSE
    <3>1. NewId \notin DOMAIN users
      BY <1>1, WorldTypes DEF IInv, WorldOK, NewId
    <3>2. a \in DOMAIN users' /\ users'[a] = users[a]
      BY <2>2, <2>3, <3>1 DEF CreateUser, Admins
    <3> QED BY <1>1, <2>2, <3>2 DEF Admins
  <2>4. ASSUME NEW r \in Reqs, UpdatePassword(r)
        PROVE  FALSE
    <3>1. a \in DOMAIN users' /\ users'[a].role = users[a].role
      BY <1>1, <2>2, <2>4 DEF UpdatePassword, Admins, IInv, WorldOK, Row
    <3> QED BY <1>1, <2>2, <3>1 DEF Admins
  <2>5. ASSUME NEW r \in Reqs, DeleteUser(r)
        PROVE  req[r].pc = "delete" /\ req[r].caller \notin DOMAIN users
    <3>1. req[r].pc = "delete"
      BY <2>5 DEF DeleteUser
    <3>2. /\ req[r].caller # req[r].user
          /\ req[r].caller \in DOMAIN users => users[req[r].caller].role = "admin"
      BY <1>1, <3>1, HeldLocals DEF LocalOK
    <3>3. SUFFICES ASSUME req[r].caller \in DOMAIN users PROVE FALSE
      BY <3>1
    <3>4. req[r].caller \in Admins'
      BY <2>5, <3>2, <3>3 DEF DeleteUser, Admins
    <3> QED BY <1>1, <3>4
  <2> QED BY <1>1, <2>1, <2>3, <2>4, <2>5, UserSteps
<1>2. IInv /\ [Next]_vars => [Crossing]_vars
  BY <1>1
<1> QED BY <1>2, AccountsInvariant, PTL DEF Spec, LastAdminOnlyByCrossing
=============================================================================
