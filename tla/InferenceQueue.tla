--------------------------- MODULE InferenceQueue ---------------------------
(***************************************************************************)
(* The inference queue (queue_slot in api/core/queue.py): a bounded        *)
(* asyncio.Queue of tickets, then an asyncio.Lock under asyncio.timeout.   *)
(* One step is what a task does between two suspensions.  A task is only   *)
(* suspended while it waits for the lock and inside the caller's block.    *)
(*                                                                         *)
(* The lock is CPython's (3.11, external): release marks the first waiter  *)
(* and that task claims the lock when it runs next, unless the timeout     *)
(* cancelled it in between.                                                *)
(***************************************************************************)
EXTENDS Integers, Sequences, FiniteSets

CONSTANTS Reqs,          \* tasks that use queue_slot
          Nobody,
          MaxQueueSize   \* MAX_QUEUE_SIZE, 10

ASSUME QueueAssumption == MaxQueueSize \in Nat \ {0} /\ Nobody \notin Reqs

VARIABLES queue,    \* inference_queue, by the request that put the ticket
          locked,   \* the lock's _locked
          waiters,  \* the lock's _waiters, by the request that waits
          future,   \* of each waiting request: "pending", "set", "cancelled"
          pc        \* "idle", "waiting", "cancelled", "inside"

vars == <<queue, locked, waiters, future, pc>>

Init ==
    /\ queue = <<>>
    /\ locked = FALSE
    /\ waiters = <<>>
    /\ future = [r \in Reqs |-> "pending"]
    /\ pc = [r \in Reqs |-> "idle"]

-----------------------------------------------------------------------------
(* asyncio.Lock *)

\* _waiters.remove: the first place of r, and all behind it move up one
Without(r) ==
    LET k == CHOOSE i \in 1..Len(waiters) : waiters[i] = r
    IN  [i \in 1..Len(waiters) - 1 |-> IF i < k THEN waiters[i] ELSE waiters[i + 1]]

\* the futures after _wake_up_first of the waiters w
WakeUpFirst(w, f) ==
    IF w # <<>> /\ f[Head(w)] = "pending" THEN [f EXCEPT ![Head(w)] = "set"] ELSE f

\* Mutant: a newcomer takes a free lock although others wait for it.
MayBarge_unfair == ~locked

MayBarge == ~locked /\ \A i \in 1..Len(waiters) : future[waiters[i]] = "cancelled"

\* Mutant: a cancelled waiter does not pass its wake-up on.
PassOn_lost(r) == future' = [future EXCEPT ![r] = "pending"]

(* acquire cut short by a cancellation: a wake-up it got goes to the next *)
PassOn(r) ==
    future' = IF locked THEN [future EXCEPT ![r] = "pending"]
              ELSE WakeUpFirst(Without(r), [future EXCEPT ![r] = "pending"])

-----------------------------------------------------------------------------
(* queue_slot *)

\* Mutant: get_nowait only runs when the block was entered.
RemoveTicket_unlessTimedOut(r) ==
    queue' = IF pc[r] = "inside" THEN Tail(queue) ELSE queue

(* the finally clause: get_nowait takes the oldest ticket, whose ever it is *)
RemoveTicket(r) == queue' = IF queue = <<>> THEN queue ELSE Tail(queue)

\* Mutant: the capacity test lets one request too many in.
HasRoom_overfull == Len(queue) <= MaxQueueSize

HasRoom == Len(queue) < MaxQueueSize   \* not inference_queue.full()

(* put the ticket and try the lock; a full queue raises QueueFullError *)
Enter(r) ==
    /\ pc[r] = "idle"
    /\ HasRoom
    /\ queue' = Append(queue, r)
    /\ IF MayBarge
       THEN /\ locked' = TRUE
            /\ pc' = [pc EXCEPT ![r] = "inside"]
            /\ UNCHANGED <<waiters, future>>
       ELSE /\ waiters' = Append(waiters, r)
            /\ pc' = [pc EXCEPT ![r] = "waiting"]
            /\ UNCHANGED <<locked, future>>

(* the woken task claims the lock and yields its position *)
Claim(r) ==
    /\ pc[r] = "waiting" /\ future[r] = "set"
    /\ waiters' = Without(r)
    /\ future' = [future EXCEPT ![r] = "pending"]
    /\ locked' = TRUE
    /\ pc' = [pc EXCEPT ![r] = "inside"]
    /\ UNCHANGED queue

(* the same, but the clock has passed the deadline before the timer ran:   *)
(* TimeoutError inside the lock, which is released again                   *)
ClaimLate(r) ==
    /\ pc[r] = "waiting" /\ future[r] = "set"
    /\ waiters' = Without(r)
    /\ future' = WakeUpFirst(Without(r), [future EXCEPT ![r] = "pending"])
    /\ locked' = FALSE
    /\ pc' = [pc EXCEPT ![r] = "idle"]
    /\ RemoveTicket(r)

(* the timer of asyncio.timeout cancels the task; a future already set     *)
(* stays set                                                               *)
Timeout(r) ==
    /\ pc[r] = "waiting"
    /\ future' = IF future[r] = "set" THEN future
                 ELSE [future EXCEPT ![r] = "cancelled"]
    /\ pc' = [pc EXCEPT ![r] = "cancelled"]
    /\ UNCHANGED <<queue, locked, waiters>>

(* the cancelled task leaves acquire and raises TimeoutError *)
LeaveLine(r) ==
    /\ pc[r] = "cancelled"
    /\ waiters' = Without(r)
    /\ PassOn(r)
    /\ pc' = [pc EXCEPT ![r] = "idle"]
    /\ RemoveTicket(r)
    /\ UNCHANGED locked

(* the caller's block ends: it returns, fails, or is cancelled at the      *)
(* deadline; the lock is released and the first waiter marked              *)
Exit(r) ==
    /\ pc[r] = "inside"
    /\ locked' = FALSE
    /\ future' = WakeUpFirst(waiters, future)
    /\ pc' = [pc EXCEPT ![r] = "idle"]
    /\ RemoveTicket(r)
    /\ UNCHANGED waiters

Step(r) == Enter(r) \/ Claim(r) \/ ClaimLate(r) \/ Timeout(r) \/ LeaveLine(r) \/ Exit(r)

Next == \E r \in Reqs : Step(r)

\* The event loop runs every task that is ready, and asyncio.timeout ends
\* every block; nothing makes a caller come, or a waiter time out.
Fairness == \A r \in Reqs : WF_vars(Claim(r) \/ LeaveLine(r)) /\ WF_vars(Exit(r))

Spec == Init /\ [][Next]_vars /\ Fairness

-----------------------------------------------------------------------------
(* What the queue promises *)

Members(s) == {s[i] : i \in 1..Len(s)}

\* The type invariant; who is in the lock's list is exactly who waits for it.
TypeOK ==
    /\ queue \in Seq(Reqs) /\ Len(queue) <= MaxQueueSize
    /\ locked \in BOOLEAN
    /\ waiters \in Seq(Reqs)
    /\ Members(waiters) = {r \in Reqs : pc[r] \in {"waiting", "cancelled"}}
    /\ \A i, j \in 1..Len(waiters) : waiters[i] = waiters[j] => i = j
    /\ future \in [Reqs -> {"pending", "set", "cancelled"}]
    /\ pc \in [Reqs -> {"idle", "waiting", "cancelled", "inside"}]

\* Tickets are taken out by whoever leaves first, not by their owners, yet
\* never leak: the depth /health reports (health.py:89) and the admission
\* limit count exactly the requests that are waiting or inside.
DepthCountsRequests == Len(queue) = Cardinality({r \in Reqs : pc[r] # "idle"})

\* A wake-up is never lost: while the lock is free, the first in line is
\* marked or is a cancelled task that will pass the turn on.
WakeUpPending ==
    ~locked /\ waiters # <<>> => future[Head(waiters)] # "pending"

\* Every request that waits gets in or gives up, though no timer has to
\* fire and newcomers keep arriving.
EveryoneMovesOn == \A r \in Reqs : pc[r] = "waiting" ~> pc[r] # "waiting"

Before(q, r) ==
    \E i, j \in 1..Len(waiters) : i < j /\ waiters[i] = q /\ waiters[j] = r

Line == {r \in Reqs : pc[r] = "waiting"}

\* The queue implements the turnstile: a cancelled waiter has given up.
T == INSTANCE Turnstile WITH
       line <- Line,
       ahead <- {p \in Line \X Line : Before(p[1], p[2])},
       inside <- IF \E r \in Reqs : pc[r] = "inside"
                 THEN CHOOSE r \in Reqs : pc[r] = "inside" ELSE Nobody

\* In order of arrival, one at a time, and the line moves on.
ServesInOrder == T!Spec
=============================================================================
