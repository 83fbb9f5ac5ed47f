----------------------------- MODULE Governance -----------------------------
(***************************************************************************)
(* The offline R12 governance ledger (scripts/r12_governance.py, twin of   *)
(* interop/r12-governance.mjs): operators sign inspection approvals and    *)
(* closures into a hash-linked chain, each command reading a ledger file   *)
(* and a retained checkpoint and writing a new ledger file and a new       *)
(* checkpoint file.  Files are never overwritten, so a command may start   *)
(* from any ledger and any checkpoint ever written, several operators may  *)
(* work at once, and a command may die between its two writes or in the    *)
(* middle of one: save_new opens the new file and streams JSON into it, so *)
(* a kill or a full disk leaves a file that ends early.  Nobody can read   *)
(* such a file: json.loads refuses it.                                     *)
(*                                                                         *)
(* SHA-256 is modelled as an injective constructor.  A signature is the    *)
(* signer's name in the entry: every entry here was signed by that key.    *)
(* What an enrollment id is computed from (envelope hash, issuer, key,     *)
(* model label, scope) is fixed by the envelope, so an id IS the envelope. *)
(***************************************************************************)
EXTENDS Naturals, Sequences, FiniteSets

CONSTANTS Envelopes,     \* R10 signed passports; also their enrollment ids
          Operators,     \* operator signing keys known to the trust store
          NoCheckpoint,  \* Python's None in place of a checkpoint
          SignedAt,      \* the signedAt claim of every envelope
          TrustStores,   \* operator trust stores the receiver may install
          PinStores,     \* R10 issuer pins it may install, as envelopes
          MaxLease,      \* 168 hours
          MaxEvents,     \* MAX_EVENTS, 128
          CompactBytes(_), \* length of a ledger as verify_ledger measures it
          FileBytes(_),  \* length of its file: indented, and escaped to ASCII
          MaxBytes,      \* MAX_BYTES, 192,000: the limit of both
          MaxTime,       \* bound of the model: last instant of the clock
          MaxFiles       \* bound of the model: ledger files ever written

ASSUME GovernanceAssumption ==
    /\ SignedAt \in [Envelopes -> Nat]
    /\ TrustStores \subseteq SUBSET Operators
    /\ PinStores \subseteq SUBSET Envelopes
    /\ MaxLease \in Nat \ {0}
    /\ MaxEvents \in Nat
    /\ CompactBytes(<<>>) <= MaxBytes
    /\ FileBytes(<<>>) <= MaxBytes
    /\ MaxTime \in Nat
    /\ MaxFiles \in Nat

VARIABLES ledgerFiles,  \* ledger files on disk
          headFiles,    \* checkpoint files on disk
          cli,      \* the command each operator is running
          trust,    \* operators active in the operator trust store
          pinned,   \* envelopes whose issuer key is active in the R10 store
          now       \* the wall clock the commands read

vars == <<ledgerFiles, headFiles, cli, trust, pinned, now>>

\* A file that was written to its end, and one whose writing was cut off.
Whole(content) == [whole |-> TRUE, content |-> content]
CutOff == [whole |-> FALSE]

Parsed(files) == {f.content : f \in {g \in files : g.whole}}

\* The histories and the checkpoints that can be had from the disk.
ledgers == Parsed(ledgerFiles)
heads == Parsed(headFiles)

-----------------------------------------------------------------------------
(* Entries, hashes, checkpoints *)

Approve == "APPROVE_INSPECTION"
Closures == {"REVOKE_INSPECTION", "EXPIRE_INSPECTION"}
NoLease == 0           \* expiresAt of a closure: null

sha(entry) == <<entry>>
GENESIS == <<>>

\* Mutant: the replay reports the hash its last entry links to.
HeadHash_lagging(L) == IF L = <<>> THEN GENESIS ELSE L[Len(L)].prevHash

HeadHash(L) == IF L = <<>> THEN GENESIS ELSE sha(L[Len(L)])

CheckpointOf(L) == [count |-> Len(L), headHash |-> HeadHash(L)]

new_entry(kind, id, at, expires, o, L) ==
    [seq |-> Len(L) + 1, prevHash |-> HeadHash(L), type |-> kind, id |-> id,
     op |-> o, at |-> at, expiresAt |-> expires]

-----------------------------------------------------------------------------
(* verify_ledger: the replay of a chain, entry by entry.  The dictionary   *)
(* "states" after n entries holds, for each id, the approval that is the   *)
(* latest among them and whether a closure came after it.                  *)

Latest(L, a, n, id) ==
    /\ a \in 1..n /\ L[a].type = Approve /\ L[a].id = id
    /\ \A j \in (a+1)..n : ~(L[j].type = Approve /\ L[j].id = id)

ClosedAfter(L, a, n, id) ==
    \E j \in (a+1)..n : L[j].type \in Closures /\ L[j].id = id

\* Mutant: an id may be approved again once its approval is closed.
MayApprove_reopens(L, i) ==
    /\ L[i].at < L[i].expiresAt
    /\ L[i].expiresAt <= L[i].at + MaxLease
    /\ \A a \in 1..(i-1) :
          Latest(L, a, i-1, L[i].id) => ClosedAfter(L, a, i-1, L[i].id)

\* Mutant: an id may be approved again while its approval is open.
MayApprove_renews(L, i) ==
    /\ L[i].at < L[i].expiresAt
    /\ L[i].expiresAt <= L[i].at + MaxLease
    /\ \A j \in 1..(i-1) : ~(L[j].type \in Closures /\ L[j].id = L[i].id)

MayApprove(L, i) ==
    /\ L[i].expiresAt # NoLease
    /\ L[i].at < L[i].expiresAt
    /\ L[i].expiresAt <= L[i].at + MaxLease
    /\ \A j \in 1..(i-1) : ~(L[j].type = Approve /\ L[j].id = L[i].id)

MayClose(L, i) ==
    /\ L[i].expiresAt = NoLease
    /\ \E a \in 1..(i-1) :
          /\ Latest(L, a, i-1, L[i].id)
          /\ ~ClosedAfter(L, a, i-1, L[i].id)
          /\ L[i].type = "EXPIRE_INSPECTION" => L[a].expiresAt <= L[i].at

Linked(L, i) ==
    /\ L[i].seq = i
    /\ L[i].prevHash = IF i = 1 THEN GENESIS ELSE sha(L[i-1])

ClockOrdered(L, i) == i > 1 => L[i-1].at <= L[i].at

Transition(L, i) ==
    \/ L[i].type = Approve /\ MayApprove(L, i)
    \/ L[i].type \in Closures /\ MayClose(L, i)

ChainValid(L, T) ==
    /\ Len(L) <= MaxEvents
    /\ CompactBytes(L) <= MaxBytes
    /\ \A i \in 1..Len(L) : /\ Linked(L, i)
                            /\ ClockOrdered(L, i)
                            /\ L[i].op \in T
                            /\ Transition(L, i)

\* Mutant: the generated chain is written without being replayed first.
Generated_unchecked(L) == TRUE

\* the self-check of append_approval and append_closure on their own output
Generated(L) == ChainValid(L, trust)

\* None has none of the fields of a checkpoint, so it matches no ledger
checkpoint_matches(c, L) == c = CheckpointOf(L)

(* evaluate: the conditions under which a check reports reviewApproved *)
ReviewApproved(env, L, c) ==
    /\ checkpoint_matches(c, L)
    /\ env \in pinned
    /\ ChainValid(L, trust)
    /\ \E a \in 1..Len(L) : /\ Latest(L, a, Len(L), env)
                            /\ ~ClosedAfter(L, a, Len(L), env)
                            /\ L[a].at <= now
                            /\ now < L[a].expiresAt

-----------------------------------------------------------------------------
(* A command: "idle", then its new ledger is "computed" in memory, then    *)
(* the ledger is "saved" and only the checkpoint is left to write.         *)

Idle == [pc |-> "idle"]

\* read_json(ledger_path, MAX_BYTES) looks at the length of the file
Readable == {L \in ledgers : FileBytes(L) <= MaxBytes}

Init ==
    /\ ledgerFiles = {Whole(<<>>)}
    /\ headFiles = {Whole(CheckpointOf(<<>>))}
    /\ cli = [o \in Operators |-> Idle]
    /\ trust = Operators
    /\ pinned = Envelopes
    /\ now = 0

(* append_approval; main re-reads the trust store before it writes *)
AppendApproval(o, env, L, c, lease) ==
    LET updated == Append(L, new_entry(Approve, env, now, now + lease, o, L))
    IN  /\ cli[o] = Idle
        /\ Cardinality(ledgerFiles) < MaxFiles \* bound of the model
        /\ c = NoCheckpoint \/ checkpoint_matches(c, L)
        /\ L # <<>> => c # NoCheckpoint
        /\ SignedAt[env] <= now
        /\ now + lease <= MaxTime          \* bound of the model
        /\ env \in pinned
        /\ o \in trust
        /\ ChainValid(L, trust)
        /\ Generated(updated)
        /\ cli' = [cli EXCEPT ![o] = [pc |-> "computed", ledger |-> updated,
                                      rereads |-> TRUE, trust |-> trust]]
        /\ UNCHANGED <<ledgerFiles, headFiles, trust, pinned, now>>

(* append_closure *)
AppendClosure(o, kind, id, L, c) ==
    LET updated == Append(L, new_entry(kind, id, now, NoLease, o, L))
    IN  /\ cli[o] = Idle
        /\ Cardinality(ledgerFiles) < MaxFiles \* bound of the model
        /\ checkpoint_matches(c, L)
        /\ ChainValid(L, trust)
        /\ \E a \in 1..Len(L) : /\ Latest(L, a, Len(L), id)
                                /\ ~ClosedAfter(L, a, Len(L), id)
        /\ o \in trust
        /\ Generated(updated)
        /\ cli' = [cli EXCEPT ![o] = [pc |-> "computed", ledger |-> updated,
                                      rereads |-> FALSE, trust |-> trust]]
        /\ UNCHANGED <<ledgerFiles, headFiles, trust, pinned, now>>

LedgerSaved(o) ==
    [pc |-> "saved", ledger |-> cli[o].ledger, rereads |-> FALSE,
     trust |-> IF cli[o].rereads THEN trust ELSE cli[o].trust]

\* Mutant: the two output files are written in the other order.
SaveLedger_headFirst(o) ==
    /\ cli[o].pc = "computed"
    /\ headFiles' = headFiles \cup {Whole(CheckpointOf(cli[o].ledger))}
    /\ cli' = [cli EXCEPT ![o] = LedgerSaved(o)]
    /\ UNCHANGED <<ledgerFiles, trust, pinned, now>>

\* Mutant: a failed write of the ledger does not keep main from going on.
SaveLedger_goesOn(o) ==
    /\ cli[o].pc = "computed"
    /\ \E file \in {Whole(cli[o].ledger), CutOff} :
          ledgerFiles' = ledgerFiles \cup {file}
    /\ cli' = [cli EXCEPT ![o] = LedgerSaved(o)]
    /\ UNCHANGED <<headFiles, trust, pinned, now>>

(* save_new(out_ledger, next_): the file is written to its end and main    *)
(* goes on, or the write is cut off, by an error or with the process.      *)
SaveLedger(o) ==
    /\ cli[o].pc = "computed"
    /\ Cardinality(ledgerFiles) < MaxFiles
    /\ \/ /\ ledgerFiles' = ledgerFiles \cup {Whole(cli[o].ledger)}
          /\ cli' = [cli EXCEPT ![o] = LedgerSaved(o)]
       \/ /\ ledgerFiles' = ledgerFiles \cup {CutOff}
          /\ cli' = [cli EXCEPT ![o] = Idle]
    /\ UNCHANGED <<headFiles, trust, pinned, now>>

(* save_new(out_head, create_checkpoint(next_, trust)): the checkpoint is  *)
(* refused when the store read just before no longer pins a signer, or     *)
(* else written, to its end or not.                                        *)
SaveHead(o) ==
    /\ cli[o].pc = "saved"
    /\ IF ChainValid(cli[o].ledger, cli[o].trust)
       THEN \E file \in {Whole(CheckpointOf(cli[o].ledger)), CutOff} :
               headFiles' = headFiles \cup {file}
       ELSE headFiles' = headFiles
    /\ cli' = [cli EXCEPT ![o] = Idle]
    /\ UNCHANGED <<ledgerFiles, trust, pinned, now>>

(* the command ends before its next file is opened: killed, refused by a   *)
(* name that exists or a missing directory, or reading the trust store     *)
(* again fails.  What is on disk stays.                                    *)
Abort(o) ==
    /\ cli[o] # Idle
    /\ cli' = [cli EXCEPT ![o] = Idle]
    /\ UNCHANGED <<ledgerFiles, headFiles, trust, pinned, now>>

-----------------------------------------------------------------------------
(* What the receiver's own administration and the machine's clock do *)

EditTrust(T) ==
    /\ trust' = T
    /\ UNCHANGED <<ledgerFiles, headFiles, cli, pinned, now>>

EditPins(P) ==
    /\ pinned' = P
    /\ UNCHANGED <<ledgerFiles, headFiles, cli, trust, now>>

Tick ==
    /\ now < MaxTime
    /\ now' = now + 1
    /\ UNCHANGED <<ledgerFiles, headFiles, cli, trust, pinned>>

SetBack ==
    /\ now > 0
    /\ now' = now - 1
    /\ UNCHANGED <<ledgerFiles, headFiles, cli, trust, pinned>>

Command(o) ==
    \/ \E env \in Envelopes, L \in Readable,
          c \in heads \cup {NoCheckpoint}, lease \in 1..MaxLease : AppendApproval(o, env, L, c, lease)
    \/ \E kind \in Closures, id \in Envelopes, L \in Readable,
          c \in heads : AppendClosure(o, kind, id, L, c)
    \/ SaveLedger(o)
    \/ SaveHead(o)
    \/ Abort(o)

Next ==
    \/ \E o \in Operators : Command(o)
    \/ \E T \in TrustStores : EditTrust(T)
    \/ \E P \in PinStores : EditPins(P)
    \/ Tick
    \/ SetBack

Spec == Init /\ [][Next]_vars

-----------------------------------------------------------------------------
(* What the ledger promises *)

Entry ==
    [seq : Nat \ {0}, prevHash : {HeadHash(L) : L \in ledgers},
     type : Closures \cup {Approve}, id : Envelopes, op : Operators,
     at : Nat, expiresAt : Nat]

Checkpoint == [count : Nat, headHash : {HeadHash(L) : L \in ledgers}]

RunningCommand ==
    [pc : {"computed", "saved"}, ledger : Seq(Entry), rereads : BOOLEAN,
     trust : SUBSET Operators]

\* The type invariant.  Every entry's prevHash is the head hash of some
\* ledger file: a chain is only ever built on a file that was written whole.
TypeOK ==
    /\ ledgerFiles \subseteq [whole : {TRUE}, content : Seq(Entry)] \cup {CutOff}
    /\ headFiles \subseteq [whole : {TRUE}, content : Checkpoint] \cup {CutOff}
    /\ cli \in [Operators -> RunningCommand \cup {Idle}]
    /\ trust \subseteq Operators
    /\ pinned \subseteq Envelopes
    /\ now \in 0..MaxTime

\* A checkpoint pins one history: no two complete ledger files that
\* commands ever wrote, however their branches interleaved, agree on event count and head
\* hash.  It is why "a changed, reordered, forged, truncated or stale log is
\* rejected" by a receiver holding the right checkpoint (README.md:494).
CheckpointPinsHistory ==
    \A L, M \in ledgers : CheckpointOf(L) = CheckpointOf(M) => L = M

\* A checkpoint that can be read names a ledger file that was written to its
\* end, whatever dies between or within the two writes of main and whatever
\* else is on disk: no checkpoint vouches for a file that was cut off.
HeadHasLedger ==
    \A c \in heads : \E L \in ledgers : CheckpointOf(L) = c

\* "A signed revocation or explicit expiry is terminal for that exact
\* enrollment" (README.md:494): no check, at any clock and with any
\* checkpoint file, approves an envelope from a history that closes it.
ClosureIsTerminal ==
    \A L \in ledgers, c \in heads, env \in Envelopes :
        ReviewApproved(env, L, c) =>
            \A i \in 1..Len(L) : ~(L[i].type \in Closures /\ L[i].id = env)

\* An approval is never renewed: whenever a check approves, EVERY approval
\* event of that envelope in the history is within its own lease, and that
\* lease is at most MaxLease after the time the operator claimed.
LeaseNeverRenewed ==
    \A L \in ledgers, c \in heads, env \in Envelopes :
        ReviewApproved(env, L, c) =>
            \A i \in 1..Len(L) :
                L[i].type = Approve /\ L[i].id = env =>
                    /\ now < L[i].expiresAt
                    /\ L[i].expiresAt <= L[i].at + MaxLease

\* Every ledger file that was written to its end replays under the full trust
\* store: neither a clock set back between commands, nor concurrent branches,
\* nor a command that died or failed in a write of its own or of another's
\* gives a complete file whose chain is broken; only unpinning a signer makes
\* it refused.  (A file that was cut off is refused by whoever reads it, and
\* a complete one longer than MaxBytes by the commands: see Readable.)
PublishedReplays == \A L \in ledgers : ChainValid(L, Operators)

=============================================================================
