------------------------------ MODULE Witness ------------------------------
(***************************************************************************)
(* R13 witnesses over the R12 ledger (scripts/r13_witness.py, twin of      *)
(* interop/r13-witness.mjs).  A witness, whose key is no operator's, signs *)
(* the checkpoint of a ledger file it replays; a receiver verifies a       *)
(* ledger file against such a receipt and a minimum event count it keeps   *)
(* away from both.  Receiver and floor are outside the repository: it      *)
(* gets the floor as an argument, and README.md:530 says to retain it.     *)
(***************************************************************************)
EXTENDS Governance

CONSTANTS Witnesses,      \* witness signing keys
          WitnessStores,  \* witness trust stores the receiver may install
          Receivers

ASSUME WitnessAssumption ==
    /\ WitnessStores \subseteq SUBSET Witnesses
    /\ Witnesses \cap Operators = {}

VARIABLES receipts,   \* receipts signed so far
          wtrust,     \* witnesses active in the witness trust store
          floor,      \* the minimum count each receiver retains
          accepted    \* the ledger each receiver verified last

wvars == <<receipts, wtrust, floor, accepted>>
allVars == <<vars, wvars>>

-----------------------------------------------------------------------------

WitnessInit ==
    /\ Init
    /\ receipts = {}
    /\ wtrust = Witnesses
    /\ floor = [r \in Receivers |-> 0]
    /\ accepted = [r \in Receivers |-> <<>>]

\* the timestamp of the final operator event, if there is one
NotBeforeLast(L, t) == L # <<>> => L[Len(L)].at <= t

\* Mutant: the witness signs without looking at the final event's clock.
witness_checkpoint_anytime(w, L) ==
    /\ ChainValid(L, trust)
    /\ w \in wtrust
    /\ receipts' = receipts \cup {[witness |-> w, signedAt |-> now,
                                   checkpoint |-> CheckpointOf(L)]}
    /\ UNCHANGED <<vars, wtrust, floor, accepted>>

witness_checkpoint(w, L) ==
    /\ ChainValid(L, trust)
    /\ w \in wtrust
    /\ NotBeforeLast(L, now)
    /\ receipts' = receipts \cup {[witness |-> w, signedAt |-> now,
                                   checkpoint |-> CheckpointOf(L)]}
    /\ UNCHANGED <<vars, wtrust, floor, accepted>>

\* Mutant: the retained minimum is not compared.
verify_witness_floorless(L, T, receipt, W, minimum) ==
    /\ checkpoint_matches(receipt.checkpoint, L)
    /\ receipt.witness \in W
    /\ ChainValid(L, T)
    /\ NotBeforeLast(L, receipt.signedAt)

verify_witness(L, T, receipt, W, minimum) ==
    /\ checkpoint_matches(receipt.checkpoint, L)
    /\ receipt.witness \in W
    /\ ChainValid(L, T)
    /\ receipt.checkpoint.count >= minimum
    /\ NotBeforeLast(L, receipt.signedAt)

\* A receiver checks a ledger file and retains the count it accepted.
Receive(r, L, receipt) ==
    /\ verify_witness(L, trust, receipt, wtrust, floor[r])
    /\ floor' = [floor EXCEPT ![r] = receipt.checkpoint.count]
    /\ accepted' = [accepted EXCEPT ![r] = L]
    /\ UNCHANGED <<vars, receipts, wtrust>>

EditWitnesses(W) ==
    /\ wtrust' = W
    /\ UNCHANGED <<vars, receipts, floor, accepted>>

WitnessNext ==
    \/ Next /\ UNCHANGED wvars
    \/ \E w \in Witnesses, L \in ledgers : witness_checkpoint(w, L)
    \/ \E r \in Receivers, L \in Readable, receipt \in receipts :
          Receive(r, L, receipt)
    \/ \E W \in WitnessStores : EditWitnesses(W)

WitnessSpec == WitnessInit /\ [][WitnessNext]_allVars

-----------------------------------------------------------------------------

Receipt == [witness : Witnesses, signedAt : 0..MaxTime,
            checkpoint : {CheckpointOf(L) : L \in ledgers}]

\* The type invariant.  A receipt only ever names the checkpoint of a ledger
\* file that exists.
WitnessTypeOK ==
    /\ TypeOK
    /\ receipts \subseteq Receipt
    /\ wtrust \subseteq Witnesses
    /\ floor \in [Receivers -> Nat]
    /\ accepted \in [Receivers -> ledgers]

\* A receipt names one history, and that one verifies: under the full trust
\* stores every receipt ever signed is good for exactly one ledger file, even
\* though other branches grew beside it and the clock was set back since.
ReceiptVerifiesOneLedger ==
    \A receipt \in receipts :
        \E L \in ledgers :
            /\ verify_witness(L, Operators, receipt, Witnesses, 0)
            /\ \A M \in ledgers :
                  verify_witness(M, Operators, receipt, Witnesses, 0) => M = L

\* "A bounded separately retained minimum event count can detect replay of an
\* older, genuinely signed ledger" (README.md:530): a receiver that keeps the
\* count it accepted is never taken back to a proper prefix of that history.
NeverRolledBack ==
    [][\A r \in Receivers :
          LET old == accepted[r]
              new == accepted'[r]
          IN  ~(Len(new) < Len(old) /\ new = SubSeq(old, 1, Len(new)))]_allVars

=============================================================================
