----------------------------- MODULE Enrollment -----------------------------
(***************************************************************************)
(* The receiver's inspection enrollment (scripts/r11_enrollment.py) over   *)
(* signed passports (scripts/r10_verify_signed.py).  A registry is a file. *)
(* A command reads one and writes another under a name that must be new;   *)
(* putting it in the place of the live registry is left to the operator,   *)
(* who may also edit the live file by hand.                                *)
(*                                                                         *)
(* An enrollment id and an envelope hash are injective in the envelope, so *)
(* an id is the envelope; its issuer, key and scope cannot differ from it. *)
(* The scope is one constant of the code.                                  *)
(*                                                                         *)
(* Two lengths are bounded by one number: that of a registry in its short  *)
(* form, when it is validated, and that of its file, which is indented and *)
(* escaped to ASCII, when it is read.                                      *)
(***************************************************************************)
EXTENDS Passport

CONSTANTS Operators,   \* operators at their terminals
          Envelopes,   \* signed envelopes the receiver holds
          Signed,      \* what is in each of them
          Trusts,      \* R10 trust stores the receiver may install
          NewNames,    \* names the commands may write to
          MaxEntries,  \* MAX_ENTRIES, 64
          CompactBytes(_), \* length of a registry, in its short form
          FileBytes(_),    \* length of the file save_new writes of it
          MaxBytes,    \* MAX_BYTES, 48,000: the limit of both
          MaxLease,    \* 168 hours, which is also the 7 days of a valid entry
          MaxTime,     \* bound of the model: last instant of the clock
          MaxEdits     \* bound of the model: edits by hand

ASSUME EnrollmentAssumption ==
    /\ MaxEntries \in Nat \ {0} /\ MaxLease \in Nat \ {0}
    /\ {MaxTime, MaxEdits} \subseteq Nat
    /\ "live" \notin NewNames
    /\ CompactBytes(<<>>) <= MaxBytes
    /\ FileBytes(<<>>) <= MaxBytes

\* The shape of a passport that verify_object would read to the end
\* (skill_passport_verify.py:109, 122, 186): lists are lists, and what an
\* answer parses to is an action.
ASSUME SignedAssumption ==
    /\ IsList(Cases)
    /\ \A e \in Envelopes :
         LET p == Signed[e].passport IN
         p.wellFormed =>
           /\ IsList(p.certificate.evidenceIds)
           /\ \A i \in DOMAIN Cases :
                LET steps == p.episodes[i].steps IN
                IsList(steps) /\ \A n \in DOMAIN steps : IsAction(steps[n].raw)

VARIABLES file,      \* name -> a registry, NoFile or CutOff
          trust,     \* the R10 trust store
          cmd,       \* of each operator: the command between reading and saving
          now,       \* the operators' clock, which may be set back
          edits,     \* by hand, so far
          reviews,   \* history: every approval given, as [env, at]
          lineage    \* history: what was revoked on the way to each file

vars == <<file, trust, cmd, now, edits, reviews, lineage>>

Names == NewNames \cup {"live"}

NoFile == [kind |-> "none", entries |-> <<>>]
CutOff == [kind |-> "broken", entries |-> <<>>]
Registry(es) == [kind |-> "registry", entries |-> es]
NoCommand == [out |-> "none", file |-> NoFile, env |-> {}, revoked |-> {}]

-----------------------------------------------------------------------------
(* scripts/r10_verify_signed.py.  A trust store is valid or not, and has   *)
(* some keys active; Signed[e] has the fields issuerId, keyId, the key     *)
(* that really signed (signer), passport, wellFormed.                      *)

\* the digests and the replay do not depend on the state
ReplayConsistent == [e \in Envelopes |-> verify_object(Signed[e].passport)]

Pinned(e, t) == [issuerId |-> Signed[e].issuerId, keyId |-> Signed[e].keyId] \in t.active

verify_signed_object(e, t) ==
    IF ~Signed[e].wellFormed THEN "REJECTED_SCHEMA"
    ELSE IF ~ReplayConsistent[e] THEN "REJECTED_REPLAY"
    ELSE IF ~t.valid THEN "REJECTED_TRUST_STORE"
    ELSE IF ~Pinned(e, t) THEN "UNPINNED_SIGNATURE"
    ELSE IF Signed[e].signer # Signed[e].keyId THEN "SIGNATURE_INVALID"
    ELSE "SIGNATURE_VALID_PINNED_NO_AUTHORITY"

Verified(e, t) == verify_signed_object(e, t) = "SIGNATURE_VALID_PINNED_NO_AUTHORITY"

-----------------------------------------------------------------------------
(* Registries *)

validate_registry(r) ==
    /\ r.kind = "registry"
    /\ Len(r.entries) <= MaxEntries
    /\ CompactBytes(r.entries) <= MaxBytes
    /\ \A i \in DOMAIN r.entries :
         LET en == r.entries[i] IN
         /\ en.reviewedAt < en.expiresAt
         /\ en.expiresAt - en.reviewedAt <= MaxLease
         /\ \A j \in DOMAIN r.entries : r.entries[j].env = en.env => i = j

\* read_json: a file that ends early does not parse
Readable(r) == r.kind = "registry" /\ FileBytes(r.entries) <= MaxBytes

EntriesOf(r, e) == {i \in DOMAIN r.entries : r.entries[i].env = e}

\* Mutant: the lease is not looked at before it begins.
Verdict_early(en, e) ==
    IF en.state = "REVOKED" THEN "REVOKED"
    ELSE IF en.model # Signed[e].passport.model THEN "REGISTRY_REJECTED"
    ELSE IF now >= en.expiresAt THEN "EXPIRED"
    ELSE "APPROVED_FOR_INSPECTION_ONLY"

Verdict(en, e) ==
    IF en.state = "REVOKED" THEN "REVOKED"
    ELSE IF en.model # Signed[e].passport.model THEN "REGISTRY_REJECTED"  \* binding mismatch
    ELSE IF now < en.reviewedAt THEN "NOT_YET_VALID"
    ELSE IF now >= en.expiresAt THEN "EXPIRED"
    ELSE "APPROVED_FOR_INSPECTION_ONLY"

evaluate(e, t, r) ==
    IF ~Verified(e, t) THEN "SIGNATURE_REJECTED"
    ELSE IF ~validate_registry(r) THEN "REGISTRY_REJECTED"
    ELSE IF EntriesOf(r, e) = {} THEN "NOT_ENROLLED"
    ELSE Verdict(r.entries[CHOOSE i \in EntriesOf(r, e) : TRUE], e)

\* what the command "check" reports
Approved(e, r) ==
    Readable(r) /\ evaluate(e, trust, r) = "APPROVED_FOR_INSPECTION_ONLY"

-----------------------------------------------------------------------------
Init ==
    /\ file \in [Names -> {NoFile, Registry(<<>>)}]  \* live: made by init, or not yet
    /\ \A f \in NewNames : file[f] = NoFile
    /\ trust \in Trusts
    /\ cmd = [o \in Operators |-> NoCommand]
    /\ now = 0
    /\ edits = 0
    /\ reviews = {}
    /\ lineage = [f \in Names |-> {}]

Ready(o, out) == cmd[o] = NoCommand /\ out \in NewNames

Compute(o, out, r, env, revoked) ==
    /\ cmd' = [cmd EXCEPT ![o] = [out |-> out, file |-> r, env |-> env, revoked |-> revoked]]
    /\ UNCHANGED <<file, trust, now, edits, reviews, lineage>>

init(o, out) ==
    /\ Ready(o, out)
    /\ Compute(o, out, Registry(<<>>), {}, {})

\* "never renew a revoked envelope"
MayEnroll(r, e) == EntriesOf(r, e) = {}

approve_for_inspection(o, e, in, lease, out) ==
    LET r == file[in]
        en == [env |-> e, model |-> Signed[e].passport.model, reviewedAt |-> now,
               expiresAt |-> now + lease, state |-> "APPROVED_INSPECTION"]
        updated == Registry(Append(r.entries, en))
    IN  /\ Ready(o, out)
        /\ lease \in 1..MaxLease
        /\ Readable(r)
        /\ validate_registry(r)
        /\ Verified(e, trust)
        /\ MayEnroll(r, e)
        /\ Len(r.entries) < MaxEntries
        /\ validate_registry(updated)
        /\ Compute(o, out, updated, {e}, lineage[in])

\* Mutant: a revoked enrollment is taken out of the registry.
Revoked_removed(r, i) == Registry(SelectSeq(r.entries, LAMBDA en : en # r.entries[i]))

Revoked(r, i) == Registry([r.entries EXCEPT ![i].state = "REVOKED"])

revoke(o, e, in, out) ==
    LET r == file[in] IN
    /\ Ready(o, out)
    /\ Readable(r)
    /\ validate_registry(r)
    /\ \E i \in EntriesOf(r, e) :
         /\ r.entries[i].state # "REVOKED"
         /\ validate_registry(Revoked(r, i))
         /\ Compute(o, out, Revoked(r, i), {}, lineage[in] \cup {e})

\* Mutant: an output file that exists is overwritten.
MayCreate_overwrite(f) == TRUE

\* open(..., "x")
MayCreate(f) == file[f] = NoFile

\* save_new; the process may die while it writes
save_new(o) ==
    LET c == cmd[o] IN
    /\ c # NoCommand
    /\ MayCreate(c.out)
    /\ \/ /\ file' = [file EXCEPT ![c.out] = c.file]
          /\ lineage' = [lineage EXCEPT ![c.out] = c.revoked]
          /\ reviews' = reviews \cup
               {[env |-> e, at |-> c.file.entries[Len(c.file.entries)].reviewedAt] : e \in c.env}
       \/ /\ file' = [file EXCEPT ![c.out] = CutOff]
          /\ lineage' = [lineage EXCEPT ![c.out] = {}]
          /\ UNCHANGED reviews
    /\ cmd' = [cmd EXCEPT ![o] = NoCommand]
    /\ UNCHANGED <<trust, now, edits>>

\* the output exists, or the command is abandoned
Refused(o) ==
    /\ cmd[o] # NoCommand
    /\ cmd' = [cmd EXCEPT ![o] = NoCommand]
    /\ UNCHANGED <<file, trust, now, edits, reviews, lineage>>

-----------------------------------------------------------------------------
(* The operator *)

\* "manually replace the local registry"
ReplaceLive(f) ==
    /\ file[f] # NoFile /\ file["live"] # file[f]
    /\ file' = [file EXCEPT !["live"] = file[f]]
    /\ lineage' = [lineage EXCEPT !["live"] = lineage[f]]
    /\ UNCHANGED <<trust, cmd, now, edits, reviews>>

\* "Registry records are LOCAL and EDITABLE": a lease, a state or a label
EditLive ==
    /\ edits < MaxEdits
    /\ edits' = edits + 1
    /\ \E i \in DOMAIN file["live"].entries, d \in {-1, 1} :
         file' = [file EXCEPT
           !["live"].entries[i] =
              CASE d = -1 /\ @.state = "REVOKED"   -> [@ EXCEPT !.state = "APPROVED_INSPECTION"]
                [] d = -1 /\ @.state # "REVOKED"   -> [@ EXCEPT !.model = "edited"]
                [] d = 1 -> [@ EXCEPT !.expiresAt = @ + 1]]
    /\ UNCHANGED <<trust, cmd, now, reviews, lineage>>

EditTrust(t) ==
    /\ trust # t
    /\ trust' = t
    /\ UNCHANGED <<file, cmd, now, edits, reviews, lineage>>

SetClock(t) ==
    /\ t \in {now - 1, now + 1} \cap 0..MaxTime
    /\ now' = t
    /\ UNCHANGED <<file, trust, cmd, edits, reviews, lineage>>

Command(o) ==
    \/ \E out \in NewNames :
         \/ init(o, out)
         \/ \E e \in Envelopes, in \in Names :
              \/ \E lease \in 1..MaxLease : approve_for_inspection(o, e, in, lease, out)
              \/ revoke(o, e, in, out)
    \/ save_new(o) \/ Refused(o)

Next ==
    \/ \E o \in Operators : Command(o)
    \/ \E f \in NewNames : ReplaceLive(f)
    \/ EditLive
    \/ \E t \in Trusts : EditTrust(t)
    \/ \E t \in 0..MaxTime : SetClock(t)

Spec == Init /\ [][Next]_vars

-----------------------------------------------------------------------------
(* Properties *)

\* The type invariant; what the commands write to its end is valid, if not
\* always short enough to be read again, and the record of every review
\* remains in the file it was written to.
TypeOK ==
    /\ \A f \in Names : file[f].kind \in {"none", "broken", "registry"}
    /\ \A f \in NewNames : file[f].kind = "registry" => validate_registry(file[f])
    /\ trust \in Trusts
    /\ \A o \in Operators : cmd[o] = NoCommand \/ cmd[o].out \in NewNames
    /\ now \in 0..MaxTime
    /\ reviews \subseteq [env : Envelopes, at : 0..MaxTime]
    /\ \A a \in reviews : \E f \in NewNames : \E i \in DOMAIN file[f].entries :
         file[f].entries[i].env = a.env /\ file[f].entries[i].reviewedAt = a.at
    /\ lineage \in [Names -> SUBSET Envelopes]

\* "Valid R10 pinned signing-key proof, explicit operator review, and a
\* bounded local lease are independent gates" (r11_enrollment.py:5): a check
\* approves only what the holder of a key pinned and active NOW has signed,
\* whose six traces really earn it, and, unless the registry was edited by
\* hand, what an operator approved less than the longest lease ago,
\* whichever registry is live and however the clock was set.
ApprovalIsEarned ==
    \A e \in Envelopes, f \in Names : Approved(e, file[f]) =>
        /\ trust.valid /\ [issuerId |-> Signed[e].issuerId, keyId |-> Signed[e].signer] \in trust.active
        /\ Sound(Signed[e].passport)
        /\ edits = 0 => \E a \in reviews : a.env = e /\ a.at <= now /\ now < a.at + MaxLease

\* "never renew a revoked envelope" (r11_enrollment.py:128): no chain of
\* commands, by any operator, from a registry in which an envelope is revoked
\* leads to one that approves it; only putting a registry of another line in
\* its place, or editing it, can.
RevokedStaysRevoked ==
    edits = 0 => \A f \in Names : \A e \in lineage[f] : ~Approved(e, file[f])

\* "To revoke, copy the enrollmentId from your locally approved registry and
\* run: ... revoke reviewed-registry.json" (README.md:462): a registry that an
\* approval wrote to its end is one the next command reads.
WrittenIsReadable ==
    \A f \in NewNames : file[f].kind = "registry" => Readable(file[f])
=============================================================================
