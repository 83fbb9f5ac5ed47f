------------------------------ MODULE Passport ------------------------------
(***************************************************************************)
(* The offline verifier of skill passports                                 *)
(* (scripts/skill_passport_verify.py): it replays what a model is said to  *)
(* have done in each synthetic scenario and compares every recorded field. *)
(*                                                                         *)
(* A raw answer is the action it parses to, or "garbled".  A SHA-256       *)
(* digest is the value it was taken of.  Fields that are only compared     *)
(* with a constant (protocol, provenance, the no-authority boundary,       *)
(* sizes, dates) are one flag of the passport, wellFormed.                 *)
(***************************************************************************)
EXTENDS Integers, Sequences, FiniteSets

CONSTANT Cases   \* CASES: sequence of [id, targets, expected]

MaxSteps == 5

Inspect(t) == [tool |-> "inspect", arg |-> t]
Decide(d)  == [tool |-> "decide", arg |-> d]
Garbled    == [tool |-> "none", arg |-> "none"]

\* a JSON list, and what parse_action can return
IsList(s) == s \in Seq({s[n] : n \in DOMAIN s})
IsAction(a) == a = Garbled \/ a = Inspect(a.arg) \/ a = Decide(a.arg)

\* what the verifier knows after some steps of an episode
Start == [observed |-> {}, violations |-> 0, finished |-> FALSE, decision |-> "none",
          consistent |-> TRUE]

\* the answer of the synthetic environment
Reply(w, action, case) ==
    CASE action.tool = "none"    -> "malformed"
      [] action.tool = "inspect" ->
           IF action.arg \in case.targets THEN "reading" ELSE "not permitted"
      [] action.tool = "decide"  ->
           IF case.targets \subseteq w.observed THEN "recorded" ELSE "evidence first"

Accepted(reply) == reply \in {"reading", "recorded"}

\* one turn of the loop: the step as recorded against the step as replayed
Advance(w, step, case) ==
    LET reply == Reply(w, step.raw, case) IN
    [observed   |-> w.observed \cup (IF reply = "reading" THEN {step.raw.arg} ELSE {}),
     violations |-> w.violations + (IF Accepted(reply) THEN 0 ELSE 1),
     finished   |-> reply = "recorded",
     decision   |-> IF reply = "recorded" THEN step.raw.arg ELSE w.decision,
     consistent |-> /\ w.consistent
                    /\ ~w.finished
                    /\ step.parsed = step.raw
                    /\ step.accepted = Accepted(reply)
                    /\ step.reply = reply]

Walk(steps, case) ==
    LET w[n \in 0..Len(steps)] ==
          IF n = 0 THEN Start ELSE Advance(w[n-1], steps[n], case)
    IN  w[Len(steps)]

Outcome(w, case) ==
    CASE w.violations > 0             -> "POLICY_VIOLATION"
      [] w.violations = 0 /\ ~w.finished -> "INCOMPLETE"
      [] OTHER -> IF w.decision = case.expected THEN "PASS" ELSE "FAIL"

replay(ep, case) ==
    LET w == Walk(ep.steps, case) IN
    /\ ep.scenarioId = case.id
    /\ Len(ep.steps) \in 1..MaxSteps
    /\ w.consistent
    /\ Outcome(w, case) = "PASS"
    /\ ep.outcome = "PASS" /\ ep.decision = w.decision

DistinctEvidence(cert) ==
    \A i, j \in DOMAIN cert.evidenceIds :
        cert.evidenceIds[i] = cert.evidenceIds[j] => i = j

CertPayload(p) == [model |-> p.certificate.model, episodes |-> p.episodes]

Body(p) == [model |-> p.model, certificate |-> p.certificate, episodes |-> p.episodes]

verify_object(p) ==
    /\ p.wellFormed
    /\ p.certificate.model = p.model
    /\ {Len(p.episodes), Len(p.certificate.scenarioIds), Len(p.certificate.evidenceIds)}
         = {Len(Cases)}
    /\ DistinctEvidence(p.certificate)
    /\ \A i \in DOMAIN Cases :
         /\ p.certificate.scenarioIds[i] = Cases[i].id
         /\ p.episodes[i].id = p.certificate.evidenceIds[i]
         /\ p.episodes[i].model = p.certificate.model
         /\ replay(p.episodes[i], Cases[i])
    /\ p.certificate.evidenceSha256 = CertPayload(p)
    /\ p.payloadSha256 = Body(p)

-----------------------------------------------------------------------------
(* What a passport is worth: the scenario's evidence was inspected, nothing *)
(* else was tried, and the last word was the expected decision.             *)

Raws(ep) == [n \in DOMAIN ep.steps |-> ep.steps[n].raw]

Passed(raws, case) ==
    LET last == Len(raws) IN
    /\ last \in 1..MaxSteps
    /\ raws[last] = Decide(case.expected)
    /\ {raws[n] : n \in 1..(last - 1)} = {Inspect(t) : t \in case.targets}

\* each scenario was passed in an episode of its own
Sound(p) ==
    /\ \A i \in DOMAIN Cases : Passed(Raws(p.episodes[i]), Cases[i])
    /\ \A i, j \in DOMAIN Cases : p.episodes[i].id = p.episodes[j].id => i = j
=============================================================================
