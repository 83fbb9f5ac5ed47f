---------------------------- MODULE MCEnrollment ----------------------------
(* Two scenarios instead of six, with the two targets each has.  One passport *)
(* is sound; the others fail the replay in one way each.  The envelopes: two  *)
(* sound ones, one signed with another key than it names, one by a key that   *)
(* was never pinned, and one for each bad passport.                           *)
(*                                                                            *)
(* An entry takes more room in a file than in the short form, and a state     *)
(* that is not revoked has the longer name: a registry with two approvals is  *)
(* valid and cannot be read, one with an approval and a revocation can.       *)
EXTENDS Enrollment, TLC

TwoCases == << [id |-> "dns-stale", targets |-> {"router", "dns"}, expected |-> "REPAIR"],
               [id |-> "release-red", targets |-> {"ci", "scan"}, expected |-> "BLOCK"] >>

Recorded(raw, reply) ==
    [raw |-> raw, parsed |-> raw, accepted |-> Accepted(reply), reply |-> reply]
Read(t) == Recorded(Inspect(t), "reading")
Say(d) == Recorded(Decide(d), "recorded")

Episode(id, case, steps, d) ==
    [id |-> id, model |-> "m", scenarioId |-> case, steps |-> steps,
     outcome |-> "PASS", decision |-> d]

PassportOf(eps) ==
    LET cert == [model |-> "m", scenarioIds |-> <<"dns-stale", "release-red">>,
                 evidenceIds |-> [i \in DOMAIN eps |-> eps[i].id],
                 evidenceSha256 |-> [model |-> "m", episodes |-> eps]]
    IN  [wellFormed |-> TRUE, model |-> "m", certificate |-> cert, episodes |-> eps,
         payloadSha256 |-> [model |-> "m", certificate |-> cert, episodes |-> eps]]

Dns == Episode("x1", "dns-stale", <<Read("dns"), Read("router"), Read("dns"), Say("REPAIR")>>, "REPAIR")
Release(id, steps) == Episode(id, "release-red", steps, "BLOCK")
Fine == <<Read("ci"), Read("scan"), Say("BLOCK")>>

Good      == PassportOf(<<Dns, Release("x2", Fine)>>)
TooSoon   == PassportOf(<<Dns, Release("x2", <<Read("ci"), Say("BLOCK")>>)>>)
Twice     == PassportOf(<<Dns, Release("x1", Fine)>>)
\* The wrong decision was recorded before the right one.
TwoWords  == PassportOf(<<Dns, Release("x2",
                 <<Read("ci"), Read("scan"), Say("APPROVE"), Say("BLOCK")>>)>>)
Undecided == PassportOf(<<Dns, Release("x2", <<Read("ci"), Read("scan")>>)>>)

Envelope(key, signer, p) ==
    [issuerId |-> "i", keyId |-> key, signer |-> signer, passport |-> p, wellFormed |-> TRUE]

TestEnvelopes == {"one", "two", "forged", "stranger", "too soon", "twice", "two words",
                  "undecided"}
TestSigned == [e \in TestEnvelopes |->
    CASE e = "one"       -> Envelope("k1", "k1", Good)
      [] e = "two"       -> Envelope("k2", "k2", Good)
      [] e = "forged"    -> Envelope("k1", "k3", Good)
      [] e = "stranger"  -> Envelope("k3", "k3", Good)
      [] e = "too soon"  -> Envelope("k1", "k1", TooSoon)
      [] e = "twice"     -> Envelope("k1", "k1", Twice)
      [] e = "two words" -> Envelope("k1", "k1", TwoWords)
      [] e = "undecided" -> Envelope("k1", "k1", Undecided)]

ApprovedIn(entries) == {i \in DOMAIN entries : entries[i].state # "REVOKED"}
TestCompactBytes(entries) == Len(entries) + Cardinality(ApprovedIn(entries))
TestFileBytes(entries) == 2 * Len(entries) + Cardinality(ApprovedIn(entries))

Store(keys) == [valid |-> TRUE, active |-> {[issuerId |-> "i", keyId |-> k] : k \in keys}]
TestTrusts == {Store({"k1", "k2"}), Store({"k2"}), [valid |-> FALSE, active |-> {}]}

NewNamesSymmetry == Permutations(NewNames)

\* The replay accepts exactly the episodes a scenario was passed in, over
\* every sequence of up to four answers, recorded as they were replayed.
Answers == {Read("ci"), Read("scan"), Say("BLOCK"), Say("APPROVE"),
            Recorded(Decide("BLOCK"), "evidence first"),
            Recorded(Inspect("dns"), "not permitted"), Recorded(Garbled, "malformed")}
ASSUME ReplayIsExact ==
    \A n \in 1..4 : \A steps \in [1..n -> Answers] :
        LET ep == Release("x2", steps) IN
        /\ replay(ep, TwoCases[2]) => Passed(Raws(ep), TwoCases[2])
        /\ Passed(Raws(ep), TwoCases[2]) /\ (\A i \in 1..n : steps[i].accepted)
             => replay(ep, TwoCases[2])
=============================================================================
