---------------------------- MODULE MCGovernance ----------------------------
(* A small instance of the governance ledger for TLC. *)
EXTENDS Governance, TLC

CONSTANTS e1, e2, o1, o2

MCEnvelopes == {e1, e2}
MCOperators == {o1, o2}

\* The second envelope is signed one instant after the clock's origin.
MCSignedAt == (e1 :> 0) @@ (e2 :> 1)

\* Everybody stays pinned here, which is symmetric in the operators; MCWitness
\* has a trust store that is edited.
MCTrustStores == {MCOperators}
MCPinStores == {MCEnvelopes}

\* The label of the second envelope is longer in a file than in memory, so a
\* ledger with two events about it is valid and its file cannot be read.
MCCompactBytes(L) == Len(L)
MCFileBytes(L) == Len(L) + Cardinality({i \in 1..Len(L) : L[i].id = e2})

OperatorSymmetry == Permutations(MCOperators)

=============================================================================
