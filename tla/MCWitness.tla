----------------------------- MODULE MCWitness -----------------------------
(* A small instance of the ledger with one witness and one receiver. *)
EXTENDS Witness, TLC

CONSTANTS e1, o1, o2, w1, r1

MCSignedAt == e1 :> 0

MCTrustStores == {{o1, o2}, {o1}}
MCPinStores == {{e1}}
MCBytes(L) == Len(L)
MCWitnessStores == {{w1}, {}}

=============================================================================
