-------------------------- MODULE MCConversations --------------------------
(* Conversations on a small instance, and the export of training data on      *)
(* every table of up to four rows in two conversations.                       *)
EXTENDS Conversations, Dataset, TLC

Symmetry == Permutations(Reqs)

Row == [role : {"user", "assistant", "summary"}, conv : {"c1", "c2"}, good : BOOLEAN]

\* The loop of collect.py leaves out no exchange but the poor ones, invents
\* none, and keeps their order; a conversation is exported iff it has one.
ASSUME ExportIsExact ==
    \A n \in 0..4 : \A rows \in [1..n -> Row] : \A c \in {"c1", "c2"} :
        LET pairs == extract_pairs(rows, load_conversation(rows, c))
            good == {p \in Exchanges(rows, c) : rows[p[1]].good /\ rows[p[2]].good}
        IN  /\ {pairs[i] : i \in DOMAIN pairs} = good
            /\ \A i, j \in DOMAIN pairs : i < j => pairs[i][2] < pairs[j][1]
            /\ c \in sharegpt(rows, {"c1", "c2"}) <=> good # {}
=============================================================================
