------------------------------ MODULE Dataset ------------------------------
(***************************************************************************)
(* What finetune/collect.py exports from table messages: questions and     *)
(* answers for training.                                                   *)
(*                                                                         *)
(* A row is [role, conv, good]; good says that its text is long enough     *)
(* (--min-words) and does not look like an error.  Rows come in the order  *)
(* of their timestamps.  Of two rows of one second SQLite may return       *)
(* either first; the order of the table is taken here.                     *)
(***************************************************************************)
EXTENDS Integers, Sequences

\* ids of rows, which stand for their texts
Ids(rows) == 1..Len(rows)

_is_quality_pair(user, assistant) == user.good /\ assistant.good

(* WHERE role IN ('user', 'assistant'), grouped by conversation: the ids   *)
(* of one conversation, in order                                           *)
load_conversation(rows, c) ==
    SelectSeq([i \in Ids(rows) |-> i],
              LAMBDA i : rows[i].conv = c /\ rows[i].role \in {"user", "assistant"})

(* extract_pairs on one conversation: the loop over i, which goes on after *)
(* a pair and by one otherwise                                             *)
extract_pairs(rows, msgs) ==
    LET IsPair(i) == rows[msgs[i]].role = "user" /\ rows[msgs[i+1]].role = "assistant"
        Kept(i) == IF _is_quality_pair(rows[msgs[i]], rows[msgs[i+1]])
                   THEN << <<msgs[i], msgs[i+1]>> >> ELSE <<>>
        from[i \in 1..(Len(msgs) + 1)] ==
            IF i >= Len(msgs) THEN <<>>
            ELSE IF IsPair(i) THEN Kept(i) \o from[i+2]
            ELSE from[i+1]
    IN  from[1]

\* the conversations that yield anything
sharegpt(rows, convs) == {c \in convs : extract_pairs(rows, load_conversation(rows, c)) # <<>>}

-----------------------------------------------------------------------------
(* A question and the answer that follows it: nothing but summaries and    *)
(* other conversations lies between them.                                  *)

IsTurn(row, c) == row.conv = c /\ row.role # "summary"

Exchanges(rows, c) ==
    {<<q, a>> \in Ids(rows) \X Ids(rows) :
        /\ q < a
        /\ rows[q].role = "user" /\ IsTurn(rows[q], c)
        /\ rows[a].role = "assistant" /\ IsTurn(rows[a], c)
        /\ \A i \in (q+1)..(a-1) : ~IsTurn(rows[i], c)}
=============================================================================
