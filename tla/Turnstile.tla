----------------------------- MODULE Turnstile -----------------------------
(***************************************************************************)
(* What "serialises Ollama requests" (api/core/queue.py:3) promises its    *)
(* callers: at most one of them is inside at a time, they get in in the    *)
(* order they arrived, any of them may give up while it stands in line,    *)
(* and the line moves on.                                                  *)
(***************************************************************************)
EXTENDS Naturals

CONSTANTS Reqs, Nobody

VARIABLES line,    \* the callers waiting
          ahead,   \* their order of arrival: <<q, r>> if q came before r
          inside   \* the caller that has its turn, or Nobody

vars == <<line, ahead, inside>>

Init == line = {} /\ ahead = {} /\ inside = Nobody

First(r) == r \in line /\ \A q \in line : <<q, r>> \notin ahead

Arrive(r) ==
    /\ inside # r /\ r \notin line
    /\ \/ /\ line' = line \cup {r}
          /\ ahead' = ahead \cup (line \X {r})
          /\ UNCHANGED inside
       \/ /\ line = {} /\ inside = Nobody
          /\ inside' = r
          /\ UNCHANGED <<line, ahead>>

StepOut(r) ==
    /\ line' = line \ {r}
    /\ ahead' = ahead \cap (line' \X line')

Advance(r) == inside = Nobody /\ First(r) /\ inside' = r /\ StepOut(r)

GiveUp(r) == r \in line /\ StepOut(r) /\ UNCHANGED inside

Leave ==
    /\ inside # Nobody
    /\ inside' = Nobody
    /\ UNCHANGED <<line, ahead>>

Next == (\E r \in Reqs : Arrive(r) \/ Advance(r) \/ GiveUp(r)) \/ Leave

\* the turnstile is free and the first in line takes it, or gives up
TakeTurn ==
    inside = Nobody /\ \E r \in line : First(r) /\ (Advance(r) \/ GiveUp(r))

Spec == Init /\ [][Next]_vars /\ WF_vars(TakeTurn)
=============================================================================
