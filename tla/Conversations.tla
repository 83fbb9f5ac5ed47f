--------------------------- MODULE Conversations ---------------------------
(***************************************************************************)
(* Conversations and their messages: the chat handler, the compaction of   *)
(* a long conversation, and the handlers that clear or delete one          *)
(* (api/routes/chat.py, api/routes/conversations.py, and the conversations *)
(* and messages tables of api/routes/memory.py).  Each await of the        *)
(* database or of the local model is one step of a request; other requests *)
(* run between the steps.                                                  *)
(*                                                                         *)
(* What a message says is left out, except what a summary covers and       *)
(* whether an answer is whole.  The steps of chat that only read           *)
(* (preferences, history, semantic search) or that run a tool change       *)
(* nothing here.  Messages are ordered by their id: their timestamps grow  *)
(* with it.                                                                *)
(***************************************************************************)
EXTENDS Integers, FiniteSets

CONSTANTS Reqs,       \* requests the server may be handling at once
          Users, Admins,
          Convs,      \* conversation ids clients use
          Nobody,     \* Python's None
          MaxTurns,   \* MAX_TURNS_BEFORE_SUMMARY, 20
          Batch,      \* messages compacted at a time, 10
          MaxMsgs     \* bound of the model: message rows ever inserted

ASSUME ConversationsAssumption ==
    /\ Admins \subseteq Users
    /\ Nobody \notin Users \cup Convs
    /\ IsFiniteSet(Reqs)
    /\ {MaxTurns, Batch, MaxMsgs} \subseteq Nat

VARIABLES convs,     \* table conversations: id -> its user_id
          messages,  \* table messages
          lastMsg,   \* its AUTOINCREMENT counter
          req,       \* the local variables of each request
          erased,    \* history: messages a user asked to delete
          lost       \* history: messages that died in a compaction

vars == <<convs, messages, lastMsg, req, erased, lost>>

Idle == [pc |-> "idle", user |-> Nobody, conv |-> Nobody, oldest |-> {},
         text |-> 0, done |-> FALSE]

Await(r, locals, step) == req' = [req EXCEPT ![r] = [locals EXCEPT !.pc = step]]
Respond(r) == req' = [req EXCEPT ![r] = Idle]

In(c) == {m \in messages : m.conv = c}
Turns(c) == {m \in In(c) : m.role # "summary"}

\* the messages whose content a set of rows still holds
Content(rows) == {m.id : m \in rows} \cup UNION {m.covers : m \in rows}

Init ==
    /\ convs = [c \in {} |-> Nobody]
    /\ messages = {}
    /\ lastMsg = 0
    /\ req = [r \in Reqs |-> Idle]
    /\ erased = {}
    /\ lost = {}

\* Mutant: ids without AUTOINCREMENT, the largest one in the table plus one.
Insert_reused(role, r, user, covers, whole) ==
    /\ lastMsg < MaxMsgs
    /\ lastMsg' = lastMsg + 1
    /\ messages' = messages \cup
         {[id |-> CHOOSE i \in 1..lastMsg' :
                     /\ \A m \in messages : m.id < i
                     /\ \A j \in 1..(i-1) : \E m \in messages : j <= m.id,
           role |-> role, conv |-> req[r].conv, user |-> user,
           covers |-> covers, whole |-> whole]}

(* save_message and save_summary: one INSERT *)
Insert(role, r, user, covers, whole) ==
    /\ lastMsg < MaxMsgs           \* bound of the model
    /\ lastMsg' = lastMsg + 1
    /\ messages' = messages \cup
         {[id |-> lastMsg', role |-> role, conv |-> req[r].conv, user |-> user,
           covers |-> covers, whole |-> whole]}

-----------------------------------------------------------------------------
(* chat *)

(* get_conversation_owner and the test of its answer; get_preferences *)
Chat(r, u, c) ==
    /\ req[r].pc = "idle"
    /\ c \in DOMAIN convs => convs[c] = u      \* otherwise 403
    /\ Await(r, [Idle EXCEPT !.user = u, !.conv = c], "ensure")
    /\ UNCHANGED <<convs, messages, lastMsg, erased, lost>>

\* Mutant: INSERT OR REPLACE, the last writer takes the conversation.
EnsureConversation_replace(r) ==
    /\ req[r].pc = "ensure"
    /\ convs' = [c \in DOMAIN convs \cup {req[r].conv} |->
                   IF c = req[r].conv THEN req[r].user ELSE convs[c]]
    /\ Await(r, req[r], "count")
    /\ UNCHANGED <<messages, lastMsg, erased, lost>>

(* ensure_conversation: INSERT OR IGNORE *)
EnsureConversation(r) ==
    /\ req[r].pc = "ensure"
    /\ convs' = [c \in DOMAIN convs \cup {req[r].conv} |->
                   IF c \in DOMAIN convs THEN convs[c] ELSE req[r].user]
    /\ Await(r, req[r], "count")
    /\ UNCHANGED <<messages, lastMsg, erased, lost>>

\* Mutant: compaction waits for a whole batch beyond the threshold.
CountTurns_lenient(r) ==
    /\ req[r].pc = "count"
    /\ Await(r, req[r], IF Cardinality(Turns(req[r].conv)) <= MaxTurns + Batch
                        THEN "save" ELSE "oldest")
    /\ UNCHANGED <<convs, messages, lastMsg, erased, lost>>

(* _maybe_summarize: get_non_summary_count *)
CountTurns(r) ==
    /\ req[r].pc = "count"
    /\ Await(r, req[r], IF Cardinality(Turns(req[r].conv)) <= MaxTurns
                        THEN "save" ELSE "oldest")
    /\ UNCHANGED <<convs, messages, lastMsg, erased, lost>>

(* get_oldest_non_summary_messages; the conversation may be empty by now *)
ReadOldest(r) ==
    /\ req[r].pc = "oldest"
    /\ LET turns == Turns(req[r].conv)
           oldest == {m.id : m \in {n \in turns :
                        Cardinality({k \in turns : k.id < n.id}) < Batch}}
       IN  Await(r, [req[r] EXCEPT !.oldest = oldest],
                 IF oldest = {} THEN "save" ELSE "summarize")
    /\ UNCHANGED <<convs, messages, lastMsg, erased, lost>>

(* _call_ollama: complete_chat answers with text, or the request ends in 502 *)
Summarize(r) ==
    /\ req[r].pc = "summarize"
    /\ Await(r, req[r], "compact") \/ Respond(r)
    /\ UNCHANGED <<convs, messages, lastMsg, erased, lost>>

\* Mutant: the compacted messages stay in the table.
DeleteOldest_kept(r) ==
    /\ req[r].pc = "compact"
    /\ Await(r, req[r], "summary")
    /\ UNCHANGED <<convs, messages, lastMsg, erased, lost>>

(* delete_messages_by_ids *)
DeleteOldest(r) ==
    /\ req[r].pc = "compact"
    /\ messages' = {m \in messages : m.id \notin req[r].oldest}
    /\ Await(r, req[r], "summary")
    /\ UNCHANGED <<convs, lastMsg, erased, lost>>

\* Mutant: an empty summary is stored in place of the messages.
SaveSummary_empty(r) ==
    /\ req[r].pc = "summary"
    /\ Insert("summary", r, Nobody, {}, TRUE)
    /\ Await(r, [req[r] EXCEPT !.oldest = {}], "save")
    /\ UNCHANGED <<convs, erased, lost>>

(* save_summary *)
SaveSummary(r) ==
    /\ req[r].pc = "summary"
    /\ Insert("summary", r, Nobody, req[r].oldest, TRUE)
    /\ Await(r, [req[r] EXCEPT !.oldest = {}], "save")
    /\ UNCHANGED <<convs, erased, lost>>

(* save_message of the user's message *)
SaveUserMessage(r) ==
    /\ req[r].pc = "save"
    /\ Insert("user", r, req[r].user, {}, TRUE)
    /\ Await(r, req[r], "stream")
    /\ UNCHANGED <<convs, erased, lost>>

(* stream_chat yields one more piece of text *)
StreamText(r) ==
    /\ req[r].pc = "stream"
    /\ req[r].text = 0             \* whether there was any is all that matters
    /\ Await(r, [req[r] EXCEPT !.text = 1], "stream")
    /\ UNCHANGED <<convs, messages, lastMsg, erased, lost>>

\* Mutant: a stream that stops without a "done" frame counts as complete.
EndStream_incomplete(r, done) ==
    /\ req[r].pc = "stream"
    /\ IF req[r].text > 0
       THEN Await(r, [req[r] EXCEPT !.done = done], "answer")
       ELSE Respond(r)
    /\ UNCHANGED <<convs, messages, lastMsg, erased, lost>>

(* the "done" frame, or an InferenceError: an error frame, a broken or     *)
(* overlong stream, one that ends without "done" or without any text       *)
EndStream(r, done) ==
    /\ req[r].pc = "stream"
    /\ IF done /\ req[r].text > 0
       THEN Await(r, [req[r] EXCEPT !.done = done], "answer")
       ELSE Respond(r)
    /\ UNCHANGED <<convs, messages, lastMsg, erased, lost>>

(* save_message of the assistant's answer *)
SaveAnswer(r) ==
    /\ req[r].pc = "answer"
    /\ Insert("assistant", r, req[r].user, {}, req[r].done)
    /\ Respond(r)
    /\ UNCHANGED <<convs, erased, lost>>

(* the client goes away: the generator is closed where it stands *)
Disconnect(r) ==
    /\ req[r].pc \in {"stream", "answer"}
    /\ Respond(r)
    /\ UNCHANGED <<convs, messages, lastMsg, erased, lost>>

-----------------------------------------------------------------------------
(* clear_history and remove_conversation *)

MayErase(u, c) == c \in DOMAIN convs => convs[c] = u \/ u \in Admins

(* get_conversation_owner and its test, for clear_history ("clear") and    *)
(* remove_conversation ("remove")                                          *)
Erase(r, u, c, step) ==
    /\ req[r].pc = "idle"
    /\ MayErase(u, c)              \* otherwise 403
    /\ Await(r, [Idle EXCEPT !.user = u, !.conv = c], step)
    /\ UNCHANGED <<convs, messages, lastMsg, erased, lost>>

(* delete_history of one conversation *)
ClearHistory(r) ==
    /\ req[r].pc = "clear"
    /\ messages' = messages \ In(req[r].conv)
    /\ erased' = erased \cup Content(In(req[r].conv))
    /\ Respond(r)
    /\ UNCHANGED <<convs, lastMsg, lost>>

(* clear_history without a conversation id: "Omit to clear ALL history" *)
ClearAll ==
    /\ messages' = {}
    /\ erased' = erased \cup Content(messages)
    /\ UNCHANGED <<convs, lastMsg, req, lost>>

(* delete_conversation: both DELETEs in one transaction *)
RemoveConversation(r) ==
    /\ req[r].pc = "remove"
    /\ messages' = messages \ In(req[r].conv)
    /\ erased' = erased \cup Content(In(req[r].conv))
    /\ convs' = [c \in DOMAIN convs \ {req[r].conv} |-> convs[c]]
    /\ Respond(r)
    /\ UNCHANGED <<lastMsg, lost>>

-----------------------------------------------------------------------------
(* The server is stopped and started, or a write of the database fails and *)
(* ends the request in an error.                                           *)
Abort(r) ==
    /\ req[r].pc # "idle"
    /\ Respond(r)
    /\ lost' = IF req[r].pc = "summary" THEN lost \cup req[r].oldest ELSE lost
    /\ UNCHANGED <<convs, messages, lastMsg, erased>>

Compaction(r) ==
    \/ CountTurns(r) \/ ReadOldest(r) \/ Summarize(r)
    \/ DeleteOldest(r) \/ SaveSummary(r)

Answer(r) ==
    \/ SaveUserMessage(r) \/ StreamText(r) \/ SaveAnswer(r) \/ Disconnect(r)
    \/ \E done \in BOOLEAN : EndStream(r, done)

Handler(r) ==
    \/ \E u \in Users, c \in Convs : Chat(r, u, c)
    \/ EnsureConversation(r) \/ Compaction(r) \/ Answer(r)
    \/ \E u \in Users, c \in Convs, step \in {"clear", "remove"} : Erase(r, u, c, step)
    \/ ClearHistory(r) \/ RemoveConversation(r)
    \/ Abort(r)

Next == (\E r \in Reqs : Handler(r)) \/ ClearAll

Spec == Init /\ [][Next]_vars

-----------------------------------------------------------------------------
(* What conversations promise *)

Message ==
    [id : 1..lastMsg, role : {"user", "assistant", "summary"}, conv : Convs,
     user : Users \cup {Nobody}, covers : SUBSET (1..lastMsg), whole : BOOLEAN]

Local ==
    [pc : {"idle", "ensure", "count", "oldest", "summarize", "compact", "summary",
           "save", "stream", "answer", "clear", "remove"},
     user : Users \cup {Nobody}, conv : Convs \cup {Nobody},
     oldest : SUBSET (1..lastMsg), text : {0, 1}, done : BOOLEAN]

\* The type invariant; ids are unique, and a summary covers only messages
\* inserted before it.
TypeOK ==
    /\ DOMAIN convs \subseteq Convs /\ convs \in [DOMAIN convs -> Users]
    /\ lastMsg \in 0..MaxMsgs
    /\ messages \subseteq Message
    /\ \A m, n \in messages : m.id = n.id => m = n
    /\ \A m \in messages : \A i \in m.covers : i < m.id
    /\ req \in [Reqs -> Local]
    /\ \A r \in Reqs : req[r].pc # "idle" =>
                         req[r].user \in Users /\ req[r].conv \in Convs
    /\ erased \subseteq 1..lastMsg /\ lost \subseteq 1..lastMsg

\* While its row exists, a conversation keeps the owner that created it,
\* whoever else passed the owner test at the same time.
OwnerNeverChanges ==
    [][\A c \in DOMAIN convs \cap DOMAIN convs' : convs'[c] = convs[c]]_vars

\* Compaction forgets nothing (docs/PHISERVE_BACKEND.md:46): a message that
\* nobody asked to delete is in the table, or in a summary, or in the summary
\* a request is about to save.  Only a request that dies between its two
\* writes loses messages, whatever other requests do meanwhile.
CompactionKeepsContent ==
    \A i \in 1..lastMsg :
        \/ i \in Content(messages) \cup erased \cup lost
        \/ \E r \in Reqs : req[r].pc = "summary" /\ i \in req[r].oldest

\* "never store a partial assistant answer as complete" (chat.py:319): no
\* matter how the stream breaks off, a stored answer is a whole one.
NoPartialAnswer == \A m \in messages : m.role = "assistant" => m.whole

\* Requests that compact one conversation at once may each store a summary
\* of the same messages, but no message is ever summarised more often than
\* there were requests at work on it.
SummariesBounded ==
    \A i \in 1..lastMsg :
        Cardinality({m \in messages : i \in m.covers}) <= Cardinality(Reqs)

\* A conversation stays near the threshold (README.md:120): each request at
\* work on it adds at most two messages beyond it.  It needs Batch to be at
\* least twice the number of requests: with more, they compact one batch
\* together and add more than they remove.
HistoryBounded ==
    2 * Cardinality(Reqs) <= Batch =>
        \A c \in Convs : Cardinality(Turns(c)) <= MaxTurns + 2 * Cardinality(Reqs)
=============================================================================
