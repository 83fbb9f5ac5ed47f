------------------------ MODULE ConversationsProofs ------------------------
(***************************************************************************)
(* Proofs about Conversations: what compaction keeps, and how many rows it *)
(* leaves, for any number of requests, users and conversations.            *)
(***************************************************************************)
EXTENDS Conversations, FiniteSetTheorems, WellFoundedInduction, TLAPS

\* Only turns are ever compacted, and a turn covers nothing else: deleting
\* the rows a request read as "oldest" deletes no summary.
OnlyTurnsCompacted ==
    /\ \A m \in messages : m.role # "summary" => m.covers = {}
    /\ \A r \in Reqs : \A m \in messages : m.id \in req[r].oldest => m.covers = {}

\* A request reaches "answer" only through the "done" frame of its stream.
AnswerIsDone == \A r \in Reqs : req[r].pc = "answer" => req[r].done

\* The inductive invariant.  CompactionKeepsContent is not inductive alone:
\* DeleteOldest keeps it only if the rows it deletes cover no others, and
\* NoPartialAnswer only follows if the answer in hand is complete.
IInv == /\ TypeOK
        /\ OnlyTurnsCompacted
        /\ AnswerIsDone
        /\ CompactionKeepsContent
        /\ NoPartialAnswer

\* The rows a request holds stay what they are when a message is inserted.
LEMMA LocalsGrow ==
    ASSUME TypeOK, lastMsg' = lastMsg + 1
    PROVE  /\ Message \subseteq Message'
           /\ Local \subseteq Local'
  BY DEF TypeOK, Message, Local

\* The invariant holds of empty tables and idle requests.
LEMMA InitIInv == ASSUME Init PROVE IInv
  BY ConversationsAssumption DEF ConversationsAssumption, Init, IInv, TypeOK, OnlyTurnsCompacted,
         AnswerIsDone, CompactionKeepsContent, NoPartialAnswer, Idle, Local,
         Message, Content

\* A step that leaves the messages alone and moves one request on preserves
\* the invariant, unless the request was about to save a summary.
LEMMA QuietPreserves ==
    ASSUME IInv, UNCHANGED <<messages, lastMsg, erased, lost>>,
           NEW r \in Reqs, NEW new \in Local,
           req' = [req EXCEPT ![r] = new],
           req[r].pc # "summary",
           new.pc # "idle" => new.user \in Users /\ new.conv \in Convs,
           new.pc = "answer" => new.done,
           \A m \in messages : m.id \in new.oldest => m.covers = {},
           DOMAIN convs' \subseteq Convs, convs' \in [DOMAIN convs' -> Users]
    PROVE  IInv'
  <1>1. /\ req \in [Reqs -> Local] /\ Local' = Local /\ Message' = Message
        /\ \A q \in Reqs : req'[q] = IF q = r THEN new ELSE req[q]
    BY DEF IInv, TypeOK, Local, Message
  <1>2. TypeOK'
    BY <1>1 DEF IInv, TypeOK
  <1>3. OnlyTurnsCompacted' /\ AnswerIsDone' /\ NoPartialAnswer'
    BY <1>1 DEF IInv, OnlyTurnsCompacted, AnswerIsDone, NoPartialAnswer
  <1>4. CompactionKeepsContent'
    <2> SUFFICES ASSUME NEW i \in 1..lastMsg,
                        i \notin Content(messages) \cup erased \cup lost
                 PROVE  \E q \in Reqs : req'[q].pc = "summary" /\ i \in req'[q].oldest
      BY DEF CompactionKeepsContent, Content
    <2>1. PICK q \in Reqs : req[q].pc = "summary" /\ i \in req[q].oldest
      BY DEF IInv, CompactionKeepsContent
    <2> QED
      BY <2>1, <1>1
  <1> QED
    BY <1>2, <1>3, <1>4 DEF IInv

\* A step that deletes rows for good, at a user's demand, and ends the
\* request preserves the invariant.
LEMMA ErasePreserves ==
    ASSUME IInv, UNCHANGED <<lastMsg, lost>>,
           NEW gone \in SUBSET messages,
           messages' = messages \ gone,
           erased' = erased \cup Content(gone),
           \/ UNCHANGED req
           \/ \E r \in Reqs : req[r].pc # "summary" /\ req' = [req EXCEPT ![r] = Idle],
           DOMAIN convs' \subseteq Convs, convs' \in [DOMAIN convs' -> Users]
    PROVE  IInv'
  <1>1. /\ req \in [Reqs -> Local] /\ Local' = Local /\ Message' = Message
        /\ Idle \in Local /\ Idle.pc = "idle" /\ Idle.oldest = {}
    BY DEF IInv, TypeOK, Local, Message, Idle
  <1>2. /\ req' \in [Reqs -> Local]
        /\ \A q \in Reqs : \/ req'[q] = req[q]
                           \/ req'[q] = Idle /\ req[q].pc # "summary"
    BY <1>1
  <1>3. Content(gone) \subseteq 1..lastMsg
    BY DEF Content, IInv, TypeOK, Message
  <1>4. TypeOK'
    BY <1>1, <1>2, <1>3 DEF IInv, TypeOK
  <1>5. OnlyTurnsCompacted' /\ AnswerIsDone' /\ NoPartialAnswer'
    BY <1>1, <1>2 DEF IInv, OnlyTurnsCompacted, AnswerIsDone, NoPartialAnswer
  <1>6. Content(messages) \subseteq Content(messages') \cup Content(gone)
    BY DEF Content
  <1>7. CompactionKeepsContent'
    <2> SUFFICES ASSUME NEW i \in 1..lastMsg,
                        i \notin Content(messages') \cup erased' \cup lost
                 PROVE  \E q \in Reqs : req'[q].pc = "summary" /\ i \in req'[q].oldest
      BY DEF CompactionKeepsContent, Content
    <2>1. PICK q \in Reqs : req[q].pc = "summary" /\ i \in req[q].oldest
      BY <1>6 DEF IInv, CompactionKeepsContent
    <2> QED
      BY <2>1, <1>1, <1>2
  <1> QED
    BY <1>4, <1>5, <1>7 DEF IInv

\* The steps of a request that leave the messages alone.
LEMMA QuietSteps ==
    ASSUME IInv, NEW r \in Reqs,
           \/ \E u \in Users, c \in Convs : Chat(r, u, c)
           \/ EnsureConversation(r) \/ CountTurns(r) \/ ReadOldest(r) \/ Summarize(r)
           \/ StreamText(r) \/ Disconnect(r)
           \/ \E done \in BOOLEAN : EndStream(r, done)
           \/ \E u \in Users, c \in Convs, step \in {"clear", "remove"} :
                 Erase(r, u, c, step)
    PROVE  IInv'
  <1>1. /\ req \in [Reqs -> Local] /\ req[r] \in Local
        /\ DOMAIN convs \subseteq Convs /\ convs \in [DOMAIN convs -> Users]
        /\ \A m \in messages : m.id \in req[r].oldest => m.covers = {}
        /\ req[r].pc = "answer" => req[r].done
        /\ req[r].pc # "idle" => req[r].user \in Users /\ req[r].conv \in Convs
    BY DEF IInv, TypeOK, OnlyTurnsCompacted, AnswerIsDone
  <1>2. Idle \in Local /\ Idle.oldest = {} /\ Idle.pc = "idle"
    BY DEF Idle, Local
  <1>3. ASSUME NEW u \in Users, NEW c \in Convs,
               NEW step \in {"ensure", "clear", "remove"},
               Await(r, [Idle EXCEPT !.user = u, !.conv = c], step),
               req[r].pc = "idle",
               UNCHANGED <<convs, messages, lastMsg, erased, lost>>
        PROVE  IInv'
    <2> DEFINE new == [Idle EXCEPT !.user = u, !.conv = c, !.pc = step]
    <2>1. /\ new \in Local /\ new.oldest = {} /\ new.pc = step
          /\ new.user = u /\ new.conv = c
      BY DEF Idle, Local
    <2>2. req' = [req EXCEPT ![r] = new]
      BY <1>3 DEF Await, Idle
    <2> QED
      BY <1>1, <1>3, <2>1, <2>2, QuietPreserves
  <1>4. ASSUME NEW step \in {"count", "save", "oldest", "compact"},
               Await(r, req[r], step),
               req[r].pc \notin {"idle", "summary"},
               UNCHANGED <<messages, lastMsg, erased, lost>>,
               DOMAIN convs' \subseteq Convs, convs' \in [DOMAIN convs' -> Users]
        PROVE  IInv'
    <2> DEFINE new == [req[r] EXCEPT !.pc = step]
    <2>1. /\ new \in Local /\ new.oldest = req[r].oldest /\ new.pc = step
          /\ new.user = req[r].user /\ new.conv = req[r].conv
      BY <1>1 DEF Local
    <2>2. req' = [req EXCEPT ![r] = new]
      BY <1>4 DEF Await
    <2> QED
      BY <1>1, <1>4, <2>1, <2>2, QuietPreserves
  <1>5. ASSUME Respond(r), req[r].pc # "summary",
               UNCHANGED <<convs, messages, lastMsg, erased, lost>>
        PROVE  IInv'
    BY <1>1, <1>2, <1>5, QuietPreserves DEF Respond
  <1>6. CASE \E u \in Users, c \in Convs : Chat(r, u, c)
    BY <1>3, <1>6 DEF Chat
  <1>7. CASE EnsureConversation(r)
    <2>1. DOMAIN convs' \subseteq Convs /\ convs' \in [DOMAIN convs' -> Users]
      BY <1>1, <1>7 DEF EnsureConversation
    <2> QED
      BY <1>4, <1>7, <2>1 DEF EnsureConversation
  <1>8. CASE CountTurns(r)
    BY <1>1, <1>4, <1>8 DEF CountTurns
  <1>9. CASE ReadOldest(r)
    <2> DEFINE turns == Turns(req[r].conv)
               oldest == {m.id : m \in {n \in turns :
                            Cardinality({k \in turns : k.id < n.id}) < Batch}}
    <2>1. PICK step \in {"save", "summarize"} :
             req' = [req EXCEPT ![r] = [req[r] EXCEPT !.oldest = oldest, !.pc = step]]
      BY <1>1, <1>9 DEF ReadOldest, Await, Local
    <2>2. /\ oldest \in SUBSET (1..lastMsg)
          /\ \A m \in messages : m.id \in oldest => m.covers = {}
      BY DEF Turns, In, IInv, TypeOK, Message, OnlyTurnsCompacted
    <2> HIDE DEF oldest
    <2> DEFINE new == [req[r] EXCEPT !.oldest = oldest, !.pc = step]
    <2>3. /\ new \in Local /\ new.oldest = oldest /\ new.pc = step
          /\ new.user = req[r].user /\ new.conv = req[r].conv
      BY <1>1, <2>2 DEF Local
    <2> QED
      BY <1>1, <1>9, <2>1, <2>2, <2>3, QuietPreserves DEF ReadOldest
  <1>10. CASE Summarize(r)
    BY <1>1, <1>4, <1>5, <1>10 DEF Summarize
  <1>11. CASE StreamText(r)
    <2> DEFINE new == [req[r] EXCEPT !.text = 1, !.pc = "stream"]
    <2>1. /\ new \in Local /\ new.oldest = req[r].oldest /\ new.pc = "stream"
          /\ new.user = req[r].user /\ new.conv = req[r].conv
      BY <1>1 DEF Local
    <2>2. req' = [req EXCEPT ![r] = new]
      BY <1>1, <1>11 DEF StreamText, Await, Local
    <2> QED
      BY <1>1, <1>11, <2>1, <2>2, QuietPreserves DEF StreamText
  <1>12. CASE Disconnect(r)
    BY <1>5, <1>12 DEF Disconnect
  <1>13. ASSUME NEW done \in BOOLEAN, EndStream(r, done)
         PROVE  IInv'
    <2>1. CASE done /\ req[r].text > 0
      <3> DEFINE new == [req[r] EXCEPT !.done = done, !.pc = "answer"]
      <3>1. /\ new \in Local /\ new.oldest = req[r].oldest /\ new.pc = "answer"
            /\ new.user = req[r].user /\ new.conv = req[r].conv /\ new.done = done
        BY <1>1 DEF Local
      <3>2. req' = [req EXCEPT ![r] = new]
        BY <1>1, <1>13, <2>1 DEF EndStream, Await, Local
      <3> QED
        BY <1>1, <1>13, <2>1, <3>1, <3>2, QuietPreserves DEF EndStream
    <2>2. CASE ~(done /\ req[r].text > 0)
      BY <1>5, <1>13, <2>2 DEF EndStream
    <2> QED
      BY <2>1, <2>2
  <1>14. CASE \E u \in Users, c \in Convs, step \in {"clear", "remove"} :
                 Erase(r, u, c, step)
    BY <1>3, <1>14 DEF Erase
  <1> QED
    BY <1>6, <1>7, <1>8, <1>9, <1>10, <1>11, <1>12, <1>13, <1>14

\* The steps that delete rows.
LEMMA DeletingSteps ==
    ASSUME IInv, NEW r \in Reqs,
           ClearHistory(r) \/ RemoveConversation(r) \/ ClearAll \/ DeleteOldest(r)
    PROVE  IInv'
  <1>1. /\ req \in [Reqs -> Local] /\ req[r] \in Local
        /\ DOMAIN convs \subseteq Convs /\ convs \in [DOMAIN convs -> Users]
    BY DEF IInv, TypeOK
  <1>2. CASE ClearHistory(r)
    BY <1>1, <1>2, ErasePreserves DEF ClearHistory, In, Respond
  <1>3. CASE RemoveConversation(r)
    <2>1. DOMAIN convs' \subseteq Convs /\ convs' \in [DOMAIN convs' -> Users]
      BY <1>1, <1>3 DEF RemoveConversation
    <2> QED
      BY <1>1, <1>3, <2>1, ErasePreserves DEF RemoveConversation, In, Respond
  <1>4. CASE ClearAll
    <2>1. messages' = messages \ messages
      BY <1>4 DEF ClearAll
    <2> QED
      BY <1>1, <1>4, <2>1, ErasePreserves DEF ClearAll
  <1>5. CASE DeleteOldest(r)
    <2> DEFINE new == [req[r] EXCEPT !.pc = "summary"]
    <2>1. /\ new \in Local /\ new.oldest = req[r].oldest /\ new.pc = "summary"
          /\ new.user = req[r].user /\ new.conv = req[r].conv
      BY <1>1 DEF Local
    <2>2. /\ req' = [req EXCEPT ![r] = new] /\ req[r].pc = "compact"
          /\ messages' = {m \in messages : m.id \notin req[r].oldest}
          /\ UNCHANGED <<convs, lastMsg, erased, lost>>
      BY <1>5 DEF DeleteOldest, Await
    <2> HIDE DEF new
    <2>3. /\ Local' = Local /\ Message' = Message
          /\ \A q \in Reqs : req'[q] = IF q = r THEN new ELSE req[q]
      BY <1>1, <2>2 DEF Local, Message
    <2>4. TypeOK'
      BY <1>1, <2>1, <2>2, <2>3 DEF IInv, TypeOK
    <2>5. OnlyTurnsCompacted' /\ AnswerIsDone' /\ NoPartialAnswer'
      BY <1>1, <2>1, <2>2, <2>3
      DEF IInv, OnlyTurnsCompacted, AnswerIsDone, NoPartialAnswer
    <2>6. Content(messages) \subseteq Content(messages') \cup req[r].oldest
      <3> SUFFICES ASSUME NEW i \in Content(messages), i \notin req[r].oldest
                   PROVE  i \in Content(messages')
        OBVIOUS
      <3>1. PICK m \in messages : i = m.id \/ i \in m.covers
        BY DEF Content
      <3>2. m \in messages'
        BY <3>1, <2>2 DEF IInv, OnlyTurnsCompacted
      <3> QED
        BY <3>1, <3>2 DEF Content
    <2>7. CompactionKeepsContent'
      <3> SUFFICES ASSUME NEW i \in 1..lastMsg,
                          i \notin Content(messages') \cup erased \cup lost
                   PROVE  \E q \in Reqs : req'[q].pc = "summary" /\ i \in req'[q].oldest
        BY <2>2 DEF CompactionKeepsContent, Content
      <3>1. CASE i \in Content(messages)
        BY <3>1, <2>1, <2>3, <2>6
      <3>2. CASE i \notin Content(messages)
        BY <3>2, <2>2, <2>3 DEF IInv, CompactionKeepsContent
      <3> QED
        BY <3>1, <3>2
    <2> QED
      BY <2>4, <2>5, <2>7 DEF IInv
  <1> QED
    BY <1>2, <1>3, <1>4, <1>5

\* The steps that insert a row.
LEMMA InsertingSteps ==
    ASSUME IInv, NEW r \in Reqs,
           SaveSummary(r) \/ SaveUserMessage(r) \/ SaveAnswer(r)
    PROVE  IInv'
  <1>1. /\ req \in [Reqs -> Local] /\ req[r] \in Local /\ lastMsg \in Nat
        /\ DOMAIN convs \subseteq Convs /\ convs \in [DOMAIN convs -> Users]
        /\ req[r].pc = "answer" => req[r].done
        /\ req[r].pc # "idle" => req[r].user \in Users /\ req[r].conv \in Convs
    BY DEF IInv, TypeOK, AnswerIsDone
  <1>2. Idle \in Local /\ Idle.oldest = {} /\ Idle.pc = "idle"
    BY DEF Idle, Local
  <1>3. SUFFICES ASSUME NEW role \in {"user", "assistant", "summary"},
                        NEW user \in Users \cup {Nobody},
                        NEW covers \in SUBSET (1..lastMsg), NEW whole \in BOOLEAN,
                        NEW new \in Local,
                        Insert(role, r, user, covers, whole),
                        req' = [req EXCEPT ![r] = new],
                        UNCHANGED <<convs, erased, lost>>,
                        req[r].pc # "idle",
                        role # "summary" => covers = {},
                        role = "assistant" => whole,
                        req[r].pc = "summary" => covers = req[r].oldest,
                        new.pc \in {"save", "stream", "idle"},
                        new.pc # "idle" => new.user \in Users /\ new.conv \in Convs,
                        new.oldest \subseteq req[r].oldest
                 PROVE  IInv'
    <2>1. CASE SaveSummary(r)
      <3> DEFINE new == [req[r] EXCEPT !.oldest = {}, !.pc = "save"]
      <3>1. /\ new \in Local /\ new.oldest = {} /\ new.pc = "save"
            /\ new.user = req[r].user /\ new.conv = req[r].conv
            /\ req[r].oldest \in SUBSET (1..lastMsg)
        BY <1>1 DEF Local
      <3>2. /\ req' = [req EXCEPT ![r] = new] /\ req[r].pc = "summary"
            /\ Insert("summary", r, Nobody, req[r].oldest, TRUE)
            /\ UNCHANGED <<convs, erased, lost>>
        BY <1>1, <2>1 DEF SaveSummary, Await
      <3> HIDE DEF new
      <3> QED
        BY <1>1, <1>3, <3>1, <3>2
    <2>2. CASE SaveUserMessage(r)
      <3> DEFINE new == [req[r] EXCEPT !.pc = "stream"]
      <3>1. /\ new \in Local /\ new.oldest = req[r].oldest /\ new.pc = "stream"
            /\ new.user = req[r].user /\ new.conv = req[r].conv
        BY <1>1 DEF Local
      <3>2. /\ req' = [req EXCEPT ![r] = new] /\ req[r].pc = "save"
            /\ Insert("user", r, req[r].user, {}, TRUE)
            /\ UNCHANGED <<convs, erased, lost>>
        BY <1>1, <2>2 DEF SaveUserMessage, Await
      <3> HIDE DEF new
      <3> QED
        BY <1>1, <1>3, <3>1, <3>2
    <2>3. CASE SaveAnswer(r)
      <3>1. /\ req' = [req EXCEPT ![r] = Idle] /\ req[r].pc = "answer"
            /\ Insert("assistant", r, req[r].user, {}, req[r].done)
            /\ UNCHANGED <<convs, erased, lost>>
            /\ req[r].done \in BOOLEAN
        BY <1>1, <2>3 DEF SaveAnswer, Respond, Local
      <3> QED
        BY <1>1, <1>2, <1>3, <3>1
    <2> QED
      BY <2>1, <2>2, <2>3
  <1>4. /\ lastMsg' \in 0..MaxMsgs
        /\ messages' \subseteq Message'
        /\ \A m, n \in messages' : m.id = n.id => m = n
        /\ \A m \in messages' : \A i \in m.covers : i < m.id
        /\ \A m \in messages' : m.role # "summary" => m.covers = {}
        /\ NoPartialAnswer'
        /\ Content(messages') = Content(messages) \cup covers \cup {lastMsg'}
    <2> DEFINE row == [id |-> lastMsg + 1, role |-> role, conv |-> req[r].conv,
                       user |-> user, covers |-> covers, whole |-> whole]
    <2>1. /\ lastMsg' = lastMsg + 1 /\ lastMsg < MaxMsgs
          /\ messages' = messages \cup {row}
      BY <1>3 DEF Insert
    <2>0. /\ row.id = lastMsg + 1 /\ row.covers = covers
          /\ row.role = role /\ row.whole = whole
      BY <1>3
    <2> HIDE DEF row
    <2>2. row \in Message'
      BY <1>1, <1>3, <2>1 DEF row, Message, IInv, TypeOK
    <2>3. messages \subseteq Message'
      BY <2>1, LocalsGrow DEF IInv, TypeOK
    <2>4. \A m \in messages : m.id <= lastMsg
      BY DEF IInv, TypeOK, Message
    <2>5. \A m, n \in messages' : m.id = n.id => m = n
      BY <2>0, <2>1, <2>4 DEF IInv, TypeOK
    <2>6. \A m \in messages' : \A i \in m.covers : i < m.id
      BY <1>3, <2>0, <2>1 DEF IInv, TypeOK
    <2>7. Content(messages') = Content(messages) \cup covers \cup {lastMsg'}
      <3>1. {m.id : m \in messages'} = {m.id : m \in messages} \cup {lastMsg'}
        BY <2>0, <2>1
      <3>2. {m.covers : m \in messages'} = {m.covers : m \in messages} \cup {covers}
        BY <2>0, <2>1
      <3>3. UNION ({m.covers : m \in messages} \cup {covers}) =
                (UNION {m.covers : m \in messages}) \cup covers
        OBVIOUS
      <3> QED
        BY <3>1, <3>2, <3>3 DEF Content
    <2>8. lastMsg' \in 0..MaxMsgs
      BY <1>1, <2>1, ConversationsAssumption DEF IInv, TypeOK, ConversationsAssumption
    <2>9. \A m \in messages' : m.role # "summary" => m.covers = {}
      BY <1>3, <2>0, <2>1 DEF IInv, OnlyTurnsCompacted
    <2>10. NoPartialAnswer'
      BY <1>3, <2>0, <2>1 DEF IInv, NoPartialAnswer
    <2> QED
      BY <2>1, <2>2, <2>3, <2>5, <2>6, <2>7, <2>8, <2>9, <2>10
  <1>5. lastMsg' = lastMsg + 1
    BY <1>3 DEF Insert
  <1>6. /\ Local \subseteq Local'
        /\ \A q \in Reqs : req'[q] = IF q = r THEN new ELSE req[q]
    BY <1>1, <1>3, <1>5, LocalsGrow DEF IInv
  <1>7. TypeOK'
    <2>1. req' \in [Reqs -> Local']
      BY <1>1, <1>3, <1>6
    <2>2. \A q \in Reqs : req'[q].pc # "idle" =>
                             req'[q].user \in Users /\ req'[q].conv \in Convs
      BY <1>3, <1>6 DEF IInv, TypeOK
    <2>3. erased' \subseteq 1..lastMsg' /\ lost' \subseteq 1..lastMsg'
      BY <1>1, <1>3, <1>5 DEF IInv, TypeOK
    <2> QED
      BY <1>1, <1>3, <1>4, <2>1, <2>2, <2>3 DEF TypeOK
  <1>8. OnlyTurnsCompacted'
    <2>1. \A q \in Reqs : req'[q].oldest \subseteq req[q].oldest
      BY <1>3, <1>6
    <2>2. \A q \in Reqs : lastMsg + 1 \notin req[q].oldest
      BY <1>1 DEF Local
    <2>3. \A m \in messages' : m \in messages \/ m.id = lastMsg + 1
      BY <1>1, <1>3 DEF Insert
    <2> QED
      BY <1>4, <2>1, <2>2, <2>3 DEF IInv, OnlyTurnsCompacted
  <1>9. AnswerIsDone'
    BY <1>3, <1>6 DEF IInv, AnswerIsDone
  <1>10. CompactionKeepsContent'
    <2> SUFFICES ASSUME NEW i \in 1..lastMsg',
                        i \notin Content(messages') \cup erased \cup lost
                 PROVE  \E q \in Reqs : req'[q].pc = "summary" /\ i \in req'[q].oldest
      BY <1>3 DEF CompactionKeepsContent, Content
    <2>1. i \in 1..lastMsg /\ i \notin Content(messages) /\ i \notin covers
      BY <1>1, <1>4, <1>5
    <2>2. PICK q \in Reqs : req[q].pc = "summary" /\ i \in req[q].oldest
      BY <2>1 DEF IInv, CompactionKeepsContent
    <2>3. q # r
      BY <1>3, <2>1, <2>2
    <2> QED
      BY <1>6, <2>2, <2>3
  <1> QED
    BY <1>4, <1>7, <1>8, <1>9, <1>10 DEF IInv

\* A request that dies loses what it was about to summarise, and no more.
LEMMA AbortPreserves ==
    ASSUME IInv, NEW r \in Reqs, Abort(r)
    PROVE  IInv'
  <1>1. /\ req \in [Reqs -> Local] /\ Local' = Local /\ Message' = Message
        /\ Idle \in Local /\ Idle.oldest = {} /\ Idle.pc = "idle"
        /\ req[r].oldest \subseteq 1..lastMsg
        /\ \A q \in Reqs : req'[q] = IF q = r THEN Idle ELSE req[q]
        /\ UNCHANGED <<convs, messages, lastMsg, erased>>
        /\ lost' = IF req[r].pc = "summary" THEN lost \cup req[r].oldest ELSE lost
    BY DEF Abort, Respond, IInv, TypeOK, Local, Message, Idle
  <1>2. TypeOK'
    <2>1. req' \in [Reqs -> Local]
      BY <1>1 DEF Abort, Respond
    <2> QED
      BY <1>1, <2>1 DEF IInv, TypeOK
  <1>3. OnlyTurnsCompacted' /\ AnswerIsDone' /\ NoPartialAnswer'
    BY <1>1 DEF IInv, OnlyTurnsCompacted, AnswerIsDone, NoPartialAnswer
  <1>4. CompactionKeepsContent'
    <2> SUFFICES ASSUME NEW i \in 1..lastMsg,
                        i \notin Content(messages) \cup erased \cup lost'
                 PROVE  \E q \in Reqs : req'[q].pc = "summary" /\ i \in req'[q].oldest
      BY <1>1 DEF CompactionKeepsContent, Content
    <2>1. PICK q \in Reqs : req[q].pc = "summary" /\ i \in req[q].oldest
      BY <1>1 DEF IInv, CompactionKeepsContent
    <2>2. q # r
      BY <1>1, <2>1
    <2> QED
      BY <1>1, <2>1, <2>2
  <1> QED
    BY <1>2, <1>3, <1>4 DEF IInv

\* Every step of Next preserves the invariant.
LEMMA NextIInv == ASSUME IInv, [Next]_vars PROVE IInv'
  <1>1. ASSUME NEW r \in Reqs, Handler(r)
        PROVE  IInv'
    BY <1>1, QuietSteps, DeletingSteps, InsertingSteps, AbortPreserves
    DEF Handler, Compaction, Answer
  <1>2. CASE ClearAll
    <2>1. CASE Reqs = {}
      BY <1>2, <2>1 DEF ClearAll, IInv, TypeOK, OnlyTurnsCompacted, AnswerIsDone,
             CompactionKeepsContent, NoPartialAnswer, Content, Message, Local
    <2>2. CASE Reqs # {}
      BY <1>2, <2>2, DeletingSteps
    <2> QED
      BY <2>1, <2>2
  <1>3. CASE UNCHANGED vars
    BY <1>3 DEF vars, IInv, TypeOK, OnlyTurnsCompacted, AnswerIsDone,
                CompactionKeepsContent, NoPartialAnswer, Content, Message, Local
  <1> QED
    BY <1>1, <1>2, <1>3 DEF Next

\* The inductive invariant: what the steps of any number of requests on any
\* number of conversations preserve.
THEOREM InductiveInvariant == Spec => []IInv
  <1>1. Init => IInv
    BY InitIInv
  <1>2. IInv /\ [Next]_vars => IInv'
    BY NextIInv
  <1> QED
    BY <1>1, <1>2, PTL DEF Spec

\* The tables and the requests keep their types; ids stay unique and a
\* summary never covers itself or a later message.
THEOREM TypeCorrect == Spec => []TypeOK
  <1>1. IInv => TypeOK
    BY DEF IInv
  <1> QED
    BY <1>1, InductiveInvariant, PTL

\* However many requests compact, clear or delete a conversation at once, no
\* message is forgotten, but for the batch of a request that dies between
\* delete_messages_by_ids and save_summary (chat.py:82-83).
THEOREM CompactionForgetsNothing == Spec => []CompactionKeepsContent
  <1>1. IInv => CompactionKeepsContent
    BY DEF IInv
  <1> QED
    BY <1>1, InductiveInvariant, PTL

\* Every answer in the table is a whole one, however its stream ended.
THEOREM AnswersAreWhole == Spec => []NoPartialAnswer
  <1>1. IInv => NoPartialAnswer
    BY DEF IInv
  <1> QED
    BY <1>1, InductiveInvariant, PTL

\* No request, of any user, changes the owner of a conversation that exists.
THEOREM OwnersNeverChange == Spec => OwnerNeverChanges
  <1>1. [Next]_vars => [\A c \in DOMAIN convs \cap DOMAIN convs' : convs'[c] = convs[c]]_vars
    <2> SUFFICES ASSUME Next
                 PROVE  \A c \in DOMAIN convs \cap DOMAIN convs' : convs'[c] = convs[c]
      OBVIOUS
    <2>1. \/ UNCHANGED convs
          \/ \E r \in Reqs : EnsureConversation(r) \/ RemoveConversation(r)
      BY DEF Next, Handler, Compaction, Answer, Chat, CountTurns, ReadOldest, Summarize,
             DeleteOldest, SaveSummary, SaveUserMessage, StreamText, EndStream,
             SaveAnswer, Disconnect, Erase, ClearHistory, ClearAll, Abort
    <2>2. ASSUME NEW r \in Reqs, EnsureConversation(r)
          PROVE  \A c \in DOMAIN convs \cap DOMAIN convs' : convs'[c] = convs[c]
      BY <2>2 DEF EnsureConversation
    <2>3. ASSUME NEW r \in Reqs, RemoveConversation(r)
          PROVE  \A c \in DOMAIN convs \cap DOMAIN convs' : convs'[c] = convs[c]
      BY <2>3 DEF RemoveConversation
    <2> QED
      BY <2>1, <2>2, <2>3
  <1> QED
    BY <1>1, PTL DEF Spec, OwnerNeverChanges

-----------------------------------------------------------------------------
(* How many rows there are: the invariant *)

Covering(i) == {m \in messages : i \in m.covers}
Holding(i) == {r \in Reqs : i \in req[r].oldest}

\* A message is in the summaries and the requests that read it while it was a
\* turn; a request's own rows are gone when it stores their summary.
SummaryCounts ==
    /\ \A i \in 1..lastMsg :
         Cardinality(Covering(i)) + Cardinality(Holding(i)) <= Cardinality(Reqs)
    /\ \A m \in messages : m.role # "summary" => Covering(m.id) = {}
    /\ \A r \in Reqs : req[r].pc = "summary" => \A m \in messages : m.id \notin req[r].oldest

\* Of the requests on a conversation, those that have read what they will
\* delete, and those that add two messages, or one, whatever happens.
Compacting(c) == {r \in Reqs : req[r].conv = c /\ req[r].pc \in {"summarize", "compact"}}
OwesTwo(c) == {r \in Reqs : req[r].conv = c /\ req[r].pc \in {"summary", "save"}}
OwesOne(c) == {r \in Reqs : req[r].conv = c /\ req[r].pc \in {"stream", "answer"}}

\* what the requests of S leave when they have deleted
Left(c, S) == {m \in Turns(c) : \A r \in S : m.id \notin req[r].oldest}

Fits(T, two, one) ==
    Cardinality(T) + 2 * Cardinality(two) + Cardinality(one)
      <= MaxTurns + 2 * Cardinality(Reqs)

RoomAfter(c, S) == Fits(Left(c, S), OwesTwo(c) \cup S, OwesOne(c))

\* Whichever of the requests that have read delete first, there is room for
\* what they and the others add.
RoomRemains ==
    2 * Cardinality(Reqs) <= Batch =>
      \A c \in Convs : \A S \in SUBSET Compacting(c) :
        RoomAfter(c, S)

BInv == /\ IInv
        /\ IsFiniteSet(messages)
        /\ SummaryCounts
        /\ RoomRemains

-----------------------------------------------------------------------------
(* What a step does to one request and to the messages *)

Uncounted == {"idle", "ensure", "count", "oldest", "clear", "remove"}

OldestIds(c) ==
    {m.id : m \in {n \in Turns(c) : Cardinality({k \in Turns(c) : k.id < n.id}) < Batch}}

SameWork(r) == req'[r].conv = req[r].conv /\ req'[r].oldest = req[r].oldest

\* the request ends, or has not counted yet
Rests(r) ==
    /\ messages' \subseteq messages /\ lastMsg' = lastMsg
    /\ req'[r].oldest \subseteq req[r].oldest /\ req'[r].pc \in Uncounted

GoesOn(r) ==
    /\ messages' = messages /\ lastMsg' = lastMsg /\ SameWork(r)
    /\ \/ req[r].pc = "summarize" /\ req'[r].pc = "compact"
       \/ req[r].pc = "stream" /\ req'[r].pc \in {"stream", "answer"}

CountsFew(r) ==
    /\ messages' = messages /\ lastMsg' = lastMsg /\ SameWork(r)
    /\ req[r].pc = "count" /\ req'[r].pc = "save"
    /\ Cardinality(Turns(req[r].conv)) <= MaxTurns

Reads(r) ==
    /\ messages' = messages /\ lastMsg' = lastMsg
    /\ req[r].pc = "oldest" /\ req'[r].conv = req[r].conv
    /\ req'[r].oldest = OldestIds(req[r].conv)
    /\ req'[r].pc = IF req'[r].oldest = {} THEN "save" ELSE "summarize"

Deletes(r) ==
    /\ messages' = {m \in messages : m.id \notin req[r].oldest}
    /\ lastMsg' = lastMsg /\ SameWork(r)
    /\ req[r].pc = "compact" /\ req'[r].pc = "summary"

Saves(r, row) ==
    /\ messages' = messages \cup {row} /\ lastMsg' = lastMsg + 1
    /\ row.id = lastMsg + 1 /\ row.conv = req[r].conv
    /\ \/ /\ req[r].pc = "summary" /\ row.role = "summary" /\ row.covers = req[r].oldest
          /\ req'[r].pc = "save" /\ req'[r].conv = req[r].conv /\ req'[r].oldest = {}
       \/ /\ req[r].pc = "save" /\ row.role = "user" /\ row.covers = {}
          /\ req'[r].pc = "stream" /\ SameWork(r)
       \/ /\ req[r].pc = "answer" /\ row.role = "assistant" /\ row.covers = {}
          /\ req'[r].pc = "idle" /\ req'[r].oldest = {}

Moves(r) ==
    /\ \A q \in Reqs \ {r} : req'[q] = req[q]
    /\ \/ Rests(r) \/ GoesOn(r) \/ CountsFew(r) \/ Reads(r) \/ Deletes(r)
       \/ \E row : Saves(r, row)

\* A local update, field by field.
LEMMA AwaitFacts ==
    ASSUME TypeOK, NEW r \in Reqs, NEW x \in Local, NEW step, Await(r, x, step)
    PROVE  /\ \A q \in Reqs \ {r} : req'[q] = req[q]
           /\ req'[r].pc = step
           /\ req'[r].conv = x.conv /\ req'[r].oldest = x.oldest
BY DEF Await, TypeOK, Local

LEMMA RespondFacts ==
    ASSUME TypeOK, NEW r \in Reqs, Respond(r)
    PROVE  /\ \A q \in Reqs \ {r} : req'[q] = req[q]
           /\ req'[r].pc = "idle" /\ req'[r].oldest = {}
BY DEF Respond, TypeOK, Idle

LEMMA HandlerMoves ==
    ASSUME TypeOK, NEW r \in Reqs, Handler(r)
    PROVE  Moves(r)
<1> USE DEF Moves
<1>1. req \in [Reqs -> Local] /\ req[r] \in Local /\ lastMsg \in Nat
  BY DEF TypeOK
<1>2. ASSUME Respond(r), messages' \subseteq messages, lastMsg' = lastMsg
      PROVE  Moves(r)
  BY <1>2, RespondFacts DEF Rests, Uncounted
<1>3. ASSUME NEW u \in Users, NEW c \in Convs, NEW step \in {"ensure", "clear", "remove"},
             Await(r, [Idle EXCEPT !.user = u, !.conv = c], step),
             UNCHANGED <<messages, lastMsg>>
      PROVE  Moves(r)
  <2> DEFINE x == [Idle EXCEPT !.user = u, !.conv = c]
  <2>1. x \in Local /\ x.oldest = {}
    BY DEF Idle, Local
  <2> HIDE DEF x
  <2>2. /\ \A q \in Reqs \ {r} : req'[q] = req[q]
        /\ req'[r].pc = step /\ req'[r].oldest = {}
    BY <1>3, <2>1, AwaitFacts DEF x
  <2> QED  BY <1>3, <2>2 DEF Rests, Uncounted
<1>4. CASE \E u \in Users, c \in Convs : Chat(r, u, c)
  BY <1>3, <1>4 DEF Chat
<1>5. CASE \E u \in Users, c \in Convs, step \in {"clear", "remove"} : Erase(r, u, c, step)
  BY <1>3, <1>5 DEF Erase
<1>6. ASSUME NEW step, Await(r, req[r], step)
      PROVE  /\ \A q \in Reqs \ {r} : req'[q] = req[q]
             /\ req'[r].pc = step /\ SameWork(r)
  BY <1>1, <1>6, AwaitFacts DEF SameWork
<1>7. CASE EnsureConversation(r)
  BY <1>6, <1>7 DEF EnsureConversation, Rests, Uncounted, SameWork
<1>8. CASE CountTurns(r)
  <2>1. CASE Cardinality(Turns(req[r].conv)) <= MaxTurns
    BY <1>6, <1>8, <2>1 DEF CountTurns, CountsFew
  <2>2. CASE ~(Cardinality(Turns(req[r].conv)) <= MaxTurns)
    BY <1>6, <1>8, <2>2 DEF CountTurns, Rests, Uncounted, SameWork
  <2> QED  BY <2>1, <2>2
<1>9. CASE ReadOldest(r)
  <2> DEFINE o == OldestIds(req[r].conv)
             x == [req[r] EXCEPT !.oldest = o]
  <2>1. o \in SUBSET (1..lastMsg)
    BY DEF OldestIds, Turns, In, TypeOK, Message
  <2>2. /\ Await(r, x, IF o = {} THEN "save" ELSE "summarize") /\ req[r].pc = "oldest"
        /\ UNCHANGED <<messages, lastMsg>>
    BY <1>9 DEF ReadOldest, OldestIds
  <2> HIDE DEF o
  <2>3. x \in Local /\ x.oldest = o /\ x.conv = req[r].conv
    BY <1>1, <2>1 DEF Local
  <2> HIDE DEF x
  <2>4. /\ \A q \in Reqs \ {r} : req'[q] = req[q]
        /\ req'[r].pc = (IF o = {} THEN "save" ELSE "summarize")
        /\ req'[r].conv = req[r].conv /\ req'[r].oldest = o
    BY <2>2, <2>3, AwaitFacts
  <2> QED  BY <2>2, <2>4 DEF Reads, o
<1>10. CASE Summarize(r)
  <2>1. CASE Await(r, req[r], "compact")
    BY <1>6, <1>10, <2>1 DEF Summarize, GoesOn
  <2>2. CASE Respond(r)
    BY <1>2, <1>10, <2>2 DEF Summarize
  <2> QED  BY <1>10, <2>1, <2>2 DEF Summarize
<1>11. CASE DeleteOldest(r)
  BY <1>6, <1>11 DEF DeleteOldest, Deletes
<1>12. CASE SaveSummary(r)
  <2> DEFINE row == [id |-> lastMsg + 1, role |-> "summary", conv |-> req[r].conv,
                     user |-> Nobody, covers |-> req[r].oldest, whole |-> TRUE]
  <2>1. messages' = messages \cup {row} /\ lastMsg' = lastMsg + 1
    BY <1>12 DEF SaveSummary, Insert
  <2>2. /\ row.id = lastMsg + 1 /\ row.conv = req[r].conv
        /\ row.role = "summary" /\ row.covers = req[r].oldest
    OBVIOUS
  <2> HIDE DEF row
  <2> DEFINE x == [req[r] EXCEPT !.oldest = {}]
  <2>3. x \in Local /\ x.oldest = {} /\ x.conv = req[r].conv
    BY <1>1 DEF Local
  <2>4. Await(r, x, "save") /\ req[r].pc = "summary"
    BY <1>12 DEF SaveSummary
  <2> HIDE DEF x
  <2>5. /\ \A q \in Reqs \ {r} : req'[q] = req[q]
        /\ req'[r].pc = "save" /\ req'[r].conv = req[r].conv /\ req'[r].oldest = {}
    BY <2>3, <2>4, AwaitFacts
  <2>6. Saves(r, row)
    BY <2>1, <2>2, <2>4, <2>5 DEF Saves
  <2> QED  BY <2>5, <2>6
<1>13. CASE SaveUserMessage(r)
  <2> DEFINE row == [id |-> lastMsg + 1, role |-> "user", conv |-> req[r].conv,
                     user |-> req[r].user, covers |-> {}, whole |-> TRUE]
  <2>1. messages' = messages \cup {row} /\ lastMsg' = lastMsg + 1
    BY <1>13 DEF SaveUserMessage, Insert
  <2>2. /\ row.id = lastMsg + 1 /\ row.conv = req[r].conv
        /\ row.role = "user" /\ row.covers = {}
    OBVIOUS
  <2> HIDE DEF row
  <2>3. req[r].pc = "save" /\ Await(r, req[r], "stream")
    BY <1>13 DEF SaveUserMessage
  <2>4. Saves(r, row)
    BY <1>6, <2>1, <2>2, <2>3 DEF Saves
  <2> QED  BY <1>6, <2>3, <2>4
<1>14. CASE SaveAnswer(r)
  <2> DEFINE row == [id |-> lastMsg + 1, role |-> "assistant", conv |-> req[r].conv,
                     user |-> req[r].user, covers |-> {}, whole |-> req[r].done]
  <2>1. messages' = messages \cup {row} /\ lastMsg' = lastMsg + 1
    BY <1>14 DEF SaveAnswer, Insert
  <2>2. /\ row.id = lastMsg + 1 /\ row.conv = req[r].conv
        /\ row.role = "assistant" /\ row.covers = {}
    OBVIOUS
  <2> HIDE DEF row
  <2>3. req[r].pc = "answer" /\ Respond(r)
    BY <1>14 DEF SaveAnswer
  <2>4. Saves(r, row)
    BY <2>1, <2>2, <2>3, RespondFacts DEF Saves
  <2> QED  BY <2>3, <2>4, RespondFacts
<1>15. CASE StreamText(r)
  <2> DEFINE x == [req[r] EXCEPT !.text = 1]
  <2>1. x \in Local /\ x.oldest = req[r].oldest /\ x.conv = req[r].conv
    BY <1>1 DEF Local
  <2>2. Await(r, x, "stream") /\ req[r].pc = "stream" /\ UNCHANGED <<messages, lastMsg>>
    BY <1>15 DEF StreamText
  <2> HIDE DEF x
  <2> QED  BY <2>1, <2>2, AwaitFacts DEF GoesOn, SameWork
<1>16. ASSUME NEW done \in BOOLEAN, EndStream(r, done) PROVE Moves(r)
  <2>1. CASE Respond(r)
    BY <1>2, <1>16, <2>1 DEF EndStream
  <2>2. CASE Await(r, [req[r] EXCEPT !.done = done], "answer")
    <3> DEFINE x == [req[r] EXCEPT !.done = done]
    <3>1. x \in Local /\ x.oldest = req[r].oldest /\ x.conv = req[r].conv
      BY <1>1 DEF Local
    <3>2. Await(r, x, "answer") /\ req[r].pc = "stream" /\ UNCHANGED <<messages, lastMsg>>
      BY <1>16, <2>2 DEF EndStream
    <3> HIDE DEF x
    <3> QED  BY <3>1, <3>2, AwaitFacts DEF GoesOn, SameWork
  <2> QED  BY <1>16, <2>1, <2>2 DEF EndStream
<1>17. CASE Disconnect(r) \/ Abort(r)
  BY <1>2, <1>17 DEF Disconnect, Abort
<1>18. CASE ClearHistory(r) \/ RemoveConversation(r)
  BY <1>2, <1>18 DEF ClearHistory, RemoveConversation
<1> QED  BY <1>4, <1>5, <1>7, <1>8, <1>9, <1>10, <1>11, <1>12, <1>13, <1>14, <1>15, <1>16,
            <1>17, <1>18 DEF Handler, Compaction, Answer

-----------------------------------------------------------------------------
(* Summaries of one message *)

LEMMA Finite ==
    ASSUME TypeOK, IsFiniteSet(messages)
    PROVE  /\ IsFiniteSet(Reqs) /\ Cardinality(Reqs) \in Nat
           /\ \A c : IsFiniteSet(Turns(c)) /\ Cardinality(Turns(c)) \in Nat
           /\ \A i : IsFiniteSet(Covering(i)) /\ Cardinality(Covering(i)) \in Nat
           /\ \A i : IsFiniteSet(Holding(i)) /\ Cardinality(Holding(i)) \in Nat
                     /\ Cardinality(Holding(i)) <= Cardinality(Reqs)
           /\ \A c : OwesTwo(c) \in SUBSET Reqs /\ OwesOne(c) \in SUBSET Reqs
                     /\ Compacting(c) \in SUBSET Reqs
           /\ \A m \in messages : m.id \in 1..lastMsg /\ m.covers \in SUBSET (1..lastMsg)
           /\ \A r \in Reqs : req[r].oldest \in SUBSET (1..lastMsg)
           /\ lastMsg \in Nat /\ MaxTurns \in Nat /\ Batch \in Nat
<1>1. IsFiniteSet(Reqs) /\ MaxTurns \in Nat /\ Batch \in Nat
  BY ConversationsAssumption DEF ConversationsAssumption
<1>2. Cardinality(Reqs) \in Nat
  BY <1>1, FS_CardinalityType
<1>3. \A T \in SUBSET messages : IsFiniteSet(T) /\ Cardinality(T) \in Nat
  BY FS_Subset, FS_CardinalityType
<1>4. \A T \in SUBSET Reqs : IsFiniteSet(T) /\ Cardinality(T) \in Nat
                             /\ Cardinality(T) <= Cardinality(Reqs)
  BY <1>1, FS_Subset, FS_CardinalityType
<1>5. \A c : Turns(c) \in SUBSET messages
  BY DEF Turns, In
<1>6. \A i : Covering(i) \in SUBSET messages /\ Holding(i) \in SUBSET Reqs
  BY DEF Covering, Holding
<1>7. \A c : OwesTwo(c) \in SUBSET Reqs /\ OwesOne(c) \in SUBSET Reqs
             /\ Compacting(c) \in SUBSET Reqs
  BY DEF OwesTwo, OwesOne, Compacting
<1>8. /\ \A m \in messages : m.id \in 1..lastMsg /\ m.covers \in SUBSET (1..lastMsg)
      /\ \A r \in Reqs : req[r].oldest \in SUBSET (1..lastMsg)
      /\ lastMsg \in Nat
  BY DEF TypeOK, Message, Local
<1> QED  BY <1>1, <1>2, <1>3, <1>4, <1>5, <1>6, <1>7, <1>8

\* Messages go, requests give up what they hold.
LEMMA CountsShrink ==
    ASSUME TypeOK, IsFiniteSet(messages), SummaryCounts,
           messages' \subseteq messages, lastMsg' = lastMsg,
           \A q \in Reqs : req'[q].oldest \subseteq req[q].oldest,
           \A q \in Reqs : req'[q].pc = "summary" =>
             \/ req[q].pc = "summary"
             \/ \A m \in messages' : m.id \notin req'[q].oldest
    PROVE  SummaryCounts'
<1>1. \A i : Covering(i)' \in SUBSET Covering(i) /\ Holding(i)' \in SUBSET Holding(i)
  BY DEF Covering, Holding
<1>2. ASSUME NEW i \in 1..lastMsg
      PROVE  Cardinality(Covering(i)') + Cardinality(Holding(i)') <= Cardinality(Reqs)
  <2>1. /\ IsFiniteSet(Covering(i)) /\ IsFiniteSet(Holding(i))
        /\ Cardinality(Covering(i)) \in Nat /\ Cardinality(Holding(i)) \in Nat
        /\ Cardinality(Reqs) \in Nat
    BY Finite
  <2>2. /\ IsFiniteSet(Covering(i)') /\ IsFiniteSet(Holding(i)')
        /\ Cardinality(Covering(i)') <= Cardinality(Covering(i))
        /\ Cardinality(Holding(i)') <= Cardinality(Holding(i))
    BY <1>1, <2>1, FS_Subset
  <2>3. Cardinality(Covering(i)') \in Nat /\ Cardinality(Holding(i)') \in Nat
    BY <2>2, FS_CardinalityType
  <2>4. Cardinality(Covering(i)) + Cardinality(Holding(i)) <= Cardinality(Reqs)
    BY DEF SummaryCounts
  <2> QED  BY <2>1, <2>2, <2>3, <2>4
<1>3. \A m \in messages' : m.role # "summary" => Covering(m.id)' = {}
  BY <1>1 DEF SummaryCounts
<1>4. \A q \in Reqs : req'[q].pc = "summary" => \A m \in messages' : m.id \notin req'[q].oldest
  BY DEF SummaryCounts
<1> QED  BY <1>2, <1>3, <1>4 DEF SummaryCounts

\* What a request reads is in no summary.
LEMMA CountsRead ==
    ASSUME TypeOK, IsFiniteSet(messages), SummaryCounts, NEW r \in Reqs,
           \A q \in Reqs \ {r} : req'[q] = req[q], Reads(r)
    PROVE  SummaryCounts'
<1>1. messages' = messages /\ lastMsg' = lastMsg /\ req'[r].pc # "summary"
  BY DEF Reads
<1>2. \A i : Covering(i)' = Covering(i)
  BY <1>1 DEF Covering
<1>3. \A i \in req'[r].oldest : Covering(i) = {}
  BY DEF Reads, OldestIds, Turns, In, SummaryCounts
<1>4. ASSUME NEW i \in 1..lastMsg
      PROVE  Cardinality(Covering(i)') + Cardinality(Holding(i)') <= Cardinality(Reqs)
  <2>1. /\ IsFiniteSet(Holding(i)) /\ IsFiniteSet(Reqs)
        /\ Cardinality(Covering(i)) \in Nat /\ Cardinality(Holding(i)) \in Nat
        /\ Cardinality(Reqs) \in Nat
    BY Finite
  <2>2. Cardinality(Covering(i)) + Cardinality(Holding(i)) <= Cardinality(Reqs)
    BY DEF SummaryCounts
  <2>3. CASE i \in req'[r].oldest
    <3>1. Cardinality(Covering(i)') = 0
      BY <1>2, <1>3, <2>3, FS_EmptySet
    <3>2. Holding(i)' \in SUBSET Reqs
      BY DEF Holding
    <3>3. Cardinality(Holding(i)') <= Cardinality(Reqs) /\ IsFiniteSet(Holding(i)')
      BY <2>1, <3>2, FS_Subset
    <3>4. Cardinality(Holding(i)') \in Nat
      BY <3>3, FS_CardinalityType
    <3> QED  BY <2>1, <3>1, <3>3, <3>4
  <2>4. CASE i \notin req'[r].oldest
    <3>1. Holding(i)' \in SUBSET Holding(i)
      BY <2>4 DEF Holding
    <3>2. Cardinality(Holding(i)') <= Cardinality(Holding(i)) /\ IsFiniteSet(Holding(i)')
      BY <2>1, <3>1, FS_Subset
    <3>3. Cardinality(Holding(i)') \in Nat
      BY <3>2, FS_CardinalityType
    <3> QED  BY <1>2, <2>1, <2>2, <3>2, <3>3
  <2> QED  BY <2>3, <2>4
<1>5. \A m \in messages' : m.role # "summary" => Covering(m.id)' = {}
  BY <1>1, <1>2 DEF SummaryCounts
<1>6. \A q \in Reqs : req'[q].pc = "summary" => \A m \in messages' : m.id \notin req'[q].oldest
  BY <1>1 DEF SummaryCounts
<1> QED  BY <1>1, <1>4, <1>5, <1>6 DEF SummaryCounts

\* What a request's summary covers, the request holds no longer.
LEMMA CountsSave ==
    ASSUME TypeOK, IsFiniteSet(messages), SummaryCounts, NEW r \in Reqs, NEW row,
           \A q \in Reqs \ {r} : req'[q] = req[q], Saves(r, row),
           NEW new, new = lastMsg + 1
    PROVE  SummaryCounts'
<1>1. /\ messages' = messages \cup {row} /\ lastMsg' = new /\ row.id = new
      /\ lastMsg \in Nat /\ new \notin 1..lastMsg
      /\ \A m \in messages : m.id \in 1..lastMsg /\ m.covers \in SUBSET (1..lastMsg)
      /\ \A q \in Reqs : req[q].oldest \in SUBSET (1..lastMsg)
  BY Finite DEF Saves
<1>2. /\ row.covers \subseteq req[r].oldest
      /\ req'[r].oldest \subseteq req[r].oldest
      /\ row.covers \cap req'[r].oldest = {}
      /\ req'[r].pc # "summary"
      /\ row.role # "summary" => row.covers = {}
      /\ row.covers # {} => req[r].pc = "summary"
  BY DEF Saves, SameWork
<1>3. \A i : Covering(i)' = Covering(i) \cup (IF i \in row.covers THEN {row} ELSE {})
  BY <1>1 DEF Covering
<1>4. \A i : Holding(i)' \subseteq Holding(i) \ (IF i \in row.covers THEN {r} ELSE {})
  BY <1>2 DEF Holding
<1>5. ASSUME NEW i \in 1..lastMsg
      PROVE  Cardinality(Covering(i)') + Cardinality(Holding(i)') <= Cardinality(Reqs)
  <2>1. /\ IsFiniteSet(Holding(i)) /\ IsFiniteSet(Covering(i))
        /\ Cardinality(Covering(i)) \in Nat /\ Cardinality(Holding(i)) \in Nat
        /\ Cardinality(Reqs) \in Nat
    BY Finite
  <2>2. Cardinality(Covering(i)) + Cardinality(Holding(i)) <= Cardinality(Reqs)
    BY DEF SummaryCounts
  <2>3. CASE i \in row.covers
    <3>1. r \in Holding(i) /\ Covering(i)' = Covering(i) \cup {row}
          /\ Holding(i)' \in SUBSET (Holding(i) \ {r})
      BY <1>2, <1>3, <1>4, <2>3 DEF Holding
    <3>2. IsFiniteSet(Holding(i) \ {r}) /\ Cardinality(Holding(i) \ {r}) = Cardinality(Holding(i)) - 1
      BY <2>1, <3>1, FS_RemoveElement
    <3>3. IsFiniteSet(Holding(i)') /\ Cardinality(Holding(i)') <= Cardinality(Holding(i) \ {r})
      BY <3>1, <3>2, FS_Subset
    <3>4. Cardinality(Holding(i)') \in Nat
      BY <3>3, FS_CardinalityType
    <3>5. IsFiniteSet(Covering(i)') /\ Cardinality(Covering(i)') <= Cardinality(Covering(i)) + 1
      <4>1. /\ IsFiniteSet(Covering(i) \cup {row})
            /\ Cardinality(Covering(i) \cup {row}) =
                 IF row \in Covering(i) THEN Cardinality(Covering(i)) ELSE Cardinality(Covering(i)) + 1
        BY <2>1, FS_AddElement
      <4> QED  BY <2>1, <3>1, <4>1
    <3>6. Cardinality(Covering(i)') \in Nat
      BY <3>5, FS_CardinalityType
    <3> QED  BY <2>1, <2>2, <3>2, <3>3, <3>4, <3>5, <3>6
  <2>4. CASE i \notin row.covers
    <3>1. Holding(i)' \in SUBSET Holding(i) /\ Covering(i)' = Covering(i)
      BY <1>3, <1>4, <2>4
    <3>2. Cardinality(Holding(i)') <= Cardinality(Holding(i)) /\ IsFiniteSet(Holding(i)')
      BY <2>1, <3>1, FS_Subset
    <3>3. Cardinality(Holding(i)') \in Nat
      BY <3>2, FS_CardinalityType
    <3> QED  BY <2>1, <2>2, <3>1, <3>2, <3>3
  <2> QED  BY <2>3, <2>4
<1>6. Covering(new)' = {} /\ Holding(new)' = {}
  <2>1. new \notin row.covers
    BY <1>1, <1>2
  <2>2. Covering(new) = {} /\ Holding(new) = {}
    BY <1>1 DEF Covering, Holding
  <2> QED  BY <1>3, <1>4, <2>1, <2>2
<1>7. \A i \in 1..lastMsg' :
        Cardinality(Covering(i)') + Cardinality(Holding(i)') <= Cardinality(Reqs)
  <2>1. Cardinality(Covering(new)') + Cardinality(Holding(new)') <= Cardinality(Reqs)
    <3>1. Cardinality(Reqs) \in Nat
      BY Finite
    <3>2. Cardinality({}) = 0
      BY FS_EmptySet
    <3>3. Cardinality(Covering(new)') = 0 /\ Cardinality(Holding(new)') = 0
      BY <1>6, <3>2
    <3> QED  BY <3>1, <3>3
  <2>2. \A i \in 1..lastMsg' : i \in 1..lastMsg \/ i = new
    BY <1>1
  <2> QED  BY <1>5, <2>1, <2>2
<1>8. \A m \in messages' : m.role # "summary" => Covering(m.id)' = {}
  <2> SUFFICES ASSUME NEW m \in messages', m.role # "summary"
               PROVE  Covering(m.id)' = {}
    OBVIOUS
  <2>1. CASE m = row
    BY <1>1, <1>6, <2>1
  <2>2. CASE m \in messages
    <3>1. Covering(m.id) = {}
      BY <2>2 DEF SummaryCounts
    <3>2. m.id \notin row.covers
      BY <1>2, <2>2 DEF SummaryCounts
    <3> QED  BY <1>3, <3>1, <3>2
  <2> QED  BY <1>1, <2>1, <2>2
<1>9. \A q \in Reqs : req'[q].pc = "summary" => \A m \in messages' : m.id \notin req'[q].oldest
  <2> SUFFICES ASSUME NEW q \in Reqs, req'[q].pc = "summary", NEW m \in messages'
               PROVE  m.id \notin req'[q].oldest
    OBVIOUS
  <2>1. req'[q] = req[q]
    BY <1>2
  <2> QED  BY <1>1, <2>1 DEF SummaryCounts
<1> QED  BY <1>7, <1>8, <1>9 DEF SummaryCounts

LEMMA CountsMove ==
    ASSUME TypeOK, IsFiniteSet(messages), SummaryCounts, NEW r \in Reqs, Moves(r)
    PROVE  SummaryCounts'
<1> USE DEF Moves
<1>1. CASE Rests(r)
  BY <1>1, CountsShrink DEF Rests, Uncounted
<1>2. CASE GoesOn(r)
  BY <1>2, CountsShrink DEF GoesOn, SameWork
<1>3. CASE CountsFew(r)
  BY <1>3, CountsShrink DEF CountsFew, SameWork
<1>4. CASE Reads(r)
  BY <1>4, CountsRead
<1>5. CASE Deletes(r)
  BY <1>5, CountsShrink DEF Deletes, SameWork
<1>6. CASE \E row : Saves(r, row)
  BY <1>6, CountsSave
<1> QED  BY <1>1, <1>2, <1>3, <1>4, <1>5, <1>6

-----------------------------------------------------------------------------
(* Turns of one conversation *)

LEMMA FitsLess ==
    ASSUME NEW T, IsFiniteSet(T), NEW two \in SUBSET Reqs, NEW one \in SUBSET Reqs,
           Fits(T, two, one),
           NEW U \in SUBSET T, NEW two2 \in SUBSET two, NEW one2 \in SUBSET one
    PROVE  Fits(U, two2, one2)
<1>1. IsFiniteSet(Reqs) /\ MaxTurns \in Nat /\ Cardinality(Reqs) \in Nat
  BY FS_CardinalityType, ConversationsAssumption DEF ConversationsAssumption
<1>2. IsFiniteSet(two) /\ IsFiniteSet(one)
  BY <1>1, FS_Subset
<1>3. /\ IsFiniteSet(U) /\ Cardinality(U) <= Cardinality(T)
      /\ IsFiniteSet(two2) /\ Cardinality(two2) <= Cardinality(two)
      /\ IsFiniteSet(one2) /\ Cardinality(one2) <= Cardinality(one)
  BY <1>2, FS_Subset
<1>4. /\ Cardinality(U) \in Nat /\ Cardinality(T) \in Nat
      /\ Cardinality(two2) \in Nat /\ Cardinality(two) \in Nat
      /\ Cardinality(one2) \in Nat /\ Cardinality(one) \in Nat
  BY <1>2, <1>3, FS_CardinalityType
<1> QED  BY <1>1, <1>3, <1>4 DEF Fits

\* A conversation at the threshold has room for every request.
LEMMA FewFit ==
    ASSUME NEW T, IsFiniteSet(T), Cardinality(T) <= MaxTurns,
           NEW two \in SUBSET Reqs, NEW one \in SUBSET Reqs, two \cap one = {}
    PROVE  Fits(T, two, one)
<1>1. IsFiniteSet(Reqs) /\ MaxTurns \in Nat /\ Cardinality(Reqs) \in Nat
  BY FS_CardinalityType, ConversationsAssumption DEF ConversationsAssumption
<1>2. IsFiniteSet(two) /\ IsFiniteSet(one) /\ two \cup one \in SUBSET Reqs
  BY <1>1, FS_Subset
<1>3. /\ Cardinality(T) \in Nat /\ Cardinality(two) \in Nat /\ Cardinality(one) \in Nat
      /\ Cardinality(two \cup one) \in Nat
      /\ Cardinality(two \cup one) <= Cardinality(Reqs)
  BY <1>1, <1>2, FS_Subset, FS_CardinalityType
<1>4. Cardinality(two \cup one) =
        Cardinality(two) + Cardinality(one) - Cardinality(two \cap one)
  BY <1>2, FS_Union
<1>5. Cardinality(two \cap one) = 0
  BY FS_EmptySet
<1> QED  BY <1>1, <1>3, <1>4, <1>5 DEF Fits

\* A batch less leaves room for two messages of every request.
LEMMA BatchLessFits ==
    ASSUME NEW T, IsFiniteSet(T), NEW two \in SUBSET Reqs, NEW one \in SUBSET Reqs,
           Fits(T, two, one), 2 * Cardinality(Reqs) <= Batch,
           NEW U, IsFiniteSet(U), Cardinality(U) + Batch <= Cardinality(T),
           NEW S \in SUBSET Reqs
    PROVE  Fits(U, two \cup S, one)
<1>1. /\ IsFiniteSet(Reqs) /\ MaxTurns \in Nat /\ Batch \in Nat
      /\ Cardinality(Reqs) \in Nat
  BY FS_CardinalityType, ConversationsAssumption DEF ConversationsAssumption
<1>2. IsFiniteSet(two) /\ IsFiniteSet(one) /\ IsFiniteSet(S) /\ IsFiniteSet(two \cap S)
  BY <1>1, FS_Subset
<1>3. /\ Cardinality(T) \in Nat /\ Cardinality(two) \in Nat /\ Cardinality(one) \in Nat
      /\ Cardinality(U) \in Nat /\ Cardinality(S) \in Nat
      /\ Cardinality(two \cap S) \in Nat
  BY <1>2, FS_CardinalityType
<1>4. Cardinality(S) <= Cardinality(Reqs)
  BY <1>1, FS_Subset
<1>5. Cardinality(two \cup S) =
        Cardinality(two) + Cardinality(S) - Cardinality(two \cap S)
  BY <1>2, FS_Union
<1> QED  BY <1>1, <1>3, <1>4, <1>5 DEF Fits

\* One message more, of a request that owed two, or one.
LEMMA OneRowMore ==
    ASSUME NEW T, IsFiniteSet(T), NEW row, NEW U \in SUBSET (T \cup {row})
    PROVE  /\ IsFiniteSet(U) /\ Cardinality(U) \in Nat /\ Cardinality(T) \in Nat
           /\ Cardinality(U) <= Cardinality(T) + 1
<1>1. /\ IsFiniteSet(T \cup {row})
      /\ Cardinality(T \cup {row}) =
           IF row \in T THEN Cardinality(T) ELSE Cardinality(T) + 1
  BY FS_AddElement
<1>2. IsFiniteSet(U) /\ Cardinality(U) <= Cardinality(T \cup {row})
  BY <1>1, FS_Subset
<1>3. Cardinality(U) \in Nat /\ Cardinality(T) \in Nat
  BY <1>2, FS_CardinalityType
<1> QED  BY <1>1, <1>2, <1>3

LEMMA FirstMessageFits ==
    ASSUME NEW T, IsFiniteSet(T), NEW two \in SUBSET Reqs, NEW one \in SUBSET Reqs,
           Fits(T, two, one),
           NEW U, IsFiniteSet(U), Cardinality(U) <= Cardinality(T) + 1,
           NEW r \in two, NEW two2 \in SUBSET (two \ {r}),
           NEW one2 \in SUBSET (one \cup {r})
    PROVE  Fits(U, two2, one2)
<1>1. IsFiniteSet(Reqs) /\ MaxTurns \in Nat /\ Cardinality(Reqs) \in Nat
  BY FS_CardinalityType, ConversationsAssumption DEF ConversationsAssumption
<1>2. IsFiniteSet(two) /\ IsFiniteSet(one)
  BY <1>1, FS_Subset
<1>3. Cardinality(two) \in Nat /\ Cardinality(one) \in Nat
  BY <1>2, FS_CardinalityType
<1>4. IsFiniteSet(two \ {r}) /\ Cardinality(two \ {r}) = Cardinality(two) - 1
  BY <1>2, FS_RemoveElement
<1>5. Cardinality(one2) \in Nat /\ Cardinality(one2) <= Cardinality(one) + 1
  BY <1>2, OneRowMore
<1>6. IsFiniteSet(two2) /\ Cardinality(two2) <= Cardinality(two \ {r})
  BY <1>4, FS_Subset
<1>7. Cardinality(two2) \in Nat
  BY <1>6, FS_CardinalityType
<1>8. Cardinality(U) \in Nat /\ Cardinality(T) \in Nat
  BY FS_CardinalityType
<1> QED  BY <1>1, <1>3, <1>4, <1>5, <1>6, <1>7, <1>8 DEF Fits

LEMMA SecondMessageFits ==
    ASSUME NEW T, IsFiniteSet(T), NEW two \in SUBSET Reqs, NEW one \in SUBSET Reqs,
           Fits(T, two, one),
           NEW U, IsFiniteSet(U), Cardinality(U) <= Cardinality(T) + 1,
           NEW r \in one, NEW two2 \in SUBSET two, NEW one2 \in SUBSET (one \ {r})
    PROVE  Fits(U, two2, one2)
<1>1. IsFiniteSet(Reqs) /\ MaxTurns \in Nat /\ Cardinality(Reqs) \in Nat
  BY FS_CardinalityType, ConversationsAssumption DEF ConversationsAssumption
<1>2. IsFiniteSet(two) /\ IsFiniteSet(one)
  BY <1>1, FS_Subset
<1>3. Cardinality(two) \in Nat /\ Cardinality(one) \in Nat
  BY <1>2, FS_CardinalityType
<1>4. IsFiniteSet(one \ {r}) /\ Cardinality(one \ {r}) = Cardinality(one) - 1
  BY <1>2, FS_RemoveElement
<1>5. /\ IsFiniteSet(two2) /\ Cardinality(two2) <= Cardinality(two)
      /\ IsFiniteSet(one2) /\ Cardinality(one2) <= Cardinality(one \ {r})
  BY <1>2, <1>4, FS_Subset
<1>6. Cardinality(two2) \in Nat /\ Cardinality(one2) \in Nat
  BY <1>5, FS_CardinalityType
<1>7. Cardinality(U) \in Nat /\ Cardinality(T) \in Nat
  BY FS_CardinalityType
<1> QED  BY <1>1, <1>3, <1>4, <1>5, <1>6, <1>7 DEF Fits

\* A set of numbers has a least one.
LEMMA LeastNumber ==
    ASSUME NEW N \in SUBSET Nat, N # {}
    PROVE  \E n \in N : \A k \in N : n <= k
<1>1. PICK n \in N : \A k \in N : ~(<<k, n>> \in OpToRel(<, Nat))
  BY NatLessThanWellFounded, WFMin
<1>2. ASSUME NEW k \in N PROVE ~(k < n)
  <2>1. <<k, n>> \in Nat \X Nat
    OBVIOUS
  <2> QED  BY <1>1, <2>1 DEF OpToRel
<1> QED  BY <1>2

OldestTurns(c) ==
    {n \in Turns(c) : Cardinality({k \in Turns(c) : k.id < n.id}) < Batch}

\* The oldest turns are a whole batch, or all there are.
LEMMA OldestTurnsFill ==
    ASSUME TypeOK, IsFiniteSet(messages), NEW c
    PROVE  OldestTurns(c) = Turns(c) \/ Batch <= Cardinality(OldestTurns(c))
<1> SUFFICES ASSUME OldestTurns(c) # Turns(c)
             PROVE  Batch <= Cardinality(OldestTurns(c))
  OBVIOUS
<1>1. /\ IsFiniteSet(Turns(c)) /\ Batch \in Nat
      /\ \A n \in Turns(c) : n.id \in Nat
  <2>1. \A n \in messages : n.id \in Nat
    BY Finite
  <2> QED  BY <2>1, Finite DEF Turns, In
<1> DEFINE younger == {n.id : n \in Turns(c) \ OldestTurns(c)}
<1>2. younger \in SUBSET Nat /\ younger # {}
  BY <1>1 DEF OldestTurns
<1>3. PICK i \in younger : \A j \in younger : i <= j
  BY <1>2, LeastNumber
<1>4. PICK n \in Turns(c) \ OldestTurns(c) : n.id = i
  BY <1>3
<1>5. {k \in Turns(c) : k.id < n.id} \in SUBSET OldestTurns(c)
  BY <1>1, <1>3, <1>4
<1>6. ~(Cardinality({k \in Turns(c) : k.id < n.id}) < Batch)
  BY <1>4 DEF OldestTurns
<1> DEFINE before == {k \in Turns(c) : k.id < n.id}
<1>7. IsFiniteSet(OldestTurns(c))
  BY <1>1, FS_Subset DEF OldestTurns
<1>8. IsFiniteSet(before) /\ Cardinality(before) <= Cardinality(OldestTurns(c))
  BY <1>5, <1>7, FS_Subset
<1>9. Cardinality(before) \in Nat /\ Cardinality(OldestTurns(c)) \in Nat
  BY <1>7, <1>8, FS_CardinalityType
<1> QED  BY <1>1, <1>6, <1>8, <1>9

\* There is room for less than RoomRemains promises.
LEMMA RoomForLess ==
    ASSUME TypeOK, IsFiniteSet(messages), RoomRemains, 2 * Cardinality(Reqs) <= Batch,
           NEW c \in Convs, NEW S \in SUBSET Compacting(c), NEW T \in SUBSET Left(c, S),
           NEW two \in SUBSET (OwesTwo(c) \cup S), NEW one \in SUBSET OwesOne(c)
    PROVE  Fits(T, two, one)
<1>1. Fits(Left(c, S), OwesTwo(c) \cup S, OwesOne(c))
  BY DEF RoomRemains, RoomAfter
<1>2. IsFiniteSet(Turns(c)) /\ Left(c, S) \in SUBSET Turns(c)
  BY Finite DEF Left
<1>3. IsFiniteSet(Left(c, S))
  BY <1>2, FS_Subset
<1>4. (OwesTwo(c) \cup S) \in SUBSET Reqs /\ OwesOne(c) \in SUBSET Reqs
  BY DEF OwesTwo, OwesOne, Compacting
<1> QED  BY <1>1, <1>3, <1>4, FitsLess

\* A step that leaves its request out of the count of a conversation and adds
\* no turn to it.
LEMMA RoomApart ==
    ASSUME TypeOK, IsFiniteSet(messages), RoomRemains, 2 * Cardinality(Reqs) <= Batch,
           NEW r \in Reqs, \A q \in Reqs \ {r} : req'[q] = req[q],
           NEW c \in Convs, Turns(c)' \subseteq Turns(c),
           req'[r].conv = c => req'[r].pc \in Uncounted,
           NEW S \in SUBSET Compacting(c)'
    PROVE  RoomAfter(c, S)'
<1>1. S \in SUBSET Compacting(c) /\ r \notin S
  BY DEF Compacting, Uncounted
<1>2. Left(c, S)' \in SUBSET Left(c, S)
  BY <1>1 DEF Left, Compacting
<1>3. (OwesTwo(c)' \cup S) \in SUBSET (OwesTwo(c) \cup S) /\ OwesOne(c)' \in SUBSET OwesOne(c)
  BY DEF OwesTwo, OwesOne, Uncounted
<1>4. Fits(Left(c, S)', OwesTwo(c)' \cup S, OwesOne(c)')
  BY <1>1, <1>2, <1>3, RoomForLess
<1> QED  BY <1>4 DEF RoomAfter

\* No turn more than MaxTurns.
LEMMA RoomForFew ==
    ASSUME NEW c \in Convs, NEW U, IsFiniteSet(U), Cardinality(U) <= MaxTurns,
           NEW S \in SUBSET Compacting(c)', Left(c, S)' \subseteq U
    PROVE  RoomAfter(c, S)'
<1>1. (OwesTwo(c)' \cup S) \in SUBSET Reqs /\ OwesOne(c)' \in SUBSET Reqs
  BY DEF OwesTwo, OwesOne, Compacting
<1>2. (OwesTwo(c)' \cup S) \cap OwesOne(c)' = {}
  BY DEF OwesTwo, OwesOne, Compacting
<1>3. IsFiniteSet(Left(c, S)') /\ Cardinality(Left(c, S)') <= MaxTurns
  <2>1. IsFiniteSet(U) /\ Cardinality(U) \in Nat
    BY FS_CardinalityType
  <2>2. IsFiniteSet(Left(c, S)') /\ Cardinality(Left(c, S)') <= Cardinality(U)
    BY <2>1, FS_Subset
  <2>3. Cardinality(Left(c, S)') \in Nat /\ MaxTurns \in Nat
    BY <2>2, FS_CardinalityType, ConversationsAssumption DEF ConversationsAssumption
  <2> QED  BY <2>1, <2>2, <2>3
<1>4. Fits(Left(c, S)', OwesTwo(c)' \cup S, OwesOne(c)')
  BY <1>1, <1>2, <1>3, FewFit
<1> QED  BY <1>4 DEF RoomAfter

LEMMA RoomGoesOn ==
    ASSUME TypeOK, IsFiniteSet(messages), RoomRemains, 2 * Cardinality(Reqs) <= Batch,
           NEW r \in Reqs, \A q \in Reqs \ {r} : req'[q] = req[q], GoesOn(r),
           NEW c \in Convs, NEW S \in SUBSET Compacting(c)'
    PROVE  RoomAfter(c, S)'
<1>1. S \in SUBSET Compacting(c)
  BY DEF Compacting, GoesOn, SameWork
<1>2. \A q \in Reqs : req'[q].oldest = req[q].oldest
  BY DEF GoesOn, SameWork
<1>3. Left(c, S)' \in SUBSET Left(c, S)
  BY <1>1, <1>2 DEF Left, Compacting, GoesOn, Turns, In
<1>4. OwesTwo(c)' = OwesTwo(c)
  BY DEF OwesTwo, GoesOn, SameWork
<1>5. OwesOne(c)' = OwesOne(c)
  BY DEF OwesOne, GoesOn, SameWork
<1>6. Fits(Left(c, S)', OwesTwo(c)' \cup S, OwesOne(c)')
  BY <1>1, <1>3, <1>4, <1>5, RoomForLess
<1> QED  BY <1>6 DEF RoomAfter

LEMMA RoomCountsFew ==
    ASSUME TypeOK, IsFiniteSet(messages), RoomRemains, 2 * Cardinality(Reqs) <= Batch,
           NEW r \in Reqs, \A q \in Reqs \ {r} : req'[q] = req[q], CountsFew(r),
           NEW c \in Convs, NEW S \in SUBSET Compacting(c)'
    PROVE  RoomAfter(c, S)'
<1>1. Turns(c)' = Turns(c)
  BY DEF CountsFew, Turns, In
<1>2. CASE c = req[r].conv
  <2>1. IsFiniteSet(Turns(c)) /\ Cardinality(Turns(c)) <= MaxTurns
    BY <1>2, Finite DEF CountsFew
  <2>2. Left(c, S)' \subseteq Turns(c)
    BY <1>1 DEF Left
  <2> QED  BY <2>1, <2>2, RoomForFew
<1>3. CASE c # req[r].conv
  BY <1>1, <1>3, RoomApart DEF CountsFew, SameWork
<1> QED  BY <1>2, <1>3

\* A request that has read deletes a batch, or all turns there are: the rest
\* has room for whatever the others do.
LEMMA RoomReads ==
    ASSUME TypeOK, IsFiniteSet(messages), RoomRemains, 2 * Cardinality(Reqs) <= Batch,
           NEW r \in Reqs, \A q \in Reqs \ {r} : req'[q] = req[q], Reads(r),
           NEW c \in Convs, NEW S \in SUBSET Compacting(c)'
    PROVE  RoomAfter(c, S)'
<1>1. Turns(c)' = Turns(c) /\ IsFiniteSet(Turns(c)) /\ MaxTurns \in Nat
  BY Finite DEF Reads, Turns, In
<1>2. CASE c # req[r].conv
  BY <1>1, <1>2, RoomApart DEF Reads
<1>3. ASSUME c = req[r].conv
      PROVE  req'[r].oldest = {n.id : n \in OldestTurns(c)}
  BY <1>3 DEF Reads, OldestIds, OldestTurns
<1>4. ASSUME OldestTurns(c) = Turns(c), Left(c, S)' \subseteq Turns(c) \ OldestTurns(c)
      PROVE  RoomAfter(c, S)'
  <2>1. Left(c, S)' \subseteq {} /\ IsFiniteSet({}) /\ Cardinality({}) <= MaxTurns
    BY <1>1, <1>4, FS_EmptySet
  <2> QED  BY <2>1, RoomForFew
<1>5. CASE c = req[r].conv /\ req'[r].oldest = {}
  <2>1. OldestTurns(c) = {}
    BY <1>3, <1>5
  <2>2. ~(Batch <= 0)
    <3>1. Cardinality(Reqs) # 0 /\ Cardinality(Reqs) \in Nat /\ Batch \in Nat
      BY Finite, FS_EmptySet
    <3> QED  BY <3>1
  <2>3. OldestTurns(c) = Turns(c)
    BY <2>1, <2>2, OldestTurnsFill, FS_EmptySet
  <2>4. Left(c, S)' \subseteq Turns(c) \ OldestTurns(c)
    BY <1>1, <2>1 DEF Left
  <2> QED  BY <1>4, <2>3, <2>4
<1>6. CASE c = req[r].conv /\ req'[r].oldest # {} /\ r \notin S
  <2>1. S \in SUBSET Compacting(c)
    BY <1>6 DEF Compacting
  <2>2. Left(c, S)' \in SUBSET Left(c, S)
    BY <1>1, <1>6, <2>1 DEF Left, Compacting
  <2>3. OwesTwo(c)' \in SUBSET OwesTwo(c) /\ OwesOne(c)' \in SUBSET OwesOne(c)
    BY <1>6 DEF OwesTwo, OwesOne, Reads
  <2>4. Fits(Left(c, S)', OwesTwo(c)' \cup S, OwesOne(c)')
    BY <2>1, <2>2, <2>3, RoomForLess
  <2> QED  BY <2>4 DEF RoomAfter
<1>7. CASE c = req[r].conv /\ req'[r].oldest # {} /\ r \in S
  <2>1. Left(c, S)' \in SUBSET (Turns(c) \ OldestTurns(c))
    BY <1>1, <1>3, <1>7 DEF Left
  <2>2. CASE OldestTurns(c) = Turns(c)
    BY <1>4, <2>1, <2>2
  <2>3. CASE Batch <= Cardinality(OldestTurns(c))
    <3>1. OldestTurns(c) \in SUBSET Turns(c)
      BY DEF OldestTurns
    <3>2. IsFiniteSet(OldestTurns(c))
      BY <1>1, <3>1, FS_Subset
    <3>3. /\ IsFiniteSet(Turns(c) \ OldestTurns(c))
          /\ Cardinality(Turns(c) \ OldestTurns(c)) =
               Cardinality(Turns(c)) - Cardinality(Turns(c) \cap OldestTurns(c))
      BY <1>1, FS_Difference
    <3>4. Turns(c) \cap OldestTurns(c) = OldestTurns(c)
      BY <3>1
    <3>5. /\ Cardinality(Turns(c) \ OldestTurns(c)) \in Nat
          /\ Cardinality(OldestTurns(c)) \in Nat /\ Cardinality(Turns(c)) \in Nat
          /\ Batch \in Nat
      BY <1>1, <3>2, <3>3, FS_CardinalityType, Finite
    <3>6. Cardinality(Turns(c) \ OldestTurns(c)) + Batch <= Cardinality(Turns(c))
      <4> DEFINE all == Cardinality(Turns(c))
                 old == Cardinality(OldestTurns(c))
                 rest == Cardinality(Turns(c) \ OldestTurns(c))
      <4>1. rest = all - old
        BY <3>3, <3>4
      <4>2. rest \in Nat /\ all \in Nat /\ old \in Nat /\ Batch \in Nat /\ Batch <= old
        BY <2>3, <3>5
      <4> HIDE DEF rest, all, old
      <4>3. rest + Batch <= all
        BY <4>1, <4>2
      <4> QED  BY <4>3 DEF rest, all
    <3>7. Fits(Turns(c), OwesTwo(c), OwesOne(c))
      <4>1. {} \in SUBSET Compacting(c) /\ Turns(c) \in SUBSET Left(c, {})
        BY DEF Left
      <4> QED  BY <4>1, RoomForLess
    <3>8. OwesTwo(c) \in SUBSET Reqs /\ OwesOne(c) \in SUBSET Reqs /\ S \in SUBSET Reqs
      BY DEF OwesTwo, OwesOne, Compacting
    <3>9. Fits(Turns(c) \ OldestTurns(c), OwesTwo(c) \cup S, OwesOne(c))
      BY <1>1, <3>3, <3>6, <3>7, <3>8, BatchLessFits
    <3>10. /\ (OwesTwo(c)' \cup S) \in SUBSET (OwesTwo(c) \cup S)
           /\ OwesOne(c)' \in SUBSET OwesOne(c)
      BY <1>7 DEF OwesTwo, OwesOne, Reads
    <3>11. (OwesTwo(c) \cup S) \in SUBSET Reqs
      BY <3>8
    <3>12. Fits(Left(c, S)', OwesTwo(c)' \cup S, OwesOne(c)')
      BY <2>1, <3>3, <3>8, <3>9, <3>10, <3>11, FitsLess
    <3> QED  BY <3>12 DEF RoomAfter
  <2> QED  BY <2>2, <2>3, OldestTurnsFill
<1> QED  BY <1>2, <1>5, <1>6, <1>7

\* A request that deletes owes what it was counted for.
LEMMA RoomDeletes ==
    ASSUME TypeOK, IsFiniteSet(messages), RoomRemains, 2 * Cardinality(Reqs) <= Batch,
           NEW r \in Reqs, \A q \in Reqs \ {r} : req'[q] = req[q], Deletes(r),
           NEW c \in Convs, NEW S \in SUBSET Compacting(c)'
    PROVE  RoomAfter(c, S)'
<1>1. Turns(c)' \subseteq Turns(c)
  BY DEF Deletes, Turns, In
<1>2. CASE c # req[r].conv
  BY <1>1, <1>2, RoomApart DEF Deletes, SameWork
<1>3. CASE c = req[r].conv
  <2>1. S \cup {r} \in SUBSET Compacting(c)
    BY <1>3 DEF Compacting, Deletes, SameWork
  <2>2. Left(c, S)' \in SUBSET Left(c, S \cup {r})
    BY <1>1, <2>1 DEF Left, Compacting, Deletes, SameWork, Turns, In
  <2>3. (OwesTwo(c)' \cup S) \in SUBSET (OwesTwo(c) \cup (S \cup {r}))
    BY DEF OwesTwo
  <2>4. OwesOne(c)' \in SUBSET OwesOne(c)
    BY DEF OwesOne, Deletes
  <2>5. Fits(Left(c, S)', OwesTwo(c)' \cup S, OwesOne(c)')
    BY <2>1, <2>2, <2>3, <2>4, RoomForLess
  <2> QED  BY <2>5 DEF RoomAfter
<1> QED  BY <1>2, <1>3

\* A request that adds a turn owed it; its summary is none.
LEMMA RoomSaves ==
    ASSUME TypeOK, IsFiniteSet(messages), RoomRemains, 2 * Cardinality(Reqs) <= Batch,
           NEW r \in Reqs, \A q \in Reqs \ {r} : req'[q] = req[q],
           NEW row, Saves(r, row),
           NEW c \in Convs, NEW S \in SUBSET Compacting(c)'
    PROVE  RoomAfter(c, S)'
<1>1. messages' = messages \cup {row} /\ row.conv = req[r].conv
  BY DEF Saves
<1>2. CASE c # req[r].conv
  <2>1. Turns(c)' \subseteq Turns(c)
    BY <1>1, <1>2 DEF Turns, In
  <2>2. req'[r].conv = c => req'[r].pc \in Uncounted
    BY <1>2 DEF Saves, SameWork, Uncounted
  <2> QED  BY <2>1, <2>2, RoomApart
<1>3. CASE c = req[r].conv
  <2>1. S \in SUBSET Compacting(c) /\ r \notin S
    BY DEF Compacting, Saves
  <2>2. CASE req[r].pc = "summary"
    <3>1. Turns(c)' = Turns(c)
      BY <1>1, <2>2 DEF Turns, In, Saves
    <3>2. Left(c, S)' \in SUBSET Left(c, S)
      BY <2>1, <3>1 DEF Left, Compacting
    <3>3. (OwesTwo(c)' \cup S) \in SUBSET (OwesTwo(c) \cup S) /\ OwesOne(c)' \in SUBSET OwesOne(c)
      BY <1>3, <2>2 DEF OwesTwo, OwesOne, Saves
    <3>4. Fits(Left(c, S)', OwesTwo(c)' \cup S, OwesOne(c)')
      BY <2>1, <3>2, <3>3, RoomForLess
    <3> QED  BY <3>4 DEF RoomAfter
  <2>3. Left(c, S)' \in SUBSET (Left(c, S) \cup {row})
    BY <1>1, <2>1 DEF Left, Compacting, Turns, In
  <2>4. IsFiniteSet(Left(c, S))
    <3>1. IsFiniteSet(Turns(c)) /\ Left(c, S) \in SUBSET Turns(c)
      BY Finite DEF Left
    <3> QED  BY <3>1, FS_Subset
  <2> DEFINE two == OwesTwo(c) \cup S
             one == OwesOne(c)
  <2>5. two \in SUBSET Reqs /\ one \in SUBSET Reqs
    BY <2>1 DEF OwesTwo, OwesOne, Compacting
  <2>6. Fits(Left(c, S), two, one)
    BY <2>1 DEF RoomRemains, RoomAfter
  <2>7. CASE req[r].pc = "save"
    <3>1. /\ r \in two /\ (OwesTwo(c)' \cup S) \in SUBSET (two \ {r})
          /\ OwesOne(c)' \in SUBSET (one \cup {r})
      BY <1>3, <2>1, <2>7 DEF OwesTwo, OwesOne, Saves
    <3> HIDE DEF two, one
    <3> DEFINE T == Left(c, S)
               U == Left(c, S)'
               two2 == OwesTwo(c)' \cup S
               one2 == OwesOne(c)'
    <3>2. /\ U \in SUBSET (T \cup {row}) /\ IsFiniteSet(T) /\ Fits(T, two, one)
          /\ IsFiniteSet(U) /\ Cardinality(U) <= Cardinality(T) + 1
          /\ two2 \in SUBSET (two \ {r}) /\ one2 \in SUBSET (one \cup {r})
      BY <2>3, <2>4, <2>6, <3>1, OneRowMore
    <3> HIDE DEF T, U, two2, one2
    <3>3. Fits(U, two2, one2)
      BY <2>5, <3>1, <3>2, FirstMessageFits
    <3>4. Fits(Left(c, S)', OwesTwo(c)' \cup S, OwesOne(c)')
      BY <3>3 DEF U, two2, one2
    <3> QED  BY <3>4 DEF RoomAfter
  <2>8. CASE req[r].pc = "answer"
    <3>1. /\ r \in one /\ (OwesTwo(c)' \cup S) \in SUBSET two
          /\ OwesOne(c)' \in SUBSET (one \ {r})
      BY <1>3, <2>1, <2>8 DEF OwesTwo, OwesOne, Saves
    <3> HIDE DEF two, one
    <3> DEFINE T == Left(c, S)
               U == Left(c, S)'
               two2 == OwesTwo(c)' \cup S
               one2 == OwesOne(c)'
    <3>2. /\ U \in SUBSET (T \cup {row}) /\ IsFiniteSet(T) /\ Fits(T, two, one)
          /\ IsFiniteSet(U) /\ Cardinality(U) <= Cardinality(T) + 1
          /\ two2 \in SUBSET two /\ one2 \in SUBSET (one \ {r})
      BY <2>3, <2>4, <2>6, <3>1, OneRowMore
    <3> HIDE DEF T, U, two2, one2
    <3>3. Fits(U, two2, one2)
      BY <2>5, <3>1, <3>2, SecondMessageFits
    <3>4. Fits(Left(c, S)', OwesTwo(c)' \cup S, OwesOne(c)')
      BY <3>3 DEF U, two2, one2
    <3> QED  BY <3>4 DEF RoomAfter
  <2> QED  BY <2>2, <2>7, <2>8 DEF Saves
<1> QED  BY <1>2, <1>3

LEMMA RoomMove ==
    ASSUME TypeOK, IsFiniteSet(messages), RoomRemains, NEW r \in Reqs, Moves(r)
    PROVE  RoomRemains'
<1> SUFFICES ASSUME 2 * Cardinality(Reqs) <= Batch,
                    NEW c \in Convs, NEW S \in SUBSET Compacting(c)'
             PROVE  RoomAfter(c, S)'
  BY DEF RoomRemains
<1>1. \A q \in Reqs \ {r} : req'[q] = req[q]
  BY DEF Moves
<1>2. CASE Rests(r)
  BY <1>1, <1>2, RoomApart DEF Rests, Turns, In
<1>3. CASE GoesOn(r)
  BY <1>1, <1>3, RoomGoesOn
<1>4. CASE CountsFew(r)
  BY <1>1, <1>4, RoomCountsFew
<1>5. CASE Reads(r)
  BY <1>1, <1>5, RoomReads
<1>6. CASE Deletes(r)
  BY <1>1, <1>6, RoomDeletes
<1>7. CASE \E row : Saves(r, row)
  BY <1>1, <1>7, RoomSaves
<1> QED  BY <1>2, <1>3, <1>4, <1>5, <1>6, <1>7 DEF Moves

-----------------------------------------------------------------------------
(* How many rows there are: the theorems *)

LEMMA InitBInv == Init => BInv
<1> SUFFICES ASSUME Init PROVE BInv
  OBVIOUS
<1>1. IInv /\ IsFiniteSet(messages)
  BY InitIInv, FS_EmptySet DEF Init
<1>2. SummaryCounts
  <2>1. messages = {} /\ lastMsg = 0 /\ \A r \in Reqs : req[r].pc = "idle"
    BY DEF Init, Idle
  <2> QED  BY <2>1 DEF SummaryCounts
<1>3. RoomRemains
  <2> SUFFICES ASSUME NEW c \in Convs, NEW S \in SUBSET Compacting(c)
               PROVE  RoomAfter(c, S)
    BY DEF RoomRemains
  <2>1. /\ Left(c, S) = {} /\ OwesTwo(c) \cup S \in SUBSET Reqs /\ OwesOne(c) = {}
    BY DEF Left, Turns, In, OwesTwo, OwesOne, Compacting, Init, Idle
  <2>2. IsFiniteSet({}) /\ Cardinality({}) <= MaxTurns
    BY FS_EmptySet, ConversationsAssumption DEF ConversationsAssumption
  <2>3. Fits({}, OwesTwo(c) \cup S, {})
    BY <2>1, <2>2, FewFit
  <2> QED  BY <2>1, <2>3 DEF RoomAfter
<1> QED  BY <1>1, <1>2, <1>3 DEF BInv

LEMMA NextBInv == ASSUME BInv, [Next]_vars PROVE BInv'
<1>1. IInv' /\ TypeOK /\ IsFiniteSet(messages)
  BY NextIInv DEF BInv, IInv
<1>2. ASSUME NEW r \in Reqs, Handler(r)
      PROVE  IsFiniteSet(messages)' /\ SummaryCounts' /\ RoomRemains'
  <2>1. Moves(r)
    BY <1>1, <1>2, HandlerMoves
  <2>2. IsFiniteSet(messages')
    <3>1. CASE \E row : messages' = messages \cup {row}
      BY <1>1, <3>1, FS_AddElement
    <3>2. CASE messages' \subseteq messages
      BY <1>1, <3>2, FS_Subset
    <3> QED  BY <2>1, <3>1, <3>2
             DEF Moves, Rests, GoesOn, CountsFew, Reads, Deletes, Saves
  <2> QED  BY <1>1, <2>1, <2>2, CountsMove, RoomMove DEF BInv
<1>3. ASSUME ClearAll
      PROVE  IsFiniteSet(messages)' /\ SummaryCounts' /\ RoomRemains'
  <2>1. messages' = {} /\ lastMsg' = lastMsg /\ req' = req
    BY <1>3 DEF ClearAll
  <2>2. IsFiniteSet(messages')
    BY <2>1, FS_EmptySet
  <2>3. SummaryCounts'
    BY <1>1, <2>1, CountsShrink DEF BInv
  <2>4. RoomRemains'
    <3> SUFFICES ASSUME NEW c \in Convs, NEW S \in SUBSET Compacting(c)'
                 PROVE  RoomAfter(c, S)'
      BY DEF RoomRemains
    <3>1. Left(c, S)' \subseteq {} /\ IsFiniteSet({}) /\ Cardinality({}) <= MaxTurns
      BY <2>1, FS_EmptySet, ConversationsAssumption
      DEF Left, Turns, In, ConversationsAssumption
    <3> QED  BY <3>1, RoomForFew
  <2> QED  BY <2>2, <2>3, <2>4
<1>4. ASSUME UNCHANGED vars
      PROVE  IsFiniteSet(messages)' /\ SummaryCounts' /\ RoomRemains'
  BY <1>4 DEF vars, BInv, SummaryCounts, RoomRemains, RoomAfter, Left, Turns, In, OwesTwo,
              OwesOne, Compacting, Covering, Holding
<1>5. IsFiniteSet(messages)' /\ SummaryCounts' /\ RoomRemains'
  BY <1>2, <1>3, <1>4 DEF Next
<1> QED  BY <1>1, <1>5 DEF BInv

\* The inductive invariant behind the two bounds: of every message, how many
\* summaries and compacting requests have it, and of every conversation, how
\* much room the requests at work leave each other.
THEOREM BoundsInvariant == Spec => []BInv
<1>1. Init => BInv
  BY InitBInv
<1>2. BInv /\ [Next]_vars => BInv'
  BY NextBInv
<1> QED  BY <1>1, <1>2, PTL DEF Spec

\* Whatever order requests compact a conversation in (_maybe_summarize,
\* chat.py:54-83), a message gets into no more summaries than there are
\* requests.
THEOREM SummariesAreBounded == Spec => []SummariesBounded
<1>1. BInv => SummariesBounded
  <2> SUFFICES ASSUME BInv, NEW i \in 1..lastMsg
               PROVE  Cardinality({m \in messages : i \in m.covers}) <= Cardinality(Reqs)
    BY DEF SummariesBounded
  <2>1. /\ Cardinality(Covering(i)) \in Nat /\ Cardinality(Holding(i)) \in Nat
        /\ Cardinality(Reqs) \in Nat
    BY Finite DEF BInv, IInv
  <2>2. Cardinality(Covering(i)) + Cardinality(Holding(i)) <= Cardinality(Reqs)
    BY DEF BInv, SummaryCounts
  <2>3. Cardinality(Covering(i)) <= Cardinality(Reqs)
    BY <2>1, <2>2
  <2> QED  BY <2>3 DEF Covering
<1> QED  BY <1>1, BoundsInvariant, PTL

\* However many requests chat in one conversation at once, its turns stay
\* within two per request of MAX_TURNS_BEFORE_SUMMARY, as long as a batch is
\* two turns per request or more.
THEOREM HistoriesAreBounded == Spec => []HistoryBounded
<1>1. BInv => HistoryBounded
  <2> SUFFICES ASSUME BInv, 2 * Cardinality(Reqs) <= Batch, NEW c \in Convs
               PROVE  Cardinality(Turns(c)) <= MaxTurns + 2 * Cardinality(Reqs)
    BY DEF HistoryBounded
  <2>1. Left(c, {}) = Turns(c) /\ {} \in SUBSET Compacting(c)
    BY DEF Left
  <2>2. Fits(Turns(c), OwesTwo(c) \cup {}, OwesOne(c))
    BY <2>1 DEF BInv, RoomRemains, RoomAfter
  <2> DEFINE two == OwesTwo(c) \cup {}
             one == OwesOne(c)
  <2>3. /\ IsFiniteSet(Reqs) /\ Cardinality(Reqs) \in Nat /\ MaxTurns \in Nat
        /\ Cardinality(Turns(c)) \in Nat
        /\ two \in SUBSET Reqs /\ one \in SUBSET Reqs
    BY Finite DEF BInv, IInv
  <2> HIDE DEF two, one
  <2>4. IsFiniteSet(two) /\ IsFiniteSet(one)
    BY <2>3, FS_Subset
  <2>5. Cardinality(two) \in Nat /\ Cardinality(one) \in Nat
    BY <2>4, FS_CardinalityType
  <2>6. Fits(Turns(c), two, one)
    BY <2>2 DEF two, one
  <2> QED  BY <2>3, <2>5, <2>6 DEF Fits
<1> QED  BY <1>1, BoundsInvariant, PTL
=============================================================================
