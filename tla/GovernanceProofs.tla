-------------------------- MODULE GovernanceProofs --------------------------
(***************************************************************************)
(* Proofs about the governance ledger, for any set of operators and        *)
(* envelopes, any lease and event limits and any number of files; and about*)
(* the witness layer: what holds of the ledger alone goes on holding beside*)
(* witnesses and receivers, and with it receipts name one history and      *)
(* floors never go down.                                                   *)
(***************************************************************************)
EXTENDS Witness, SequenceTheorems, TLAPS

(* A ledger file other than the empty one extends another file by one      *)
(* entry that hashes that file's head: what makes the history a tree.      *)
ExtendsFile(L) ==
    /\ L # <<>>
    /\ \E P \in ledgers : /\ L = Append(P, L[Len(L)])
                          /\ L[Len(L)].prevHash = HeadHash(P)

Tree == \A L \in ledgers : L = <<>> \/ ExtendsFile(L)

Commands ==
    \A o \in Operators : cli[o] # Idle =>
        /\ ExtendsFile(cli[o].ledger)
        /\ ChainValid(cli[o].ledger, Operators)
        /\ cli[o].pc = "saved" => cli[o].ledger \in ledgers

\* The inductive invariant: two ledgers with one checkpoint are equal because
\* the files they extend have one checkpoint too, so the tree has to be part
\* of it; what the next file will be is in the commands still running.
IInv == /\ TypeOK
        /\ Tree
        /\ Commands
        /\ CheckpointPinsHistory
        /\ HeadHasLedger
        /\ PublishedReplays

-----------------------------------------------------------------------------
(* Lemmas about one chain *)

\* A chain that replays under a trust store replays under a larger one.
LEMMA TrustMonotone ==
    ASSUME NEW L, NEW S, NEW T, S \subseteq T, ChainValid(L, S)
    PROVE  ChainValid(L, T)
BY DEF ChainValid

\* In a chain that replays, an id's latest approval is its only one, so no
\* closure of the id stands before it (verify_ledger, lines 222-238).
LEMMA OnlyApproval ==
    ASSUME NEW L, NEW T, NEW a, NEW id, Len(L) \in Nat,
           ChainValid(L, T), Latest(L, a, Len(L), id)
    PROVE  /\ \A i \in 1..Len(L) : L[i].type = Approve /\ L[i].id = id => i = a
           /\ \A i \in 1..Len(L) :
                 L[i].type \in Closures /\ L[i].id = id => i \in (a+1)..Len(L)
<1>1. a \in 1..Len(L) /\ L[a].type = Approve /\ L[a].id = id
  BY DEF Latest
<1>2. MayApprove(L, a)
  BY <1>1 DEF ChainValid, Transition, Approve, Closures
<1>3. ASSUME NEW i \in 1..Len(L), L[i].type = Approve, L[i].id = id
      PROVE  i = a
  <2>1. ~(i \in (a+1)..Len(L))
    BY <1>3 DEF Latest
  <2>2. ~(i \in 1..(a-1))
    BY <1>1, <1>2, <1>3 DEF MayApprove
  <2> QED  BY <1>1, <2>1, <2>2
<1>4. ASSUME NEW i \in 1..Len(L), L[i].type \in Closures, L[i].id = id
      PROVE  i \in (a+1)..Len(L)
  <2>1. i # a
    BY <1>1, <1>4 DEF Approve, Closures
  <2>2. MayClose(L, i)
    BY <1>4 DEF ChainValid, Transition, Approve, Closures
  <2>3. PICK b \in 1..(i-1) : L[b].type = Approve /\ L[b].id = id
    BY <1>4, <2>2 DEF MayClose, Latest
  <2>4. b = a
    BY <1>3, <2>3
  <2> QED  BY <1>1, <2>1, <2>3, <2>4
<1> QED  BY <1>3, <1>4

-----------------------------------------------------------------------------
(* Lemmas about the set of files *)

\* A file written to its end adds what it holds, one cut off adds nothing.
LEMMA ParsedAdds ==
    ASSUME NEW files, NEW content
    PROVE  /\ Parsed(files \cup {Whole(content)}) = Parsed(files) \cup {content}
           /\ Parsed(files \cup {CutOff}) = Parsed(files)
<1>1. Whole(content).whole /\ Whole(content).content = content
  BY DEF Whole
<1>2. ~CutOff.whole
  BY DEF CutOff
<1> HIDE DEF Whole
<1>3. Parsed(files \cup {Whole(content)}) = Parsed(files) \cup {content}
  BY <1>1 DEF Parsed
<1>4. Parsed(files \cup {CutOff}) = Parsed(files)
  BY <1>2 DEF Parsed
<1> QED  BY <1>3, <1>4

\* A complete file of a history or of a checkpoint is a record of its type.
LEMMA WholeTyped ==
    ASSUME NEW S, NEW content \in S
    PROVE  Whole(content) \in [whole : {TRUE}, content : S]
BY DEF Whole

\* What init writes: the empty ledger and its checkpoint.
LEMMA InitDisk == Init => ledgers = {<<>>} /\ heads = {CheckpointOf(<<>>)}
<1>1. ASSUME NEW content
      PROVE  Parsed({Whole(content)}) = {content}
  <2>1. Whole(content).whole /\ Whole(content).content = content
    BY DEF Whole
  <2> HIDE DEF Whole
  <2> QED  BY <2>1 DEF Parsed
<1> QED  BY <1>1 DEF Init, ledgers, heads

\* Files of the right types hold histories and checkpoints.
LEMMA DiskTypes ==
    ASSUME TypeOK
    PROVE  ledgers \subseteq Seq(Entry) /\ heads \subseteq Checkpoint
<1>1. ~CutOff.whole
  BY DEF CutOff
<1>2. \A f \in ledgerFiles : f.whole => f.content \in Seq(Entry)
  BY <1>1 DEF TypeOK
<1>3. \A f \in headFiles : f.whole => f.content \in Checkpoint
  BY <1>1 DEF TypeOK
<1>4. ledgers \subseteq Seq(Entry)
  BY <1>2 DEF ledgers, Parsed
<1>5. heads \subseteq Checkpoint
  BY <1>3 DEF heads, Parsed
<1> QED  BY <1>4, <1>5

\* What is appended to a file is an entry of the type invariant.
LEMMA AppendedEntry ==
    ASSUME TypeOK, NEW L \in ledgers, NEW kind \in Closures \cup {Approve},
           NEW id \in Envelopes, NEW at \in Nat, NEW expires \in Nat,
           NEW o \in Operators
    PROVE  LET e == new_entry(kind, id, at, expires, o, L)
           IN  /\ e \in Entry
               /\ Append(L, e) \in Seq(Entry)
               /\ ExtendsFile(Append(L, e))
<1> DEFINE e == new_entry(kind, id, at, expires, o, L)
<1>1. L \in Seq(Entry) /\ Len(L) \in Nat
  BY DiskTypes
<1>2. e \in Entry
  BY <1>1 DEF new_entry, Entry
<1>3. /\ Append(L, e) \in Seq(Entry)
      /\ Append(L, e) # <<>>
      /\ Len(Append(L, e)) = Len(L) + 1
      /\ Append(L, e)[Len(L) + 1] = e
  BY <1>1, <1>2
<1>4. e.prevHash = HeadHash(L)
  BY DEF new_entry
<1> HIDE DEF e
<1>5. ExtendsFile(Append(L, e))
  BY <1>3, <1>4 DEF ExtendsFile
<1> QED  BY <1>2, <1>3, <1>5 DEF e

\* Two chains with one checkpoint, each extending a file, are equal when the
\* checkpoints of the files tell those apart: the hash covers prevHash.
LEMMA SameCheckpoint ==
    ASSUME TypeOK, CheckpointPinsHistory,
           NEW L \in Seq(Entry), NEW M \in Seq(Entry),
           ExtendsFile(L), ExtendsFile(M), CheckpointOf(L) = CheckpointOf(M)
    PROVE  L = M
<1>1. PICK P \in ledgers : /\ L = Append(P, L[Len(L)])
                           /\ L[Len(L)].prevHash = HeadHash(P)
  BY DEF ExtendsFile
<1>2. PICK Q \in ledgers : /\ M = Append(Q, M[Len(M)])
                           /\ M[Len(M)].prevHash = HeadHash(Q)
  BY DEF ExtendsFile
<1>3. L # <<>> /\ M # <<>>
  BY DEF ExtendsFile
<1>4. Len(L) = Len(M) /\ HeadHash(L) = HeadHash(M)
  BY DEF CheckpointOf
<1>5. sha(L[Len(L)]) = sha(M[Len(M)])
  BY <1>3, <1>4 DEF HeadHash
<1>6. L[Len(L)] = M[Len(M)]
  BY <1>5 DEF sha
<1>7. P \in Seq(Entry) /\ Q \in Seq(Entry)
  BY DiskTypes
<1>8. Len(P) = Len(Q)
  <2>1. Len(L) = Len(P) + 1
    BY <1>1, <1>7
  <2>2. Len(M) = Len(Q) + 1
    BY <1>2, <1>7
  <2>3. Len(P) \in Nat /\ Len(Q) \in Nat
    BY <1>7, LenProperties
  <2>4. Len(P) + 1 = Len(Q) + 1
    BY <1>4, <2>1, <2>2
  <2> QED  BY <2>3, <2>4
<1>9. P = Q
  BY <1>1, <1>2, <1>6, <1>8 DEF CheckpointPinsHistory, CheckpointOf
<1> QED  BY <1>1, <1>2, <1>6, <1>9

\* Files are never removed, so what extends a file keeps extending one.
LEMMA FilesGrow ==
    ASSUME ledgers \subseteq ledgers'
    PROVE  /\ Entry \subseteq Entry'
           /\ \A L \in Seq(Entry) : L \in Seq(Entry')
           /\ \A L : ExtendsFile(L) => ExtendsFile(L)'
<1>1. Entry \subseteq Entry'
  BY DEF Entry, HeadHash
<1>2. \A L \in Seq(Entry) : L \in Seq(Entry')
  BY <1>1, SeqMonotonic
<1>3. \A L : ExtendsFile(L) => ExtendsFile(L)'
  BY DEF ExtendsFile, HeadHash
<1> QED  BY <1>1, <1>2, <1>3

-----------------------------------------------------------------------------
(* The invariant holds initially and every action preserves it *)

\* The invariant holds of the empty ledger and its checkpoint.
LEMMA InitIInv == Init => IInv
<1> SUFFICES ASSUME Init PROVE IInv
  OBVIOUS
<1> USE DEF Init
<1>1. ledgers = {<<>>} /\ heads = {CheckpointOf(<<>>)}
  BY InitDisk
<1>2. TypeOK
  <2>1. <<>> \in Seq(Entry) /\ Len(<<>>) = 0
    BY EmptySeq
  <2>2. CheckpointOf(<<>>) \in Checkpoint
    BY <1>1, <2>1 DEF CheckpointOf, Checkpoint
  <2> QED  BY <2>1, <2>2, GovernanceAssumption
           DEF TypeOK, Whole, GovernanceAssumption
<1>3. Tree /\ Commands /\ CheckpointPinsHistory /\ HeadHasLedger
  BY <1>1 DEF Tree, Commands, CheckpointPinsHistory, HeadHasLedger
<1>4. PublishedReplays
  BY <1>1, EmptySeq, GovernanceAssumption
     DEF PublishedReplays, ChainValid, GovernanceAssumption
<1> QED  BY <1>2, <1>3, <1>4 DEF IInv

\* A command that computed a chain by appending one entry to a file, and
\* replayed the result, leaves the invariant in place.
LEMMA ComputedPreserves ==
    ASSUME IInv, NEW o \in Operators, NEW L \in ledgers,
           NEW kind \in Closures \cup {Approve}, NEW id \in Envelopes,
           NEW expires \in Nat, NEW r \in BOOLEAN, NEW updated,
           updated = Append(L, new_entry(kind, id, now, expires, o, L)),
           Generated(updated),
           cli' = [cli EXCEPT ![o] = [pc |-> "computed", ledger |-> updated,
                                      rereads |-> r, trust |-> trust]],
           UNCHANGED <<ledgerFiles, headFiles, trust, pinned, now>>
    PROVE  IInv'
<1>0. UNCHANGED <<ledgers, heads>>
  BY DEF ledgers, heads
<1> DEFINE command == [pc |-> "computed", ledger |-> updated,
                       rereads |-> r, trust |-> trust]
<1>1. now \in Nat
  BY GovernanceAssumption DEF IInv, TypeOK, GovernanceAssumption
<1>2. updated \in Seq(Entry) /\ ExtendsFile(updated)
  BY <1>1, AppendedEntry DEF IInv
<1>3. ChainValid(updated, Operators)
  BY TrustMonotone DEF IInv, TypeOK, Generated
<1>4. TypeOK'
  <2>1. command \in RunningCommand
    BY <1>2 DEF IInv, TypeOK, RunningCommand
  <2>2. cli' \in [Operators -> RunningCommand \cup {Idle}]
    BY <2>1 DEF IInv, TypeOK
  <2>3. /\ RunningCommand' = RunningCommand /\ Seq(Entry)' = Seq(Entry)
        /\ Checkpoint' = Checkpoint
    BY <1>0 DEF RunningCommand, Entry, Checkpoint, HeadHash
  <2> QED  BY <2>2, <2>3 DEF IInv, TypeOK
<1>5. \A K : ExtendsFile(K)' <=> ExtendsFile(K)
  BY <1>0 DEF ExtendsFile, HeadHash
<1>6. Commands'
  <2> SUFFICES ASSUME NEW p \in Operators, cli'[p] # Idle
               PROVE  /\ ExtendsFile(cli'[p].ledger)
                      /\ ChainValid(cli'[p].ledger, Operators)
                      /\ cli'[p].pc = "saved" => cli'[p].ledger \in ledgers
    BY <1>0, <1>5 DEF Commands
  <2>1. CASE p = o
    BY <2>1, <1>2, <1>3 DEF IInv, TypeOK
  <2>2. CASE p # o
    BY <2>2 DEF IInv, TypeOK, Commands
  <2> QED  BY <2>1, <2>2
<1>7. /\ Tree' /\ CheckpointPinsHistory' /\ HeadHasLedger' /\ PublishedReplays'
  BY <1>0, <1>5 DEF IInv, Tree, CheckpointPinsHistory, HeadHasLedger, PublishedReplays
<1> QED  BY <1>4, <1>6, <1>7 DEF IInv

\* Writing the ledger file a command computed to its end keeps the invariant.
LEMMA SaveLedgerPreserves ==
    ASSUME IInv, NEW o \in Operators, SaveLedger(o),
           ledgerFiles' = ledgerFiles \cup {Whole(cli[o].ledger)},
           cli' = [cli EXCEPT ![o] = LedgerSaved(o)]
    PROVE  IInv'
<1> DEFINE N == cli[o].ledger
<1>1. /\ cli[o] # Idle /\ cli[o] \in RunningCommand
      /\ ledgers' = ledgers \cup {N}
      /\ UNCHANGED <<headFiles, heads, trust, pinned, now>>
  <2>1. ledgers' = ledgers \cup {N}
    BY ParsedAdds DEF ledgers
  <2>2. UNCHANGED <<headFiles, trust, pinned, now>>
    BY DEF SaveLedger
  <2>3. cli[o] # Idle /\ cli[o] \in RunningCommand
    BY DEF SaveLedger, Idle, IInv, TypeOK
  <2> QED  BY <2>1, <2>2, <2>3 DEF heads
<1>2. N \in Seq(Entry) /\ ExtendsFile(N) /\ ChainValid(N, Operators)
  BY <1>1 DEF IInv, Commands, RunningCommand
<1>3. /\ Entry \subseteq Entry'
      /\ \A L \in Seq(Entry) : L \in Seq(Entry')
      /\ \A L : ExtendsFile(L) => ExtendsFile(L)'
  BY <1>1, FilesGrow
<1>4. TypeOK'
  <2>1. ledgerFiles' \subseteq ([whole : {TRUE}, content : Seq(Entry)] \cup {CutOff})'
    <3>1. Whole(N) \in [whole : {TRUE}, content : Seq(Entry)]
      BY <1>2, WholeTyped
    <3>2. [whole : {TRUE}, content : Seq(Entry)]
            \subseteq [whole : {TRUE}, content : Seq(Entry)]'
      BY <1>3
    <3> QED  BY <3>1, <3>2 DEF IInv, TypeOK, CutOff
  <2>2. headFiles' \subseteq ([whole : {TRUE}, content : Checkpoint] \cup {CutOff})'
    BY <1>1 DEF IInv, TypeOK, Checkpoint, HeadHash, CutOff
  <2>3. RunningCommand \subseteq RunningCommand'
    BY <1>3 DEF RunningCommand
  <2>4. cli' \in [Operators -> RunningCommand \cup {Idle}]
    BY <1>1, <1>2 DEF LedgerSaved, IInv, TypeOK, RunningCommand
  <2> QED  BY <1>1, <2>1, <2>2, <2>3, <2>4 DEF IInv, TypeOK, Idle
<1>5. Tree'
  BY <1>1, <1>2, <1>3 DEF IInv, Tree
<1>6. Commands'
  <2> SUFFICES ASSUME NEW p \in Operators, cli'[p] # Idle
               PROVE  /\ ExtendsFile(cli[p].ledger) /\ cli[p].ledger = cli'[p].ledger
                      /\ ChainValid(cli[p].ledger, Operators)
                      /\ cli'[p].pc = "saved" => cli'[p].ledger \in ledgers'
    BY <1>3 DEF Commands
  <2>1. CASE p = o
    BY <1>1, <1>2, <2>1 DEF LedgerSaved, IInv, TypeOK
  <2>2. CASE p # o
    BY <1>1, <2>2 DEF IInv, TypeOK, Commands
  <2> QED  BY <2>1, <2>2
<1>7. CheckpointPinsHistory'
  <2> SUFFICES ASSUME NEW L \in ledgers', NEW M \in ledgers',
                      CheckpointOf(L) = CheckpointOf(M)
               PROVE  L = M
    BY DEF CheckpointPinsHistory, CheckpointOf, HeadHash
  <2>1. ASSUME NEW K \in ledgers, CheckpointOf(N) = CheckpointOf(K)
        PROVE  N = K
    <3>1. K # <<>>
      <4>1. Len(N) # 0
        BY <1>2, EmptySeq DEF ExtendsFile
      <4> QED  BY <2>1, <4>1, EmptySeq DEF CheckpointOf
    <3>2. ExtendsFile(K) /\ K \in Seq(Entry)
      BY <3>1, DiskTypes DEF IInv, Tree
    <3> HIDE DEF N
    <3> QED  BY <1>2, <2>1, <3>2, SameCheckpoint DEF IInv
  <2>2. CASE L \in ledgers /\ M \in ledgers
    BY <2>2 DEF IInv, CheckpointPinsHistory
  <2> QED  BY <1>1, <2>1, <2>2
<1>8. HeadHasLedger' /\ PublishedReplays'
  BY <1>1, <1>2 DEF IInv, HeadHasLedger, PublishedReplays
<1> QED  BY <1>4, <1>5, <1>6, <1>7, <1>8 DEF IInv

\* Steps that write no complete ledger file and start no command.
LEMMA OtherPreserves ==
    ASSUME IInv, ledgerFiles' \subseteq ledgerFiles \cup {CutOff}, UNCHANGED ledgers,
           \A f \in headFiles' : \/ f \in headFiles \cup {CutOff}
                                \/ \E L \in ledgers : f = Whole(CheckpointOf(L)),
           \A p \in Operators : cli'[p] \in {cli[p], Idle},
           cli' \in [Operators -> {cli[p] : p \in Operators} \cup {Idle}],
           trust' \subseteq Operators, pinned' \subseteq Envelopes,
           now' \in 0..MaxTime
    PROVE  IInv'
<1>1. TypeOK'
  <2>1. \A L \in ledgers : CheckpointOf(L) \in Checkpoint
    BY LenProperties, DiskTypes DEF IInv, CheckpointOf, Checkpoint
  <2>2. headFiles' \subseteq [whole : {TRUE}, content : Checkpoint] \cup {CutOff}
    <3>1. \A L \in ledgers :
            Whole(CheckpointOf(L)) \in [whole : {TRUE}, content : Checkpoint]
      BY <2>1, WholeTyped
    <3> QED  BY <3>1 DEF IInv, TypeOK
  <2>3. cli' \in [Operators -> RunningCommand \cup {Idle}]
    BY DEF IInv, TypeOK
  <2>4. /\ RunningCommand' = RunningCommand /\ Seq(Entry)' = Seq(Entry)
        /\ Checkpoint' = Checkpoint
    BY DEF RunningCommand, Entry, Checkpoint, HeadHash
  <2>5. ledgerFiles' \subseteq [whole : {TRUE}, content : Seq(Entry)] \cup {CutOff}
    BY DEF IInv, TypeOK
  <2> QED  BY <2>2, <2>3, <2>4, <2>5 DEF TypeOK
<1>2. Tree'
  BY DEF IInv, Tree, ExtendsFile, HeadHash
<1>3. Commands'
  BY DEF IInv, Commands, ExtendsFile, HeadHash
<1>4. CheckpointPinsHistory' /\ PublishedReplays'
  BY DEF IInv, CheckpointPinsHistory, PublishedReplays
<1>5. HeadHasLedger'
  <2> SUFFICES ASSUME NEW f \in headFiles', f.whole
               PROVE  \E L \in ledgers : CheckpointOf(L) = f.content
    BY DEF HeadHasLedger, heads, Parsed, CheckpointOf, HeadHash
  <2>1. CASE f \in headFiles
    <3>1. f.content \in heads
      BY <2>1 DEF heads, Parsed
    <3> QED  BY <3>1 DEF IInv, HeadHasLedger
  <2>2. ASSUME NEW L \in ledgers, f = Whole(CheckpointOf(L))
        PROVE  \E K \in ledgers : CheckpointOf(K) = f.content
    BY <2>2 DEF Whole
  <2>3. f # CutOff
    BY DEF CutOff
  <2> QED  BY <2>1, <2>2, <2>3
<1> QED  BY <1>1, <1>2, <1>3, <1>4, <1>5 DEF IInv

\* Every step of Next preserves the invariant.
LEMMA NextIInv == IInv /\ [Next]_vars => IInv'
<1> SUFFICES ASSUME IInv, [Next]_vars PROVE IInv'
  OBVIOUS
<1> DEFINE CommandsOK(c) ==
      /\ \A p \in Operators : c[p] \in {cli[p], Idle}
      /\ c \in [Operators -> {cli[p] : p \in Operators} \cup {Idle}]
<1>1. cli \in [Operators -> RunningCommand \cup {Idle}] /\ CommandsOK(cli)
  BY DEF IInv, TypeOK
<1>2. trust \subseteq Operators /\ pinned \subseteq Envelopes
      /\ now \in 0..MaxTime /\ now \in Nat /\ MaxTime \in Nat
  BY GovernanceAssumption DEF IInv, TypeOK, GovernanceAssumption
<1>3. ASSUME NEW o \in Operators, NEW env \in Envelopes, NEW L \in Readable,
             NEW c \in heads \cup {NoCheckpoint}, NEW lease \in 1..MaxLease,
             AppendApproval(o, env, L, c, lease)
      PROVE  IInv'
  <2>1. now + lease \in Nat
    BY <1>2, GovernanceAssumption DEF GovernanceAssumption
  <2>2. L \in ledgers
    BY DEF Readable
  <2> QED  BY <1>3, <2>1, <2>2, ComputedPreserves DEF AppendApproval
<1>4. ASSUME NEW o \in Operators, NEW kind \in Closures, NEW id \in Envelopes,
             NEW L \in Readable, NEW c \in heads,
             AppendClosure(o, kind, id, L, c)
      PROVE  IInv'
  <2>1. L \in ledgers
    BY DEF Readable
  <2> QED  BY <1>4, <2>1, ComputedPreserves DEF AppendClosure, NoLease
<1>5. ASSUME NEW o \in Operators, SaveLedger(o)
      PROVE  IInv'
  <2>1. CASE /\ ledgerFiles' = ledgerFiles \cup {Whole(cli[o].ledger)}
             /\ cli' = [cli EXCEPT ![o] = LedgerSaved(o)]
    BY <1>5, <2>1, SaveLedgerPreserves
  <2>2. CASE /\ ledgerFiles' = ledgerFiles \cup {CutOff}
             /\ cli' = [cli EXCEPT ![o] = Idle]
    <3>1. UNCHANGED ledgers
      BY <2>2, ParsedAdds DEF ledgers
    <3>2. CommandsOK(cli')
      BY <1>1, <2>2
    <3> QED  BY <1>2, <1>5, <2>2, <3>1, <3>2, OtherPreserves DEF SaveLedger
  <2> QED  BY <1>5, <2>1, <2>2 DEF SaveLedger
<1>6. ASSUME NEW o \in Operators, SaveHead(o)
      PROVE  IInv'
  <2>1. cli[o].ledger \in ledgers
    BY <1>6 DEF SaveHead, IInv, Commands, Idle
  <2>2. \A f \in headFiles' : \/ f \in headFiles \cup {CutOff}
                             \/ \E L \in ledgers : f = Whole(CheckpointOf(L))
    BY <1>6, <2>1 DEF SaveHead
  <2>3. CommandsOK(cli')
    BY <1>1, <1>6 DEF SaveHead
  <2>4. UNCHANGED <<ledgerFiles, ledgers, trust, pinned, now>>
    BY <1>6 DEF SaveHead, ledgers
  <2> QED  BY <1>2, <2>2, <2>3, <2>4, OtherPreserves
<1>7. ASSUME UNCHANGED <<ledgerFiles, headFiles>>, CommandsOK(cli'),
             trust' \subseteq Operators, pinned' \subseteq Envelopes,
             now' \in 0..MaxTime
      PROVE  IInv'
  <2>1. UNCHANGED ledgers
    BY <1>7 DEF ledgers
  <2> QED  BY <1>7, <2>1, OtherPreserves
<1>8. ASSUME NEW o \in Operators, Abort(o)
      PROVE  IInv'
  <2>1. CommandsOK(cli')
    BY <1>1, <1>8 DEF Abort
  <2> QED  BY <1>2, <1>7, <1>8, <2>1 DEF Abort
<1>9. ASSUME NEW T \in TrustStores, EditTrust(T)
      PROVE  IInv'
  <2>1. trust' \subseteq Operators
    BY <1>9, GovernanceAssumption DEF EditTrust, GovernanceAssumption
  <2> QED  BY <1>1, <1>2, <1>7, <1>9, <2>1 DEF EditTrust
<1>10. ASSUME NEW P \in PinStores, EditPins(P)
      PROVE  IInv'
  <2>1. pinned' \subseteq Envelopes
    BY <1>10, GovernanceAssumption DEF EditPins, GovernanceAssumption
  <2> QED  BY <1>1, <1>2, <1>7, <1>10, <2>1 DEF EditPins
<1>11. CASE Tick
  <2>1. now' \in 0..MaxTime
    BY <1>2, <1>11 DEF Tick
  <2> QED  BY <1>1, <1>2, <1>7, <1>11, <2>1 DEF Tick
<1>12. CASE SetBack
  <2>1. now' \in 0..MaxTime
    BY <1>2, <1>12 DEF SetBack
  <2> QED  BY <1>1, <1>2, <1>7, <1>12, <2>1 DEF SetBack
<1>13. CASE UNCHANGED vars
  BY <1>1, <1>2, <1>7, <1>13 DEF vars
<1> QED
  BY <1>3, <1>4, <1>5, <1>6, <1>8, <1>9, <1>10, <1>11, <1>12, <1>13
     DEF Next, Command

\* Whatever operators, branches, crashes and clocks do, the invariant holds.
THEOREM InductiveInvariant == Spec => []IInv
<1>1. Init => IInv
  BY InitIInv
<1>2. IInv /\ [Next]_vars => IInv'
  BY NextIInv
<1> QED  BY <1>1, <1>2, PTL DEF Spec

-----------------------------------------------------------------------------
(* The properties the runs check, for every value of the constants *)

\* Files, checkpoints and commands have the shape verify_ledger expects.
THEOREM TypeCorrect == Spec => []TypeOK
<1>1. IInv => TypeOK
  BY DEF IInv
<1> QED  BY <1>1, InductiveInvariant, PTL

\* No interleaving of commands, crashes and clock changes writes two
\* ledgers that one checkpoint file would accept.
THEOREM CheckpointsPinHistories == Spec => []CheckpointPinsHistory
<1>1. IInv => CheckpointPinsHistory
  BY DEF IInv
<1> QED  BY <1>1, InductiveInvariant, PTL

\* main writes the ledger before the checkpoint that names it.
THEOREM HeadsHaveLedgers == Spec => []HeadHasLedger
<1>1. IInv => HeadHasLedger
  BY DEF IInv
<1> QED  BY <1>1, InductiveInvariant, PTL

\* Every file that was written to its end replays as long as its signers stay
\* pinned, whatever failed or was killed in the middle of a write.
THEOREM PublishedLedgersReplay == Spec => []PublishedReplays
<1>1. IInv => PublishedReplays
  BY DEF IInv
<1> QED  BY <1>1, InductiveInvariant, PTL

\* No check approves an envelope from a history that closes it.
THEOREM ClosuresAreTerminal == Spec => []ClosureIsTerminal
<1>1. TypeOK => ClosureIsTerminal
  <2> SUFFICES ASSUME TypeOK, NEW L \in ledgers, NEW c \in heads,
                      NEW env \in Envelopes, ReviewApproved(env, L, c),
                      NEW i \in 1..Len(L), L[i].type \in Closures, L[i].id = env
               PROVE  FALSE
    BY DEF ClosureIsTerminal
  <2>1. PICK a \in 1..Len(L) : /\ Latest(L, a, Len(L), env)
                               /\ ~ClosedAfter(L, a, Len(L), env)
    BY DEF ReviewApproved
  <2>2. Len(L) \in Nat
    BY LenProperties, DiskTypes
  <2>3. i \in (a+1)..Len(L)
    BY <2>1, <2>2, OnlyApproval DEF ReviewApproved
  <2> QED  BY <2>1, <2>3 DEF ClosedAfter
<1> QED  BY <1>1, TypeCorrect, PTL

\* No check approves beyond the first and only lease of an envelope.
THEOREM LeasesNeverRenewed == Spec => []LeaseNeverRenewed
<1>1. TypeOK => LeaseNeverRenewed
  <2> SUFFICES ASSUME TypeOK, NEW L \in ledgers, NEW c \in heads,
                      NEW env \in Envelopes, ReviewApproved(env, L, c),
                      NEW i \in 1..Len(L), L[i].type = Approve, L[i].id = env
               PROVE  /\ now < L[i].expiresAt
                      /\ L[i].expiresAt <= L[i].at + MaxLease
    BY DEF LeaseNeverRenewed
  <2>1. PICK a \in 1..Len(L) : /\ Latest(L, a, Len(L), env)
                               /\ now < L[a].expiresAt
    BY DEF ReviewApproved
  <2>2. Len(L) \in Nat
    BY LenProperties, DiskTypes
  <2>3. i = a
    BY <2>1, <2>2, OnlyApproval DEF ReviewApproved
  <2>4. MayApprove(L, i)
    BY DEF ReviewApproved, ChainValid, Transition, Approve, Closures
  <2> QED  BY <2>1, <2>3, <2>4 DEF MayApprove
<1> QED  BY <1>1, TypeCorrect, PTL

-----------------------------------------------------------------------------
(* Witnesses and receivers *)

(* Every receipt names a file whose final event its clock does not precede. *)
SignedFiles ==
    \A receipt \in receipts :
        \E L \in ledgers : /\ receipt.checkpoint = CheckpointOf(L)
                           /\ NotBeforeLast(L, receipt.signedAt)

(* What a receiver retains is the length of what it accepted. *)
FloorIsAccepted == \A r \in Receivers : floor[r] = Len(accepted[r])

\* The inductive invariant.  SignedFiles is what ties a receipt, signed under
\* one trust store and one clock, to a file that all later clocks and stores
\* see; the uniqueness of that file comes from the ledger's own invariant.
WInv == /\ IInv
        /\ WitnessTypeOK
        /\ SignedFiles
        /\ FloorIsAccepted

-----------------------------------------------------------------------------

\* Nobody has signed or received anything at first.
LEMMA InitWInv == WitnessInit => WInv
<1> SUFFICES ASSUME WitnessInit PROVE WInv
  OBVIOUS
<1> USE DEF WitnessInit
<1>1. IInv
  BY InitIInv
<1>2. WitnessTypeOK
  <2>1. <<>> \in ledgers
    BY InitDisk
  <2> QED  BY <1>1, <2>1 DEF WitnessTypeOK, IInv
<1>3. SignedFiles /\ FloorIsAccepted
  BY DEF SignedFiles, FloorIsAccepted
<1> QED  BY <1>1, <1>2, <1>3 DEF WInv

\* The ledger's commands never remove a file, so receipts and receivers keep
\* the files they name.
LEMMA FilesStay == [Next]_vars => ledgers \subseteq ledgers'
<1>1. [Next]_vars => ledgerFiles \subseteq ledgerFiles'
  BY DEF Next, Command, AppendApproval, AppendClosure, SaveLedger, SaveHead,
         Abort, EditTrust, EditPins, Tick, SetBack, vars
<1> QED  BY <1>1 DEF ledgers, Parsed

\* A step of the ledger, its trust stores or the clock, beside the witnesses.
LEMMA LedgerStepWInv ==
    ASSUME WInv, [Next]_vars, UNCHANGED wvars
    PROVE  WInv'
<1>1. IInv'
  BY NextIInv DEF WInv
<1>2. ledgers \subseteq ledgers'
  BY FilesStay
<1>3. UNCHANGED <<receipts, wtrust, floor, accepted>>
  BY DEF wvars
<1>4. WitnessTypeOK'
  <2>1. Receipt \subseteq Receipt'
    BY <1>2 DEF Receipt, CheckpointOf, HeadHash
  <2>2. accepted' \in [Receivers -> ledgers']
    BY <1>2, <1>3 DEF WInv, WitnessTypeOK
  <2> QED  BY <1>1, <1>3, <2>1, <2>2 DEF WInv, IInv, WitnessTypeOK
<1>5. SignedFiles'
  BY <1>2, <1>3 DEF WInv, SignedFiles, CheckpointOf, HeadHash, NotBeforeLast
<1>6. FloorIsAccepted'
  BY <1>3 DEF WInv, FloorIsAccepted
<1> QED  BY <1>1, <1>4, <1>5, <1>6 DEF WInv

\* A witness signs a file it replayed, at or after its final event.
LEMMA SigningWInv ==
    ASSUME WInv, NEW w \in Witnesses, NEW L \in ledgers, witness_checkpoint(w, L)
    PROVE  WInv'
<1> DEFINE signed == [witness |-> w, signedAt |-> now,
                      checkpoint |-> CheckpointOf(L)]
<1>1. /\ receipts' = receipts \cup {signed}
      /\ UNCHANGED <<vars, wtrust, floor, accepted>>
  BY DEF witness_checkpoint
<1>2. IInv'
  BY <1>1, NextIInv DEF WInv
<1>3. UNCHANGED <<ledgers, now>>
  BY <1>1 DEF vars, ledgers
<1>4. signed \in Receipt
  BY DEF WInv, IInv, TypeOK, Receipt
<1>5. WitnessTypeOK'
  BY <1>1, <1>2, <1>3, <1>4 DEF WInv, IInv, WitnessTypeOK, Receipt, CheckpointOf, HeadHash
<1>6. SignedFiles'
  <2> SUFFICES ASSUME NEW receipt \in receipts \cup {signed}
               PROVE  \E M \in ledgers : /\ receipt.checkpoint = CheckpointOf(M)
                                         /\ NotBeforeLast(M, receipt.signedAt)
    BY <1>1, <1>3 DEF SignedFiles, CheckpointOf, HeadHash, NotBeforeLast
  <2>1. CASE receipt \in receipts
    BY <2>1 DEF WInv, SignedFiles
  <2>2. CASE receipt = signed
    BY <2>2 DEF witness_checkpoint
  <2> QED  BY <2>1, <2>2
<1>7. FloorIsAccepted'
  BY <1>1 DEF WInv, FloorIsAccepted
<1> QED  BY <1>2, <1>5, <1>6, <1>7 DEF WInv

\* What verifies against a receipt has the count the receipt names.
LEMMA AcceptedCount ==
    ASSUME NEW L, NEW T, NEW receipt, NEW W, NEW minimum,
           verify_witness(L, T, receipt, W, minimum)
    PROVE  receipt.checkpoint.count = Len(L) /\ Len(L) >= minimum
BY DEF verify_witness, checkpoint_matches, CheckpointOf

\* A receiver retains the count of the file it accepted.
LEMMA ReceivingWInv ==
    ASSUME WInv, NEW r \in Receivers, NEW L \in ledgers, NEW receipt \in receipts,
           Receive(r, L, receipt)
    PROVE  WInv'
<1>1. /\ floor' = [floor EXCEPT ![r] = Len(L)]
      /\ accepted' = [accepted EXCEPT ![r] = L]
      /\ UNCHANGED <<vars, receipts, wtrust>>
  BY AcceptedCount DEF Receive
<1>2. IInv'
  BY <1>1, NextIInv DEF WInv
<1>3. UNCHANGED ledgers /\ Len(L) \in Nat
  BY <1>1, LenProperties, DiskTypes DEF vars, ledgers, WInv, IInv
<1>4. WitnessTypeOK'
  BY <1>1, <1>2, <1>3 DEF WInv, IInv, WitnessTypeOK, Receipt, CheckpointOf, HeadHash
<1>5. SignedFiles'
  BY <1>1, <1>3 DEF WInv, SignedFiles, CheckpointOf, HeadHash, NotBeforeLast
<1>6. FloorIsAccepted'
  BY <1>1 DEF WInv, WitnessTypeOK, FloorIsAccepted
<1> QED  BY <1>2, <1>4, <1>5, <1>6 DEF WInv

\* Every step of the composition preserves the invariant.
LEMMA WitnessNextWInv == WInv /\ [WitnessNext]_allVars => WInv'
<1> SUFFICES ASSUME WInv, [WitnessNext]_allVars PROVE WInv'
  OBVIOUS
<1>1. CASE Next /\ UNCHANGED wvars
  BY <1>1, LedgerStepWInv
<1>2. ASSUME NEW w \in Witnesses, NEW L \in ledgers, witness_checkpoint(w, L)
      PROVE  WInv'
  BY <1>2, SigningWInv
<1>3. ASSUME NEW r \in Receivers, NEW L \in Readable, NEW receipt \in receipts,
             Receive(r, L, receipt)
      PROVE  WInv'
  BY <1>3, ReceivingWInv DEF Readable
<1>4. ASSUME NEW W \in WitnessStores, EditWitnesses(W)
      PROVE  WInv'
  <2>1. W \subseteq Witnesses
    BY WitnessAssumption DEF WitnessAssumption
  <2>2. IInv'
    BY <1>4, NextIInv DEF WInv, EditWitnesses
  <2>3. UNCHANGED ledgers
    BY <1>4 DEF EditWitnesses, vars, ledgers
  <2>4. WitnessTypeOK'
    BY <1>4, <2>1, <2>2, <2>3
       DEF WInv, IInv, EditWitnesses, WitnessTypeOK, Receipt, CheckpointOf, HeadHash
  <2>5. SignedFiles' /\ FloorIsAccepted'
    BY <1>4, <2>3 DEF WInv, EditWitnesses, SignedFiles, FloorIsAccepted,
                      CheckpointOf, HeadHash, NotBeforeLast
  <2> QED  BY <2>2, <2>4, <2>5 DEF WInv
<1>5. CASE UNCHANGED allVars
  BY <1>5, LedgerStepWInv DEF allVars
<1> QED  BY <1>1, <1>2, <1>3, <1>4, <1>5 DEF WitnessNext

\* The invariant holds of every behaviour of ledger, witnesses and receivers.
THEOREM WitnessInvariant == WitnessSpec => []WInv
BY InitWInv, WitnessNextWInv, PTL DEF WitnessSpec

-----------------------------------------------------------------------------
(* The properties the run checks, for every value of the constants *)

\* Receipts, floors and what was accepted have the shape verify_witness expects.
THEOREM WitnessTypeCorrect == WitnessSpec => []WitnessTypeOK
<1>1. WInv => WitnessTypeOK
  BY DEF WInv
<1> QED  BY <1>1, WitnessInvariant, PTL

\* Whatever clocks, stores and branches do after a witness signed, its receipt
\* is good for the one history it was signed for.
THEOREM ReceiptsNameOneLedger == WitnessSpec => []ReceiptVerifiesOneLedger
<1>1. WInv => ReceiptVerifiesOneLedger
  <2> SUFFICES ASSUME WInv, NEW receipt \in receipts
               PROVE  \E L \in ledgers :
                         /\ verify_witness(L, Operators, receipt, Witnesses, 0)
                         /\ \A M \in ledgers :
                               verify_witness(M, Operators, receipt, Witnesses, 0) => M = L
    BY DEF ReceiptVerifiesOneLedger
  <2>1. PICK L \in ledgers : /\ receipt.checkpoint = CheckpointOf(L)
                             /\ NotBeforeLast(L, receipt.signedAt)
    BY DEF WInv, SignedFiles
  <2>2. Len(L) \in Nat
    BY LenProperties, DiskTypes DEF WInv, IInv
  <2>3. receipt.checkpoint.count >= 0
    BY <2>1, <2>2 DEF CheckpointOf
  <2>4. receipt.witness \in Witnesses
    BY DEF WInv, WitnessTypeOK, Receipt
  <2>5. verify_witness(L, Operators, receipt, Witnesses, 0)
    BY <2>1, <2>3, <2>4
       DEF verify_witness, checkpoint_matches, WInv, IInv, PublishedReplays
  <2>6. ASSUME NEW M \in ledgers,
               verify_witness(M, Operators, receipt, Witnesses, 0)
        PROVE  M = L
    BY <2>1, <2>6 DEF verify_witness, checkpoint_matches, WInv, IInv,
                      CheckpointPinsHistory
  <2> QED  BY <2>5, <2>6
<1> QED  BY <1>1, WitnessInvariant, PTL

\* A receiver that retains what it accepted cannot be shown an older part of it.
THEOREM ReceiversNeverRolledBack == WitnessSpec => NeverRolledBack
<1>1. ASSUME WInv, [WitnessNext]_allVars
      PROVE  \A r \in Receivers :
                 LET old == accepted[r]
                     new == accepted'[r]
                 IN  ~(Len(new) < Len(old) /\ new = SubSeq(old, 1, Len(new)))
  <2>1. \A r \in Receivers : Len(accepted[r]) \in Nat /\ floor[r] = Len(accepted[r])
    BY <1>1 DEF WInv, WitnessTypeOK, FloorIsAccepted
  <2>2. ASSUME NEW r \in Receivers, NEW L \in ledgers, NEW receipt \in receipts,
               Receive(r, L, receipt), NEW s \in Receivers
        PROVE  accepted'[s] = accepted[s] \/ Len(accepted'[s]) >= Len(accepted[s])
    <3>1. accepted' = [accepted EXCEPT ![r] = L] /\ Len(L) >= floor[r]
      BY <2>2, AcceptedCount DEF Receive
    <3>2. accepted \in [Receivers -> ledgers]
      BY <1>1 DEF WInv, WitnessTypeOK
    <3> QED  BY <2>1, <3>1, <3>2
  <2>3. ASSUME UNCHANGED accepted
        PROVE  \A s \in Receivers : accepted'[s] = accepted[s]
    BY <2>3
  <2>4. \A s \in Receivers :
            accepted'[s] = accepted[s] \/ Len(accepted'[s]) >= Len(accepted[s])
    BY <1>1, <2>2, <2>3
       DEF WitnessNext, Readable, witness_checkpoint, EditWitnesses, wvars, allVars
  <2>5. WInv'
    BY <1>1, WitnessNextWInv
  <2>6. \A s \in Receivers : Len(accepted'[s]) \in Nat
    BY <2>5 DEF WInv, WitnessTypeOK, FloorIsAccepted
  <2> QED  BY <2>1, <2>4, <2>6
<1> QED  BY <1>1, WitnessInvariant, PTL DEF WitnessSpec, NeverRolledBack

=============================================================================
