---------------------------- MODULE SettingsProofs ----------------------------
(***************************************************************************)
(* Proofs about the active model and .env, for any number of concurrent    *)
(* switches, any names and models, on a host or in a container, and any    *)
(* number of times the server is killed.                                   *)
(***************************************************************************)
EXTENDS Settings, TLAPS

EditRecord == [pc : {"idle", "read", "open", "emptied"},
               model : Names \cup {NoModel}, buf : Contents, alone : BOOLEAN]

(* The type invariant, with what an editor holds. *)
Types ==
    /\ env \in Contents /\ environ \in Contents
    /\ active \in Names
    /\ up \in BOOLEAN /\ key \in BOOLEAN
    /\ torn \in BOOLEAN /\ apart \in BOOLEAN
    /\ edit \in [Editors -> EditRecord]
    /\ phi \in Names \cup {NoModel}
    /\ kills \in 0..MaxKills
    /\ \A w \in Editors : Busy(w) => edit[w].model \in Names

(* What an editor has read and will write back still holds the settings,   *)
(* where they are not in the environment.                                  *)
BuffersWhole ==
    ~torn => \A w \in Editors :
        edit[w].pc \in {"open", "emptied"} => environ.rest \/ edit[w].buf.rest

(* Switches run inside the server, and one that is still alone under way   *)
(* was the last to set the active model.                                   *)
LoneSwitchIsActive ==
    \A w \in Switches : Busy(w) => up /\ (edit[w].alone => active = edit[w].model)

(* What a start would find agrees with the active model already while the  *)
(* client has not opened the file.                                         *)
Agreement ==
    up /\ (\A r \in Switches : ~Busy(r)) /\ edit[Client].pc # "emptied" /\ ~apart
       /\ phi = NoModel /\ environ.model = NoModel
        => initial_model_name(Loaded) = active

\* The inductive invariant: SettingsSurvive needs what the editors hold in
\* memory, RestartKeepsModel which of them set the variable last.
SInv == /\ Types
        /\ BuffersWhole
        /\ SettingsSurvive
        /\ LoneSwitchIsActive
        /\ Agreement

-----------------------------------------------------------------------------

\* The model a start takes from .env is always a name.
LEMMA InitialModel ==
    ASSUME NEW content \in Contents, phi \in Names \cup {NoModel}
    PROVE  initial_model_name(content) \in Names
BY SettingsAssumption DEF initial_model_name, Contents, SettingsAssumption

\* What an edit writes back has the new model and the rest of what it read.
LEMMA EditedContent ==
    ASSUME NEW buf \in Contents, NEW m \in Names
    PROVE  /\ Edited(buf, m) \in Contents
           /\ Edited(buf, m).model = m
           /\ Edited(buf, m).rest = buf.rest
BY DEF Edited, Contents

\* A first start reads a whole .env, before anybody edits it.
LEMMA InitSInv == Init => SInv
<1> SUFFICES ASSUME Init PROVE SInv
  OBVIOUS
<1> USE DEF Init
<1>1. /\ env \in Contents /\ environ \in Contents /\ phi \in Names \cup {NoModel}
      /\ Loaded \in Contents /\ Loaded.rest
  <2>1. PICK site \in Sites : Installed(site)
    OBVIOUS
  <2>2. PICK host \in [model : Names \cup {NoModel}, rest : {TRUE}] :
           \/ env = host /\ environ = Empty
           \/ env = Empty /\ environ = host
    BY <2>1 DEF Installed
  <2>3. phi \in Names \cup {NoModel}
    BY SettingsAssumption DEF SettingsAssumption
  <2> HIDE DEF Init
  <2>4. /\ host.model \in Names \cup {NoModel} /\ host.rest = TRUE /\ host \in Contents
        /\ Empty.model = NoModel /\ Empty.rest = FALSE /\ Empty \in Contents
    BY DEF Contents, Empty
  <2>5. Loaded.model \in Names \cup {NoModel} /\ Loaded.rest
    BY <2>2, <2>4 DEF Loaded
  <2>6. Loaded \in Contents
    BY <2>2, <2>4, <2>5 DEF Loaded, Contents
  <2> QED  BY <2>2, <2>3, <2>4, <2>5, <2>6
<1>2. NoEdit \in EditRecord /\ NoEdit.pc = "idle"
  BY DEF NoEdit, EditRecord, Contents, Empty
<1>3. \A w \in Editors : edit[w] = NoEdit /\ ~Busy(w)
  BY <1>2 DEF Busy
<1>4. Types
  <2>1. active \in Names
    BY <1>1, InitialModel
  <2>2. edit \in [Editors -> EditRecord]
    BY <1>2
  <2>3. kills \in 0..MaxKills
    BY SettingsAssumption DEF SettingsAssumption
  <2> HIDE DEF Init
  <2>4. up \in BOOLEAN /\ key \in BOOLEAN
        /\ torn \in BOOLEAN /\ apart \in BOOLEAN
    BY DEF Init
  <2> QED  BY <1>1, <1>3, <2>1, <2>2, <2>3, <2>4 DEF Types
<1>5. BuffersWhole
  BY <1>2, <1>3 DEF BuffersWhole
<1>6. SettingsSurvive
  BY <1>1 DEF SettingsSurvive
<1>7. LoneSwitchIsActive /\ Agreement
  BY <1>3 DEF LoneSwitchIsActive, Agreement, Editors
<1> QED  BY <1>4, <1>5, <1>6, <1>7 DEF SInv

\* An edit begins: nobody else is alone any more, and nothing is read yet.
LEMMA BeginPreserves ==
    ASSUME SInv, NEW w \in Editors, NEW m \in Names, ~Busy(w), Begin(w, m),
           w \in Switches => up /\ active' = m,
           w = Client => active' = active,
           UNCHANGED <<env, environ, up, key, phi, kills, torn, apart>>
    PROVE  SInv'
<1> DEFINE begun == [pc |-> "read", model |-> m, buf |-> Empty,
                     alone |-> \A v \in Editors : ~Busy(v)]
<1>1. edit \in [Editors -> EditRecord]
  BY DEF SInv, Types
<1>2. begun \in EditRecord
  BY DEF EditRecord, Contents, Empty
<1>3. edit' = [v \in Editors |-> IF v = w THEN begun
                                ELSE [edit[v] EXCEPT !.alone = FALSE]]
  BY DEF Begin
<1>4. edit'[w] = begun
  BY <1>3
<1>5. ASSUME NEW v \in Editors, v # w
      PROVE  /\ edit'[v] \in EditRecord /\ ~edit'[v].alone
             /\ edit'[v].pc = edit[v].pc
             /\ edit'[v].model = edit[v].model
             /\ edit'[v].buf = edit[v].buf
  BY <1>1, <1>3, <1>5 DEF EditRecord
<1>6. Types'
  <2>1. edit' \in [Editors -> EditRecord]
    BY <1>2, <1>3, <1>4, <1>5
  <2>2. active' \in Names
    BY DEF SInv, Types, Editors
  <2>3. \A v \in Editors : Busy(v)' => edit'[v].model \in Names
    BY <1>4, <1>5 DEF SInv, Types, Busy
  <2> QED  BY <2>1, <2>2, <2>3 DEF SInv, Types
<1>7. \A v \in Editors : edit'[v].pc \in {"open", "emptied"} =>
         v # w /\ edit[v].pc = edit'[v].pc /\ edit[v].buf = edit'[v].buf
  BY <1>4, <1>5
<1>8. BuffersWhole'
  BY <1>7 DEF SInv, BuffersWhole
<1>9. EnvIsEmpty' <=> EnvIsEmpty
  <2>1. edit[w].pc = "idle" /\ edit'[w].pc = "read"
    BY <1>4 DEF Busy
  <2> QED  BY <1>5, <2>1 DEF EnvIsEmpty
<1>10. SettingsSurvive'
  BY <1>9 DEF SInv, SettingsSurvive, Loaded
<1>11. LoneSwitchIsActive'
  BY <1>4, <1>5 DEF SInv, LoneSwitchIsActive, Busy, Editors
<1>12. Agreement'
  <2>1. CASE w \in Switches
    BY <1>4, <2>1 DEF Agreement, Busy
  <2>2. CASE w = Client
    <3>1. \A r \in Switches : Busy(r)' <=> Busy(r)
      BY <1>5, <2>2, SettingsAssumption DEF Busy, Editors, SettingsAssumption
    <3>2. edit[Client].pc # "emptied"
      BY <2>2 DEF Busy
    <3> QED  BY <2>2, <3>1, <3>2 DEF SInv, Agreement, initial_model_name, Loaded
  <2> QED  BY <2>1, <2>2 DEF Editors
<1> QED  BY <1>6, <1>8, <1>10, <1>11, <1>12 DEF SInv

\* Reading .env fills the editor's buffer, and tears nothing by itself.
LEMMA ReadPreserves ==
    ASSUME SInv, NEW w \in Editors, ReadEnv(w)
    PROVE  SInv'
<1>1. /\ edit[w].pc = "read" /\ torn' = (torn \/ EnvIsEmpty)
      /\ edit' = [edit EXCEPT ![w].pc = "open", ![w].buf = env]
      /\ UNCHANGED <<env, environ, active, up, key, phi, kills, apart>>
  BY DEF ReadEnv
<1>2. edit \in [Editors -> EditRecord] /\ env \in Contents
  BY DEF SInv, Types
<1>3. /\ edit'[w] \in EditRecord /\ edit'[w].pc = "open" /\ edit'[w].buf = env
      /\ edit'[w].model = edit[w].model /\ edit'[w].alone = edit[w].alone
  BY <1>1, <1>2 DEF EditRecord
<1>4. \A v \in Editors : v # w => edit'[v] = edit[v]
  BY <1>1, <1>2
<1>5. \A v \in Editors : /\ Busy(v)' <=> Busy(v)
                         /\ edit'[v].model = edit[v].model
                         /\ edit'[v].alone = edit[v].alone
  BY <1>1, <1>3, <1>4 DEF Busy
<1>6. Types'
  <2>1. edit' \in [Editors -> EditRecord]
    BY <1>1, <1>2, <1>3, <1>4
  <2>2. torn' \in BOOLEAN
    BY <1>1 DEF EnvIsEmpty
  <2> QED  BY <1>1, <1>5, <2>1, <2>2 DEF SInv, Types
<1>7. BuffersWhole'
  BY <1>1, <1>3, <1>4 DEF SInv, BuffersWhole, SettingsSurvive, Loaded
<1>8. SettingsSurvive'
  <2>1. EnvIsEmpty' <=> EnvIsEmpty
    BY <1>1, <1>3, <1>4 DEF EnvIsEmpty
  <2> QED  BY <1>1, <2>1 DEF SInv, SettingsSurvive, Loaded
<1>9. LoneSwitchIsActive'
  BY <1>1, <1>5 DEF SInv, LoneSwitchIsActive, Editors
<1>10. Agreement'
  <2>1. \A r \in Switches : Busy(r)' <=> Busy(r)
    BY <1>5 DEF Editors
  <2>2. edit'[Client].pc # "emptied" => edit[Client].pc # "emptied"
    BY <1>1, <1>4 DEF Editors
  <2> QED  BY <1>1, <2>1, <2>2 DEF SInv, Agreement, initial_model_name, Loaded
<1> QED  BY <1>6, <1>7, <1>8, <1>9, <1>10 DEF SInv

\* Opening .env empties it: nobody may rely on it until it is written.
LEMMA OpenPreserves ==
    ASSUME SInv, NEW w \in Editors, OpenEnv(w)
    PROVE  SInv'
<1>1. /\ edit[w].pc = "open" /\ env' = Empty
      /\ edit' = [edit EXCEPT ![w].pc = "emptied"]
      /\ UNCHANGED <<environ, active, up, key, phi, kills, torn, apart>>
  BY DEF OpenEnv
<1>2. edit \in [Editors -> EditRecord]
  BY DEF SInv, Types
<1>3. /\ edit'[w] \in EditRecord /\ edit'[w].pc = "emptied"
      /\ edit'[w].buf = edit[w].buf
      /\ edit'[w].model = edit[w].model /\ edit'[w].alone = edit[w].alone
  BY <1>1, <1>2 DEF EditRecord
<1>4. \A v \in Editors : v # w => edit'[v] = edit[v]
  BY <1>1, <1>2
<1>5. \A v \in Editors : /\ Busy(v)' <=> Busy(v)
                         /\ edit'[v].model = edit[v].model
                         /\ edit'[v].alone = edit[v].alone
  BY <1>1, <1>3, <1>4 DEF Busy
<1>6. Types'
  <2>1. edit' \in [Editors -> EditRecord]
    BY <1>1, <1>2, <1>3, <1>4
  <2>2. env' \in Contents
    BY <1>1 DEF Contents, Empty
  <2> QED  BY <1>1, <1>5, <2>1, <2>2 DEF SInv, Types
<1>7. BuffersWhole'
  BY <1>1, <1>3, <1>4 DEF SInv, BuffersWhole
<1>8. SettingsSurvive'
  <2>1. EnvIsEmpty'
    BY <1>3 DEF EnvIsEmpty
  <2> QED  BY <1>1, <2>1 DEF SInv, SettingsSurvive, Loaded
<1>9. LoneSwitchIsActive'
  BY <1>1, <1>5 DEF SInv, LoneSwitchIsActive, Editors
<1>10. Agreement'
  <2>1. CASE w \in Switches
    BY <1>3, <2>1 DEF Agreement, Busy
  <2>2. CASE w = Client
    BY <1>3, <2>2 DEF Agreement
  <2> QED  BY <2>1, <2>2 DEF Editors
<1> QED  BY <1>6, <1>7, <1>8, <1>9, <1>10 DEF SInv

\* Writing puts the buffer back with the new model in it; a switch that was
\* alone leaves file and variable in agreement, the others own up.
LEMMA WritePreserves ==
    ASSUME SInv, NEW w \in Editors, WriteEnv(w)
    PROVE  SInv'
<1>1. /\ edit[w].pc = "emptied"
      /\ env' = Edited(edit[w].buf, edit[w].model)
      /\ apart' = (w = Client \/ ~edit[w].alone)
      /\ edit' = [edit EXCEPT ![w] = NoEdit]
      /\ UNCHANGED <<environ, active, up, key, phi, kills, torn>>
  BY DEF WriteEnv
<1>2. edit \in [Editors -> EditRecord] /\ edit[w].buf \in Contents
      /\ edit[w].alone \in BOOLEAN
  BY DEF SInv, Types, EditRecord
<1>3. Busy(w) /\ edit[w].model \in Names
  BY <1>1 DEF SInv, Types, Busy
<1>4. /\ env' \in Contents /\ env'.model = edit[w].model
      /\ env'.rest = edit[w].buf.rest
  BY <1>1, <1>2, <1>3, EditedContent
<1>5. /\ edit'[w] = NoEdit /\ NoEdit \in EditRecord
      /\ \A v \in Editors : v # w => edit'[v] = edit[v]
  BY <1>1, <1>2 DEF NoEdit, Empty, EditRecord, Contents
<1>6. ~Busy(w)' /\ \A v \in Editors : v # w => (Busy(v)' <=> Busy(v))
  BY <1>5 DEF Busy, NoEdit
<1>7. Types'
  <2>1. edit' \in [Editors -> EditRecord]
    BY <1>1, <1>2, <1>5
  <2>2. apart' \in BOOLEAN
    BY <1>1, <1>2 DEF SInv, Types
  <2>3. \A v \in Editors : Busy(v)' => edit'[v].model \in Names
    BY <1>5, <1>6 DEF SInv, Types
  <2> QED  BY <1>1, <1>4, <2>1, <2>2, <2>3 DEF SInv, Types
<1>8. BuffersWhole'
  BY <1>1, <1>5 DEF SInv, BuffersWhole, NoEdit
<1>9. SettingsSurvive'
  BY <1>1, <1>4 DEF SInv, BuffersWhole, SettingsSurvive, Loaded
<1>10. LoneSwitchIsActive'
  BY <1>1, <1>5, <1>6 DEF SInv, LoneSwitchIsActive, Editors
<1>11. Agreement'
  <2> SUFFICES ASSUME up', ~apart', phi' = NoModel, environ'.model = NoModel
               PROVE  initial_model_name(Loaded)' = active'
    BY DEF Agreement
  <2>1. w # Client /\ edit[w].alone
    BY <1>1, <1>2
  <2>2. active = edit[w].model
    BY <1>3, <2>1 DEF SInv, LoneSwitchIsActive, Editors
  <2>3. initial_model_name(Loaded)' = env'.model
    <3>1. Loaded'.model = env'.model
      BY DEF Loaded
    <3> QED  BY <1>3, <1>4, <3>1, SettingsAssumption DEF initial_model_name, SettingsAssumption
  <2> QED  BY <1>1, <1>4, <2>2, <2>3
<1> QED  BY <1>7, <1>8, <1>9, <1>10, <1>11 DEF SInv

\* An edit that raises changes nothing before it has emptied .env, and tears
\* it afterwards.
LEMMA FailPreserves ==
    ASSUME SInv, NEW w \in Editors, FailEdit(w)
    PROVE  SInv'
<1>1. /\ Busy(w)
      /\ \/ edit[w].pc = "emptied" /\ torn' = TRUE
            /\ env' \in [model : Names \cup {NoModel}, rest : {FALSE, edit[w].buf.rest}]
         \/ edit[w].pc # "emptied" /\ UNCHANGED <<env, torn>>
      /\ apart' = (w # Client \/ edit[w].pc = "emptied" \/ apart)
      /\ edit' = [edit EXCEPT ![w] = NoEdit]
      /\ UNCHANGED <<environ, active, up, key, phi, kills>>
  BY DEF FailEdit
<1>2. edit \in [Editors -> EditRecord] /\ edit[w].buf.rest \in BOOLEAN
  BY DEF SInv, Types, EditRecord, Contents
<1>3. /\ edit'[w] = NoEdit /\ NoEdit \in EditRecord
      /\ \A v \in Editors : v # w => edit'[v] = edit[v]
  BY <1>1, <1>2 DEF NoEdit, Empty, EditRecord, Contents
<1>4. ~Busy(w)' /\ \A v \in Editors : v # w => (Busy(v)' <=> Busy(v))
  BY <1>3 DEF Busy, NoEdit
<1>5. Types'
  <2>1. edit' \in [Editors -> EditRecord]
    BY <1>1, <1>2, <1>3
  <2>2. env' \in Contents /\ torn' \in BOOLEAN
    BY <1>1, <1>2 DEF SInv, Types, Contents
  <2>3. apart' \in BOOLEAN
    BY <1>1 DEF SInv, Types
  <2>4. \A v \in Editors : Busy(v)' => edit'[v].model \in Names
    BY <1>3, <1>4 DEF SInv, Types
  <2> QED  BY <1>1, <2>1, <2>2, <2>3, <2>4 DEF SInv, Types
<1>6. ~torn' => ~torn /\ env' = env /\ edit[w].pc # "emptied"
  BY <1>1
<1>7. BuffersWhole'
  BY <1>1, <1>3, <1>6 DEF SInv, BuffersWhole, NoEdit
<1>8. SettingsSurvive'
  <2>1. ~torn' /\ EnvIsEmpty => EnvIsEmpty'
    BY <1>3, <1>6 DEF EnvIsEmpty
  <2> QED  BY <1>1, <1>6, <2>1 DEF SInv, SettingsSurvive, Loaded
<1>9. LoneSwitchIsActive'
  BY <1>1, <1>3, <1>4 DEF SInv, LoneSwitchIsActive, Editors
<1>10. Agreement'
  <2> SUFFICES ASSUME up', \A r \in Switches : ~Busy(r)', ~apart',
                      phi' = NoModel, environ'.model = NoModel
               PROVE  initial_model_name(Loaded)' = active'
    BY DEF Agreement
  <2>1. w = Client /\ edit[w].pc # "emptied" /\ ~apart /\ env' = env
    BY <1>1
  <2>2. \A r \in Switches : r \in Editors /\ r # w
    BY <2>1, SettingsAssumption DEF Editors, SettingsAssumption
  <2>3. \A r \in Switches : ~Busy(r)
    BY <1>4, <2>2
  <2> QED  BY <1>1, <2>1, <2>3 DEF SInv, Agreement, initial_model_name, Loaded
<1> QED  BY <1>5, <1>7, <1>8, <1>9, <1>10 DEF SInv

\* A kill ends every switch where it stands; one that had emptied .env tears
\* it.
LEMMA KillPreserves == SInv /\ KillServer => SInv'
<1> SUFFICES ASSUME SInv, KillServer PROVE SInv'
  OBVIOUS
<1>1. /\ up' = FALSE /\ kills < MaxKills /\ kills' = kills + 1
      /\ edit' = [w \in Editors |-> IF w = Client
                                    THEN [edit[w] EXCEPT !.alone = FALSE] ELSE NoEdit]
      /\ torn' = (torn \/ \E w \in Switches : edit[w].pc = "emptied")
      /\ UNCHANGED <<env, environ, active, key, phi, apart>>
  BY DEF KillServer
<1>2. edit \in [Editors -> EditRecord] /\ NoEdit \in EditRecord
  BY DEF SInv, Types, NoEdit, Empty, EditRecord, Contents
<1>3. /\ edit'[Client] \in EditRecord
      /\ edit'[Client].pc = edit[Client].pc
      /\ edit'[Client].model = edit[Client].model
      /\ edit'[Client].buf = edit[Client].buf
  BY <1>1, <1>2 DEF EditRecord, Editors
<1>4. \A v \in Editors : v # Client => edit'[v] = NoEdit /\ edit'[v].pc = "idle"
  BY <1>1 DEF NoEdit
<1>5. Types'
  <2>1. edit' \in [Editors -> EditRecord]
    BY <1>1, <1>2, <1>3, <1>4
  <2>2. \A v \in Editors : Busy(v)' => edit'[v].model \in Names
    BY <1>3, <1>4 DEF SInv, Types, Busy
  <2>3. kills' \in 0..MaxKills
    BY <1>1, SettingsAssumption DEF SInv, Types, SettingsAssumption
  <2>4. torn' \in BOOLEAN /\ up' \in BOOLEAN
    BY <1>1
  <2> QED  BY <1>1, <2>1, <2>2, <2>3, <2>4 DEF SInv, Types
<1>6. BuffersWhole'
  BY <1>1, <1>3, <1>4 DEF SInv, BuffersWhole
<1>7. SettingsSurvive'
  <2>1. ~torn' /\ EnvIsEmpty => EnvIsEmpty'
    BY <1>1, <1>3 DEF EnvIsEmpty, Editors
  <2> QED  BY <1>1, <2>1 DEF SInv, SettingsSurvive, Loaded
<1>8. LoneSwitchIsActive'
  <2>1. \A v \in Switches : v # Client
    BY SettingsAssumption DEF SettingsAssumption
  <2> QED  BY <1>4, <2>1 DEF LoneSwitchIsActive, Busy, Editors
<1>9. Agreement'
  BY <1>1 DEF Agreement
<1> QED  BY <1>5, <1>6, <1>7, <1>8, <1>9 DEF SInv

\* A start takes key and model from .env as it is.
LEMMA StartPreserves == SInv /\ StartServer => SInv'
<1> SUFFICES ASSUME SInv, StartServer PROVE SInv'
  OBVIOUS
<1>1. /\ ~up /\ up' = TRUE /\ key' = Loaded.rest
      /\ active' = initial_model_name(Loaded)
      /\ torn' = (torn \/ EnvIsEmpty)
      /\ apart' = FALSE
      /\ UNCHANGED <<env, environ, edit, phi, kills>>
  BY DEF StartServer
<1>2. Types'
  <2>1. active' \in Names
    <3>1. Loaded \in Contents
      BY DEF SInv, Types, Contents, Loaded
    <3> QED  BY <1>1, <3>1, InitialModel DEF SInv, Types
  <2>2. key' \in BOOLEAN
    BY <1>1 DEF SInv, Types, Contents, Loaded
  <2>3. torn' \in BOOLEAN
    BY <1>1 DEF EnvIsEmpty
  <2>4. up' \in BOOLEAN /\ apart' \in BOOLEAN
    BY <1>1
  <2> QED  BY <1>1, <2>1, <2>2, <2>3, <2>4 DEF SInv, Types, Busy
<1>3. BuffersWhole'
  BY <1>1 DEF SInv, BuffersWhole
<1>4. SettingsSurvive'
  BY <1>1 DEF SInv, SettingsSurvive, EnvIsEmpty, Loaded
<1>5. LoneSwitchIsActive'
  BY <1>1 DEF SInv, LoneSwitchIsActive, Busy
<1>6. Agreement'
  BY <1>1 DEF Agreement, initial_model_name, Loaded
<1> QED  BY <1>2, <1>3, <1>4, <1>5, <1>6 DEF SInv

\* A new container has the settings in its environment.
LEMMA RecreatePreserves == SInv /\ RecreateContainer => SInv'
<1> SUFFICES ASSUME SInv, RecreateContainer PROVE SInv'
  OBVIOUS
<1>1. /\ ~up /\ environ' \in [model : Names \cup {NoModel}, rest : {TRUE}]
      /\ env' = Empty /\ edit' = [w \in Editors |-> NoEdit]
      /\ UNCHANGED <<active, up, key, phi, kills, torn, apart>>
  BY DEF RecreateContainer
<1>2. environ' \in Contents /\ environ'.rest /\ env' \in Contents
  BY <1>1 DEF Contents, Empty
<1>3. \A w \in Editors : edit'[w] = NoEdit /\ NoEdit.pc = "idle"
  BY <1>1 DEF NoEdit
<1>4. Types'
  <2>1. NoEdit \in EditRecord
    BY DEF NoEdit, Empty, EditRecord, Contents
  <2>2. edit' \in [Editors -> EditRecord]
    BY <1>1, <2>1
  <2>3. \A v \in Editors : ~Busy(v)'
    BY <1>3 DEF Busy
  <2> QED  BY <1>1, <1>2, <2>2, <2>3 DEF SInv, Types
<1>5. BuffersWhole' /\ LoneSwitchIsActive'
  BY <1>3 DEF BuffersWhole, LoneSwitchIsActive, Busy, Editors
<1>6. SettingsSurvive' /\ Agreement'
  BY <1>1, <1>2 DEF SettingsSurvive, Agreement, Loaded
<1> QED  BY <1>4, <1>5, <1>6 DEF SInv

\* Every step preserves the invariant.
LEMMA NextSInv == SInv /\ [Next]_vars => SInv'
<1> SUFFICES ASSUME SInv, [Next]_vars PROVE SInv'
  OBVIOUS
<1>1. ASSUME NEW m \in Names, cmd_model_switch(m)
      PROVE  SInv'
  <2>1. Client \in Editors /\ Client \notin Switches
    BY SettingsAssumption DEF Editors, SettingsAssumption
  <2> QED  BY <1>1, <2>1, BeginPreserves DEF cmd_model_switch
<1>2. ASSUME NEW m \in Names, NEW r \in Switches, switch_model(r, m)
      PROVE  SInv'
  <2>1. r \in Editors /\ r # Client
    BY SettingsAssumption DEF Editors, SettingsAssumption
  <2> QED  BY <1>2, <2>1, BeginPreserves DEF switch_model
<1>3. ASSUME NEW w \in Editors, EditStep(w)
      PROVE  SInv'
  BY <1>3, ReadPreserves, OpenPreserves, WritePreserves, FailPreserves DEF EditStep
<1>4. CASE KillServer
  BY <1>4, KillPreserves
<1>5. CASE StartServer
  BY <1>5, StartPreserves
<1>6. CASE RecreateContainer
  BY <1>6, RecreatePreserves
<1>7. CASE UNCHANGED vars
  BY <1>7 DEF vars, SInv, Types, BuffersWhole, SettingsSurvive, LoneSwitchIsActive,
              Agreement, EnvIsEmpty, Busy, initial_model_name, Loaded
<1> QED  BY <1>1, <1>2, <1>3, <1>4, <1>5, <1>6, <1>7 DEF Next

\* The invariant holds of every behaviour.
THEOREM SettingsInvariant == Spec => []SInv
BY InitSInv, NextSInv, PTL DEF Spec

-----------------------------------------------------------------------------
(* The properties the run checks, for every value of the constants *)

\* The active model is always a name, whatever .env and the environment held.
THEOREM SettingsTypeCorrect == Spec => []SettingsTypeOK
<1>1. SInv => SettingsTypeOK
  BY DEF SInv, Types, SettingsTypeOK, Contents, EditRecord
<1> QED  BY <1>1, SettingsInvariant, PTL

\* Only a read, a failure or a death in the window between the emptying of
\* .env and its writing loses the settings.
THEOREM SettingsAlwaysSurvive == Spec => []SettingsSurvive
<1>1. SInv => SettingsSurvive
  BY DEF SInv
<1> QED  BY <1>1, SettingsInvariant, PTL

\* A switch whose edit succeeded, and that nobody else's overlapped, survives
\* the next start, unless the environment sets the model.
THEOREM RestartsKeepTheModel == Spec => []RestartKeepsModel
<1>1. SInv => RestartKeepsModel
  BY DEF SInv, Agreement, RestartKeepsModel, Busy, Editors
<1> QED  BY <1>1, SettingsInvariant, PTL

=============================================================================
