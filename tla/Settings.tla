------------------------------ MODULE Settings ------------------------------
(***************************************************************************)
(* The active model and the file .env that keeps it over a restart         *)
(* (api/routes/models.py, api/core/queue.py, api/config.py and `model      *)
(* switch` of scripts/braincbrain-cli.py).                                 *)
(*                                                                         *)
(* A switch changes the variable at once and edits .env in a thread of its *)
(* own; the command line client edits .env and nothing else.  An edit      *)
(* reads the file, then opens it for writing, which empties it, then       *)
(* writes: nothing keeps two editors, or a starting server, apart, and any *)
(* of the three may fail (no space, a name that cannot be encoded).        *)
(* Of .env we keep ACTIVE_MODEL, and whether everything else in it         *)
(* (SECRET_KEY above all) is still there.                                  *)
(*                                                                         *)
(* On a host the process environment sets none of these variables.  The    *)
(* production container (docker/) is created with those of the host's .env *)
(* in its environment, and with no /app/.env; load_dotenv does not         *)
(* override what is set.                                                   *)
(***************************************************************************)
EXTENDS Integers, Sequences, FiniteSets

CONSTANTS Switches,   \* requests to /models/switch
          Client,     \* the command line client
          Names,      \* names of models, whoever gives them
          Models,     \* aliases the runtime offers
          Default,    \* "braincbrain", when ACTIVE_MODEL is not set
          NoModel,
          PhiModels,  \* PHISERVE_MODEL, or NoModel where Ollama is selected
          Sites,      \* where the server runs: "host", "container"
          MaxKills    \* bound of the model: times the server is killed

ASSUME SettingsAssumption ==
    /\ Models \subseteq Names /\ Default \in Names /\ NoModel \notin Names
    /\ PhiModels \subseteq Names \cup {NoModel}
    /\ Sites \subseteq {"host", "container"}
    /\ Client \notin Switches
    /\ MaxKills \in Nat

VARIABLES env,      \* .env where the server runs: [model, rest]
          environ,  \* of the same, what the process environment holds already
          active,   \* _active_model
          up,       \* the server serves
          key,      \* the running server was started with its SECRET_KEY
          edit,     \* of each editor: [pc, model, buf, alone]
          phi,      \* PHISERVE_MODEL of this installation
          kills,
          torn,     \* history: .env was read, or its editor failed or died, while empty
          apart     \* history: since the start or the last lone switch the client has
                    \* edited .env, switches have overlapped an edit, or one failed

vars == <<env, environ, active, up, key, edit, phi, kills, torn, apart>>

Editors == Switches \cup {Client}
Empty == [model |-> NoModel, rest |-> FALSE]
NoEdit == [pc |-> "idle", model |-> NoModel, buf |-> Empty, alone |-> TRUE]

Busy(w) == edit[w].pc # "idle"
EnvIsEmpty == \E w \in Editors : edit[w].pc = "emptied"
Contents == [model : Names \cup {NoModel}, rest : BOOLEAN]

\* Mutant: the restart takes the default whatever .env says.
initial_model_name_fixed(content) == IF phi # NoModel THEN phi ELSE Default

\* Mutant: no default for a missing ACTIVE_MODEL.
initial_model_name_bare(content) == IF phi # NoModel THEN phi ELSE content.model

initial_model_name(content) ==
    IF phi # NoModel THEN phi
    ELSE IF content.model # NoModel THEN content.model ELSE Default

\* what a start finds: load_dotenv leaves alone the variables that are set
Loaded == [model |-> IF environ.model # NoModel THEN environ.model ELSE env.model,
           rest |-> environ.rest \/ env.rest]

(* a host has its .env; a new container has the host's in its environment, *)
(* and no file of its own                                                  *)
Installed(site) ==
    \E host \in [model : Names \cup {NoModel}, rest : {TRUE}] :
        IF site = "host" THEN env = host /\ environ = Empty
                         ELSE env = Empty /\ environ = host

Init ==
    /\ \E site \in Sites : Installed(site)
    /\ phi \in PhiModels
    /\ active = initial_model_name(Loaded)
    /\ up = TRUE /\ key = TRUE
    /\ edit = [w \in Editors |-> NoEdit]
    /\ kills = 0
    /\ torn = FALSE /\ apart = FALSE

\* edit[w] begins; whoever is editing is no longer alone
Begin(w, m) ==
    LET lone == \A v \in Editors : ~Busy(v) IN
    edit' = [v \in Editors |->
               IF v = w THEN [pc |-> "read", model |-> m, buf |-> Empty, alone |-> lone]
               ELSE [edit[v] EXCEPT !.alone = FALSE]]

(* POST /models/switch, from the catalog's answer to the thread's start;   *)
(* an alias the runtime does not offer is refused with 400                 *)
switch_model(r, m) ==
    /\ up /\ ~Busy(r)
    /\ m \in Models
    /\ active' = m
    /\ Begin(r, m)
    /\ UNCHANGED <<env, environ, up, key, phi, kills, torn, apart>>

(* braincbrain-cli.py model switch: any name is taken, and applied by the  *)
(* next start                                                              *)
cmd_model_switch(m) ==
    /\ ~Busy(Client)
    /\ Begin(Client, m)
    /\ UNCHANGED <<env, environ, active, up, key, phi, kills, torn, apart>>

ReadEnv(w) ==
    /\ edit[w].pc = "read"
    /\ edit' = [edit EXCEPT ![w].pc = "open", ![w].buf = env]
    /\ torn' = (torn \/ EnvIsEmpty)
    /\ UNCHANGED <<env, environ, active, up, key, phi, kills, apart>>

OpenEnv(w) ==
    /\ edit[w].pc = "open"
    /\ edit' = [edit EXCEPT ![w].pc = "emptied"]
    /\ env' = Empty
    /\ UNCHANGED <<environ, active, up, key, phi, kills, torn, apart>>

\* Mutant: a file without the line is replaced by the line.
Edited_replaced(buf, m) == IF buf.model = NoModel THEN [Empty EXCEPT !.model = m]
                           ELSE [buf EXCEPT !.model = m]

\* the line is substituted, or appended where there was none
Edited(buf, m) == [buf EXCEPT !.model = m]

(* an edit alone puts .env and the variable in agreement again, unless it  *)
(* is the client's                                                         *)
WriteEnv(w) ==
    /\ edit[w].pc = "emptied"
    /\ env' = Edited(edit[w].buf, edit[w].model)
    /\ apart' = (w = Client \/ ~edit[w].alone)
    /\ edit' = [edit EXCEPT ![w] = NoEdit]
    /\ UNCHANGED <<environ, active, up, key, phi, kills, torn>>

(* The edit raises.  After the opening, what was read of the old file is   *)
(* cut off somewhere, a name of a model too; the server logs a warning and *)
(* keeps the model it has switched to, the client ends.                    *)
FailEdit(w) ==
    /\ Busy(w)
    /\ \/ edit[w].pc = "emptied" /\ torn' = TRUE
          /\ env' \in [model : Names \cup {NoModel}, rest : {FALSE, edit[w].buf.rest}]
       \/ edit[w].pc # "emptied" /\ UNCHANGED <<env, torn>>
    /\ apart' = (w # Client \/ edit[w].pc = "emptied" \/ apart)
    /\ edit' = [edit EXCEPT ![w] = NoEdit]
    /\ UNCHANGED <<environ, active, up, key, phi, kills>>

KillServer ==
    /\ up
    /\ kills < MaxKills
    /\ kills' = kills + 1
    /\ up' = FALSE
    /\ edit' = [w \in Editors |-> IF w = Client THEN [edit[w] EXCEPT !.alone = FALSE] ELSE NoEdit]
    /\ torn' = (torn \/ \E w \in Switches : edit[w].pc = "emptied")
    /\ UNCHANGED <<env, environ, active, key, phi, apart>>

\* config.py loads .env; the lifespan sets the active model
StartServer ==
    /\ ~up
    /\ up' = TRUE
    /\ key' = Loaded.rest
    /\ active' = initial_model_name(Loaded)
    /\ torn' = (torn \/ EnvIsEmpty)
    /\ apart' = FALSE
    /\ UNCHANGED <<env, environ, edit, phi, kills>>

(* `docker compose up` after a change of the image or of the host's .env:  *)
(* the file in the old container is gone                                   *)
RecreateContainer ==
    /\ ~up /\ environ.rest
    /\ environ' \in [model : Names \cup {NoModel}, rest : {TRUE}]
    /\ env' = Empty
    /\ edit' = [w \in Editors |-> NoEdit]
    /\ UNCHANGED <<active, up, key, phi, kills, torn, apart>>

EditStep(w) == ReadEnv(w) \/ OpenEnv(w) \/ WriteEnv(w) \/ FailEdit(w)

Next ==
    \/ \E m \in Names : cmd_model_switch(m) \/ \E r \in Switches : switch_model(r, m)
    \/ \E w \in Editors : EditStep(w)
    \/ KillServer \/ StartServer \/ RecreateContainer

Spec == Init /\ [][Next]_vars

-----------------------------------------------------------------------------
(* Properties *)

\* The type invariant; the active model is a name, also when .env has none.
SettingsTypeOK ==
    /\ {env, environ} \subseteq Contents
    /\ active \in Names
    /\ {up, key, torn, apart} \subseteq BOOLEAN
    /\ \A w \in Editors : edit[w].pc \in {"idle", "read", "open", "emptied"}
    /\ kills \in 0..MaxKills

\* "Write ACTIVE_MODEL to .env" (models.py:36) leaves everything else in it:
\* SECRET_KEY and the other settings vanish from a host's .env, or from a
\* server that starts, only if somebody read the file between another
\* editor's opening and its writing, or an editor failed or was killed there.
SettingsSurvive ==
    /\ ~torn /\ ~EnvIsEmpty => Loaded.rest
    /\ ~torn /\ up => key

\* When no edit is under way the next start of the server takes the model
\* that is active now, unless edits of .env overlapped or a switch's edit
\* failed, the client has set another model since, or the model comes from
\* PHISERVE_MODEL or from the environment of the container.
RestartKeepsModel ==
    up /\ (\A w \in Editors : ~Busy(w)) /\ ~apart /\ phi = NoModel /\ environ.model = NoModel
        => initial_model_name(Loaded) = active

\* models.py:86 "Persist to .env": where one switch after the other has been
\* made and persisted, a start takes the model of the last one.
SwitchIsPersisted ==
    up /\ (\A w \in Editors : ~Busy(w)) /\ ~apart /\ phi = NoModel
        => initial_model_name(Loaded) = active
=============================================================================
