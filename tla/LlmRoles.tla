------------------------------ MODULE LlmRoles ------------------------------
(***************************************************************************)
(* The two language models of the server: one for ingestion, one for       *)
(* retrieval.  Each has settings that administrators replace while the     *)
(* server runs (routes/config, llm/config, llm/dynamic, store/config) and  *)
(* a health tracker that makes routes refuse work for a while after a      *)
(* failure.  An answer of GET carries a mask where the key is; a client    *)
(* sends the mask back for a key it does not change.                       *)
(***************************************************************************)
EXTENDS Naturals, FiniteSets

CONSTANTS
  Operators,   \* administrators with a request in progress
  Secrets,     \* API keys
  NoSecret,    \* no API key
  NoSettings,  \* stands for absent settings
  Cooldown,    \* UNHEALTHY_COOLDOWN
  MaxNow,      \* bound: seconds of the clock
  MaxEdits     \* bound: configuration requests

VARIABLES
  stored,    \* settings in CONFIG_TABLE, or NoSettings
  running,   \* settings the two reasoners were built from
  seen,      \* whether a masked copy of the settings has been handed out
  edit,      \* per administrator: the request in progress
  edits,
  torn,      \* requests overlapped, or one failed half-way, since the last start
  since,     \* unhealthy_since of each role, or 0
  failedAt,  \* when a role last failed without a success since, or 0
  now        \* starts at 1

configVars == <<stored, running, seen, edit, edits, torn>>
healthVars == <<since, failedAt, now>>

Roles == {"ingestion", "retrieval"}

(***************************************************************************)
(* Settings                                                                *)
(***************************************************************************)

Mask == "mask"

\* LlmModelConfig: providers that need a key, providers that need none, unknown names.
Config == [provider : {"hosted", "local", "unknown"}, key : Secrets \cup {NoSecret, Mask}]
Settings == [Roles -> Config]

ForRoles(ingestion, retrieval) == [r \in Roles |-> IF r = "ingestion" THEN ingestion ELSE retrieval]

\* The settings of the environment, or the placeholder when it has none.
StartSettings == [r \in Roles |-> [provider |-> "local", key |-> NoSecret]]

\* to_provider
Buildable(c) == c.provider = "local" \/ (c.provider = "hosted" /\ c.key # NoSecret)

\* Mutant: the mask is sent on to the provider.
UnmaskWithNothing(c, old) == c

\* unmask_with
UnmaskWith(c, old) == IF c.key = Mask THEN [c EXCEPT !.key = old.key] ELSE c

\* Bodies a client can send: a mask only if GET or an earlier answer has given it one.
Bodies(c) == c.key = Mask => seen

Idle == [kind |-> "idle"]
Busy(a) == edit[a] # Idle

ASSUME LlmAssumption ==
  /\ Cooldown \in Nat /\ MaxNow \in Nat \ {0} /\ MaxEdits \in Nat
  /\ NoSecret # Mask /\ NoSettings \notin Settings

\* The handler is about to put these roles in place, in this order, then to save the settings.
WithEdit(kind, settings, roles) ==
  [kind |-> kind, settings |-> settings, roles |-> roles, swapped |-> FALSE]

Requested(a) ==
  /\ ~Busy(a) /\ edits < MaxEdits /\ edits' = edits + 1
  /\ torn' = (torn \/ \E b \in Operators : Busy(b))

GetLlmConfig(a) ==
  /\ ~Busy(a) /\ stored # NoSettings
  /\ seen' = TRUE
  /\ UNCHANGED <<stored, running, edit, edits, torn>>

\* put_llm_config up to swap_all: both roles are checked before either is put in place.
PutLlmConfig(a, ingestion, retrieval) ==
  LET sent     == ForRoles(ingestion, retrieval)
      settings == IF stored = NoSettings THEN sent
                  ELSE [r \in Roles |-> UnmaskWith(sent[r], stored[r])]
  IN  /\ Requested(a) /\ \A r \in Roles : Bodies(sent[r])
      /\ edit' = IF \A r \in Roles : Buildable(settings[r])
                 THEN [edit EXCEPT ![a] = WithEdit("put", settings, Roles)] ELSE edit
      /\ UNCHANGED <<stored, running, seen>>

\* patch_llm_config reads the stored settings; a role that the body leaves out keeps its own.
PatchLlmConfig(a, roles, ingestion, retrieval) ==
  LET sent == ForRoles(ingestion, retrieval)
  IN  /\ stored # NoSettings /\ Requested(a) /\ \A r \in roles : Bodies(sent[r])
      /\ edit' = [edit EXCEPT ![a] =
           WithEdit("patch",
                 [r \in Roles |-> IF r \in roles THEN UnmaskWith(sent[r], stored[r]) ELSE stored[r]],
                 roles)]
      /\ UNCHANGED <<stored, running, seen>>

\* Ingestion comes first.  A PATCH whose role cannot be built answers an error here, with the other
\* role perhaps already in place.
SwapRole(a) ==
  /\ Busy(a) /\ edit[a].roles # {}
  /\ LET e == edit[a]
         r == IF "ingestion" \in e.roles THEN "ingestion" ELSE "retrieval"
     IN  IF Buildable(e.settings[r])
         THEN /\ running' = [running EXCEPT ![r] = e.settings[r]]
              /\ edit' = [edit EXCEPT ![a].roles = @ \ {r}, ![a].swapped = TRUE]
              /\ UNCHANGED torn
         ELSE /\ edit' = [edit EXCEPT ![a] = Idle]
              /\ torn' = (torn \/ e.swapped) /\ UNCHANGED running
  /\ UNCHANGED <<stored, seen, edits>>

\* set_llm_settings; the answer has the masked settings.  A failed transaction leaves the new
\* models in place.
SetLlmSettings(a, ok) ==
  /\ Busy(a) /\ edit[a].roles = {}
  /\ edit' = [edit EXCEPT ![a] = Idle]
  /\ IF ok THEN stored' = edit[a].settings /\ seen' = TRUE /\ UNCHANGED torn
           ELSE torn' = TRUE /\ UNCHANGED <<stored, seen>>
  /\ UNCHANGED <<running, edits>>

\* The process stops, or starts again, with the stored settings or those of the environment.
Restart ==
  /\ running' = IF stored = NoSettings THEN StartSettings ELSE stored
  /\ edit' = [a \in Operators |-> Idle] /\ torn' = FALSE
  /\ since' = [r \in Roles |-> 0] /\ failedAt' = [r \in Roles |-> 0]
  /\ UNCHANGED <<stored, seen, edits, now>>

(***************************************************************************)
(* Health                                                                  *)
(***************************************************************************)

\* Mutant: only a success makes a role healthy again.
IsHealthyNoCooldown(r) == since[r] = 0

IsHealthy(r) == since[r] = 0 \/ now - since[r] >= Cooldown

\* The time of a first failure stays until a success.
MarkUnhealthy(r) ==
  /\ since' = IF since[r] = 0 THEN [since EXCEPT ![r] = now] ELSE since
  /\ failedAt' = [failedAt EXCEPT ![r] = now] /\ UNCHANGED now

MarkHealthy(r) ==
  /\ since' = [since EXCEPT ![r] = 0]
  /\ failedAt' = [failedAt EXCEPT ![r] = 0] /\ UNCHANGED now

Tick == now < MaxNow /\ now' = now + 1 /\ UNCHANGED <<since, failedAt>>

\* test_llm_config asks the settings of the body or the stored ones: what it learns is recorded for
\* the running models.
TestLlmConfig(r) == MarkHealthy(r) \/ MarkUnhealthy(r)

(***************************************************************************)
(* Specification                                                           *)
(***************************************************************************)

LlmInit ==
  /\ stored \in {NoSettings, StartSettings} /\ running = StartSettings
  /\ seen = FALSE /\ edit = [a \in Operators |-> Idle] /\ edits = 0 /\ torn = FALSE
  /\ since = [r \in Roles |-> 0] /\ failedAt = [r \in Roles |-> 0] /\ now = 1

ConfigStep ==
  \E a \in Operators :
    \/ GetLlmConfig(a) \/ SwapRole(a) \/ \E ok \in BOOLEAN : SetLlmSettings(a, ok)
    \/ \E c, d \in Config :
         PutLlmConfig(a, c, d) \/ \E roles \in SUBSET Roles : PatchLlmConfig(a, roles, c, d)

LlmNext ==
  \/ ConfigStep /\ UNCHANGED healthVars
  \/ Restart

(***************************************************************************)
(* Properties                                                              *)
(***************************************************************************)

LlmTypeOK ==
  /\ stored \in Settings \cup {NoSettings} /\ running \in Settings
  /\ seen \in BOOLEAN /\ torn \in BOOLEAN /\ edits \in 0..MaxEdits
  /\ \A a \in Operators : Busy(a) => edit[a].settings \in Settings /\ edit[a].roles \subseteq Roles
  /\ since \in [Roles -> 0..MaxNow] /\ failedAt \in [Roles -> 0..MaxNow] /\ now \in 1..MaxNow

\* A mask never reaches a provider or the store in place of a key, whichever settings a client has
\* read before and whatever was stored since; and unless requests overlapped or one failed half-way,
\* the models in use are those that a restart brings back.
SettingsSurviveRestart ==
  /\ \A r \in Roles : running[r].key # Mask /\ (stored # NoSettings => stored[r].key # Mask)
  /\ ~torn /\ (\A a \in Operators : ~Busy(a)) /\ stored # NoSettings => running = stored
=============================================================================
