----------------------------- MODULE LLMRuntime -----------------------------
(***************************************************************************)
(* The language-model providers the API is configured with, the models a   *)
(* request may ask of each, and the settings a user stores about them.     *)
(***************************************************************************)

EXTENDS Integers, Sequences, SequencesExt

CONSTANTS
  LLMProvider,  \* LLM_PROVIDER
  Reachable,    \* ids of the providers with a key or a base URL
  Models,       \* names of models
  ModelNames    \* LLM_MODEL_*, LLM_MODEL_*_STRICT, LLM_MODEL_*_UNSTRICT of each

\* The empty string, and a field that is not there.
NoModel == "none"
Unset == "unset"

KnownIds == {"local", "openai", "gemini", "ollama"}

\* uniqueNonEmpty and firstNonEmpty
UniqueNonEmpty(names) == ToSet(names) \ {NoModel}
FirstNonEmpty(names) ==
  LET named == {i \in DOMAIN names : names[i] # NoModel}
  IN  IF named = {} THEN NoModel ELSE names[Min(named)]

\* The providers NewRuntime adds.  The local one has no models.
Configured == {"local"} \cup Reachable
ModelsOf == [p \in Configured |-> IF p = "local" THEN {} ELSE UniqueNonEmpty(ModelNames[p])]
DefaultModel ==
  [p \in Configured |-> IF p = "local" THEN NoModel ELSE FirstNonEmpty(ModelNames[p])]

\* DefaultProviderID
DefaultId == IF LLMProvider = Unset THEN "local" ELSE LLMProvider

\* NewRuntime refuses a default provider that it has not added.
ASSUME RuntimeAssumption ==
  /\ Reachable \subseteq KnownIds \ {"local"}
  /\ NoModel \notin Models
  /\ ModelNames \in [Reachable -> [1..3 -> Models \cup {NoModel}]]
  /\ DefaultId \in Configured

\* Resolve finds the provider, and ValidateModel the model among its options.
Fits(p, model) ==
  /\ p \in Configured
  /\ model = NoModel \/ model \in ModelsOf[p]

\* newOpenAIProvider, newGeminiProvider and newOllamaProvider give their client
\* the timeout LLM_HTTP_TIMEOUT.  ollamaProvider has a second client without
\* one, and its Complete uses that.  The local provider calls nobody.
HasTimeout(p, streamed) == p # "ollama" \/ streamed

-----------------------------------------------------------------------------
(* Settings *)

Modes == {"strict", "unstrict"}
Settings == [mode : Modes, provider : Configured, model : Models \cup {NoModel}]

\* normalizeUserSettings, of settings whose provider is configured: an empty
\* model becomes the provider's default.
Normal(mode, p, model) ==
  [mode |-> mode, provider |-> p,
   model |-> IF model = NoModel THEN DefaultModel[p] ELSE model]

\* GetUserSettings of a user without a row, normalised.
Fresh == Normal("strict", DefaultId, NoModel)

\* Fields of the payload of PATCH /me/settings; at least one is set.
Payloads ==
  [mode : Modes \cup {Unset}, provider : KnownIds \cup {Unset},
   model : Models \cup {NoModel, Unset}]
  \ [mode : {Unset}, provider : {Unset}, model : {Unset}]

Given(field, current) == IF field = Unset THEN current ELSE field

\* updateMySettings: the fields of payload p over the settings s that were
\* read.  Another provider without a model starts from its default model.
Change(s, p) ==
  [mode |-> Given(p.mode, s.mode),
   provider |-> Given(p.provider, s.provider),
   model |-> Given(p.model, IF p.provider = Unset THEN s.model ELSE NoModel)]
=============================================================================
