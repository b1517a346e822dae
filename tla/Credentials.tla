----------------------------- MODULE Credentials -----------------------------
(***************************************************************************)
(* The bring-your-own LLM credential of one product                        *)
(* (services/llm_credential_service.py, core/crypto.py, api/v1/products.py) *)
(* and the credential a generation runs on                                 *)
(* (services/llm/client.py, services/selector_generation.py).              *)
(*                                                                         *)
(* PUT and DELETE requests run in the API, each in a transaction of its    *)
(* own; generations run in a worker.  Either process has the settings it   *)
(* was started with, the SECRET_KEY among them, and both are restarted,    *)
(* one at a time, after the environment was edited.                        *)
(*                                                                         *)
(* A row and a request are tied together by the key: an API key is named   *)
(* by the body of the PUT that brought it.                                 *)
(***************************************************************************)
EXTENDS LLMClient

CONSTANTS
  Requests,      \* concurrent PUT and DELETE requests
  Bodies,        \* the bodies users PUT
  Environments,  \* what .env may hold
  MaxWrites,     \* bound: PUT and DELETE requests
  MaxEdits       \* bound: edits of the environment

Settings == [secret: STRING, api_key: BOOLEAN, base_url: {"none", "gateway"},
             provider: STRING, model: {"bare", "routed"},
             endpoint: {"none", "classic", "v1"}, version: BOOLEAN]

ASSUME CredentialsAssumption ==
  /\ Bodies \subseteq Credentials /\ Environments \subseteq Settings
  /\ MaxWrites \in Nat /\ MaxEdits \in Nat

VARIABLES
  row,       \* the committed product_llm_credential row
  product,   \* whether the product exists
  request,   \* what each request is doing
  env,       \* what .env holds
  settings,  \* the settings of each process; Down while it cannot start
  call,      \* the generation under way: its source, key, client and row
  writes, edits,
  stale      \* history: the last PUT committed over a row it had not read

vars == <<row, product, request, env, settings, call, writes, edits, stale>>
-----------------------------------------------------------------------------
Processes == {"api", "worker"}
Down == [secret |-> "none"]

NoBody == [provider |-> "none", model |-> "bare", endpoint |-> "none",
           version |-> FALSE]

(* id 0: no row.  key: the body the stored key came with.  sealed: the     *)
(* SECRET_KEY the key was encrypted under.                                 *)
NoRow == [id |-> 0, body |-> NoBody, key |-> NoBody, sealed |-> "none"]
Rows  == {NoRow} \cup
         [id: 1..MaxWrites, body: Credentials, key: Bodies,
          sealed: {e.secret : e \in Environments}]

Idle   == [pc |-> "idle", body |-> NoBody, row |-> NoRow]
NoCall == [source |-> "none", key |-> NoBody, client |-> NoClient,
           stale |-> FALSE]

TypeOK ==
  /\ row \in Rows /\ product \in BOOLEAN
  /\ request \in [Requests -> [pc: {"idle", "put", "delete"},
                               body: Bodies \cup {NoBody}, row: Rows]]
  /\ env \in Environments
  /\ settings \in [Processes -> {e \in Environments : ValidSettings(e)} \cup {Down}]
  /\ call.source \in {"none", "admin_default", "product_byo"}
  /\ writes \in 0..MaxWrites /\ edits \in 0..MaxEdits /\ stale \in BOOLEAN

Init ==
  /\ row = NoRow /\ product = TRUE
  /\ request = [r \in Requests |-> Idle]
  /\ env \in {e \in Environments : ValidSettings(e)}
  /\ settings = [p \in Processes |-> env]
  /\ call = NoCall /\ writes = 0 /\ edits = 0 /\ stale = FALSE
-----------------------------------------------------------------------------
Up(p) == settings[p] # Down

(* The requests in hand end without an effect: 404, 500, or a lost client. *)
Answered(r) == request' = [request EXCEPT ![r] = Idle]

(* _get_product_or_404, then get_credential.                               *)
Read(r, verb, body) ==
  /\ request[r].pc = "idle" /\ Up("api") /\ product
  /\ writes < MaxWrites /\ writes' = writes + 1
  /\ request' = [request EXCEPT ![r] = [pc |-> verb, body |-> body, row |-> row]]
  /\ UNCHANGED <<row, product, env, settings, call, edits, stale>>

Put(r, body) == ValidBody(body) /\ Read(r, "put", body)

Delete(r) == row # NoRow /\ Read(r, "delete", NoBody)

(* encrypt_secret: never the same token twice.                             *)
EncryptSecret(body) == [key |-> body, sealed |-> settings["api"].secret]

(* The UPDATE sets the columns in which the body differs from the row that *)
(* was read, and the key.                                                  *)
Replaced(base, read, body) ==
  [base EXCEPT
    !.body = [f \in DOMAIN body |-> IF body[f] # read.body[f] THEN body[f]
                                    ELSE base.body[f]],
    !.key = EncryptSecret(body).key, !.sealed = EncryptSecret(body).sealed]

(* upsert_credential's flush, then the commit; the row lock is held from   *)
(* the one to the other.  A second INSERT violates the unique index, an    *)
(* UPDATE of a row that is gone matches none: both are answered 500.       *)
CommitPut(r) ==
  LET read == request[r].row
      body == request[r].body
  IN  /\ request[r].pc = "put"
      /\ \/ /\ read = NoRow /\ row = NoRow /\ product
            /\ row' = [id |-> writes, body |-> body,
                       key |-> EncryptSecret(body).key,
                       sealed |-> EncryptSecret(body).sealed]
            /\ stale' = FALSE
         \/ /\ read # NoRow /\ row.id = read.id
            /\ row' = Replaced(row, read, body)
            /\ stale' = (row # read)
         \/ /\ row.id # read.id \/ (read = NoRow /\ ~product)
            /\ UNCHANGED <<row, stale>>
      /\ Answered(r)
      /\ UNCHANGED <<product, env, settings, call, writes, edits>>

(* The DELETE goes by product and removes whatever row there is by now.    *)
CommitDelete(r) ==
  /\ request[r].pc = "delete"
  /\ row' = NoRow /\ stale' = FALSE
  /\ Answered(r)
  /\ UNCHANGED <<product, env, settings, call, writes, edits>>

DeleteProduct ==
  /\ product /\ Up("api")
  /\ product' = FALSE
  /\ row' = NoRow /\ stale' = FALSE
  /\ UNCHANGED <<request, env, settings, call, writes, edits>>
-----------------------------------------------------------------------------
EditEnvironment ==
  /\ edits < MaxEdits /\ edits' = edits + 1
  /\ env' \in Environments \ {env}
  /\ UNCHANGED <<row, product, request, settings, call, writes, stale>>

(* Mutation: the settings are not validated at the start.                  *)
RestartAnyway(p) ==
  /\ settings' = [settings EXCEPT ![p] = env]
  /\ settings' # settings
  /\ request' = IF p = "api" THEN [r \in Requests |-> Idle] ELSE request
  /\ call' = IF p = "worker" THEN NoCall ELSE call
  /\ UNCHANGED <<row, product, env, writes, edits, stale>>

(* A restarted process loses what it was doing.                            *)
Restart(p) ==
  /\ settings' = [settings EXCEPT ![p] = IF ValidSettings(env) THEN env ELSE Down]
  /\ settings' # settings
  /\ request' = IF p = "api" THEN [r \in Requests |-> Idle] ELSE request
  /\ call' = IF p = "worker" THEN NoCall ELSE call
  /\ UNCHANGED <<row, product, env, writes, edits, stale>>
-----------------------------------------------------------------------------
(* decrypt_secret: readable under the SECRET_KEY it was encrypted with.    *)
Readable(r, s) == r # NoRow /\ r.sealed = s.secret

(* Mutation: the deployer's gateway serves the user's key as well.         *)
ResolveInherits(r, s) ==
  IF Readable(r, s)
    THEN [source |-> "product_byo", key |-> r.key,
          config |-> WithBaseUrl(r.body, s.base_url)]
    ELSE IF s.api_key THEN [source |-> "admin_default", key |-> NoBody, config |-> s]
    ELSE [source |-> "none", key |-> NoBody, config |-> s]

(* resolve_llm_config: product, then admin default, then nothing.          *)
ResolveLLMConfig(r, s) ==
  IF Readable(r, s)
    THEN [source |-> "product_byo", key |-> r.key,
          config |-> WithBaseUrl(r.body, "none")]
    ELSE IF s.api_key THEN [source |-> "admin_default", key |-> NoBody, config |-> s]
    ELSE [source |-> "none", key |-> NoBody, config |-> s]

(* generate_selector up to the provider call: with NoClient the attempt is *)
(* counted as failed before anything is sent.  No credential: no call.     *)
Generate ==
  LET resolved == ResolveLLMConfig(row, settings["worker"])
  IN  /\ Up("worker") /\ product /\ call = NoCall
      /\ resolved.source # "none"
      /\ call' = [source |-> resolved.source, key |-> resolved.key,
                  client |-> BuildModel(resolved.config), stale |-> stale]
      /\ UNCHANGED <<row, product, request, env, settings, writes, edits, stale>>

(* The provider answers, fails or times out; SelectorHealing goes on.      *)
Generated ==
  /\ call # NoCall
  /\ call' = NoCall
  /\ UNCHANGED <<row, product, request, env, settings, writes, edits, stale>>

Next ==
  \/ \E r \in Requests :
       \/ \E b \in Bodies : Put(r, b)
       \/ Delete(r) \/ CommitPut(r) \/ CommitDelete(r)
  \/ DeleteProduct \/ EditEnvironment
  \/ \E p \in Processes : Restart(p)
  \/ Generate \/ Generated

Spec == Init /\ [][Next]_vars
-----------------------------------------------------------------------------
Called(source) == call.source = source /\ call.client # NoClient

(* "a BYO credential always reaches the provider's own endpoint (or its    *)
(* own azure_endpoint)": a user's key goes where the PUT that brought it   *)
(* said, after any sequence of PUTs, deletions, restarts and rotations;    *)
(* only a PUT that overlapped another one may leave the fields of the two  *)
(* mixed, until the next.                                                  *)
KeyGoesWhereItsOwnerSaid ==
  Called("product_byo") /\ ~call.stale =>
    call.client = BuildModel(WithBaseUrl(call.key, "none"))

(* "so an incoherent pair can never reach the SDK": not even one that two  *)
(* PUTs, each of them coherent, left behind together.                      *)
IncoherentNeverReachesSdk ==
  call.client.api = "azure" =>
    \/ call.client.to = "classic" /\ call.client.version
    \/ call.client.to = "v1" /\ ~call.client.version

(* What the API and the start-up accept does not "fail later, inside the   *)
(* regeneration worker" as a charged attempt, whatever was edited, rotated *)
(* or restarted since: except bare OpenRouter names, which neither of them *)
(* looks at, and rows two PUTs have mixed.                                 *)
FailsLateOnlyByName ==
  call.source # "none" /\ call.client = NoClient /\ ~call.stale =>
    LET chosen == IF call.source = "product_byo" THEN call.key
                                                 ELSE settings["worker"]
    IN  chosen.provider = "openrouter" /\ chosen.model = "bare"
=============================================================================
