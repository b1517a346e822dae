-------------------------- MODULE CredentialsProofs --------------------------
(***************************************************************************)
(* Where keys go, for every number of concurrent requests and any set of   *)
(* bodies and environments.                                                *)
(***************************************************************************)
EXTENDS Credentials, TLAPS

-----------------------------------------------------------------------------
(* A request under way came in while the API was up, and its body passed   *)
(* the boundary.                                                           *)
Pending ==
  \A r \in Requests : request[r].pc # "idle" =>
    /\ writes >= 1 /\ Up("api")
    /\ request[r].pc = "put" =>
         request[r].body \in Bodies /\ ValidBody(request[r].body)

(* A row is what one PUT brought, or what overlapping ones mixed.          *)
Unmixed ==
  row # NoRow => /\ ValidBody(row.key)
                 /\ ~stale => row.body = row.key

(* A call's client was built from what its source said.                    *)
ClientOfSource ==
  /\ call.source = "none" => call.client = NoClient
  /\ call.source = "admin_default" =>
       /\ Up("worker") /\ settings["worker"].api_key
       /\ call.client = BuildModel(settings["worker"])
  /\ call.source = "product_byo" =>
       /\ ValidBody(call.key)
       /\ ~call.stale => call.client = BuildModel(WithBaseUrl(call.key, "none"))

IInv == TypeOK /\ Pending /\ Unmixed /\ ClientOfSource /\ IncoherentNeverReachesSdk

-----------------------------------------------------------------------------
(* A client for Azure was built from a coherent pair.                      *)
LEMMA BuiltCoherent ==
  ASSUME NEW c, c.endpoint \in {"none", "classic", "v1"}, c.version \in BOOLEAN,
         BuildModel(c).api = "azure"
  PROVE  \/ BuildModel(c).to = "classic" /\ BuildModel(c).version
         \/ BuildModel(c).to = "v1" /\ ~BuildModel(c).version
<1>1. ~LLMConfigError(c)
  BY DEF BuildModel, NoClient
<1>2. c.provider = "azure"
  BY <1>1 DEF BuildModel
<1>3. ~AzureConfigError(c.endpoint, c.version)
  BY <1>1, <1>2 DEF LLMConfigError
<1> QED BY <1>1, <1>2, <1>3 DEF BuildModel, AzureConfigError

(* Only what LLMConfigError names has no client.                           *)
LEMMA NoClientIsError ==
  ASSUME NEW c, BuildModel(c) = NoClient PROVE LLMConfigError(c)
BY DEF BuildModel, NoClient, LLMConfigError, Providers

(* What the boundary accepted fails by its OpenRouter name alone.          *)
LEMMA AcceptedBody ==
  ASSUME NEW c, ValidBody(c), BuildModel(WithBaseUrl(c, "none")) = NoClient
  PROVE  c.provider = "openrouter" /\ c.model = "bare"
<1>1. LLMConfigError(WithBaseUrl(c, "none"))
  BY NoClientIsError
<1> QED BY <1>1 DEF LLMConfigError, ValidBody, WithBaseUrl, BaseUrlConfigError

LEMMA AcceptedSettings ==
  ASSUME NEW s, ValidSettings(s), s.api_key, BuildModel(s) = NoClient
  PROVE  s.provider = "openrouter" /\ s.model = "bare"
<1>1. LLMConfigError(s)
  BY NoClientIsError
<1> QED BY <1>1 DEF LLMConfigError, ValidSettings

LEMMA RealRow ==
  ASSUME NEW x \in Rows, x # NoRow
  PROVE  x.id \in 1..MaxWrites /\ x.body \in Credentials /\ x.key \in Bodies
BY DEF Rows

(* Fields of two bodies make a body; and if the row is as it was read, it  *)
(* becomes the new body.                                                   *)
LEMMA Mixed ==
  ASSUME NEW old \in Credentials, NEW read \in Credentials, NEW body \in Credentials
  PROVE  LET new == [f \in DOMAIN body |-> IF body[f] # read[f] THEN body[f] ELSE old[f]]
         IN  new \in Credentials /\ (old = read => new = body)
<1> DEFINE new == [f \in DOMAIN body |-> IF body[f] # read[f] THEN body[f] ELSE old[f]]
<1>1. DOMAIN body = {"provider", "model", "endpoint", "version"}
  BY DEF Credentials
<1>2. new = [provider |-> new.provider, model |-> new.model,
             endpoint |-> new.endpoint, version |-> new.version]
  BY <1>1
<1>3. /\ new.provider \in Providers /\ new.model \in {"bare", "routed"}
      /\ new.endpoint \in {"none", "classic", "v1"} /\ new.version \in BOOLEAN
  BY <1>1 DEF Credentials
<1>4. new \in Credentials
  <2> HIDE DEF new
  <2> QED BY <1>2, <1>3 DEF Credentials
<1>5. ASSUME old = read PROVE new = body
  <2>1. \A f \in DOMAIN body : new[f] = body[f]
    BY <1>5
  <2>2. body = [f \in DOMAIN body |-> body[f]]
    BY DEF Credentials
  <2> QED BY <2>1, <2>2
<1> QED BY <1>4, <1>5

(* What a flush makes of the row.                                          *)
LEMMA ReplacedIs ==
  ASSUME TypeOK, Up("api"), row # NoRow, NEW read \in Rows, read # NoRow,
         NEW body \in Bodies
  PROVE  LET new == Replaced(row, read, body)
         IN  /\ new \in Rows /\ new.key = body
             /\ row = read => new.body = body
<1>1. /\ row \in [id: 1..MaxWrites, body: Credentials, key: Bodies,
                  sealed: {e.secret : e \in Environments}]
      /\ read.body \in Credentials /\ body \in Credentials
  BY CredentialsAssumption, RealRow DEF TypeOK, Rows
<1>2. settings["api"].secret \in {e.secret : e \in Environments}
  BY DEF TypeOK, Up, Processes
<1> DEFINE mix == [f \in DOMAIN body |-> IF body[f] # read.body[f] THEN body[f]
                                         ELSE row.body[f]]
<1>3. mix \in Credentials /\ (row.body = read.body => mix = body)
  BY <1>1, Mixed
<1>4. Replaced(row, read, body)
        = [row EXCEPT !.body = mix, !.key = body, !.sealed = settings["api"].secret]
  BY DEF Replaced, EncryptSecret
<1> HIDE DEF mix
<1> QED BY <1>1, <1>2, <1>3, <1>4 DEF Rows

LEMMA ResolvedIs ==
  ASSUME TypeOK, Unmixed, Up("worker"),
         NEW resolved, resolved = ResolveLLMConfig(row, settings["worker"]),
         resolved.source # "none"
  PROVE  /\ resolved.config.endpoint \in {"none", "classic", "v1"}
         /\ resolved.config.version \in BOOLEAN
         /\ \/ /\ resolved.source = "admin_default"
               /\ settings["worker"].api_key
               /\ resolved.config = settings["worker"]
            \/ /\ resolved.source = "product_byo" /\ ValidBody(resolved.key)
               /\ ~stale => resolved.config = WithBaseUrl(resolved.key, "none")
<1>1. settings["worker"] \in Settings
  BY CredentialsAssumption DEF TypeOK, Up, Processes
<1>2. CASE Readable(row, settings["worker"])
  <2>1. row # NoRow /\ row.body \in Credentials
    BY <1>2, RealRow DEF Readable, TypeOK
  <2>2. /\ resolved.source = "product_byo" /\ resolved.key = row.key
        /\ resolved.config = WithBaseUrl(row.body, "none")
    BY <1>2 DEF ResolveLLMConfig
  <2> QED BY <2>1, <2>2 DEF Unmixed, WithBaseUrl, Credentials
<1>3. CASE ~Readable(row, settings["worker"])
  <2>1. /\ resolved.source = "admin_default" /\ settings["worker"].api_key
        /\ resolved.config = settings["worker"]
    BY <1>3 DEF ResolveLLMConfig
  <2> QED BY <1>1, <2>1 DEF Settings
<1> QED BY <1>2, <1>3

-----------------------------------------------------------------------------
LEMMA InvInit == Init => IInv
<1> SUFFICES ASSUME Init PROVE IInv
  OBVIOUS
<1>1. TypeOK
  <2>1. /\ row \in Rows /\ product \in BOOLEAN
        /\ request \in [Requests -> [pc: {"idle", "put", "delete"},
                                     body: Bodies \cup {NoBody}, row: Rows]]
    BY DEF Init, Rows, Idle
  <2>2. /\ env \in Environments
        /\ settings \in [Processes -> {e \in Environments : ValidSettings(e)} \cup {Down}]
    BY DEF Init
  <2>3. call.source = "none" /\ stale \in BOOLEAN
    BY DEF Init, NoCall
  <2>4. MaxWrites \in Nat /\ MaxEdits \in Nat /\ writes = 0 /\ edits = 0
    BY CredentialsAssumption DEF Init
  <2>5. writes \in 0..MaxWrites /\ edits \in 0..MaxEdits
    BY <2>4
  <2> QED BY <2>1, <2>2, <2>3, <2>5 DEF TypeOK
<1>2. Pending /\ Unmixed
  BY DEF Init, Pending, Unmixed, Idle
<1>3. ClientOfSource /\ IncoherentNeverReachesSdk
  BY DEF Init, ClientOfSource, IncoherentNeverReachesSdk, NoCall, NoClient
<1> QED BY <1>1, <1>2, <1>3 DEF IInv

(* No row is sealed by a request that ends, and none is pending.           *)
LEMMA AnsweredKeeps ==
  ASSUME TypeOK, Pending, NEW r \in Requests, Answered(r),
         UNCHANGED <<settings, writes>>
  PROVE  /\ Pending'
         /\ request' \in [Requests -> [pc: {"idle", "put", "delete"},
                                       body: Bodies \cup {NoBody}, row: Rows]]
<1>1. Idle \in [pc: {"idle", "put", "delete"}, body: Bodies \cup {NoBody}, row: Rows]
  BY DEF Idle, Rows
<1>2. \A q \in Requests : request'[q] = IF q = r THEN Idle ELSE request[q]
  BY DEF Answered, TypeOK
<1> QED BY <1>1, <1>2 DEF Answered, TypeOK, Pending, Idle, Up

LEMMA InvStep == IInv /\ [Next]_vars => IInv'
<1> SUFFICES ASSUME IInv, [Next]_vars PROVE IInv'
  OBVIOUS
<1> USE DEF IInv
<1>0. MaxWrites \in Nat /\ MaxEdits \in Nat
  BY CredentialsAssumption
<1>1. ASSUME NEW r \in Requests, NEW verb \in {"put", "delete"},
             NEW body \in Bodies \cup {NoBody}, Read(r, verb, body),
             verb = "put" => body \in Bodies /\ ValidBody(body)
      PROVE  IInv'
  <2> DEFINE new == [pc |-> verb, body |-> body, row |-> row]
  <2>1. /\ \A q \in Requests : request'[q] = IF q = r THEN new ELSE request[q]
        /\ writes' \in 1..MaxWrites /\ Up("api") /\ request[r].pc = "idle"
    BY <1>0, <1>1 DEF Read, TypeOK
  <2>2. TypeOK'
    BY <1>1, <2>1 DEF Read, TypeOK
  <2>3. Pending'
    BY <1>1, <2>1 DEF Read, Pending, Up, TypeOK
  <2>4. Unmixed' /\ ClientOfSource' /\ IncoherentNeverReachesSdk'
    BY <1>1 DEF Read, Unmixed, ClientOfSource, IncoherentNeverReachesSdk, Up
  <2> QED BY <2>2, <2>3, <2>4
<1>2. ASSUME NEW r \in Requests, CommitPut(r) PROVE IInv'
  <2> DEFINE read == request[r].row
             body == request[r].body
  <2>1. /\ body \in Bodies /\ ValidBody(body) /\ body \in Credentials
        /\ read \in Rows /\ Up("api") /\ writes \in 1..MaxWrites
    BY <1>0, <1>2, CredentialsAssumption DEF CommitPut, Pending, TypeOK
  <2>2. /\ Pending'
        /\ request' \in [Requests -> [pc: {"idle", "put", "delete"},
                                      body: Bodies \cup {NoBody}, row: Rows]]
    BY <1>2, AnsweredKeeps DEF CommitPut
  <2>3. row' \in Rows /\ stale' \in BOOLEAN /\ Unmixed'
    <3>1. CASE /\ row' = [id |-> writes, body |-> body,
                          key |-> EncryptSecret(body).key,
                          sealed |-> EncryptSecret(body).sealed]
               /\ stale' = FALSE
      <4>1. settings["api"].secret \in {e.secret : e \in Environments}
        BY <2>1 DEF TypeOK, Up, Processes
      <4> HIDE DEF body
      <4> QED BY <2>1, <3>1, <4>1 DEF Rows, EncryptSecret, Unmixed
    <3>2. CASE /\ read # NoRow /\ row.id = read.id
               /\ row' = Replaced(row, read, body)
               /\ stale' = (row # read)
      <4>1. row # NoRow
        BY <2>1, <3>2, RealRow DEF NoRow
      <4> HIDE DEF body, read
      <4>2. /\ row' \in Rows /\ row'.key = body
            /\ row = read => row'.body = body
        BY <2>1, <3>2, <4>1, ReplacedIs
      <4> QED BY <2>1, <3>2, <4>2 DEF Unmixed
    <3>3. CASE UNCHANGED <<row, stale>>
      BY <3>3 DEF TypeOK, Unmixed
    <3> QED BY <1>2, <3>1, <3>2, <3>3 DEF CommitPut
  <2>4. TypeOK'
    BY <1>2, <2>2, <2>3 DEF CommitPut, TypeOK
  <2>5. ClientOfSource' /\ IncoherentNeverReachesSdk'
    BY <1>2 DEF CommitPut, ClientOfSource, IncoherentNeverReachesSdk, Up
  <2> QED BY <2>2, <2>3, <2>4, <2>5
<1>3. ASSUME NEW r \in Requests, CommitDelete(r) PROVE IInv'
  <2>1. /\ Pending'
        /\ request' \in [Requests -> [pc: {"idle", "put", "delete"},
                                      body: Bodies \cup {NoBody}, row: Rows]]
    BY <1>3, AnsweredKeeps DEF CommitDelete
  <2>2. TypeOK' /\ Unmixed'
    BY <1>3, <2>1 DEF CommitDelete, TypeOK, Rows, Unmixed
  <2>3. ClientOfSource' /\ IncoherentNeverReachesSdk'
    BY <1>3 DEF CommitDelete, ClientOfSource, IncoherentNeverReachesSdk, Up
  <2> QED BY <2>1, <2>2, <2>3
<1>4. CASE DeleteProduct
  BY <1>4 DEF DeleteProduct, TypeOK, Rows, Pending, Unmixed, ClientOfSource,
              IncoherentNeverReachesSdk, Up
<1>5. CASE EditEnvironment
  <2>1. TypeOK'
    BY <1>0, <1>5 DEF EditEnvironment, TypeOK
  <2> QED BY <1>5, <2>1 DEF EditEnvironment, Pending, Unmixed, ClientOfSource,
                            IncoherentNeverReachesSdk, Up
<1>6. ASSUME NEW p \in Processes, Restart(p) PROVE IInv'
  <2>1. settings' \in [Processes -> {e \in Environments : ValidSettings(e)} \cup {Down}]
    BY <1>6 DEF Restart, TypeOK
  <2>2. \A q \in Processes : q # p => settings'[q] = settings[q]
    BY <1>6 DEF Restart, TypeOK
  <2>3. CASE p = "api"
    <3>1. /\ request' = [r \in Requests |-> Idle] /\ call' = call
          /\ settings'["worker"] = settings["worker"]
      BY <1>6, <2>2, <2>3 DEF Restart, Processes
    <3>2. TypeOK'
      BY <1>6, <2>1, <3>1 DEF Restart, TypeOK, Idle, Rows
    <3> QED BY <1>6, <3>1, <3>2 DEF Restart, Pending, Unmixed, ClientOfSource,
                                    IncoherentNeverReachesSdk, Up, Idle
  <2>4. CASE p = "worker"
    <3>1. /\ request' = request /\ call' = NoCall
          /\ settings'["api"] = settings["api"]
      BY <1>6, <2>2, <2>4 DEF Restart, Processes
    <3>2. TypeOK'
      BY <1>6, <2>1, <3>1 DEF Restart, TypeOK, NoCall
    <3> QED BY <1>6, <3>1, <3>2 DEF Restart, Pending, Unmixed, ClientOfSource,
                            IncoherentNeverReachesSdk, Up, NoCall, NoClient
  <2> QED BY <2>3, <2>4 DEF Processes
<1>7. CASE Generate
  <2> DEFINE resolved == ResolveLLMConfig(row, settings["worker"])
  <2>1. /\ resolved.source # "none" /\ Up("worker")
        /\ call' = [source |-> resolved.source, key |-> resolved.key,
                    client |-> BuildModel(resolved.config), stale |-> stale]
        /\ UNCHANGED <<row, product, request, env, settings, writes, edits, stale>>
    BY <1>7 DEF Generate
  <2> HIDE DEF resolved
  <2>2. /\ resolved.config.endpoint \in {"none", "classic", "v1"}
        /\ resolved.config.version \in BOOLEAN
        /\ \/ /\ resolved.source = "admin_default"
              /\ settings["worker"].api_key
              /\ resolved.config = settings["worker"]
           \/ /\ resolved.source = "product_byo" /\ ValidBody(resolved.key)
              /\ ~stale => resolved.config = WithBaseUrl(resolved.key, "none")
    BY <2>1, ResolvedIs DEF resolved
  <2>3. TypeOK'
    BY <2>1, <2>2 DEF TypeOK
  <2>4. ClientOfSource'
    BY <2>1, <2>2 DEF ClientOfSource, Up
  <2>5. IncoherentNeverReachesSdk'
    BY <2>1, <2>2, BuiltCoherent DEF IncoherentNeverReachesSdk
  <2> QED BY <2>1, <2>3, <2>4, <2>5 DEF Pending, Unmixed, Up
<1>8. CASE Generated
  BY <1>8 DEF Generated, TypeOK, Pending, Unmixed, ClientOfSource,
              IncoherentNeverReachesSdk, Up, NoCall, NoClient
<1>9. CASE UNCHANGED vars
  BY <1>9 DEF vars, TypeOK, Pending, Unmixed, ClientOfSource,
              IncoherentNeverReachesSdk, Up
<1>10. ASSUME NEW r \in Requests, NEW b \in Bodies, Put(r, b) PROVE IInv'
  BY <1>1, <1>10 DEF Put
<1>11. ASSUME NEW r \in Requests, Delete(r) PROVE IInv'
  BY <1>1, <1>11 DEF Delete
<1> QED
  BY <1>2, <1>3, <1>4, <1>5, <1>6, <1>7, <1>8, <1>9, <1>10, <1>11 DEF Next

LEMMA Invariance == Spec => []IInv
BY InvInit, InvStep, PTL DEF Spec

-----------------------------------------------------------------------------
(* The types.                                                              *)
THEOREM TypeCorrect == Spec => []TypeOK
<1>1. IInv => TypeOK
  BY DEF IInv
<1> QED BY <1>1, Invariance, PTL

(* A user's key goes where the PUT that brought it said, after any         *)
(* sequence of requests, restarts and rotations of the secret.             *)
THEOREM KeysStayHome == Spec => []KeyGoesWhereItsOwnerSaid
<1>1. IInv => KeyGoesWhereItsOwnerSaid
  BY DEF IInv, ClientOfSource, KeyGoesWhereItsOwnerSaid, Called
<1> QED BY <1>1, Invariance, PTL

(* No incoherent Azure pair reaches the SDK, whatever PUTs have mixed.     *)
THEOREM PairsCoherent == Spec => []IncoherentNeverReachesSdk
<1>1. IInv => IncoherentNeverReachesSdk
  BY DEF IInv
<1> QED BY <1>1, Invariance, PTL

(* What was accepted fails late by a bare OpenRouter name alone.           *)
THEOREM LateFailures == Spec => []FailsLateOnlyByName
<1>1. IInv => FailsLateOnlyByName
  <2> SUFFICES ASSUME IInv, call.source # "none", call.client = NoClient, ~call.stale
               PROVE  LET chosen == IF call.source = "product_byo" THEN call.key
                                                             ELSE settings["worker"]
                      IN  chosen.provider = "openrouter" /\ chosen.model = "bare"
    BY DEF FailsLateOnlyByName
  <2>1. CASE call.source = "product_byo"
    BY <2>1, AcceptedBody DEF IInv, ClientOfSource
  <2>2. CASE call.source = "admin_default"
    <3>1. ValidSettings(settings["worker"])
      BY <2>2 DEF IInv, TypeOK, ClientOfSource, Up, Processes
    <3> QED BY <2>2, <3>1, AcceptedSettings DEF IInv, ClientOfSource
  <2> QED BY <2>1, <2>2 DEF IInv, TypeOK
<1> QED BY <1>1, Invariance, PTL
=============================================================================
