------------------------------ MODULE LLMClient ------------------------------
(***************************************************************************)
(* Which LLM configurations are accepted, and the client that is built     *)
(* from one (core/config.py, schemas/llm_credential.py,                    *)
(* services/llm/client.py).                                                *)
(*                                                                         *)
(* A configuration is a record: the provider, whether the model name is    *)
(* bare or routed ("<upstream>/<model>"), the style of the Azure endpoint, *)
(* whether an API version is set, and the base URL.                        *)
(***************************************************************************)
EXTENDS Integers

Providers        == {"openai", "anthropic", "azure", "openrouter"}
BaseUrlProviders == {"openai", "anthropic"}

Credentials == [provider: Providers, model: {"bare", "routed"},
                endpoint: {"none", "classic", "v1"}, version: BOOLEAN]
-----------------------------------------------------------------------------
BaseUrlConfigError(provider, url) ==
  url # "none" /\ provider \notin BaseUrlProviders

(* A classic endpoint requires an API version, a v1 endpoint rejects one.  *)
AzureConfigError(endpoint, version) ==
  \/ endpoint = "none"
  \/ endpoint = "v1" /\ version
  \/ endpoint = "classic" /\ ~version

(* Settings(): an invalid environment keeps the process from starting.     *)
ValidSettings(s) ==
  /\ s.provider \in Providers
  /\ ~BaseUrlConfigError(s.provider, s.base_url)
  /\ s.provider = "azure" /\ s.api_key => ~AzureConfigError(s.endpoint, s.version)

(* Mutation: the Azure fields are taken as they come.                      *)
ValidBodyAnyAzure(b) == b.provider \in Providers

(* ProductLLMCredentialWrite: anything else is answered 422.               *)
ValidBody(b) ==
  /\ b.provider \in Providers
  /\ b.provider = "azure" => ~AzureConfigError(b.endpoint, b.version)
-----------------------------------------------------------------------------
(* LLMConfig.                                                              *)
WithBaseUrl(c, url) ==
  [provider |-> c.provider, model |-> c.model, endpoint |-> c.endpoint,
   version |-> c.version, base_url |-> url]

NoClient == [api |-> "none", to |-> "none", version |-> FALSE,
             model |-> "bare"]

(* Mutation: the last boundary is left out.                                *)
LLMConfigErrorNoAzure(c) ==
  \/ c.provider \notin Providers
  \/ BaseUrlConfigError(c.provider, c.base_url)
  \/ c.provider = "openrouter" /\ c.model = "bare"

LLMConfigError(c) ==
  \/ c.provider \notin Providers
  \/ BaseUrlConfigError(c.provider, c.base_url)
  \/ c.provider = "openrouter" /\ c.model = "bare"
  \/ c.provider = "azure" /\ AzureConfigError(c.endpoint, c.version)

(* build_model: the API spoken, where the requests go, whether an API      *)
(* version goes with them; NoClient is an LLMConfigError.                  *)
BuildModel(c) ==
  IF LLMConfigError(c) THEN NoClient
  ELSE [api     |-> c.provider,
        to      |-> IF c.provider = "azure" THEN c.endpoint
                    ELSE IF c.base_url # "none" THEN "gateway" ELSE "public",
        version |-> c.provider = "azure" /\ c.endpoint = "classic" /\ c.version,
        model   |-> c.model]
=============================================================================
