---------------------------- MODULE MCCredentials ----------------------------
EXTENDS Credentials

Cred(p, m, e, v) == [provider |-> p, model |-> m, endpoint |-> e, version |-> v]

(* The first four are accepted, one of them with Azure fields left over    *)
(* from another provider; the last two are answered 422.                   *)
MCBodies ==
  {Cred("openai", "bare", "classic", TRUE),
   Cred("openrouter", "bare", "none", FALSE),
   Cred("azure", "bare", "classic", TRUE),
   Cred("azure", "bare", "v1", FALSE),
   Cred("azure", "bare", "none", FALSE),
   Cred("azure", "bare", "v1", TRUE)}

Env(secret, key, url, c) ==
  [secret |-> secret, api_key |-> key, base_url |-> url, provider |-> c.provider,
   model |-> c.model, endpoint |-> c.endpoint, version |-> c.version]

(* A gateway; no key and the secret rotated; Azure; OpenRouter with a bare *)
(* name; and two that do not start: a gateway for OpenRouter, and Azure    *)
(* without its version.                                                    *)
MCEnvironments ==
  {Env("old", TRUE, "gateway", Cred("openai", "bare", "none", FALSE)),
   Env("new", FALSE, "none", Cred("openai", "bare", "none", FALSE)),
   Env("new", TRUE, "none", Cred("azure", "bare", "v1", FALSE)),
   Env("old", TRUE, "none", Cred("openrouter", "bare", "none", FALSE)),
   Env("old", TRUE, "gateway", Cred("openrouter", "bare", "none", FALSE)),
   Env("new", TRUE, "none", Cred("azure", "bare", "classic", FALSE))}
=============================================================================
