----------------------------- MODULE BootConfig -----------------------------
(* What a hosted boot reads from its environment, and what it refuses.  An  *)
(* environment maps the names the operator set to words: the trimmed text,  *)
(* whether white space surrounds it, and, where it has parts, its parts.    *)
EXTENDS Integers, Sequences, SequencesExt

Word(text) == [text |-> text, padded |-> FALSE]
Raw(env, name) == IF name \in DOMAIN env THEN env[name] ELSE Word("")
Absent(env, name) == Raw(env, name).text = ""
EnvString(env, name, fallback) == IF Absent(env, name) THEN fallback ELSE Raw(env, name)
EnvList(env, name) ==
  IF Absent(env, name) THEN << >> ELSE SelectSeq(Raw(env, name).items, LAMBDA s : s # "")

-----------------------------------------------------------------------------
(* The strict selectors: each bounds a rate, a cost or a sandbox.           *)
BULK_KNOBS == [
  CAPTATUM_BULK_MAX_PER_HOST_INFLIGHT |-> 32, CAPTATUM_BULK_CRAWL_DELAY_MS |-> 600000,
  CAPTATUM_BULK_MAX_CONCURRENCY |-> 4, CAPTATUM_BULK_QUOTA_WINDOW_SECONDS |-> 86400,
  CAPTATUM_BULK_QUOTA_SEED_LIMIT |-> 10000, CAPTATUM_BULK_MAX_GLOBAL_WALL_MS |-> 180000]
RENDER_KNOBS == [
  CAPTATUM_RENDER_POST_MAX_BYTES |-> 67108864, CAPTATUM_RENDER_POST_CONCURRENCY |-> 64,
  CAPTATUM_MAX_CONCURRENT_RENDERS |-> 16]
OTHER_KNOBS == [
  PORT |-> 65535, TRANSFORM_TIMEOUT_MS |-> 600000, TRANSFORM_MAX_OUTPUT_TOKENS |-> 100000,
  CAPTATUM_GLOBAL_FETCH_CONCURRENCY |-> 128]
SWITCHES == {"CF_ACCESS_ENABLED", "OAUTH_ALLOW_INSECURE_LOCALHOST",
             "CAPTATUM_BROWSER_INPROCESS_SANDBOX", "CAPTATUM_BULK_ENABLED"}

EnvStrictInteger(env, name, ceiling) ==
  Absent(env, name) \/ (Raw(env, name).text = "decimal" /\ Raw(env, name).n \in 1..ceiling)
AllInRange(env, knobs) == \A name \in DOMAIN knobs : EnvStrictInteger(env, name, knobs[name])
EnvStrictBoolean(env, name, fallback) ==
  CASE Absent(env, name) -> fallback
    [] Raw(env, name).text \in {"true", "false"} -> Raw(env, name).text
    [] OTHER -> "throws"

-----------------------------------------------------------------------------
(* readFlavor takes the word as it is; config.deployment.flavor, which the  *)
(* renderer asks, takes a blank one for an absent one.                      *)
FlavorWord(env) ==
  IF "CAPTATUM_FLAVOR" \in DOMAIN env THEN env.CAPTATUM_FLAVOR
  ELSE IF "DEPLOYMENT_FLAVOR" \in DOMAIN env THEN env.DEPLOYMENT_FLAVOR ELSE Word("local-binary")
ReadFlavor_Trimmed(env) == IF FlavorWord(env).text = "hosted" THEN "hosted" ELSE "throws"
ReadFlavor(env) ==
  IF FlavorWord(env) \in {Word("hosted"), Word("local-binary")} THEN FlavorWord(env).text
  ELSE "throws"
ConfigFlavor(env) ==
  EnvString(env, "CAPTATUM_FLAVOR", EnvString(env, "DEPLOYMENT_FLAVOR", Word("local-binary")))

IsHttps(url) == url.text = "url" /\ url.protocol = "https"
IsLoopback(url) == url.host = <<"localhost">>

HostedCloudflareAccess(env) ==
  /\ EnvStrictBoolean(env, "CF_ACCESS_ENABLED", "false") = "true"
  /\ ~Absent(env, "CF_ACCESS_AUDIENCE")
  /\ \A name \in {"CF_ACCESS_CERTS_URL", "CF_ACCESS_ISSUER"} :
       ~Absent(env, name) /\ IsHttps(Raw(env, name))

(* What mcp-sso asks of this material beyond being there is its own.        *)
McpSsoMaterial(env) ==
  /\ \A name \in {"OAUTH_ISSUER", "OAUTH_RESOURCE", "OAUTH_CONSENT_SIGNING_SECRET",
                  "OAUTH_SIGNING_KEY_ID"} : ~Absent(env, name)
  /\ Raw(env, "OAUTH_SIGNING_PRIVATE_JWK").text = "object"
  /\ EnvList(env, "OAUTH_REDIRECT_ALLOWLIST") # << >>
  /\ EnvList(env, "MCP_ALLOWED_ORIGINS") # << >>
  /\ EnvStrictBoolean(env, "OAUTH_ALLOW_INSECURE_LOCALHOST", "false") # "throws"

(* The peers that may speak for a client: few, distinct, narrow.            *)
NARROWEST == 4 :> 32 @@ 6 :> 128
WIDEST == 4 :> 24 @@ 6 :> 64
ParseTrustedProxyCidrs(env) ==
  LET raw == Raw(env, "CAPTATUM_TRUSTED_PROXY_CIDRS") IN
  /\ raw.text # "" /\ Len(raw.items) <= 32 /\ IsInjective(raw.items)
  /\ \A e \in ToSet(raw.items) :
       e.family \in {4, 6} /\ (e.bare \/ e.prefix \in WIDEST[e.family]..NARROWEST[e.family])
ParseProxyAuthSecret(env) == Raw(env, "CAPTATUM_PROXY_AUTH_SECRET") = Word("43 of base64url")
McpSecurity(env) ==
  /\ EnvList(env, "MCP_ALLOWED_HOSTS") # << >> /\ EnvList(env, "MCP_ALLOWED_ORIGINS") # << >>
  /\ ParseTrustedProxyCidrs(env) /\ ParseProxyAuthSecret(env)

IsKubernetesServiceHost(host) ==
  /\ Len(host) = 5 /\ SubSeq(host, 3, 5) = <<"svc", "cluster", "local">>
  /\ {"", "not a label"} \cap ToSet(SubSeq(host, 1, 2)) = {}
ParseCdpEndpoint(env) ==
  LET url == Raw(env, "CAPTATUM_BROWSER_CDP_ENDPOINT") IN
  CASE url.text = "" -> "none"
    [] url.text = "url" /\ url.protocol = "http" /\ url.port = 9222 /\ ~url.rest
       /\ IsKubernetesServiceHost(url.host) -> "workload"
    [] OTHER -> "throws"

(* One SQLite file, no URI; of the store that is not supported only the     *)
(* values an old template had.                                              *)
INERT_TIDB_DEFAULTS == [TIDB_PORT |-> "4000", TIDB_DATABASE |-> "captatum",
                        TIDB_USER |-> "captatum_rw"]
ResolveHostedStoreConfig(env) ==
  /\ Raw(env, "CAPTATUM_SQLITE_PATH").text # "file: uri"
  /\ \A name \in {"TIDB_HOST", "TIDB_PASSWORD", "TIDB_SSL_CA"} : Absent(env, name)
  /\ \A name \in DOMAIN INERT_TIDB_DEFAULTS :
       Raw(env, name).text \in {"", INERT_TIDB_DEFAULTS[name]}

CreateTransformer(env) ==
  /\ LET url == Raw(env, "OPENROUTER_BASE_URL") IN
     url.text = "url" /\ url.protocol = "http" => IsLoopback(url)
  /\ LET url == Raw(env, "OLLAMA_BASE_URL") IN
     url.text = "" \/ (url.text = "url" /\ (url.protocol = "https" \/ IsLoopback(url)))

(* All knobs are read even when what they bound is off.                     *)
CreateHostedBulk_GateFirst(env) ==
  LET enabled == EnvStrictBoolean(env, "CAPTATUM_BULK_ENABLED", "true") IN
  enabled = "false" \/ (enabled = "true" /\ AllInRange(env, BULK_KNOBS))
CreateHostedBulk(env) ==
  /\ AllInRange(env, BULK_KNOBS)
  /\ EnvStrictBoolean(env, "CAPTATUM_BULK_ENABLED", "true") # "throws"

RendererKind(env) ==
  CASE ParseCdpEndpoint(env) = "workload" -> "workload"
    [] ConfigFlavor(env) = Word("hosted") -> "unavailable"
    [] OTHER -> "in_process"
CreateRenderer(env) ==
  /\ ParseCdpEndpoint(env) # "throws" /\ AllInRange(env, RENDER_KNOBS)
  /\ EnvStrictBoolean(env, "CAPTATUM_BROWSER_INPROCESS_SANDBOX", "true") # "throws"

(* resolveBoot, as far as it only reads the environment.                    *)
Accepts(env) ==
  /\ ReadFlavor(env) = "hosted" /\ HostedCloudflareAccess(env) /\ McpSsoMaterial(env)
  /\ McpSecurity(env) /\ ResolveHostedStoreConfig(env)
  /\ AllInRange(env, OTHER_KNOBS)
  /\ CreateTransformer(env) /\ CreateRenderer(env) /\ CreateHostedBulk(env)
=============================================================================
