------------------------------ MODULE MCHosted ------------------------------
(* The instances of HostedServer that TLC checks.                           *)
EXTENDS HostedServer
With(dir, auth, clients, grants, marker) ==
  [dir |-> dir, auth |-> auth, clients |-> clients, rows |-> [t \in Tables |-> grants],
   marker |-> marker]
MCDisks == {
  With("absent", "absent", "absent", {}, FALSE),
  With("private", "private", "absent", {"legacy"}, FALSE),
  With("private", "private", "private", {}, TRUE),
  With("private", "absent", "foreign", {}, FALSE),
  With("open", "absent", "absent", {}, FALSE)}

Padded(text) == [text |-> text, padded |-> TRUE]
Number(n) == [text |-> "decimal", padded |-> FALSE, n |-> n]
Url(protocol, host, port, rest) ==
  [text |-> "url", padded |-> FALSE, protocol |-> protocol, host |-> host, port |-> port,
   rest |-> rest]
List(items) == [text |-> "list", padded |-> FALSE, items |-> items]
Net(family, at, prefix, bare) == [family |-> family, at |-> at, prefix |-> prefix, bare |-> bare]
Https == Url("https", <<"example", "com">>, 443, TRUE)

(* What a hosted deployment has to set, and nothing else.                   *)
Required == [
  CAPTATUM_FLAVOR |-> Word("hosted"), CF_ACCESS_ENABLED |-> Padded("true"),
  CF_ACCESS_AUDIENCE |-> Word("x"), CF_ACCESS_CERTS_URL |-> Https, CF_ACCESS_ISSUER |-> Https,
  OAUTH_ISSUER |-> Https, OAUTH_RESOURCE |-> Https, OAUTH_CONSENT_SIGNING_SECRET |-> Word("x"),
  OAUTH_SIGNING_KEY_ID |-> Word("x"), OAUTH_SIGNING_PRIVATE_JWK |-> Word("object"),
  OAUTH_REDIRECT_ALLOWLIST |-> List(<<"a", "">>), MCP_ALLOWED_ORIGINS |-> List(<<"a">>),
  MCP_ALLOWED_HOSTS |-> List(<<"a">>),
  CAPTATUM_TRUSTED_PROXY_CIDRS |-> List(<<Net(4, "a", 32, TRUE)>>),
  CAPTATUM_PROXY_AUTH_SECRET |-> Word("43 of base64url")]
Set(name, word) == name :> word @@ Required
Cdp(protocol, host, port, rest) ==
  Set("CAPTATUM_BROWSER_CDP_ENDPOINT", Url(protocol, host, port, rest))
Service == <<"browser", "captatum", "svc", "cluster", "local">>

Everything == BULK_KNOBS @@ RENDER_KNOBS @@ OTHER_KNOBS
AtCeiling == [name \in DOMAIN Everything |-> Number(Everything[name])]
Explicit == AtCeiling @@ [
  CAPTATUM_FLAVOR |-> Word("hosted"), CAPTATUM_BULK_ENABLED |-> Word("false"),
  CAPTATUM_BROWSER_CDP_ENDPOINT |-> Url("http", Service, 9222, FALSE),
  CAPTATUM_TRUSTED_PROXY_CIDRS |->
    List(<<Net(4, "a", 24, FALSE), Net(4, "a", 24, TRUE), Net(6, "b", 64, FALSE)>>),
  OLLAMA_BASE_URL |-> Url("http", <<"localhost">>, 11434, FALSE),
  TIDB_PORT |-> Padded("4000")] @@ Required

(* Every setting, once in each way that is refused.                         *)
MCRefused ==
  {[x \in DOMAIN Required \ {name} |-> Required[x]] : name \in DOMAIN Required}
  \cup {Set(name, Number(Everything[name] + 1)) : name \in DOMAIN Everything}
  \cup {Set(name, Word("1e3")) : name \in DOMAIN Everything}
  \cup {Set("CAPTATUM_BULK_ENABLED", Word("false")) @@ (name :> Number(0))
          : name \in DOMAIN BULK_KNOBS}
  \cup {Set(name, Word("TRUE")) : name \in SWITCHES}
  \cup {Set("CAPTATUM_FLAVOR", w) : w \in {Padded("hosted"), Padded(""), Word("local-binary")}}
  \cup {Set("CAPTATUM_TRUSTED_PROXY_CIDRS", List(items)) : items \in {
          <<Net(4, "a", 23, FALSE)>>, <<Net(6, "a", 63, FALSE)>>, <<Net(0, "a", 0, TRUE)>>,
          <<Net(4, "a", 32, TRUE), Net(4, "a", 32, TRUE)>>,
          [i \in 1..33 |-> Net(4, <<i>>, 32, TRUE)]}}
  \cup {Cdp("https", Service, 9222, FALSE), Cdp("http", Service, 9223, FALSE),
        Cdp("http", Service, 9222, TRUE), Cdp("http", <<"localhost">>, 9222, FALSE),
        Cdp("http", <<"">> \o Tail(Service), 9222, FALSE)}
  \cup {Set(name, Url("http", <<"example", "com">>, 80, FALSE))
          : name \in {"OPENROUTER_BASE_URL", "OLLAMA_BASE_URL", "CF_ACCESS_ISSUER"}}
  \cup {Set("CAPTATUM_PROXY_AUTH_SECRET", Padded("43 of base64url")), Set("TIDB_PORT", Word("3306")),
        Set("TIDB_HOST", Word("x")), Set("CAPTATUM_SQLITE_PATH", Word("file: uri")),
        Set("MCP_ALLOWED_HOSTS", List(<<"">>)), Set("CF_ACCESS_ENABLED", Word("false"))}
MCEnvironments == {Required, Explicit} \cup MCRefused
=============================================================================
