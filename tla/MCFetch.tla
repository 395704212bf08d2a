------------------------------ MODULE MCFetch ------------------------------
(* The instance of FetchPipeline that TLC checks.  Redirects lead to the    *)
(* page and to the board, so that a chain of two can pass through a host it *)
(* does not end at; only a bulk call, whose hosts are charged, renders a    *)
(* page that asks for something after its navigation.  A page is a shell,   *)
(* content, thin, a crash screen, missing or a challenge.                   *)
EXTENDS FetchPipeline
MCUrls == {"page", "board", "ported", "embed", "inner", "plain", "bad"}
MCHostOf == [u \in MCUrls |->
  CASE u \in {"board", "ported"} -> "boards" [] u \in {"page", "embed"} -> "site" [] OTHER -> u]
MCFlawOf == [u \in MCUrls |->
  CASE u = "ported" -> "blocked_port" [] u = "inner" -> "private_literal"
    [] u = "bad" -> "crlf_url" [] OTHER -> "none"]
MCSecure == MCUrls \ {"plain"}
MCApiOf == [u \in {"board", "ported"} |-> "page"]
MCJobOf == [u \in {"embed"} |-> "page"]
Page(code, js, text, challenged) == [code |-> code, js |-> js, text |-> text, challenged |-> challenged]
MCPages == {Page(200, TRUE, "empty", FALSE), Page(200, FALSE, "content", FALSE),
  Page(200, FALSE, "thin", FALSE), Page(200, FALSE, "crash", FALSE), Page(404, TRUE, "empty", FALSE),
  Page(200, TRUE, "empty", TRUE)}
MCRequests == {[output |-> "raw", allowRender |-> FALSE], [output |-> "summary", allowRender |-> TRUE]}
MCDeployments == {{}, {"renderer", "transformer"}}
MCSubresources == {[url |-> "page", kind |-> "post"], [url |-> "board", kind |-> "navigation"]}
MCMaxRequests == [wall \in BOOLEAN |-> IF wall THEN 2 ELSE 1]
============================================================================
