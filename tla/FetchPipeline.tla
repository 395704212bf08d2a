--------------------------- MODULE FetchPipeline ---------------------------
(* One call of CaptatumUseCase.execute over the guarded fetcher: the board  *)
(* of a Tier-2 adapter, the Ashby embed, the Tier-1 fetch with its retry,   *)
(* the render, the transform, and the result stamped on the way.  A call of *)
(* captatum_bulk carries the wall's signal; the wall may fire at any time.  *)
EXTENDS GuardedFetch

CONSTANTS
  Boards, ApiOf,    \* board roots an adapter detects, and their list API
  Ported,           \* the boards whose URL has an explicit port
  Embeds, JobOf,    \* pages with ?ashby_jid=, and the job they embed
  Pages,            \* what a document or a rendered DOM can be found to be
  Requests,         \* [output, allowRender] of the calls checked
  Deployments,      \* subsets of {"renderer", "transformer"}
  Subresources,     \* [url, kind] a rendered page may ask for, once navigated to
  MaxRequests       \* bound on the requests of a rendered page, of a bulk call or not

(* The status, whether a browser is needed, what the text is like, and      *)
(* whether it is a challenge.                                               *)
Texts == {"content", "thin", "crash", "empty"}
ASSUME PagesAssumption ==
  Pages \subseteq [code : 200..599, js : BOOLEAN, text : Texts, challenged : BOOLEAN]

VARIABLE call
vars == <<get, call>>

(* A Result: what computeProvenanceHash covers, what the text is ("body")   *)
(* and is like ("text"), its errors, and what it tells of the network: the  *)
(* bytes, the final URL, the hosts of its redirects and of its render.      *)
NoResult == [tier |-> "none", code |-> 0, via |-> "none", js |-> FALSE, sha |-> "none",
             provider |-> "none", output |-> "raw", body |-> "page", text |-> "content",
             gated |-> FALSE, errors |-> {}, cut |-> FALSE, bytes |-> 0, egress |-> 0,
             final |-> NoUrl, redirects |-> {}, renderHosts |-> {}, hash |-> <<>>]

(* The state of a render is that of its main frame ("blank", "loaded",      *)
(* "dead"), whether the request in flight navigates it, and what the last   *)
(* navigation saw.  `read`, `victims` and `passed` are history: the bytes   *)
(* and hosts of the fetches, and the hosts that the redirects of a document *)
(* led through on the way to its end.                                       *)
Idle == [at |-> "idle", url |-> NoUrl, wall |-> FALSE, fired |-> FALSE,
         request |-> [output |-> "raw", allowRender |-> FALSE], deployed |-> {},
         tries |-> 0, asked |-> 0, frame |-> "blank", main |-> FALSE,
         seen |-> [final |-> NoUrl, redirects |-> {}], noted |-> {}, egress |-> 0,
         read |-> 0, victims |-> {}, passed |-> {}, res |-> NoResult]

Init == get = NoGet /\ call = Idle

(* What normalizeCaptatumInput lets through: http became https, and a URL   *)
(* that does not parse was refused before anything happened.                *)
Accepted == {u \in Secure : FlawOf[u] \notin ParseFlaws}

(* rejectPerEntryBulk keeps boards and embeds out of a bulk call.           *)
Dispatched(url) == url \notin Boards \cup Embeds

Signal(c) == c.wall
BeginTier1(c, url) ==
  /\ call' = [c EXCEPT !.at = "tier1", !.tries = @ + 1]
  /\ Begin(url, FALSE, Signal(c), c.fired)
EmbedOrTier1(c) ==
  IF c.url \in Embeds
  THEN call' = [c EXCEPT !.at = "embed"] /\ Begin(c.url, FALSE, Signal(c), c.fired)
  ELSE BeginTier1(c, c.url)

Execute(url, wall, request, deployed) ==
  LET c == [Idle EXCEPT !.url = url, !.wall = wall, !.request = request, !.deployed = deployed]
  IN /\ call.at = "idle"
     /\ wall => Dispatched(url)
     /\ IF url \in Boards \ Ported
        THEN call' = [c EXCEPT !.at = "board"] /\ Begin(ApiOf[url], FALSE, FALSE, FALSE)
        ELSE EmbedOrTier1(c)

(* The document fetch that just ended, in the history kept of a bulk call.  *)
Taken ==
  LET end == {HostOf[get.url]} IN
  IF call.wall
  THEN [call EXCEPT !.victims = @ \cup (Contacted \cap end), !.passed = @ \cup (Contacted \ end),
                    !.read = @ + IF Ok THEN get.bytes ELSE 0]
  ELSE call

Envelope(r) == <<r.tier, r.code, r.output, r.via, r.js, r.sha, r.provider>>
Stamp(r) == [r EXCEPT !.hash = Envelope(r)]
Done(c, r) == [c EXCEPT !.at = "done", !.res = r]

(* applyOutputMode up to the transformer: what is never summarised, and     *)
(* what cannot be.  A roster is returned whole.                             *)
Excerpt(r) == IF r.tier = "tier2" THEN "roster" ELSE "excerpt"
NotSummarised(c, r) ==
  r.gated \/ c.request.output = "raw" \/ r.code >= 400 \/ r.tier = "error"
Deliver(c, r) ==
  IF NotSummarised(c, r) THEN Done(c, Stamp([r EXCEPT !.output = "raw"]))
  ELSE IF "transformer" \notin c.deployed
  THEN Done(c, Stamp([r EXCEPT !.output = "raw", !.provider = "no provider", !.body = Excerpt(r)]))
  ELSE [c EXCEPT !.at = "transform", !.res = r]

(* stampContentQuality: a crash screen is demoted, a thin page is told.     *)
Judged(r) ==
  IF r.tier \notin {"tier1", "tier3"} \/ r.gated \/ r.code >= 400 THEN r
  ELSE IF r.tier = "tier3" /\ r.text = "crash"
  THEN [r EXCEPT !.tier = "error", !.errors = @ \cup {"render_app_error"}]
  ELSE IF r.text = "thin" THEN [r EXCEPT !.errors = @ \cup {"low_value_extraction"}]
  ELSE r

(* fetchAtsBoard and the adapter: a rejected, non-2xx, cut or unreadable    *)
(* answer is no board, and the page itself is fetched.                      *)
BoardRead(good) == Ok /\ get.cut = "none" /\ good
Roster == [NoResult EXCEPT !.tier = "tier2", !.code = 200, !.via = "tier2", !.sha = "roster",
                           !.body = "roster", !.bytes = get.bytes, !.cut = get.cut # "none",
                           !.egress = get.bytes, !.final = get.url, !.redirects = Reported]
TakeBoard(good) ==
  /\ call.at = "board" /\ ~Fetching
  /\ IF BoardRead(good)
     THEN call' = Deliver(Taken, Roster) /\ get' = NoGet
     ELSE EmbedOrTier1(Taken)

TakeEmbed(found) ==
  /\ call.at = "embed" /\ ~Fetching
  /\ BeginTier1(Taken, IF Ok /\ found THEN JobOf[call.url] ELSE call.url)

(* extractTier1FromFetchResult, for a fetched document and a rendered DOM.  *)
(* An error status is never a shell; a cut body is told.                    *)
Extract(page, sha, cut, bytes) ==
  LET failed == page.code >= 400 IN
  [NoResult EXCEPT !.tier = "tier1", !.code = page.code, !.text = page.text, !.sha = sha,
     !.via = IF failed THEN "tier1-error" ELSE "tier1", !.js = ~failed /\ page.js,
     !.cut = cut # "none", !.bytes = bytes, !.egress = bytes,
     !.errors = (IF failed THEN {"http_error"} ELSE {}) \cup ({cut} \ {"none"})]

(* stampAntibotChallenge.                                                   *)
Gated(page, r) ==
  IF page.challenged THEN [r EXCEPT !.gated = TRUE, !.errors = @ \cup {"antibot_challenge"}] ELSE r

(* maybeRender before the renderer is called.                               *)
MaybeRender(c, r) ==
  IF r.gated \/ ~r.js THEN Deliver(c, Judged(r))
  ELSE IF ~c.request.allowRender
  THEN Deliver(c, Judged([r EXCEPT !.tier = "render-blocked", !.via = "render-blocked"]))
  ELSE IF "renderer" \notin c.deployed
  THEN Deliver(c, Judged([r EXCEPT !.tier = "render-unavailable", !.via = "render-unavailable",
                                   !.errors = @ \cup {"render_unavailable"}]))
  ELSE [c EXCEPT !.at = "render", !.res = r]

RejectResult(c, code) ==
  Done(c, [NoResult EXCEPT !.tier = "error", !.via = "guarded-fetch", !.output = c.request.output,
                           !.errors = {code}, !.final = c.url, !.redirects = Reported])

(* The Tier-1 fetch has ended.  A body that broke before its first byte is  *)
(* fetched once more, but not under the wall; a second such end changes     *)
(* nothing.                                                                 *)
Retried == get.code = "body_read_error" /\ call.tries = 1 /\ ~call.wall
TakeTier1(page) ==
  /\ call.at = "tier1" /\ ~Fetching
  /\ IF Retried THEN BeginTier1(Taken, get.first)
     ELSE /\ get' = NoGet
          /\ call' = IF Ok
                     THEN MaybeRender(Taken, Stamp(Gated(page,
                            [Extract(page, "document", get.cut, get.bytes)
                               EXCEPT !.final = get.url, !.redirects = Reported])))
                     ELSE RejectResult(Taken, get.code)

(* A request of the page being rendered.  The first is the navigation to    *)
(* where the document was found; later ones may navigate the main frame     *)
(* again, or be a POST.                                                     *)
RenderRequests(request) ==
  /\ call.at = "render" /\ ~Fetching /\ get.first = NoUrl /\ call.asked < MaxRequests[call.wall]
  /\ call' = [call EXCEPT !.asked = @ + 1, !.main = request.kind = "navigation"]
  /\ Begin(request.url, request.kind = "post", TRUE, call.fired)

(* Its end.  A body that broke is counted and noted with the whole ones,    *)
(* but is rejected like a fetch that failed, of which nothing is noted.  A  *)
(* rejected navigation is fatal, any other is what the page is now.         *)
Fulfilled == Ok /\ get.cut # "body_read_error"
Counted ==
  IF ~Ok THEN call
  ELSE [call EXCEPT !.noted = @ \cup Reported \cup {HostOf[get.first]}, !.egress = @ + get.bytes,
                    !.read = @ + IF call.wall THEN get.bytes ELSE 0,
                    !.victims = @ \cup IF call.wall THEN Contacted ELSE {}]
Navigated(c) ==
  IF ~Fulfilled THEN [c EXCEPT !.frame = "dead"]
  ELSE [c EXCEPT !.frame = IF @ = "dead" THEN "dead" ELSE "loaded",
                 !.seen = [final |-> get.url, redirects |-> Reported]]

RenderNotes ==
  /\ call.at = "render" /\ ~Fetching /\ get.first # NoUrl
  /\ call' = IF call.main THEN Navigated(Counted) ELSE Counted
  /\ get' = NoGet

(* What maybeRender puts on the result before anything else, also when the  *)
(* render failed: its egress and its hosts.                                 *)
Surfaced(r) == [r EXCEPT !.egress = r.bytes + call.egress, !.renderHosts = call.noted]
RenderFailed(r, code) ==
  LET unavailable == code = "render_unavailable" IN
  [r EXCEPT !.tier = IF unavailable THEN "render-unavailable" ELSE "error",
            !.via = IF unavailable THEN "render-unavailable" ELSE "tier3-playwright",
            !.errors = @ \cup {code}]

(* Mutant: the hosts of the render are not carried over. *)
Promoted_DropsHosts(base, dom) ==
  LET kept == [dom EXCEPT !.errors = @ \cup base.errors, !.egress = base.egress]
  IN IF dom.code >= 400 THEN kept
     ELSE [kept EXCEPT !.tier = "tier3", !.js = TRUE, !.via = "tier3-playwright"]

(* promoteRenderedResult: the egress and the hosts of the render are        *)
(* carried over, final URL and redirects are those of the render's own      *)
(* navigation.                                                              *)
Promoted(base, dom) ==
  LET kept == [dom EXCEPT !.errors = @ \cup base.errors, !.egress = base.egress,
                          !.renderHosts = base.renderHosts]
  IN IF dom.code >= 400 THEN kept
     ELSE [kept EXCEPT !.tier = "tier3", !.js = TRUE, !.via = "tier3-playwright"]

(* The renderer answers; a request still in flight is aborted with it.      *)
RenderFails(code) ==
  /\ call.at = "render"
  /\ code = "render_unavailable" => call.asked = 0
  /\ call' = Deliver(call, Judged(RenderFailed(Surfaced(call.res), code)))
  /\ get' = NoGet

Rendered(page) ==
  LET base == Surfaced(call.res)
      dom  == [Extract(page, "dom", "none", 1)
                 EXCEPT !.final = call.seen.final, !.redirects = call.seen.redirects]
  IN /\ call.at = "render" /\ call.frame = "loaded" /\ ~page.challenged
     /\ call' = Deliver(call, Judged(IF dom.js /\ page.text = "empty"
                                     THEN RenderFailed(base, "render_empty")
                                     ELSE Promoted(base, dom)))
     /\ get' = NoGet

(* The transformer returns, degrades to its input, or throws.               *)
Transformed(outcome) ==
  /\ call.at = "transform"
  /\ LET r == call.res IN
     call' = Done(call, Stamp(
       CASE outcome \in {"throws", "none"} ->
              [r EXCEPT !.output = "raw", !.provider = "no provider", !.body = Excerpt(r),
                        !.errors = @ \cup IF outcome = "throws" THEN {"transform_failed"} ELSE {}]
         [] OTHER ->
              [r EXCEPT !.output = call.request.output, !.provider = "model", !.body = "summary",
                        !.errors = @ \cup IF outcome = "cut" THEN {"transform_truncated"} ELSE {}]))
  /\ UNCHANGED get

(* The wall of the bulk call; the composed signal of a fetch under way      *)
(* carries it.                                                              *)
WallFires ==
  /\ call.wall /\ ~call.fired /\ call.at \notin {"idle", "done"}
  /\ call' = [call EXCEPT !.fired = TRUE]
  /\ get' = IF Fetching THEN [get EXCEPT !.aborted = TRUE] ELSE get

Documents == {p \in Pages : p.text # "crash"}  \* only a render tells a crash screen

Starts ==
  \E url \in Accepted, wall \in BOOLEAN, request \in Requests, deployed \in Deployments :
    Execute(url, wall, request, deployed)
Requested ==
  \/ call.asked = 0 /\ RenderRequests([url |-> call.res.final, kind |-> "navigation"])
  \/ call.frame # "blank" /\ \E request \in Subresources : RenderRequests(request)
Answered ==
  \/ \E good \in BOOLEAN : TakeBoard(good)
  \/ \E found \in BOOLEAN : TakeEmbed(found)
  \/ \E page \in Documents : TakeTier1(page)
  \/ RenderNotes
RenderAnswers ==
  \/ \E code \in {"render_unavailable", "render_error"} : RenderFails(code)
  \/ \E page \in Pages : Rendered(page)
TransformAnswers == \E outcome \in {"ok", "cut", "none", "throws"} : Transformed(outcome)
Fetches == (Network \/ Machine \/ Expire) /\ UNCHANGED call

Next == \/ Starts \/ Requested \/ Answered \/ RenderAnswers \/ TransformAnswers \/ WallFires \/ Fetches

Spec == Init /\ [][Next]_vars

(* The program's own steps are taken, timers fire, a renderer and a         *)
(* transformer answer by their own time limits.  Nothing of the network.    *)
FairSpec ==
  /\ Spec
  /\ WF_vars(Machine /\ UNCHANGED call)
  /\ WF_vars(Expire /\ UNCHANGED call)
  /\ WF_vars(Answered)
  /\ WF_vars(RenderAnswers)
  /\ WF_vars(TransformAnswers)

-----------------------------------------------------------------------------
Returned == call.at = "done"

(* unionEgressHosts and mergeRenderEgressHosts: the hosts a seed counts     *)
(* against.                                                                 *)
Charged(url, r) == {HostOf[url], HostOf[r.final]} \cup r.redirects \cup r.renderHosts

(* The result says what it is.  A body that was cut is reported as cut      *)
(* whatever the tier, a roster arrives whole or not at all, and only the    *)
(* content of a page that was really read is summarised - no challenge,     *)
(* error page or crash screen, also when it only showed after the render.   *)
(* The provenance hash attests the result as returned: no field it covers   *)
(* changed after the last stamp.  And what the limits of a bulk call are    *)
(* computed from: a seed is fetched once; its egress is every byte of the   *)
(* fetches that succeeded; the hosts it is charged with include the one its *)
(* document was found at and all that a fulfilled request of its render     *)
(* reached, also when the render failed, and - unless a rendered page takes *)
(* the place of the document, which loses them - the hosts the document's   *)
(* redirects led through, those of a rejected fetch among them.  A request  *)
(* of a render that was rejected without a byte is not told of at all.      *)
ResultTruthful ==
  Returned =>
    LET r == call.res IN
    /\ r.cut => r.errors \cap {"cap", "body_read_error"} # {}
    /\ r.tier = "tier2" => r.body \in {"roster", "summary"}
    /\ r.body = "summary" <=> r.output # "raw" /\ r.via # "guarded-fetch"
    /\ r.body = "summary" => r.code \in 200..399 /\ ~r.gated /\ r.tier # "error"
    /\ r.text = "crash" /\ r.via = "tier3-playwright" => r.tier = "error"
    /\ r.via # "guarded-fetch" => r.hash = Envelope(r)
    /\ call.wall =>
         /\ call.tries <= 1 /\ r.egress = call.read
         /\ call.victims \subseteq Charged(call.url, r)
         /\ r.sha # "dom" => call.passed \subseteq Charged(call.url, r)

(* A call returns, whatever the network does: every fetch under it has its  *)
(* own timer, and no path waits for anything else.                          *)
CallEnds == call.at # "idle" ~> call.at = "done"
=============================================================================
