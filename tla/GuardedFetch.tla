---------------------------- MODULE GuardedFetch ----------------------------
(* One guarded HTTP fetch: the redirect loop, the checks made anew on       *)
(* every hop, the connection to an address of that hop's own look-up, the   *)
(* capped read of the body, and one deadline for all of it.  The network    *)
(* chooses every answer and may give none.                                  *)
EXTENDS Integers, FiniteSets, Sequences, SequencesExt

CONSTANTS
  Urls,        \* what a caller, a page or a Location header may name
  Locations,   \* those of them that the redirects of the network name
  NoUrl,       \* a response without a Location
  HostOf,      \* [Urls -> hosts]
  FlawOf,      \* [Urls -> Flaws]
  Secure,      \* the https ones among Urls
  Public, Private, Odd,  \* addresses a look-up may return; Odd: of no family
  MaxHops,
  MaxBytes

ASSUME FetchAssumption == MaxHops \in Nat /\ MaxBytes \in Nat

(* What is wrong with a URL: an error code of its parsing, a port of        *)
(* BLOCKED_PORTS, or a literal or local name for a private address.         *)
ParseFlaws == {"crlf_url", "invalid_url", "unsupported_scheme", "userinfo_url"}
Flaws == ParseFlaws \cup {"none", "blocked_port", "private_literal"}

VARIABLE get   \* the fetch in progress, or the last one

(* `hops` is the redirect chain, `aborted` the composed signal (its own     *)
(* timeout or the caller's), `contacts` every connection made: where to,    *)
(* to which address, with the caller's body or not, under which look-up.    *)
NoGet == [at |-> "done", url |-> NoUrl, first |-> NoUrl, post |-> FALSE, wall |-> FALSE,
          hops |-> <<>>, vetted |-> {}, address |-> "none", bytes |-> 0,
          aborted |-> FALSE, contacts |-> <<>>, code |-> "none", cut |-> "none"]

Waiting == {"lookup", "request", "body"}
Fetching == get.at # "done"
Contact(body) ==
  [url |-> get.url, address |-> get.address, vetted |-> get.vetted, body |-> body]

(* toRejectResult: the error's code, with the redirects so far.             *)
Rejected(code) == [get EXCEPT !.at = "done", !.code = code]

(* fetchGuarded up to the loop.  `wall`: whether the caller's signal is     *)
(* composed in, `aborted` whether it has fired already.                     *)
Begin(url, post, wall, aborted) ==
  LET start == [NoGet EXCEPT !.at = "hop", !.url = url, !.first = url, !.post = post,
                             !.wall = wall, !.aborted = wall /\ aborted]
  IN get' = IF FlawOf[url] \in ParseFlaws
            THEN [start EXCEPT !.at = "done", !.code = FlawOf[url]]
            ELSE start

(* The top of the loop and requestValidated: the port, then a literal or    *)
(* local name, then a look-up of this hop's own.                            *)
Validate ==
  /\ get.at = "hop"
  /\ get' = CASE get.aborted -> Rejected("timeout")
              [] FlawOf[get.url] = "blocked_port" -> Rejected("blocked_port")
              [] FlawOf[get.url] = "private_literal" -> Rejected("private_address")
              [] OTHER -> [get EXCEPT !.at = "lookup"]

(* Every address of the answer must be public; the first is connected to.   *)
Vet(answers) ==
  CASE answers = <<>> -> "dns_empty"
    [] \E i \in 1..Len(answers) :
         /\ answers[i] \in Odd
         /\ \A j \in 1..(i - 1) : answers[j] \in Public -> "dns_error"
    [] Range(answers) \cap Private # {} -> "private_address"
    [] OTHER -> "none"

Resolve(answers) ==
  /\ get.at = "lookup" /\ ~get.aborted
  /\ get' = IF Vet(answers) # "none" THEN Rejected(Vet(answers))
            ELSE [get EXCEPT !.at = "connect", !.vetted = Range(answers), !.address = Head(answers)]

ResolveFails ==
  /\ get.at = "lookup" /\ ~get.aborted
  /\ get' = Rejected("dns_error")

(* The request, to the checked address; a body only on the first hop.       *)
SendsBody == get.post /\ get.hops = <<>>

Connect ==
  /\ get.at = "connect"
  /\ get' = [get EXCEPT !.at = "request", !.contacts = Append(@, Contact(SendsBody))]

RequestFails ==
  /\ get.at = "request" /\ ~get.aborted
  /\ get' = Rejected("network_error")

Follow_ReusesAddress(target) ==
  CASE Len(get.hops) >= MaxHops -> Rejected("redirect_limit")
    [] FlawOf[target] # "none" \/ target \notin Secure -> Rejected("invalid_url")
    [] OTHER -> [get EXCEPT !.at = IF HostOf[target] = HostOf[get.url] THEN "connect" ELSE "hop",
                            !.url = target, !.hops = Append(@, target), !.vetted = {}]

(* A 3xx with a Location: the limit, then the target's own checks, and only *)
(* then is the hop recorded.                                                *)
Follow(target) ==
  CASE Len(get.hops) >= MaxHops -> Rejected("redirect_limit")
    [] FlawOf[target] \in ParseFlaws \ {"unsupported_scheme", "userinfo_url"} ->
         Rejected(FlawOf[target])
    [] get.url \in Secure /\ target \notin Secure -> Rejected("scheme_downgrade")
    [] FlawOf[target] \in ParseFlaws -> Rejected(FlawOf[target])
    [] OTHER -> [get EXCEPT !.at = "hop", !.url = target, !.hops = Append(@, target),
                            !.vetted = {}, !.address = "none"]

Redirect(target) ==
  /\ get.at = "request" /\ ~get.aborted
  /\ get' = Follow(target)

(* Any other answer is read, unless its encoding is unknown.                *)
Answer ==
  /\ get.at = "request" /\ ~get.aborted
  /\ get' \in {[get EXCEPT !.at = "body"], Rejected("unsupported_encoding")}

(* readCappedBody: a chunk, the cap, the end, a break after or before the   *)
(* first byte.                                                              *)
Chunk(n) ==
  /\ get.at = "body" /\ ~get.aborted
  /\ get' = IF get.bytes + n > MaxBytes
            THEN [get EXCEPT !.at = "done", !.bytes = MaxBytes, !.cut = "cap"]
            ELSE [get EXCEPT !.bytes = @ + n]

BodyEnds ==
  /\ get.at = "body" /\ ~get.aborted
  /\ get' = [get EXCEPT !.at = "done"]

BodyBreaks ==
  /\ get.at = "body" /\ ~get.aborted
  /\ get' = IF get.bytes > 0
            THEN [get EXCEPT !.at = "done", !.cut = "body_read_error"]
            ELSE Rejected("body_read_error")

(* The timer of this fetch or the caller's signal, and what it ends: the    *)
(* race of the look-up and of the request, and the stream of the body.      *)
Expire ==
  /\ Fetching /\ ~get.aborted
  /\ get' = [get EXCEPT !.aborted = TRUE]

Abort_NotTheBody ==
  /\ get.at \in Waiting \ {"body"} /\ get.aborted
  /\ get' = Rejected("timeout")
Abort ==
  /\ get.at \in Waiting /\ get.aborted
  /\ get' = Rejected("timeout")

Answers == {<<>>} \cup {<<a>> : a \in Public \cup Private \cup Odd}
                  \cup {<<a, b>> : a \in Public, b \in Public \cup Private \cup Odd}

Network ==
  \/ \E answers \in Answers : Resolve(answers)
  \/ ResolveFails
  \/ RequestFails
  \/ \E target \in Locations : Redirect(target)
  \/ Answer
  \/ \E n \in 1..2 : Chunk(n)
  \/ BodyEnds
  \/ BodyBreaks

(* The program's own steps: they never wait for the network.                *)
Machine == Validate \/ Connect \/ Abort

-----------------------------------------------------------------------------
Ok == get.code = "none"
Contacted == {HostOf[get.contacts[i].url] : i \in 1..Len(get.contacts)}
Reported == {HostOf[get.hops[i]] : i \in 1..Len(get.hops)}

(* Every connection of a redirect chain goes to a public address, and to    *)
(* one that the look-up made for that very hop returned: an answer that     *)
(* changes between two hops of one host is checked again.  The caller's     *)
(* body reaches the host it was meant for and no redirect target, not even  *)
(* one that redirects back.  Whatever the outcome, each host contacted is   *)
(* the one asked for or in the redirects that the result or the reject      *)
(* carries, and there are no more connections than hops and one.            *)
ConnectionsVetted ==
  /\ \A i \in 1..Len(get.contacts) :
       LET c == get.contacts[i] IN
       /\ c.vetted \subseteq Public /\ c.address \in c.vetted
       /\ c.body => get.post /\ i = 1 /\ c.url = get.first
  /\ Fetching \/ get.first = NoUrl \/ Contacted \subseteq Reported \cup {HostOf[get.first]}
  /\ Len(get.contacts) <= MaxHops + 1
=============================================================================
