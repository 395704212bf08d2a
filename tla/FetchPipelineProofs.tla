------------------------- MODULE FetchPipelineProofs -------------------------
(* What one call of captatum relies on, for any URLs, pages, models and     *)
(* answers: every connection it makes is vetted, what it returns says what  *)
(* it is (FetchPipeline), a fetch under the global limiter keeps its        *)
(* deadline and the limiter is a slot pool (LimitingFetcher), its           *)
(* transform asks only models it may, loses no text and judges models by    *)
(* their record (ModelRouter), and what is said of an extracted answer is   *)
(* the truth about it (SchemaValidation).                                   *)
EXTENDS FetchPipeline, LimitingFetcher, ModelRouter, SchemaValidation, SequenceTheorems,
  FiniteSetTheorems, WellFoundedInduction, TLAPS

IsSeq(s) == \E S : s \in Seq(S)

(* What Append does to a sequence, whatever it holds.                       *)
LEMMA Appended ==
  ASSUME NEW s, IsSeq(s), NEW x
  PROVE  /\ IsSeq(Append(s, x)) /\ Len(s) \in Nat
         /\ Len(Append(s, x)) = Len(s) + 1 /\ Append(s, x)[Len(s) + 1] = x
         /\ \A i \in 1..Len(s) : Append(s, x)[i] = s[i]
<1>1. PICK S : s \in Seq(S)
  BY DEF IsSeq
<1>2. s \in Seq(S \cup {x})
  BY <1>1, SeqMonotonic
<1>3. /\ Append(s, x) \in Seq(S \cup {x}) /\ Len(Append(s, x)) = Len(s) + 1 /\ Len(s) \in Nat
      /\ Append(s, x)[Len(s) + 1] = x
      /\ \A i \in 1..Len(s) : Append(s, x)[i] = s[i]
  BY <1>2, AppendProperties, LenProperties
<1> QED
  BY <1>3 DEF IsSeq

(* A nonempty set of natural numbers has a least one.                       *)
LEMMA LeastNat ==
  ASSUME NEW S, S \subseteq Nat, S # {}
  PROVE  \E m \in S : \A k \in S : m <= k
<1>1. PICK m \in S : \A k \in S : ~(<<k, m>> \in OpToRel(<, Nat))
  BY NatLessThanWellFounded, WFMin
<1>2. ASSUME NEW k \in S, ~(m <= k) PROVE FALSE
  <2>1. k \in Nat /\ m \in Nat /\ k < m
    BY <1>2
  <2>2. <<k, m>> \in OpToRel(<, Nat)
    BY <2>1 DEF OpToRel
  <2> QED  BY <1>1, <2>2
<1> QED  BY <1>2

(* What is accepted of a look-up is public, and not empty.                  *)
LEMMA VettedIsPublic ==
  ASSUME NEW answers \in Answers, Vet(answers) = "none"
  PROVE  Range(answers) \subseteq Public /\ Head(answers) \in Range(answers)
<1>1. /\ answers # <<>> /\ Range(answers) \cap Private = {}
      /\ ~\E i \in 1..Len(answers) :
            answers[i] \in Odd /\ \A j \in 1..(i - 1) : answers[j] \in Public
  BY DEF Vet
<1>2. CASE \E a \in Public \cup Private \cup Odd : answers = <<a>>
  <2>1. PICK a \in Public \cup Private \cup Odd : answers = <<a>>
    BY <1>2
  <2>2. Len(answers) = 1 /\ answers[1] = a /\ Range(answers) = {a} /\ Head(answers) = a
    BY <2>1 DEF Range
  <2>3. a \notin Odd
    BY <1>1, <2>2
  <2> QED
    BY <1>1, <2>2, <2>3
<1>3. CASE \E a \in Public, b \in Public \cup Private \cup Odd : answers = <<a, b>>
  <2>1. PICK a \in Public, b \in Public \cup Private \cup Odd : answers = <<a, b>>
    BY <1>3
  <2>2. /\ Len(answers) = 2 /\ answers[1] = a /\ answers[2] = b /\ Range(answers) = {a, b}
        /\ Head(answers) = a
    BY <2>1 DEF Range
  <2>3. b \notin Odd
    BY <1>1, <2>2
  <2> QED
    BY <1>1, <2>2, <2>3
<1> QED
  BY <1>1, <1>2, <1>3 DEF Answers

-----------------------------------------------------------------------------
(* The invariant: beside what every connection made satisfies, that the one *)
(* about to be made will; and that there is at most one per hop, none yet   *)
(* for the hop under way before its request.                                *)
Fields == {"at", "url", "first", "post", "hops", "vetted", "address", "aborted", "contacts", "code",
           "bytes", "cut"}
Hop(g, url) == url = g.first \/ \E i \in 1..Len(g.hops) : g.hops[i] = url
GoodContact(g, i) ==
  LET c == g.contacts[i] IN
  /\ c.vetted \subseteq Public /\ c.address \in c.vetted
  /\ c.body => g.post /\ i = 1 /\ c.url = g.first
  /\ Hop(g, c.url)
GetInv(g) ==
  /\ Fields \subseteq DOMAIN g /\ IsSeq(g.contacts) /\ IsSeq(g.hops)
  /\ \A i \in 1..Len(g.contacts) : GoodContact(g, i)
  /\ Len(g.hops) <= MaxHops /\ Len(g.contacts) <= Len(g.hops) + 1
  /\ g.at \in {"hop", "lookup", "connect"} => Len(g.contacts) <= Len(g.hops)
  /\ g.at # "done" => Hop(g, g.url)
  /\ g.hops = <<>> => g.url = g.first
  /\ g.at = "connect" => g.vetted \subseteq Public /\ g.address \in g.vetted

(* A fetch that has just begun, or none.                                    *)
LEMMA Afresh ==
  ASSUME NEW g, Fields \subseteq DOMAIN g, g.contacts = <<>>, g.hops = <<>>,
         g.url = g.first, g.at \in {"hop", "done"}
  PROVE  GetInv(g)
<1>1. Len(<<>>) = 0 /\ <<>> \in Seq({})
  OBVIOUS
<1>2. IsSeq(<<>>)
  BY <1>1 DEF IsSeq
<1> QED
  BY <1>1, <1>2, FetchAssumption DEF GetInv, Hop

(* What only moves the fetch on within its hop, or ends it.                 *)
LEMMA SameHop ==
  ASSUME GetInv(get), NEW g, Fields \subseteq DOMAIN g,
         g.contacts = get.contacts, g.hops = get.hops, g.url = get.url, g.first = get.first,
         g.post = get.post,
         \/ g.at = "done"
         \/ g.at = get.at /\ g.vetted = get.vetted /\ g.address = get.address
         \/ g.at = "lookup" /\ get.at = "hop"
         \/ /\ g.at = "connect" /\ get.at = "lookup"
            /\ g.vetted \subseteq Public /\ g.address \in g.vetted
         \/ g.at = "body" /\ get.at = "request"
  PROVE  GetInv(g)
<1>1. \A i \in 1..Len(g.contacts) : GoodContact(g, i)
  BY DEF GetInv, GoodContact, Hop
<1>2. g.at # "done" => Hop(g, g.url)
  BY DEF GetInv, Hop
<1> QED
  BY <1>1, <1>2 DEF GetInv

-----------------------------------------------------------------------------
(* The steps of a fetch.                                                    *)

(* A rejected fetch is over.                                                *)
LEMMA RejectedKeeps == ASSUME GetInv(get), NEW code PROVE GetInv(Rejected(code))
<1> DEFINE g == Rejected(code)
<1>1. /\ Fields \subseteq DOMAIN g /\ g.at = "done"
      /\ g.contacts = get.contacts /\ g.hops = get.hops /\ g.url = get.url
      /\ g.first = get.first /\ g.post = get.post
  BY DEF Rejected, GetInv, Fields
<1> HIDE DEF g
<1>2. GetInv(g)
  BY <1>1, SameHop
<1> QED
  BY <1>2 DEF g

LEMMA BeginKeeps ==
  ASSUME NEW url, NEW post, NEW wall, NEW gone, Begin(url, post, wall, gone)
  PROVE  GetInv(get')
<1>1. /\ Fields \subseteq DOMAIN get' /\ get'.contacts = <<>> /\ get'.hops = <<>>
      /\ get'.url = get'.first /\ get'.at \in {"hop", "done"}
  BY DEF Begin, NoGet, Fields
<1> QED
  BY <1>1, Afresh

LEMMA ValidateKeeps == ASSUME GetInv(get), Validate PROVE GetInv(get')
<1> DEFINE g == [get EXCEPT !.at = "lookup"]
<1>1. get.at = "hop" /\ (get' = g \/ \E code : get' = Rejected(code))
  BY DEF Validate
<1>2. /\ Fields \subseteq DOMAIN g /\ g.at = "lookup"
      /\ g.contacts = get.contacts /\ g.hops = get.hops /\ g.url = get.url
      /\ g.first = get.first /\ g.post = get.post
  BY DEF GetInv, Fields
<1> HIDE DEF g
<1>3. GetInv(g)
  BY <1>1, <1>2, SameHop
<1> QED
  BY <1>1, <1>3, RejectedKeeps

LEMMA ResolveKeeps ==
  ASSUME GetInv(get), NEW answers \in Answers, Resolve(answers) PROVE GetInv(get')
<1> DEFINE g == [get EXCEPT !.at = "connect", !.vetted = Range(answers), !.address = Head(answers)]
<1>1. CASE Vet(answers) # "none"
  BY <1>1, RejectedKeeps DEF Resolve
<1>2. CASE Vet(answers) = "none"
  <2>1. get' = g /\ get.at = "lookup"
    BY <1>2 DEF Resolve
  <2>2. Range(answers) \subseteq Public /\ Head(answers) \in Range(answers)
    BY <1>2, VettedIsPublic
  <2>3. /\ Fields \subseteq DOMAIN g /\ g.at = "connect"
        /\ g.contacts = get.contacts /\ g.hops = get.hops /\ g.url = get.url
        /\ g.first = get.first /\ g.post = get.post
        /\ g.vetted = Range(answers) /\ g.address = Head(answers)
    BY DEF GetInv, Fields
  <2> HIDE DEF g
  <2> QED
    BY <2>1, <2>2, <2>3, SameHop
<1> QED
  BY <1>1, <1>2

(* The connection that is made is one more, and a good one.                 *)
LEMMA ConnectKeeps == ASSUME GetInv(get), Connect PROVE GetInv(get')
<1> DEFINE c == Contact(SendsBody)
           g == [get EXCEPT !.at = "request", !.contacts = Append(@, c)]
<1>1. get.at = "connect" /\ get' = g
  BY DEF Connect
<1>2. /\ Fields \subseteq DOMAIN g /\ g.at = "request" /\ g.contacts = Append(get.contacts, c)
      /\ g.hops = get.hops /\ g.url = get.url /\ g.first = get.first /\ g.post = get.post
  BY DEF GetInv, Fields
<1>3. /\ c.url = get.url /\ c.address = get.address /\ c.vetted = get.vetted
      /\ c.body => get.post /\ get.hops = <<>>
  BY DEF Contact, SendsBody
<1> HIDE DEF c, g
<1>4. /\ IsSeq(g.contacts) /\ Len(get.contacts) \in Nat
      /\ Len(g.contacts) = Len(get.contacts) + 1 /\ g.contacts[Len(get.contacts) + 1] = c
      /\ \A i \in 1..Len(get.contacts) : g.contacts[i] = get.contacts[i]
  BY <1>2, Appended DEF GetInv
<1>5. Len(get.contacts) <= Len(get.hops) /\ Len(get.hops) \in Nat
  <2>1. Len(get.hops) \in Nat
    BY Appended DEF GetInv
  <2> QED
    BY <1>1, <2>1 DEF GetInv
<1>6. \A i \in 1..Len(g.contacts) : GoodContact(g, i)
  <2> TAKE i \in 1..Len(g.contacts)
  <2>1. CASE i \in 1..Len(get.contacts)
    <3>1. GoodContact(get, i) /\ g.contacts[i] = get.contacts[i]
      BY <1>4, <2>1 DEF GetInv
    <3> QED
      BY <1>2, <3>1 DEF GoodContact, Hop
  <2>2. CASE i = Len(get.contacts) + 1
    <3>1. g.contacts[i] = c
      BY <1>4, <2>2
    <3>2. get.vetted \subseteq Public /\ get.address \in get.vetted /\ Hop(get, get.url)
      BY <1>1 DEF GetInv
    <3>3. c.body => i = 1 /\ get.url = get.first
      <4>1. get.hops = <<>> => Len(get.hops) = 0 /\ get.url = get.first
        BY DEF GetInv
      <4> QED
        BY <1>3, <1>4, <1>5, <2>2, <4>1
    <3> QED
      BY <1>2, <1>3, <3>1, <3>2, <3>3 DEF GoodContact, Hop
  <2> QED
    BY <1>4, <2>1, <2>2
<1>7. Hop(g, g.url)
  BY <1>1, <1>2 DEF GetInv, Hop
<1>8. Len(g.contacts) <= Len(g.hops) + 1
  BY <1>2, <1>4, <1>5
<1> QED
  BY <1>1, <1>2, <1>4, <1>6, <1>7, <1>8 DEF GetInv

(* A redirect that is followed is one more hop, without a connection yet.   *)
LEMMA RedirectKeeps == ASSUME GetInv(get), NEW target, Redirect(target) PROVE GetInv(get')
<1> DEFINE g == [get EXCEPT !.at = "hop", !.url = target, !.hops = Append(@, target),
                            !.vetted = {}, !.address = "none"]
<1>1. CASE \E code : get' = Rejected(code)
  BY <1>1, RejectedKeeps
<1>2. CASE ~\E code : get' = Rejected(code)
  <2>1. get' = g /\ ~(Len(get.hops) >= MaxHops)
    BY <1>2 DEF Redirect, Follow
  <2>2. /\ Fields \subseteq DOMAIN g /\ g.at = "hop" /\ g.contacts = get.contacts
        /\ g.hops = Append(get.hops, target) /\ g.url = target /\ g.first = get.first
        /\ g.post = get.post
    BY DEF GetInv, Fields
  <2> HIDE DEF g
  <2>3. /\ IsSeq(g.hops) /\ Len(get.hops) \in Nat /\ Len(g.hops) = Len(get.hops) + 1
        /\ g.hops[Len(get.hops) + 1] = target
        /\ \A i \in 1..Len(get.hops) : g.hops[i] = get.hops[i]
    BY <2>2, Appended DEF GetInv
  <2>4. Hop(g, target) /\ \A url : Hop(get, url) => Hop(g, url)
    BY <2>2, <2>3 DEF Hop
  <2>5. \A i \in 1..Len(g.contacts) : GoodContact(g, i)
    BY <2>2, <2>4 DEF GetInv, GoodContact
  <2>6. Len(g.hops) <= MaxHops
    BY <2>1, <2>3, FetchAssumption
  <2>7. Len(g.contacts) <= Len(g.hops)
    BY <2>2, <2>3 DEF GetInv
  <2>8. IsSeq(g.contacts) /\ Len(g.contacts) \in Nat
    BY <2>2, Appended DEF GetInv
  <2>9. g.hops # <<>>
    <3>1. Len(<<>>) = 0
      OBVIOUS
    <3> QED
      BY <2>3, <3>1
  <2> QED
    BY <2>1, <2>2, <2>3, <2>4, <2>5, <2>6, <2>7, <2>8, <2>9 DEF GetInv
<1> QED
  BY <1>1, <1>2

(* The rest moves a fetch within its hop.                                   *)
LEMMA FetchKeeps == ASSUME GetInv(get), Network \/ Machine \/ Expire PROVE GetInv(get')
<1>1. ASSUME NEW g, Fields \subseteq DOMAIN g, g.contacts = get.contacts, g.hops = get.hops,
             g.url = get.url, g.first = get.first, g.post = get.post,
             g.vetted = get.vetted, g.address = get.address,
             g.at \in {"done", get.at} \/ (g.at = "body" /\ get.at = "request")
      PROVE  GetInv(g)
  BY <1>1, SameHop
<1>2. ASSUME NEW n, Chunk(n) PROVE GetInv(get')
  <2> DEFINE full == [get EXCEPT !.at = "done", !.bytes = MaxBytes, !.cut = "cap"]
             more == [get EXCEPT !.bytes = @ + n]
  <2>1. get' = full \/ get' = more
    BY <1>2 DEF Chunk
  <2>2. GetInv(full)
    BY <1>1 DEF GetInv, Fields
  <2>3. GetInv(more)
    BY <1>1 DEF GetInv, Fields
  <2> QED
    BY <2>1, <2>2, <2>3
<1>3. CASE BodyEnds
  <2>1. GetInv([get EXCEPT !.at = "done"])
    BY <1>1 DEF GetInv, Fields
  <2> QED
    BY <1>3, <2>1 DEF BodyEnds
<1>4. CASE BodyBreaks
  <2>1. GetInv([get EXCEPT !.at = "done", !.cut = "body_read_error"])
    BY <1>1 DEF GetInv, Fields
  <2> QED
    BY <1>4, <2>1, RejectedKeeps DEF BodyBreaks
<1>5. CASE Answer
  <2>1. get.at = "request" => GetInv([get EXCEPT !.at = "body"])
    BY <1>1 DEF GetInv, Fields
  <2> QED
    BY <1>5, <2>1, RejectedKeeps DEF Answer
<1>6. CASE Expire
  <2>1. GetInv([get EXCEPT !.aborted = TRUE])
    BY <1>1 DEF GetInv, Fields
  <2> QED
    BY <1>6, <2>1 DEF Expire
<1>7. CASE ResolveFails \/ RequestFails \/ Abort
  BY <1>7, RejectedKeeps DEF ResolveFails, RequestFails, Abort
<1> QED
  BY <1>2, <1>3, <1>4, <1>5, <1>6, <1>7, ValidateKeeps, ResolveKeeps, ConnectKeeps, RedirectKeeps
  DEF Network, Machine

-----------------------------------------------------------------------------
(* All that the pipeline does to a fetch.                                   *)
Begun == \E url, post, wall, gone : Begin(url, post, wall, gone)
Handled ==
  Begun \/ get' = NoGet \/ get' = get \/ get' = [get EXCEPT !.aborted = TRUE]

LEMMA HandledKeeps == ASSUME GetInv(get), Handled PROVE GetInv(get')
<1>1. CASE Begun
  BY <1>1, BeginKeeps DEF Begun
<1>2. GetInv(NoGet)
  <2>1. /\ Fields \subseteq DOMAIN NoGet /\ NoGet.contacts = <<>> /\ NoGet.hops = <<>>
        /\ NoGet.url = NoGet.first /\ NoGet.at = "done"
    BY DEF NoGet, Fields
  <2> QED
    BY <2>1, Afresh
<1>3. GetInv([get EXCEPT !.aborted = TRUE])
  <2> DEFINE g == [get EXCEPT !.aborted = TRUE]
  <2>1. /\ Fields \subseteq DOMAIN g /\ g.at = get.at
        /\ g.contacts = get.contacts /\ g.hops = get.hops /\ g.url = get.url
        /\ g.first = get.first /\ g.post = get.post
        /\ g.vetted = get.vetted /\ g.address = get.address
    BY DEF GetInv, Fields
  <2> HIDE DEF g
  <2>2. GetInv(g)
    BY <2>1, SameHop
  <2> QED
    BY <2>2 DEF g
<1> QED
  BY <1>1, <1>2, <1>3 DEF Handled

(* Tier 1, and what leads to it, begins a fetch.                            *)
LEMMA Tier1Begins == ASSUME NEW c, NEW url, BeginTier1(c, url) PROVE Begun
  BY DEF BeginTier1, Begun
LEMMA EmbedBegins == ASSUME NEW c, EmbedOrTier1(c) PROVE Begun
<1>1. CASE c.url \in Embeds
  BY <1>1 DEF EmbedOrTier1, Begun
<1>2. CASE c.url \notin Embeds
  BY <1>2, Tier1Begins DEF EmbedOrTier1
<1> QED
  BY <1>1, <1>2

LEMMA PipelineHandles ==
  ASSUME Starts \/ Requested \/ Answered \/ RenderAnswers \/ TransformAnswers \/ WallFires
  PROVE  Handled
<1>1. ASSUME NEW url, NEW wall, NEW request, NEW deployed, Execute(url, wall, request, deployed)
      PROVE  Handled
  <2> DEFINE c == [Idle EXCEPT !.url = url, !.wall = wall, !.request = request,
                               !.deployed = deployed]
  <2>1. Begun
    <3>1. CASE url \in Boards \ Ported
      BY <1>1, <3>1 DEF Execute, Begun
    <3>2. CASE url \notin Boards \ Ported
      <4>1. EmbedOrTier1(c)
        BY <1>1, <3>2, Zenon DEF Execute
      <4> QED
        BY <4>1, EmbedBegins
    <3> QED
      BY <3>1, <3>2
  <2> QED
    BY <2>1 DEF Handled
<1>2. ASSUME NEW good, TakeBoard(good) PROVE Handled
  BY <1>2, EmbedBegins, Zenon DEF TakeBoard, Handled
<1>3. ASSUME NEW found, TakeEmbed(found) PROVE Handled
  BY <1>3, Tier1Begins, Zenon DEF TakeEmbed, Handled
<1>4. ASSUME NEW page, TakeTier1(page) PROVE Handled
  BY <1>4, Tier1Begins, Zenon DEF TakeTier1, Handled
<1>5. CASE RenderNotes \/ RenderAnswers
  BY <1>5, Zenon DEF RenderNotes, RenderAnswers, RenderFails, Rendered, Handled
<1>6. CASE TransformAnswers
  BY <1>6, Zenon DEF TransformAnswers, Transformed, Handled
<1>7. CASE WallFires
  BY <1>7, Zenon DEF WallFires, Handled
<1>8. ASSUME NEW request, RenderRequests(request) PROVE Handled
  BY <1>8, Zenon DEF RenderRequests, Begun, Handled
<1> QED
  BY <1>1, <1>2, <1>3, <1>4, <1>5, <1>6, <1>7, <1>8, Zenon DEF Starts, Requested, Answered

LEMMA GetInductive == GetInv(get) /\ [Next]_vars => GetInv(get)'
<1> SUFFICES ASSUME GetInv(get), [Next]_vars PROVE GetInv(get')
  OBVIOUS
<1>1. CASE Fetches
  BY <1>1, FetchKeeps DEF Fetches
<1>2. CASE UNCHANGED vars
  BY <1>2 DEF vars
<1>3. CASE Starts \/ Requested \/ Answered \/ RenderAnswers \/ TransformAnswers \/ WallFires
  BY <1>3, PipelineHandles, HandledKeeps
<1> QED
  BY <1>1, <1>2, <1>3, Zenon DEF Next

LEMMA GetInitially == ASSUME Init PROVE GetInv(get)
<1>1. /\ Fields \subseteq DOMAIN get /\ get.contacts = <<>> /\ get.hops = <<>>
      /\ get.url = get.first /\ get.at = "done"
  BY DEF Init, NoGet, Fields
<1> QED
  BY <1>1, Afresh

(* Every host contacted is the first one or a hop's.                        *)
LEMMA ContactedAreHops ==
  ASSUME GetInv(get)
  PROVE  Contacted \subseteq Reported \cup {HostOf[get.first]}
<1> SUFFICES ASSUME NEW i \in 1..Len(get.contacts)
             PROVE  HostOf[get.contacts[i].url] \in Reported \cup {HostOf[get.first]}
  BY DEF Contacted
<1>1. Hop(get, get.contacts[i].url)
  BY DEF GetInv, GoodContact
<1> QED  BY <1>1 DEF Hop, Reported

(* For any URLs, any chain of redirects up to MAX_REDIRECTS and any answers *)
(* of the resolver: every connection fetchGuarded makes, for a tier, an     *)
(* adapter, a render or a retry, goes to a public address that the look-up  *)
(* of its own hop returned; only the first carries the caller's body; and   *)
(* every host connected to is the one asked for or in the chain reported.   *)
THEOREM EveryConnectionVetted == Spec => []ConnectionsVetted
<1>1. Init => GetInv(get)
  BY GetInitially
<1>2. GetInv(get) => ConnectionsVetted
  <2> SUFFICES ASSUME GetInv(get) PROVE ConnectionsVetted
    OBVIOUS
  <2>1. \A i \in 1..Len(get.contacts) :
          LET c == get.contacts[i] IN
          /\ c.vetted \subseteq Public /\ c.address \in c.vetted
          /\ c.body => get.post /\ i = 1 /\ c.url = get.first
    BY DEF GetInv, GoodContact
  <2>2. Contacted \subseteq Reported \cup {HostOf[get.first]}
    BY ContactedAreHops
  <2>3. Len(get.contacts) <= MaxHops + 1
    <3>1. /\ Len(get.contacts) \in Nat /\ Len(get.hops) \in Nat
          /\ Len(get.hops) <= MaxHops /\ Len(get.contacts) <= Len(get.hops) + 1
      BY Appended DEF GetInv
    <3> QED
      BY <3>1, FetchAssumption
  <2> QED
    BY <2>1, <2>2, <2>3 DEF ConnectionsVetted
<1> QED
  BY <1>1, <1>2, GetInductive, PTL DEF Spec

-----------------------------------------------------------------------------
(* The result says what it is.  What of a fetch matters to it, beside the   *)
(* connections: how many bytes were read, and what cut them.                *)
ReadInv(g) == g.bytes \in Nat /\ g.cut \in {"none", "cap", "body_read_error"}

LEMMA FetchReads ==
  ASSUME GetInv(get), ReadInv(get), Network \/ Machine \/ Expire
  PROVE  ReadInv(get') /\ get'.first = get.first
<1>1. Fields \subseteq DOMAIN get /\ get.bytes \in Nat
  BY DEF GetInv, ReadInv
<1>2. ASSUME NEW code, get' = Rejected(code) PROVE ReadInv(get') /\ get'.first = get.first
  BY <1>1, <1>2 DEF Rejected, ReadInv, Fields
<1>3. ASSUME NEW n \in 1..2, Chunk(n) PROVE ReadInv(get') /\ get'.first = get.first
  BY <1>1, <1>3, FetchAssumption DEF Chunk, ReadInv, Fields
<1>4. CASE BodyEnds
  BY <1>1, <1>4 DEF BodyEnds, ReadInv, Fields
<1>5. CASE BodyBreaks
  BY <1>1, <1>2, <1>5 DEF BodyBreaks, ReadInv, Fields
<1>6. CASE Answer
  BY <1>1, <1>2, <1>6 DEF Answer, ReadInv, Fields
<1>7. CASE Expire
  BY <1>1, <1>7 DEF Expire, ReadInv, Fields
<1>8. CASE ResolveFails \/ RequestFails \/ Abort
  BY <1>2, <1>8 DEF ResolveFails, RequestFails, Abort
<1>9. CASE Validate
  BY <1>1, <1>2, <1>9 DEF Validate, ReadInv, Fields
<1>10. CASE Connect
  BY <1>1, <1>10 DEF Connect, ReadInv, Fields
<1>11. ASSUME NEW answers, Resolve(answers) PROVE ReadInv(get') /\ get'.first = get.first
  BY <1>1, <1>2, <1>11 DEF Resolve, ReadInv, Fields
<1>12. ASSUME NEW target, Redirect(target) PROVE ReadInv(get') /\ get'.first = get.first
  BY <1>1, <1>2, <1>12 DEF Redirect, Follow, ReadInv, Fields
<1> QED  BY <1>3, <1>4, <1>5, <1>6, <1>7, <1>8, <1>9, <1>10, <1>11, <1>12 DEF Network, Machine

LEMMA HandledReads == ASSUME GetInv(get), ReadInv(get), Handled PROVE ReadInv(get')
<1>1. ReadInv(NoGet)
  BY DEF ReadInv, NoGet
<1>2. ReadInv([get EXCEPT !.aborted = TRUE])
  BY DEF ReadInv, GetInv, Fields
<1>3. CASE Begun
  <2>1. PICK url, post, wall, gone : Begin(url, post, wall, gone)
    BY <1>3 DEF Begun
  <2> QED  BY <2>1 DEF Begin, ReadInv, NoGet
<1> QED  BY <1>1, <1>2, <1>3 DEF Handled

LEMMA BeginsAt ==
  ASSUME NEW url, NEW post, NEW wall, NEW gone, Begin(url, post, wall, gone)
  PROVE  get'.first = url
BY DEF Begin, NoGet

-----------------------------------------------------------------------------
(* A result on its way (Draft), what a render made of it (Shown), what a    *)
(* crash screen became, and the books of a bulk call against it.            *)
ResultFields ==
  {"tier", "code", "via", "js", "sha", "provider", "output", "body", "text", "gated",
   "errors", "cut", "bytes", "egress", "final", "redirects", "renderHosts", "hash"}
Told == {"cap", "body_read_error"}
Draft(r) ==
  /\ ResultFields \subseteq DOMAIN r
  /\ r.cut => r.errors \cap Told # {}
  /\ r.output = "raw" /\ r.body \in {"page", "roster"}
  /\ r.tier = "tier2" => r.body = "roster"
  /\ r.code \in 200..599 /\ r.via # "guarded-fetch"
  /\ r.bytes \in Nat
Shown(r) ==
  r.via = "tier3-playwright" =>
    r.tier = "error" \/ (r.tier = "tier3" /\ ~r.gated /\ r.code < 400)
CrashTold(r) == r.text = "crash" /\ r.via = "tier3-playwright" => r.tier = "error"
Booked(c, r) ==
  c.wall => /\ c.tries <= 1 /\ r.egress = c.read
            /\ c.victims \subseteq Charged(c.url, r)
            /\ r.sha # "dom" => c.passed \subseteq Charged(c.url, r)
SameBooks(q, r) ==
  /\ q.egress = r.egress /\ q.sha = r.sha /\ q.final = r.final
  /\ q.redirects = r.redirects /\ q.renderHosts = r.renderHosts

(* The books while the page is rendered.  What a rendered page will not     *)
(* tell is the way to the document: not its end, once the main frame has    *)
(* been there.                                                              *)
Pending(c, r) ==
  c.wall => /\ c.tries <= 1 /\ r.bytes + c.egress = c.read
            /\ c.victims \subseteq {HostOf[c.url], HostOf[r.final]} \cup c.noted
            /\ c.passed \subseteq {HostOf[c.url], HostOf[r.final]} \cup r.redirects
Framed(c, g) ==
  /\ c.frame \in {"blank", "loaded", "dead"}
  /\ c.frame = "loaded" => HostOf[c.res.final] \in c.noted
  /\ c.frame = "blank" =>
       IF c.asked = 0 THEN g.first = NoUrl ELSE c.main = TRUE /\ g.first = c.res.final

Honest(c, r) ==
  /\ r.cut => r.errors \cap Told # {}
  /\ r.tier = "tier2" => r.body \in {"roster", "summary"}
  /\ r.body = "summary" <=> r.output # "raw" /\ r.via # "guarded-fetch"
  /\ r.body = "summary" => r.code \in 200..399 /\ ~r.gated /\ r.tier # "error"
  /\ CrashTold(r)
  /\ r.via # "guarded-fetch" => r.hash = Envelope(r)
  /\ Booked(c, r)

(* The invariant, by the place of the call.                                 *)
CallFields ==
  {"at", "url", "wall", "fired", "request", "deployed", "tries", "asked", "frame", "main",
   "seen", "noted", "egress", "read", "victims", "passed", "res"}
Fresh(c) == c.egress = 0 /\ c.asked = 0 /\ c.frame = "blank" /\ c.noted = {}
Unfinished == {"board", "embed", "tier1"}
CallOK(c, g) ==
  /\ CallFields \subseteq DOMAIN c /\ c.read \in Nat /\ c.egress \in Nat
  /\ c.at \in Unfinished => Fresh(c)
  /\ c.wall => c.at \notin {"board", "embed"}
  /\ c.wall /\ c.at = "tier1" =>
       g.first = c.url /\ c.tries = 1 /\ c.read = 0 /\ c.victims = {} /\ c.passed = {}
  /\ c.at = "render" =>
       /\ Draft(c.res) /\ c.res.via # "tier3-playwright" /\ c.res.sha = "document"
       /\ Pending(c, c.res) /\ Framed(c, g)
  /\ c.at = "transform" =>
       /\ Draft(c.res) /\ ~NotSummarised(c, c.res) /\ CrashTold(c.res)
       /\ Booked(c, c.res)
  /\ c.at = "done" => Honest(c, c.res)

PipelineInv == GetInv(get) /\ ReadInv(get) /\ CallOK(call, get)

-----------------------------------------------------------------------------
(* What the steps of a result do to it.                                     *)
LEMMA JudgedKeeps ==
  ASSUME NEW r, Draft(r), Shown(r)
  PROVE  /\ Draft(Judged(r)) /\ CrashTold(Judged(r))
         /\ SameBooks(Judged(r), r)
<1>1. CASE r.tier \notin {"tier1", "tier3"} \/ r.gated \/ r.code >= 400
  BY <1>1 DEF Judged, Draft, Shown, CrashTold, SameBooks
<1>2. CASE ~(r.tier \notin {"tier1", "tier3"} \/ r.gated \/ r.code >= 400)
  <2> DEFINE crashed == [r EXCEPT !.tier = "error", !.errors = @ \cup {"render_app_error"}]
             thin == [r EXCEPT !.errors = @ \cup {"low_value_extraction"}]
  <2>1. Draft(crashed) /\ CrashTold(crashed) /\ SameBooks(crashed, r)
    BY DEF Draft, CrashTold, ResultFields, SameBooks
  <2>2. Draft(thin) /\ (r.text = "thin" => CrashTold(thin)) /\ SameBooks(thin, r)
    BY DEF Draft, CrashTold, ResultFields, SameBooks
  <2>3. ~(r.tier = "tier3" /\ r.text = "crash") => CrashTold(r) /\ SameBooks(r, r)
    BY DEF CrashTold, Shown, SameBooks
  <2> HIDE DEF crashed, thin
  <2>4. \/ Judged(r) = crashed
        \/ Judged(r) = thin /\ r.text = "thin"
        \/ Judged(r) = r /\ ~(r.tier = "tier3" /\ r.text = "crash")
    BY <1>2 DEF Judged, crashed, thin
  <2> QED  BY <2>1, <2>2, <2>3, <2>4
<1> QED  BY <1>1, <1>2

(* A draft that is stamped and returned is honest.                          *)
LEMMA DoneHonest ==
  ASSUME NEW c, NEW g, CallFields \subseteq DOMAIN c, c.read \in Nat, c.egress \in Nat,
         NEW r, ResultFields \subseteq DOMAIN r, Honest(c, Stamp(r))
  PROVE  CallOK(Done(c, Stamp(r)), g)
<1> DEFINE s == Stamp(r)
           d == Done(c, s)
<1>1. /\ CallFields \subseteq DOMAIN d /\ d.at = "done" /\ d.res = s /\ d.read = c.read
      /\ d.egress = c.egress /\ d.wall = c.wall /\ d.tries = c.tries /\ d.victims = c.victims
      /\ d.passed = c.passed /\ d.url = c.url
  BY DEF Done, CallFields
<1> HIDE DEF d, s
<1>2. Honest(d, s)
  <2>1. Honest(c, s)
    BY DEF s
  <2>2. Booked(d, s)
    BY <1>1, <2>1 DEF Honest, Booked
  <2> QED  BY <2>1, <2>2 DEF Honest
<1>3. CallOK(d, g)
  BY <1>1, <1>2 DEF CallOK, Unfinished
<1> QED  BY <1>3 DEF d, s

LEMMA StampedHonest ==
  ASSUME NEW c, NEW r, ResultFields \subseteq DOMAIN r,
         r.cut => r.errors \cap Told # {},
         r.tier = "tier2" => r.body \in {"roster", "summary"},
         r.body = "summary" <=> r.output # "raw" /\ r.via # "guarded-fetch",
         r.body = "summary" => r.code \in 200..399 /\ ~r.gated /\ r.tier # "error",
         CrashTold(r), Booked(c, r)
  PROVE  Honest(c, Stamp(r))
<1> DEFINE s == Stamp(r)
<1>1. /\ s.tier = r.tier /\ s.code = r.code /\ s.via = r.via /\ s.js = r.js /\ s.sha = r.sha
      /\ s.provider = r.provider /\ s.output = r.output /\ s.body = r.body /\ s.text = r.text
      /\ s.gated = r.gated /\ s.errors = r.errors /\ s.cut = r.cut /\ s.egress = r.egress
      /\ s.final = r.final /\ s.redirects = r.redirects /\ s.renderHosts = r.renderHosts
      /\ s.hash = Envelope(r)
  BY DEF Stamp, ResultFields
<1> HIDE DEF s
<1>2. s.hash = Envelope(s)
  BY <1>1 DEF Envelope
<1>3. CrashTold(s) /\ Booked(c, s)
  BY <1>1 DEF CrashTold, Booked, Charged
<1>4. Honest(c, s)
  BY <1>1, <1>2, <1>3 DEF Honest
<1> QED  BY <1>4 DEF s

LEMMA DeliverKeeps ==
  ASSUME NEW c, NEW g, CallFields \subseteq DOMAIN c, c.read \in Nat, c.egress \in Nat,
         NEW r, Draft(r), CrashTold(r), Booked(c, r)
  PROVE  CallOK(Deliver(c, r), g)
<1>1. CASE NotSummarised(c, r)
  <2> DEFINE q == [r EXCEPT !.output = "raw"]
  <2>1. /\ ResultFields \subseteq DOMAIN q /\ q.output = "raw" /\ q.body = r.body /\ q.cut = r.cut
        /\ q.errors = r.errors /\ q.tier = r.tier /\ q.text = r.text /\ q.via = r.via
        /\ SameBooks(q, r)
    BY DEF Draft, ResultFields, SameBooks
  <2>2. Deliver(c, r) = Done(c, Stamp(q))
    BY <1>1 DEF Deliver
  <2> HIDE DEF q
  <2>3. Honest(c, Stamp(q))
    <3>1. q.body \in {"page", "roster"} /\ (q.tier = "tier2" => q.body = "roster")
          /\ (q.cut => q.errors \cap Told # {}) /\ CrashTold(q) /\ Booked(c, q)
      BY <2>1 DEF Draft, CrashTold, SameBooks, Booked, Charged
    <3> QED  BY <2>1, <3>1, StampedHonest
  <2>4. CallOK(Done(c, Stamp(q)), g)
    BY <2>1, <2>3, DoneHonest
  <2> QED  BY <2>2, <2>4
<1>2. CASE ~NotSummarised(c, r) /\ "transformer" \notin c.deployed
  <2> DEFINE q == [r EXCEPT !.output = "raw", !.provider = "no provider", !.body = Excerpt(r)]
  <2>1. /\ ResultFields \subseteq DOMAIN q /\ q.output = "raw" /\ q.body = Excerpt(r) /\ q.cut = r.cut
        /\ q.errors = r.errors /\ q.tier = r.tier /\ q.text = r.text /\ q.via = r.via
        /\ SameBooks(q, r)
    BY DEF Draft, ResultFields, SameBooks
  <2> HIDE DEF q
  <2>2. Deliver(c, r) = Done(c, Stamp(q))
    BY <1>2 DEF Deliver, q
  <2> HIDE DEF q
  <2>3. Honest(c, Stamp(q))
    <3>1. q.body \in {"excerpt", "roster"} /\ (q.tier = "tier2" => q.body = "roster")
      BY <2>1 DEF Excerpt
    <3>2. (q.cut => q.errors \cap Told # {}) /\ CrashTold(q) /\ Booked(c, q)
      BY <2>1 DEF Draft, CrashTold, SameBooks, Booked, Charged
    <3> QED  BY <2>1, <3>1, <3>2, StampedHonest
  <2>4. CallOK(Done(c, Stamp(q)), g)
    BY <2>1, <2>3, DoneHonest
  <2> QED  BY <2>2, <2>4
<1>3. CASE ~NotSummarised(c, r) /\ "transformer" \in c.deployed
  <2> DEFINE d == [c EXCEPT !.at = "transform", !.res = r]
  <2>1. Deliver(c, r) = d
    BY <1>3 DEF Deliver
  <2>2. /\ CallFields \subseteq DOMAIN d /\ d.at = "transform" /\ d.res = r /\ d.read = c.read
        /\ d.egress = c.egress /\ d.wall = c.wall /\ d.tries = c.tries /\ d.victims = c.victims
        /\ d.passed = c.passed /\ d.url = c.url /\ d.request = c.request
    BY DEF CallFields
  <2> HIDE DEF d
  <2>3. ~NotSummarised(d, r) /\ Booked(d, r)
    BY <1>3, <2>2 DEF NotSummarised, Booked
  <2>4. CallOK(d, g)
    BY <2>2, <2>3 DEF CallOK, Unfinished
  <2> QED  BY <2>1, <2>4
<1> QED  BY <1>1, <1>2, <1>3

(* What is read of a page.                                                  *)
LEMMA PageStatus == ASSUME NEW page \in Pages PROVE page.code \in 200..599
<1>1. page \in [code : 200..599, js : BOOLEAN, text : Texts, challenged : BOOLEAN]
  BY PagesAssumption
<1> QED  BY <1>1, Zenon

LEMMA ExtractDraft ==
  ASSUME NEW page \in Pages, NEW sha,
         NEW cut \in {"none", "cap", "body_read_error"}, NEW bytes \in Nat
  PROVE  LET r == Extract(page, sha, cut, bytes) IN
         /\ Draft(r) /\ r.tier = "tier1" /\ r.via \in {"tier1", "tier1-error"}
         /\ r.code = page.code /\ ~r.gated /\ r.bytes = bytes /\ r.egress = bytes
<1> DEFINE failed == page.code >= 400
           told == (IF failed THEN {"http_error"} ELSE {}) \cup ({cut} \ {"none"})
<1> SUFFICES ASSUME NEW r, r = Extract(page, sha, cut, bytes)
             PROVE  /\ Draft(r) /\ r.tier = "tier1" /\ r.via \in {"tier1", "tier1-error"}
                    /\ r.code = page.code /\ ~r.gated /\ r.bytes = bytes /\ r.egress = bytes
  BY Zenon
<1>1. (cut # "none") => told \cap Told # {}
  BY DEF Told
<1> HIDE DEF told
<1>2. r = [NoResult EXCEPT !.tier = "tier1", !.code = page.code, !.text = page.text,
             !.sha = sha, !.via = IF failed THEN "tier1-error" ELSE "tier1",
             !.js = ~failed /\ page.js, !.cut = cut # "none", !.bytes = bytes,
             !.egress = bytes, !.errors = told]
  BY DEF Extract, told
<1>3. ResultFields \subseteq DOMAIN r /\ ~r.gated /\ r.output = "raw" /\ r.body = "page"
  <2>1. ResultFields \subseteq DOMAIN r
    BY <1>2 DEF NoResult, ResultFields
  <2>2. ~r.gated /\ r.output = "raw" /\ r.body = "page"
    BY <1>2 DEF NoResult
  <2> QED  BY <2>1, <2>2
<1>4. r.tier = "tier1" /\ r.code = page.code /\ r.via \in {"tier1", "tier1-error"}
  BY <1>2 DEF NoResult
<1>5. r.cut = (cut # "none")
  BY <1>2 DEF NoResult
<1>6. r.bytes = bytes /\ r.egress = bytes /\ r.errors = told
  BY <1>2 DEF NoResult
<1>7. Draft(r)
  <2>1. r.code \in 200..599
    BY <1>4, PageStatus
  <2> QED  BY <1>1, <1>3, <1>4, <1>5, <1>6, <2>1 DEF Draft
<1> QED  BY <1>3, <1>4, <1>6, <1>7

(* What is true of a record of a call whenever the result is delivered.     *)
Running(c) == CallFields \subseteq DOMAIN c /\ c.read \in Nat /\ c.egress \in Nat

LEMMA MaybeRenderKeeps ==
  ASSUME NEW c, NEW g, Running(c), Fresh(c), g.first = NoUrl,
         NEW r, Draft(r), r.via \in {"tier1", "tier1-error"}, r.egress = r.bytes,
         r.sha = "document", Pending(c, r)
  PROVE  CallOK(MaybeRender(c, r), g)
<1> DEFINE blocked == [r EXCEPT !.tier = "render-blocked", !.via = "render-blocked"]
           unavailable == [r EXCEPT !.tier = "render-unavailable", !.via = "render-unavailable",
                                    !.errors = @ \cup {"render_unavailable"}]
           d == [c EXCEPT !.at = "render", !.res = r]
<1>1. Draft(r) /\ Shown(r) /\ Booked(c, r)
  <2>1. r.bytes + c.egress = r.egress
    BY DEF Draft, Fresh
  <2> QED  BY <2>1 DEF Shown, Pending, Booked, Charged, Fresh
<1>2. Draft(blocked) /\ Shown(blocked) /\ Booked(c, blocked)
  <2>1. Draft(blocked) /\ Shown(blocked) /\ SameBooks(blocked, r)
    BY DEF Draft, Shown, ResultFields, SameBooks
  <2> QED  BY <1>1, <2>1 DEF SameBooks, Booked, Charged
<1>3. Draft(unavailable) /\ Shown(unavailable) /\ Booked(c, unavailable)
  <2>1. Draft(unavailable) /\ Shown(unavailable) /\ SameBooks(unavailable, r)
    BY DEF Draft, Shown, ResultFields, SameBooks
  <2> QED  BY <1>1, <2>1 DEF SameBooks, Booked, Charged
<1>4. ASSUME NEW q, Draft(q), Shown(q), Booked(c, q)
      PROVE  CallOK(Deliver(c, Judged(q)), g)
  <2> DEFINE j == Judged(q)
  <2>1. Draft(j) /\ CrashTold(j) /\ SameBooks(j, q)
    BY <1>4, JudgedKeeps
  <2> HIDE DEF j
  <2>2. Booked(c, j)
    BY <1>4, <2>1 DEF SameBooks, Booked, Charged
  <2>3. CallOK(Deliver(c, j), g)
    BY <2>1, <2>2, DeliverKeeps DEF Running
  <2> QED  BY <2>3 DEF j
<1>5. CallOK(d, g)
  <2>1. /\ CallFields \subseteq DOMAIN d /\ d.at = "render" /\ d.res = r /\ d.read = c.read
        /\ d.egress = c.egress /\ d.wall = c.wall /\ d.tries = c.tries /\ d.victims = c.victims
        /\ d.url = c.url /\ d.noted = c.noted /\ d.passed = c.passed /\ d.asked = c.asked
        /\ d.frame = c.frame
    BY DEF CallFields, Running
  <2> HIDE DEF d
  <2>2. Pending(d, r)
    BY <2>1 DEF Pending
  <2>3. Framed(d, g)
    BY <2>1 DEF Framed, Fresh
  <2>4. r.via # "tier3-playwright"
    OBVIOUS
  <2> QED  BY <2>1, <2>2, <2>3, <2>4 DEF CallOK, Unfinished, Running
<1>6. \/ MaybeRender(c, r) = Deliver(c, Judged(r))
      \/ MaybeRender(c, r) = Deliver(c, Judged(blocked))
      \/ MaybeRender(c, r) = Deliver(c, Judged(unavailable))
      \/ MaybeRender(c, r) = d
  BY DEF MaybeRender
<1> HIDE DEF blocked, unavailable, d
<1> QED  BY <1>1, <1>2, <1>3, <1>4, <1>5, <1>6

-----------------------------------------------------------------------------
(* The steps of a call.                                                     *)
LEMMA TakenFacts ==
  ASSUME Running(call), ReadInv(get)
  PROVE  /\ Running(Taken)
         /\ Taken.egress = call.egress /\ Taken.wall = call.wall /\ Taken.tries = call.tries
         /\ Taken.url = call.url /\ Taken.noted = call.noted /\ Taken.res = call.res
         /\ Taken.at = call.at /\ Taken.asked = call.asked /\ Taken.frame = call.frame
         /\ call.wall =>
              /\ Taken.victims = call.victims \cup (Contacted \cap {HostOf[get.url]})
              /\ Taken.passed = call.passed \cup (Contacted \ {HostOf[get.url]})
              /\ Taken.read = call.read + IF Ok THEN get.bytes ELSE 0
         /\ ~call.wall => Taken = call
BY DEF Taken, Running, CallFields, ReadInv

LEMMA Tier1Keeps ==
  ASSUME NEW c, Running(c), Fresh(c), NEW url, BeginTier1(c, url),
         c.wall => /\ c.tries = 0 /\ c.read = 0 /\ c.victims = {} /\ c.passed = {}
                   /\ url = c.url
  PROVE  CallOK(call', get')
<1>1. /\ CallFields \subseteq DOMAIN call' /\ call'.at = "tier1" /\ call'.tries = c.tries + 1
      /\ call'.read = c.read /\ call'.egress = c.egress /\ call'.wall = c.wall
      /\ call'.victims = c.victims /\ call'.passed = c.passed /\ call'.url = c.url
      /\ call'.asked = c.asked /\ call'.frame = c.frame /\ call'.noted = c.noted
  BY DEF BeginTier1, Running, CallFields
<1>2. get'.first = url
  BY BeginsAt DEF BeginTier1
<1> QED  BY <1>1, <1>2 DEF CallOK, Running, Fresh

LEMMA EmbedKeeps ==
  ASSUME NEW c, Running(c), Fresh(c), EmbedOrTier1(c),
         c.wall => /\ c.tries = 0 /\ c.read = 0 /\ c.victims = {} /\ c.passed = {}
                   /\ c.url \notin Embeds
  PROVE  CallOK(call', get')
<1>1. CASE c.url \in Embeds
  <2>1. /\ CallFields \subseteq DOMAIN call' /\ call'.at = "embed" /\ ~c.wall
        /\ call'.read = c.read /\ call'.egress = c.egress /\ call'.wall = c.wall
        /\ call'.asked = c.asked /\ call'.frame = c.frame /\ call'.noted = c.noted
    BY <1>1 DEF EmbedOrTier1, Running, CallFields
  <2> QED  BY <2>1 DEF CallOK, Running, Fresh
<1>2. CASE c.url \notin Embeds
  BY <1>2, Tier1Keeps DEF EmbedOrTier1
<1> QED  BY <1>1, <1>2

LEMMA ExecuteKeeps ==
  ASSUME NEW url, NEW wall \in BOOLEAN, NEW request, NEW deployed,
         Execute(url, wall, request, deployed)
  PROVE  CallOK(call', get')
<1> DEFINE c == [Idle EXCEPT !.url = url, !.wall = wall, !.request = request, !.deployed = deployed]
<1>1. /\ Running(c) /\ Fresh(c) /\ c.read = 0 /\ c.tries = 0 /\ c.victims = {}
      /\ c.passed = {} /\ c.url = url /\ c.wall = wall
  BY DEF Idle, Running, CallFields, Fresh
<1>2. wall => url \notin Boards \cup Embeds
  BY DEF Execute, Dispatched
<1>3. \/ call' = [c EXCEPT !.at = "board"] /\ ~wall
      \/ EmbedOrTier1(c)
  BY <1>2 DEF Execute
<1> HIDE DEF c
<1>4. CASE call' = [c EXCEPT !.at = "board"] /\ ~wall
  <2>1. /\ CallFields \subseteq DOMAIN call' /\ call'.at = "board" /\ call'.read = c.read
        /\ call'.egress = c.egress /\ call'.wall = c.wall /\ call'.asked = c.asked
        /\ call'.frame = c.frame /\ call'.noted = c.noted
    BY <1>1, <1>4 DEF Running, CallFields
  <2> QED  BY <1>1, <1>4, <2>1 DEF CallOK, Running, Fresh
<1>5. CASE EmbedOrTier1(c)
  BY <1>1, <1>2, <1>5, EmbedKeeps
<1> QED  BY <1>3, <1>4, <1>5

LEMMA BoardKeeps ==
  ASSUME PipelineInv, NEW good, TakeBoard(good) PROVE CallOK(call', get')
<1>1. Running(call) /\ ~call.wall /\ Fresh(call) /\ ReadInv(get)
  BY DEF PipelineInv, CallOK, Running, TakeBoard, Unfinished
<1>2. Taken = call
  BY <1>1, TakenFacts
<1>3. CASE BoardRead(good)
  <2>1. get.cut = "none" /\ get.bytes \in Nat
    BY <1>1, <1>3 DEF BoardRead, ReadInv
  <2>2. /\ ResultFields \subseteq DOMAIN Roster /\ Roster.cut = FALSE /\ Roster.output = "raw"
        /\ Roster.body = "roster" /\ Roster.tier = "tier2" /\ Roster.code = 200
        /\ Roster.via = "tier2" /\ Roster.bytes \in Nat
    BY <2>1 DEF Roster, NoResult, ResultFields
  <2>3. Draft(Roster) /\ CrashTold(Roster) /\ Booked(call, Roster)
    BY <1>1, <2>2 DEF Draft, CrashTold, Booked
  <2>4. call' = Deliver(call, Roster)
    BY <1>2, <1>3 DEF TakeBoard
  <2>5. CallOK(Deliver(call, Roster), get')
    BY <1>1, <2>3, DeliverKeeps DEF Running
  <2> QED  BY <2>4, <2>5
<1>4. CASE ~BoardRead(good)
  <2>1. EmbedOrTier1(call)
    BY <1>2, <1>4 DEF TakeBoard
  <2> QED  BY <1>1, <2>1, EmbedKeeps
<1> QED  BY <1>3, <1>4

LEMMA TakeEmbedKeeps ==
  ASSUME PipelineInv, NEW found, TakeEmbed(found) PROVE CallOK(call', get')
<1>1. Running(call) /\ ~call.wall /\ Fresh(call) /\ ReadInv(get)
  BY DEF PipelineInv, CallOK, Running, TakeEmbed, Unfinished
<1>2. Taken = call
  BY <1>1, TakenFacts
<1>3. \E url : BeginTier1(call, url)
  BY <1>2 DEF TakeEmbed
<1> QED  BY <1>1, <1>3, Tier1Keeps

LEMMA RejectKeeps ==
  ASSUME NEW c, NEW g, Running(c), NEW code,
         c.wall => /\ c.tries <= 1 /\ c.read = 0
                   /\ c.victims \cup c.passed \subseteq Reported \cup {HostOf[c.url]}
  PROVE  CallOK(RejectResult(c, code), g)
<1> DEFINE r == [NoResult EXCEPT !.tier = "error", !.via = "guarded-fetch",
                   !.output = c.request.output, !.errors = {code}, !.final = c.url,
                   !.redirects = Reported]
           d == Done(c, r)
<1>1. /\ r.cut = FALSE /\ r.tier = "error" /\ r.via = "guarded-fetch" /\ r.body = "page"
      /\ r.egress = 0 /\ r.redirects = Reported
  BY DEF NoResult
<1>2. RejectResult(c, code) = d
  BY DEF RejectResult
<1>3. /\ CallFields \subseteq DOMAIN d /\ d.at = "done" /\ d.res = r /\ d.read = c.read
      /\ d.egress = c.egress /\ d.wall = c.wall /\ d.tries = c.tries /\ d.victims = c.victims
      /\ d.passed = c.passed /\ d.url = c.url
  BY DEF Done, CallFields, Running
<1> HIDE DEF r, d
<1>4. Honest(d, r)
  <2>1. Booked(d, r)
    BY <1>1, <1>3 DEF Booked, Charged
  <2> QED  BY <1>1, <2>1 DEF Honest, CrashTold
<1>5. CallOK(d, g)
  BY <1>3, <1>4 DEF CallOK, Unfinished, Running
<1> QED  BY <1>2, <1>5

LEMMA TakeTier1Keeps ==
  ASSUME PipelineInv, NEW page \in Documents, TakeTier1(page) PROVE CallOK(call', get')
<1>1. /\ Running(call) /\ Fresh(call) /\ ReadInv(get) /\ GetInv(get)
      /\ call.wall => /\ get.first = call.url /\ call.tries = 1 /\ call.read = 0
                      /\ call.victims = {} /\ call.passed = {}
  BY DEF PipelineInv, CallOK, Running, TakeTier1, Unfinished
<1>2. /\ Running(Taken) /\ Fresh(Taken) /\ Taken.wall = call.wall /\ Taken.tries = call.tries
      /\ Taken.url = call.url /\ Taken.egress = 0
      /\ call.wall => /\ Taken.victims = Contacted \cap {HostOf[get.url]}
                      /\ Taken.passed = Contacted \ {HostOf[get.url]}
                      /\ Taken.read = IF Ok THEN get.bytes ELSE 0
  BY <1>1, TakenFacts DEF ReadInv, Fresh
<1>3. call.wall => /\ Taken.victims \subseteq {HostOf[get.url]}
                   /\ Taken.victims \cup Taken.passed \subseteq Reported \cup {HostOf[Taken.url]}
  BY <1>1, <1>2, ContactedAreHops
<1>4. CASE Retried
  <2>1. ~Taken.wall /\ BeginTier1(Taken, get.first)
    BY <1>2, <1>4 DEF TakeTier1, Retried
  <2> QED  BY <1>2, <2>1, Tier1Keeps
<1>5. CASE ~Retried /\ ~Ok
  <2>1. call' = RejectResult(Taken, get.code)
    BY <1>5 DEF TakeTier1
  <2> QED  BY <1>1, <1>2, <1>3, <1>5, <2>1, RejectKeeps
<1>6. CASE ~Retried /\ Ok
  <2> DEFINE e == Extract(page, "document", get.cut, get.bytes)
             f == [e EXCEPT !.final = get.url, !.redirects = Reported]
             q == Gated(page, f)
             r == Stamp(q)
             Found(x) == /\ Draft(x) /\ x.via \in {"tier1", "tier1-error"} /\ x.bytes = get.bytes
                         /\ x.egress = get.bytes /\ x.sha = "document" /\ x.final = get.url
                         /\ x.redirects = Reported
  <2>1. /\ Draft(e) /\ e.via \in {"tier1", "tier1-error"}
        /\ e.bytes = get.bytes /\ e.egress = get.bytes /\ e.sha = "document"
    <3>1. page \in Pages /\ get.cut \in {"none", "cap", "body_read_error"} /\ get.bytes \in Nat
      BY <1>1 DEF Documents, ReadInv
    <3>2. e.sha = "document"
      BY DEF Extract, NoResult
    <3> QED  BY <3>1, <3>2, ExtractDraft
  <2> HIDE DEF e
  <2>2. Found(f)
    BY <2>1 DEF Draft, ResultFields
  <2> HIDE DEF f
  <2>3. Found(q)
    BY <2>2 DEF Gated, Draft, ResultFields
  <2> HIDE DEF q
  <2>4. Found(r)
    BY <2>3 DEF Stamp, Draft, ResultFields
  <2>5. call' = MaybeRender(Taken, r) /\ get'.first = NoUrl
    BY <1>6 DEF TakeTier1, r, q, f, e, NoGet
  <2> HIDE DEF r
  <2>6. Pending(Taken, r)
    <3>1. get.bytes + 0 = get.bytes
      BY <1>1 DEF ReadInv
    <3> QED  BY <1>1, <1>2, <1>3, <1>6, <2>4, <3>1 DEF Pending
  <2>7. CallOK(MaybeRender(Taken, r), get')
    BY <1>2, <2>4, <2>5, <2>6, MaybeRenderKeeps
  <2> QED  BY <2>5, <2>7
<1> QED  BY <1>4, <1>5, <1>6

(* A rendered page's requests: what each read and reached is noted.         *)
LEMMA RequestKeeps ==
  ASSUME PipelineInv, Requested PROVE CallOK(call', get')
<1>1. PICK request : /\ RenderRequests(request)
                     /\ call.frame = "blank" => /\ call.asked = 0
                                                /\ request.kind = "navigation"
                                                /\ request.url = call.res.final
  BY DEF Requested
<1>2. call.at = "render" /\ CallOK(call, get) /\ get.first = NoUrl
  BY <1>1 DEF RenderRequests, PipelineInv
<1>3. /\ CallFields \subseteq DOMAIN call' /\ call'.at = "render" /\ call'.read = call.read
      /\ call'.egress = call.egress /\ call'.wall = call.wall /\ call'.victims = call.victims
      /\ call'.passed = call.passed /\ call'.url = call.url /\ call'.noted = call.noted
      /\ call'.tries = call.tries /\ call'.res = call.res /\ call'.frame = call.frame
      /\ call'.main = (request.kind = "navigation") /\ call'.asked = call.asked + 1
  BY <1>1 DEF RenderRequests, PipelineInv, CallOK, CallFields
<1>4. get'.first = request.url
  BY <1>1, BeginsAt DEF RenderRequests
<1>5. Pending(call', call'.res)
  BY <1>2, <1>3 DEF CallOK, Pending
<1>6. Framed(call', get')
  <2>1. Framed(call, get)
    BY <1>2 DEF CallOK
  <2>2. CASE call.frame = "blank"
    <3>1. call.asked = 0 /\ request.kind = "navigation" /\ request.url = call.res.final
      BY <1>1, <2>2
    <3>2. call'.asked = 1 /\ call'.frame = "blank"
      BY <1>3, <2>2, <3>1
    <3>3. get'.first = call'.res.final
      BY <1>3, <1>4, <3>1
    <3>4. call'.main = TRUE
      BY <1>3, <3>1, Zenon
    <3> QED  BY <3>2, <3>3, <3>4 DEF Framed
  <2>3. CASE call.frame # "blank"
    BY <1>3, <2>1, <2>3 DEF Framed
  <2> QED  BY <2>2, <2>3
<1> QED  BY <1>2, <1>3, <1>5, <1>6 DEF CallOK, Unfinished

LEMMA CountedKeeps ==
  ASSUME CallOK(call, get), ReadInv(get), GetInv(get), call.at = "render"
  PROVE  /\ Running(Counted) /\ Counted.at = "render" /\ Counted.res = call.res
         /\ Counted.frame = call.frame /\ Counted.main = call.main
         /\ call.noted \subseteq Counted.noted
         /\ Ok => HostOf[get.first] \in Counted.noted
         /\ Pending(Counted, Counted.res)
<1>1. /\ Running(call) /\ Pending(call, call.res) /\ get.bytes \in Nat /\ call.res.bytes \in Nat
  BY DEF CallOK, Running, Draft, ReadInv
<1>2. CASE ~Ok
  BY <1>1, <1>2 DEF Counted
<1>3. CASE Ok
  <2> DEFINE d == Counted
  <2>1. d = [call EXCEPT !.noted = @ \cup Reported \cup {HostOf[get.first]},
               !.egress = @ + get.bytes, !.read = @ + IF call.wall THEN get.bytes ELSE 0,
               !.victims = @ \cup IF call.wall THEN Contacted ELSE {}]
    BY <1>3 DEF Counted
  <2> HIDE DEF d
  <2>2. /\ CallFields \subseteq DOMAIN d /\ d.at = "render" /\ d.wall = call.wall
        /\ d.egress = call.egress + get.bytes
        /\ d.read = call.read + (IF call.wall THEN get.bytes ELSE 0)
        /\ d.victims = call.victims \cup (IF call.wall THEN Contacted ELSE {})
        /\ d.passed = call.passed /\ d.url = call.url /\ d.tries = call.tries
        /\ d.res = call.res /\ d.frame = call.frame /\ d.main = call.main
        /\ d.noted = call.noted \cup Reported \cup {HostOf[get.first]}
    BY <1>1, <2>1 DEF Running, CallFields
  <2>3. Pending(d, d.res)
    <3> SUFFICES ASSUME call.wall
                 PROVE  /\ d.tries <= 1 /\ d.res.bytes + d.egress = d.read
                        /\ d.victims \subseteq {HostOf[d.url], HostOf[d.res.final]} \cup d.noted
                        /\ d.passed \subseteq {HostOf[d.url], HostOf[d.res.final]}
                                                \cup d.res.redirects
      BY <2>2 DEF Pending
    <3>1. /\ call.tries <= 1 /\ call.res.bytes + call.egress = call.read
          /\ call.victims \subseteq {HostOf[call.url], HostOf[call.res.final]} \cup call.noted
          /\ call.passed \subseteq {HostOf[call.url], HostOf[call.res.final]} \cup call.res.redirects
      BY <1>1 DEF Pending
    <3>2. d.res.bytes + d.egress = d.read
      BY <1>1, <2>2, <3>1 DEF Running
    <3>3. Contacted \subseteq Reported \cup {HostOf[get.first]}
      BY ContactedAreHops
    <3> QED  BY <2>2, <3>1, <3>2, <3>3
  <2>4. d.read \in Nat /\ d.egress \in Nat
    BY <1>1, <2>2 DEF Running
  <2>5. /\ Running(d) /\ d.at = "render" /\ d.res = call.res /\ d.frame = call.frame
        /\ d.main = call.main /\ call.noted \subseteq d.noted /\ HostOf[get.first] \in d.noted
    BY <2>2, <2>4 DEF Running
  <2> QED  BY <2>3, <2>5 DEF d
<1> QED  BY <1>2, <1>3

LEMMA NotesKeep ==
  ASSUME PipelineInv, RenderNotes PROVE CallOK(call', get')
<1> DEFINE c == Counted
           d == Navigated(c)
<1>1. /\ call.at = "render" /\ CallOK(call, get) /\ ReadInv(get) /\ GetInv(get)
      /\ get.first # NoUrl /\ get'.first = NoUrl
      /\ call' = IF call.main THEN d ELSE c
  BY DEF PipelineInv, RenderNotes, NoGet
<1>2. /\ Running(c) /\ c.at = "render" /\ c.res = call.res /\ c.frame = call.frame
      /\ c.main = call.main /\ call.noted \subseteq c.noted
      /\ Ok => HostOf[get.first] \in c.noted
      /\ Pending(c, c.res)
  BY <1>1, CountedKeeps
<1>3. /\ Draft(call.res) /\ call.res.via # "tier3-playwright" /\ call.res.sha = "document"
      /\ Framed(call, get)
  BY <1>1 DEF CallOK
<1> HIDE DEF c
<1>4. CASE call.main
  <2>1. /\ Running(d) /\ d.at = "render" /\ d.res = call.res /\ d.noted = c.noted
        /\ d.wall = c.wall /\ d.tries = c.tries /\ d.egress = c.egress /\ d.read = c.read
        /\ d.victims = c.victims /\ d.passed = c.passed /\ d.url = c.url
        /\ d.frame \in {"loaded", "dead"}
        /\ d.frame = "loaded" => Ok /\ call.frame # "dead"
    BY <1>2 DEF Navigated, Fulfilled, Running, CallFields
  <2> HIDE DEF d
  <2>2. Pending(d, d.res)
    BY <1>2, <2>1 DEF Pending
  <2>3. d.frame = "loaded" => HostOf[call.res.final] \in d.noted
    BY <1>1, <1>2, <1>3, <2>1 DEF Framed
  <2>4. Framed(d, get')
    BY <2>1, <2>3 DEF Framed
  <2> QED  BY <1>1, <1>3, <1>4, <2>1, <2>2, <2>4 DEF CallOK, Unfinished, Running
<1>5. CASE ~call.main
  <2>1. call.frame # "blank"
    BY <1>1, <1>3, <1>5 DEF Framed
  <2>2. Framed(c, get')
    BY <1>2, <1>3, <2>1 DEF Framed
  <2> QED  BY <1>1, <1>2, <1>3, <1>5, <2>2 DEF CallOK, Unfinished, Running
<1> QED  BY <1>4, <1>5

(* What a render adds is in the result whether the render succeeds or not.  *)
LEMMA SurfacedFacts ==
  ASSUME CallOK(call, get), call.at = "render"
  PROVE  LET s == Surfaced(call.res) IN
         /\ Running(call) /\ Draft(s) /\ s.via # "tier3-playwright" /\ Booked(call, s)
         /\ s.egress = call.res.bytes + call.egress /\ s.renderHosts = call.noted
<1> DEFINE r == call.res
           s == Surfaced(r)
<1>1. Running(call) /\ Draft(r) /\ r.via # "tier3-playwright" /\ Pending(call, r)
  BY DEF CallOK, Running
<1>2. /\ Draft(s) /\ s.via = r.via /\ s.egress = r.bytes + call.egress
      /\ s.final = r.final /\ s.redirects = r.redirects /\ s.renderHosts = call.noted
  BY <1>1 DEF Surfaced, Draft, ResultFields
<1> HIDE DEF s
<1>3. Booked(call, s)
  BY <1>1, <1>2 DEF Pending, Booked, Charged
<1> QED  BY <1>1, <1>2, <1>3 DEF s

LEMMA JudgedDelivered ==
  ASSUME NEW g, Running(call), NEW q, Draft(q), Shown(q), Booked(call, q)
  PROVE  CallOK(Deliver(call, Judged(q)), g)
<1> DEFINE j == Judged(q)
<1>1. Draft(j) /\ CrashTold(j) /\ SameBooks(j, q)
  BY JudgedKeeps
<1> HIDE DEF j
<1>2. Booked(call, j)
  BY <1>1 DEF SameBooks, Booked, Charged
<1>3. CallOK(Deliver(call, j), g)
  BY <1>1, <1>2, DeliverKeeps DEF Running
<1> QED  BY <1>3 DEF j

LEMMA FailedFacts ==
  ASSUME NEW r, Draft(r), NEW code
  PROVE  LET f == RenderFailed(r, code) IN
         Draft(f) /\ Shown(f) /\ SameBooks(f, r)
BY DEF RenderFailed, Draft, Shown, ResultFields, SameBooks

LEMMA RenderFailsKeeps ==
  ASSUME PipelineInv, NEW code, RenderFails(code) PROVE CallOK(call', get')
<1> DEFINE s == Surfaced(call.res)
           f == RenderFailed(s, code)
<1>1. CallOK(call, get) /\ call.at = "render" /\ call' = Deliver(call, Judged(f))
  BY DEF RenderFails, PipelineInv
<1>2. Running(call) /\ Draft(s) /\ Booked(call, s)
  BY <1>1, SurfacedFacts
<1> HIDE DEF s
<1>3. Draft(f) /\ Shown(f) /\ SameBooks(f, s)
  BY <1>2, FailedFacts
<1> HIDE DEF f
<1>4. Booked(call, f)
  BY <1>2, <1>3 DEF SameBooks, Booked, Charged
<1> QED  BY <1>1, <1>2, <1>3, <1>4, JudgedDelivered

LEMMA PromotedFacts ==
  ASSUME NEW base, Draft(base), NEW dom, Draft(dom), dom.tier = "tier1", ~dom.gated,
         dom.via \in {"tier1", "tier1-error"}
  PROVE  LET q == Promoted(base, dom) IN
         /\ Draft(q) /\ Shown(q) /\ q.egress = base.egress /\ q.sha = dom.sha
         /\ q.final = dom.final /\ q.redirects = dom.redirects
         /\ q.renderHosts = base.renderHosts
<1> DEFINE kept == [dom EXCEPT !.errors = @ \cup base.errors, !.egress = base.egress,
                               !.renderHosts = base.renderHosts]
<1>1. /\ Draft(kept) /\ kept.tier = "tier1" /\ ~kept.gated /\ kept.code = dom.code
      /\ kept.via = dom.via /\ kept.egress = base.egress /\ kept.sha = dom.sha
      /\ kept.final = dom.final /\ kept.redirects = dom.redirects
      /\ kept.renderHosts = base.renderHosts
  BY DEF Draft, ResultFields
<1> HIDE DEF kept
<1> DEFINE top == [kept EXCEPT !.tier = "tier3", !.js = TRUE, !.via = "tier3-playwright"]
<1>2. /\ Draft(top) /\ top.tier = "tier3" /\ ~top.gated /\ top.code = dom.code
      /\ top.egress = base.egress /\ top.sha = dom.sha /\ top.final = dom.final
      /\ top.redirects = dom.redirects /\ top.renderHosts = base.renderHosts
  BY <1>1 DEF Draft, ResultFields
<1>3. Promoted(base, dom) = IF dom.code >= 400 THEN kept ELSE top
  BY DEF Promoted, kept
<1> HIDE DEF top
<1>4. Shown(kept)
  BY <1>1 DEF Shown
<1>5. dom.code \in 200..599 /\ (~(dom.code >= 400) => Shown(top))
  BY <1>2 DEF Shown, Draft
<1> QED  BY <1>1, <1>2, <1>3, <1>4, <1>5

LEMMA RenderedKeeps ==
  ASSUME PipelineInv, NEW page \in Pages, Rendered(page) PROVE CallOK(call', get')
<1> DEFINE base == Surfaced(call.res)
           e == Extract(page, "dom", "none", 1)
           dom == [e EXCEPT !.final = call.seen.final, !.redirects = call.seen.redirects]
           f == RenderFailed(base, "render_empty")
           q == Promoted(base, dom)
<1>1. CallOK(call, get) /\ call.at = "render" /\ call.frame = "loaded"
      /\ \/ call' = Deliver(call, Judged(f))
         \/ call' = Deliver(call, Judged(q))
  BY DEF Rendered, PipelineInv
<1>2. /\ Running(call) /\ Draft(base) /\ Booked(call, base)
      /\ base.egress = call.res.bytes + call.egress /\ base.renderHosts = call.noted
  BY <1>1, SurfacedFacts
<1>3. /\ Draft(dom) /\ dom.tier = "tier1" /\ ~dom.gated /\ dom.via \in {"tier1", "tier1-error"}
      /\ dom.sha = "dom"
  <2>1. page \in Pages /\ 1 \in Nat
    OBVIOUS
  <2>2. /\ Draft(e) /\ e.tier = "tier1" /\ ~e.gated /\ e.via \in {"tier1", "tier1-error"}
        /\ e.sha = "dom"
    <3>1. Draft(e) /\ e.tier = "tier1" /\ ~e.gated /\ e.via \in {"tier1", "tier1-error"}
      BY <2>1, ExtractDraft
    <3>2. e.sha = "dom"
      BY DEF Extract, NoResult
    <3> QED  BY <3>1, <3>2
  <2> HIDE DEF e
  <2>3. /\ ResultFields \subseteq DOMAIN dom /\ dom.tier = e.tier /\ dom.gated = e.gated
        /\ dom.via = e.via /\ dom.sha = e.sha /\ dom.cut = e.cut /\ dom.errors = e.errors
        /\ dom.output = e.output /\ dom.body = e.body /\ dom.code = e.code
        /\ dom.bytes = e.bytes
    BY <2>2 DEF Draft, ResultFields
  <2> HIDE DEF dom
  <2> QED  BY <2>2, <2>3 DEF Draft
<1> HIDE DEF base, dom
<1>4. Draft(f) /\ Shown(f) /\ SameBooks(f, base)
  BY <1>2, FailedFacts
<1>5. /\ Draft(q) /\ Shown(q) /\ q.egress = base.egress /\ q.sha = "dom"
      /\ q.renderHosts = base.renderHosts
  BY <1>2, <1>3, PromotedFacts
<1> HIDE DEF f, q
<1>6. Booked(call, f)
  BY <1>2, <1>4 DEF SameBooks, Booked, Charged
<1>7. Booked(call, q)
  <2>1. Pending(call, call.res) /\ HostOf[call.res.final] \in call.noted
    BY <1>1 DEF CallOK, Framed
  <2> QED  BY <1>2, <1>5, <2>1 DEF Pending, Booked, Charged
<1> QED  BY <1>1, <1>2, <1>4, <1>5, <1>6, <1>7, JudgedDelivered

LEMMA TransformedKeeps ==
  ASSUME PipelineInv, NEW outcome, Transformed(outcome) PROVE CallOK(call', get')
<1> DEFINE r == call.res
           plain == [r EXCEPT !.output = "raw", !.provider = "no provider", !.body = Excerpt(r),
                       !.errors = @ \cup IF outcome = "throws" THEN {"transform_failed"} ELSE {}]
           summed == [r EXCEPT !.output = call.request.output, !.provider = "model",
                        !.body = "summary",
                        !.errors = @ \cup IF outcome = "cut" THEN {"transform_truncated"} ELSE {}]
<1>1. /\ Running(call) /\ Draft(r) /\ ~NotSummarised(call, r) /\ CrashTold(r)
      /\ Booked(call, r)
  BY DEF PipelineInv, CallOK, Running, Transformed
<1>2. \/ call' = Done(call, Stamp(plain))
      \/ call' = Done(call, Stamp(summed))
  BY DEF Transformed
<1>3. /\ ResultFields \subseteq DOMAIN plain /\ plain.output = "raw" /\ plain.body = Excerpt(r)
      /\ plain.cut = r.cut /\ r.errors \subseteq plain.errors /\ plain.tier = r.tier
      /\ plain.text = r.text /\ plain.via = r.via /\ SameBooks(plain, r)
  BY <1>1 DEF Draft, ResultFields, SameBooks
<1>4. /\ ResultFields \subseteq DOMAIN summed /\ summed.output = call.request.output
      /\ summed.body = "summary" /\ summed.cut = r.cut /\ r.errors \subseteq summed.errors
      /\ summed.tier = r.tier /\ summed.text = r.text /\ summed.via = r.via
      /\ SameBooks(summed, r) /\ summed.code = r.code /\ summed.gated = r.gated
  BY <1>1 DEF Draft, ResultFields, SameBooks
<1> HIDE DEF plain, summed
<1>5. Honest(call, Stamp(plain))
  <2>1. plain.body \in {"excerpt", "roster"} /\ (plain.tier = "tier2" => plain.body = "roster")
    BY <1>3 DEF Excerpt
  <2>2. (plain.cut => plain.errors \cap Told # {}) /\ CrashTold(plain)
        /\ Booked(call, plain)
    BY <1>1, <1>3 DEF Draft, CrashTold, SameBooks, Booked, Charged
  <2> QED  BY <1>3, <2>1, <2>2, StampedHonest
<1>6. Honest(call, Stamp(summed))
  <2>1. summed.output # "raw" /\ ~summed.gated /\ summed.tier # "error" /\ summed.code \in 200..399
        /\ summed.via # "guarded-fetch"
    BY <1>1, <1>4 DEF NotSummarised, Draft
  <2>2. (summed.cut => summed.errors \cap Told # {}) /\ CrashTold(summed)
        /\ Booked(call, summed)
    BY <1>1, <1>4 DEF Draft, CrashTold, SameBooks, Booked, Charged
  <2> QED  BY <1>4, <2>1, <2>2, StampedHonest
<1>7. CallOK(Done(call, Stamp(plain)), get') /\ CallOK(Done(call, Stamp(summed)), get')
  BY <1>1, <1>3, <1>4, <1>5, <1>6, DoneHonest DEF Running
<1> QED  BY <1>2, <1>7

(* The wall changes nothing of what is told.                                *)
LEMMA WallKeeps == ASSUME PipelineInv, WallFires PROVE CallOK(call', get')
<1>1. /\ CallFields \subseteq DOMAIN call' /\ call'.at = call.at /\ call'.read = call.read
      /\ call'.egress = call.egress /\ call'.wall = call.wall /\ call'.victims = call.victims
      /\ call'.url = call.url /\ call'.noted = call.noted /\ call'.tries = call.tries
      /\ call'.res = call.res /\ call'.request = call.request /\ call.at # "done"
      /\ call'.passed = call.passed /\ call'.asked = call.asked /\ call'.frame = call.frame
      /\ call'.main = call.main
  BY DEF WallFires, PipelineInv, CallOK, CallFields
<1>2. get'.first = get.first
  BY DEF WallFires, PipelineInv, GetInv, Fields
<1>3. \A r : /\ Booked(call, r) => Booked(call', r)
             /\ Pending(call, r) => Pending(call', r)
  BY <1>1 DEF Booked, Pending
<1>4. \A r : NotSummarised(call', r) => NotSummarised(call, r)
  BY <1>1 DEF NotSummarised
<1>5. CallOK(call, get) /\ (Framed(call, get) => Framed(call', get')) /\ (Fresh(call) => Fresh(call'))
  BY <1>1, <1>2 DEF PipelineInv, Framed, Fresh
<1> QED  BY <1>1, <1>2, <1>3, <1>4, <1>5 DEF CallOK

LEMMA PipelineKeeps == PipelineInv /\ [Next]_vars => PipelineInv'
<1> SUFFICES ASSUME PipelineInv, [Next]_vars PROVE PipelineInv'
  OBVIOUS
<1> USE DEF PipelineInv
<1>1. GetInv(get')
  BY GetInductive
<1>2. CASE Starts
  <2>1. CallOK(call', get')
    BY <1>2, ExecuteKeeps DEF Starts
  <2> QED  BY <1>1, <1>2, <2>1, PipelineHandles, HandledReads
<1>3. CASE Requested
  <2>1. CallOK(call', get')
    BY <1>3, RequestKeeps
  <2> QED  BY <1>1, <1>3, <2>1, PipelineHandles, HandledReads
<1>4. CASE Answered
  <2>1. CallOK(call', get')
    BY <1>4, BoardKeeps, TakeEmbedKeeps, TakeTier1Keeps, NotesKeep DEF Answered
  <2> QED  BY <1>1, <1>4, <2>1, PipelineHandles, HandledReads
<1>5. CASE RenderAnswers
  <2>1. CallOK(call', get')
    BY <1>5, RenderFailsKeeps, RenderedKeeps DEF RenderAnswers
  <2> QED  BY <1>1, <1>5, <2>1, PipelineHandles, HandledReads
<1>6. CASE TransformAnswers
  <2>1. CallOK(call', get')
    BY <1>6, TransformedKeeps DEF TransformAnswers
  <2> QED  BY <1>1, <1>6, <2>1, PipelineHandles, HandledReads
<1>7. CASE WallFires
  <2>1. CallOK(call', get')
    BY <1>7, WallKeeps
  <2> QED  BY <1>1, <1>7, <2>1, PipelineHandles, HandledReads
<1>8. CASE Fetches
  <2>1. ReadInv(get') /\ get'.first = get.first /\ call' = call
    BY <1>8, FetchReads DEF Fetches
  <2>2. CallOK(call', get')
    BY <2>1 DEF CallOK, Framed
  <2> QED  BY <1>1, <2>1, <2>2
<1>9. CASE UNCHANGED vars
  BY <1>9 DEF vars
<1> QED  BY <1>2, <1>3, <1>4, <1>5, <1>6, <1>7, <1>8, <1>9 DEF Next

(* For any URLs, pages, requests, deployments and networks, what a call     *)
(* returns says what it is: cut bodies, challenges, errors and crashes are  *)
(* told and never summarised, and its hash covers it as returned.  A bulk   *)
(* call is charged with every byte of its successful fetches, the host of   *)
(* the document and every host a fulfilled request of its render reached,   *)
(* and with those its redirects led through unless a rendered page was      *)
(* promoted over the document (captatum.ts, render.ts, route-state.ts).     *)
THEOREM EveryResultTruthful == Spec => []ResultTruthful
<1>1. Init => PipelineInv
  <2> SUFFICES ASSUME Init PROVE PipelineInv
    OBVIOUS
  <2>1. GetInv(get)
    BY GetInitially
  <2>2. ReadInv(get)
    BY DEF Init, NoGet, ReadInv
  <2>3. CallOK(call, get)
    BY DEF Init, Idle, CallOK, CallFields, Unfinished, Fresh
  <2> QED  BY <2>1, <2>2, <2>3 DEF PipelineInv
<1>2. PipelineInv => ResultTruthful
  BY DEF PipelineInv, CallOK, Honest, ResultTruthful, Returned, CrashTold, Booked, Told
<1> QED  BY <1>1, <1>2, PipelineKeeps, PTL DEF Spec

-----------------------------------------------------------------------------
(* The limiter the pipeline's fetches pass through: the wait for a global   *)
(* slot never lengthens a call, for any number of calls, slots and signals  *)
(* and any timeout.                                                         *)

(* What the deadline depends on: the queue plays no part in it.            *)
Clocks ==
  /\ pc \in [Calls -> {"idle", "waiting", "granted", "fetching", "done"}]
  /\ waited \in [Calls -> Nat]
  /\ budget \in [Calls -> Nat]
  /\ \A c \in Calls : pc[c] = "idle" => waited[c] = 0

(* Only StartFetch brings a call to its fetch.                             *)
LEMMA NoOtherFetch ==
  ASSUME Clocks, DeadlineKept, UNCHANGED <<waited, budget>>,
         pc' \in [Calls -> {"idle", "waiting", "granted", "fetching", "done"}],
         \A c \in Calls : /\ pc'[c] = "fetching" => pc[c] = "fetching"
                          /\ pc'[c] = "idle" => pc[c] = "idle"
  PROVE  Clocks' /\ DeadlineKept'
BY DEF Clocks, DeadlineKept

LEMMA ClocksStep == Clocks /\ DeadlineKept /\ [LimiterNext]_limiterVars => Clocks' /\ DeadlineKept'
<1> SUFFICES ASSUME Clocks, DeadlineKept, [LimiterNext]_limiterVars
             PROVE  Clocks' /\ DeadlineKept'
  OBVIOUS
<1>t. /\ pc \in [Calls -> {"idle", "waiting", "granted", "fetching", "done"}]
      /\ waited \in [Calls -> Nat] /\ budget \in [Calls -> Nat]
      /\ Timeout \in Nat /\ Lag \in Nat
  BY LimiterAssumption DEF Clocks
<1>1. ASSUME NEW c \in Calls, Call(c) PROVE Clocks' /\ DeadlineKept'
  <2>1. PICK place \in {"granted", "done", "waiting"} : pc' = [pc EXCEPT ![c] = place]
    BY <1>1 DEF Call, TakeSlot, RefuseAborted, Queue, Goes
  <2>2. UNCHANGED <<waited, budget>>
    BY <1>1 DEF Call, TakeSlot, RefuseAborted, Queue
  <2> QED
    BY <1>t, <2>1, <2>2, NoOtherFetch
<1>2. ASSUME NEW c \in Calls, StartFetch(c) PROVE Clocks' /\ DeadlineKept'
  <2>1. /\ pc' = [pc EXCEPT ![c] = "fetching"] /\ waited' = waited
        /\ budget' = [budget EXCEPT ![c] = Timeout - waited[c]]
        /\ Timeout - waited[c] > 0
    BY <1>2 DEF StartFetch, Goes, Remaining
  <2>2. waited[c] \in Nat /\ Timeout - waited[c] \in Nat
    BY <1>t, <2>1
  <2>3. Clocks'
    BY <1>t, <2>1, <2>2 DEF Clocks
  <2>4. ASSUME NEW d \in Calls, pc'[d] = "fetching"
        PROVE  budget'[d] > 0 /\ waited'[d] + budget'[d] <= Timeout
    <3>1. CASE d = c
      BY <1>t, <2>1, <2>2, <3>1
    <3>2. CASE d # c
      BY <1>t, <2>1, <2>4, <3>2 DEF DeadlineKept
    <3> QED
      BY <3>1, <3>2
  <2> QED
    BY <2>3, <2>4 DEF DeadlineKept
<1>3. ASSUME NEW c \in Calls, ReturnUnused(c) \/ FinishFetch(c)
      PROVE  Clocks' /\ DeadlineKept'
  <2>1. Release(c) /\ UNCHANGED <<waited, budget>>
    BY <1>3 DEF ReturnUnused, FinishFetch
  <2> QED
    BY <1>t, <2>1, NoOtherFetch DEF Release
<1>4. ASSUME NEW c \in Calls, TimeOutWaiting(c) PROVE Clocks' /\ DeadlineKept'
  BY <1>4, <1>t, NoOtherFetch DEF TimeOutWaiting, Goes
<1>5. ASSUME NEW s \in Signals, AbortSignal(s) PROVE Clocks' /\ DeadlineKept'
  BY <1>5, <1>t, NoOtherFetch DEF AbortSignal
<1>6. CASE Tick
  <2>1. pc' = pc /\ budget' = budget
        /\ waited' = [c \in Calls |-> IF Waits(c) THEN waited[c] + 1 ELSE waited[c]]
    BY <1>6 DEF Tick
  <2>2. \A c \in Calls : pc[c] \in {"idle", "fetching"} => waited'[c] = waited[c]
    BY <2>1 DEF Waits
  <2>3. Clocks'
    BY <1>t, <2>1, <2>2 DEF Clocks
  <2> QED
    BY <2>1, <2>2, <2>3 DEF DeadlineKept
<1>7. CASE UNCHANGED limiterVars
  BY <1>7, <1>t, NoOtherFetch DEF limiterVars
<1> QED
  BY <1>1, <1>2, <1>3, <1>4, <1>5, <1>6, <1>7 DEF LimiterNext, Step, AllServed

(* The wait for a slot and the fetch that follows stay within the timeout  *)
(* of the caller (fetchGuarded passes on what the wait has left of it).    *)
THEOREM DeadlinesKept == LimiterSpec => []DeadlineKept
<1>1. LimiterInit => Clocks /\ DeadlineKept
  BY DEF LimiterInit, Clocks, DeadlineKept
<1> QED
  BY <1>1, ClocksStep, PTL DEF LimiterSpec

(* The limiter is a slot pool.  Those who stay, of the first n of a queue q: *)
(* Without as a function of its own.                                       *)
StayStep(q, gone, f, n) ==
  IF n = 0 THEN <<>> ELSE IF q[n] \in gone THEN f[n - 1] ELSE Append(f[n - 1], q[n])

(* Without is defined by recursion: there is a function that satisfies it. *)
LEMMA StayDefined ==
  ASSUME NEW q \in Seq(Calls), NEW gone
  PROVE  \E f : f = [n \in 0..Len(q) |-> StayStep(q, gone, f, n)]
<1> DEFINE Bad == {m \in Nat : m <= Len(q) /\ ~\E f : f = [n \in 0..m |-> StayStep(q, gone, f, n)]}
<1>l. Len(q) \in Nat
  BY LenProperties
<1>1. ASSUME Bad # {} PROVE FALSE
  <2>1. PICK m \in Bad : \A k \in Bad : m <= k
    BY <1>1, LeastNat
  <2>2. m # 0
    <3>1. ASSUME m = 0 PROVE FALSE
      <4> DEFINE f == [n \in 0..0 |-> <<>>]
      <4>1. \A n \in 0..0 : StayStep(q, gone, f, n) = <<>>
        BY DEF StayStep
      <4>2. f = [n \in 0..0 |-> StayStep(q, gone, f, n)]
        BY <4>1
      <4> QED
        BY <3>1, <4>2
    <3> QED
      BY <3>1
  <2>3. m - 1 \in Nat /\ m - 1 <= Len(q) /\ m - 1 \notin Bad /\ m \in Nat
    BY <2>1, <2>2, <1>l
  <2>4. PICK f : f = [n \in 0..(m - 1) |-> StayStep(q, gone, f, n)]
    BY <2>3
  <2> DEFINE g == [n \in 0..m |-> IF n < m THEN f[n] ELSE StayStep(q, gone, f, m)]
  <2>5. ASSUME NEW n \in 0..m PROVE g[n] = StayStep(q, gone, g, n)
    <3>1. n # 0 => g[n - 1] = f[n - 1]
      BY <2>3
    <3>2. n < m => f[n] = StayStep(q, gone, f, n)
      <4>1. ASSUME n < m PROVE n \in 0..(m - 1)
        BY <4>1, <2>3
      <4> QED
        BY <4>1, <2>4
    <3>3. g[n] = StayStep(q, gone, f, n)
      BY <2>3, <3>2
    <3>4. StayStep(q, gone, f, n) = StayStep(q, gone, g, n)
      BY <3>1 DEF StayStep
    <3> QED
      BY <3>3, <3>4
  <2>6. g = [n \in 0..m |-> StayStep(q, gone, g, n)]
    BY <2>5
  <2> QED
    BY <2>1, <2>6
<1> QED
  BY <1>1, <1>l

(* Without is the last value of such a function.                           *)
LEMMA StayFunction ==
  ASSUME waiters \in Seq(Calls), NEW gone
  PROVE  \E f : /\ f = [n \in 0..Len(waiters) |-> StayStep(waiters, gone, f, n)]
                /\ Without(gone) = f[Len(waiters)]
<1> DEFINE stay[n \in 0..Len(waiters)] ==
        IF n = 0 THEN <<>>
        ELSE IF waiters[n] \in gone THEN stay[n - 1]
        ELSE Append(stay[n - 1], waiters[n])
<1>1. Without(gone) = stay[Len(waiters)]
  BY DEF Without
<1>2. \E f : f = [n \in 0..Len(waiters) |-> 
         IF n = 0 THEN <<>>
        ELSE IF waiters[n] \in gone THEN f[n - 1]
        ELSE Append(f[n - 1], waiters[n])]
  <2>1. PICK f : f = [n \in 0..Len(waiters) |-> StayStep(waiters, gone, f, n)]
    BY StayDefined
  <2>2. f = [n \in 0..Len(waiters) |->
         IF n = 0 THEN <<>>
        ELSE IF waiters[n] \in gone THEN f[n - 1]
        ELSE Append(f[n - 1], waiters[n])]
    BY <2>1 DEF StayStep
  <2> QED
    BY <2>2, Zenon
<1>3. stay = [n \in 0..Len(waiters) |-> 
        IF n = 0 THEN <<>>
        ELSE IF waiters[n] \in gone THEN stay[n - 1]
        ELSE Append(stay[n - 1], waiters[n])]
  BY <1>2
<1> QED
  <2>1. stay = [n \in 0..Len(waiters) |-> StayStep(waiters, gone, stay, n)]
    BY <1>3 DEF StayStep
  <2> HIDE DEF stay
  <2> QED BY <1>1, <2>1

(* r is what the first n of q leave when gone have gone: the places of     *)
(* those who stay, in their order, and all of them when nobody has gone.   *)
KeptOf(q, gone, r, n) ==
  \E k \in 0..n : \E kept \in [1..k -> 1..n] :
    /\ \A i, j \in 1..k : i < j => kept[i] < kept[j]
    /\ \A i \in 1..k : q[kept[i]] \notin gone
    /\ r = [i \in 1..k |-> q[kept[i]]]
    /\ k = n => \A i \in 1..n : kept[i] = i

(* One more of the queue is gone, or is kept behind the others.            *)
LEMMA KeptStep ==
  ASSUME NEW q \in Seq(Calls), NEW gone, NEW r, NEW n \in 0..(Len(q) - 1), KeptOf(q, gone, r, n)
  PROVE  /\ q[n + 1] \in gone => KeptOf(q, gone, r, n + 1)
         /\ q[n + 1] \notin gone => KeptOf(q, gone, Append(r, q[n + 1]), n + 1)
<1>l. Len(q) \in Nat /\ n \in Nat /\ DOMAIN q = 1..Len(q)
  BY LenProperties
<1>1. PICK k \in 0..n : \E kept \in [1..k -> 1..n] :
        /\ \A i, j \in 1..k : i < j => kept[i] < kept[j]
        /\ \A i \in 1..k : q[kept[i]] \notin gone
        /\ r = [i \in 1..k |-> q[kept[i]]]
        /\ k = n => \A i \in 1..n : kept[i] = i
  BY DEF KeptOf
<1>2. PICK kept \in [1..k -> 1..n] :
        /\ \A i, j \in 1..k : i < j => kept[i] < kept[j]
        /\ \A i \in 1..k : q[kept[i]] \notin gone
        /\ r = [i \in 1..k |-> q[kept[i]]]
        /\ k = n => \A i \in 1..n : kept[i] = i
  BY <1>1
<1>k. k \in Nat /\ k <= n /\ \A i \in 1..k : kept[i] \in 1..n
  BY <1>l, <1>2
<1>3. ASSUME q[n + 1] \in gone PROVE KeptOf(q, gone, r, n + 1)
  <2>1. k \in 0..(n + 1) /\ kept \in [1..k -> 1..(n + 1)] /\ k # n + 1
    BY <1>l, <1>k, <1>2
  <2> QED
    BY <2>1, <1>2 DEF KeptOf
<1>4. ASSUME q[n + 1] \notin gone PROVE KeptOf(q, gone, Append(r, q[n + 1]), n + 1)
  <2> DEFINE more == [i \in 1..(k + 1) |-> IF i = k + 1 THEN n + 1 ELSE kept[i]]
  <2>1. k + 1 \in 0..(n + 1) /\ more \in [1..(k + 1) -> 1..(n + 1)]
    BY <1>l, <1>k
  <2>2. \A i, j \in 1..(k + 1) : i < j => more[i] < more[j]
    <3> SUFFICES ASSUME NEW i \in 1..(k + 1), NEW j \in 1..(k + 1), i < j
                 PROVE  more[i] < more[j]
      OBVIOUS
    <3>1. i \in 1..k /\ more[i] = kept[i] /\ kept[i] \in 1..n
      BY <1>k
    <3>2. CASE j = k + 1
      BY <3>1, <3>2, <1>k, <1>l
    <3>3. CASE j # k + 1
      <4>1. j \in 1..k /\ more[j] = kept[j]
        BY <3>3, <1>k
      <4> QED
        BY <3>1, <4>1, <1>2
    <3> QED
      BY <3>2, <3>3
  <2>3. \A i \in 1..(k + 1) : q[more[i]] \notin gone
    BY <1>4, <1>2, <1>k
  <2>4. Append(r, q[n + 1]) = [i \in 1..(k + 1) |-> q[more[i]]]
    <3>1. \A i \in 1..k : q[kept[i]] \in Calls
      BY <1>l, <1>k, ElementOfSeq
    <3>2. r \in Seq(Calls) /\ Len(r) = k /\ \A i \in 1..k : r[i] = q[kept[i]]
      BY <3>1, <1>2, <1>k, IsASeq, LenProperties
    <3>3. q[n + 1] \in Calls
      BY <1>l, ElementOfSeq
    <3> DEFINE a == Append(r, q[n + 1])
               b == [i \in 1..(k + 1) |-> q[more[i]]]
    <3>4. /\ a \in Seq(Calls) /\ Len(a) = k + 1 /\ a[k + 1] = q[n + 1]
          /\ \A i \in 1..k : a[i] = r[i]
      BY <3>2, <3>3, AppendProperties
    <3>5. a = [i \in 1..(k + 1) |-> a[i]]
      BY <3>4, LenProperties
    <3>6. ASSUME NEW i \in 1..(k + 1) PROVE a[i] = q[more[i]]
      <4>1. CASE i = k + 1
        BY <4>1, <3>4
      <4>2. CASE i # k + 1
        <5>1. i \in 1..k
          BY <4>2, <1>k
        <5> QED
          BY <5>1, <4>2, <3>2, <3>4
      <4> QED
        BY <4>1, <4>2
    <3> HIDE DEF a, more
    <3>7. a = b
      BY <3>5, <3>6
    <3> QED
      BY <3>7 DEF a
  <2>5. k + 1 = n + 1 => \A i \in 1..(n + 1) : more[i] = i
    BY <1>2, <1>k, <1>l
  <2> HIDE DEF more
  <2> QED
    BY <2>1, <2>2, <2>3, <2>4, <2>5 DEF KeptOf
<1> QED
  BY <1>3, <1>4

(* So it is at every place of the queue (by the least place where it is not). *)
LEMMA KeptInOrder ==
  ASSUME NEW q \in Seq(Calls), NEW gone, NEW f,
         f = [n \in 0..Len(q) |-> StayStep(q, gone, f, n)]
  PROVE  KeptOf(q, gone, f[Len(q)], Len(q))
<1> DEFINE Bad == {n \in 0..Len(q) : ~KeptOf(q, gone, f[n], n)}
<1>l. Len(q) \in Nat
  BY LenProperties
<1>f. \A n \in 0..Len(q) : f[n] = StayStep(q, gone, f, n)
  BY Zenon
<1>1. ASSUME Bad # {} PROVE FALSE
  <2>1. PICK m \in Bad : \A n \in Bad : m <= n
    <3>1. Bad \subseteq Nat
      BY <1>l
    <3> HIDE DEF Bad
    <3> QED
      BY <3>1, <1>1, LeastNat
  <2>2. CASE m = 0
    <3>1. f[0] = <<>>
      BY <1>f, <1>l DEF StayStep
    <3> DEFINE none == [i \in 1..0 |-> i]
    <3>2. /\ 0 \in 0..0 /\ none \in [1..0 -> 1..0] /\ 1..0 = {}
          /\ <<>> = [i \in 1..0 |-> q[none[i]]]
      OBVIOUS
    <3>3. KeptOf(q, gone, <<>>, 0)
      BY <3>2 DEF KeptOf
    <3> QED
      BY <2>1, <2>2, <3>1, <3>3
  <2>3. CASE m # 0
    <3>1. /\ m - 1 \in 0..(Len(q) - 1) /\ m - 1 \in 0..Len(q) /\ m - 1 \notin Bad
          /\ m \in 0..Len(q) /\ m = (m - 1) + 1
      BY <2>1, <2>3, <1>l
    <3>2. KeptOf(q, gone, f[m - 1], m - 1)
      BY <3>1
    <3>3. f[m] = IF q[m] \in gone THEN f[m - 1] ELSE Append(f[m - 1], q[m])
      BY <1>f, <3>1, <2>3 DEF StayStep
    <3>4. KeptOf(q, gone, f[m], m)
      BY <3>1, <3>2, <3>3, KeptStep
    <3> QED
      BY <2>1, <3>4
  <2> QED
    BY <2>2, <2>3
<1> QED
  BY <1>1, <1>l

(* Whoever leaves, the others keep their order.                            *)
LEMMA WithoutKeepsOrder ==
  ASSUME waiters \in Seq(Calls), NEW gone
  PROVE  KeptOf(waiters, gone, Without(gone), Len(waiters))
<1>1. PICK f : /\ f = [n \in 0..Len(waiters) |-> StayStep(waiters, gone, f, n)]
               /\ Without(gone) = f[Len(waiters)]
  BY StayFunction
<1> QED
  BY <1>1, KeptInOrder

(* What SlotPoolProofs shows of every slot pool holds of the global limiter, *)
(* once its steps are shown to be a slot pool's.                           *)
LimiterPool == INSTANCE SlotPoolProofs WITH
  Clients <- Calls, holders <- Holders, queue <- waiters

Suspensions == {"idle", "waiting", "granted", "fetching", "done"}

(* Everyone in the queue is suspended in it, and active counts the holders. *)
LimiterTies ==
  /\ pc \in [Calls -> Suspensions]
  /\ active = Cardinality(Holders)
  /\ \A i \in DOMAIN waiters : pc[waiters[i]] = "waiting"

LimiterInv == LimiterPool!Safe /\ LimiterTies

SlotStep == [LimiterPool!Next]_<<Holders, waiters>>

(* A set of calls is finite.                                               *)
LEMMA CallCount ==
  ASSUME NEW H \in SUBSET Calls
  PROVE  /\ Cardinality(H) \in Nat
         /\ \A c \in Calls \ H : Cardinality(H \cup {c}) = Cardinality(H) + 1
         /\ \A c \in H : Cardinality(H \ {c}) = Cardinality(H) - 1
<1>1. IsFiniteSet(H)
  BY LimiterAssumption, FS_Subset
<1>2. Cardinality(H) \in Nat
  BY <1>1, FS_CardinalityType
<1>3. \A c \in Calls \ H : Cardinality(H \cup {c}) = Cardinality(H) + 1
  BY <1>1, FS_AddElement
<1>4. \A c \in H : Cardinality(H \ {c}) = Cardinality(H) - 1
  BY <1>1, FS_RemoveElement
<1> QED
  BY <1>2, <1>3, <1>4

LEMMA LimiterCount == ASSUME NEW S PROVE LimiterPool!Cardinality(S) = Cardinality(S)
BY DEF LimiterPool!Cardinality, Cardinality

(* What the invariant says, in the words the steps use.                    *)
LEMMA LimiterFacts ==
  ASSUME LimiterInv
  PROVE  /\ Holders \subseteq Calls /\ waiters \in Seq(Calls)
         /\ Len(waiters) \in Nat /\ DOMAIN waiters = 1..Len(waiters)
         /\ Cardinality(Holders) \in Nat /\ Cardinality(Holders) <= Capacity
         /\ active = Cardinality(Holders) /\ Capacity \in Nat \ {0}
         /\ waiters # <<>> => active = Capacity
         /\ \A c \in Calls : pc[c] # "waiting" => c \notin LimiterPool!Waiting
<1>1. Holders \subseteq Calls
  BY DEF Holders
<1>2. Cardinality(Holders) \in Nat /\ LimiterPool!Cardinality(Holders) = Cardinality(Holders)
  BY <1>1, CallCount, LimiterCount
<1>3. waiters \in Seq(Calls)
  BY DEF LimiterInv, LimiterPool!Safe, LimiterPool!SlotTypeOK
<1>4. Len(waiters) \in Nat /\ DOMAIN waiters = 1..Len(waiters)
  BY <1>3, LenProperties
<1>5. /\ Cardinality(Holders) <= Capacity
      /\ waiters # <<>> => Cardinality(Holders) = Capacity
  BY <1>2 DEF LimiterInv, LimiterPool!Safe, LimiterPool!WorkConserving
<1>6. \A c \in Calls : pc[c] # "waiting" => c \notin LimiterPool!Waiting
  BY DEF LimiterInv, LimiterTies, LimiterPool!Waiting, LimiterPool!Range
<1> QED
  BY <1>1, <1>2, <1>3, <1>4, <1>5, <1>6, LimiterAssumption DEF LimiterInv, LimiterTies

(* Some waiters leave, the holders stay: an expiry or an abort.            *)
LEMMA LeaversGiveUp ==
  ASSUME LimiterInv, NEW gone, waiters' = Without(gone), UNCHANGED active,
         pc' \in [Calls -> Suspensions],
         \A c \in Calls : c \in gone => pc[c] = "waiting" /\ pc'[c] = "done",
         \A c \in Calls : c \notin gone => pc'[c] = pc[c]
  PROVE  SlotStep /\ LimiterTies'
<1>t. /\ waiters \in Seq(Calls) /\ Len(waiters) \in Nat /\ DOMAIN waiters = 1..Len(waiters)
  BY LimiterFacts
<1>1. Holders' = Holders
  BY DEF Holders
<1>2. PICK k \in 0..Len(waiters) : \E kept \in [1..k -> 1..Len(waiters)] :
        /\ \A i, j \in 1..k : i < j => kept[i] < kept[j]
        /\ \A i \in 1..k : waiters[kept[i]] \notin gone
        /\ waiters' = [i \in 1..k |-> waiters[kept[i]]]
        /\ k = Len(waiters) => \A i \in 1..Len(waiters) : kept[i] = i
  BY <1>t, WithoutKeepsOrder DEF KeptOf
<1>3. PICK kept \in [1..k -> 1..Len(waiters)] :
        /\ \A i, j \in 1..k : i < j => kept[i] < kept[j]
        /\ \A i \in 1..k : waiters[kept[i]] \notin gone
        /\ waiters' = [i \in 1..k |-> waiters[kept[i]]]
        /\ k = Len(waiters) => \A i \in 1..Len(waiters) : kept[i] = i
  BY <1>2
<1>4. SlotStep
  <2>1. CASE k = Len(waiters)
    <3>1. waiters' = [i \in 1..Len(waiters) |-> waiters[i]]
      BY <2>1, <1>3
    <3>2. waiters' = waiters
      BY <3>1, <1>t
    <3> QED
      BY <3>2, <1>1 DEF SlotStep
  <2>2. CASE k # Len(waiters)
    <3>1. k \in 0..(Len(waiters) - 1)
      <4>1. \A m \in Nat : \A j \in 0..m : j # m => j \in 0..(m - 1)
        OBVIOUS
      <4> QED
        BY <4>1, <2>2, <1>t, Zenon
    <3>2. kept \in [1..k -> DOMAIN waiters]
      BY <1>t, Zenon
    <3>3. LimiterPool!GiveUp
      BY <3>1, <3>2, <1>3, <1>1 DEF LimiterPool!GiveUp
    <3> QED
      BY <3>3 DEF SlotStep, LimiterPool!Next
  <2> QED
    BY <2>1, <2>2
<1>5. ASSUME NEW i \in DOMAIN waiters' PROVE pc'[waiters'[i]] = "waiting"
  <2>1. i \in 1..k /\ waiters'[i] = waiters[kept[i]]
    BY <1>3
  <2>2. kept[i] \in DOMAIN waiters /\ waiters[kept[i]] \in Calls /\ waiters[kept[i]] \notin gone
    BY <2>1, <1>3, <1>t, ElementOfSeq
  <2> QED
    BY <2>1, <2>2 DEF LimiterInv, LimiterTies
<1>6. active' = Cardinality(Holders')
  BY <1>1 DEF LimiterInv, LimiterTies
<1> QED
  BY <1>4, <1>5, <1>6 DEF LimiterTies

(* A holder leaves: its slot passes to the head waiter, or is free.        *)
LEMMA HolderReleases ==
  ASSUME LimiterInv, NEW c \in Holders, Release(c)
  PROVE  SlotStep /\ LimiterTies'
<1>t. /\ Holders \subseteq Calls /\ waiters \in Seq(Calls)
      /\ Len(waiters) \in Nat /\ DOMAIN waiters = 1..Len(waiters)
      /\ Cardinality(Holders) \in Nat /\ active = Cardinality(Holders)
      /\ waiters # <<>> => active = Capacity
      /\ pc \in [Calls -> Suspensions]
      /\ \A i \in DOMAIN waiters : pc[waiters[i]] = "waiting"
  BY LimiterFacts DEF LimiterInv, LimiterTies
<1>p. /\ pc[c] \in {"granted", "fetching"} /\ c \in Calls
      /\ Cardinality(Holders \ {c}) = Cardinality(Holders) - 1
      /\ Cardinality(Holders \ {c}) \in Nat
  <2>1. Holders \ {c} \in SUBSET Calls
    BY <1>t
  <2> QED
    BY <2>1, <1>t, CallCount DEF Holders
<1>1. CASE waiters = <<>>
  <2>1. /\ active' = active - 1 /\ waiters' = waiters
        /\ pc' = [d \in Calls |-> IF d = c THEN "done" ELSE pc[d]]
    BY <1>1, <1>t, <1>p DEF Release
  <2>2. Holders' = Holders \ {c}
    BY <2>1, <1>t DEF Holders
  <2>3. active' = Cardinality(Holders')
    BY <2>1, <2>2, <1>p, <1>t
  <2>4. LimiterPool!Release(c)
    BY <1>1, <2>1, <2>2 DEF LimiterPool!Release
  <2>5. SlotStep
    BY <2>4, <1>p DEF SlotStep, LimiterPool!Next
  <2>6. pc' \in [Calls -> Suspensions]
    BY <2>1, <1>t DEF Suspensions
  <2>7. \A i \in DOMAIN waiters' : pc'[waiters'[i]] = "waiting"
    BY <1>1, <2>1, EmptySeq
  <2> QED
    BY <2>3, <2>5, <2>6, <2>7 DEF LimiterTies
<1>2. CASE waiters # <<>>
  <2> DEFINE heir == Head(waiters)
             left == Holders \ {c}
  <2>0. /\ heir = waiters[1] /\ 1 \in DOMAIN waiters /\ heir \in Calls
        /\ Tail(waiters) \in Seq(Calls)
        /\ DOMAIN Tail(waiters) = 1..(Len(waiters) - 1)
        /\ \A i \in DOMAIN Tail(waiters) :
             Tail(waiters)[i] = waiters[i + 1] /\ i + 1 \in DOMAIN waiters
    BY <1>t, <1>2, LimiterPool!TailFacts
  <2>1. /\ active' = active /\ waiters' = Tail(waiters)
        /\ pc' = [d \in Calls |-> IF d = c THEN "done"
                                  ELSE IF d = heir THEN "granted" ELSE pc[d]]
    BY <1>2 DEF Release
  <2>2. pc[heir] = "waiting" /\ heir # c /\ heir \notin Holders
    BY <2>0, <1>t, <1>p DEF Holders
  <2>3. Holders' = left \cup {heir}
    BY <2>0, <2>1, <2>2, <1>t, <1>p DEF Holders
  <2>4. Cardinality(left \cup {heir}) = Cardinality(left) + 1
    <3>1. left \in SUBSET Calls /\ heir \in Calls \ left
      BY <1>t, <2>0, <2>2
    <3> QED
      BY <3>1, CallCount
  <2>5. active' = Cardinality(Holders')
    BY <2>1, <2>3, <2>4, <1>p, <1>t
  <2>6. LimiterPool!Release(c)
    BY <1>2, <2>1, <2>3 DEF LimiterPool!Release
  <2>7. SlotStep
    BY <2>6, <1>p DEF SlotStep, LimiterPool!Next
  <2>8. pc' \in [Calls -> Suspensions]
    BY <2>1, <1>t DEF Suspensions
  <2>9. ASSUME NEW i \in DOMAIN waiters' PROVE pc'[waiters'[i]] = "waiting"
    <3>1. /\ waiters'[i] = waiters[i + 1] /\ i + 1 \in DOMAIN waiters /\ i + 1 # 1
      BY <2>0, <2>1, <1>t
    <3>2. waiters[i + 1] # heir
      BY <3>1, <2>0 DEF LimiterInv, LimiterPool!Safe, LimiterPool!NoRepetition
    <3>3. waiters[i + 1] \in Calls /\ pc[waiters[i + 1]] = "waiting"
      BY <3>1, <1>t, ElementOfSeq
    <3>4. waiters[i + 1] # c
      BY <3>3, <1>p
    <3> QED
      BY <3>1, <3>2, <3>3, <3>4, <2>1
  <2> HIDE DEF heir, left
  <2> QED
    BY <2>5, <2>7, <2>8, <2>9 DEF LimiterTies
<1> QED
  BY <1>1, <1>2

(* A step that moves neither the queue nor a slot.                         *)
LEMMA SlotsStutter ==
  ASSUME LimiterInv, UNCHANGED <<active, waiters>>,
         pc' \in [Calls -> Suspensions],
         \A c \in Calls : pc[c] = "waiting" => pc'[c] = "waiting",
         Holders' = Holders
  PROVE  SlotStep /\ LimiterTies'
<1>1. \A i \in DOMAIN waiters : waiters[i] \in Calls
  BY LimiterFacts, ElementOfSeq
<1> QED
  BY <1>1 DEF LimiterInv, LimiterTies, SlotStep

(* acquire: a slot, a refusal or a place in the queue.                     *)
LEMMA CallsTakeSlots ==
  ASSUME LimiterInv, NEW c \in Calls, Call(c)
  PROVE  SlotStep /\ LimiterTies'
<1>t. /\ Holders \subseteq Calls /\ waiters \in Seq(Calls)
      /\ Len(waiters) \in Nat /\ DOMAIN waiters = 1..Len(waiters)
      /\ Cardinality(Holders) \in Nat /\ active = Cardinality(Holders)
      /\ Capacity \in Nat /\ Cardinality(Holders) <= Capacity
      /\ waiters # <<>> => active = Capacity
      /\ pc \in [Calls -> Suspensions]
      /\ \A i \in DOMAIN waiters : pc[waiters[i]] = "waiting"
      /\ \A d \in Calls : pc[d] # "waiting" => d \notin LimiterPool!Waiting
      /\ LimiterPool!Cardinality(Holders) = Cardinality(Holders)
  BY LimiterFacts, LimiterCount DEF LimiterInv, LimiterTies
<1>p. pc[c] = "idle" /\ c \notin Holders /\ c \notin LimiterPool!Waiting
  <2>1. pc[c] = "idle"
    BY DEF Call, TakeSlot, RefuseAborted, Queue
  <2> QED
    BY <2>1, <1>t DEF Holders
<1>1. CASE TakeSlot(c)
  <2>1. /\ active < Capacity /\ active' = active + 1 /\ waiters' = waiters
        /\ pc' = [pc EXCEPT ![c] = "granted"]
    BY <1>1 DEF TakeSlot, Goes
  <2>2. Holders' = Holders \cup {c}
    BY <2>1, <1>t DEF Holders
  <2>3. Cardinality(Holders \cup {c}) = Cardinality(Holders) + 1
    BY <1>p, <1>t, CallCount
  <2>4. LimiterPool!Take(c)
    BY <2>1, <2>2, <1>p, <1>t DEF LimiterPool!Take
  <2>5. pc' \in [Calls -> Suspensions]
    BY <2>1, <1>t DEF Suspensions
  <2>6. waiters = <<>>
    BY <2>1, <1>t
  <2>7. \A i \in DOMAIN waiters' : pc'[waiters'[i]] = "waiting"
    BY <2>1, <2>6, EmptySeq
  <2>8. SlotStep
    BY <2>4 DEF SlotStep, LimiterPool!Next
  <2> QED
    BY <2>1, <2>2, <2>3, <2>5, <2>7, <2>8, <1>t DEF LimiterTies
<1>2. CASE RefuseAborted(c)
  <2>1. UNCHANGED <<active, waiters>> /\ pc' = [pc EXCEPT ![c] = "done"]
    BY <1>2 DEF RefuseAborted, Goes
  <2>2. Holders' = Holders /\ pc' \in [Calls -> Suspensions]
    BY <2>1, <1>t, <1>p DEF Holders, Suspensions
  <2>3. \A d \in Calls : pc[d] = "waiting" => pc'[d] = "waiting"
    BY <2>1, <1>p, <1>t
  <2> QED
    BY <2>1, <2>2, <2>3, SlotsStutter
<1>3. CASE Queue(c)
  <2>1. /\ active >= Capacity /\ active' = active /\ waiters' = Append(waiters, c)
        /\ pc' = [pc EXCEPT ![c] = "waiting"]
    BY <1>3 DEF Queue, Goes
  <2>2. Holders' = Holders
    BY <2>1, <1>t, <1>p DEF Holders
  <2>3. LimiterPool!Wait(c)
    BY <2>1, <2>2, <1>p, <1>t DEF LimiterPool!Wait
  <2>4. SlotStep
    BY <2>3 DEF SlotStep, LimiterPool!Next
  <2>5. /\ DOMAIN waiters' = 1..(Len(waiters) + 1)
        /\ waiters'[Len(waiters) + 1] = c
        /\ \A i \in 1..Len(waiters) : waiters'[i] = waiters[i]
    BY <2>1, <1>t, AppendProperties, LenProperties
  <2>6. ASSUME NEW i \in DOMAIN waiters' PROVE pc'[waiters'[i]] = "waiting"
    <3>1. CASE i = Len(waiters) + 1
      BY <3>1, <2>5, <2>1, <1>t
    <3>2. CASE i # Len(waiters) + 1
      <4>1. i \in DOMAIN waiters /\ waiters'[i] = waiters[i] /\ waiters[i] \in Calls
        BY <3>2, <2>5, <1>t, ElementOfSeq
      <4> QED
        BY <4>1, <2>1, <1>t
    <3> QED
      BY <3>1, <3>2
  <2>7. pc' \in [Calls -> Suspensions]
    BY <2>1, <1>t DEF Suspensions
  <2> QED
    BY <2>1, <2>2, <2>4, <2>6, <2>7, <1>t DEF LimiterTies
<1> QED
  BY <1>1, <1>2, <1>3 DEF Call

(* Every step of the limiter is a step of the pool, or none.               *)
LEMMA LimiterTiesStep ==
  ASSUME LimiterInv, [LimiterNext]_limiterVars
  PROVE  SlotStep /\ LimiterTies'
<1>t. pc \in [Calls -> Suspensions]
  BY DEF LimiterInv, LimiterTies
<1>1. ASSUME NEW c \in Calls, Call(c) PROVE SlotStep /\ LimiterTies'
  BY <1>1, CallsTakeSlots
<1>2. ASSUME NEW c \in Calls, StartFetch(c) PROVE SlotStep /\ LimiterTies'
  <2>1. /\ UNCHANGED <<active, waiters>> /\ pc[c] = "granted"
        /\ pc' = [pc EXCEPT ![c] = "fetching"]
    BY <1>2 DEF StartFetch, Goes
  <2>2. Holders' = Holders /\ pc' \in [Calls -> Suspensions]
    BY <2>1, <1>t DEF Holders, Suspensions
  <2>3. \A d \in Calls : pc[d] = "waiting" => pc'[d] = "waiting"
    BY <2>1, <1>t
  <2> QED
    BY <2>1, <2>2, <2>3, SlotsStutter
<1>3. ASSUME NEW c \in Calls, ReturnUnused(c) \/ FinishFetch(c)
      PROVE  SlotStep /\ LimiterTies'
  <2>1. Release(c) /\ c \in Holders
    BY <1>3 DEF ReturnUnused, FinishFetch, Holders
  <2> QED
    BY <2>1, HolderReleases
<1>4. ASSUME NEW c \in Calls, TimeOutWaiting(c) PROVE SlotStep /\ LimiterTies'
  <2>1. /\ pc[c] = "waiting" /\ waiters' = Without({c}) /\ UNCHANGED active
        /\ pc' = [pc EXCEPT ![c] = "done"]
    BY <1>4 DEF TimeOutWaiting, Goes
  <2>2. pc' \in [Calls -> Suspensions]
    BY <2>1, <1>t DEF Suspensions
  <2>3. /\ \A d \in Calls : d \in {c} => pc[d] = "waiting" /\ pc'[d] = "done"
        /\ \A d \in Calls : d \notin {c} => pc'[d] = pc[d]
    BY <2>1, <1>t
  <2> QED
    BY <2>1, <2>2, <2>3, LeaversGiveUp
<1>5. ASSUME NEW s \in Signals, AbortSignal(s) PROVE SlotStep /\ LimiterTies'
  <2> DEFINE gone == {c \in Calls : pc[c] = "waiting" /\ SignalOf[c] = s}
  <2>1. /\ waiters' = Without(gone) /\ UNCHANGED active
        /\ pc' = [c \in Calls |-> IF c \in gone THEN "done" ELSE pc[c]]
    BY <1>5 DEF AbortSignal
  <2>2. pc' \in [Calls -> Suspensions]
    BY <2>1, <1>t DEF Suspensions
  <2>3. /\ \A d \in Calls : d \in gone => pc[d] = "waiting" /\ pc'[d] = "done"
        /\ \A d \in Calls : d \notin gone => pc'[d] = pc[d]
    BY <2>1, <1>t
  <2> HIDE DEF gone
  <2> QED
    BY <2>1, <2>2, <2>3, LeaversGiveUp
<1>6. CASE Tick \/ UNCHANGED limiterVars
  <2>1. UNCHANGED <<pc, active, waiters>>
    BY <1>6 DEF Tick, limiterVars
  <2>2. Holders' = Holders
    BY <2>1 DEF Holders
  <2> QED
    BY <2>1, <2>2, <1>t, SlotsStutter
<1> QED
  BY <1>1, <1>2, <1>3, <1>4, <1>5, <1>6 DEF LimiterNext, Step, AllServed

LEMMA LimiterSlotConstants == LimiterPool!SlotAssumption
<1>1. LimiterPool!IsFiniteSet(Calls) <=> IsFiniteSet(Calls)
  BY DEF LimiterPool!IsFiniteSet, IsFiniteSet
<1> QED
  BY <1>1, LimiterAssumption DEF LimiterPool!SlotAssumption

LEMMA LimiterInductive == LimiterInv /\ [LimiterNext]_limiterVars => SlotStep /\ LimiterInv'
<1> SUFFICES ASSUME LimiterInv, [LimiterNext]_limiterVars PROVE SlotStep /\ LimiterInv'
  OBVIOUS
<1>1. SlotStep /\ LimiterTies'
  BY LimiterTiesStep
<1>2. LimiterPool!Safe'
  BY <1>1, LimiterSlotConstants, LimiterPool!SafeInductive
  DEF LimiterInv, LimiterTies, SlotStep, LimiterPool!slotVars
<1> QED
  BY <1>1, <1>2 DEF LimiterInv

LEMMA LimiterInitially ==
  ASSUME LimiterInit PROVE LimiterInv /\ Holders = {} /\ waiters = <<>>
<1>1. waiters = <<>> /\ active = 0 /\ pc = [c \in Calls |-> "idle"]
  BY DEF LimiterInit
<1>2. Holders = {}
  BY <1>1 DEF Holders
<1>3. Cardinality({}) = 0 /\ LimiterPool!Cardinality({}) = 0
  BY LimiterCount, FS_EmptySet
<1>4. LimiterPool!Safe
  BY <1>1, <1>2, <1>3, LimiterAssumption, EmptySeq
  DEF LimiterPool!Safe, LimiterPool!SlotTypeOK, LimiterPool!WorkConserving,
      LimiterPool!NoRepetition
<1>5. /\ pc \in [Calls -> Suspensions] /\ active = Cardinality(Holders)
      /\ \A i \in DOMAIN waiters : pc[waiters[i]] = "waiting"
  BY <1>1, <1>2, <1>3, EmptySeq DEF Suspensions
<1> QED
  BY <1>1, <1>2, <1>4, <1>5 DEF LimiterInv, LimiterTies

(* LimiterPool is the same pool as the model's GlobalSlots.                *)
LEMMA SamePool == LimiterPool!Next => GlobalSlots!Next
BY DEF LimiterPool!Next, LimiterPool!GiveUp, LimiterPool!Take, LimiterPool!Wait,
       LimiterPool!Release, LimiterPool!Waiting, LimiterPool!Range,
       LimiterPool!Cardinality,
       GlobalSlots!Next, GlobalSlots!GiveUp, GlobalSlots!Take, GlobalSlots!Wait,
       GlobalSlots!Release, GlobalSlots!Waiting, GlobalSlots!Range,
       GlobalSlots!Cardinality

(* The global limiter implements the abstract slot pool, for any number of *)
(* calls, slots and signals: a slot is handed over exactly once, no expiry and *)
(* no abort loses one or lets anyone overtake, whatever comes between the  *)
(* hand-over of a slot and its taking up (release and onAbort).            *)
THEOREM GlobalLimiterIsAPool == LimiterSpec => GlobalSlots!Spec
<1>1. LimiterInit => GlobalSlots!Init
  <2> SUFFICES ASSUME LimiterInit PROVE GlobalSlots!Init
    OBVIOUS
  <2>1. LimiterInv /\ Holders = {} /\ waiters = <<>>
    BY LimiterInitially
  <2>2. \A S : GlobalSlots!Cardinality(S) = LimiterPool!Cardinality(S)
    BY DEF GlobalSlots!Cardinality, LimiterPool!Cardinality
  <2>3. GlobalSlots!Safe
    BY <2>1, <2>2
    DEF LimiterInv, LimiterPool!Safe, LimiterPool!SlotTypeOK, LimiterPool!WorkConserving,
        LimiterPool!NoRepetition, LimiterPool!Waiting, LimiterPool!Range,
        GlobalSlots!Safe, GlobalSlots!SlotTypeOK, GlobalSlots!WorkConserving,
        GlobalSlots!NoRepetition, GlobalSlots!Waiting, GlobalSlots!Range
  <2>4. Cardinality(Calls) \in Nat /\ GlobalSlots!Cardinality(Calls) = Cardinality(Calls)
    BY <2>2, LimiterCount, CallCount
  <2>5. 0 \in 0..GlobalSlots!Cardinality(Calls) /\ <<>> \in [1..0 -> Calls]
    BY <2>4
  <2> QED
    BY <2>1, <2>3, <2>5 DEF GlobalSlots!Init
<1>2. LimiterInv /\ [LimiterNext]_limiterVars =>
        LimiterInv' /\ [GlobalSlots!Next]_<<Holders, waiters>>
  BY LimiterInductive, SamePool DEF SlotStep
<1>3. LimiterInit => LimiterInv
  BY LimiterInitially
<1> QED
  BY <1>1, <1>2, <1>3, PTL DEF LimiterSpec, GlobalSlots!Spec, GlobalSlots!slotVars

-----------------------------------------------------------------------------
(* The models.                                                              *)

(* The record of a model: what is kept of it is the log since its last      *)
(* recovery, and a count of successes means that the last was one.          *)
HealthRecords == [recent : Seq(BOOLEAN), wins : Nat, demotion : {0, 1}]
RecordOK(h, l) ==
  /\ h \in HealthRecords /\ l = h.recent
  /\ h.wins > 0 => Len(h.recent) >= 1 /\ ~h.recent[Len(h.recent)]
BooksOK(b) ==
  /\ b.health \in [Models -> HealthRecords] /\ b.log \in [Models -> Seq(BOOLEAN)]
  /\ \A m \in Models : RecordOK(b.health[m], b.log[m])

LEMMA WindowFacts ==
  ASSUME NEW s \in Seq(BOOLEAN), NEW x \in BOOLEAN
  PROVE  LET w == Window(Append(s, x)) IN
         w \in Seq(BOOLEAN) /\ Len(w) >= 1 /\ Len(w) \in Nat /\ w[Len(w)] = x
<1> DEFINE t == Append(s, x)
<1>1. t \in Seq(BOOLEAN) /\ Len(t) = Len(s) + 1 /\ Len(s) \in Nat /\ t[Len(t)] = x
  BY AppendProperties, LenProperties
<1> HIDE DEF t
<1>2. CASE Len(t) > HEALTH_WINDOW
  <2>1. Len(t) >= 2 /\ t # <<>>
    BY <1>1, <1>2, RouterAssumption
  <2>2. /\ Tail(t) \in Seq(BOOLEAN) /\ Len(Tail(t)) = Len(t) - 1
        /\ \A i \in 1..Len(Tail(t)) : Tail(t)[i] = t[i + 1]
    BY <1>1, <2>1, HeadTailProperties
  <2>3. Tail(t)[Len(t) - 1] = x
    BY <1>1, <2>1, <2>2
  <2> QED  BY <1>1, <1>2, <2>1, <2>2, <2>3 DEF Window, t
<1>3. CASE ~(Len(t) > HEALTH_WINDOW)
  BY <1>1, <1>3 DEF Window, t
<1> QED  BY <1>2, <1>3

LEMMA FailedOK ==
  ASSUME NEW h \in HealthRecords
  PROVE  /\ RecordOK(Failed(h), Window(Append(h.recent, TRUE)))
         /\ h.demotion = 0 /\ Failed(h).demotion = 1 => Fails(Failed(h).recent) >= FAIL_THRESHOLD
         /\ h.demotion = 1 => Failed(h).demotion = 1
<1> DEFINE w == Window(Append(h.recent, TRUE))
<1>1. w \in Seq(BOOLEAN)
  BY WindowFacts DEF HealthRecords
<1> HIDE DEF w
<1>2. /\ Failed(h) \in HealthRecords /\ Failed(h).recent = w /\ Failed(h).wins = 0
      /\ Failed(h).demotion = IF Fails(w) >= FAIL_THRESHOLD THEN 1 ELSE h.demotion
  BY <1>1 DEF Failed, Failed_KeepsWins, HealthRecords, w
<1>3. RecordOK(Failed(h), w)
  BY <1>2 DEF RecordOK
<1>4. /\ h.demotion = 0 /\ Failed(h).demotion = 1 => Fails(Failed(h).recent) >= FAIL_THRESHOLD
      /\ h.demotion = 1 => Failed(h).demotion = 1
  BY <1>2
<1> QED  BY <1>3, <1>4 DEF w

LEMMA SucceededOK ==
  ASSUME NEW h \in HealthRecords
  PROVE  /\ Succeeded(h) = emptyHealth => RecordOK(Succeeded(h), <<>>)
         /\ Succeeded(h).demotion = h.demotion =>
              RecordOK(Succeeded(h), Window(Append(h.recent, FALSE)))
         /\ Succeeded(h).demotion # h.demotion =>
              /\ h.demotion = 1 /\ Succeeded(h) = emptyHealth
              /\ h.wins + 1 >= RECOVER_SUCCESSES
<1> DEFINE w == Window(Append(h.recent, FALSE))
           wins == Least(h.wins + 1, RECOVER_SUCCESSES)
           more == [h EXCEPT !.recent = w, !.wins = wins]
<1>1. w \in Seq(BOOLEAN) /\ Len(w) >= 1 /\ w[Len(w)] = FALSE
  BY WindowFacts DEF HealthRecords
<1>2. h.wins \in Nat /\ wins \in Nat /\ (wins >= RECOVER_SUCCESSES => h.wins + 1 >= RECOVER_SUCCESSES)
  BY RouterAssumption DEF HealthRecords, Least
<1>3. Succeeded(h) = IF h.demotion > 0 /\ wins >= RECOVER_SUCCESSES THEN emptyHealth ELSE more
  BY DEF Succeeded
<1> HIDE DEF w, wins
<1>4. /\ more \in HealthRecords /\ more.recent = w /\ more.wins = wins
      /\ more.demotion = h.demotion
  BY <1>1, <1>2 DEF HealthRecords
<1> HIDE DEF more
<1>5. RecordOK(more, w)
  BY <1>1, <1>4 DEF RecordOK
<1>6. RecordOK(emptyHealth, <<>>) /\ emptyHealth.demotion = 0
  BY DEF RecordOK, emptyHealth, HealthRecords
<1>7. h.demotion \in {0, 1}
  BY DEF HealthRecords
<1>8. /\ Succeeded(h) = emptyHealth => RecordOK(Succeeded(h), <<>>)
      /\ Succeeded(h).demotion = h.demotion => RecordOK(Succeeded(h), w)
      /\ Succeeded(h).demotion # h.demotion =>
           h.demotion = 1 /\ Succeeded(h) = emptyHealth /\ h.wins + 1 >= RECOVER_SUCCESSES
  BY <1>2, <1>3, <1>4, <1>5, <1>6, <1>7
<1> QED  BY <1>8 DEF w

(* An outcome entered.                                                      *)
Outcomes == {"success", "hard_fail", "soft"}
LEMMA EnteredKeeps ==
  ASSUME NEW b, BooksOK(b), NEW m \in Models, NEW o \in Outcomes
  PROVE  LET e == Entered(b, m, o) IN
         /\ BooksOK(e)
         /\ \A n \in Models :
              /\ b.health[n].demotion = 0 /\ e.health[n].demotion = 1 =>
                   Fails(e.log[n]) >= FAIL_THRESHOLD
              /\ b.health[n].demotion = 1 /\ e.health[n].demotion = 0 =>
                   (RECOVER_SUCCESSES > 1 => Len(b.log[n]) >= 1 /\ ~b.log[n][Len(b.log[n])])
<1> DEFINE h == b.health[m]
           e == Entered(b, m, o)
<1>1. /\ b.health \in [Models -> HealthRecords] /\ b.log \in [Models -> Seq(BOOLEAN)]
      /\ \A n \in Models : RecordOK(b.health[n], b.log[n])
      /\ h \in HealthRecords /\ b.log[m] = h.recent /\ h.demotion \in {0, 1}
  BY DEF BooksOK, RecordOK, HealthRecords
<1>2. CASE o = "soft"
  <2>1. e.health = b.health /\ e.log = b.log
    BY <1>2 DEF Entered, Record
  <2> QED  BY <1>1, <2>1 DEF BooksOK
<1>3. CASE o = "hard_fail"
  <2> DEFINE w == Window(Append(h.recent, TRUE))
  <2>1. /\ RecordOK(Failed(h), w)
        /\ h.demotion = 0 /\ Failed(h).demotion = 1 => Fails(Failed(h).recent) >= FAIL_THRESHOLD
        /\ h.demotion = 1 => Failed(h).demotion = 1
    BY <1>1, FailedOK
  <2>2. w \in Seq(BOOLEAN) /\ Failed(h) \in HealthRecords /\ Failed(h).recent = w
    BY <2>1 DEF RecordOK, HealthRecords
  <2>3. Record(b.health, m, o) = [b.health EXCEPT ![m] = Failed(h)]
    BY <1>3 DEF Record
  <2>4. e.health = [b.health EXCEPT ![m] = Failed(h)] /\ e.log = [b.log EXCEPT ![m] = w]
    <3>1. [b.health EXCEPT ![m] = Failed(h)][m] = Failed(h)
      BY <1>1
    <3>2. ~(h.demotion = 1 /\ Record(b.health, m, o)[m].demotion = 0)
      BY <2>1, <2>3, <3>1
    <3> QED  BY <1>1, <1>3, <2>3, <3>2 DEF Entered
  <2> HIDE DEF e, w
  <2>5. e.health \in [Models -> HealthRecords] /\ e.log \in [Models -> Seq(BOOLEAN)]
    BY <1>1, <2>2, <2>4
  <2>6. \A n \in Models : n # m => e.health[n] = b.health[n] /\ e.log[n] = b.log[n]
    BY <1>1, <2>4
  <2>7. e.health[m] = Failed(h) /\ e.log[m] = w
    BY <1>1, <2>4
  <2>8. BooksOK(e)
    BY <1>1, <2>1, <2>5, <2>6, <2>7 DEF BooksOK
  <2> QED  BY <2>1, <2>2, <2>6, <2>7, <2>8 DEF e
<1>4. CASE o = "success"
  <2> DEFINE w == Window(Append(h.recent, FALSE))
  <2>1. /\ Succeeded(h) = emptyHealth => RecordOK(Succeeded(h), <<>>)
        /\ Succeeded(h).demotion = h.demotion => RecordOK(Succeeded(h), w)
        /\ Succeeded(h).demotion # h.demotion =>
             /\ h.demotion = 1 /\ Succeeded(h) = emptyHealth
             /\ h.wins + 1 >= RECOVER_SUCCESSES
    BY <1>1, SucceededOK
  <2>2. emptyHealth.demotion = 0
    BY DEF emptyHealth
  <2>3. Record(b.health, m, o) = [b.health EXCEPT ![m] = Succeeded(h)]
    BY <1>4 DEF Record
  <2> DEFINE l == IF Succeeded(h).demotion # h.demotion THEN <<>> ELSE w
  <2>4. RecordOK(Succeeded(h), l) /\ l \in Seq(BOOLEAN) /\ Succeeded(h) \in HealthRecords
    BY <2>1 DEF RecordOK, HealthRecords
  <2>5. e.health = [b.health EXCEPT ![m] = Succeeded(h)] /\ e.log = [b.log EXCEPT ![m] = l]
    <3>1. Record(b.health, m, o)[m] = Succeeded(h)
      BY <1>1, <2>3
    <3>2. (h.demotion = 1 /\ Succeeded(h).demotion = 0) <=> Succeeded(h).demotion # h.demotion
      BY <1>1, <2>1, <2>2
    <3> QED  BY <1>1, <1>4, <2>3, <3>1, <3>2 DEF Entered
  <2> HIDE DEF e, l
  <2>6. e.health \in [Models -> HealthRecords] /\ e.log \in [Models -> Seq(BOOLEAN)]
    BY <1>1, <2>4, <2>5
  <2>7. \A n \in Models : n # m => e.health[n] = b.health[n] /\ e.log[n] = b.log[n]
    BY <1>1, <2>5
  <2>8. e.health[m] = Succeeded(h) /\ e.log[m] = l
    BY <1>1, <2>5
  <2>9. BooksOK(e)
    BY <1>1, <2>4, <2>6, <2>7, <2>8 DEF BooksOK
  <2>10. h.demotion = 0 => Succeeded(h).demotion = 0
    BY <2>1
  <2>11. Succeeded(h).demotion # h.demotion /\ RECOVER_SUCCESSES > 1 =>
           Len(b.log[m]) >= 1 /\ ~b.log[m][Len(b.log[m])]
    <3> SUFFICES ASSUME Succeeded(h).demotion # h.demotion, RECOVER_SUCCESSES > 1
                 PROVE  h.wins > 0
      BY <1>1 DEF RecordOK
    <3>1. h.wins \in Nat /\ h.wins + 1 >= RECOVER_SUCCESSES /\ RECOVER_SUCCESSES \in Nat
      BY <1>1, <2>1, RouterAssumption DEF HealthRecords
    <3> QED  BY <3>1
  <2>12. \A n \in Models :
              /\ b.health[n].demotion = 0 /\ e.health[n].demotion = 1 =>
                   Fails(e.log[n]) >= FAIL_THRESHOLD
              /\ b.health[n].demotion = 1 /\ e.health[n].demotion = 0 =>
                   (RECOVER_SUCCESSES > 1 => Len(b.log[n]) >= 1 /\ ~b.log[n][Len(b.log[n])])
    BY <2>7, <2>8, <2>10, <2>11
  <2> QED  BY <2>9, <2>12 DEF e
<1> QED  BY <1>2, <1>3, <1>4 DEF Outcomes

(* Whatever the calls before left behind.                                   *)
LEMMA HistoryOK ==
  ASSUME NEW past \in Histories
  PROVE  BooksOK(Last(past))
<1>1. Chronicle(past)
  BY HistoryAssumption
<1>2. BooksOK(Books)
  <2>1. RecordOK(emptyHealth, <<>>) /\ emptyHealth \in HealthRecords /\ <<>> \in Seq(BOOLEAN)
    BY DEF RecordOK, emptyHealth, HealthRecords
  <2>2. /\ Books.health \in [Models -> HealthRecords] /\ Books.log \in [Models -> Seq(BOOLEAN)]
        /\ \A m \in Models : Books.health[m] = emptyHealth /\ Books.log[m] = <<>>
    BY <2>1 DEF Books
  <2> QED  BY <2>1, <2>2 DEF BooksOK
<1> DEFINE bad == {k \in 1..Len(past) : ~BooksOK(past[k])}
<1>3. bad = {}
  <2> SUFFICES ASSUME bad # {} PROVE FALSE
    OBVIOUS
  <2>1. PICK m \in bad : \A k \in bad : m <= k
    <3>1. bad \subseteq Nat
      BY <1>1 DEF Chronicle
    <3> HIDE DEF bad
    <3> QED  BY <3>1, LeastNat
  <2>2. m \in 1..Len(past) /\ ~BooksOK(past[m]) /\ m # 1
    BY <1>1, <1>2 DEF Chronicle
  <2>3. m - 1 \in 1..Len(past) /\ m \in 2..Len(past)
    BY <1>1, <2>2 DEF Chronicle
  <2>4. BooksOK(past[m - 1])
    BY <2>1, <2>3
  <2>5. PICK n \in Models, o \in {"success", "hard_fail"} : past[m] = Entered(past[m - 1], n, o)
    BY <1>1, <2>3 DEF Chronicle
  <2>6. BooksOK(Entered(past[m - 1], n, o))
    <3>1. o \in Outcomes
      BY DEF Outcomes
    <3> QED  BY <2>4, <3>1, EnteredKeeps
  <2> QED  BY <2>2, <2>5, <2>6
<1>4. Len(past) \in 1..Len(past)
  BY <1>1 DEF Chronicle
<1> QED  BY <1>3, <1>4 DEF Last

-----------------------------------------------------------------------------
(* The order of the models has a first in every set of candidates: the      *)
(* least effective order, then the demotion, then the rank.                 *)
Standing(h) == \A m \in Models : h[m] \in HealthRecords

LEMMA FirstPicked ==
  ASSUME NEW h, Standing(h), NEW fitting \in SUBSET Candidates, fitting # {}
  PROVE  /\ Pick(fitting, h) \in fitting
         /\ \A d \in fitting \ {Pick(fitting, h)} : Before(Pick(fitting, h), d, h)
<1> DEFINE dem(x) == h[x.model].demotion
           eff(x) == x.order + dem(x)
<1>1. \A c \in Candidates : dem(c) \in {0, 1} /\ c.order \in Nat /\ c.rank \in Nat /\ eff(c) \in Nat
  BY RouterAssumption DEF Standing, HealthRecords, Models
<1>2. PICK a \in fitting : \A d \in fitting : eff(a) <= eff(d)
  <2> DEFINE T == {eff(x) : x \in fitting}
  <2>1. T \subseteq Nat /\ T # {}
    BY <1>1
  <2>2. PICK n \in T : \A k \in T : n <= k
    <3> HIDE DEF T
    <3> QED  BY <2>1, LeastNat
  <2> QED  BY <2>2
<1> DEFINE A == {x \in fitting : eff(x) = eff(a)}
<1>3. PICK b \in A : \A d \in A : dem(b) <= dem(d)
  <2> DEFINE T == {dem(x) : x \in A}
  <2>1. T \subseteq Nat /\ T # {}
    BY <1>1
  <2>2. PICK n \in T : \A k \in T : n <= k
    <3> HIDE DEF T
    <3> QED  BY <2>1, LeastNat
  <2> QED  BY <2>2
<1> DEFINE B == {x \in A : dem(x) = dem(b)}
<1>4. PICK c \in B : \A d \in B : c.rank <= d.rank
  <2> DEFINE T == {x.rank : x \in B}
  <2>1. T \subseteq Nat /\ T # {}
    BY <1>1
  <2>2. PICK n \in T : \A k \in T : n <= k
    <3> HIDE DEF T
    <3> QED  BY <2>1, LeastNat
  <2> QED  BY <2>2
<1>5. c \in fitting /\ eff(c) = eff(a) /\ dem(c) = dem(b)
  OBVIOUS
<1>6. ASSUME NEW d \in fitting \ {c}
      PROVE  \/ eff(c) < eff(d)
             \/ (eff(c) = eff(d) /\ dem(c) < dem(d))
             \/ (eff(c) = eff(d) /\ dem(c) = dem(d) /\ c.rank < d.rank)
  <2>1. CASE eff(d) # eff(a)
    <3>1. eff(a) <= eff(d) /\ eff(a) \in Nat /\ eff(d) \in Nat
      BY <1>1, <1>2
    <3> HIDE DEF eff
    <3> QED  BY <1>5, <2>1, <3>1
  <2>2. CASE eff(d) = eff(a) /\ dem(d) # dem(b)
    <3>1. dem(b) <= dem(d) /\ dem(b) \in {0, 1} /\ dem(d) \in {0, 1}
      BY <1>1, <1>3, <2>2
    <3> HIDE DEF eff, dem
    <3> QED  BY <1>5, <2>2, <3>1
  <2>3. CASE eff(d) = eff(a) /\ dem(d) = dem(b)
    <3>1. c.rank <= d.rank /\ c.rank \in Nat /\ d.rank \in Nat
      BY <1>1, <1>4, <2>3
    <3>2. c.order = d.order
      BY <1>1, <1>5, <2>3
    <3>3. c.rank # d.rank
      BY <1>5, <3>2, RouterAssumption
    <3> HIDE DEF eff, dem
    <3> QED  BY <1>5, <2>3, <3>1, <3>3
  <2> QED  BY <2>1, <2>2, <2>3
<1>7. \A d \in fitting \ {c} : Before(c, d, h)
  BY <1>6 DEF Before
<1> QED  BY <1>5, <1>7 DEF Pick

(* The limit of a request is at least one token, and at most the model's.   *)
LEMMA ReserveFacts ==
  ASSUME NEW c \in Candidates, NEW floor \in Nat
  PROVE  /\ Reserve(c, floor) \in Nat \ {0} /\ Reserve(c, floor) <= c.max
         /\ floor > 0 => Reserve(c, floor) <= floor
BY RouterAssumption DEF Reserve, Least

-----------------------------------------------------------------------------
(* A transform between two requests (Midway), while one is under way and    *)
(* when it has ended.  `best` and `cost` agree with what was received; the  *)
(* floor is only raised by a cut answer; who was tried was asked.           *)
RunFields ==
  {"at", "input", "tried", "best", "floor", "escalations", "cost", "with", "cap", "attempt",
   "result", "asked", "longest", "whole", "told"}
Discreet(r) == r.input.sensitive => \A c \in r.asked : c.local
Midway(r) ==
  /\ RunFields \subseteq DOMAIN r /\ r.input \in Inputs /\ r.floor \in Nat /\ Discreet(r)
  /\ r.at = "asked" /\ r.best \in Nat /\ r.best = r.longest /\ r.cost = r.told /\ ~r.whole
  /\ r.best = 0 \/ r.input.budget > 0 => r.floor = r.input.budget
  /\ r.tried \subseteq {c.model : c \in r.asked}
Underway(r) ==
  /\ Midway(r) /\ r.with \in Candidates /\ r.with \in r.asked
  /\ r.cap = Reserve(r.with, r.floor) /\ r.with.context >= r.input.tokens + r.cap
Final(r) ==
  /\ Discreet(r) /\ r.cost = r.told
  /\ r.result = "answer" => r.whole
  /\ r.result = "cut" => ~r.whole /\ r.best = r.longest /\ r.best > 0
  /\ r.result = "transform_provider_failed" =>
       /\ ~r.whole /\ r.longest = 0
       /\ \A c \in Candidates :
            Suits(c, r.input) /\ c.context >= r.input.tokens + Reserve(c, r.input.budget)
              => c.model \in {d.model : d \in r.asked}
RunOK(r) ==
  /\ r.at \in {"idle", "asked", "done", "hung"}
  /\ r.at = "asked" => Underway(r)
  /\ r.at = "done" => Final(r)
  /\ r.at = "hung" => Discreet(r)
RouterInv ==
  /\ BooksOK([health |-> health, log |-> log])
  /\ DOMAIN run = Transforms /\ \A t \in Transforms : RunOK(run[t])

LEMMA FinishOK ==
  ASSUME NEW r, RunFields \subseteq DOMAIN r, NEW result,
         Discreet(r), r.cost = r.told,
         result = "answer" => r.whole,
         result = "cut" => ~r.whole /\ r.best = r.longest /\ r.best > 0,
         result = "transform_provider_failed" =>
           /\ ~r.whole /\ r.longest = 0
           /\ \A c \in Candidates :
                Suits(c, r.input) /\ c.context >= r.input.tokens + Reserve(c, r.input.budget)
                  => c.model \in {d.model : d \in r.asked}
  PROVE  RunOK(Finish(r, result)) /\ Finish(r, result).at = "done"
<1> DEFINE f == Finish(r, result)
<1>1. /\ f.at = "done" /\ f.result = result /\ f.cost = r.cost /\ f.told = r.told
      /\ f.whole = r.whole /\ f.best = r.best /\ f.longest = r.longest /\ f.input = r.input
      /\ f.asked = r.asked
  BY DEF Finish, RunFields
<1> HIDE DEF f
<1>2. Final(f)
  BY <1>1 DEF Final, Discreet
<1>3. RunOK(f) /\ f.at = "done"
  BY <1>1, <1>2 DEF RunOK
<1> QED  BY <1>3 DEF f

(* The transform ends because no model is left.                             *)
LEMMA ExhaustedOK ==
  ASSUME NEW r, Midway(r), {c \in Candidates : Fits(c, r)} = {}
  PROVE  RunOK(Exhausted(r)) /\ Exhausted(r).at = "done"
<1>1. /\ RunFields \subseteq DOMAIN r /\ Discreet(r) /\ r.cost = r.told /\ ~r.whole
      /\ r.best = r.longest /\ r.best \in Nat
  BY DEF Midway
<1>2. CASE r.best > 0
  <2>1. RunOK(Finish(r, "cut")) /\ Finish(r, "cut").at = "done"
    BY <1>1, <1>2, FinishOK
  <2> QED  BY <1>2, <2>1 DEF Exhausted
<1>3. CASE ~(r.best > 0) /\ r.tried = {}
  <2> DEFINE raw == IF r.input.sensitive THEN "raw: sensitive" ELSE "raw: no model"
  <2>1. RunOK(Finish(r, raw)) /\ Finish(r, raw).at = "done"
    BY <1>1, FinishOK
  <2> QED  BY <1>3, <2>1 DEF Exhausted
<1>4. CASE ~(r.best > 0) /\ r.tried # {}
  <2>1. r.longest = 0 /\ r.floor = r.input.budget /\ r.tried \subseteq {c.model : c \in r.asked}
    BY <1>1, <1>4 DEF Midway
  <2>2. \A c \in Candidates :
          Suits(c, r.input) /\ c.context >= r.input.tokens + Reserve(c, r.input.budget)
            => c.model \in {d.model : d \in r.asked}
    BY <2>1 DEF Fits
  <2>3. /\ RunOK(Finish(r, "transform_provider_failed"))
        /\ Finish(r, "transform_provider_failed").at = "done"
    BY <1>1, <2>1, <2>2, FinishOK
  <2> QED  BY <1>4, <2>3 DEF Exhausted
<1> QED  BY <1>2, <1>3, <1>4

(* A turn of the loop: the next request, or the end.                        *)
LEMMA TurnOK ==
  ASSUME NEW r, Midway(r), NEW h, Standing(h)
  PROVE  RunOK(Turn(r, h))
<1> DEFINE fitting == {c \in Candidates : Fits(c, r)}
<1>1. CASE fitting = {}
  BY <1>1, ExhaustedOK DEF Turn
<1>2. CASE fitting # {}
  <2> DEFINE c == Pick(fitting, h)
             q == [r EXCEPT !.with = c, !.cap = Reserve(c, r.floor), !.attempt = 1,
                            !.asked = @ \cup {c}]
  <2>1. Turn(r, h) = q
    BY <1>2 DEF Turn
  <2>2. c \in fitting
    <3> HIDE DEF fitting
    <3>1. fitting \in SUBSET Candidates
      BY DEF fitting
    <3> QED  BY <1>2, <3>1, FirstPicked
  <2>3. c \in Candidates /\ Fits(c, r)
    BY <2>2
  <2> HIDE DEF c
  <2>4. /\ RunFields \subseteq DOMAIN q /\ q.with = c /\ q.cap = Reserve(c, r.floor)
        /\ q.asked = r.asked \cup {c} /\ q.at = r.at /\ q.input = r.input /\ q.floor = r.floor
        /\ q.best = r.best /\ q.longest = r.longest /\ q.cost = r.cost /\ q.told = r.told
        /\ q.whole = r.whole /\ q.tried = r.tried
    BY DEF Midway, RunFields
  <2> HIDE DEF q, fitting
  <2>5. Discreet(q)
    BY <2>3, <2>4 DEF Midway, Discreet, Fits, Suits
  <2>6. Midway(q)
    BY <2>4, <2>5 DEF Midway
  <2>7. Underway(q)
    BY <2>3, <2>4, <2>6 DEF Underway, Fits
  <2>8. RunOK(q)
    BY <2>4, <2>7 DEF RunOK, Midway, Underway
  <2> QED  BY <2>1, <2>8
<1> QED  BY <1>1, <1>2

-----------------------------------------------------------------------------
(* The steps of a transform.                                                *)
LEMMA BooksKept ==
  ASSUME RouterInv, NEW m \in Models, NEW o \in Outcomes,
         NEW e, e = Entered([health |-> health, log |-> log], m, o)
  PROVE  BooksOK([health |-> e.health, log |-> e.log]) /\ Standing(e.health)
<1>1. BooksOK(e)
  BY EnteredKeeps DEF RouterInv
<1> QED  BY <1>1 DEF BooksOK, Standing

LEMMA RunKept ==
  ASSUME RouterInv, NEW t \in Transforms, NEW x, RunOK(x), run' = [run EXCEPT ![t] = x],
         BooksOK([health |-> health', log |-> log'])
  PROVE  RouterInv'
BY DEF RouterInv

LEMMA StandingNow == ASSUME RouterInv PROVE Standing(health)
BY DEF RouterInv, BooksOK, Standing

LEMMA UnderwayFacts ==
  ASSUME RouterInv, NEW t \in Transforms, Asking(t)
  PROVE  Underway(run[t]) /\ Midway(run[t]) /\ run[t].with.model \in Models
BY DEF RouterInv, RunOK, Underway, Asking, Models

LEMMA TransformKeeps ==
  ASSUME RouterInv, NEW t \in Transforms, NEW i \in Inputs, Transform(t, i) PROVE RouterInv'
<1> DEFINE n == NewRun(i)
<1>1. Midway(n)
  <2>1. i.budget \in Nat
    BY RouterAssumption
  <2> QED  BY <2>1 DEF NewRun, Midway, RunFields, Discreet
<1>2. RunOK(Turn(n, health))
  <2> HIDE DEF n
  <2> QED  BY <1>1, StandingNow, TurnOK
<1>3. RunOK(Finish(n, "raw: unsupported"))
  <2> HIDE DEF n
  <2>1. RunFields \subseteq DOMAIN n /\ Discreet(n) /\ n.cost = n.told
    BY <1>1 DEF Midway
  <2> QED  BY <2>1, FinishOK
<1>4. BooksOK([health |-> health', log |-> log'])
  BY DEF Transform, RouterInv
<1>5. \/ run' = [run EXCEPT ![t] = Turn(n, health)]
      \/ run' = [run EXCEPT ![t] = Finish(n, "raw: unsupported")]
  BY DEF Transform
<1> HIDE DEF n
<1> QED  BY <1>2, <1>3, <1>4, <1>5, RunKept

(* A model that failed is tried.                                            *)
LEMMA FailsKeeps ==
  ASSUME RouterInv, NEW t \in Transforms, NEW blank, ProviderFails(t, blank) PROVE RouterInv'
<1> DEFINE r == run[t]
<1>1. Asking(t)
  BY DEF ProviderFails
<1>2. Underway(r) /\ Midway(r) /\ r.with.model \in Models
  BY <1>1, UnderwayFacts
<1>3. CASE run' = [run EXCEPT ![t] = [r EXCEPT !.attempt = @ + 1]] /\ UNCHANGED <<health, calls, log>>
  <2> DEFINE q == [r EXCEPT !.attempt = @ + 1]
  <2>1. /\ RunFields \subseteq DOMAIN q /\ q.with = r.with /\ q.cap = r.cap
        /\ q.asked = r.asked /\ q.at = r.at /\ q.input = r.input /\ q.floor = r.floor
        /\ q.best = r.best /\ q.longest = r.longest /\ q.cost = r.cost /\ q.told = r.told
        /\ q.whole = r.whole /\ q.tried = r.tried
    BY <1>2 DEF Midway, RunFields
  <2> HIDE DEF q, r
  <2>2. Midway(q)
    BY <1>2, <2>1 DEF Midway, Discreet
  <2>3. RunOK(q)
    BY <1>2, <2>1, <2>2 DEF RunOK, Underway, Midway
  <2>4. BooksOK([health |-> health', log |-> log'])
    BY <1>3 DEF RouterInv
  <2>5. run' = [run EXCEPT ![t] = q]
    BY <1>3 DEF q
  <2> QED  BY <2>3, <2>4, <2>5, RunKept
<1>4. CASE HardFail(t, r)
  <2> DEFINE q == [r EXCEPT !.tried = @ \cup {r.with.model}]
             e == Entered([health |-> health, log |-> log], r.with.model, "hard_fail")
  <2>1. health' = e.health /\ log' = e.log /\ run' = [run EXCEPT ![t] = Turn(q, e.health)]
    BY <1>4 DEF HardFail, Settle
  <2>2. BooksOK([health |-> e.health, log |-> e.log]) /\ Standing(e.health)
    BY <1>2, BooksKept DEF Outcomes
  <2>3. /\ RunFields \subseteq DOMAIN q /\ q.with = r.with /\ q.cap = r.cap
        /\ q.asked = r.asked /\ q.at = r.at /\ q.input = r.input /\ q.floor = r.floor
        /\ q.best = r.best /\ q.longest = r.longest /\ q.cost = r.cost /\ q.told = r.told
        /\ q.whole = r.whole /\ q.tried = r.tried \cup {r.with.model}
    BY <1>2 DEF Midway, RunFields
  <2> HIDE DEF q, e, r
  <2>4. r.with \in r.asked
    BY <1>2 DEF Underway
  <2>5. Midway(q)
    BY <1>2, <2>3, <2>4 DEF Midway, Discreet
  <2>6. RunOK(Turn(q, e.health))
    BY <2>2, <2>5, TurnOK
  <2> QED  BY <2>1, <2>2, <2>6, RunKept
<1> QED  BY <1>3, <1>4 DEF ProviderFails

(* An answer that was cut: the longest text is kept.                        *)
LEMMA CutOK ==
  ASSUME NEW d, Midway(d), d.best > 0, d.with \in d.asked, d.with \in Candidates,
         d.cap \in Nat \ {0}, d.with.context >= d.input.tokens + d.cap, NEW h, Standing(h)
  PROVE  LET r == AfterCut(d) IN
         RunOK(IF r.at = "asked" THEN Turn(r, h) ELSE r)
<1>1. RunFields \subseteq DOMAIN d /\ Discreet(d) /\ d.cost = d.told /\ ~d.whole
      /\ d.best = d.longest /\ d.at = "asked" /\ d.input \in Inputs
  BY DEF Midway
<1>2. RunOK(Finish(d, "cut")) /\ Finish(d, "cut").at = "done"
  BY <1>1, FinishOK
<1> DEFINE next == [d EXCEPT !.tried = @ \cup {d.with.model}]
           more == [d EXCEPT !.escalations = @ + 1, !.floor = Ceiling(d)]
<1>3. Midway(next)
  <2>1. /\ RunFields \subseteq DOMAIN next /\ next.at = d.at /\ next.input = d.input
        /\ next.floor = d.floor /\ next.asked = d.asked /\ next.best = d.best
        /\ next.longest = d.longest /\ next.cost = d.cost /\ next.told = d.told
        /\ next.whole = d.whole /\ next.tried = d.tried \cup {d.with.model}
    BY <1>1 DEF RunFields
  <2> HIDE DEF next
  <2> QED  BY <2>1 DEF Midway, Discreet
<1>4. ~(d.input.budget > 0) => Midway(more)
  <2>1. /\ RunFields \subseteq DOMAIN more /\ more.at = d.at /\ more.input = d.input
        /\ more.floor = Ceiling(d) /\ more.asked = d.asked /\ more.best = d.best
        /\ more.longest = d.longest /\ more.cost = d.cost /\ more.told = d.told
        /\ more.whole = d.whole /\ more.tried = d.tried
    BY <1>1 DEF RunFields
  <2>2. Ceiling(d) \in Nat
    <3>1. d.with.max \in Nat /\ d.with.context \in Nat /\ d.input.tokens \in Nat
      BY <1>1, RouterAssumption
    <3> QED  BY <3>1 DEF Ceiling, Least
  <2> HIDE DEF more
  <2> QED  BY <2>1, <2>2 DEF Midway, Discreet
<1>5. next.at = "asked" /\ more.at = "asked"
  BY <1>1 DEF RunFields
<1>6. \/ AfterCut(d) = Finish(d, "cut")
      \/ AfterCut(d) = next
      \/ AfterCut(d) = more /\ ~(d.input.budget > 0)
  BY DEF AfterCut
<1> HIDE DEF next, more
<1>7. ~(d.input.budget > 0) => RunOK(Turn(more, h))
  BY <1>4, TurnOK
<1>8. RunOK(Turn(next, h))
  BY <1>3, TurnOK
<1> QED  BY <1>2, <1>5, <1>6, <1>7, <1>8

LEMMA DeliveredFacts ==
  ASSUME NEW r, RunFields \subseteq DOMAIN r
  PROVE  LET d == Delivered(r) IN
         /\ RunFields \subseteq DOMAIN d /\ (r.cost = r.told => d.cost = d.told)
         /\ d.with = r.with /\ d.cap = r.cap /\ d.asked = r.asked /\ d.at = r.at
         /\ d.input = r.input /\ d.floor = r.floor /\ d.best = r.best
         /\ d.longest = r.longest /\ d.whole = r.whole /\ d.tried = r.tried
BY DEF Delivered, RunFields

LEMMA CutsKeeps ==
  ASSUME RouterInv, NEW t \in Transforms, NEW len \in Nat \ {0}, ProviderCuts(t, len)
  PROVE  RouterInv'
<1> DEFINE r == run[t]
           d == Delivered(r)
           k == [d EXCEPT !.best = Keep(@, len), !.longest = IF len > @ THEN len ELSE @]
           e == Entered([health |-> health, log |-> log], r.with.model, "success")
           x == IF AfterCut(k).at = "asked" THEN Turn(AfterCut(k), e.health) ELSE AfterCut(k)
<1>1. Underway(r) /\ Midway(r) /\ r.with.model \in Models
  BY UnderwayFacts DEF ProviderCuts
<1>2. health' = e.health /\ log' = e.log /\ run' = [run EXCEPT ![t] = x]
  BY DEF ProviderCuts, Settle
<1>3. BooksOK([health |-> e.health, log |-> e.log]) /\ Standing(e.health)
  BY <1>1, BooksKept DEF Outcomes
<1>4. /\ RunFields \subseteq DOMAIN d /\ (r.cost = r.told => d.cost = d.told)
      /\ d.with = r.with /\ d.cap = r.cap /\ d.asked = r.asked /\ d.at = r.at
      /\ d.input = r.input /\ d.floor = r.floor /\ d.best = r.best
      /\ d.longest = r.longest /\ d.whole = r.whole /\ d.tried = r.tried
  BY <1>1, DeliveredFacts DEF Midway
<1> HIDE DEF d, e
<1>5. /\ RunFields \subseteq DOMAIN k /\ k.cost = d.cost /\ k.told = d.told
      /\ k.with = r.with /\ k.cap = r.cap /\ k.asked = r.asked /\ k.at = r.at
      /\ k.input = r.input /\ k.floor = r.floor /\ k.best = Keep(r.best, len)
      /\ k.longest = (IF len > r.longest THEN len ELSE r.longest)
      /\ k.whole = r.whole /\ k.tried = r.tried
  BY <1>4 DEF RunFields
<1> HIDE DEF k
<1>6. k.best \in Nat /\ k.best > 0 /\ k.best = k.longest
  BY <1>1, <1>5 DEF Keep, Midway
<1>7. Midway(k)
  <2> HIDE DEF r
  <2>1. k.best = 0 \/ k.input.budget > 0 => k.floor = k.input.budget
    BY <1>1, <1>5, <1>6 DEF Midway
  <2>2. Discreet(k)
    BY <1>1, <1>5 DEF Midway, Discreet
  <2> QED  BY <1>1, <1>4, <1>5, <1>6, <2>1, <2>2 DEF Midway
<1>8. /\ k.with \in k.asked /\ k.with \in Candidates /\ k.cap \in Nat \ {0}
      /\ k.with.context >= k.input.tokens + k.cap
  BY <1>1, <1>5, ReserveFacts DEF Underway, Midway
<1>9. RunOK(x)
  BY <1>3, <1>6, <1>7, <1>8, CutOK
<1> HIDE DEF x
<1> QED  BY <1>2, <1>3, <1>9, RunKept

LEMMA AnswersKeeps ==
  ASSUME RouterInv, NEW t \in Transforms,
         NEW judged \in {"valid", "mismatch", "extract_invalid_json", "extract_schema_invalid"},
         ProviderAnswers(t, judged)
  PROVE  RouterInv'
<1> DEFINE r == run[t]
           d == Delivered(r)
           k == [d EXCEPT !.whole = TRUE]
<1>1. Underway(r) /\ Midway(r) /\ r.with.model \in Models
  BY UnderwayFacts DEF ProviderAnswers
<1>2. PICK o \in Outcomes, result \in {"answer", "extract_invalid_json", "extract_schema_invalid"} :
        Settle(t, o, Finish(k, result), FALSE)
  BY DEF ProviderAnswers, Outcomes
<1> DEFINE e == Entered([health |-> health, log |-> log], r.with.model, o)
<1>3. health' = e.health /\ log' = e.log /\ run' = [run EXCEPT ![t] = Finish(k, result)]
  BY <1>2 DEF Settle
<1>4. BooksOK([health |-> e.health, log |-> e.log])
  BY <1>1, BooksKept
<1>5. /\ RunFields \subseteq DOMAIN d /\ (r.cost = r.told => d.cost = d.told)
      /\ d.asked = r.asked /\ d.input = r.input
  BY <1>1, DeliveredFacts DEF Midway
<1> HIDE DEF d, e
<1>6. /\ RunFields \subseteq DOMAIN k /\ k.cost = d.cost /\ k.told = d.told
      /\ k.asked = r.asked /\ k.input = r.input /\ k.whole = TRUE
  BY <1>5 DEF RunFields
<1> HIDE DEF k
<1>7. Discreet(k) /\ k.cost = k.told
  BY <1>1, <1>5, <1>6 DEF Midway, Discreet
<1>8. RunOK(Finish(k, result))
  BY <1>6, <1>7, FinishOK
<1> QED  BY <1>3, <1>4, <1>8, RunKept

LEMMA RouterKeeps == RouterInv /\ [RouterNext]_routerVars => RouterInv'
<1> SUFFICES ASSUME RouterInv, [RouterNext]_routerVars PROVE RouterInv'
  OBVIOUS
<1>1. ASSUME NEW t \in Transforms, Replies(t) PROVE RouterInv'
  <2>1. ASSUME NEW len \in 1..Max({c.max : c \in Candidates}), ProviderCuts(t, len)
        PROVE  RouterInv'
    <3>1. len \in Nat \ {0}
      OBVIOUS
    <3> QED  BY <2>1, <3>1, CutsKeeps
  <2> QED  BY <1>1, <2>1, FailsKeeps, AnswersKeeps DEF Replies
<1>2. ASSUME NEW t \in Transforms, ConnectionCut(t) PROVE RouterInv'
  <2> DEFINE q == [run[t] EXCEPT !.at = "hung"]
  <2>1. run' = [run EXCEPT ![t] = q]
    BY <1>2 DEF ConnectionCut
  <2>2. q.at = "hung" /\ q.input = run[t].input /\ q.asked = run[t].asked /\ Discreet(run[t])
    BY <1>2, UnderwayFacts DEF ConnectionCut, Midway, RunFields
  <2> HIDE DEF q
  <2>3. RunOK(q)
    BY <2>2 DEF RunOK, Discreet
  <2>4. BooksOK([health |-> health', log |-> log'])
    BY <1>2 DEF ConnectionCut, RouterInv
  <2> QED  BY <2>1, <2>3, <2>4, RunKept
<1>3. ASSUME NEW t \in Transforms, Return(t) PROVE RouterInv'
  <2>1. RunOK(IdleRun)
    BY DEF RunOK, IdleRun
  <2>2. run' = [run EXCEPT ![t] = IdleRun] /\ BooksOK([health |-> health', log |-> log'])
    BY <1>3 DEF Return, RouterInv
  <2> QED  BY <2>1, <2>2, RunKept
<1>4. CASE UNCHANGED routerVars
  BY <1>4 DEF routerVars, RouterInv
<1> QED  BY <1>1, <1>2, <1>3, <1>4, TransformKeeps DEF RouterNext

LEMMA RouterInvariant == RouterSpec => []RouterInv
<1>1. RouterInit => RouterInv
  <2> SUFFICES ASSUME RouterInit PROVE RouterInv
    OBVIOUS
  <2>1. PICK past \in Histories : health = Last(past).health /\ log = Last(past).log
    BY DEF RouterInit
  <2>2. BooksOK(Last(past))
    BY HistoryOK
  <2>3. BooksOK([health |-> health, log |-> log])
    BY <2>1, <2>2 DEF BooksOK
  <2>4. DOMAIN run = Transforms /\ \A t \in Transforms : run[t] = IdleRun
    BY DEF RouterInit
  <2> QED  BY <2>3, <2>4 DEF RouterInv, RunOK, IdleRun
<1> QED  BY <1>1, RouterKeeps, PTL DEF RouterSpec

(* Whatever models are configured and whatever their providers answer:      *)
(* content with a credential in it stays on the machine, and no request     *)
(* passes the caller's budget, its model's limit or its context             *)
(* (model-router.ts, fits and resolveOutputCap).                            *)
THEOREM OnlyAllowedRequests == RouterSpec => []RequestsAllowed
<1>1. RouterInv => RequestsAllowed
  <2> SUFFICES ASSUME RouterInv, NEW t \in Active
               PROVE  LET r == run[t] IN
                      /\ r.input.sensitive => \A c \in r.asked : c.local
                      /\ Asking(t) =>
                           /\ r.cap >= 1 /\ r.cap <= r.with.max
                           /\ r.input.tokens + r.cap <= r.with.context
                           /\ r.input.budget > 0 => r.cap <= r.input.budget
    BY DEF RequestsAllowed
  <2> DEFINE r == run[t]
  <2>1. t \in Transforms /\ RunOK(r) /\ r.at # "idle"
    BY DEF Active, RouterInv
  <2>2. Discreet(r)
    BY <2>1 DEF RunOK, Underway, Midway, Final
  <2>3. CASE Asking(t)
    <3>1. Underway(r) /\ Midway(r)
      BY <2>1, <2>3, UnderwayFacts
    <3> HIDE DEF r
    <3>2. r.with \in Candidates /\ r.floor \in Nat /\ r.input \in Inputs
          /\ r.cap = Reserve(r.with, r.floor) /\ r.with.context >= r.input.tokens + r.cap
          /\ (r.input.budget > 0 => r.floor = r.input.budget)
      BY <3>1 DEF Underway, Midway
    <3>3. /\ r.cap \in Nat \ {0} /\ r.cap <= r.with.max
          /\ r.floor > 0 => r.cap <= r.floor
      BY <3>2, ReserveFacts
    <3>4. r.with.context \in Nat /\ r.input.tokens \in Nat
      BY <3>2, RouterAssumption
    <3>5. /\ r.cap >= 1 /\ r.cap <= r.with.max
          /\ r.input.tokens + r.cap <= r.with.context
          /\ r.input.budget > 0 => r.cap <= r.input.budget
      BY <3>2, <3>3, <3>4
    <3>6. r.input.sensitive => \A c \in r.asked : c.local
      BY <2>2 DEF Discreet
    <3> QED  BY <3>5, <3>6 DEF r
  <2> QED  BY <2>2, <2>3 DEF Discreet
<1> QED  BY <1>1, RouterInvariant, PTL

(* For any models, answers and interleavings: no text that was paid for is  *)
(* lost, nor its cost, and a transform gives up only when every model that  *)
(* could have served it was asked (the loop of LlmTransformer.transform).   *)
THEOREM BestIsReturned == RouterSpec => []BestReturned
<1>1. RouterInv => BestReturned
  BY DEF RouterInv, RunOK, Final, BestReturned, Ended
<1> QED  BY <1>1, RouterInvariant, PTL

(* What a step does to the books: nothing, or one outcome is entered.       *)
LEMMA BooksMove ==
  ASSUME RouterInv, [RouterNext]_routerVars
  PROVE  \/ health' = health /\ log' = log
         \/ \E m \in Models, o \in Outcomes :
              /\ health' = Entered([health |-> health, log |-> log], m, o).health
              /\ log' = Entered([health |-> health, log |-> log], m, o).log
<1>1. ASSUME NEW t \in Transforms, NEW o \in Outcomes, NEW r, NEW on, Settle(t, o, r, on), Asking(t)
      PROVE  \E m \in Models :
               /\ health' = Entered([health |-> health, log |-> log], m, o).health
               /\ log' = Entered([health |-> health, log |-> log], m, o).log
  BY <1>1, UnderwayFacts DEF Settle
<1>2. ASSUME NEW t \in Transforms, Replies(t)
      PROVE  \/ health' = health /\ log' = log
             \/ \E o \in Outcomes : \E r, on : Settle(t, o, r, on) /\ Asking(t)
  <2>1. ASSUME NEW blank, ProviderFails(t, blank)
        PROVE  \/ health' = health /\ log' = log
               \/ \E o \in Outcomes : \E r, on : Settle(t, o, r, on) /\ Asking(t)
    BY <2>1 DEF ProviderFails, HardFail, Outcomes
  <2>2. ASSUME NEW len, ProviderCuts(t, len)
        PROVE  \E o \in Outcomes : \E r, on : Settle(t, o, r, on) /\ Asking(t)
    BY <2>2 DEF ProviderCuts, Outcomes
  <2>3. ASSUME NEW judged, ProviderAnswers(t, judged)
        PROVE  \E o \in Outcomes : \E r, on : Settle(t, o, r, on) /\ Asking(t)
    BY <2>3 DEF ProviderAnswers, Outcomes
  <2> QED  BY <1>2, <2>1, <2>2, <2>3 DEF Replies
<1>3. ASSUME NEW t \in Transforms, NEW i, Transform(t, i) PROVE health' = health /\ log' = log
  BY <1>3 DEF Transform
<1>4. ASSUME NEW t \in Transforms, ConnectionCut(t) \/ Return(t) PROVE health' = health /\ log' = log
  BY <1>4 DEF ConnectionCut, Return
<1>5. CASE UNCHANGED routerVars
  BY <1>5 DEF routerVars
<1> QED  BY <1>1, <1>2, <1>3, <1>4, <1>5 DEF RouterNext

(* For any models and overlapping transforms: a model is demoted only when  *)
(* the failures since its last recovery reach the threshold, restored only  *)
(* after a success, and a call turns to the first model in the configured   *)
(* order that fits, one place later for a demoted one (recordOutcome, pick).*)
THEOREM DemotionIsEarned == RouterSpec => DemotionEarned
<1> DEFINE Health ==
             \A m \in Models :
               /\ health[m].demotion = 0 /\ health'[m].demotion = 1
                    => Fails(log'[m]) >= FAIL_THRESHOLD
               /\ health[m].demotion = 1 /\ health'[m].demotion = 0 =>
                    LET n == Len(log[m]) IN RECOVER_SUCCESSES > 1 => n >= 1 /\ ~log[m][n]
           First ==
             \A t \in Transforms :
               run[t].at = "idle" /\ run'[t].at = "asked" =>
                 LET r == run'[t] IN
                 \A d \in {c \in Candidates : Fits(c, [r EXCEPT !.tried = {}])} :
                   /\ d.order < r.with.order =>
                        health[d.model].demotion = 1 /\ r.with.order = d.order + 1
                   /\ d.order = r.with.order + 1 /\ health[d.model].demotion = 0
                        => health[r.with.model].demotion = 0
<1>1. RouterInv /\ [RouterNext]_routerVars => [Health]_routerVars
  <2> SUFFICES ASSUME RouterInv, [RouterNext]_routerVars, NEW m \in Models
               PROVE  /\ health[m].demotion = 0 /\ health'[m].demotion = 1
                           => Fails(log'[m]) >= FAIL_THRESHOLD
                      /\ health[m].demotion = 1 /\ health'[m].demotion = 0 =>
                           (RECOVER_SUCCESSES > 1 => Len(log[m]) >= 1 /\ ~log[m][Len(log[m])])
    OBVIOUS
  <2> DEFINE b == [health |-> health, log |-> log]
  <2>1. BooksOK(b) /\ b.health = health /\ b.log = log
    BY DEF RouterInv
  <2>2. CASE health' = health /\ log' = log
    BY <2>2
  <2>3. ASSUME NEW n \in Models, NEW o \in Outcomes,
               health' = Entered(b, n, o).health, log' = Entered(b, n, o).log
        PROVE  /\ health[m].demotion = 0 /\ health'[m].demotion = 1
                    => Fails(log'[m]) >= FAIL_THRESHOLD
               /\ health[m].demotion = 1 /\ health'[m].demotion = 0 =>
                    (RECOVER_SUCCESSES > 1 => Len(log[m]) >= 1 /\ ~log[m][Len(log[m])])
    <3> HIDE DEF b
    <3> DEFINE e == Entered(b, n, o)
    <3>1. /\ b.health[m].demotion = 0 /\ e.health[m].demotion = 1 =>
               Fails(e.log[m]) >= FAIL_THRESHOLD
          /\ b.health[m].demotion = 1 /\ e.health[m].demotion = 0 =>
               (RECOVER_SUCCESSES > 1 => Len(b.log[m]) >= 1 /\ ~b.log[m][Len(b.log[m])])
      BY <2>1, EnteredKeeps
    <3> QED  BY <2>1, <2>3, <3>1
  <2> QED  BY <2>2, <2>3, BooksMove
<1>2. RouterInv /\ [RouterNext]_routerVars => [First]_routerVars
  <2> SUFFICES ASSUME RouterInv, [RouterNext]_routerVars, NEW t \in Transforms,
                      run[t].at = "idle", run'[t].at = "asked",
                      NEW d \in Candidates, Fits(d, [run'[t] EXCEPT !.tried = {}])
               PROVE  LET r == run'[t] IN
                      /\ d.order < r.with.order =>
                           health[d.model].demotion = 1 /\ r.with.order = d.order + 1
                      /\ d.order = r.with.order + 1 /\ health[d.model].demotion = 0
                           => health[r.with.model].demotion = 0
    OBVIOUS
  <2>1. PICK i \in Inputs : Transform(t, i)
    <3>1. ASSUME NEW u \in Transforms, u # t,
                 \/ \E i \in Inputs : Transform(u, i)
                 \/ Replies(u) \/ ConnectionCut(u) \/ Return(u)
          PROVE  run'[t] = run[t]
      BY <3>1 DEF RouterInv, Transform, Replies, ProviderFails, ProviderCuts, ProviderAnswers,
                  HardFail, Settle, ConnectionCut, Return
    <3>2. ~Replies(t) /\ ~ConnectionCut(t) /\ ~Return(t)
      BY DEF Replies, ProviderFails, ProviderCuts, ProviderAnswers, ConnectionCut, Return, Asking
    <3>3. run' # run
      OBVIOUS
    <3> QED  BY <3>1, <3>2, <3>3 DEF RouterNext, routerVars
  <2> DEFINE n == NewRun(i)
             fitting == {c \in Candidates : Fits(c, n)}
             c == Pick(fitting, health)
             q == [n EXCEPT !.with = c, !.cap = Reserve(c, n.floor), !.attempt = 1,
                            !.asked = @ \cup {c}]
  <2>2. RunFields \subseteq DOMAIN n /\ n.tried = {} /\ n.input = i /\ n.floor = i.budget
        /\ Midway(n)
    <3>1. i.budget \in Nat
      BY RouterAssumption
    <3> QED  BY <3>1 DEF NewRun, RunFields, Midway, Discreet
  <2>3. run'[t] \in {Finish(n, "raw: unsupported"), Turn(n, health)}
    BY <2>1 DEF Transform, RouterInv
  <2> HIDE DEF n
  <2>4. Finish(n, "raw: unsupported").at = "done"
    BY <2>2 DEF Finish, RunFields
  <2>5. fitting # {} /\ run'[t] = q
    <3>1. fitting = {} => Turn(n, health).at = "done"
      BY <2>2, ExhaustedOK DEF Turn
    <3>2. fitting # {} => Turn(n, health) = q
      BY DEF Turn
    <3> HIDE DEF fitting, q
    <3> QED  BY <2>3, <2>4, <3>1, <3>2
  <2>6. q.with = c /\ [q EXCEPT !.tried = {}].input = i /\ [q EXCEPT !.tried = {}].floor = i.budget
        /\ [q EXCEPT !.tried = {}].tried = {}
    <3> HIDE DEF c
    <3> QED  BY <2>2 DEF RunFields
  <2>7. d \in fitting
    <3>1. Fits(d, [q EXCEPT !.tried = {}])
      BY <2>5
    <3> HIDE DEF q, c
    <3> QED  BY <2>2, <2>6, <3>1 DEF Fits
  <2>8. c \in Candidates /\ (d # c => Before(c, d, health))
    <3>1. fitting \in SUBSET Candidates
      OBVIOUS
    <3> HIDE DEF fitting
    <3>2. c \in fitting /\ \A x \in fitting \ {c} : Before(c, x, health)
      BY <2>5, <3>1, StandingNow, FirstPicked
    <3> QED  BY <2>7, <3>1, <3>2
  <2>9. health[c.model].demotion \in {0, 1} /\ health[d.model].demotion \in {0, 1}
        /\ c.order \in Nat /\ d.order \in Nat
    BY <2>8, StandingNow, RouterAssumption DEF Standing, HealthRecords, Models
  <2> HIDE DEF c, q, fitting
  <2>10. /\ d.order < c.order => health[d.model].demotion = 1 /\ c.order = d.order + 1
         /\ d.order = c.order + 1 /\ health[d.model].demotion = 0 => health[c.model].demotion = 0
    BY <2>8, <2>9 DEF Before
  <2> QED  BY <2>5, <2>6, <2>10
<1> QED  BY <1>1, <1>2, RouterInvariant, PTL DEF RouterSpec, DemotionEarned

-----------------------------------------------------------------------------
(* The schema of an extract call (SchemaValidation).                        *)

(* What holds of everything all of whose lower members it holds of.         *)
LEMMA RankInduction ==
  ASSUME NEW S, NEW rank \in [S -> Nat], NEW Good,
         \A s \in S : (\A u \in S : rank[u] < rank[s] => u \in Good) => s \in Good
  PROVE  S \subseteq Good
<1> DEFINE Bad == {n \in Nat : \E s \in S : s \notin Good /\ rank[s] = n}
<1>1. ASSUME NEW s \in S, s \notin Good PROVE FALSE
  <2>1. rank[s] \in Bad
    BY <1>1
  <2>2. PICK n \in Bad : \A k \in Bad : n <= k
    BY <2>1, LeastNat
  <2>3. PICK t \in S : t \notin Good /\ rank[t] = n
    BY <2>2
  <2>4. ASSUME NEW u \in S, rank[u] < rank[t] PROVE u \in Good
    <3>1. rank[u] \notin Bad
      <4>1. rank[u] \in Nat /\ rank[t] \in Nat /\ ~(rank[t] <= rank[u])
        BY <2>4
      <4> QED  BY <4>1, <2>2, <2>3
    <3> QED  BY <3>1
  <2> QED  BY <2>3, <2>4
<1> QED  BY <1>1

(* A recursion that looks only at lower members has a solution.             *)
LooksLower(S, T, step, rank, N) ==
  /\ T # {} /\ N \in Nat /\ rank \in [S -> 0..N] /\ step \in [[S -> T] -> [S -> T]]
  /\ \A f, g \in [S -> T] : \A s \in S :
       (\A u \in S : rank[u] < rank[s] => f[u] = g[u]) => step[f][s] = step[g][s]

LEMMA RecursionOnRank ==
  ASSUME NEW S, NEW T, NEW step, NEW rank, NEW N, LooksLower(S, T, step, rank, N)
  PROVE  \E f \in [S -> T] : f = step[f]
<1>h. /\ T # {} /\ N \in Nat /\ rank \in [S -> 0..N] /\ step \in [[S -> T] -> [S -> T]]
      /\ \A f, g \in [S -> T] : \A s \in S :
           (\A u \in S : rank[u] < rank[s] => f[u] = g[u]) => step[f][s] = step[g][s]
  BY DEF LooksLower
<1> USE <1>h
<1> DEFINE Settled(f, n) == \A s \in S : rank[s] < n => f[s] = step[f][s]
           Bad == {n \in Nat : ~\E f \in [S -> T] : Settled(f, n)}
<1>r. \A s \in S : rank[s] \in Nat /\ rank[s] <= N
  OBVIOUS
<1>1. ASSUME Bad # {} PROVE FALSE
  <2>1. PICK m \in Bad : \A k \in Bad : m <= k
    BY <1>1, LeastNat
  <2>2. m # 0
    <3>1. PICK t \in T : TRUE
      OBVIOUS
    <3>2. [s \in S |-> t] \in [S -> T] /\ Settled([s \in S |-> t], 0)
      BY <1>r
    <3> QED  BY <3>2
  <2>3. m - 1 \in Nat /\ ~(m <= m - 1)
    BY <2>2
  <2>4. PICK f \in [S -> T] : Settled(f, m - 1)
    BY <2>1, <2>3
  <2>5. step[f] \in [S -> T]
    OBVIOUS
  <2>6. ASSUME NEW s \in S, rank[s] < m PROVE step[f][s] = step[step[f]][s]
    <3>1. ASSUME NEW u \in S, rank[u] < rank[s] PROVE f[u] = step[f][u]
      <4>1. rank[u] < m - 1
        BY <3>1, <2>6, <1>r, <2>3
      <4> QED  BY <4>1, <2>4
    <3> QED  BY <3>1, <2>5
  <2>7. Settled(step[f], m)
    BY <2>6
  <2> QED  BY <2>5, <2>7
<1>2. PICK f \in [S -> T] : Settled(f, N + 1)
  <2>1. N + 1 \notin Bad
    BY <1>1
  <2> QED  BY <2>1
<1>3. \A s \in S : rank[s] < N + 1
  BY <1>r
<1>4. \A s \in S : f[s] = step[f][s]
  BY <1>2, <1>3
<1>5. step[f] \in [S -> T]
  OBVIOUS
<1>6. f = step[f]
  BY <1>4, <1>5
<1> QED  BY <1>6

-----------------------------------------------------------------------------
(* What is nested where.                                                    *)
LEMMA NodeFacts ==
  ASSUME NEW s \in Schemas, s.t = "node"
  PROVE  /\ Children(s) = Inside(s) /\ Inside(s) \subseteq Schemas
         /\ \A c \in Inside(s) : Height[c] < Height[s]
         /\ \A key \in {"allOf", "anyOf", "oneOf"} :
              /\ Listing(s, key) \in Seq(Schemas)
              /\ \A i \in DOMAIN Listing(s, key) : Listing(s, key)[i] \in Inside(s)
         /\ Listed(s) \in Seq([name : STRING, schema : Schemas])
         /\ \A i \in DOMAIN Listed(s) : Listed(s)[i].schema \in Inside(s)
         /\ \A key \in {"items", "additionalProperties", "not"} : Has(s, key) => s.k[key] \in Inside(s)
<1>1. /\ \A key \in {"allOf", "anyOf", "oneOf"} : Listing(s, key) \in Seq(Schemas)
      /\ Listed(s) \in Seq([name : STRING, schema : Schemas])
      /\ \A c \in Inside(s) : c \in Schemas /\ Height[c] < Height[s]
  BY SchemaAssumption
<1>2. \A key \in {"allOf", "anyOf", "oneOf"} :
        \A i \in DOMAIN Listing(s, key) : Listing(s, key)[i] \in Inside(s)
  BY DEF Inside, ToSet
<1>3. \A i \in DOMAIN Listed(s) : Listed(s)[i].schema \in Inside(s)
  BY DEF Inside, ToSet
<1>4. \A key \in {"items", "additionalProperties", "not"} : Has(s, key) => s.k[key] \in Inside(s)
  BY DEF Inside, Has
<1>5. {property.schema : property \in ToSet(Listed(s))} = {Listed(s)[i].schema : i \in DOMAIN Listed(s)}
  BY DEF ToSet
<1>6. Children(s) = Inside(s)
  BY <1>5 DEF Children, Inside
<1> QED  BY <1>1, <1>2, <1>3, <1>4, <1>6

(* The items and the properties of a value are its parts, and values.       *)
LEMMA ValueFacts ==
  ASSUME NEW v \in Values
  PROVE  /\ \A part \in Parts(v) : part \in Values /\ Height[part] < Height[v]
         /\ v.t = "array" => /\ v.items \in Seq(Values)
                             /\ \A i \in DOMAIN v.items : v.items[i] \in Parts(v)
         /\ v.t = "object" => /\ IsFiniteSet(Names(v))
                              /\ \A name \in Names(v) : v.props[name] \in Parts(v)
<1>1. v.t = "array" => \A i \in DOMAIN v.items : v.items[i] \in Parts(v)
  BY DEF Parts, ToSet
<1>2. v.t = "object" => \A name \in Names(v) : v.props[name] \in Parts(v)
  BY DEF Parts
<1> QED  BY <1>1, <1>2, SchemaAssumption

(* How deep schemas and values nest: what the inductions go by.             *)
SchemaRank == [s \in Schemas |-> Height[s]]
ValueRank == [v \in Values |-> Height[v]]
LEMMA RankFacts ==
  /\ Tallest \in Nat
  /\ SchemaRank \in [Schemas -> 0..Tallest] /\ SchemaRank \in [Schemas -> Nat]
  /\ ValueRank \in [Values -> 0..Tallest] /\ ValueRank \in [Values -> Nat]
<1>1. Tallest \in Nat /\ Height \in [Schemas \cup Values -> 0..Tallest]
  BY SchemaAssumption
<1>2. \A x \in Schemas \cup Values : Height[x] \in 0..Tallest /\ Height[x] \in Nat
  BY <1>1
<1> QED  BY <1>1, <1>2 DEF SchemaRank, ValueRank

(* The same for a recursion on the schemas.                                 *)
LEMMA SchemaRecursion ==
  ASSUME NEW T, T # {}, NEW step \in [[Schemas -> T] -> [Schemas -> T]],
         \A f, g \in [Schemas -> T] : \A s \in Schemas :
           (\A u \in Schemas : SchemaRank[u] < SchemaRank[s] => f[u] = g[u]) => step[f][s] = step[g][s]
  PROVE  \E f \in [Schemas -> T] : f = step[f]
<1>1. LooksLower(Schemas, T, step, SchemaRank, Tallest)
  BY RankFacts DEF LooksLower
<1> QED  BY <1>1, RecursionOnRank

(* SetToSeq puts every element of a finite set somewhere, and nothing else. *)
LEMMA Enumerated ==
  ASSUME NEW S, IsFiniteSet(S)
  PROVE  /\ Cardinality(S) \in Nat /\ SetToSeq(S) \in [1..Cardinality(S) -> S]
         /\ \A x \in S : \E i \in 1..Cardinality(S) : SetToSeq(S)[i] = x
<1> DEFINE n == Cardinality(S)
<1>1. n \in Nat /\ ExistsBijection(1..n, S)
  BY FS_CardinalityType
<1>2. \E f \in [1..n -> S] : IsInjective(f)
  BY <1>1 DEF ExistsBijection, Bijection, Injection, IsInjective
<1>3. SetToSeq(S) \in [1..n -> S] /\ IsInjective(SetToSeq(S))
  BY <1>2 DEF SetToSeq
<1>4. SetToSeq(S) \in Injection(1..n, S)
  BY <1>3 DEF Injection, IsInjective
<1>5. IsFiniteSet(1..n) /\ Cardinality(1..n) = n
  BY <1>1, FS_Interval
<1>6. SetToSeq(S) \in Surjection(1..n, S)
  BY <1>4, <1>5, FS_Injection
<1> QED  BY <1>1, <1>3, <1>6 DEF Surjection

-----------------------------------------------------------------------------
(* The results of a walk, and how they are put together.                    *)
Outcome == {"ok", "invalid", "unsupported"}
Keys == Schemas \X {v.s : v \in Values}
Results == [r : Outcome, asked : SUBSET Keys]
Walks == [Schemas -> [Values -> Results]]

LEMMA NeedType ==
  ASSUME NEW holds \in BOOLEAN
  PROVE  /\ Need(holds) \in Results /\ Result("ok") \in Results /\ Result("invalid") \in Results
         /\ Result("unsupported") \in Results
         /\ Need(holds).r \in {"ok", "invalid"} /\ (Need(holds).r = "ok" <=> holds)
         /\ Need(holds).asked = {}
BY DEF Need, Result, Results, Outcome

(* The first of two steps that fails decides; without one, the second.      *)
LEMMA ThenType ==
  ASSUME NEW first \in Results, NEW second \in Results
  PROVE  /\ Then(first, second) \in Results
         /\ first.r # "ok" => Then(first, second) = first
         /\ first.r = "ok" => /\ Then(first, second).r = second.r
                              /\ Then(first, second).asked = second.asked \cup first.asked
<1>1. first.r # "ok" => Then(first, second) = first
  BY DEF Then
<1>2. ASSUME first.r = "ok"
      PROVE  Then(first, second) = [r |-> second.r, asked |-> second.asked \cup first.asked]
  <2>1. second = [r |-> second.r, asked |-> second.asked]
    BY DEF Results
  <2>2. Then(first, second) = [second EXCEPT !.asked = second.asked \cup first.asked]
    BY <1>2 DEF Then
  <2> QED  BY <2>1, <2>2
<1>3. second.r \in Outcome /\ second.asked \cup first.asked \subseteq Keys
  BY DEF Results
<1> QED  BY <1>1, <1>2, <1>3 DEF Results

LEMMA LeastOf ==
  ASSUME NEW n \in Nat, NEW bad \in SUBSET (1..n), bad # {}
  PROVE  Min(bad) \in bad /\ \A i \in bad : Min(bad) <= i
<1>1. bad \subseteq Nat
  OBVIOUS
<1>2. \E m \in bad : \A i \in bad : m <= i
  BY <1>1, LeastNat
<1> QED  BY <1>2 DEF Min

(* A row of steps ends in "ok" if none of them stops it, and has then met    *)
(* every test; else in the result of one that stops it, and has met its.    *)
LEMMA UpToType ==
  ASSUME NEW results \in Seq(Results), NEW stops
  PROVE  /\ UpTo(results, stops) \in Results
         /\ (\A i \in DOMAIN results : results[i].r \notin stops) =>
              /\ UpTo(results, stops).r = "ok"
              /\ \A i \in DOMAIN results : results[i].asked \subseteq UpTo(results, stops).asked
         /\ (\E i \in DOMAIN results : results[i].r \in stops) =>
              \E i \in DOMAIN results :
                /\ results[i].r \in stops /\ UpTo(results, stops).r = results[i].r
                /\ results[i].asked \subseteq UpTo(results, stops).asked
<1> DEFINE bad == {i \in DOMAIN results : results[i].r \in stops}
           reached == {i \in DOMAIN results : \A j \in bad : i <= j}
           end == IF bad = {} THEN "ok" ELSE results[Min(bad)].r
           met == UNION {results[i].asked : i \in reached}
<1>1. UpTo(results, stops) = [r |-> end, asked |-> met]
  BY DEF UpTo
<1>n. Len(results) \in Nat /\ DOMAIN results = 1..Len(results)
  BY LenProperties
<1>2. \A i \in DOMAIN results : results[i].r \in Outcome /\ results[i].asked \subseteq Keys
  <2>1. \A i \in DOMAIN results : results[i] \in Results
    BY <1>n, ElementOfSeq
  <2> QED  BY <2>1 DEF Results
<1>3. bad # {} => Min(bad) \in bad /\ \A i \in bad : Min(bad) <= i
  BY <1>n, LeastOf
<1>4. end \in Outcome /\ met \subseteq Keys
  BY <1>2, <1>3 DEF Outcome
<1>5. bad # {} => Min(bad) \in reached
  BY <1>3
<1>6. \A i \in reached : results[i].asked \subseteq met
  OBVIOUS
<1>7. UpTo(results, stops) \in Results
  BY <1>1, <1>4 DEF Results
<1>8. ASSUME \A i \in DOMAIN results : results[i].r \notin stops
      PROVE  /\ UpTo(results, stops).r = "ok"
             /\ \A i \in DOMAIN results : results[i].asked \subseteq UpTo(results, stops).asked
  <2>1. bad = {} /\ reached = DOMAIN results
    BY <1>8
  <2> QED  BY <2>1, <1>1, <1>6
<1>9. ASSUME \E i \in DOMAIN results : results[i].r \in stops
      PROVE  \E i \in DOMAIN results :
               /\ results[i].r \in stops /\ UpTo(results, stops).r = results[i].r
               /\ results[i].asked \subseteq UpTo(results, stops).asked
  <2>1. bad # {} /\ Min(bad) \in bad /\ Min(bad) \in reached
    BY <1>9, <1>3, <1>5
  <2>2. UpTo(results, stops).r = results[Min(bad)].r /\ UpTo(results, stops).asked = met
    BY <2>1, <1>1
  <2>3. results[Min(bad)].asked \subseteq met
    BY <2>1, <1>6
  <2> QED  BY <2>1, <2>2, <2>3
<1> QED  BY <1>7, <1>8, <1>9

(* What stops later, at no less, has asked for more.                        *)
LEMMA UpToGrows ==
  ASSUME NEW c \in Seq(Results), NEW d \in Seq(Results), DOMAIN c = DOMAIN d, NEW sc, NEW sd,
         \A i \in DOMAIN c : (d[i].r \in sd => c[i].r \in sc) /\ c[i].asked \subseteq d[i].asked
  PROVE  UpTo(c, sc).asked \subseteq UpTo(d, sd).asked
<1> DEFINE badC == {i \in DOMAIN c : c[i].r \in sc}
           badD == {i \in DOMAIN d : d[i].r \in sd}
           reachedC == {i \in DOMAIN c : \A j \in badC : i <= j}
           reachedD == {i \in DOMAIN d : \A j \in badD : i <= j}
<1>1. UpTo(c, sc).asked = UNION {c[i].asked : i \in reachedC}
  BY DEF UpTo
<1>2. UpTo(d, sd).asked = UNION {d[i].asked : i \in reachedD}
  BY DEF UpTo
<1>3. reachedC \subseteq reachedD /\ \A i \in reachedC : c[i].asked \subseteq d[i].asked
  OBVIOUS
<1> QED  BY <1>1, <1>2, <1>3

-----------------------------------------------------------------------------
(* Each keyword gives a result, and looks only at what is nested in the     *)
(* node: two walks that agree there agree on it.                            *)
Alike(s, f, g) == \A c \in Inside(s) : f[c] = g[c]

LEMMA WalkType ==
  ASSUME NEW f \in Walks, NEW s \in Schemas, NEW v \in Values
  PROVE  f[s][v] \in Results
BY DEF Walks

LEMMA EachType ==
  ASSUME NEW f \in Walks, NEW list \in Seq(Schemas), NEW v \in Values
  PROVE  /\ Each(v, list, f) \in Seq(Results) /\ DOMAIN Each(v, list, f) = DOMAIN list
         /\ \A i \in DOMAIN list : Each(v, list, f)[i] = f[list[i]][v] /\ Each(v, list, f)[i] \in Results
<1>1. Len(list) \in Nat /\ DOMAIN list = 1..Len(list)
  BY LenProperties
<1>2. \A i \in DOMAIN list : list[i] \in Schemas
  BY <1>1, ElementOfSeq
<1>3. \A i \in DOMAIN list : Each(v, list, f)[i] = f[list[i]][v] /\ f[list[i]][v] \in Results
  BY <1>2, WalkType DEF Each
<1>4. Each(v, list, f) \in [1..Len(list) -> Results]
  BY <1>1, <1>3 DEF Each
<1>5. Each(v, list, f) \in Seq(Results)
  BY <1>1, <1>4
<1> QED  BY <1>3, <1>4, <1>5, <1>1

LEMMA EachLocal ==
  ASSUME NEW s, NEW f, NEW g, Alike(s, f, g), NEW list, NEW v,
         \A i \in DOMAIN list : list[i] \in Inside(s)
  PROVE  Each(v, list, f) = Each(v, list, g)
BY DEF Each, Alike

LEMMA ConjunctionType ==
  ASSUME NEW s \in Schemas, s.t = "node", NEW v \in Values, NEW f \in Walks, NEW pass
  PROVE  /\ Conjunction(v, s, f, pass) \in Results
         /\ \A g : Alike(s, f, g) => Conjunction(v, s, f, pass) = Conjunction(v, s, g, pass)
<1> DEFINE list == Listing(s, "allOf")
           stops == IF pass.collecting THEN {} ELSE {"invalid", "unsupported"}
<1>1. list \in Seq(Schemas) /\ \A i \in DOMAIN list : list[i] \in Inside(s)
  BY NodeFacts
<1>2. Each(v, list, f) \in Seq(Results)
  BY <1>1, EachType
<1>3. UpTo(Each(v, list, f), stops) \in Results
  BY <1>2, UpToType
<1>4. Conjunction(v, s, f, pass) \in Results
  BY <1>3, NeedType DEF Conjunction
<1>5. ASSUME NEW g, Alike(s, f, g) PROVE Conjunction(v, s, f, pass) = Conjunction(v, s, g, pass)
  <2>1. Each(v, list, f) = Each(v, list, g)
    BY <1>1, <1>5, EachLocal
  <2> QED  BY <2>1 DEF Conjunction
<1> QED  BY <1>4, <1>5

LEMMA SuppressedType ==
  ASSUME NEW result \in Results, NEW pass, pass.collecting \in BOOLEAN
  PROVE  /\ Suppressed(result, pass) \in Results
         /\ Suppressed(result, pass).asked = result.asked
         /\ Suppressed(result, pass).r = IF pass.collecting THEN "ok" ELSE result.r
BY DEF Suppressed, Results, Outcome

(* What a disjunction makes of the results of its schemas.                  *)
Chosen(results, empty, one) ==
  LET walked == UpTo(results, {"unsupported"})
      matches == Cardinality({i \in DOMAIN results : results[i].r = "ok"})
      fits == IF one THEN matches = 1 ELSE matches > 0
  IN IF empty \/ walked.r = "unsupported" \/ fits THEN walked ELSE [walked EXCEPT !.r = "invalid"]

LEMMA ChosenType ==
  ASSUME NEW results \in Seq(Results), NEW empty \in BOOLEAN, NEW one \in BOOLEAN
  PROVE  /\ Chosen(results, empty, one) \in Results
         /\ Chosen(results, empty, one).asked = UpTo(results, {"unsupported"}).asked
         /\ Chosen(results, empty, one).r =
              IF \/ empty \/ UpTo(results, {"unsupported"}).r = "unsupported"
                 \/ IF one THEN Cardinality({i \in DOMAIN results : results[i].r = "ok"}) = 1
                    ELSE Cardinality({i \in DOMAIN results : results[i].r = "ok"}) > 0
              THEN UpTo(results, {"unsupported"}).r ELSE "invalid"
<1>1. UpTo(results, {"unsupported"}) \in Results
  BY UpToType
<1>2. SUFFICES ASSUME NEW walked \in Results, walked = UpTo(results, {"unsupported"}), NEW matches,
                      matches = Cardinality({i \in DOMAIN results : results[i].r = "ok"})
               PROVE  LET c == IF \/ empty \/ walked.r = "unsupported"
                                  \/ IF one THEN matches = 1 ELSE matches > 0
                               THEN walked ELSE [walked EXCEPT !.r = "invalid"]
                      IN  /\ c \in Results /\ c.asked = walked.asked
                          /\ c.r = IF \/ empty \/ walked.r = "unsupported"
                                      \/ IF one THEN matches = 1 ELSE matches > 0
                                   THEN walked.r ELSE "invalid"
  BY <1>1 DEF Chosen
<1>3. walked = [r |-> walked.r, asked |-> walked.asked] /\ walked.asked \subseteq Keys
  BY DEF Results
<1>4. [walked EXCEPT !.r = "invalid"] = [r |-> "invalid", asked |-> walked.asked]
  BY <1>3
<1>5. [r |-> "invalid", asked |-> walked.asked] \in Results
  BY <1>3 DEF Results, Outcome
<1> QED  BY <1>4, <1>5

LEMMA DisjunctionType ==
  ASSUME NEW s \in Schemas, s.t = "node", NEW v \in Values, NEW f \in Walks,
         NEW pass, pass.collecting \in BOOLEAN, NEW key \in {"anyOf", "oneOf"}
  PROVE  /\ Disjunction(v, s, key, f, pass) \in Results
         /\ \A g : Alike(s, f, g) => Disjunction(v, s, key, f, pass) = Disjunction(v, s, key, g, pass)
<1> DEFINE list == Listing(s, key)
<1>1. list \in Seq(Schemas) /\ \A i \in DOMAIN list : list[i] \in Inside(s)
  BY NodeFacts
<1>2. Each(v, list, f) \in Seq(Results)
  BY <1>1, EachType
<1>3. Chosen(Each(v, list, f), list = << >>, key = "oneOf") \in Results
  BY <1>2, ChosenType
<1>4. Disjunction(v, s, key, f, pass) \in Results
  <2> DEFINE c == Chosen(Each(v, list, f), list = << >>, key = "oneOf")
  <2>1. Disjunction(v, s, key, f, pass) = IF Wrong(s, {key}) THEN Result("invalid") ELSE Suppressed(c, pass)
    BY DEF Disjunction, Chosen
  <2>2. c \in Results
    BY <1>3
  <2> HIDE DEF c
  <2>3. Suppressed(c, pass) \in Results
    BY <2>2, SuppressedType
  <2> QED  BY <2>1, <2>3, NeedType
<1>5. ASSUME NEW g, Alike(s, f, g) PROVE Disjunction(v, s, key, f, pass) = Disjunction(v, s, key, g, pass)
  <2>1. Each(v, list, f) = Each(v, list, g)
    BY <1>1, <1>5, EachLocal
  <2> QED  BY <2>1 DEF Disjunction
<1> QED  BY <1>4, <1>5

(* A "not" turns a verdict around, and keeps what was asked for it; the     *)
(* collecting walk takes no offence.                                        *)
LEMMA NewVerdict ==
  ASSUME NEW w \in Results, NEW r \in Outcome
  PROVE  /\ [w EXCEPT !.r = r] \in Results
         /\ [w EXCEPT !.r = r].asked = w.asked /\ [w EXCEPT !.r = r].r = r
<1>1. w = [r |-> w.r, asked |-> w.asked] /\ w.asked \subseteq Keys
  BY DEF Results
<1>2. [w EXCEPT !.r = r] = [r |-> r, asked |-> w.asked]
  BY <1>1
<1>3. [r |-> r, asked |-> w.asked] \in Results
  BY <1>1 DEF Results
<1> QED  BY <1>2, <1>3

Turned(n, w, r) ==
  /\ n \in Results /\ n.asked = w.asked
  /\ n.r = IF w.r = "unsupported" THEN "unsupported" ELSE IF w.r = "invalid" THEN "ok" ELSE r

LEMMA NegationNotes ==
  ASSUME NEW s \in Schemas, s.t = "node", NEW v \in Values, NEW f \in Walks,
         NEW noting, noting.collecting = TRUE, Has(s, "not")
  PROVE  Turned(Negation(v, s, f, noting), f[s.k["not"]][v], "ok")
<1> DEFINE w == f[s.k["not"]][v]
           r == IF w.r = "unsupported" THEN "unsupported"
                ELSE IF w.r = "invalid" THEN "ok" ELSE "ok"
<1>1. s.k["not"] \in Schemas
  BY NodeFacts
<1>2. w \in Results /\ r \in Outcome
  BY <1>1, WalkType DEF Outcome
<1>3. Negation(v, s, f, noting) = [w EXCEPT !.r = r]
  BY DEF Negation
<1> HIDE DEF w, r
<1>4. /\ Negation(v, s, f, noting) \in Results
      /\ Negation(v, s, f, noting).asked = w.asked /\ Negation(v, s, f, noting).r = r
  BY <1>2, <1>3, NewVerdict
<1> QED  BY <1>4 DEF w, r, Turned

LEMMA NegationJudges ==
  ASSUME NEW s \in Schemas, s.t = "node", NEW v \in Values, NEW f \in Walks,
         NEW judging, judging.collecting = FALSE, Has(s, "not")
  PROVE  Turned(Negation(v, s, f, judging), f[s.k["not"]][v], "invalid")
<1> DEFINE w == f[s.k["not"]][v]
           r == IF w.r = "unsupported" THEN "unsupported"
                ELSE IF w.r = "invalid" THEN "ok" ELSE "invalid"
<1>1. s.k["not"] \in Schemas
  BY NodeFacts
<1>2. w \in Results /\ r \in Outcome
  BY <1>1, WalkType DEF Outcome
<1>3. Negation(v, s, f, judging) = [w EXCEPT !.r = r]
  BY DEF Negation
<1> HIDE DEF w, r
<1>4. /\ Negation(v, s, f, judging) \in Results
      /\ Negation(v, s, f, judging).asked = w.asked /\ Negation(v, s, f, judging).r = r
  BY <1>2, <1>3, NewVerdict
<1> QED  BY <1>4 DEF w, r, Turned

LEMMA NegationType ==
  ASSUME NEW s \in Schemas, s.t = "node", NEW v \in Values, NEW f \in Walks,
         NEW pass, pass.collecting \in BOOLEAN
  PROVE  /\ Negation(v, s, f, pass) \in Results
         /\ \A g : Alike(s, f, g) => Negation(v, s, f, pass) = Negation(v, s, g, pass)
<1>1. Has(s, "not") => s.k["not"] \in Inside(s) /\ s.k["not"] \in Schemas
  BY NodeFacts
<1>2. ASSUME NEW g, Alike(s, f, g) PROVE Negation(v, s, f, pass) = Negation(v, s, g, pass)
  BY <1>1, <1>2 DEF Negation, Alike
<1>3. ASSUME Has(s, "not") PROVE Negation(v, s, f, pass) \in Results
  <2>1. CASE pass.collecting = TRUE
    BY <1>3, <2>1, NegationNotes DEF Turned
  <2>2. CASE pass.collecting = FALSE
    BY <1>3, <2>2, NegationJudges DEF Turned
  <2> QED  BY <2>1, <2>2
<1>4. ~Has(s, "not") => Negation(v, s, f, pass) = Result("ok")
  BY DEF Negation
<1> QED  BY <1>2, <1>3, <1>4, NeedType

LEMMA CompositesType ==
  ASSUME NEW s \in Schemas, s.t = "node", NEW v \in Values, NEW f \in Walks,
         NEW pass, pass.collecting \in BOOLEAN
  PROVE  /\ ValidateComposites(v, s, f, pass) \in Results
         /\ \A g : Alike(s, f, g) => ValidateComposites(v, s, f, pass) = ValidateComposites(v, s, g, pass)
<1>1. /\ Conjunction(v, s, f, pass) \in Results
      /\ \A g : Alike(s, f, g) => Conjunction(v, s, f, pass) = Conjunction(v, s, g, pass)
  BY ConjunctionType
<1>2. /\ Disjunction(v, s, "anyOf", f, pass) \in Results
      /\ \A g : Alike(s, f, g) => Disjunction(v, s, "anyOf", f, pass) = Disjunction(v, s, "anyOf", g, pass)
  BY DisjunctionType
<1>3. /\ Disjunction(v, s, "oneOf", f, pass) \in Results
      /\ \A g : Alike(s, f, g) => Disjunction(v, s, "oneOf", f, pass) = Disjunction(v, s, "oneOf", g, pass)
  BY DisjunctionType
<1>4. /\ Negation(v, s, f, pass) \in Results
      /\ \A g : Alike(s, f, g) => Negation(v, s, f, pass) = Negation(v, s, g, pass)
  BY NegationType
<1>5. Then(Disjunction(v, s, "oneOf", f, pass), Negation(v, s, f, pass)) \in Results
  BY <1>3, <1>4, ThenType
<1>6. Then(Disjunction(v, s, "anyOf", f, pass),
           Then(Disjunction(v, s, "oneOf", f, pass), Negation(v, s, f, pass))) \in Results
  BY <1>2, <1>5, ThenType
<1>7. ValidateComposites(v, s, f, pass) \in Results
  BY <1>1, <1>6, ThenType DEF ValidateComposites
<1>8. ASSUME NEW g, Alike(s, f, g)
      PROVE  ValidateComposites(v, s, f, pass) = ValidateComposites(v, s, g, pass)
  BY <1>8, <1>1, <1>2, <1>3, <1>4 DEF ValidateComposites
<1> QED  BY <1>7, <1>8

(* A pattern that the boundary lets in, of a value within the cap, asks for *)
(* its own test, and passes while tests are collected.                      *)
LEMMA PatternType ==
  ASSUME NEW s \in Schemas, NEW v \in Values, NEW pass
  PROVE  /\ Pattern(v, s, pass) \in Results
         /\ Pattern(v, s, pass).asked \subseteq {Key(v, s)}
         /\ s.k["pattern"] \in Refused => Pattern(v, s, pass).r = "unsupported"
         /\ s.k["pattern"] \notin Refused
              /\ (s.k["pattern"] \in Broken \/ v.len > MAX_PATTERN_VALUE_LENGTH) =>
              Pattern(v, s, pass) = Result("invalid")
         /\ s.k["pattern"] \notin Refused \cup Broken /\ ~(v.len > MAX_PATTERN_VALUE_LENGTH) =>
              /\ Pattern(v, s, pass).asked = {Key(v, s)}
              /\ Pattern(v, s, pass).r # "unsupported"
              /\ Pattern(v, s, pass).r = "ok" <=>
                   (pass.collecting \/ (Key(v, s) \in DOMAIN pass.byNode /\ pass.byNode[Key(v, s)]))
<1> DEFINE holds == pass.collecting \/ (Key(v, s) \in DOMAIN pass.byNode /\ pass.byNode[Key(v, s)])
<1>1. Key(v, s) \in Keys
  BY DEF Key, Keys
<1>2. holds \in BOOLEAN
  OBVIOUS
<1>3. [Need(holds) EXCEPT !.asked = {Key(v, s)}] =
        [r |-> IF holds THEN "ok" ELSE "invalid", asked |-> {Key(v, s)}]
  BY DEF Need, Result
<1>4. \/ Pattern(v, s, pass) = Result("unsupported") /\ s.k["pattern"] \in Refused
      \/ /\ Pattern(v, s, pass) = Result("invalid") /\ s.k["pattern"] \notin Refused
         /\ s.k["pattern"] \in Broken \/ v.len > MAX_PATTERN_VALUE_LENGTH
      \/ /\ s.k["pattern"] \notin Refused \cup Broken /\ ~(v.len > MAX_PATTERN_VALUE_LENGTH)
         /\ Pattern(v, s, pass) = [Need(holds) EXCEPT !.asked = {Key(v, s)}]
  BY DEF Pattern
<1>5. /\ Result("unsupported") = [r |-> "unsupported", asked |-> {}]
      /\ Result("invalid") = [r |-> "invalid", asked |-> {}]
      /\ Result("unsupported") \in Results /\ Result("invalid") \in Results
  BY NeedType DEF Result
<1>6. [r |-> IF holds THEN "ok" ELSE "invalid", asked |-> {Key(v, s)}] \in Results
  BY <1>1 DEF Results, Outcome
<1> HIDE DEF holds
<1>7. CASE /\ s.k["pattern"] \notin Refused \cup Broken /\ ~(v.len > MAX_PATTERN_VALUE_LENGTH)
           /\ Pattern(v, s, pass) = [r |-> IF holds THEN "ok" ELSE "invalid", asked |-> {Key(v, s)}]
  BY <1>7, <1>6, <1>2 DEF holds
<1>8. CASE ~(/\ s.k["pattern"] \notin Refused \cup Broken /\ ~(v.len > MAX_PATTERN_VALUE_LENGTH)
             /\ Pattern(v, s, pass) = [r |-> IF holds THEN "ok" ELSE "invalid", asked |-> {Key(v, s)}])
  BY <1>8, <1>3, <1>4, <1>5
<1> QED  BY <1>7, <1>8

LEMMA PlainTypes ==
  ASSUME NEW s \in Schemas, NEW v \in Values, NEW pass
  PROVE  /\ ValidateEnum(v, s) \in Results /\ ValidateType(v, s) \in Results
         /\ ValidateNumber(v, s) \in Results /\ ValidateString(v, s, pass) \in Results
<1>1. \A holds \in BOOLEAN : Need(holds) \in Results
  BY NeedType
<1>2. Pattern(v, s, pass) \in Results /\ Result("ok") \in Results /\ Result("invalid") \in Results
  BY PatternType, NeedType
<1>3. ValidateEnum(v, s) \in Results /\ ValidateType(v, s) \in Results
  BY <1>1 DEF ValidateEnum, ValidateType
<1>4. ValidateNumber(v, s) \in Results
  BY <1>1, <1>2 DEF ValidateNumber
<1>5. Need(LengthHolds(v, s)) \in Results
  BY <1>1 DEF LengthHolds
<1>6. Then(Need(LengthHolds(v, s)),
           IF Has(s, "pattern") THEN Pattern(v, s, pass) ELSE Result("ok")) \in Results
  BY <1>2, <1>5, ThenType
<1>7. ValidateString(v, s, pass) \in Results
  BY <1>2, <1>6 DEF ValidateString
<1> QED  BY <1>3, <1>4, <1>7

(* The results of the properties that the schema lists, of the others, and  *)
(* of the items.                                                            *)
PropertyResults(v, s, f) ==
  [i \in DOMAIN Listed(s) |->
    IF Listed(s)[i].name \in Names(v) THEN f[Listed(s)[i].schema][v.props[Listed(s)[i].name]]
    ELSE Result("ok")]
OtherResults(v, s, f) ==
  [i \in DOMAIN Others(v, s) |-> f[s.k["additionalProperties"]][v.props[Others(v, s)[i]]]]
ItemResults(v, s, f) == [i \in DOMAIN v.items |-> f[s.k["items"]][v.items[i]]]
Unlisted(v, s) == Names(v) \ {Listed(s)[i].name : i \in DOMAIN Listed(s)}

LEMMA IsSequence ==
  ASSUME NEW n \in Nat, NEW e, e = [i \in 1..n |-> e[i]], \A i \in 1..n : e[i] \in Results
  PROVE  e \in Seq(Results) /\ DOMAIN e = 1..n
<1>1. e \in [1..n -> Results]
  OBVIOUS
<1> QED  BY <1>1

LEMMA PropertyResultsType ==
  ASSUME NEW s \in Schemas, s.t = "node", NEW v \in Values, v.t = "object", NEW f \in Walks
  PROVE  /\ PropertyResults(v, s, f) \in Seq(Results) /\ DOMAIN PropertyResults(v, s, f) = DOMAIN Listed(s)
         /\ \A i \in DOMAIN Listed(s) :
              PropertyResults(v, s, f)[i] =
                IF Listed(s)[i].name \in Names(v) THEN f[Listed(s)[i].schema][v.props[Listed(s)[i].name]]
                ELSE Result("ok")
         /\ \A g : Alike(s, f, g) => PropertyResults(v, s, f) = PropertyResults(v, s, g)
<1>1. /\ Listed(s) \in Seq([name : STRING, schema : Schemas])
      /\ \A i \in DOMAIN Listed(s) : Listed(s)[i].schema \in Inside(s) /\ Listed(s)[i].schema \in Schemas
  BY NodeFacts
<1>2. Len(Listed(s)) \in Nat /\ DOMAIN Listed(s) = 1..Len(Listed(s))
  BY <1>1, LenProperties
<1>3. \A name \in Names(v) : v.props[name] \in Values
  BY ValueFacts
<1>4. \A i \in DOMAIN Listed(s) : Listed(s)[i].name \in Names(v) =>
        f[Listed(s)[i].schema][v.props[Listed(s)[i].name]] \in Results
  BY <1>1, <1>3, WalkType
<1>5. \A i \in DOMAIN Listed(s) : PropertyResults(v, s, f)[i] \in Results
  BY <1>4, NeedType DEF PropertyResults
<1>6. PropertyResults(v, s, f) \in Seq(Results) /\ DOMAIN PropertyResults(v, s, f) = DOMAIN Listed(s)
  <2> DEFINE e == PropertyResults(v, s, f)
  <2>1. e = [i \in 1..Len(Listed(s)) |-> e[i]] /\ \A i \in 1..Len(Listed(s)) : e[i] \in Results
    BY <1>2, <1>5 DEF PropertyResults
  <2> HIDE DEF e
  <2>2. e \in Seq(Results) /\ DOMAIN e = 1..Len(Listed(s))
    BY <1>2, <2>1, IsSequence
  <2> QED  BY <1>2, <2>2 DEF e
<1>7. ASSUME NEW g, Alike(s, f, g) PROVE PropertyResults(v, s, f) = PropertyResults(v, s, g)
  <2>1. \A i \in DOMAIN Listed(s) : f[Listed(s)[i].schema] = g[Listed(s)[i].schema]
    BY <1>1, <1>7 DEF Alike
  <2> QED  BY <2>1 DEF PropertyResults
<1> QED  BY <1>6, <1>7 DEF PropertyResults

(* Others is a row of all names that the schema does not list.              *)
LEMMA OthersFacts ==
  ASSUME NEW s \in Schemas, s.t = "node", NEW v \in Values, v.t = "object"
  PROVE  /\ \E n \in Nat : DOMAIN Others(v, s) = 1..n
         /\ \A i \in DOMAIN Others(v, s) : Others(v, s)[i] \in Unlisted(v, s)
         /\ \A name \in Unlisted(v, s) : \E i \in DOMAIN Others(v, s) : Others(v, s)[i] = name
<1>1. IsFiniteSet(Names(v)) /\ Unlisted(v, s) \in SUBSET Names(v)
  BY ValueFacts DEF Unlisted
<1>2. IsFiniteSet(Unlisted(v, s))
  BY <1>1, FS_Subset
<1>3. Others(v, s) = SetToSeq(Unlisted(v, s))
  BY DEF Others, Unlisted
<1>4. /\ Cardinality(Unlisted(v, s)) \in Nat
      /\ Others(v, s) \in [1..Cardinality(Unlisted(v, s)) -> Unlisted(v, s)]
      /\ \A x \in Unlisted(v, s) : \E i \in 1..Cardinality(Unlisted(v, s)) : Others(v, s)[i] = x
  BY <1>2, <1>3, Enumerated
<1> QED  BY <1>4

LEMMA OtherResultsType ==
  ASSUME NEW s \in Schemas, s.t = "node", NEW v \in Values, v.t = "object", NEW f \in Walks,
         Has(s, "additionalProperties")
  PROVE  /\ OtherResults(v, s, f) \in Seq(Results) /\ DOMAIN OtherResults(v, s, f) = DOMAIN Others(v, s)
         /\ \A i \in DOMAIN Others(v, s) :
              OtherResults(v, s, f)[i] = f[s.k["additionalProperties"]][v.props[Others(v, s)[i]]]
         /\ \A g : Alike(s, f, g) => OtherResults(v, s, f) = OtherResults(v, s, g)
<1>1. s.k["additionalProperties"] \in Inside(s) /\ s.k["additionalProperties"] \in Schemas
  BY NodeFacts
<1>2. PICK n \in Nat : DOMAIN Others(v, s) = 1..n
  BY OthersFacts
<1>3. \A i \in 1..n : Others(v, s)[i] \in Names(v)
  BY <1>2, OthersFacts DEF Unlisted
<1>4. \A i \in 1..n : v.props[Others(v, s)[i]] \in Values
  BY <1>3, ValueFacts
<1>5. \A i \in 1..n : OtherResults(v, s, f)[i] \in Results
  BY <1>1, <1>2, <1>4, WalkType DEF OtherResults
<1>6. OtherResults(v, s, f) \in Seq(Results) /\ DOMAIN OtherResults(v, s, f) = 1..n
  <2> DEFINE e == OtherResults(v, s, f)
  <2>1. e = [i \in 1..n |-> e[i]] /\ \A i \in 1..n : e[i] \in Results
    BY <1>2, <1>5 DEF OtherResults
  <2> HIDE DEF e
  <2>2. e \in Seq(Results) /\ DOMAIN e = 1..n
    BY <2>1, IsSequence
  <2> QED  BY <2>2 DEF e
<1>7. ASSUME NEW g, Alike(s, f, g) PROVE OtherResults(v, s, f) = OtherResults(v, s, g)
  BY <1>1, <1>7 DEF Alike, OtherResults
<1> QED  BY <1>2, <1>6, <1>7 DEF OtherResults

LEMMA ItemResultsType ==
  ASSUME NEW s \in Schemas, s.t = "node", NEW v \in Values, v.t = "array", NEW f \in Walks, Has(s, "items")
  PROVE  /\ ItemResults(v, s, f) \in Seq(Results) /\ DOMAIN ItemResults(v, s, f) = DOMAIN v.items
         /\ \A i \in DOMAIN v.items : ItemResults(v, s, f)[i] = f[s.k["items"]][v.items[i]]
         /\ \A g : Alike(s, f, g) => ItemResults(v, s, f) = ItemResults(v, s, g)
<1>1. s.k["items"] \in Inside(s) /\ s.k["items"] \in Schemas
  BY NodeFacts
<1>2. v.items \in Seq(Values) /\ \A i \in DOMAIN v.items : v.items[i] \in Values
  BY ValueFacts
<1>3. Len(v.items) \in Nat /\ DOMAIN v.items = 1..Len(v.items)
  BY <1>2, LenProperties
<1>5. \A i \in 1..Len(v.items) : ItemResults(v, s, f)[i] \in Results
  BY <1>1, <1>2, <1>3, WalkType DEF ItemResults
<1>6. ItemResults(v, s, f) \in Seq(Results) /\ DOMAIN ItemResults(v, s, f) = DOMAIN v.items
  <2> DEFINE e == ItemResults(v, s, f)
  <2>1. e = [i \in 1..Len(v.items) |-> e[i]] /\ \A i \in 1..Len(v.items) : e[i] \in Results
    BY <1>3, <1>5 DEF ItemResults
  <2> HIDE DEF e
  <2>2. e \in Seq(Results) /\ DOMAIN e = 1..Len(v.items)
    BY <1>3, <2>1, IsSequence
  <2> QED  BY <1>3, <2>2 DEF e
<1>7. ASSUME NEW g, Alike(s, f, g) PROVE ItemResults(v, s, f) = ItemResults(v, s, g)
  BY <1>1, <1>7 DEF Alike, ItemResults
<1> QED  BY <1>6, <1>7 DEF ItemResults

LEMMA ObjectType ==
  ASSUME NEW s \in Schemas, s.t = "node", NEW v \in Values, NEW f \in Walks
  PROVE  /\ ValidateObject(v, s, f) \in Results
         /\ v.t = "object" => /\ Properties(v, s, f) \in Results
                              /\ AdditionalProperties(v, s, f) \in Results
         /\ \A g : Alike(s, f, g) => ValidateObject(v, s, f) = ValidateObject(v, s, g)
<1>1. \A holds \in BOOLEAN : Need(holds) \in Results
  BY NeedType
<1>2. Result("ok") \in Results /\ Result("invalid") \in Results
  BY NeedType
<1>3. CASE v.t # "object"
  BY <1>2, <1>3 DEF ValidateObject
<1>4. CASE v.t = "object"
  <2>1. Properties(v, s, f) \in Results
    <3>1. Properties(v, s, f) = UpTo(PropertyResults(v, s, f), {"invalid", "unsupported"})
      BY DEF Properties, PropertyResults, InOrder
    <3> QED  BY <3>1, <1>4, PropertyResultsType, UpToType
  <2>2. AdditionalProperties(v, s, f) \in Results
    <3>1. AdditionalProperties(v, s, f) =
            IF Wrong(s, {"additionalProperties"}) THEN Result("invalid")
            ELSE IF ~Has(s, "additionalProperties") THEN Result("ok")
            ELSE UpTo(OtherResults(v, s, f), {"invalid", "unsupported"})
      BY DEF AdditionalProperties, OtherResults, InOrder
    <3>2. Has(s, "additionalProperties") =>
            UpTo(OtherResults(v, s, f), {"invalid", "unsupported"}) \in Results
      BY <1>4, OtherResultsType, UpToType
    <3> QED  BY <3>1, <3>2, <1>2
  <2>3. Then(Properties(v, s, f), AdditionalProperties(v, s, f)) \in Results
    BY <2>1, <2>2, ThenType
  <2>4. Then(Need(~Wrong(s, {"properties"})),
             Then(Properties(v, s, f), AdditionalProperties(v, s, f))) \in Results
    BY <2>3, <1>1, ThenType
  <2>5. Then(Need(~Wrong(s, {"required"}) /\ RequiredHolds(v, s)),
          Then(Need(~Wrong(s, {"properties"})),
             Then(Properties(v, s, f), AdditionalProperties(v, s, f)))) \in Results
    BY <2>4, <1>1, ThenType
  <2>6. ValidateObject(v, s, f) \in Results
    BY <2>5, <1>1, <1>4, ThenType DEF ValidateObject
  <2>7. ASSUME NEW g, Alike(s, f, g) PROVE ValidateObject(v, s, f) = ValidateObject(v, s, g)
    <3>1. Properties(v, s, f) = Properties(v, s, g)
      <4>1. PropertyResults(v, s, f) = PropertyResults(v, s, g)
        BY <1>4, <2>7, PropertyResultsType
      <4> QED  BY <4>1 DEF Properties, PropertyResults
    <3>2. AdditionalProperties(v, s, f) = AdditionalProperties(v, s, g)
      <4>1. Has(s, "additionalProperties") => OtherResults(v, s, f) = OtherResults(v, s, g)
        BY <1>4, <2>7, OtherResultsType
      <4> QED  BY <4>1 DEF AdditionalProperties, OtherResults
    <3> QED  BY <3>1, <3>2 DEF ValidateObject
  <2> QED  BY <2>1, <2>2, <2>6, <2>7
<1> QED  BY <1>3, <1>4

LEMMA ArrayType ==
  ASSUME NEW s \in Schemas, s.t = "node", NEW v \in Values, NEW f \in Walks
  PROVE  /\ ValidateArray(v, s, f) \in Results
         /\ \A g : Alike(s, f, g) => ValidateArray(v, s, f) = ValidateArray(v, s, g)
<1>1. \A holds \in BOOLEAN : Need(holds) \in Results
  BY NeedType
<1>2. Result("ok") \in Results /\ Result("invalid") \in Results
  BY NeedType
<1>3. CASE v.t # "array"
  BY <1>2, <1>3 DEF ValidateArray
<1>4. CASE v.t = "array"
  <2> DEFINE last(h) == IF ~Has(s, "items") THEN Result("ok")
                        ELSE IF s.k["items"].t = "tuple" THEN Result("invalid")
                        ELSE InOrder(ItemResults(v, s, h))
  <2>1. last(f) \in Results
    <3>1. Has(s, "items") => UpTo(ItemResults(v, s, f), {"invalid", "unsupported"}) \in Results
      BY <1>4, ItemResultsType, UpToType
    <3> QED  BY <3>1, <1>2 DEF InOrder
  <2>2. \A h : ValidateArray(v, s, h) =
          Then(Need(/\ ~Wrong(s, {"minItems", "maxItems"})
                    /\ CountHolds(Len(v.items), s, "minItems", "maxItems")),
               Then(Need(~Wrong(s, {"uniqueItems"}) /\ UniqueHolds(v, s)), last(h)))
    BY <1>4 DEF ValidateArray, ItemResults
  <2>3. ASSUME NEW g, Alike(s, f, g) PROVE last(f) = last(g)
    <3>1. Has(s, "items") => ItemResults(v, s, f) = ItemResults(v, s, g)
      BY <1>4, <2>3, ItemResultsType
    <3> QED  BY <3>1
  <2> HIDE DEF last
  <2> DEFINE number == Need(/\ ~Wrong(s, {"minItems", "maxItems"})
                            /\ CountHolds(Len(v.items), s, "minItems", "maxItems"))
             unique == Need(~Wrong(s, {"uniqueItems"}) /\ UniqueHolds(v, s))
  <2>4. number \in Results /\ unique \in Results
    BY <1>1
  <2>5. ValidateArray(v, s, f) \in Results
    <3>1. ValidateArray(v, s, f) = Then(number, Then(unique, last(f)))
      BY <2>2
    <3> HIDE DEF number, unique
    <3>2. Then(unique, last(f)) \in Results
      BY <2>1, <2>4, ThenType
    <3>3. Then(number, Then(unique, last(f))) \in Results
      BY <2>4, <3>2, ThenType
    <3> QED  BY <3>1, <3>3
  <2> HIDE DEF number, unique
  <2>6. ASSUME NEW g, Alike(s, f, g) PROVE ValidateArray(v, s, f) = ValidateArray(v, s, g)
    BY <2>2, <2>3, <2>6
  <2> QED  BY <2>5, <2>6
<1> QED  BY <1>3, <1>4

LEMMA ValidatedType ==
  ASSUME NEW s \in Schemas, NEW v \in Values, NEW f \in Walks, NEW pass, pass.collecting \in BOOLEAN
  PROVE  /\ Validated(v, s, f, pass) \in Results
         /\ \A g : (s.t = "node" => Alike(s, f, g)) => Validated(v, s, f, pass) = Validated(v, s, g, pass)
<1>1. Result("ok") \in Results /\ Result("invalid") \in Results /\ Result("unsupported") \in Results
  BY NeedType
<1>2. CASE s.t # "node"
  BY <1>1, <1>2 DEF Validated
<1>3. CASE s.t = "node"
  <2>1. /\ ValidateComposites(v, s, f, pass) \in Results
        /\ \A g : Alike(s, f, g) => ValidateComposites(v, s, f, pass) = ValidateComposites(v, s, g, pass)
    BY <1>3, CompositesType
  <2>2. /\ ValidateObject(v, s, f) \in Results
        /\ \A g : Alike(s, f, g) => ValidateObject(v, s, f) = ValidateObject(v, s, g)
    BY <1>3, ObjectType
  <2>3. /\ ValidateArray(v, s, f) \in Results
        /\ \A g : Alike(s, f, g) => ValidateArray(v, s, f) = ValidateArray(v, s, g)
    BY <1>3, ArrayType
  <2>4. /\ ValidateEnum(v, s) \in Results /\ ValidateType(v, s) \in Results
        /\ ValidateNumber(v, s) \in Results /\ ValidateString(v, s, pass) \in Results
    BY PlainTypes
  <2>5. Then(ValidateObject(v, s, f), ValidateArray(v, s, f)) \in Results
    BY <2>2, <2>3, ThenType
  <2>6. Then(ValidateNumber(v, s), Then(ValidateObject(v, s, f), ValidateArray(v, s, f))) \in Results
    BY <2>4, <2>5, ThenType
  <2>7. Then(ValidateString(v, s, pass),
          Then(ValidateNumber(v, s), Then(ValidateObject(v, s, f), ValidateArray(v, s, f)))) \in Results
    BY <2>4, <2>6, ThenType
  <2>8. Then(ValidateType(v, s), Then(ValidateString(v, s, pass),
          Then(ValidateNumber(v, s), Then(ValidateObject(v, s, f), ValidateArray(v, s, f))))) \in Results
    BY <2>4, <2>7, ThenType
  <2>9. Then(ValidateEnum(v, s), Then(ValidateType(v, s), Then(ValidateString(v, s, pass),
          Then(ValidateNumber(v, s), Then(ValidateObject(v, s, f), ValidateArray(v, s, f)))))) \in Results
    BY <2>4, <2>8, ThenType
  <2>10. Then(ValidateComposites(v, s, f, pass),
          Then(ValidateEnum(v, s), Then(ValidateType(v, s), Then(ValidateString(v, s, pass),
          Then(ValidateNumber(v, s), Then(ValidateObject(v, s, f), ValidateArray(v, s, f))))))) \in Results
    BY <2>1, <2>9, ThenType
  <2>11. Validated(v, s, f, pass) \in Results
    BY <2>10, <1>1 DEF Validated
  <2>12. ASSUME NEW g, Alike(s, f, g) PROVE Validated(v, s, f, pass) = Validated(v, s, g, pass)
    BY <2>1, <2>2, <2>3, <2>12 DEF Validated
  <2> QED  BY <2>11, <2>12, <1>3
<1> QED  BY <1>2, <1>3

(* The walk is what it is said to be.                                       *)
LEMMA WalkUnfolds ==
  ASSUME NEW pass, pass.collecting \in BOOLEAN
  PROVE  /\ ValidateAt(pass) \in Walks
         /\ \A s \in Schemas : \A v \in Values :
              ValidateAt(pass)[s][v] = Validated(v, s, ValidateAt(pass), pass)
<1> DEFINE walk[s \in Schemas] == [v \in Values |-> Validated(v, s, walk, pass)]
           body(f, s) == [v \in Values |-> Validated(v, s, f, pass)]
           step == [f \in Walks |-> [s \in Schemas |-> body(f, s)]]
<1>1. \A f \in Walks : \A s \in Schemas : body(f, s) \in [Values -> Results]
  BY ValidatedType
<1>2. step \in [Walks -> Walks]
  BY <1>1 DEF Walks
<1>3. ASSUME NEW f \in Walks, NEW g \in Walks, NEW s \in Schemas,
             \A u \in Schemas : SchemaRank[u] < SchemaRank[s] => f[u] = g[u]
      PROVE  step[f][s] = step[g][s]
  <2>1. s.t = "node" => Alike(s, f, g)
    <3>1. s.t = "node" => \A c \in Inside(s) : c \in Schemas /\ Height[c] < Height[s]
      BY NodeFacts
    <3> QED  BY <1>3, <3>1 DEF Alike, SchemaRank
  <2>2. \A v \in Values : Validated(v, s, f, pass) = Validated(v, s, g, pass)
    BY <2>1, ValidatedType
  <2>3. body(f, s) = body(g, s)
    BY <2>2
  <2> HIDE DEF body
  <2> QED  BY <2>3
<1>4. Result("ok") \in Results
  BY NeedType
<1>5. [Values -> Results] # {}
  <2>1. [v \in Values |-> Result("ok")] \in [Values -> Results]
    BY <1>4
  <2> QED  BY <2>1
<1>6. \E f \in Walks : f = step[f]
  <2> HIDE DEF step
  <2> DEFINE T == [Values -> Results]
  <2>1. step \in [[Schemas -> T] -> [Schemas -> T]]
    BY <1>2 DEF Walks
  <2>2. \A f, g \in [Schemas -> T] : \A s \in Schemas :
          (\A u \in Schemas : SchemaRank[u] < SchemaRank[s] => f[u] = g[u]) => step[f][s] = step[g][s]
    BY <1>3 DEF Walks
  <2>3. T # {}
    BY <1>5
  <2> HIDE DEF T
  <2>4. \E f \in [Schemas -> T] : f = step[f]
    BY <2>1, <2>2, <2>3, SchemaRecursion
  <2> QED  BY <2>4 DEF Walks, T
<1>7. PICK first \in Walks : first = step[first]
  BY <1>6
<1>8. first = [s \in Schemas |-> [v \in Values |-> Validated(v, s, first, pass)]]
  BY <1>7
<1>9. \E f : f = [s \in Schemas |-> [v \in Values |-> Validated(v, s, f, pass)]]
  BY <1>8, Zenon
<1>10. walk = [s \in Schemas |-> [v \in Values |-> Validated(v, s, walk, pass)]]
  BY <1>9
<1>11. ValidateAt(pass) = walk
  BY DEF ValidateAt
<1> HIDE DEF walk
<1>12. ASSUME NEW s \in Schemas, \A u \in Schemas : SchemaRank[u] < SchemaRank[s] => first[u] = walk[u]
       PROVE  first[s] = walk[s]
  <2>1. s.t = "node" => Alike(s, first, walk)
    <3>1. s.t = "node" => \A c \in Inside(s) : c \in Schemas /\ Height[c] < Height[s]
      BY NodeFacts
    <3> QED  BY <1>12, <3>1 DEF Alike, SchemaRank
  <2>2. \A v \in Values : Validated(v, s, first, pass) = Validated(v, s, walk, pass)
    BY <2>1, ValidatedType
  <2>3. first[s] = [v \in Values |-> Validated(v, s, first, pass)]
    BY <1>8
  <2>4. walk[s] = [v \in Values |-> Validated(v, s, walk, pass)]
    BY <1>10
  <2> QED  BY <2>2, <2>3, <2>4
<1>13. \A s \in Schemas : first[s] = walk[s]
  <2> DEFINE Good == {s \in Schemas : first[s] = walk[s]}
  <2>1. \A s \in Schemas : (\A u \in Schemas : SchemaRank[u] < SchemaRank[s] => u \in Good) => s \in Good
    BY <1>12
  <2> HIDE DEF Good
  <2>2. Schemas \subseteq Good
    BY <2>1, RankFacts, RankInduction
  <2> QED  BY <2>2 DEF Good
<1>14. walk = first
  <2>1. first \in [Schemas -> [Values -> Results]] /\ DOMAIN walk = Schemas
    BY <1>10 DEF Walks
  <2>2. walk = [s \in Schemas |-> walk[s]] /\ first = [s \in Schemas |-> first[s]]
    BY <1>10, <2>1
  <2> QED  BY <1>13, <2>2
<1>15. \A s \in Schemas : \A v \in Values : walk[s][v] = Validated(v, s, walk, pass)
  BY <1>10
<1> QED  BY <1>11, <1>14, <1>15

-----------------------------------------------------------------------------
(* The other recursions are what they are said to be.                       *)
LEMMA AcceptableIs ==
  \A s \in Schemas : \A depth \in Nat :
    Acceptable[s][depth] <=>
      (s.t = "node" =>
        /\ depth <= MAX_SCHEMA_DEPTH
        /\ DOMAIN s.k \subseteq SUPPORTED_SCHEMA_KEYS
        /\ ~Wrong(s, {"pattern"}) /\ (Has(s, "pattern") => s.k["pattern"] \notin Refused \cup Broken)
        /\ Has(s, "items") => s.k["items"].t # "tuple"
        /\ \A child \in Children(s) : Acceptable[child][depth + 1])
<1> DEFINE Own(s, depth) ==
             /\ depth <= MAX_SCHEMA_DEPTH
             /\ DOMAIN s.k \subseteq SUPPORTED_SCHEMA_KEYS
             /\ ~Wrong(s, {"pattern"}) /\ (Has(s, "pattern") => s.k["pattern"] \notin Refused \cup Broken)
             /\ Has(s, "items") => s.k["items"].t # "tuple"
           body(f, s) == [depth \in Nat |->
             s.t = "node" => Own(s, depth) /\ \A child \in Children(s) : f[child][depth + 1]]
           T == [Nat -> BOOLEAN]
           step == [f \in [Schemas -> T] |-> [s \in Schemas |-> body(f, s)]]
<1> HIDE DEF Own
<1>1. step \in [[Schemas -> T] -> [Schemas -> T]]
  OBVIOUS
<1>2. ASSUME NEW f \in [Schemas -> T], NEW g \in [Schemas -> T], NEW s \in Schemas,
             \A u \in Schemas : SchemaRank[u] < SchemaRank[s] => f[u] = g[u]
      PROVE  step[f][s] = step[g][s]
  <2>1. s.t = "node" => \A c \in Children(s) : c \in Schemas /\ Height[c] < Height[s]
    BY NodeFacts
  <2>2. s.t = "node" => \A c \in Children(s) : f[c] = g[c]
    BY <1>2, <2>1 DEF SchemaRank
  <2>3. body(f, s) = body(g, s)
    BY <2>2
  <2> HIDE DEF body
  <2> QED  BY <2>3
<1>3. T # {}
  <2>1. [n \in Nat |-> TRUE] \in T
    OBVIOUS
  <2> QED  BY <2>1
<1>4. \E f \in [Schemas -> T] : f = step[f]
  <2> HIDE DEF step, T
  <2> QED  BY <1>1, <1>2, <1>3, SchemaRecursion
<1>5. \E f : f = [s \in Schemas |-> [depth \in Nat |->
             s.t = "node" => Own(s, depth) /\ \A child \in Children(s) : f[child][depth + 1]]]
  <2>1. PICK f \in [Schemas -> T] : f = step[f]
    BY <1>4
  <2>2. f = [s \in Schemas |-> [depth \in Nat |->
             s.t = "node" => Own(s, depth) /\ \A child \in Children(s) : f[child][depth + 1]]]
    BY <2>1
  <2> QED  BY <2>2, Zenon
<1>6. Acceptable = CHOOSE f : f = [s \in Schemas |-> [depth \in Nat |->
             s.t = "node" => Own(s, depth) /\ \A child \in Children(s) : f[child][depth + 1]]]
  BY DEF Acceptable, Own
<1>7. Acceptable = [s \in Schemas |-> [depth \in Nat |->
             s.t = "node" => Own(s, depth) /\ \A child \in Children(s) : Acceptable[child][depth + 1]]]
  BY <1>5, <1>6, Zenon
<1>8. \A s \in Schemas : \A depth \in Nat :
        Acceptable[s][depth] <=>
          (s.t = "node" => Own(s, depth) /\ \A child \in Children(s) : Acceptable[child][depth + 1])
  BY <1>7
<1> QED  BY <1>8 DEF Own

LEMMA WellFormedIs ==
  \A s \in Schemas :
    WellFormed[s] <=>
      /\ s.t \notin {"junk", "tuple"}
      /\ s.t = "node" => s.bad = {} /\ Exact(s) /\ \A child \in Inside(s) : WellFormed[child]
<1> DEFINE body(f, s) == /\ s.t \notin {"junk", "tuple"}
                         /\ s.t = "node" => s.bad = {} /\ Exact(s) /\ \A child \in Inside(s) : f[child]
           step == [f \in [Schemas -> BOOLEAN] |-> [s \in Schemas |-> body(f, s)]]
<1>1. step \in [[Schemas -> BOOLEAN] -> [Schemas -> BOOLEAN]]
  OBVIOUS
<1>2. ASSUME NEW f \in [Schemas -> BOOLEAN], NEW g \in [Schemas -> BOOLEAN], NEW s \in Schemas,
             \A u \in Schemas : SchemaRank[u] < SchemaRank[s] => f[u] = g[u]
      PROVE  step[f][s] = step[g][s]
  <2>1. s.t = "node" => \A c \in Inside(s) : c \in Schemas /\ Height[c] < Height[s]
    BY NodeFacts
  <2>2. s.t = "node" => \A c \in Inside(s) : f[c] = g[c]
    BY <1>2, <2>1 DEF SchemaRank
  <2>3. body(f, s) = body(g, s)
    BY <2>2
  <2> HIDE DEF body
  <2> QED  BY <2>3
<1>3. \E f \in [Schemas -> BOOLEAN] : f = step[f]
  <2> HIDE DEF step
  <2> QED  BY <1>1, <1>2, SchemaRecursion
<1>4. \E f : f = [s \in Schemas |->
               /\ s.t \notin {"junk", "tuple"}
               /\ s.t = "node" => s.bad = {} /\ Exact(s) /\ \A child \in Inside(s) : f[child]]
  <2>1. PICK f \in [Schemas -> BOOLEAN] : f = step[f]
    BY <1>3
  <2>2. f = [s \in Schemas |->
               /\ s.t \notin {"junk", "tuple"}
               /\ s.t = "node" => s.bad = {} /\ Exact(s) /\ \A child \in Inside(s) : f[child]]
    BY <2>1
  <2> QED  BY <2>2, Zenon
<1>5. WellFormed = [s \in Schemas |->
               /\ s.t \notin {"junk", "tuple"}
               /\ s.t = "node" => s.bad = {} /\ Exact(s) /\ \A child \in Inside(s) : WellFormed[child]]
  BY <1>4, Zenon DEF WellFormed
<1> QED  BY <1>5

(* And for one on the values.                                               *)
LEMMA ValueRecursion ==
  ASSUME NEW T, T # {}, NEW step \in [[Values -> T] -> [Values -> T]],
         \A f, g \in [Values -> T] : \A s \in Values :
           (\A u \in Values : ValueRank[u] < ValueRank[s] => f[u] = g[u]) => step[f][s] = step[g][s]
  PROVE  \E f \in [Values -> T] : f = step[f]
<1>1. LooksLower(Values, T, step, ValueRank, Tallest)
  BY RankFacts DEF LooksLower
<1> QED  BY <1>1, RecursionOnRank

LEMMA TooLongIs ==
  \A v \in Values :
    TooLong[v] <=> \/ v.t = "string" /\ v.len > MAX_PATTERN_VALUE_LENGTH
                   \/ \E part \in Parts(v) : TooLong[part]
<1> DEFINE body(f, v) == \/ v.t = "string" /\ v.len > MAX_PATTERN_VALUE_LENGTH
                         \/ \E part \in Parts(v) : f[part]
           step == [f \in [Values -> BOOLEAN] |-> [v \in Values |-> body(f, v)]]
<1>1. step \in [[Values -> BOOLEAN] -> [Values -> BOOLEAN]]
  OBVIOUS
<1>2. ASSUME NEW f \in [Values -> BOOLEAN], NEW g \in [Values -> BOOLEAN], NEW v \in Values,
             \A u \in Values : ValueRank[u] < ValueRank[v] => f[u] = g[u]
      PROVE  step[f][v] = step[g][v]
  <2>1. \A part \in Parts(v) : part \in Values /\ Height[part] < Height[v]
    BY ValueFacts
  <2>2. \A part \in Parts(v) : f[part] = g[part]
    BY <1>2, <2>1 DEF ValueRank
  <2>3. body(f, v) = body(g, v)
    BY <2>2
  <2> HIDE DEF body
  <2> QED  BY <2>3
<1>3. \E f \in [Values -> BOOLEAN] : f = step[f]
  <2> HIDE DEF step
  <2> QED  BY <1>1, <1>2, ValueRecursion
<1>4. \E f : f = [v \in Values |->
               \/ v.t = "string" /\ v.len > MAX_PATTERN_VALUE_LENGTH
               \/ \E part \in Parts(v) : f[part]]
  <2>1. PICK f \in [Values -> BOOLEAN] : f = step[f]
    BY <1>3
  <2>2. f = [v \in Values |->
               \/ v.t = "string" /\ v.len > MAX_PATTERN_VALUE_LENGTH
               \/ \E part \in Parts(v) : f[part]]
    BY <2>1
  <2> QED  BY <2>2, Zenon
<1>5. TooLong = [v \in Values |->
               \/ v.t = "string" /\ v.len > MAX_PATTERN_VALUE_LENGTH
               \/ \E part \in Parts(v) : TooLong[part]]
  BY <1>4, Zenon DEF TooLong
<1> QED  BY <1>5

(* What conforms depends only on what is nested in the node.                *)
LEMMA ConformsLocal ==
  ASSUME NEW s \in Schemas, s.t = "node", NEW v \in Values, NEW f, NEW g, Alike(s, f, g)
  PROVE  NodeConforms(v, s, f) <=> NodeConforms(v, s, g)
<1>1. /\ \A key \in {"allOf", "anyOf", "oneOf"} :
           \A i \in DOMAIN Listing(s, key) : f[Listing(s, key)[i]] = g[Listing(s, key)[i]]
      /\ \A i \in DOMAIN Listed(s) : f[Listed(s)[i].schema] = g[Listed(s)[i].schema]
      /\ \A key \in {"items", "additionalProperties", "not"} : Has(s, key) => f[s.k[key]] = g[s.k[key]]
  BY NodeFacts DEF Alike
<1>2. \A key \in {"anyOf", "oneOf"} : Fitting(v, Listing(s, key), f) = Fitting(v, Listing(s, key), g)
  <2>1. ASSUME NEW key \in {"anyOf", "oneOf"}
        PROVE  {i \in DOMAIN Listing(s, key) : f[Listing(s, key)[i]][v]}
                 = {i \in DOMAIN Listing(s, key) : g[Listing(s, key)[i]][v]}
    BY <1>1
  <2> QED  BY <2>1 DEF Fitting
<1>3. CompositesConform(v, s, f) <=> CompositesConform(v, s, g)
  BY <1>1, <1>2 DEF CompositesConform
<1>4. ArrayConforms(v, s, f) <=> ArrayConforms(v, s, g)
  BY <1>1 DEF ArrayConforms
<1>5. ObjectConforms(v, s, f) <=> ObjectConforms(v, s, g)
  BY <1>1 DEF ObjectConforms
<1> QED  BY <1>3, <1>4, <1>5 DEF NodeConforms

LEMMA ConformsIs ==
  \A s \in Schemas : \A v \in Values :
    Conforms[s][v] <=> s.t # "false" /\ (s.t = "node" => NodeConforms(v, s, Conforms))
<1> DEFINE body(f, s) == [v \in Values |-> s.t # "false" /\ (s.t = "node" => NodeConforms(v, s, f))]
           T == [Values -> BOOLEAN]
           step == [f \in [Schemas -> T] |-> [s \in Schemas |-> body(f, s)]]
<1>1. step \in [[Schemas -> T] -> [Schemas -> T]]
  OBVIOUS
<1>2. ASSUME NEW f \in [Schemas -> T], NEW g \in [Schemas -> T], NEW s \in Schemas,
             \A u \in Schemas : SchemaRank[u] < SchemaRank[s] => f[u] = g[u]
      PROVE  step[f][s] = step[g][s]
  <2>1. s.t = "node" => \A c \in Inside(s) : c \in Schemas /\ Height[c] < Height[s]
    BY NodeFacts
  <2>2. s.t = "node" => Alike(s, f, g)
    BY <1>2, <2>1 DEF SchemaRank, Alike
  <2>3. \A v \in Values : s.t = "node" => (NodeConforms(v, s, f) <=> NodeConforms(v, s, g))
    BY <2>2, ConformsLocal
  <2>4. body(f, s) = body(g, s)
    BY <2>3
  <2> HIDE DEF body
  <2> QED  BY <2>4
<1>3. T # {}
  <2>1. [n \in Values |-> TRUE] \in T
    OBVIOUS
  <2> QED  BY <2>1
<1>4. \E f \in [Schemas -> T] : f = step[f]
  <2> HIDE DEF step, T
  <2> QED  BY <1>1, <1>2, <1>3, SchemaRecursion
<1>5. \E f : f = [s \in Schemas |-> [v \in Values |->
               s.t # "false" /\ (s.t = "node" => NodeConforms(v, s, f))]]
  <2>1. PICK f \in [Schemas -> T] : f = step[f]
    BY <1>4
  <2>2. f = [s \in Schemas |-> [v \in Values |->
               s.t # "false" /\ (s.t = "node" => NodeConforms(v, s, f))]]
    BY <2>1
  <2> QED  BY <2>2, Zenon
<1>6. Conforms = [s \in Schemas |-> [v \in Values |->
               s.t # "false" /\ (s.t = "node" => NodeConforms(v, s, Conforms))]]
  BY <1>5, Zenon DEF Conforms
<1> QED  BY <1>6

-----------------------------------------------------------------------------
(* What the checking walk finds at a node, c, against what the collecting   *)
(* walk found there, d: nothing unverifiable, no fault where the second     *)
(* finds none, and every test that the second needs.                        *)
Covers(d, c) ==
  /\ c \in Results /\ d \in Results
  /\ c.r # "unsupported" /\ d.r # "unsupported"
  /\ c.r = "ok" => d.r = "ok"
  /\ c.asked \subseteq d.asked

(* Steps, and rows of steps, that cover one another do so put together.     *)
LEMMA ThenCovers ==
  ASSUME NEW c1, NEW c2, NEW d1, NEW d2, Covers(d1, c1), Covers(d2, c2)
  PROVE  Covers(Then(d1, d2), Then(c1, c2))
<1>1. Then(c1, c2) \in Results /\ Then(d1, d2) \in Results
  BY ThenType DEF Covers
<1>2. /\ c1.r # "ok" => Then(c1, c2) = c1
      /\ c1.r = "ok" => /\ Then(c1, c2).r = c2.r
                        /\ Then(c1, c2).asked = c2.asked \cup c1.asked
      /\ d1.r # "ok" => Then(d1, d2) = d1
      /\ d1.r = "ok" => /\ Then(d1, d2).r = d2.r
                        /\ Then(d1, d2).asked = d2.asked \cup d1.asked
  BY ThenType DEF Covers
<1> QED  BY <1>1, <1>2 DEF Covers

LEMMA NeedCovers ==
  ASSUME NEW holds \in BOOLEAN
  PROVE  /\ Covers(Need(holds), Need(holds)) /\ Covers(Result("ok"), Result("ok"))
         /\ Covers(Result("invalid"), Result("invalid"))
BY NeedType DEF Covers, Result

LEMMA UpToCovers ==
  ASSUME NEW c \in Seq(Results), NEW d \in Seq(Results), DOMAIN c = DOMAIN d,
         \A i \in DOMAIN c : Covers(d[i], c[i])
  PROVE  /\ Covers(UpTo(d, {}), UpTo(c, {"invalid", "unsupported"})) /\ UpTo(d, {}).r = "ok"
         /\ Covers(UpTo(d, {"unsupported"}), UpTo(c, {"unsupported"}))
         /\ UpTo(d, {"unsupported"}).r = "ok" /\ UpTo(c, {"unsupported"}).r = "ok"
         /\ Covers(UpTo(d, {"invalid", "unsupported"}), UpTo(c, {"invalid", "unsupported"}))
<1>1. \A i \in DOMAIN c : /\ c[i].r \in {"ok", "invalid"} /\ d[i].r \in {"ok", "invalid"}
                          /\ c[i].r = "ok" => d[i].r = "ok"
                          /\ c[i].asked \subseteq d[i].asked
  BY DEF Covers, Results, Outcome
<1>2. \A stops : UpTo(c, stops) \in Results /\ UpTo(d, stops) \in Results
  BY UpToType
<1>3. /\ UpTo(c, {"invalid", "unsupported"}).asked \subseteq UpTo(d, {}).asked
      /\ UpTo(c, {"unsupported"}).asked \subseteq UpTo(d, {"unsupported"}).asked
      /\ UpTo(c, {"invalid", "unsupported"}).asked \subseteq UpTo(d, {"invalid", "unsupported"}).asked
  <2>1. \A i \in DOMAIN c : (d[i].r \in {} => c[i].r \in {"invalid", "unsupported"})
                            /\ c[i].asked \subseteq d[i].asked
    BY <1>1
  <2>2. \A i \in DOMAIN c : (d[i].r \in {"unsupported"} => c[i].r \in {"unsupported"})
                            /\ c[i].asked \subseteq d[i].asked
    BY <1>1
  <2>3. \A i \in DOMAIN c : (d[i].r \in {"invalid", "unsupported"} => c[i].r \in {"invalid", "unsupported"})
                            /\ c[i].asked \subseteq d[i].asked
    BY <1>1
  <2>4. UpTo(c, {"invalid", "unsupported"}).asked \subseteq UpTo(d, {}).asked
    BY <2>1, UpToGrows
  <2>5. UpTo(c, {"unsupported"}).asked \subseteq UpTo(d, {"unsupported"}).asked
    BY <2>2, UpToGrows
  <2>6. UpTo(c, {"invalid", "unsupported"}).asked \subseteq UpTo(d, {"invalid", "unsupported"}).asked
    BY <2>3, UpToGrows
  <2> QED  BY <2>4, <2>5, <2>6
<1>4. UpTo(d, {}).r = "ok"
  BY UpToType
<1>5. UpTo(d, {"unsupported"}).r = "ok" /\ UpTo(c, {"unsupported"}).r = "ok"
  <2>1. \A i \in DOMAIN c : c[i].r \notin {"unsupported"} /\ d[i].r \notin {"unsupported"}
    BY <1>1
  <2> QED  BY <2>1, UpToType
<1>6. UpTo(c, {"invalid", "unsupported"}).r \in {"ok", "invalid"}
  <2>1. CASE \A i \in DOMAIN c : c[i].r \notin {"invalid", "unsupported"}
    BY <2>1, UpToType
  <2>2. CASE \E i \in DOMAIN c : c[i].r \in {"invalid", "unsupported"}
    <3>1. PICK i \in DOMAIN c : UpTo(c, {"invalid", "unsupported"}).r = c[i].r
      BY <2>2, UpToType
    <3> QED  BY <3>1, <1>1
  <2> QED  BY <2>1, <2>2
<1>7. UpTo(d, {"invalid", "unsupported"}).r \in {"ok", "invalid"}
  <2>1. CASE \A i \in DOMAIN d : d[i].r \notin {"invalid", "unsupported"}
    BY <2>1, UpToType
  <2>2. CASE \E i \in DOMAIN d : d[i].r \in {"invalid", "unsupported"}
    <3>1. PICK i \in DOMAIN d : UpTo(d, {"invalid", "unsupported"}).r = d[i].r
      BY <2>2, UpToType
    <3> QED  BY <3>1, <1>1
  <2> QED  BY <2>1, <2>2
<1>8. UpTo(c, {"invalid", "unsupported"}).r = "ok" => UpTo(d, {"invalid", "unsupported"}).r = "ok"
  <2>1. ASSUME UpTo(c, {"invalid", "unsupported"}).r = "ok", NEW i \in DOMAIN c,
               c[i].r \in {"invalid", "unsupported"}
        PROVE  FALSE
    <3>1. PICK j \in DOMAIN c : /\ c[j].r \in {"invalid", "unsupported"}
                                /\ UpTo(c, {"invalid", "unsupported"}).r = c[j].r
      BY <2>1, UpToType
    <3> QED  BY <2>1, <3>1
  <2>2. UpTo(c, {"invalid", "unsupported"}).r = "ok" =>
          \A i \in DOMAIN d : d[i].r \notin {"invalid", "unsupported"}
    BY <2>1, <1>1
  <2> QED  BY <2>2, UpToType
<1> QED  BY <1>2, <1>3, <1>4, <1>5, <1>6, <1>7, <1>8 DEF Covers

(* So, keyword by keyword: if the walks cover one another inside a node that *)
(* the boundary lets in, they do at the node.                               *)
CoveredInside(s, d, c) == \A child \in Inside(s) : \A v \in Values : Covers(d[child][v], c[child][v])
Admitted(s) ==
  /\ DOMAIN s.k \subseteq SUPPORTED_SCHEMA_KEYS
  /\ ~Wrong(s, {"pattern"}) /\ (Has(s, "pattern") => s.k["pattern"] \notin Refused \cup Broken)
  /\ Has(s, "items") => s.k["items"].t # "tuple"

LEMMA EachCovers ==
  ASSUME NEW s \in Schemas, s.t = "node", NEW v \in Values, NEW d \in Walks, NEW c \in Walks,
         CoveredInside(s, d, c), NEW key \in {"allOf", "anyOf", "oneOf"}
  PROVE  /\ Each(v, Listing(s, key), d) \in Seq(Results) /\ Each(v, Listing(s, key), c) \in Seq(Results)
         /\ DOMAIN Each(v, Listing(s, key), c) = DOMAIN Each(v, Listing(s, key), d)
         /\ \A i \in DOMAIN Each(v, Listing(s, key), c) :
              Covers(Each(v, Listing(s, key), d)[i], Each(v, Listing(s, key), c)[i])
<1>1. Listing(s, key) \in Seq(Schemas) /\ \A i \in DOMAIN Listing(s, key) : Listing(s, key)[i] \in Inside(s)
  BY NodeFacts
<1>2. \A h \in Walks :
        /\ Each(v, Listing(s, key), h) \in Seq(Results)
        /\ DOMAIN Each(v, Listing(s, key), h) = DOMAIN Listing(s, key)
        /\ \A i \in DOMAIN Listing(s, key) : Each(v, Listing(s, key), h)[i] = h[Listing(s, key)[i]][v]
  BY <1>1, EachType
<1>3. \A i \in DOMAIN Listing(s, key) : Covers(d[Listing(s, key)[i]][v], c[Listing(s, key)[i]][v])
  BY <1>1 DEF CoveredInside
<1> QED  BY <1>2, <1>3

LEMMA CompositesCover ==
  ASSUME NEW s \in Schemas, s.t = "node", NEW v \in Values, NEW d \in Walks, NEW c \in Walks,
         CoveredInside(s, d, c), NEW noting, noting.collecting = TRUE,
         NEW judging, judging.collecting = FALSE
  PROVE  Covers(ValidateComposites(v, s, d, noting), ValidateComposites(v, s, c, judging))
<1>n. Covers(Result("invalid"), Result("invalid")) /\ Covers(Result("ok"), Result("ok"))
  BY NeedCovers
<1>1. Covers(Conjunction(v, s, d, noting), Conjunction(v, s, c, judging))
  <2> DEFINE ed == Each(v, Listing(s, "allOf"), d)
             ec == Each(v, Listing(s, "allOf"), c)
  <2>1. /\ ed \in Seq(Results) /\ ec \in Seq(Results) /\ DOMAIN ec = DOMAIN ed
        /\ \A i \in DOMAIN ec : Covers(ed[i], ec[i])
    BY EachCovers
  <2>2. /\ Conjunction(v, s, d, noting) = IF Wrong(s, {"allOf"}) THEN Result("invalid") ELSE UpTo(ed, {})
        /\ Conjunction(v, s, c, judging) = IF Wrong(s, {"allOf"}) THEN Result("invalid")
                                      ELSE UpTo(ec, {"invalid", "unsupported"})
    BY DEF Conjunction
  <2> HIDE DEF ed, ec
  <2>3. Covers(UpTo(ed, {}), UpTo(ec, {"invalid", "unsupported"}))
    BY <2>1, UpToCovers
  <2> QED  BY <2>2, <2>3, <1>n
<1>2. ASSUME NEW key \in {"anyOf", "oneOf"}
      PROVE  Covers(Disjunction(v, s, key, d, noting), Disjunction(v, s, key, c, judging))
  <2> DEFINE ed == Each(v, Listing(s, key), d)
             ec == Each(v, Listing(s, key), c)
             xd == Chosen(ed, Listing(s, key) = << >>, key = "oneOf")
             xc == Chosen(ec, Listing(s, key) = << >>, key = "oneOf")
  <2>1. /\ ed \in Seq(Results) /\ ec \in Seq(Results) /\ DOMAIN ec = DOMAIN ed
        /\ \A i \in DOMAIN ec : Covers(ed[i], ec[i])
    BY EachCovers
  <2>2. /\ Disjunction(v, s, key, d, noting) =
             IF Wrong(s, {key}) THEN Result("invalid") ELSE Suppressed(xd, noting)
        /\ Disjunction(v, s, key, c, judging) =
             IF Wrong(s, {key}) THEN Result("invalid") ELSE Suppressed(xc, judging)
    BY DEF Disjunction, Chosen
  <2> HIDE DEF ed, ec
  <2>3. Covers(UpTo(ed, {"unsupported"}), UpTo(ec, {"unsupported"})) /\ UpTo(ec, {"unsupported"}).r = "ok"
    BY <2>1, UpToCovers
  <2>4. /\ xd \in Results /\ xd.asked = UpTo(ed, {"unsupported"}).asked
        /\ xc \in Results /\ xc.asked = UpTo(ec, {"unsupported"}).asked
        /\ xc.r \in {UpTo(ec, {"unsupported"}).r, "invalid"}
    BY <2>1, ChosenType
  <2> HIDE DEF xd, xc
  <2>5. /\ Suppressed(xd, noting) \in Results /\ Suppressed(xd, noting).asked = xd.asked
        /\ Suppressed(xd, noting).r = "ok"
        /\ Suppressed(xc, judging) \in Results /\ Suppressed(xc, judging).asked = xc.asked
        /\ Suppressed(xc, judging).r = xc.r
    <3>1. noting.collecting \in BOOLEAN /\ judging.collecting \in BOOLEAN
      OBVIOUS
    <3>2. /\ Suppressed(xd, noting) \in Results /\ Suppressed(xd, noting).asked = xd.asked
          /\ Suppressed(xd, noting).r = IF noting.collecting THEN "ok" ELSE xd.r
      BY <2>4, <3>1, SuppressedType
    <3>3. /\ Suppressed(xc, judging) \in Results /\ Suppressed(xc, judging).asked = xc.asked
          /\ Suppressed(xc, judging).r = IF judging.collecting THEN "ok" ELSE xc.r
      BY <2>4, <3>1, SuppressedType
    <3> QED  BY <3>2, <3>3
  <2>6. Covers(Suppressed(xd, noting), Suppressed(xc, judging))
    BY <2>3, <2>4, <2>5 DEF Covers
  <2> QED  BY <2>2, <2>6, <1>n
<1>3. Covers(Negation(v, s, d, noting), Negation(v, s, c, judging))
  <2>1. Has(s, "not") => Covers(d[s.k["not"]][v], c[s.k["not"]][v])
    BY NodeFacts DEF CoveredInside
  <2>2. CASE ~Has(s, "not")
    <3>1. Negation(v, s, d, noting) = Result("ok") /\ Negation(v, s, c, judging) = Result("ok")
      BY <2>2 DEF Negation
    <3> QED  BY <3>1, <1>n
  <2>3. CASE Has(s, "not")
    <3>1. Turned(Negation(v, s, d, noting), d[s.k["not"]][v], "ok")
      BY <2>3, NegationNotes
    <3>2. Turned(Negation(v, s, c, judging), c[s.k["not"]][v], "invalid")
      BY <2>3, NegationJudges
    <3> QED  BY <2>1, <2>3, <3>1, <3>2 DEF Covers, Turned
  <2> QED  BY <2>2, <2>3
<1>4. Covers(Disjunction(v, s, "anyOf", d, noting), Disjunction(v, s, "anyOf", c, judging))
  BY <1>2
<1>5. Covers(Disjunction(v, s, "oneOf", d, noting), Disjunction(v, s, "oneOf", c, judging))
  BY <1>2
<1>6. Covers(Then(Disjunction(v, s, "oneOf", d, noting), Negation(v, s, d, noting)),
             Then(Disjunction(v, s, "oneOf", c, judging), Negation(v, s, c, judging)))
  BY <1>3, <1>5, ThenCovers
<1>7. Covers(Then(Disjunction(v, s, "anyOf", d, noting),
                  Then(Disjunction(v, s, "oneOf", d, noting), Negation(v, s, d, noting))),
             Then(Disjunction(v, s, "anyOf", c, judging),
                  Then(Disjunction(v, s, "oneOf", c, judging), Negation(v, s, c, judging))))
  BY <1>4, <1>6, ThenCovers
<1> QED  BY <1>1, <1>7, ThenCovers DEF ValidateComposites

LEMMA StringCovers ==
  ASSUME NEW s \in Schemas, s.t = "node", Admitted(s), NEW v \in Values,
         NEW noting, noting.collecting = TRUE, NEW judging, judging.collecting = FALSE
  PROVE  Covers(ValidateString(v, s, noting), ValidateString(v, s, judging))
<1>n. Covers(Result("invalid"), Result("invalid")) /\ Covers(Result("ok"), Result("ok"))
  BY NeedCovers
<1>1. Covers(Need(LengthHolds(v, s)), Need(LengthHolds(v, s)))
  BY NeedCovers DEF LengthHolds
<1>2. ASSUME Has(s, "pattern") PROVE Covers(Pattern(v, s, noting), Pattern(v, s, judging))
  <2>1. s.k["pattern"] \notin Refused /\ s.k["pattern"] \notin Refused \cup Broken
    BY <1>2 DEF Admitted
  <2>2. CASE v.len > MAX_PATTERN_VALUE_LENGTH
    <3>1. Pattern(v, s, noting) = Result("invalid") /\ Pattern(v, s, judging) = Result("invalid")
      BY <2>1, <2>2, PatternType
    <3> QED  BY <3>1, <1>n
  <2>3. CASE ~(v.len > MAX_PATTERN_VALUE_LENGTH)
    <3>1. /\ Pattern(v, s, noting) \in Results /\ Pattern(v, s, noting).asked = {Key(v, s)}
          /\ Pattern(v, s, noting).r = "ok"
      BY <2>1, <2>3, PatternType
    <3>2. /\ Pattern(v, s, judging) \in Results /\ Pattern(v, s, judging).asked = {Key(v, s)}
          /\ Pattern(v, s, judging).r # "unsupported"
      BY <2>1, <2>3, PatternType
    <3> QED  BY <3>1, <3>2 DEF Covers
  <2> QED  BY <2>2, <2>3
<1> DEFINE more(p) == IF Has(s, "pattern") THEN Pattern(v, s, p) ELSE Result("ok")
<1>3. Covers(more(noting), more(judging))
  BY <1>2, <1>n
<1>4. \A p : ValidateString(v, s, p) =
        IF Wrong(s, {"minLength", "maxLength", "pattern"}) THEN Result("invalid")
        ELSE IF v.t # "string" THEN Result("ok") ELSE Then(Need(LengthHolds(v, s)), more(p))
  BY DEF ValidateString
<1> HIDE DEF more
<1>5. Covers(Then(Need(LengthHolds(v, s)), more(noting)), Then(Need(LengthHolds(v, s)), more(judging)))
  BY <1>1, <1>3, ThenCovers
<1> QED  BY <1>4, <1>5, <1>n

LEMMA ObjectCovers ==
  ASSUME NEW s \in Schemas, s.t = "node", NEW v \in Values, NEW d \in Walks, NEW c \in Walks,
         CoveredInside(s, d, c)
  PROVE  Covers(ValidateObject(v, s, d), ValidateObject(v, s, c))
<1>n. /\ Covers(Result("invalid"), Result("invalid")) /\ Covers(Result("ok"), Result("ok"))
      /\ \A holds \in BOOLEAN : Covers(Need(holds), Need(holds))
  BY NeedCovers
<1>1. CASE v.t # "object"
  BY <1>1, <1>n DEF ValidateObject
<1>2. CASE v.t = "object"
  <2>1. Covers(Properties(v, s, d), Properties(v, s, c))
    <3> DEFINE ed == PropertyResults(v, s, d)
               ec == PropertyResults(v, s, c)
    <3>1. /\ ed \in Seq(Results) /\ DOMAIN ed = DOMAIN Listed(s)
          /\ \A i \in DOMAIN Listed(s) :
               ed[i] = IF Listed(s)[i].name \in Names(v)
                       THEN d[Listed(s)[i].schema][v.props[Listed(s)[i].name]] ELSE Result("ok")
      BY <1>2, PropertyResultsType
    <3>2. /\ ec \in Seq(Results) /\ DOMAIN ec = DOMAIN Listed(s)
          /\ \A i \in DOMAIN Listed(s) :
               ec[i] = IF Listed(s)[i].name \in Names(v)
                       THEN c[Listed(s)[i].schema][v.props[Listed(s)[i].name]] ELSE Result("ok")
      BY <1>2, PropertyResultsType
    <3>3. \A i \in DOMAIN Listed(s) : Listed(s)[i].name \in Names(v) =>
            Covers(d[Listed(s)[i].schema][v.props[Listed(s)[i].name]],
                   c[Listed(s)[i].schema][v.props[Listed(s)[i].name]])
      BY <1>2, NodeFacts, ValueFacts DEF CoveredInside
    <3>4. /\ Properties(v, s, d) = UpTo(ed, {"invalid", "unsupported"})
          /\ Properties(v, s, c) = UpTo(ec, {"invalid", "unsupported"})
      BY DEF Properties, PropertyResults, InOrder
    <3> HIDE DEF ed, ec
    <3>5. \A i \in DOMAIN ec : Covers(ed[i], ec[i])
      BY <3>1, <3>2, <3>3, <1>n
    <3> QED  BY <3>1, <3>2, <3>4, <3>5, UpToCovers
  <2>2. Covers(AdditionalProperties(v, s, d), AdditionalProperties(v, s, c))
    <3> DEFINE ed == OtherResults(v, s, d)
               ec == OtherResults(v, s, c)
    <3>1. ASSUME Has(s, "additionalProperties")
          PROVE  Covers(UpTo(ed, {"invalid", "unsupported"}), UpTo(ec, {"invalid", "unsupported"}))
      <4>1. /\ ed \in Seq(Results) /\ DOMAIN ed = DOMAIN Others(v, s)
            /\ \A i \in DOMAIN Others(v, s) :
                 ed[i] = d[s.k["additionalProperties"]][v.props[Others(v, s)[i]]]
        BY <1>2, <3>1, OtherResultsType
      <4>2. /\ ec \in Seq(Results) /\ DOMAIN ec = DOMAIN Others(v, s)
            /\ \A i \in DOMAIN Others(v, s) :
                 ec[i] = c[s.k["additionalProperties"]][v.props[Others(v, s)[i]]]
        BY <1>2, <3>1, OtherResultsType
      <4>3. \A i \in DOMAIN Others(v, s) : Others(v, s)[i] \in Names(v)
        BY <1>2, OthersFacts DEF Unlisted
      <4>4. \A i \in DOMAIN Others(v, s) :
              Covers(d[s.k["additionalProperties"]][v.props[Others(v, s)[i]]],
                     c[s.k["additionalProperties"]][v.props[Others(v, s)[i]]])
        BY <1>2, <3>1, <4>3, NodeFacts, ValueFacts DEF CoveredInside
      <4> HIDE DEF ed, ec
      <4>5. \A i \in DOMAIN ec : Covers(ed[i], ec[i])
        BY <4>1, <4>2, <4>4
      <4> QED  BY <4>1, <4>2, <4>5, UpToCovers
    <3>2. \A h \in {d, c} : AdditionalProperties(v, s, h) =
            IF Wrong(s, {"additionalProperties"}) THEN Result("invalid")
            ELSE IF ~Has(s, "additionalProperties") THEN Result("ok")
            ELSE UpTo(OtherResults(v, s, h), {"invalid", "unsupported"})
      BY DEF AdditionalProperties, OtherResults, InOrder
    <3> QED  BY <3>1, <3>2, <1>n
  <2>3. Covers(Then(Properties(v, s, d), AdditionalProperties(v, s, d)),
               Then(Properties(v, s, c), AdditionalProperties(v, s, c)))
    BY <2>1, <2>2, ThenCovers
  <2> DEFINE n1 == Need(/\ ~Wrong(s, {"minProperties", "maxProperties"})
                        /\ CountHolds(Cardinality(Names(v)), s, "minProperties", "maxProperties"))
             n2 == Need(~Wrong(s, {"required"}) /\ RequiredHolds(v, s))
             n3 == Need(~Wrong(s, {"properties"}))
             rest(h) == Then(Properties(v, s, h), AdditionalProperties(v, s, h))
  <2>4. Covers(n1, n1) /\ Covers(n2, n2) /\ Covers(n3, n3)
    BY <1>n
  <2>5. /\ ValidateObject(v, s, d) = Then(n1, Then(n2, Then(n3, rest(d))))
        /\ ValidateObject(v, s, c) = Then(n1, Then(n2, Then(n3, rest(c))))
    BY <1>2 DEF ValidateObject
  <2>6. Covers(rest(d), rest(c))
    BY <2>3
  <2> HIDE DEF n1, n2, n3, rest
  <2>7. Covers(Then(n3, rest(d)), Then(n3, rest(c)))
    BY <2>4, <2>6, ThenCovers
  <2>8. Covers(Then(n2, Then(n3, rest(d))), Then(n2, Then(n3, rest(c))))
    BY <2>4, <2>7, ThenCovers
  <2> QED  BY <2>4, <2>5, <2>8, ThenCovers
<1> QED  BY <1>1, <1>2

LEMMA ArrayCovers ==
  ASSUME NEW s \in Schemas, s.t = "node", NEW v \in Values, NEW d \in Walks, NEW c \in Walks,
         CoveredInside(s, d, c)
  PROVE  Covers(ValidateArray(v, s, d), ValidateArray(v, s, c))
<1>n. /\ Covers(Result("invalid"), Result("invalid")) /\ Covers(Result("ok"), Result("ok"))
      /\ \A holds \in BOOLEAN : Covers(Need(holds), Need(holds))
  BY NeedCovers
<1>1. CASE v.t # "array"
  BY <1>1, <1>n DEF ValidateArray
<1>2. CASE v.t = "array"
  <2> DEFINE n1 == Need(/\ ~Wrong(s, {"minItems", "maxItems"})
                        /\ CountHolds(Len(v.items), s, "minItems", "maxItems"))
             n2 == Need(~Wrong(s, {"uniqueItems"}) /\ UniqueHolds(v, s))
             items(h) == UpTo(ItemResults(v, s, h), {"invalid", "unsupported"})
             rest(h) == IF ~Has(s, "items") THEN Result("ok")
                        ELSE IF s.k["items"].t = "tuple" THEN Result("invalid") ELSE items(h)
  <2>1. Has(s, "items") => Covers(items(d), items(c))
    <3> SUFFICES ASSUME Has(s, "items") PROVE Covers(items(d), items(c))
      OBVIOUS
    <3> DEFINE ed == ItemResults(v, s, d)
               ec == ItemResults(v, s, c)
    <3>1. /\ ed \in Seq(Results) /\ DOMAIN ed = DOMAIN v.items
          /\ \A i \in DOMAIN v.items : ed[i] = d[s.k["items"]][v.items[i]]
      BY <1>2, ItemResultsType
    <3>2. /\ ec \in Seq(Results) /\ DOMAIN ec = DOMAIN v.items
          /\ \A i \in DOMAIN v.items : ec[i] = c[s.k["items"]][v.items[i]]
      BY <1>2, ItemResultsType
    <3>3. \A i \in DOMAIN v.items : Covers(d[s.k["items"]][v.items[i]], c[s.k["items"]][v.items[i]])
      BY <1>2, NodeFacts, ValueFacts DEF CoveredInside
    <3> HIDE DEF ed, ec
    <3>4. \A i \in DOMAIN ec : Covers(ed[i], ec[i])
      BY <3>1, <3>2, <3>3
    <3>5. Covers(UpTo(ed, {"invalid", "unsupported"}), UpTo(ec, {"invalid", "unsupported"}))
      BY <3>1, <3>2, <3>4, UpToCovers
    <3> QED  BY <3>5 DEF ed, ec
  <2>2. Covers(n1, n1) /\ Covers(n2, n2)
    BY <1>n
  <2>3. /\ ValidateArray(v, s, d) = Then(n1, Then(n2, rest(d)))
        /\ ValidateArray(v, s, c) = Then(n1, Then(n2, rest(c)))
    BY <1>2 DEF ValidateArray, ItemResults, InOrder
  <2> HIDE DEF items
  <2>4. Covers(rest(d), rest(c))
    BY <2>1, <1>n
  <2> HIDE DEF n1, n2, rest
  <2>5. Covers(Then(n2, rest(d)), Then(n2, rest(c)))
    BY <2>2, <2>4, ThenCovers
  <2> QED  BY <2>2, <2>3, <2>5, ThenCovers
<1> QED  BY <1>1, <1>2

(* All steps of a node, in the order of validateAt.                         *)
LEMMA ValidatedCovers ==
  ASSUME NEW s \in Schemas, NEW v \in Values, NEW d \in Walks, NEW c \in Walks,
         s.t = "node" => Admitted(s) /\ CoveredInside(s, d, c),
         NEW noting, noting.collecting = TRUE, NEW judging, judging.collecting = FALSE
  PROVE  Covers(Validated(v, s, d, noting), Validated(v, s, c, judging))
<1>n. /\ Covers(Result("invalid"), Result("invalid")) /\ Covers(Result("ok"), Result("ok"))
      /\ \A holds \in BOOLEAN : Covers(Need(holds), Need(holds))
  BY NeedCovers
<1>1. CASE s.t # "node"
  BY <1>1, <1>n DEF Validated
<1>2. CASE s.t = "node"
  <2> DEFINE objects(h) == Then(ValidateObject(v, s, h), ValidateArray(v, s, h))
             numbers(h) == Then(ValidateNumber(v, s), objects(h))
             strings(h, p) == Then(ValidateString(v, s, p), numbers(h))
             types(h, p) == Then(ValidateType(v, s), strings(h, p))
             enums(h, p) == Then(ValidateEnum(v, s), types(h, p))
  <2>1. /\ Validated(v, s, d, noting) = Then(ValidateComposites(v, s, d, noting), enums(d, noting))
        /\ Validated(v, s, c, judging) = Then(ValidateComposites(v, s, c, judging), enums(c, judging))
    BY <1>2 DEF Validated, Admitted
  <2>2. Covers(objects(d), objects(c))
    BY <1>2, ObjectCovers, ArrayCovers, ThenCovers
  <2> HIDE DEF objects
  <2>3. /\ Covers(ValidateNumber(v, s), ValidateNumber(v, s))
        /\ Covers(ValidateType(v, s), ValidateType(v, s)) /\ Covers(ValidateEnum(v, s), ValidateEnum(v, s))
    BY <1>n DEF ValidateNumber, ValidateType, ValidateEnum
  <2>4. Covers(numbers(d), numbers(c))
    BY <2>2, <2>3, ThenCovers
  <2> HIDE DEF numbers
  <2>5. Covers(ValidateString(v, s, noting), ValidateString(v, s, judging))
    BY <1>2, StringCovers
  <2>6. Covers(strings(d, noting), strings(c, judging))
    BY <2>4, <2>5, ThenCovers
  <2> HIDE DEF strings
  <2>7. Covers(types(d, noting), types(c, judging))
    BY <2>3, <2>6, ThenCovers
  <2> HIDE DEF types
  <2>8. Covers(enums(d, noting), enums(c, judging))
    BY <2>3, <2>7, ThenCovers
  <2> HIDE DEF enums
  <2>9. Covers(ValidateComposites(v, s, d, noting), ValidateComposites(v, s, c, judging))
    BY <1>2, CompositesCover
  <2> QED  BY <2>1, <2>8, <2>9, ThenCovers
<1> QED  BY <1>1, <1>2

(* Of a schema that the boundary lets in, the two walks: nothing that       *)
(* cannot be verified, and no test in the second that the first left out.   *)
LEMMA WalksCover ==
  ASSUME NEW noting, noting.collecting = TRUE, NEW judging, judging.collecting = FALSE
  PROVE  \A s \in Schemas : \A depth \in Nat : Acceptable[s][depth] =>
           \A v \in Values : Covers(ValidateAt(noting)[s][v], ValidateAt(judging)[s][v])
<1> DEFINE d == ValidateAt(noting)
           c == ValidateAt(judging)
           Good == {s \in Schemas : \A depth \in Nat : Acceptable[s][depth] =>
                      \A v \in Values : Covers(d[s][v], c[s][v])}
<1>1. d \in Walks /\ \A s \in Schemas : \A v \in Values : d[s][v] = Validated(v, s, d, noting)
  <2>1. noting.collecting \in BOOLEAN
    OBVIOUS
  <2> QED  BY <2>1, WalkUnfolds
<1>2. c \in Walks /\ \A s \in Schemas : \A v \in Values : c[s][v] = Validated(v, s, c, judging)
  <2>1. judging.collecting \in BOOLEAN
    OBVIOUS
  <2> QED  BY <2>1, WalkUnfolds
<1> HIDE DEF d, c
<1>3. ASSUME NEW s \in Schemas, \A u \in Schemas : SchemaRank[u] < SchemaRank[s] => u \in Good
      PROVE  s \in Good
  <2> SUFFICES ASSUME NEW depth \in Nat, Acceptable[s][depth], NEW v \in Values
               PROVE  Covers(d[s][v], c[s][v])
    OBVIOUS
  <2>1. s.t = "node" => Admitted(s) /\ \A child \in Inside(s) : Acceptable[child][depth + 1]
    BY AcceptableIs, NodeFacts DEF Admitted
  <2>2. s.t = "node" => CoveredInside(s, d, c)
    <3> SUFFICES ASSUME s.t = "node", NEW child \in Inside(s), NEW w \in Values
                 PROVE  Covers(d[child][w], c[child][w])
      BY DEF CoveredInside
    <3>1. child \in Schemas /\ Height[child] < Height[s]
      BY NodeFacts
    <3>2. child \in Good
      BY <3>1, <1>3 DEF SchemaRank
    <3>3. depth + 1 \in Nat
      OBVIOUS
    <3> QED  BY <2>1, <3>2, <3>3
  <2>3. Covers(Validated(v, s, d, noting), Validated(v, s, c, judging))
    BY <1>1, <1>2, <2>1, <2>2, ValidatedCovers
  <2> QED  BY <1>1, <1>2, <2>3
<1> HIDE DEF Good
<1>4. Schemas \subseteq Good
  BY <1>3, RankFacts, RankInduction
<1> QED  BY <1>4 DEF Good, d, c

-----------------------------------------------------------------------------
(* The checking walk tells the truth, wherever the tests that it needs were *)
(* made: what is read off a result, and then keyword by keyword.            *)
LEMMA ThenReads ==
  ASSUME NEW first \in Results, NEW second \in Results, NEW known
  PROVE  /\ Then(first, second) \in Results
         /\ Then(first, second).asked \subseteq known =>
              /\ first.asked \subseteq known
              /\ first.r = "ok" => second.asked \subseteq known
              /\ Then(first, second).r = "ok" <=> first.r = "ok" /\ second.r = "ok"
BY ThenType

LEMMA InOrderReads ==
  ASSUME NEW c \in Seq(Results), NEW known, InOrder(c).asked \subseteq known
  PROVE  /\ InOrder(c).r = "ok" => \A i \in DOMAIN c : c[i].r = "ok" /\ c[i].asked \subseteq known
         /\ InOrder(c).r # "ok" => \E i \in DOMAIN c : c[i].r # "ok" /\ c[i].asked \subseteq known
<1> DEFINE stops == {"invalid", "unsupported"}
<1>1. InOrder(c) = UpTo(c, stops)
  BY DEF InOrder
<1>2. \A i \in DOMAIN c : c[i].r \in Outcome
  <2>1. \A i \in DOMAIN c : c[i] \in Results
    BY LenProperties, ElementOfSeq
  <2> QED  BY <2>1 DEF Results
<1>3. CASE \A i \in DOMAIN c : c[i].r \notin stops
  <2>1. /\ UpTo(c, stops).r = "ok"
        /\ \A i \in DOMAIN c : c[i].asked \subseteq UpTo(c, stops).asked
    BY <1>3, UpToType
  <2> QED  BY <1>1, <1>2, <1>3, <2>1 DEF Outcome
<1>4. CASE \E i \in DOMAIN c : c[i].r \in stops
  <2>1. PICK i \in DOMAIN c : /\ c[i].r \in stops /\ UpTo(c, stops).r = c[i].r
                              /\ c[i].asked \subseteq UpTo(c, stops).asked
    BY <1>4, UpToType
  <2> QED  BY <1>1, <2>1
<1> QED  BY <1>3, <1>4

(* Inside the node, the walk tells the truth of what was tested.            *)
TrueInside(s, c, known) ==
  \A child \in Inside(s) : \A w \in Values :
    /\ c[child][w] \in Results /\ c[child][w].r # "unsupported"
    /\ ~TooLong[w] /\ c[child][w].asked \subseteq known => (c[child][w].r = "ok" <=> Conforms[child][w])

LEMMA EachTells ==
  ASSUME NEW s \in Schemas, s.t = "node", NEW v \in Values, ~TooLong[v], NEW c \in Walks, NEW known,
         TrueInside(s, c, known), NEW key \in {"allOf", "anyOf", "oneOf"}
  PROVE  /\ Each(v, Listing(s, key), c) \in Seq(Results)
         /\ DOMAIN Each(v, Listing(s, key), c) = DOMAIN Listing(s, key)
         /\ \A i \in DOMAIN Listing(s, key) :
              /\ Each(v, Listing(s, key), c)[i].r \in {"ok", "invalid"}
              /\ Each(v, Listing(s, key), c)[i].asked \subseteq known =>
                   (Each(v, Listing(s, key), c)[i].r = "ok" <=> Conforms[Listing(s, key)[i]][v])
<1>1. Listing(s, key) \in Seq(Schemas) /\ \A i \in DOMAIN Listing(s, key) : Listing(s, key)[i] \in Inside(s)
  BY NodeFacts
<1>2. /\ Each(v, Listing(s, key), c) \in Seq(Results)
      /\ DOMAIN Each(v, Listing(s, key), c) = DOMAIN Listing(s, key)
      /\ \A i \in DOMAIN Listing(s, key) : Each(v, Listing(s, key), c)[i] = c[Listing(s, key)[i]][v]
  BY <1>1, EachType
<1>3. \A i \in DOMAIN Listing(s, key) :
        /\ c[Listing(s, key)[i]][v].r \in {"ok", "invalid"}
        /\ c[Listing(s, key)[i]][v].asked \subseteq known =>
             (c[Listing(s, key)[i]][v].r = "ok" <=> Conforms[Listing(s, key)[i]][v])
  BY <1>1 DEF TrueInside, Results, Outcome
<1> QED  BY <1>2, <1>3

LEMMA CompositesTell ==
  ASSUME NEW s \in Schemas, s.t = "node", s.bad = {}, NEW v \in Values, ~TooLong[v], NEW c \in Walks,
         NEW judging, judging.collecting = FALSE, NEW known, TrueInside(s, c, known),
         ValidateComposites(v, s, c, judging).asked \subseteq known
  PROVE  ValidateComposites(v, s, c, judging).r = "ok" <=> CompositesConform(v, s, Conforms)
<1>w. \A keys : ~Wrong(s, keys)
  BY DEF Wrong
<1>1. ASSUME Conjunction(v, s, c, judging).asked \subseteq known
      PROVE  Conjunction(v, s, c, judging).r = "ok" <=>
               \A i \in DOMAIN Listing(s, "allOf") : Conforms[Listing(s, "allOf")[i]][v]
  <2> DEFINE e == Each(v, Listing(s, "allOf"), c)
  <2>1. /\ e \in Seq(Results) /\ DOMAIN e = DOMAIN Listing(s, "allOf")
        /\ \A i \in DOMAIN Listing(s, "allOf") :
             e[i].asked \subseteq known => (e[i].r = "ok" <=> Conforms[Listing(s, "allOf")[i]][v])
    BY EachTells
  <2>2. Conjunction(v, s, c, judging) = InOrder(e)
    BY <1>w DEF Conjunction, InOrder
  <2> HIDE DEF e
  <2>3. /\ InOrder(e).r = "ok" => \A i \in DOMAIN e : e[i].r = "ok" /\ e[i].asked \subseteq known
        /\ InOrder(e).r # "ok" => \E i \in DOMAIN e : e[i].r # "ok" /\ e[i].asked \subseteq known
    BY <1>1, <2>1, <2>2, InOrderReads
  <2> QED  BY <2>1, <2>2, <2>3
<1>2. ASSUME NEW key \in {"anyOf", "oneOf"}, Disjunction(v, s, key, c, judging).asked \subseteq known
      PROVE  Disjunction(v, s, key, c, judging).r = "ok" <=>
               (Listing(s, key) # << >> =>
                  IF key = "oneOf" THEN Fitting(v, Listing(s, key), Conforms) = 1
                  ELSE Fitting(v, Listing(s, key), Conforms) > 0)
  <2> DEFINE list == Listing(s, key)
             e == Each(v, list, c)
             x == Chosen(e, list = << >>, key = "oneOf")
             fit == Cardinality({i \in DOMAIN e : e[i].r = "ok"})
  <2>1. /\ e \in Seq(Results) /\ DOMAIN e = DOMAIN list
        /\ \A i \in DOMAIN list :
             /\ e[i].r \in {"ok", "invalid"}
             /\ e[i].asked \subseteq known => (e[i].r = "ok" <=> Conforms[list[i]][v])
    BY EachTells
  <2>2. Disjunction(v, s, key, c, judging) = Suppressed(x, judging)
    BY <1>w DEF Disjunction, Chosen
  <2> HIDE DEF e
  <2>3. /\ UpTo(e, {"unsupported"}).r = "ok"
        /\ \A i \in DOMAIN e : e[i].asked \subseteq UpTo(e, {"unsupported"}).asked
    <3>1. \A i \in DOMAIN e : e[i].r \notin {"unsupported"}
      BY <2>1
    <3> QED  BY <2>1, <3>1, UpToType
  <2>4. /\ x \in Results /\ x.asked = UpTo(e, {"unsupported"}).asked
        /\ x.r = IF \/ list = << >> \/ UpTo(e, {"unsupported"}).r = "unsupported"
                    \/ IF key = "oneOf" THEN fit = 1 ELSE fit > 0
                 THEN UpTo(e, {"unsupported"}).r ELSE "invalid"
    <3> HIDE DEF list
    <3>1. (list = << >>) \in BOOLEAN /\ (key = "oneOf") \in BOOLEAN
      OBVIOUS
    <3> QED  BY <2>1, <3>1, ChosenType
  <2>5. Suppressed(x, judging) = x
    BY DEF Suppressed
  <2> HIDE DEF x
  <2>6. \A i \in DOMAIN e : e[i].asked \subseteq known
    BY <1>2, <2>2, <2>3, <2>4, <2>5
  <2>7. {i \in DOMAIN e : e[i].r = "ok"} = {i \in DOMAIN list : Conforms[list[i]][v]}
    BY <2>1, <2>6
  <2>8. fit = Fitting(v, list, Conforms)
    BY <2>7 DEF Fitting
  <2> HIDE DEF fit
  <2> QED  BY <2>2, <2>3, <2>4, <2>5, <2>8
<1>3. ASSUME Negation(v, s, c, judging).asked \subseteq known
      PROVE  Negation(v, s, c, judging).r = "ok" <=> (Has(s, "not") => ~Conforms[s.k["not"]][v])
  <2>1. CASE ~Has(s, "not")
    BY <2>1, NeedType DEF Negation, Result
  <2>2. CASE Has(s, "not")
    <3>1. s.k["not"] \in Inside(s)
      BY <2>2, NodeFacts
    <3>2. /\ c[s.k["not"]][v].r \in {"ok", "invalid"}
          /\ c[s.k["not"]][v].asked \subseteq known =>
               (c[s.k["not"]][v].r = "ok" <=> Conforms[s.k["not"]][v])
      BY <3>1 DEF TrueInside, Results, Outcome
    <3>3. Turned(Negation(v, s, c, judging), c[s.k["not"]][v], "invalid")
      BY <2>2, NegationJudges
    <3> QED  BY <1>3, <2>2, <3>2, <3>3 DEF Turned
  <2> QED  BY <2>1, <2>2
<1>t. judging.collecting \in BOOLEAN
  OBVIOUS
<1> DEFINE a == Conjunction(v, s, c, judging)
           b == Disjunction(v, s, "anyOf", c, judging)
           o == Disjunction(v, s, "oneOf", c, judging)
           n == Negation(v, s, c, judging)
<1>4. a \in Results /\ b \in Results /\ o \in Results /\ n \in Results
  BY <1>t, ConjunctionType, DisjunctionType, NegationType
<1>5. ValidateComposites(v, s, c, judging) = Then(a, Then(b, Then(o, n)))
  BY DEF ValidateComposites
<1>6. b.asked \subseteq known =>
        (b.r = "ok" <=> (Listing(s, "anyOf") # << >> => Fitting(v, Listing(s, "anyOf"), Conforms) > 0))
  BY <1>2
<1>7. o.asked \subseteq known =>
        (o.r = "ok" <=> (Listing(s, "oneOf") # << >> => Fitting(v, Listing(s, "oneOf"), Conforms) = 1))
  BY <1>2
<1>8. /\ a.asked \subseteq known =>
           (a.r = "ok" <=> \A i \in DOMAIN Listing(s, "allOf") : Conforms[Listing(s, "allOf")[i]][v])
      /\ n.asked \subseteq known => (n.r = "ok" <=> (Has(s, "not") => ~Conforms[s.k["not"]][v]))
  BY <1>1, <1>3
<1> HIDE DEF a, b, o, n
<1>9. Then(o, n) \in Results /\ Then(b, Then(o, n)) \in Results
  BY <1>4, ThenType
<1>10. /\ a.asked \subseteq known /\ (a.r = "ok" => Then(b, Then(o, n)).asked \subseteq known)
       /\ Then(a, Then(b, Then(o, n))).r = "ok" <=> a.r = "ok" /\ Then(b, Then(o, n)).r = "ok"
  BY <1>4, <1>5, <1>9, ThenReads
<1>11. Then(b, Then(o, n)).asked \subseteq known =>
         /\ b.asked \subseteq known /\ (b.r = "ok" => Then(o, n).asked \subseteq known)
         /\ Then(b, Then(o, n)).r = "ok" <=> b.r = "ok" /\ Then(o, n).r = "ok"
  BY <1>4, <1>9, ThenReads
<1>12. Then(o, n).asked \subseteq known =>
         /\ o.asked \subseteq known /\ (o.r = "ok" => n.asked \subseteq known)
         /\ Then(o, n).r = "ok" <=> o.r = "ok" /\ n.r = "ok"
  BY <1>4, ThenReads
<1>13. ValidateComposites(v, s, c, judging).r = "ok" <=>
         /\ \A i \in DOMAIN Listing(s, "allOf") : Conforms[Listing(s, "allOf")[i]][v]
         /\ Listing(s, "anyOf") # << >> => Fitting(v, Listing(s, "anyOf"), Conforms) > 0
         /\ Listing(s, "oneOf") # << >> => Fitting(v, Listing(s, "oneOf"), Conforms) = 1
         /\ Has(s, "not") => ~Conforms[s.k["not"]][v]
  BY <1>5, <1>6, <1>7, <1>8, <1>10, <1>11, <1>12
<1> QED  BY <1>13 DEF CompositesConform

(* The second walk has the real result of every test that was made.         *)
Resolved(judging, known) ==
  /\ judging.collecting = FALSE /\ known = DOMAIN judging.byNode
  /\ \A t \in known : judging.byNode[t] <=> Tested(t)

LEMMA StringTells ==
  ASSUME NEW s \in Schemas, s.t = "node", s.bad = {}, Admitted(s), NEW v \in Values, ~TooLong[v],
         NEW known, NEW judging, Resolved(judging, known),
         ValidateString(v, s, judging).asked \subseteq known
  PROVE  ValidateString(v, s, judging).r = "ok" <=>
           (v.t = "string" => /\ LengthHolds(v, s)
                              /\ Has(s, "pattern") => v.s \in Matches[s.k["pattern"]])
<1>w. \A keys : ~Wrong(s, keys)
  BY DEF Wrong
<1>1. CASE v.t # "string"
  BY <1>1, <1>w DEF ValidateString, Result
<1>2. CASE v.t = "string"
  <2> DEFINE more == IF Has(s, "pattern") THEN Pattern(v, s, judging) ELSE Result("ok")
  <2>1. ValidateString(v, s, judging) = Then(Need(LengthHolds(v, s)), more)
    BY <1>2, <1>w DEF ValidateString
  <2>2. ~(v.len > MAX_PATTERN_VALUE_LENGTH)
    BY <1>2, TooLongIs
  <2>3. /\ Need(LengthHolds(v, s)) \in Results
        /\ Need(LengthHolds(v, s)).r = "ok" <=> LengthHolds(v, s)
    BY NeedType DEF LengthHolds
  <2>4. more \in Results
    BY PatternType, NeedType
  <2>5. more.asked \subseteq known =>
          (more.r = "ok" <=> (Has(s, "pattern") => v.s \in Matches[s.k["pattern"]]))
    <3>1. CASE ~Has(s, "pattern")
      BY <3>1 DEF Result
    <3>2. CASE Has(s, "pattern")
      <4>1. s.k["pattern"] \notin Refused \cup Broken
        BY <3>2 DEF Admitted
      <4>2. /\ Pattern(v, s, judging).asked = {Key(v, s)}
            /\ Pattern(v, s, judging).r = "ok" <=>
                 (judging.collecting \/ (Key(v, s) \in DOMAIN judging.byNode /\ judging.byNode[Key(v, s)]))
        BY <2>2, <4>1, PatternType
      <4>3. Tested(Key(v, s)) <=> v.s \in Matches[s.k["pattern"]]
        BY DEF Tested, Key
      <4>4. Key(v, s) \in known => (judging.byNode[Key(v, s)] <=> Tested(Key(v, s)))
        BY DEF Resolved
      <4>5. ~judging.collecting /\ known = DOMAIN judging.byNode
        BY DEF Resolved
      <4> QED  BY <3>2, <4>2, <4>3, <4>4, <4>5
    <3> QED  BY <3>1, <3>2
  <2> HIDE DEF more
  <2>6. /\ Need(LengthHolds(v, s)).r = "ok" => more.asked \subseteq known
        /\ Then(Need(LengthHolds(v, s)), more).r = "ok" <=>
             Need(LengthHolds(v, s)).r = "ok" /\ more.r = "ok"
    BY <2>1, <2>3, <2>4, ThenReads
  <2> QED  BY <1>2, <2>1, <2>3, <2>5, <2>6
<1> QED  BY <1>1, <1>2

LEMMA ObjectTells ==
  ASSUME NEW s \in Schemas, s.t = "node", s.bad = {}, NEW v \in Values, ~TooLong[v], NEW c \in Walks,
         NEW known, TrueInside(s, c, known), ValidateObject(v, s, c).asked \subseteq known
  PROVE  ValidateObject(v, s, c).r = "ok" <=> (v.t = "object" => ObjectConforms(v, s, Conforms))
<1>w. \A keys : ~Wrong(s, keys)
  BY DEF Wrong
<1>1. CASE v.t # "object"
  BY <1>1 DEF ValidateObject, Result
<1>2. CASE v.t = "object"
  <2> DEFINE counted == CountHolds(Cardinality(Names(v)), s, "minProperties", "maxProperties")
             listed == \A i \in DOMAIN Listed(s) : Listed(s)[i].name \in Names(v) =>
                         Conforms[Listed(s)[i].schema][v.props[Listed(s)[i].name]]
             others == Has(s, "additionalProperties") =>
                         \A name \in Unlisted(v, s) : Conforms[s.k["additionalProperties"]][v.props[name]]
             n1 == Need(~Wrong(s, {"minProperties", "maxProperties"}) /\ counted)
             n2 == Need(~Wrong(s, {"required"}) /\ RequiredHolds(v, s))
             n3 == Need(~Wrong(s, {"properties"}))
             p == Properties(v, s, c)
             a == AdditionalProperties(v, s, c)
  <2>1. \A name \in Names(v) : v.props[name] \in Values /\ ~TooLong[v.props[name]]
    BY <1>2, ValueFacts, TooLongIs
  <2>2. p.asked \subseteq known => (p.r = "ok" <=> listed)
    <3> DEFINE e == PropertyResults(v, s, c)
    <3>1. /\ e \in Seq(Results) /\ DOMAIN e = DOMAIN Listed(s)
          /\ \A i \in DOMAIN Listed(s) :
               e[i] = IF Listed(s)[i].name \in Names(v)
                      THEN c[Listed(s)[i].schema][v.props[Listed(s)[i].name]] ELSE Result("ok")
      BY <1>2, PropertyResultsType
    <3>2. p = InOrder(e)
      BY DEF Properties, PropertyResults
    <3> HIDE DEF e, p
    <3>3. ASSUME NEW i \in DOMAIN Listed(s), e[i].asked \subseteq known
          PROVE  e[i].r = "ok" <=> (Listed(s)[i].name \in Names(v) =>
                                      Conforms[Listed(s)[i].schema][v.props[Listed(s)[i].name]])
      <4>1. CASE Listed(s)[i].name \notin Names(v)
        BY <3>1, <4>1 DEF Result
      <4>2. CASE Listed(s)[i].name \in Names(v)
        <5>1. Listed(s)[i].schema \in Inside(s)
          BY NodeFacts
        <5> QED  BY <2>1, <3>1, <3>3, <4>2, <5>1 DEF TrueInside
      <4> QED  BY <4>1, <4>2
    <3>4. p.asked \subseteq known =>
            /\ p.r = "ok" => \A i \in DOMAIN e : e[i].r = "ok" /\ e[i].asked \subseteq known
            /\ p.r # "ok" => \E i \in DOMAIN e : e[i].r # "ok" /\ e[i].asked \subseteq known
      BY <3>1, <3>2, InOrderReads
    <3> QED  BY <3>1, <3>3, <3>4
  <2>3. a.asked \subseteq known => (a.r = "ok" <=> others)
    <3>1. CASE ~Has(s, "additionalProperties")
      BY <3>1, <1>w DEF AdditionalProperties, Result
    <3>2. CASE Has(s, "additionalProperties")
      <4> DEFINE e == OtherResults(v, s, c)
      <4>1. /\ e \in Seq(Results) /\ DOMAIN e = DOMAIN Others(v, s)
            /\ \A i \in DOMAIN Others(v, s) :
                 e[i] = c[s.k["additionalProperties"]][v.props[Others(v, s)[i]]]
        BY <1>2, <3>2, OtherResultsType
      <4>2. a = InOrder(e)
        BY <3>2, <1>w DEF AdditionalProperties, OtherResults
      <4> HIDE DEF e, a
      <4>3. /\ \A i \in DOMAIN Others(v, s) : Others(v, s)[i] \in Unlisted(v, s) \cap Names(v)
            /\ \A name \in Unlisted(v, s) : \E i \in DOMAIN Others(v, s) : Others(v, s)[i] = name
        BY <1>2, OthersFacts DEF Unlisted
      <4>4. s.k["additionalProperties"] \in Inside(s)
        BY <3>2, NodeFacts
      <4>5. ASSUME NEW i \in DOMAIN Others(v, s), e[i].asked \subseteq known
            PROVE  e[i].r = "ok" <=> Conforms[s.k["additionalProperties"]][v.props[Others(v, s)[i]]]
        BY <2>1, <4>1, <4>3, <4>4, <4>5 DEF TrueInside
      <4>6. a.asked \subseteq known =>
              /\ a.r = "ok" => \A i \in DOMAIN e : e[i].r = "ok" /\ e[i].asked \subseteq known
              /\ a.r # "ok" => \E i \in DOMAIN e : e[i].r # "ok" /\ e[i].asked \subseteq known
        BY <4>1, <4>2, InOrderReads
      <4>7. ASSUME a.asked \subseteq known, a.r = "ok", NEW name \in Unlisted(v, s)
            PROVE  Conforms[s.k["additionalProperties"]][v.props[name]]
        <5>1. PICK i \in DOMAIN Others(v, s) : Others(v, s)[i] = name
          BY <4>3
        <5>2. e[i].r = "ok" /\ e[i].asked \subseteq known
          BY <4>1, <4>6, <4>7
        <5> QED  BY <4>5, <5>1, <5>2
      <4>8. ASSUME a.asked \subseteq known, a.r # "ok"
            PROVE  \E name \in Unlisted(v, s) : ~Conforms[s.k["additionalProperties"]][v.props[name]]
        <5>1. PICK i \in DOMAIN Others(v, s) : e[i].r # "ok" /\ e[i].asked \subseteq known
          BY <4>1, <4>6, <4>8
        <5> QED  BY <4>3, <4>5, <5>1
      <4> QED  BY <3>2, <4>7, <4>8
    <3> QED  BY <3>1, <3>2
  <2>4. ObjectConforms(v, s, Conforms) <=> counted /\ RequiredHolds(v, s) /\ listed /\ others
    BY DEF ObjectConforms, Unlisted
  <2>5. /\ n1 \in Results /\ (n1.r = "ok" <=> counted)
        /\ n2 \in Results /\ (n2.r = "ok" <=> RequiredHolds(v, s))
        /\ n3 \in Results /\ n3.r = "ok"
    <3>1. /\ (~Wrong(s, {"minProperties", "maxProperties"}) /\ counted) \in BOOLEAN
          /\ (~Wrong(s, {"required"}) /\ RequiredHolds(v, s)) \in BOOLEAN
          /\ (~Wrong(s, {"properties"})) \in BOOLEAN
      OBVIOUS
    <3>2. n1 \in Results /\ (n1.r = "ok" <=> (~Wrong(s, {"minProperties", "maxProperties"}) /\ counted))
      BY <3>1, NeedType
    <3>3. n2 \in Results /\ (n2.r = "ok" <=> (~Wrong(s, {"required"}) /\ RequiredHolds(v, s)))
      BY <3>1, NeedType
    <3>4. n3 \in Results /\ (n3.r = "ok" <=> ~Wrong(s, {"properties"}))
      BY <3>1, NeedType
    <3> QED  BY <3>2, <3>3, <3>4, <1>w
  <2>6. ValidateObject(v, s, c) = Then(n1, Then(n2, Then(n3, Then(p, a))))
    BY <1>2 DEF ValidateObject
  <2>7. p \in Results /\ a \in Results
    BY <1>2, ObjectType
  <2> HIDE DEF counted, listed, others, n1, n2, n3, p, a
  <2>8. Then(p, a) \in Results /\ Then(n3, Then(p, a)) \in Results
        /\ Then(n2, Then(n3, Then(p, a))) \in Results
    BY <2>5, <2>7, ThenType
  <2>9. /\ n1.r = "ok" => Then(n2, Then(n3, Then(p, a))).asked \subseteq known
        /\ Then(n1, Then(n2, Then(n3, Then(p, a)))).r = "ok" <=>
             n1.r = "ok" /\ Then(n2, Then(n3, Then(p, a))).r = "ok"
    BY <2>5, <2>6, <2>8, ThenReads
  <2>10. Then(n2, Then(n3, Then(p, a))).asked \subseteq known =>
           /\ n2.r = "ok" => Then(n3, Then(p, a)).asked \subseteq known
           /\ Then(n2, Then(n3, Then(p, a))).r = "ok" <=> n2.r = "ok" /\ Then(n3, Then(p, a)).r = "ok"
    BY <2>5, <2>8, ThenReads
  <2>11. Then(n3, Then(p, a)).asked \subseteq known =>
           /\ n3.r = "ok" => Then(p, a).asked \subseteq known
           /\ Then(n3, Then(p, a)).r = "ok" <=> n3.r = "ok" /\ Then(p, a).r = "ok"
    BY <2>5, <2>8, ThenReads
  <2>12. Then(p, a).asked \subseteq known =>
           /\ p.asked \subseteq known /\ (p.r = "ok" => a.asked \subseteq known)
           /\ Then(p, a).r = "ok" <=> p.r = "ok" /\ a.r = "ok"
    BY <2>7, ThenReads
  <2> QED  BY <1>2, <2>2, <2>3, <2>4, <2>5, <2>6, <2>9, <2>10, <2>11, <2>12
<1> QED  BY <1>1, <1>2

LEMMA ArrayTells ==
  ASSUME NEW s \in Schemas, s.t = "node", s.bad = {}, Admitted(s), NEW v \in Values, ~TooLong[v],
         NEW c \in Walks, NEW known, TrueInside(s, c, known), ValidateArray(v, s, c).asked \subseteq known
  PROVE  ValidateArray(v, s, c).r = "ok" <=> (v.t = "array" => ArrayConforms(v, s, Conforms))
<1>w. \A keys : ~Wrong(s, keys)
  BY DEF Wrong
<1>1. CASE v.t # "array"
  BY <1>1 DEF ValidateArray, Result
<1>2. CASE v.t = "array"
  <2> DEFINE counted == CountHolds(Len(v.items), s, "minItems", "maxItems")
             each == Has(s, "items") => \A i \in DOMAIN v.items : Conforms[s.k["items"]][v.items[i]]
             n1 == Need(~Wrong(s, {"minItems", "maxItems"}) /\ counted)
             n2 == Need(~Wrong(s, {"uniqueItems"}) /\ UniqueHolds(v, s))
             a == IF ~Has(s, "items") THEN Result("ok")
                  ELSE IF s.k["items"].t = "tuple" THEN Result("invalid")
                  ELSE InOrder(ItemResults(v, s, c))
  <2>1. v.items \in Seq(Values) /\ \A i \in DOMAIN v.items : v.items[i] \in Values /\ ~TooLong[v.items[i]]
    BY <1>2, ValueFacts, TooLongIs
  <2>2. a \in Results /\ (a.asked \subseteq known => (a.r = "ok" <=> each))
    <3>1. CASE ~Has(s, "items")
      BY <3>1, NeedType DEF Result
    <3>2. CASE Has(s, "items")
      <4> DEFINE e == ItemResults(v, s, c)
      <4>1. /\ e \in Seq(Results) /\ DOMAIN e = DOMAIN v.items
            /\ \A i \in DOMAIN v.items : e[i] = c[s.k["items"]][v.items[i]]
        BY <1>2, <3>2, ItemResultsType
      <4>2. a = InOrder(e)
        BY <3>2 DEF Admitted
      <4> HIDE DEF e, a
      <4>3. InOrder(e) \in Results
        BY <4>1, UpToType DEF InOrder
      <4>4. s.k["items"] \in Inside(s)
        BY <3>2, NodeFacts
      <4>5. ASSUME NEW i \in DOMAIN v.items, e[i].asked \subseteq known
            PROVE  e[i].r = "ok" <=> Conforms[s.k["items"]][v.items[i]]
        BY <2>1, <4>1, <4>4, <4>5 DEF TrueInside
      <4>6. a.asked \subseteq known =>
              /\ a.r = "ok" => \A i \in DOMAIN e : e[i].r = "ok" /\ e[i].asked \subseteq known
              /\ a.r # "ok" => \E i \in DOMAIN e : e[i].r # "ok" /\ e[i].asked \subseteq known
        BY <4>1, <4>2, InOrderReads
      <4> QED  BY <3>2, <4>1, <4>2, <4>3, <4>5, <4>6
    <3> QED  BY <3>1, <3>2
  <2>3. ArrayConforms(v, s, Conforms) <=> counted /\ UniqueHolds(v, s) /\ each
    BY DEF ArrayConforms
  <2>4. /\ n1 \in Results /\ (n1.r = "ok" <=> counted)
        /\ n2 \in Results /\ (n2.r = "ok" <=> UniqueHolds(v, s))
    <3>1. /\ (~Wrong(s, {"minItems", "maxItems"}) /\ counted) \in BOOLEAN
          /\ (~Wrong(s, {"uniqueItems"}) /\ UniqueHolds(v, s)) \in BOOLEAN
      OBVIOUS
    <3>2. n1 \in Results /\ (n1.r = "ok" <=> (~Wrong(s, {"minItems", "maxItems"}) /\ counted))
      BY <3>1, NeedType
    <3>3. n2 \in Results /\ (n2.r = "ok" <=> (~Wrong(s, {"uniqueItems"}) /\ UniqueHolds(v, s)))
      BY <3>1, NeedType
    <3> QED  BY <3>2, <3>3, <1>w
  <2>5. ValidateArray(v, s, c) = Then(n1, Then(n2, a))
    BY <1>2 DEF ValidateArray, ItemResults
  <2> HIDE DEF counted, each, n1, n2, a
  <2>6. Then(n2, a) \in Results
    BY <2>2, <2>4, ThenType
  <2>7. /\ n1.r = "ok" => Then(n2, a).asked \subseteq known
        /\ Then(n1, Then(n2, a)).r = "ok" <=> n1.r = "ok" /\ Then(n2, a).r = "ok"
    BY <2>4, <2>5, <2>6, ThenReads
  <2>8. Then(n2, a).asked \subseteq known =>
          /\ n2.r = "ok" => a.asked \subseteq known
          /\ Then(n2, a).r = "ok" <=> n2.r = "ok" /\ a.r = "ok"
    BY <2>2, <2>4, ThenReads
  <2> QED  BY <1>2, <2>2, <2>3, <2>4, <2>5, <2>7, <2>8
<1> QED  BY <1>1, <1>2

(* All steps of a node: "ok" if and only if every keyword holds.            *)
LEMMA ValidatedTells ==
  ASSUME NEW s \in Schemas, s.t = "node", s.bad = {}, Exact(s), Admitted(s), NEW v \in Values,
         ~TooLong[v], NEW c \in Walks, NEW known, NEW judging, Resolved(judging, known),
         TrueInside(s, c, known), Validated(v, s, c, judging).asked \subseteq known
  PROVE  Validated(v, s, c, judging).r = "ok" <=> NodeConforms(v, s, Conforms)
<1>w. \A keys : ~Wrong(s, keys)
  BY DEF Wrong
<1>t. judging.collecting = FALSE /\ judging.collecting \in BOOLEAN
  BY DEF Resolved
<1> DEFINE m == ValidateComposites(v, s, c, judging)
           e == ValidateEnum(v, s)
           y == ValidateType(v, s)
           x == ValidateString(v, s, judging)
           n == ValidateNumber(v, s)
           o == ValidateObject(v, s, c)
           a == ValidateArray(v, s, c)
<1>1. /\ m \in Results /\ e \in Results /\ y \in Results /\ x \in Results
      /\ n \in Results /\ o \in Results /\ a \in Results
  BY <1>t, CompositesType, PlainTypes, ObjectType, ArrayType
<1>2. m.asked \subseteq known => (m.r = "ok" <=> CompositesConform(v, s, Conforms))
  BY <1>t, CompositesTell
<1>3. (e.r = "ok" <=> ConstHolds(v, s) /\ EnumHolds(v, s)) /\ (y.r = "ok" <=> TypeHolds(v, s))
  BY <1>w, NeedType DEF ValidateEnum, ValidateType
<1>4. x.asked \subseteq known =>
        (x.r = "ok" <=> (v.t = "string" => /\ LengthHolds(v, s)
                                           /\ Has(s, "pattern") => v.s \in Matches[s.k["pattern"]]))
  BY StringTells
<1>5. n.r = "ok" <=>
        (v.t = "number" => BoundsHold(v, s) /\ (Has(s, "multipleOf") => v.n % s.k["multipleOf"] = 0))
  <2>1. n.r = "ok" <=> (v.t = "number" => NumberHolds(v, s))
    BY <1>w, NeedType DEF ValidateNumber
  <2>2. v.t = "number" => (Divides(v, s) <=> (Has(s, "multipleOf") => v.n % s.k["multipleOf"] = 0))
    BY DEF Exact, Divides
  <2> HIDE DEF n
  <2> QED  BY <2>1, <2>2 DEF NumberHolds
<1>6. o.asked \subseteq known => (o.r = "ok" <=> (v.t = "object" => ObjectConforms(v, s, Conforms)))
  BY ObjectTells
<1>7. a.asked \subseteq known => (a.r = "ok" <=> (v.t = "array" => ArrayConforms(v, s, Conforms)))
  BY ArrayTells
<1>8. Validated(v, s, c, judging) = Then(m, Then(e, Then(y, Then(x, Then(n, Then(o, a))))))
  BY DEF Validated, Admitted
<1> HIDE DEF m, e, y, x, n, o, a
<1> DEFINE r6 == Then(o, a)
           r5 == Then(n, r6)
           r4 == Then(x, r5)
           r3 == Then(y, r4)
           r2 == Then(e, r3)
<1>9. r6 \in Results /\ (r6.asked \subseteq known =>
        /\ o.asked \subseteq known /\ (o.r = "ok" => a.asked \subseteq known)
        /\ r6.r = "ok" <=> o.r = "ok" /\ a.r = "ok")
  BY <1>1, ThenReads
<1> HIDE DEF r6
<1>10. r5 \in Results /\ (r5.asked \subseteq known =>
        /\ n.r = "ok" => r6.asked \subseteq known
        /\ r5.r = "ok" <=> n.r = "ok" /\ r6.r = "ok")
  BY <1>1, <1>9, ThenReads
<1> HIDE DEF r5
<1>11. r4 \in Results /\ (r4.asked \subseteq known =>
        /\ x.asked \subseteq known /\ (x.r = "ok" => r5.asked \subseteq known)
        /\ r4.r = "ok" <=> x.r = "ok" /\ r5.r = "ok")
  BY <1>1, <1>10, ThenReads
<1> HIDE DEF r4
<1>12. r3 \in Results /\ (r3.asked \subseteq known =>
        /\ y.r = "ok" => r4.asked \subseteq known
        /\ r3.r = "ok" <=> y.r = "ok" /\ r4.r = "ok")
  BY <1>1, <1>11, ThenReads
<1> HIDE DEF r3
<1>13. r2 \in Results /\ (r2.asked \subseteq known =>
        /\ e.r = "ok" => r3.asked \subseteq known
        /\ r2.r = "ok" <=> e.r = "ok" /\ r3.r = "ok")
  BY <1>1, <1>12, ThenReads
<1>14. Validated(v, s, c, judging) = Then(m, r2)
  BY <1>8 DEF r6, r5, r4, r3
<1> HIDE DEF r2
<1>15. /\ m.asked \subseteq known /\ (m.r = "ok" => r2.asked \subseteq known)
       /\ Then(m, r2).r = "ok" <=> m.r = "ok" /\ r2.r = "ok"
  BY <1>1, <1>13, <1>14, ThenReads
<1>16. Validated(v, s, c, judging).r = "ok" <=>
         /\ m.r = "ok" /\ e.r = "ok" /\ y.r = "ok"
         /\ x.r = "ok" /\ n.r = "ok" /\ o.r = "ok" /\ a.r = "ok"
  BY <1>9, <1>10, <1>11, <1>12, <1>13, <1>14, <1>15
<1>17. /\ m.r = "ok" /\ e.r = "ok" /\ y.r = "ok" => x.asked \subseteq known
       /\ m.r = "ok" /\ e.r = "ok" /\ y.r = "ok" /\ x.r = "ok" /\ n.r = "ok" => o.asked \subseteq known
       /\ m.r = "ok" /\ e.r = "ok" /\ y.r = "ok" /\ x.r = "ok" /\ n.r = "ok" /\ o.r = "ok" =>
            a.asked \subseteq known
  BY <1>9, <1>10, <1>11, <1>12, <1>13, <1>15
<1> QED  BY <1>2, <1>3, <1>4, <1>5, <1>6, <1>7, <1>15, <1>16, <1>17 DEF NodeConforms

(* A schema that was let in and is well formed, an answer that no pattern   *)
(* is too long for, and a worker that made every test: the checking walk    *)
(* says what JSON Schema says.                                              *)
LEMMA WalkTells ==
  ASSUME NEW known, NEW judging, Resolved(judging, known)
  PROVE  \A s \in Schemas : \A depth \in Nat : Acceptable[s][depth] /\ WellFormed[s] =>
           \A v \in Values : ~TooLong[v] /\ ValidateAt(judging)[s][v].asked \subseteq known =>
             (ValidateAt(judging)[s][v].r = "ok" <=> Conforms[s][v])
<1> DEFINE c == ValidateAt(judging)
           noting == [collecting |-> TRUE]
           Good == {s \in Schemas : \A depth \in Nat : Acceptable[s][depth] /\ WellFormed[s] =>
                      \A v \in Values : ~TooLong[v] /\ c[s][v].asked \subseteq known =>
                        (c[s][v].r = "ok" <=> Conforms[s][v])}
<1>t. judging.collecting = FALSE /\ judging.collecting \in BOOLEAN
  BY DEF Resolved
<1>1. c \in Walks /\ \A s \in Schemas : \A v \in Values : c[s][v] = Validated(v, s, c, judging)
  BY <1>t, WalkUnfolds
<1>2. \A s \in Schemas : \A depth \in Nat : Acceptable[s][depth] =>
        \A v \in Values : c[s][v] \in Results /\ c[s][v].r # "unsupported"
  <2>1. noting.collecting = TRUE
    OBVIOUS
  <2> HIDE DEF noting
  <2>2. \A s \in Schemas : \A depth \in Nat : Acceptable[s][depth] =>
          \A v \in Values : Covers(ValidateAt(noting)[s][v], c[s][v])
    BY <2>1, <1>t, WalksCover
  <2> HIDE DEF c
  <2> QED  BY <2>2 DEF Covers
<1> HIDE DEF c
<1>3. ASSUME NEW s \in Schemas, \A u \in Schemas : SchemaRank[u] < SchemaRank[s] => u \in Good
      PROVE  s \in Good
  <2> SUFFICES ASSUME NEW depth \in Nat, Acceptable[s][depth], WellFormed[s], NEW v \in Values,
                      ~TooLong[v], c[s][v].asked \subseteq known
               PROVE  c[s][v].r = "ok" <=> Conforms[s][v]
    OBVIOUS
  <2>1. Conforms[s][v] <=> s.t # "false" /\ (s.t = "node" => NodeConforms(v, s, Conforms))
    BY ConformsIs
  <2>2. c[s][v] = Validated(v, s, c, judging)
    BY <1>1
  <2>3. /\ s.t \notin {"junk", "tuple"}
        /\ s.t = "node" => s.bad = {} /\ Exact(s) /\ \A child \in Inside(s) : WellFormed[child]
    BY WellFormedIs
  <2>4. CASE s.t # "node"
    <3>1. s.t \in {"true", "false"}
      BY <2>3, <2>4, SchemaAssumption
    <3>2. Validated(v, s, c, judging).r = IF s.t = "true" THEN "ok" ELSE "invalid"
      BY <2>4 DEF Validated, Result
    <3> QED  BY <2>1, <2>2, <2>4, <3>1, <3>2
  <2>5. CASE s.t = "node"
    <3>1. Admitted(s) /\ \A child \in Inside(s) : Acceptable[child][depth + 1]
      BY <2>5, AcceptableIs, NodeFacts DEF Admitted
    <3>2. TrueInside(s, c, known)
      <4> SUFFICES ASSUME NEW child \in Inside(s), NEW w \in Values
                   PROVE  /\ c[child][w] \in Results /\ c[child][w].r # "unsupported"
                          /\ ~TooLong[w] /\ c[child][w].asked \subseteq known =>
                               (c[child][w].r = "ok" <=> Conforms[child][w])
        BY DEF TrueInside
      <4>1. child \in Schemas /\ Height[child] < Height[s]
        BY <2>5, NodeFacts
      <4>2. child \in Good
        BY <4>1, <1>3 DEF SchemaRank
      <4>3. depth + 1 \in Nat /\ Acceptable[child][depth + 1] /\ WellFormed[child]
        BY <2>3, <2>5, <3>1
      <4> QED  BY <1>2, <4>1, <4>2, <4>3
    <3>3. Validated(v, s, c, judging).r = "ok" <=> NodeConforms(v, s, Conforms)
      BY <1>1, <2>2, <2>3, <2>5, <3>1, <3>2, ValidatedTells
    <3> QED  BY <2>1, <2>2, <2>5, <3>3
  <2> QED  BY <2>4, <2>5
<1> HIDE DEF Good
<1>4. Schemas \subseteq Good
  BY <1>3, RankFacts, RankInduction
<1> QED  BY <1>4 DEF Good, c

-----------------------------------------------------------------------------
Collecting == [collecting |-> TRUE]
Checking == [collecting |-> FALSE, byNode |-> byNode]

(* What was let in stays acceptable until the verdict; the tests are those  *)
(* that the collecting walk met, and the results those of these tests.      *)
InOrderly ==
  /\ given \in Schemas /\ value \in Values
  /\ at \in {"input", "collect", "worker", "check", "done"}
  /\ at \in {"collect", "worker", "check"} => Acceptable[Schema][0]
  /\ at \in {"worker", "check"} => tests = ValidateAt(Collecting)[Schema][value].asked
  /\ at \in {"input", "collect", "worker"} => byNode = << >>
  /\ at = "worker" => tests # {}
  /\ at = "check" => DOMAIN byNode = tests /\ \A t \in tests : byNode[t] <=> Tested(t)
  /\ at # "done" => verdict = "none"
SchemaInv == InOrderly /\ VerdictSound /\ BoundaryAgrees

LEMMA SchemaFact == given \in Schemas => Schema \in Schemas
BY SchemaAssumption DEF Schema

(* The verdict of the second walk is neither "unsupported" nor, of what is  *)
(* well formed, wrong.                                                      *)
LEMMA CheckIsSound ==
  ASSUME InOrderly, at = "check"
  PROVE  /\ ValidateAt(Checking)[Schema][value].asked \subseteq tests
         /\ ValidateAt(Checking)[Schema][value].r # "unsupported"
         /\ WellFormed[Schema] /\ ~TooLong[value] =>
              (ValidateAt(Checking)[Schema][value].r = "ok" <=> Conforms[Schema][value])
<1>1. /\ Schema \in Schemas /\ value \in Values /\ Acceptable[Schema][0]
      /\ tests = ValidateAt(Collecting)[Schema][value].asked
      /\ DOMAIN byNode = tests /\ \A t \in tests : byNode[t] <=> Tested(t)
  BY SchemaFact DEF InOrderly
<1>2. Collecting.collecting = TRUE /\ Checking.collecting = FALSE /\ Checking.byNode = byNode
  BY DEF Collecting, Checking
<1>3. Covers(ValidateAt(Collecting)[Schema][value], ValidateAt(Checking)[Schema][value])
  BY <1>1, <1>2, WalksCover
<1>4. Resolved(Checking, tests)
  BY <1>1, <1>2 DEF Resolved
<1>5. ValidateAt(Checking)[Schema][value].asked \subseteq tests
  BY <1>1, <1>3 DEF Covers
<1>6. WellFormed[Schema] /\ ~TooLong[value] =>
        (ValidateAt(Checking)[Schema][value].r = "ok" <=> Conforms[Schema][value])
  BY <1>1, <1>4, <1>5, WalkTells
<1> QED  BY <1>3, <1>5, <1>6 DEF Covers

LEMMA SchemaInitially == SchemaInit => SchemaInv
BY DEF SchemaInit, SchemaInv, InOrderly, VerdictSound, BoundaryAgrees

LEMMA SchemaStep == SchemaInv /\ [SchemaNext]_schemaVars => SchemaInv'
<1> SUFFICES ASSUME SchemaInv, [SchemaNext]_schemaVars PROVE SchemaInv'
  OBVIOUS
<1>i. InOrderly /\ VerdictSound /\ BoundaryAgrees
  BY DEF SchemaInv
<1>1. CASE Submit
  <2>1. /\ given' = given /\ value' = value /\ tests' = tests /\ byNode' = byNode /\ at = "input"
        /\ Schema' = Schema
    BY <1>1 DEF Submit, Schema
  <2>2. CASE Acceptable[Schema][0]
    <3>1. at' = "collect" /\ verdict' = verdict
      BY <1>1, <2>2 DEF Submit
    <3> QED  BY <1>i, <2>1, <2>2, <3>1 DEF SchemaInv, InOrderly, VerdictSound, BoundaryAgrees
  <2>3. CASE ~Acceptable[Schema][0]
    <3>1. at' = "done" /\ verdict' = "refused"
      BY <1>1, <2>3 DEF Submit
    <3> QED  BY <1>i, <2>1, <3>1 DEF SchemaInv, InOrderly, VerdictSound, BoundaryAgrees
  <2> QED  BY <2>2, <2>3
<1>2. CASE Collect
  <2>1. /\ given' = given /\ value' = value /\ verdict' = verdict /\ byNode' = byNode /\ at = "collect"
        /\ Schema' = Schema
        /\ tests' = ValidateAt(Collecting)[Schema][value].asked
        /\ at' = IF tests' = {} THEN "check" ELSE "worker"
    BY <1>2 DEF Collect, Schema, Collecting
  <2>2. (ValidateAt(Collecting)[Schema][value].asked)' = ValidateAt(Collecting)[Schema][value].asked
    BY <2>1
  <2>3. DOMAIN << >> = {}
    OBVIOUS
  <2> QED  BY <1>i, <2>1, <2>2, <2>3 DEF SchemaInv, InOrderly, VerdictSound, BoundaryAgrees
<1>3. CASE WorkerAnswers
  <2>1. /\ given' = given /\ value' = value /\ verdict' = verdict /\ tests' = tests /\ at = "worker"
        /\ Schema' = Schema /\ at' = "check" /\ byNode' = [t \in tests |-> Tested(t)]
    BY <1>3 DEF WorkerAnswers, Schema
  <2> QED  BY <1>i, <2>1 DEF SchemaInv, InOrderly, VerdictSound, BoundaryAgrees
<1>4. CASE Unverified
  <2>1. /\ given' = given /\ value' = value /\ tests' = tests /\ byNode' = byNode /\ at = "worker"
        /\ Schema' = Schema /\ at' = "done" /\ verdict' = "invalid"
    BY <1>4 DEF Unverified, Schema
  <2> QED  BY <1>i, <2>1 DEF SchemaInv, InOrderly, VerdictSound, BoundaryAgrees
<1>5. CASE Check
  <2>1. /\ given' = given /\ value' = value /\ tests' = tests /\ byNode' = byNode /\ at = "check"
        /\ Schema' = Schema /\ at' = "done"
        /\ verdict' = ValidateAt(Checking)[Schema][value].r
    BY <1>5 DEF Check, Schema, Checking
  <2>2. /\ verdict' # "unsupported"
        /\ WellFormed[Schema] /\ ~TooLong[value] => (verdict' = "ok" <=> Conforms[Schema][value])
    BY <1>i, <2>1, CheckIsSound
  <2> QED  BY <1>i, <2>1, <2>2 DEF SchemaInv, InOrderly, VerdictSound, BoundaryAgrees
<1>6. CASE UNCHANGED schemaVars
  <2>1. /\ given' = given /\ value' = value /\ tests' = tests /\ byNode' = byNode /\ at' = at
        /\ verdict' = verdict /\ Schema' = Schema
    BY <1>6 DEF schemaVars, Schema
  <2> QED  BY <1>i, <2>1 DEF SchemaInv, InOrderly, VerdictSound, BoundaryAgrees
<1> QED  BY <1>1, <1>2, <1>3, <1>4, <1>5, <1>6 DEF SchemaNext

(* For every schema and every answer of finite numbers, however deep: a     *)
(* verdict given on a well-formed schema, one no divisor of which           *)
(* isMultipleOf mistakes, is the truth about the answer, unless the batch   *)
(* of its pattern tests was left unfinished (validateJsonSchema).           *)
THEOREM VerdictIsSound == SchemaSpec => []VerdictSound
<1>1. SchemaInv => VerdictSound
  BY DEF SchemaInv
<1> QED  BY <1>1, SchemaInitially, SchemaStep, PTL DEF SchemaSpec

(* A schema that assertExtractSchemaSupported let in, before anything was   *)
(* fetched or paid for, is never found unverifiable by the validation.      *)
THEOREM BoundaryHolds == SchemaSpec => []BoundaryAgrees
<1>1. SchemaInv => BoundaryAgrees
  BY DEF SchemaInv
<1> QED  BY <1>1, SchemaInitially, SchemaStep, PTL DEF SchemaSpec

(* The two walks stop in different places, and the second still asks for no *)
(* test that the first did not collect: a result is never missing in it.    *)
THEOREM NothingUntested ==
  SchemaSpec => [](at = "check" => ValidateAt(Checking)[Schema][value].asked \subseteq tests)
<1>1. SchemaInv => (at = "check" => ValidateAt(Checking)[Schema][value].asked \subseteq tests)
  BY CheckIsSound DEF SchemaInv
<1> QED  BY <1>1, SchemaInitially, SchemaStep, PTL DEF SchemaSpec
=============================================================================
