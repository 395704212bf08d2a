------------------------------- MODULE MCCalls -------------------------------
(* The instance of HostedCalls that TLC checks.                             *)
EXTENDS HostedCalls, TLC
Symmetry == Permutations(Callers)
MCBudgets == {[calls |-> 3, posts |-> 0], [calls |-> 1, posts |-> 1], [calls |-> 0, posts |-> 5]}
U(host, path) == [host |-> host, path |-> path, kind |-> "seed"]
Other(kind) == [host |-> "a.com", path |-> 9, kind |-> kind]
Fetch == [tool |-> "captatum", tenant |-> "one", valid |-> TRUE, output |-> "raw",
          scopes |-> {"fetch:read"}]
Bulk(urls) ==
  [tool |-> "captatum_bulk", tenant |-> "one", valid |-> TRUE, output |-> "raw",
   scopes |-> {"fetch:read"}, urls |-> urls, maxCost |-> 2, seedCost |-> 2]
MCRequests == {
  Fetch,
  [Fetch EXCEPT !.output = "summary"],
  Bulk(<<U("a.com", 1)>>),
  Bulk(<<U("a.com", 1), U("a.com", 1), U("a.com", 2), U("a.com", 3), U("b.com", 1)>>),
  [Bulk(<<Other("bad"), U("a.com", 1), Other("board"), U("b.com", 1), U("b.com", 2)>>)
    EXCEPT !.output = "summary", !.scopes = {"fetch:transform"}, !.maxCost = 9],
  [Bulk(<<Other("embed")>>) EXCEPT !.tenant = "two"],
  [Bulk(<<U("b.com", 1)>>) EXCEPT !.valid = FALSE]}
From(client, remote, forwarded, secret) ==
  [client |-> client, remote |-> remote, forwarded |-> forwarded, secret |-> secret,
   surface |-> "approve"]
MCPosts == {
  From("x", "edge", "x", "right"), From("y", "edge", "y", "right"),
  From("z", "edge", "x", "absent"), From("z", "edge", "w", "absent"),
  From("v", "v", NoClaim, "absent")}
=============================================================================
