SPECIFICATION FairSpec
CONSTANTS
  Urls <- MCUrls
  Locations = {"page", "board", "plain", "inner"}
  NoUrl = "no url"
  HostOf <- MCHostOf
  FlawOf <- MCFlawOf
  Secure <- MCSecure
  Public = {p1}
  Private = {x1}
  Odd = {o1}
  MaxHops = 2
  MaxBytes = 1
  Boards = {"board", "ported"}
  ApiOf <- MCApiOf
  Ported = {"ported"}
  Embeds = {"embed"}
  JobOf <- MCJobOf
  Pages <- MCPages
  Requests <- MCRequests
  Deployments <- MCDeployments
  Subresources <- MCSubresources
  MaxRequests <- MCMaxRequests
INVARIANTS
  ConnectionsVetted
  ResultTruthful
PROPERTIES
  CallEnds
CHECK_DEADLOCK FALSE
