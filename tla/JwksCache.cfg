CONSTANTS
  k1 = k1
  k2 = k2
  enc = enc
  p1 = p1
  p2 = p2
  p3 = p3
  None = None
  Kid = {k1}
  Other = {enc}
  Ttl = 2
  Timeout = 1
  MaxTime = 3
  Sent <- SentHere
  Req = {p1, p2}
SPECIFICATION FairSpec
PROPERTY
  EveryRequestIsJudged
INVARIANT
  IndInv
PROPERTIES
  BoundedStaleness
  RefusedForAReason
  EveryRequestIsJudged
