SPECIFICATION KmsFairSpec
CONSTANTS
  u1 = u1
  u2 = u2
  r1 = r1
  UrlOrder <- TwoUrls
  Calls = {r1}
  MaxRetries = 2
  DiscoveryTtl = 1
  UpTtl = 2
  DownTtl = 1
  IdentityTtl = 1
  MaxFaults = 1
  Absent = Absent
PROPERTY NewestObservationKept
PROPERTY Recovers
PROPERTY RetiredNodesAgeOut
