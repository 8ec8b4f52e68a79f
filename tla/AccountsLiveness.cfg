SPECIFICATION FairMCSpec
CONSTANTS
  Scenes = {"renewal", "clouds"}
  a1 = a1
  a2 = a2
  k1 = k1
  p1 = p1
  r1 = r1
  source = source
  Nothing = Nothing
  Actor <- MCOneActor
  Profile <- MCProfile
  Key = {k1}
  SourceRef = source
  RequestKey = {k1}
  Link = {l1}
  Delegation = {d1, d2}
  Session = {s1}
  Process = {p1, p2}
PROPERTIES
  RenewalConverges
  RegistrationConverges
