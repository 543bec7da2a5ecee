SPECIFICATION Spec
CONSTANTS
  p1 = p1
  c1 = c1
  c2 = c2
  e1 = e1
  b1 = b1
  b2 = b2
  b3 = b3
  b4 = b4
  b5 = b5
  b6 = b6
  Bridge = {b1, b2, b3, b4, b5, b6}
  Circle = 12
  NoNet = NoNet
  FewBridges = 2
  ManyBridges = 4
  Resistant = {"scramblesuit", "obfs4"}
  Address = {p1}
  Canonical = {p1}
  File = {f1}
  Exit = Exit
  NoTag = NoTag
  ByAddress = {"https", "moat"}
  ByName = {"email"}
  Client = {p1, c1, c2, e1}
  Interval = {1, 2}
  Clusters = 2
  Deployments = {{"https"}, {"moat"}, {"email"}}
  MaxRings = 1
  EndpointsOf <- MCEndpointsOf
  MainOf <- MCMainOf
  Incomplete = {b6}
  Net <- MCNet
  Need <- MCNeed
  ShareHash <- MCShareHash
  Place <- MCPlace
  AreaOf <- MCAreaOf
  ProxyGroup <- MCProxyGroup
  AreaHash <- MCAreaHash
  Position <- MCPosition
  Asks <- MCAsks
  CountryOf <- MCCountryOf
  VersionOf <- MCVersionOf
  MethodName = {"obfs2", "obfs3", "obfs4", "scramblesuit"}
  CountryName = {"cn", "ir"}
  NoName = NoName
  DefaultTransport = "obfs4"
  Loads <- MCLoads
INVARIANT ProxiesAreTreatedSpecially
