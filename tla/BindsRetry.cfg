SPECIFICATION Spec
CONSTANTS
  ifc = ifc
  net = net
  sk = sk
  dev = dev
  addr = addr
  sock = sock
  eth = eth
  ip = ip
  Specs = {ifc, net, sk}
  NoSpec = NoSpec
  Kind <- MCKind
  Targets = {dev, addr, sock}
  Configs <- MCConfigs
  TargetsOf <- MCTargetsOf
  Places = {eth, ip}
  Needs <- MCNeeds
  Fallback <- MCFallback
  UnixTargets = {sock}
PROPERTY MissingIfaceRetried
