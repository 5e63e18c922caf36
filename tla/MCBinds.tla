------------------------------- MODULE MCBinds -------------------------------
(* An interface, a prefix with one address of that interface, and a unix     *)
(* socket; the address is also the interface's fallback target.              *)
EXTENDS Binds, TLC

CONSTANTS ifc, net, sk, dev, addr, sock, eth, ip

MCKind == ifc :> "iface" @@ net :> "cidr" @@ sk :> "unix"

MCTargetsOf == ifc :> {dev} @@ net :> {addr} @@ sk :> {sock}

MCNeeds == dev :> {eth} @@ addr :> {eth, ip} @@ sock :> {}

MCFallback == dev :> {addr} @@ addr :> {} @@ sock :> {}

MCConfigs == {[binds |-> <<ifc>>, tls |-> FALSE],
              [binds |-> <<ifc, sk>>, tls |-> TRUE],
              [binds |-> <<net, ifc>>, tls |-> TRUE]}
==============================================================================
