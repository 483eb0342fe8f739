--------------------------- MODULE AddressResolution ---------------------------
(***************************************************************************)
(* servicekit/address.go: the addresses a service advertises, from its     *)
(* configuration, the addresses its listeners are bound to, and what the   *)
(* machine says of its own IPs.                                            *)
(*                                                                         *)
(* An address is a host and a port, or NoAddress; "" is a port that is     *)
(* empty or could not be split off. A host is a record: its name, whether  *)
(* it is an IPv4 address, may be advertised at all, and the network it is  *)
(* in. env is what the machine answers now: probe gives the local IP of    *)
(* each target that can be reached, interfaces the IPs in the order of the *)
(* system.                                                                 *)
(***************************************************************************)
EXTENDS Naturals, Sequences, SequencesExt

NoHost == [name |-> "", v4 |-> FALSE, usable |-> FALSE, net |-> ""]
Wildcard == NoHost
NoAddress == [host |-> NoHost, port |-> "none"]
JoinHostPort(h, p) == [host |-> h, port |-> p]

isWildcardListenHost(h) == h.name \in {"", "0.0.0.0", "::"}
boundServiceListenPort(a) == a # NoAddress /\ a.port \notin {"", "0"}

ipAllowedByCIDRs(ip, cidrs) == cidrs = {} \/ ip.net \in cidrs

\* The default port is added to an endpoint without one.
normalizeProbeTarget(e) == JoinHostPort(e.host, IF e.port = "" THEN "2379" ELSE e.port)

Endpoints(c) == c.registryEndpoints \o c.configEndpoints \o c.infraEndpoints

\* The targets by place: empty endpoints are dropped, one that has only a port
\* is kept.  A target that is listed twice answers twice, and the first answer
\* is taken.
advertiseIPProbeTargets(c) ==
    [k \in {k \in DOMAIN Endpoints(c) : Endpoints(c)[k] # JoinHostPort(NoHost, "")} |->
        normalizeProbeTarget(Endpoints(c)[k])]

\* The places of the interfaces whose IP may be advertised.
interfaceAdvertiseIPs(env) == {k \in DOMAIN env.interfaces : env.interfaces[k].usable}

First(S) == CHOOSE k \in S : \A j \in S : k <= j

\* The IP of the first probe that gives an allowed one, else the first
\* interface, IPv4 before IPv6; NoHost if there is none.
resolveLocalAdvertiseIP(c, env) ==
    LET targets == advertiseIPProbeTargets(c)
        good == {k \in DOMAIN targets :
                    /\ targets[k] \in DOMAIN env.probe
                    /\ env.probe[targets[k]].usable /\ ipAllowedByCIDRs(env.probe[targets[k]], c.cidrs)}
        local == {k \in interfaceAdvertiseIPs(env) : ipAllowedByCIDRs(env.interfaces[k], c.cidrs)}
        v4 == {k \in local : env.interfaces[k].v4}
    IN IF "unparsable" \in c.cidrs THEN NoHost
       ELSE IF good # {} THEN env.probe[targets[First(good)]]
       ELSE IF local = {} THEN NoHost
       ELSE env.interfaces[First(IF v4 # {} THEN v4 ELSE local)]

\* Mutant: the port is the configured one, 0 included.
ConfiguredPort(listen, bound, ip) ==
    IF listen = NoAddress \/ listen.port = "" THEN listen
    ELSE IF isWildcardListenHost(listen.host) THEN JoinHostPort(ip, listen.port) ELSE listen

\* resolveListen; a wildcard host becomes ip, NoHost if that could not be found.
resolveListen(listen, bound, ip) ==
    LET port == IF listen.port = "0" /\ boundServiceListenPort(bound) THEN bound.port ELSE listen.port
    IN IF listen = NoAddress \/ listen.port = "" THEN listen
       ELSE IF isWildcardListenHost(listen.host) THEN JoinHostPort(ip, port)
       ELSE IF port = "0" THEN listen ELSE JoinHostPort(listen.host, port)

\* Whether resolveListen asks for the local IP.
needsLocalIP(listen) == listen # NoAddress /\ listen.port # "" /\ isWildcardListenHost(listen.host)

\* resolveAllWithBound: an explicit address wins.
resolveAllWithBound(c, bound, env) ==
    LET ip == resolveLocalAdvertiseIP(c, env)
        One(advertise, listen, b) == IF advertise # NoAddress THEN advertise ELSE resolveListen(listen, b, ip)
    IN [grpc |-> One(c.advertiseGRPC, c.grpc, bound.grpc), http |-> One(c.advertiseHTTP, c.http, bound.http)]

resolutionFails(c, env) ==
    /\ \/ c.advertiseGRPC = NoAddress /\ needsLocalIP(c.grpc)
       \/ c.advertiseHTTP = NoAddress /\ needsLocalIP(c.http)
    /\ resolveLocalAdvertiseIP(c, env) = NoHost
=============================================================================
