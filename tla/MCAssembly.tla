------------------------------ MODULE MCAssembly ------------------------------
\* Configurations that take every way through assembly and address
\* resolution, on a machine with three IPs that answers probes or not.
EXTENDS ServiceAssembly

Host(name, v4, usable, net) == [name |-> name, v4 |-> v4, usable |-> usable, net |-> net]
Ten == Host("10.0.0.1", TRUE, TRUE, "10/8")
Six == Host("fd00::1", FALSE, TRUE, "fd/8")
Loopback == Host("127.0.0.1", TRUE, FALSE, "127/8")

Endpoint == JoinHostPort(Host("etcd", FALSE, FALSE, ""), "")
PortOnly == JoinHostPort(NoHost, "2379")
Target == normalizeProbeTarget(Endpoint)

MCEnvironments ==
    {[probe |-> [t \in {Target, PortOnly} |-> IF t = Target THEN Ten ELSE Loopback],
      interfaces |-> <<Loopback, Six, Ten>>],
     [probe |-> [t \in {Target} |-> Loopback], interfaces |-> <<Six>>],
     [probe |-> [t \in {} |-> Ten], interfaces |-> <<Loopback>>]}

NoHook == [adds |-> <<>>, spawns |-> FALSE, fails |-> FALSE]
Working == [adds |-> <<"user_http">>, spawns |-> TRUE, fails |-> FALSE]

Plain == [spec |-> TRUE, registry |-> FALSE, provider |-> "file", routes |-> FALSE, publishes |-> TRUE,
          onBound |-> FALSE, hook |-> NoHook,
          grpc |-> JoinHostPort(Wildcard, "0"), http |-> NoAddress,
          advertiseGRPC |-> NoAddress, advertiseHTTP |-> NoAddress, cidrs |-> {},
          registryEndpoints |-> <<PortOnly, Endpoint>>, configEndpoints |-> <<Endpoint>>,
          infraEndpoints |-> <<JoinHostPort(NoHost, "")>>]
Full == [Plain EXCEPT !.registry = TRUE, !.provider = "etcd", !.routes = TRUE, !.onBound = TRUE]

MCConfigs ==
    {[Plain EXCEPT !.spec = FALSE],
     [Plain EXCEPT !.provider = "unsupported", !.registry = TRUE],
     [Plain EXCEPT !.provider = "etcd", !.hook = Working],
     [Plain EXCEPT !.hook = [Working EXCEPT !.fails = TRUE], !.provider = "etcd"],
     [Plain EXCEPT !.grpc = NoAddress, !.registry = TRUE],
     [Full EXCEPT !.hook = [Working EXCEPT !.adds = <<"registry">>]],
     [Full EXCEPT !.publishes = FALSE],
     [Full EXCEPT !.routes = FALSE, !.grpc = JoinHostPort(Ten, "")],
     [Full EXCEPT !.http = JoinHostPort(Wildcard, "0"), !.cidrs = {"fd/8"}],
     [Full EXCEPT !.grpc = JoinHostPort(Loopback, "0"), !.hook = Working],
     [Full EXCEPT !.http = JoinHostPort(Wildcard, "80"), !.advertiseGRPC = JoinHostPort(Six, "1"),
                  !.cidrs = {"unparsable"}]}
=============================================================================
