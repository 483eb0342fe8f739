------------------------------ MODULE MCGateway -------------------------------
\* A service "user" whose proto file has the RPC method GetUser, with the
\* default id user.get, and lacks ListUser.  Explicit ids collide with the
\* default one, as ids or only as keys, or not at all.
EXTENDS MetadataPublisher

MCService == <<"user">>
MCIds == {[name |-> <<"get">>, slashes |-> FALSE], [name |-> <<"get">>, slashes |-> TRUE],
          [name |-> <<"b">>, slashes |-> FALSE]}
MCMethods == {<<"get", "user">>}
MCRPCs == {<<"get", "user">>, <<"list", "user">>}
MCPaths == {[seg |-> "a", rooted |-> TRUE], [seg |-> "a", rooted |-> FALSE],
            [seg |-> "b", rooted |-> TRUE]}
MCOld == <<<<"descriptor">>, <<"route", <<"get">>>>>>
=============================================================================
