---------------------------- MODULE MCInventory ----------------------------
(* Objects with the shapes the mappers tell apart, in two namespaces, an    *)
(* Ingress and an HTTPRoute of one name among them.                         *)
EXTENDS Inventory

MCString ==
    {"0", "1", "2", "3", "4", "5", "6", "7", "8", "9", "", "/", "/a", "Prefix",
     "Exact", "http", "svc", "svc2", "web", "any", "h1", "h2"}

Port(name, number) == [name |-> name, number |-> number]
Path(path, pathType, service) ==
    [path |-> path, pathType |-> pathType, service |-> service]
Service(port) == [name |-> "svc", port |-> port]

\* Two rules for one host, with a path in both, a rule without HTTP and a
\* rule for a host without TLS.
Web ==
    [ns |-> "n1", name |-> "web", annotations |-> {"default"}, tls |-> <<<<"h1">>>>,
     rules |-> <<[host |-> "h1", paths |->
                    <<Path("/", "Prefix", Service(Port(<<>>, 8080))),
                      Path("/a", Nil, Service(Port(<<"http">>, 0)))>>],
                 [host |-> "h1", paths |-> <<Path("/", "Prefix", Service(Port(<<>>, 8080)))>>],
                 [host |-> "h2", paths |-> Nil],
                 [host |-> "h2", paths |-> <<Path("/", "Exact", Nil)>>]>>]
Other ==
    [ns |-> "n2", name |-> "web", annotations |-> {"default", "other"}, tls |-> <<>>,
     rules |-> <<[host |-> "h1", paths |->
                    <<Path("/", Nil, Service(Port(<<>>, 10))),
                      Path("/", Nil, Service(Port(<<>>, 65535))),
                      Path("/", Nil, Service(Port(<<>>, 0)))>>]>>]

Route ==
    [ns |-> "n1", name |-> "web", annotations |-> {"other"}, hostnames |-> <<"h1", "h2">>,
     rules |-> <<[matches |-> <<>>, backendRefs |-> <<[name |-> "svc", port |-> 100]>>],
                 [matches |-> <<[value |-> "/a", type |-> Nil],
                                [value |-> Nil, type |-> "Exact"]>>,
                  backendRefs |-> <<[name |-> "svc", port |-> Nil],
                                    [name |-> "svc2", port |-> 9]>>]>>]
NoHost ==
    [ns |-> "n1", name |-> "any", annotations |-> {}, hostnames |-> <<>>,
     rules |-> <<[matches |-> <<Nil>>, backendRefs |-> <<>>]>>]

MCIngressChoice == {{Web}, {Web, Other}}
MCHTTPRouteChoice == {{}, {Route, NoHost}}
MCNamespacesChoice == {Nil, <<>>, <<"n2">>, <<"n1", "n2", "n1">>}
=============================================================================
