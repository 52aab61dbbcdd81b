------------------------- MODULE MCMetricsRegistry -------------------------
(* Prefixes that differ, that contain each other, that only flattenKey     *)
(* makes equal, that Prometheus does not accept, and the empty one. "-"    *)
(* becomes "_", which also joins prefix and name: a fully qualified name   *)
(* is here the sequence of its words.                                      *)
EXTENDS MetricsRegistry, Sequences, TLC

MCPrefixes == {"", "orders-eu", "orders_eu", "orders_eu/s"}

MCHasPrefix ==
    {<<p, p>> : p \in MCPrefixes} \cup (MCPrefixes \X {""})
        \cup {<<"orders_eu/s", "orders_eu">>}

MCWords ==
    ("" :> <<>>) @@ ("orders-eu" :> <<"orders", "eu">>) @@ ("orders_eu" :> <<"orders", "eu">>)
        @@ ("orders_eu/s" :> <<"orders", "eu/s">>)
        @@ ("my-topic" :> <<"my", "topic">>) @@ ("my_topic" :> <<"my", "topic">>)

MCFQName == [x \in MCPrefixes \X Names |-> MCWords[x[1]] \o MCWords[x[2]]]

MCInvalid == {MCFQName[x] : x \in {"orders_eu/s"} \X Names}
=============================================================================
