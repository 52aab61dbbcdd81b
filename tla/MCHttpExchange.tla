-------------------------- MODULE MCHttpExchange --------------------------
(* An OpenAPI document in which a literal path and two templates overlap,  *)
(* and URLs with every kind of segment, in one place or in both.           *)
EXTENDS HttpExchange

MCPaths == { <<Placeholder, Placeholder>>, <<"users", "me">>, <<Placeholder, "me">> }
MCCalls ==
    { << <<Placeholder, Placeholder>>, v>> :
        v \in { <<Slashed, "a">>, <<"users", "m%65">>, <<"x%20y", "m%2565">>, <<"x%3Fy", "%25">> } }
    \cup { << <<Placeholder, "me">>, <<v, "me">> >> : v \in {"%25", "x%3Fy", "x%20y"} }
    \cup { << <<"users", "me">>, <<"users", "me">> >> }
MCConfs == { {}, {"requireToken", "storedToken"}, {"requireToken", "errorHandler"}, Options }
Symmetry == Permutations(Requests)
=============================================================================
