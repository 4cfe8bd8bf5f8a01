--------------------------- MODULE MC_HttpClient ---------------------------
(***************************************************************************)
(* RegistryHttpClient with every method, the default of three attempts, and *)
(* two hosts by https and by plain http.                                    *)
(***************************************************************************)
EXTENDS RegistryHttpClient

CONSTANTS secure, plain    \* the origins of the endpoints that are bound

SomeUpgrades == {<<plain, secure>>}

AllCalls == DOMAIN CallTable

SomeBindings ==
    {[endpoint |-> secure, insecure |-> FALSE], [endpoint |-> secure, insecure |-> TRUE],
     [endpoint |-> plain, insecure |-> TRUE]}

=============================================================================
