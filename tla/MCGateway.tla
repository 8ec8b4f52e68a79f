----------------------------- MODULE MCGateway -----------------------------
(* Instances of ModelGateway for TLC: a catalogue with one served endpoint, *)
(* one route and one key.  The scene is chosen at the start: one request of *)
(* any shape while the key is revoked, the endpoint disabled or the process *)
(* dies, or two that may have one request id between them.                  *)
EXTENDS ModelGateway, TLC

CONSTANTS op1

VARIABLE scene

MCScopeOf == op1 :> Legacy

\* What create_endpoint, create_route and create_api_key left behind.
MCInit ==
    /\ GatewayInit
    /\ scene \in {"alone", "pair"}
    /\ endpoints = [e \in Endpoint |-> [state |-> "ACTIVE", version |-> 1]]
    /\ routes = [r \in Route |-> [state |-> "ACTIVE", endpoint |-> CHOOSE e \in Endpoint : TRUE,
                    scope |-> Legacy, by |-> Nothing, binding |-> CHOOSE b \in Binding : TRUE,
                    version |-> 1, source |-> [version |-> 1, digest |-> 1]]]
    /\ apiKeys = [a \in ApiKey |-> [by |-> op1, revoked |-> FALSE, expired |-> FALSE]]
    /\ idempotency = {} /\ enabled = Principal /\ replies = {}
    /\ config = [endpoint |-> {}, source |-> {}, bindings |-> Binding]
    /\ reactor = [version |-> 1, digest |-> 1] /\ reactorPast = {reactor}
    /\ op = [t \in Thread |-> Idle]
    /\ written = [r \in Route |-> routes[r].binding]

\* The control plane beside the requests.
MCControl ==
    /\ \/ \E t \in Thread, e \in Endpoint : ReadToDisable(t, op1, e) \/ SaveDisabled(t)
       \/ \E a \in ApiKey : RevokeApiKey(op1, a)
    /\ UNCHANGED gatewayVars

Arrived(r) == req[r] # Fresh

\* Which requests a scene is made of.
Staged(r) ==
    \/ scene = "alone" /\ \A q \in Request : ~Arrived(q)
    \/ scene = "pair" /\ req'[r].via = "asgi" /\ req'[r].form # "chat"

MCNext ==
    /\ GatewayNext \/ (scene = "alone" /\ (MCControl \/ ProcessDies \/ \E c \in Config : ServerRestarts(c)))
    /\ \A r \in Request : ~Arrived(r) /\ Arrived(r)' => Staged(r)
    /\ UNCHANGED scene

MCSpec == MCInit /\ [][MCNext]_<<vars, scene>> /\ GatewayFairness
=============================================================================
