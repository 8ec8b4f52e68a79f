---------------------------- MODULE MCCatalogue ----------------------------
(* Instances of ProductCatalogue for TLC.  The scene names the requests a   *)
(* behaviour is made of; it is chosen at the start and stays.               *)
EXTENDS ProductCatalogue, TLC

CONSTANTS op1, org1, ws1, b1

VARIABLE scene

\* op1 is an operator without organization, org1 belongs to one.
MCScopeOf == (op1 :> Legacy) @@ (org1 :> ws1)

\* Keyed creations that race, with a restart and a disabled credential.
Creates == {"endpoint", "route", "disable", "restart"}
\* An operator's draft, edited and confirmed by racing requests.
Drafts == {"endpoint", "draft", "edit", "confirm", "disable"}
\* An operator's draft of a source it names, which moves meanwhile.
Named == {"endpoint", "draft", "confirm", "reactor"}
\* A workspace's draft over a Reactor source that moves meanwhile.
Sources == {"endpoint", "binding", "sourced", "confirm", "reactor", "restart"}
\* Generated keys and the credentials that create them.
Keys == {"api-key", "credential", "restart"}

MCScenes == {Creates, Drafts, Named, Sources, Keys}

MCInit == CatalogueInit /\ scene \in MCScenes
\* Bounds: where the Reactor does not move, drafts name it as it is, and
\* drafts over a selected version all have one binding.
SceneBounds ==
    /\ scene = Drafts => \A r \in Route : routes'[r] # Nothing => routes'[r].source = reactor
    /\ \A t \in Thread : op'[t].pc = "source" => op'[t].binding = b1
MCNext == CatalogueNext(scene) /\ SceneBounds /\ UNCHANGED scene
MCSpec == MCInit /\ [][MCNext]_<<catalogueVars, scene>>

MCSymmetry == Permutations(Thread) \cup Permutations(Route) \cup Permutations(ApiKey)
=============================================================================
