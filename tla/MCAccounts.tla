----------------------------- MODULE MCAccounts -----------------------------
(* A small instance of everything that works on provider accounts.  The     *)
(* parts share Account Center's profiles and nothing else, so each is       *)
(* explored in scenes of its own: scene is chosen at the start, and the     *)
(* variables of the other parts stay as they begin.                         *)
EXTENDS AccountRenewal, ProviderHealth, ConnectorCall, AccountLinks, IntegrationConnections

CONSTANTS
    Scenes,       \* the scenes explored
    a1, a2, k1, p1, r1, source

VARIABLES scene

idle == <<renewalVars, check, accepts, was, call, effect, session, flow, linking, made,
          conns, handler, sync, links, delegations, attached>>
vars == <<profiles, idle, scene>>

MCActor == {a1, a2}
MCOneActor == {a1}
MCProfile == (MCActor \X {k1} \X {"same", "fresh"})
             \cup {<<a, "cloud">> : a \in MCActor} \cup {<<"cloud">>, r1, source}

Healthy(p) ==
    [owner |-> a1, provider |-> p, mode |-> "actor_owned", status |-> "healthy",
     scope |-> HostScope, expired |-> FALSE]

\* The accounts there are at the start: one of a1's, or none.
Accounts ==
    CASE scene = "health" -> {Healthy(p) : p \in ListedProvider}
      [] scene = "call" -> {Healthy(p) : p \in Leased}
      [] scene = "connections" -> {Healthy(p) : p \in ListedAccount}
      [] OTHER -> {Nothing}

MCInit ==
    /\ scene \in Scenes
    /\ \E row \in Accounts : profiles = [r \in Profile |-> IF r = r1 THEN row ELSE Nothing]
    /\ RenewalInit /\ HealthInit /\ CallInit /\ LinkInit /\ ConnectionInit
    /\ scene # "members" =>
          /\ links = [l \in Link |-> [owner |-> a1, active |-> TRUE]]
          /\ delegations = [d \in Delegation |-> [owner |-> a1, state |-> "active"]]

\* Bounds.  Checks and calls are a1's, on its one account.  Of the links, a2
\* has only what a1 shares, the host's own source and whatever flow it learns
\* of, and one OAuth session is open at a time.
LinkBounds ==
    /\ Cardinality(session') <= 1
    /\ \A k \in Key :
          /\ flow'[<<a2, k>>] = Nothing
          /\ profiles'[<<a2, k, "same">>] = Nothing
          /\ \A s \in session' : s.ref # <<a2, k, "same">>

\* The three ways a connection comes about, one at a time.
ConnectionBounds ==
    CASE scene = "connections" ->
           /\ sync' = {} /\ UNCHANGED <<links, delegations>>
           /\ handler'.pc # "stored"
      [] scene = "clouds" ->
           /\ sync' = {} /\ UNCHANGED <<links, delegations>>
           /\ handler'.pc # "asked"
           /\ \A r \in Profile : profiles[r] # Nothing => profiles'[r].status \in {"unknown", "revoked"}
      [] OTHER -> handler'.pc \in {"idle", "attaching", "validated"}

RenewalScene ==
    /\ scene = "renewal" /\ RenewalNext
    /\ UNCHANGED <<profiles, check, accepts, was, call, effect, session, flow, linking, made,
                   conns, handler, sync, links, delegations, attached, scene>>

HealthScene ==
    /\ scene = "health" /\ (HealthStep \/ HealthOf(a1, r1))
    /\ UNCHANGED <<renewalVars, call, effect, session, flow, linking, made,
                   conns, handler, sync, links, delegations, attached, scene>>

CallScene ==
    /\ scene = "call" /\ (CallStep \/ CallOn(a1, r1))
    /\ UNCHANGED <<renewalVars, check, accepts, was, session, flow, linking, made,
                   conns, handler, sync, links, delegations, attached, scene>>

LinkScene ==
    /\ scene = "links" /\ LinkNext /\ LinkBounds
    /\ UNCHANGED <<renewalVars, check, accepts, was, call, effect,
                   conns, handler, sync, links, delegations, attached, scene>>

ConnectionScene ==
    /\ scene \in {"connections", "clouds", "members"} /\ ConnectionNext /\ ConnectionBounds
    /\ UNCHANGED <<renewalVars, check, accepts, was, call, effect, session, flow, linking, made, scene>>

MCNext == RenewalScene \/ HealthScene \/ CallScene \/ LinkScene \/ ConnectionScene

MCSpec == MCInit /\ [][MCNext]_vars

\* One API process goes on serving, and clients go on asking.
FairMCSpec == MCSpec /\ (scene = "renewal" => RenewalFairness(p1)) /\ ConnectionFairness

AccountsTypeOK == RenewalTypeOK /\ HealthTypeOK /\ CallTypeOK /\ LinkTypeOK /\ ConnectionTypeOK
=============================================================================
