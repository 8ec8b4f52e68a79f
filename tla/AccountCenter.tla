--------------------------- MODULE AccountCenter ---------------------------
(* The provider profiles Account Center keeps for the actors, as Exchange   *)
(* sees them through AccountCenterClient (clients.py).  Account Center is a *)
(* service of its own: profiles change at any time, between any two calls.  *)
(* Credentials, names and digests are left out; a scope is the set of the   *)
(* targets it covers, and the host's configuration allows one of them.      *)
EXTENDS Naturals, FiniteSets

CONSTANTS
    Actor,        \* verified actors
    Profile,      \* profile references
    Nothing       \* no value

VARIABLES
    profiles      \* profile reference -> its row, or Nothing

AuthStatus == {"healthy", "configured", "unknown", "unavailable", "reauthorization_required", "revoked"}
AccessMode == {"actor_owned", "workspace_operator"}
AccountProvider == {"github", "huggingface", "microsoft_graph", "azure_devops", "bilibili", "cloud", "wecom"}
Target == {"inside", "outside"}
HostScope == {"inside"}

Row == [owner : Actor, provider : AccountProvider, mode : AccessMode, status : AuthStatus,
        scope : SUBSET Target, expired : BOOLEAN]

ASSUME ProfileAssumption == Nothing \notin Row

\* The rows a listing shows to actor a: its own and the workspace's shared ones.
VisibleTo(a, r) ==
    profiles[r] # Nothing /\ (profiles[r].owner = a \/ profiles[r].mode = "workspace_operator")

\* The row a listing shows actor a for a reference and a provider.
OwnedRow(a, r, provider) ==
    IF VisibleTo(a, r) /\ profiles[r].provider = provider THEN profiles[r] ELSE Nothing

NeedsConsent(row) == row.status \in {"reauthorization_required", "revoked"} \/ row.expired

\* A lease is issued for a target of the profile's present scope, while its
\* credential can be used.
Leasable(a, r, target) ==
    /\ VisibleTo(a, r)
    /\ target \in profiles[r].scope
    /\ profiles[r].status \in {"healthy", "configured"} /\ ~profiles[r].expired

\* The owner or the vendor changes a profile behind Exchange's back.
ProfileChanges(r) ==
    /\ profiles[r] # Nothing
    /\ \/ \E s \in AuthStatus : profiles' = [profiles EXCEPT ![r].status = s]
       \/ \E t \in (SUBSET Target) \ {{}} : profiles' = [profiles EXCEPT ![r].scope = t]
       \/ profiles' = [profiles EXCEPT ![r].expired = ~@]
       \/ profiles' = [profiles EXCEPT ![r] = Nothing]
=============================================================================
