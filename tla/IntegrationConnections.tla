----------------------- MODULE IntegrationConnections -----------------------
(* How connections, sync bindings and actor bindings are made (api.py,      *)
(* store.py and the delegation client of clients.py).  A connection's       *)
(* account is listed twice before it is stored, once for the resource and   *)
(* once for the sharing; a cloud connection is stored first and its profile *)
(* registered with Account Center afterwards.  A handler has its process to *)
(* itself from its first read to its answer, so what interleaves with it is *)
(* the other services and the process's own death.                          *)
EXTENDS AccountCenter

CONSTANTS
    RequestKey,   \* idempotency keys
    Link,         \* GitHub account links
    Delegation    \* Platform delegations

\* The references of the host's own cloud accounts.
ASSUME CloudRefs ==
    /\ \A a \in Actor : <<a, "cloud">> \in Profile
    /\ <<"cloud">> \in Profile

VARIABLES
    conns,        \* <<actor, key>> -> its connection, or Nothing
    handler,      \* the request being handled
    sync,         \* connections with a sync binding
    links,        \* link -> its owner, and whether it is active
    delegations,  \* delegation -> its owner and state
    attached      \* actor -> the link and delegation it attached, or Nothing

connectionVars == <<profiles, conns, handler, sync, links, delegations, attached>>

ConnectionKey == Actor \X RequestKey
ListedAccount == {"github", "huggingface", "bilibili", "microsoft_graph", "azure_devops"}
Quiet == [pc |-> "idle"]

ConnectionInit ==
    /\ conns = [x \in ConnectionKey |-> Nothing]
    /\ handler = Quiet
    /\ sync = {}
    /\ links \in [Link -> [owner : Actor, active : BOOLEAN]]
    /\ delegations \in [Delegation -> [owner : Actor, state : {"active", "foreign"}]]
    /\ attached = [a \in Actor |-> Nothing]

\* What the handler's account shows at a moment: that its resource could be
\* connected, and how it is shared.
Evidence(h, rows) ==
    LET row == rows[h.ref]
    IN  IF row # Nothing /\ row.provider = h.provider
             /\ (row.owner = h.actor \/ row.mode = "workspace_operator")
          THEN {row.mode} \cup (IF row.status \in {"healthy", "configured"} /\ "inside" \in row.scope
                                  THEN {"usable"} ELSE {})
          ELSE {}

Working(pc) == handler.pc = pc
Proceed(pc) == handler' = [handler EXCEPT !.pc = pc]
Answered == handler' = Quiet
Others == UNCHANGED <<sync, links, delegations, attached>>

----------------------------------------------------------------------------
(* Connections of a linked account.                                         *)

CreateConnection(a, k, r, provider) ==
    /\ Working("idle")
    /\ LET h == [pc |-> "asked", actor |-> a, key |-> k, ref |-> r, provider |-> provider,
                 mode |-> Nothing, signs |-> {}]
       IN  handler' = [h EXCEPT !.signs = Evidence(h, profiles)]
    /\ UNCHANGED <<profiles, conns>> /\ Others

\* The first listing: the account is the actor's to use, in order, and covers
\* the resource.  Microsoft accounts have the host's scope and are healthy;
\* a Bilibili account is its owner's alone.
DisplayName ==
    LET row == OwnedRow(handler.actor, handler.ref, handler.provider)
    IN  /\ row # Nothing
        /\ row.status \in {"configured", "healthy"}
        /\ "inside" \in row.scope
        /\ handler.provider = "bilibili" => row.mode = "actor_owned"
        /\ handler.provider \in {"microsoft_graph", "azure_devops"} =>
              row.owner = handler.actor /\ row.scope = HostScope /\ row.status = "healthy" /\ ~row.expired

NameConnection ==
    /\ Working("asked")
    /\ \/ DisplayName /\ Proceed("named")
       \/ Answered                        \* refused, or Account Center cannot be reached
    /\ UNCHANGED <<profiles, conns>> /\ Others

\* The second listing: how the connection is shared is what Account Center
\* says, and for Hugging Face what the host says too.
AccessModes ==
    LET row == OwnedRow(handler.actor, handler.ref, handler.provider)
    IN  CASE handler.provider = "bilibili" -> {"actor_owned"}
          [] handler.provider \in {"microsoft_graph", "azure_devops"} ->
                IF DisplayName /\ row.mode = "actor_owned" THEN {"actor_owned"} ELSE {}
          [] OTHER -> IF row = Nothing THEN {} ELSE {row.mode}

ModeConnection ==
    /\ Working("named")
    /\ \/ \E m \in AccessModes : handler' = [handler EXCEPT !.pc = "moded", !.mode = m]
       \/ Answered
    /\ UNCHANGED <<profiles, conns>> /\ Others

\* One row for each key (backed says whether the account showed what it is
\* stored for at some moment of the request).  A repeat gets the stored one; another request under
\* the key, or the same one shared differently, is a conflict.
Stored(h) ==
    LET new == [provider |-> h.provider, ref |-> h.ref, mode |-> h.mode,
                backed |-> {"usable", h.mode} \subseteq h.signs]
    IN  conns' = IF conns[<<h.actor, h.key>>] = Nothing
                   THEN [conns EXCEPT ![<<h.actor, h.key>>] = new] ELSE conns

Replayable(h) ==
    LET prior == conns[<<h.actor, h.key>>]
    IN  prior # Nothing => prior.provider = h.provider /\ prior.ref = h.ref /\ prior.mode = h.mode

\* A shared connection takes an operator.
StoreConnection ==
    /\ Working("moded")
    /\ \/ Replayable(handler) /\ Stored(handler)
       \/ ~Replayable(handler) /\ UNCHANGED conns
       \/ handler.mode = "workspace_operator" /\ UNCHANGED conns
    /\ Answered
    /\ UNCHANGED profiles /\ Others

\* A repository of the App itself, or a host binding without an account: no
\* profile is selected and the connection is the actor's own.
CreateUnlinked(a, k) ==
    LET h == [actor |-> a, key |-> k, ref |-> Nothing, provider |-> "github", mode |-> "actor_owned", signs |-> {}]
    IN  /\ Working("idle")
        /\ Replayable(h) /\ Stored(h)
        /\ UNCHANGED <<profiles, handler>> /\ Others

----------------------------------------------------------------------------
(* Cloud connections, whose account is the host's.                          *)

\* One reference for each actor, or one for the workspace.
CloudProfileRef(a, mode) == IF mode = "actor_owned" THEN <<a, "cloud">> ELSE <<"cloud">>

CloudHandler(a, k, mode) ==
    [pc |-> "stored", actor |-> a, key |-> k, ref |-> CloudProfileRef(a, mode),
     provider |-> "cloud", mode |-> mode, signs |-> {}]

\* Registers the profile of a new connection only.
StoreCloudOnce(a, k, mode) ==
    LET h == CloudHandler(a, k, mode)
    IN  /\ Working("idle")
        /\ Replayable(h)
        /\ Stored(h)
        /\ handler' = IF conns[<<a, k>>] = Nothing THEN h ELSE Quiet
        /\ UNCHANGED profiles /\ Others

\* The stored connection, new or not, goes on to its profile.
StoreCloud(a, k, mode) ==
    LET h == CloudHandler(a, k, mode)
    IN  /\ Working("idle")
        /\ Replayable(h)
        /\ Stored(h)
        /\ handler' = h
        /\ UNCHANGED profiles /\ Others

\* The profile as Account Center lists it: absent, the expected one, or not.
Identity ==
    LET row == IF VisibleTo(handler.actor, handler.ref) THEN profiles[handler.ref] ELSE Nothing
    IN  CASE row = Nothing -> "absent"
          [] row # Nothing /\ row.provider = "cloud" /\ row.mode = handler.mode
             /\ row.status \in {"unknown", "configured", "healthy"} -> "there"
          [] OTHER -> "mismatch"

ReadIdentity ==
    /\ Working("stored")
    /\ \/ Identity = "absent" /\ Proceed("absent")
       \/ Answered                       \* there, another's, or not readable
    /\ UNCHANGED <<profiles, conns>> /\ Others

\* Account Center takes the registration, whether or not its answer arrives.
RegisterIdentity ==
    /\ Working("absent")
    /\ \/ /\ profiles[handler.ref] = Nothing
          /\ profiles' = [profiles EXCEPT ![handler.ref] =
                            [owner |-> handler.actor, provider |-> "cloud", mode |-> handler.mode,
                             status |-> "unknown", scope |-> HostScope, expired |-> FALSE]]
          /\ (Proceed("registered") \/ Answered)
       \/ UNCHANGED profiles /\ Answered
    /\ UNCHANGED conns /\ Others

ReadBackIdentity ==
    /\ Working("registered")
    /\ Answered
    /\ UNCHANGED <<profiles, conns>> /\ Others

----------------------------------------------------------------------------
(* Sync bindings and the members' own authority.                            *)

CreateBinding(a, k) ==
    /\ Working("idle")
    /\ conns[<<a, k>>] # Nothing
    /\ sync' = sync \cup {<<a, k>>}
    /\ UNCHANGED <<profiles, conns, handler, links, delegations, attached>>

\* The link is one the member's own listing shows as active.
AttachLink(a, l, d) ==
    /\ Working("idle")
    /\ sync # {}
    /\ links[l].owner = a /\ links[l].active
    /\ handler' = [pc |-> "attaching", actor |-> a, link |-> l, delegation |-> d]
    /\ UNCHANGED <<profiles, conns>> /\ Others

ValidAnyOwner(a, d) == delegations[d].state = "active"

\* The member's own grant, for this workload and binding, and in force.
ValidBinding(a, d) == delegations[d].owner = a /\ delegations[d].state = "active"

ValidateDelegation ==
    /\ Working("attaching")
    /\ \/ ValidBinding(handler.actor, handler.delegation) /\ Proceed("validated")
       \/ Answered                      \* refused, or Platform cannot be reached
    /\ UNCHANGED <<profiles, conns>> /\ Others

\* A member attaches once; the same references again are the same binding,
\* and others are a conflict.
StoreActorBinding ==
    /\ Working("validated")
    /\ attached' = IF attached[handler.actor] # Nothing THEN attached
                   ELSE [attached EXCEPT ![handler.actor] =
                           [link |-> handler.link, delegation |-> handler.delegation]]
    /\ Answered
    /\ UNCHANGED <<profiles, conns, sync, links, delegations>>

----------------------------------------------------------------------------
(* Everything else.                                                         *)

HandlerDies ==
    /\ ~Working("idle")
    /\ Answered
    /\ UNCHANGED <<profiles, conns>> /\ Others

\* The account moves on, and the handler under way could have seen it.
RowChanges(r) ==
    /\ profiles[r] # Nothing
    /\ \/ \E s \in {"healthy", "configured", "revoked"} : profiles' = [profiles EXCEPT ![r].status = s]
       \/ \E t \in {{"inside"}, {"outside"}} : profiles' = [profiles EXCEPT ![r].scope = t]
       \/ \E m \in AccessMode : /\ profiles[r].provider \in {"github", "huggingface"}
                                /\ profiles' = [profiles EXCEPT ![r].mode = m]
    /\ handler' = IF handler.pc \in {"asked", "named", "moded"}
                    THEN [handler EXCEPT !.signs = @ \cup Evidence(handler, profiles')] ELSE handler
    /\ UNCHANGED conns /\ Others

AuthorityChanges ==
    /\ \/ \E l \in Link : links' = [links EXCEPT ![l].active = FALSE] /\ UNCHANGED delegations
       \/ \E d \in Delegation : /\ delegations[d].state = "active"
                                /\ delegations' = [delegations EXCEPT ![d].state = "revoked"]
                                /\ UNCHANGED links
    /\ UNCHANGED <<profiles, conns, handler, sync, attached>>

HandlerStep ==
    \/ NameConnection \/ ModeConnection \/ StoreConnection
    \/ ReadIdentity \/ RegisterIdentity \/ ReadBackIdentity
    \/ ValidateDelegation \/ StoreActorBinding

ConnectionNext ==
    \/ HandlerStep \/ HandlerDies \/ AuthorityChanges
    \/ \E a \in Actor, k \in RequestKey :
          \/ CreateBinding(a, k) \/ CreateUnlinked(a, k)
          \/ \E r \in Profile, p \in ListedAccount : CreateConnection(a, k, r, p)
          \/ \E m \in AccessMode : StoreCloud(a, k, m)
    \/ \E a \in Actor, l \in Link, d \in Delegation : AttachLink(a, l, d)
    \/ \E r \in Profile : RowChanges(r)

ConnectionSpec ==
    /\ profiles \in [Profile -> Row \cup {Nothing}] /\ ConnectionInit
    /\ [][ConnectionNext]_connectionVars

\* The client of a stored cloud connection repeats its POST until it is
\* answered, handlers run on, and Account Center does not fail every time.
RepeatCloud(a, k) ==
    /\ conns[<<a, k>>] # Nothing /\ conns[<<a, k>>].provider = "cloud"
    /\ StoreCloud(a, k, conns[<<a, k>>].mode)

ConnectionFairness ==
    /\ \A a \in Actor, k \in RequestKey : SF_connectionVars(RepeatCloud(a, k))
    /\ WF_connectionVars(HandlerStep)
    /\ SF_connectionVars(ReadIdentity /\ handler'.pc = "absent")
    /\ SF_connectionVars(RegisterIdentity /\ profiles' # profiles)

----------------------------------------------------------------------------
(* Properties.                                                              *)

ConnectionTypeOK ==
    /\ profiles \in [Profile -> Row \cup {Nothing}]
    /\ \A x \in ConnectionKey : conns[x] # Nothing => conns[x].ref \in Profile \cup {Nothing} /\ conns[x].mode \in AccessMode
    /\ handler.pc \in {"idle", "asked", "named", "moded", "stored", "absent", "registered",
                       "attaching", "validated"}
    /\ sync \subseteq ConnectionKey
    /\ attached \in [Actor -> [link : Link, delegation : Delegation] \cup {Nothing}]

\* A connection is stored only for an account its actor could use, covering
\* the resource, at some moment of the request, and is shared with the
\* workspace or kept to the actor as the account really was at some moment of
\* the request: the two listings may see it change in between.
ConnectionHadProfile ==
    \A x \in ConnectionKey :
        conns[x] # Nothing /\ conns[x].provider # "cloud" /\ conns[x].ref # Nothing => conns[x].backed

\* A member's binding rests on a link and a delegation of that very member,
\* the delegation for this workload and binding: another member's is never
\* taken, however the two are changed between the checks and the write.  That
\* they are still in force at the write is not claimed; a delegation revoked
\* in between is written all the same.
BindingHadAuthority ==
    \A a \in Actor :
        attached[a] # Nothing =>
            /\ links[attached[a].link].owner = a
            /\ delegations[attached[a].delegation].owner = a
            /\ delegations[attached[a].delegation].state # "foreign"

\* What a connection or a binding rests on was there.
ConnectionsBacked == ConnectionHadProfile /\ BindingHadAuthority

\* A cloud connection that was stored before its process died, or before the
\* registration failed, has its profile registered in the end by the repeats
\* of the request that made it.
RegistrationConverges ==
    \A x \in ConnectionKey :
        (conns[x] # Nothing /\ conns[x].provider = "cloud")
            ~> (conns[x] # Nothing /\ conns[x].provider = "cloud" /\ profiles[conns[x].ref] # Nothing)
=============================================================================
