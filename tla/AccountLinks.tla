---------------------------- MODULE AccountLinks ----------------------------
(* How an actor's provider accounts come to be linked (api.py): the link,   *)
(* OAuth, scope, rotation and QR handlers, the Account Center calls they    *)
(* make, and the Bilibili plugin that keeps a QR login until it is scanned. *)
(* The client repeats a request with the same Idempotency-Key when its      *)
(* answer is lost.                                                          *)
EXTENDS AccountCenter

CONSTANTS
    Key,          \* idempotency keys
    SourceRef     \* the profile reference the host fixes for Azure DevOps

\* A reference derived from an actor and a key, and the ones it could take.
ASSUME LinkRefs ==
    /\ (Actor \X Key \X {"same"}) \subseteq Profile
    /\ SourceRef \in Profile

VARIABLES
    session,      \* OAuth sessions waiting for their callback
    flow,         \* <<actor, key>> -> the QR login begun for it, or Nothing
    linking,      \* actor -> its request, or the latest answer it was given
    made          \* the references ever used for a row of their own

linkVars == <<profiles, session, flow, linking, made>>

QrState == {"PENDING", "SCANNED", "LINKED", "EXPIRED", "FAILED"}
ActorBound == {"microsoft_graph", "azure_devops", "bilibili"}
NoRequest == [pc |-> "idle"]

LinkInit ==
    /\ session = {}
    /\ flow = [x \in Actor \X Key |-> Nothing]
    /\ linking = [a \in Actor |-> NoRequest]
    /\ made = {}

----------------------------------------------------------------------------
(* Account Center's side.                                                   *)

\* A reference belongs to the owner and the provider it was first used with.
MayLink(a, r, provider) ==
    profiles[r] # Nothing => profiles[r].owner = a /\ profiles[r].provider = provider

LinkRow(a, r, provider, status) ==
    /\ MayLink(a, r, provider)
    /\ profiles' = [profiles EXCEPT ![r] =
                      [owner |-> a, provider |-> provider, mode |-> "actor_owned",
                       status |-> status, scope |-> HostScope, expired |-> FALSE]]
    /\ made' = made \cup {r}

\* Whether an answer that names r as a's linked profile would be true now.
Holds(a, r, provider, rows) ==
    /\ rows[r] # Nothing
    /\ rows[r].provider = provider
    /\ rows[r].owner = a \/ (rows[r].mode = "workspace_operator" /\ provider \notin ActorBound)
    /\ provider \in ActorBound => rows[r].status = "healthy"

\* Requests under way notice what changes around them.
Noticing(requests) ==
    [a \in Actor |->
        IF requests[a].pc \in {"listed", "answered"}
          THEN [requests[a] EXCEPT !.held = @ \/ Holds(a, requests[a].ref, requests[a].provider, profiles')]
          ELSE requests[a]]

Request(a, pc, r, provider) ==
    [pc |-> pc, ref |-> r, provider |-> provider, held |-> Holds(a, r, provider, profiles)]

Free(a) == linking[a].pc \in {"idle", "shown"}

\* The profile is shown to the actor as linked; or the request ends otherwise.
Show(a, r, provider) ==
    [linking EXCEPT ![a] = [pc |-> "shown", ref |-> r, provider |-> provider,
                            held |-> Holds(a, r, provider, profiles')
                                     \/ (@.pc \in {"listed", "answered"} /\ @.held)]]
Ended(a) == [linking EXCEPT ![a] = NoRequest]

\* The owner unlinks the account, or the vendor's side of it changes.  Only
\* GitHub and Hugging Face rows may be shared with the workspace.
AccountChanges(r) ==
    /\ profiles[r] # Nothing
    /\ \/ profiles' = [profiles EXCEPT ![r] = Nothing]
       \/ \E s \in {"healthy", "revoked"} : profiles' = [profiles EXCEPT ![r].status = s]
       \/ /\ profiles[r].provider \notin ActorBound
          /\ \E m \in AccessMode : profiles' = [profiles EXCEPT ![r].mode = m]
    /\ linking' = Noticing(linking)
    /\ UNCHANGED <<session, flow, made>>

----------------------------------------------------------------------------
(* Direct links, and the rotation of a Hugging Face token.                  *)

ProviderProfileRefFresh(a, k) ==
    IF profiles[<<a, k, "same">>] # Nothing THEN <<a, k, "fresh">> ELSE <<a, k, "same">>

\* Derived from the actor and the key alone, so that a repeat names the same
\* profile.
ProviderProfileRef(a, k) == <<a, k, "same">>

\* The answer is shown when it names the requested profile, and lost otherwise.
LinkAnswer(a, r, provider) ==
    \/ linking' = Noticing(Show(a, r, provider))
    \/ linking' = Noticing(Ended(a))

LinkGitHub(a, k) ==
    /\ Free(a)
    /\ LET r == ProviderProfileRef(a, k)
       IN  LinkRow(a, r, "github", "configured") /\ LinkAnswer(a, r, "github")
    /\ UNCHANGED <<session, flow>>

\* From the secret the host configures for the alias.
LinkHuggingFace(a, k) ==
    /\ Free(a)
    /\ LET r == ProviderProfileRef(a, k)
       IN  LinkRow(a, r, "huggingface", "healthy") /\ LinkAnswer(a, r, "huggingface")
    /\ UNCHANGED <<session, flow>>

\* A token is rotated for a profile of the actor's listing.
RotateList(a, r) ==
    /\ Free(a)
    /\ OwnedRow(a, r, "huggingface") # Nothing
    /\ linking' = [linking EXCEPT ![a] = Request(a, "listed", r, "huggingface")]
    /\ UNCHANGED <<profiles, session, flow, made>>

Rotate(a) ==
    /\ linking[a].pc = "listed"
    /\ LET r == linking[a].ref
       IN  \/ /\ OwnedRow(a, r, "huggingface") # Nothing
              /\ profiles' = [profiles EXCEPT ![r].status = "healthy"]
              /\ LinkAnswer(a, r, "huggingface")
           \/ UNCHANGED profiles /\ linking' = Ended(a)
    /\ UNCHANGED <<session, flow, made>>

----------------------------------------------------------------------------
(* OAuth: a session is begun for the signed actor, and completed by whoever *)
(* brings its state and code back.                                          *)

BeginGraph(a, k) ==
    /\ Free(a)
    /\ session' = session \cup {[owner |-> a, ref |-> ProviderProfileRef(a, k), provider |-> "microsoft_graph"]}
    /\ linking' = Ended(a)
    /\ UNCHANGED <<profiles, flow, made>>

\* The reference is the host's, whoever links it.
BeginAzureDevOps(a) ==
    /\ Free(a)
    /\ session' = session \cup {[owner |-> a, ref |-> SourceRef, provider |-> "azure_devops"]}
    /\ linking' = Ended(a)
    /\ UNCHANGED <<profiles, flow, made>>

\* More of the tenant is asked for by the owner of a healthy Graph profile.
UpgradeGraph(a, r) ==
    /\ Free(a)
    /\ LET row == OwnedRow(a, r, "microsoft_graph")
       IN  row # Nothing /\ row.owner = a /\ row.status = "healthy" /\ ~row.expired
    /\ session' = session \cup {[owner |-> a, ref |-> r, provider |-> "microsoft_graph"]}
    /\ linking' = Ended(a)
    /\ UNCHANGED <<profiles, flow, made>>

CompleteOAuth(s) ==
    /\ s \in session
    /\ session' = session \ {s}
    /\ \/ LinkRow(s.owner, s.ref, s.provider, "healthy")
       \/ UNCHANGED <<profiles, made>>           \* refused, or the reference is taken
    /\ linking' = Noticing(linking)
    /\ UNCHANGED flow

----------------------------------------------------------------------------
(* The Bilibili QR login.                                                   *)

\* The plugin keeps one flow for each idempotency key, for the profile of the
\* request that began it.  A repeat is answered with the flow as it stands,
\* and shown while it is pending or has expired.
BeginQr(a, k) ==
    /\ Free(a)
    /\ flow' = IF flow[<<a, k>>] # Nothing THEN flow
               ELSE [flow EXCEPT ![<<a, k>>] = [state |-> "PENDING", ref |-> ProviderProfileRef(a, k)]]
    /\ linking' = Ended(a)
    /\ UNCHANGED <<profiles, session, made>>

\* The user scans and confirms, or does not.  The plugin writes the profile
\* into Account Center before it reports the flow as linked.
QrMoves(a, k, to) ==
    /\ flow[<<a, k>>] # Nothing
    /\ LET f == flow[<<a, k>>]
       IN  /\ f.state \in {"PENDING", "SCANNED"}
           /\ f.state = "PENDING" => to \in {"SCANNED", "EXPIRED"}
           /\ f.state = "SCANNED" => to \in {"LINKED", "EXPIRED", "FAILED"}
           /\ IF to = "LINKED" THEN LinkRow(a, f.ref, "bilibili", "healthy") ELSE UNCHANGED <<profiles, made>>
    /\ flow' = [flow EXCEPT ![<<a, k>>].state = to]
    /\ linking' = Noticing(linking)
    /\ UNCHANGED session

\* Anyone who may poll and knows a flow may ask for its state.  Every state
\* but LINKED is passed on as it is.
PollQr(b, x) ==
    /\ Free(b)
    /\ flow[x] # Nothing
    /\ linking' = [linking EXCEPT ![b] =
                     IF flow[x].state = "LINKED" THEN Request(b, "answered", flow[x].ref, "bilibili")
                     ELSE NoRequest]
    /\ UNCHANGED <<profiles, session, flow, made>>

QrTrusted(b) ==
    /\ linking[b].pc = "answered"
    /\ UNCHANGED <<profiles, session, flow, made>>
    /\ linking' = Show(b, linking[b].ref, "bilibili")

\* A linked profile is shown as Account Center has it for the polling actor.
QrReadBack(b) ==
    /\ linking[b].pc = "answered"
    /\ UNCHANGED <<profiles, session, flow, made>>
    /\ LET row == OwnedRow(b, linking[b].ref, "bilibili")
       IN  \/ row # Nothing /\ row.status = "healthy" /\ linking' = Show(b, linking[b].ref, "bilibili")
           \/ linking' = Ended(b)

----------------------------------------------------------------------------
LinkStep(a) ==
    \/ \E k \in Key : LinkGitHub(a, k) \/ LinkHuggingFace(a, k) \/ BeginGraph(a, k) \/ BeginQr(a, k)
    \/ \E r \in Profile : RotateList(a, r) \/ UpgradeGraph(a, r)
    \/ BeginAzureDevOps(a)
    \/ \E x \in Actor \X Key : PollQr(a, x)
    \/ Rotate(a) \/ QrReadBack(a)

LinkNext ==
    \/ \E a \in Actor : LinkStep(a)
    \/ \E a \in Actor, k \in Key, to \in QrState : QrMoves(a, k, to)
    \/ \E s \in session : CompleteOAuth(s)
    \/ \E r \in Profile : AccountChanges(r)

LinkSpec ==
    /\ profiles = [r \in Profile |-> Nothing] /\ LinkInit
    /\ [][LinkNext]_linkVars

----------------------------------------------------------------------------
(* Properties.                                                              *)

LinkTypeOK ==
    /\ profiles \in [Profile -> Row \cup {Nothing}]
    /\ session \subseteq [owner : Actor, ref : Profile, provider : ActorBound]
    /\ flow \in [Actor \X Key -> [state : QrState, ref : Profile] \cup {Nothing}]
    /\ \A a \in Actor : linking[a].pc \in {"idle", "listed", "answered", "shown"}
    /\ made \subseteq Profile

\* However often a link request is repeated, whichever of its answers are
\* lost and whatever became of the account meanwhile, one actor's key makes
\* one profile and no second one beside it.
OneProfilePerKey ==
    \A a \in Actor, k \in Key :
        Cardinality({r \in made \ {SourceRef} : r[1] = a /\ r[2] = k}) <= 1

\* A profile is shown to an actor as linked only if it was that actor's (or,
\* for the providers that allow it, shared with the workspace) at some moment
\* of the request, and healthy where a login is confirmed by showing it: not
\* on the word of the plugin, whose flow may be another actor's or whose
\* account may be gone by now.
LinkedIsOwned ==
    \A a \in Actor : linking[a].pc = "shown" => linking[a].held
=============================================================================
