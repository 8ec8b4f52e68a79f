--------------------------- MODULE ProviderHealth ---------------------------
(* How one authorization check of a connection is made                      *)
(* (authorization_cloud_provider.py): what Account Center lists, what a     *)
(* leased probe of the vendor answers, and the state the two are turned     *)
(* into.  The account may change between the reads of one check.  What the  *)
(* monitor does with the record is in AuthorizationCloudRunner.             *)
EXTENDS AccountCenter

VARIABLES
    check,        \* the check being made
    accepts,      \* TRUE while the vendor accepts the credential
    was           \* the signs the account has shown since the check began, and
                  \* whether Account Center's listing could not be read

healthVars == <<profiles, check, accepts, was>>

AuthorizationState == {"VALID", "REAUTHORIZATION_REQUIRED", "PERMISSION_DENIED", "UNAVAILABLE", "UNKNOWN"}
ListedProvider == {"microsoft_graph", "azure_devops", "huggingface"}
VendorProvider == {"cloud", "wecom"}

ASSUME HealthAssumption == Nothing \notin AuthorizationState

NoCheck == [pc |-> "idle"]

\* What an account row and its vendor show at a moment, to the check c.
Theirs(c, row) == row # Nothing /\ row.provider = c.provider /\ row.owner = c.actor
Signs(c, row, ok) ==
    {sign \in {"in order", "accepted", "refused", "consent needed"} :
        CASE sign = "in order" -> row # Nothing /\ row.status = "healthy" /\ row.scope = HostScope
          [] sign = "accepted" -> ok
          [] sign = "refused" -> ~ok
          [] sign = "consent needed" -> ~Theirs(c, row) \/ NeedsConsent(row)}

HealthInit ==
    /\ check = NoCheck
    /\ accepts = TRUE
    /\ was = {}

\* Every change is remembered while a check is being made.
Remember ==
    was' = IF check.pc \in {"idle", "done"} THEN was
           ELSE was \cup Signs(check, profiles'[check.ref], accepts')

AccountMoves(r) ==
    /\ \/ ProfileChanges(r) /\ UNCHANGED accepts
       \/ accepts' = ~accepts /\ UNCHANGED profiles
    /\ Remember
    /\ UNCHANGED check

\* The check ends with a record, or with an exception and none.
Done(state) == check' = [check EXCEPT !.pc = "done", !.state = state]
Raise == Done(Nothing)

\* The connection and its owner's current Platform grant are looked up first.
\* Without them the check ends before any provider is asked.
BeginCheck(a, r, provider) ==
    /\ check.pc \in {"idle", "done"}
    /\ \/ /\ check' = [pc |-> "begun", actor |-> a, ref |-> r, provider |-> provider, state |-> Nothing]
          /\ was' = Signs(check', profiles[r], accepts)
       \/ check' = NoCheck /\ was' = {}
    /\ UNCHANGED <<profiles, accepts>>

----------------------------------------------------------------------------
(* Account Center's own view: Microsoft Graph and Azure DevOps.             *)

AccountStateOptimistic(row) ==
    CASE row.status \in {"reauthorization_required", "revoked"} -> "REAUTHORIZATION_REQUIRED"
      [] row.status = "unavailable" -> "UNAVAILABLE"
      [] OTHER -> "VALID"

\* The status of a row, an expired refresh token counting as one that needs
\* consent.
AccountState(row) ==
    IF row.expired THEN "REAUTHORIZATION_REQUIRED"
    ELSE CASE row.status = "healthy" -> "VALID"
      [] row.status \in {"reauthorization_required", "revoked"} -> "REAUTHORIZATION_REQUIRED"
      [] row.status = "unavailable" -> "UNAVAILABLE"
      [] OTHER -> "UNKNOWN"

\* A row that is missing or whose scope is not the host's is no observation.
GraphHealth ==
    /\ check.pc = "begun" /\ check.provider = "microsoft_graph"
    /\ LET row == OwnedRow(check.actor, check.ref, "microsoft_graph")
       IN  \/ row # Nothing /\ row.scope = HostScope /\ Done(AccountState(row))
           \/ Raise                  \* one of these, or Account Center cannot be reached
    /\ UNCHANGED <<profiles, accepts, was>>

AzureDevOpsHealth ==
    /\ check.pc = "begun" /\ check.provider = "azure_devops"
    /\ LET row == OwnedRow(check.actor, check.ref, "azure_devops")
       IN  \/ row # Nothing /\ row.scope = HostScope /\ Done(AccountState(row))
           \/ Raise
    /\ UNCHANGED <<profiles, accepts, was>>

----------------------------------------------------------------------------
(* The vendor's own view: cloud management and WeCom.                       *)

\* The two states a cloud plugin reports.  One that sees the credential
\* refused says so; what it cannot find out is UNKNOWN.
CloudReport ==
    [authentication : IF accepts THEN {"VALID", "UNKNOWN"} ELSE {"INVALID", "MISSING", "UNKNOWN"},
     authorization : IF accepts THEN {"VALID", "PERMISSION_DENIED", "UNKNOWN"}
                     ELSE {"REAUTHORIZATION_REQUIRED", "UNKNOWN"}]

CloudState(report) ==
    IF report.authorization = "PERMISSION_DENIED" THEN "PERMISSION_DENIED"
    ELSE IF report.authorization = "REAUTHORIZATION_REQUIRED" \/ report.authentication = "INVALID"
      THEN "REAUTHORIZATION_REQUIRED"
    ELSE IF report.authorization = "VALID" /\ report.authentication = "VALID" THEN "VALID"
    ELSE "UNKNOWN"

CloudHealth ==
    /\ check.pc = "begun" /\ check.provider = "cloud"
    /\ \/ \E report \in CloudReport : Done(CloudState(report))
       \/ Raise                                           \* lost, malformed or about another profile
    /\ UNCHANGED <<profiles, accepts, was>>

\* WeCom's plugin answers with the state itself, for its own reference.
DirectHealth ==
    /\ check.pc = "begun" /\ check.provider = "wecom"
    /\ \/ Done(IF accepts THEN "VALID" ELSE "REAUTHORIZATION_REQUIRED")
       \/ Done("UNKNOWN")
       \/ Raise
    /\ UNCHANGED <<profiles, accepts, was>>

----------------------------------------------------------------------------
(* Hugging Face: listed, leased, probed and listed again.                   *)

\* A listing without its profiles, or whose row cannot be read, shows no
\* account, whatever the account is like.
HuggingFaceUnlisted ==
    /\ check.pc = "begun" /\ check.provider = "huggingface"
    /\ Done("REAUTHORIZATION_REQUIRED")
    /\ was' = was \cup {"unlisted"}
    /\ UNCHANGED <<profiles, accepts>>

HuggingFaceList ==
    /\ check.pc = "begun" /\ check.provider = "huggingface"
    /\ LET row == OwnedRow(check.actor, check.ref, "huggingface")
       IN  \/ Done("UNAVAILABLE")                         \* Account Center cannot be reached
           \/ row = Nothing /\ Done("REAUTHORIZATION_REQUIRED")
           \/ /\ row # Nothing
              /\ \/ row.scope # HostScope /\ Done("UNKNOWN")
                 \/ /\ row.scope = HostScope
                    /\ \/ /\ row.status \in {"reauthorization_required", "revoked"}
                          /\ Done("REAUTHORIZATION_REQUIRED")
                       \/ row.status = "unavailable" /\ Done("UNAVAILABLE")
                       \/ row.status \in {"unknown", "configured"} /\ Done("UNKNOWN")
                       \/ /\ row.status = "healthy"
                          /\ check' = [check EXCEPT !.pc = "listed"]
    /\ UNCHANGED <<profiles, accepts, was>>

\* The probe runs under a lease for the connection's own repository, and
\* under a principal of the moment.
HuggingFaceLease ==
    /\ check.pc = "listed"
    /\ \/ Done("UNKNOWN")                                 \* no current authority for the owner
       \/ Done("UNAVAILABLE")                             \* the lease call fails
       \/ ~Leasable(check.actor, check.ref, "inside") /\ Done("PERMISSION_DENIED")
       \/ Leasable(check.actor, check.ref, "inside") /\ check' = [check EXCEPT !.pc = "leased"]
    /\ UNCHANGED <<profiles, accepts, was>>

\* Only the vendor's own refusal asks for consent; a probe that fails in any
\* other way is an outage, and an answer about another repository is nothing.
HuggingFaceProbe ==
    /\ check.pc = "leased"
    /\ \/ ~accepts /\ Done("REAUTHORIZATION_REQUIRED")
       \/ accepts /\ Done("PERMISSION_DENIED")
       \/ Done("UNAVAILABLE")
       \/ accepts /\ Done("UNKNOWN")
       \/ accepts /\ check' = [check EXCEPT !.pc = "probed"]
    /\ UNCHANGED <<profiles, accepts, was>>

\* The second listing is for the revision and the expiry only, and may fail.
HuggingFaceRelist ==
    /\ check.pc = "probed"
    /\ Done("VALID")
    /\ UNCHANGED <<profiles, accepts, was>>

HealthStep ==
    \/ GraphHealth \/ AzureDevOpsHealth \/ CloudHealth \/ DirectHealth
    \/ HuggingFaceList \/ HuggingFaceUnlisted \/ HuggingFaceLease \/ HuggingFaceProbe \/ HuggingFaceRelist

\* Checks actor a asks for of account r, and what happens to the account.
HealthOf(a, r) ==
    \/ \E p \in ListedProvider \cup VendorProvider : BeginCheck(a, r, p)
    \/ AccountMoves(r)

HealthNext == HealthStep \/ \E a \in Actor, r \in Profile : HealthOf(a, r)

HealthSpec ==
    /\ profiles \in [Profile -> Row \cup {Nothing}] /\ HealthInit
    /\ [][HealthNext]_healthVars

----------------------------------------------------------------------------
(* Properties.                                                              *)

HealthTypeOK ==
    /\ profiles \in [Profile -> Row \cup {Nothing}]
    /\ check.pc \in {"idle", "begun", "listed", "leased", "probed", "done"}
    /\ check.pc = "done" => check.state \in AuthorizationState \cup {Nothing}

\* A connection is reported VALID only when the account was in order at some
\* moment of the check: healthy and in the host's scope for the providers
\* Account Center vouches for, and with a credential the vendor accepts for
\* those it is asked of.  No outage, mismatch or unknown status ends there.
ValidWasHealthy ==
    check.pc = "done" /\ check.state = "VALID" =>
        /\ check.provider \in ListedProvider => "in order" \in was
        /\ check.provider \notin {"microsoft_graph", "azure_devops"} => "accepted" \in was

\* The owner is asked to authorize again only when that was needed at some
\* moment of the check, the credential being refused, expired, revoked or gone;
\* only Hugging Face's check also asks it of an account in order, when it
\* cannot read the listing.
ReauthWasNeeded ==
    check.pc = "done" /\ check.state = "REAUTHORIZATION_REQUIRED" =>
        \/ "refused" \in was
        \/ check.provider \in ListedProvider /\ "consent needed" \in was
        \/ check.provider = "huggingface" /\ "unlisted" \in was

\* Both definite verdicts of a check, although its reads see the account at
\* different moments, were true of one of them, but for a listing that could
\* not be read.
VerdictWasTrue == ValidWasHealthy /\ ReauthWasNeeded
=============================================================================
