--------------------------- MODULE ConnectorCall ---------------------------
(* What happens inside one connector invocation, between its reservation    *)
(* and its receipt (connector_operations.py, the provider adapters of       *)
(* clients.py and authorization_cloud_provider.py, and the handlers of      *)
(* api.py): the request is checked against the host's configuration and the *)
(* account, its grant consumed, a credential leased, the provider called,   *)
(* and the answer, or its absence, turned into the state of the receipt.    *)
(* ConnectorLedger keeps the receipts and takes that state as given.        *)
EXTENDS AccountCenter

VARIABLES
    call,         \* the invocation being handled
    effect        \* TRUE once the provider has carried the operation out

callVars == <<profiles, call, effect>>

Leased == {"github", "huggingface", "microsoft_graph", "azure_devops", "bilibili"}
Unleased == {"cloud", "computer", "msteams"}

\* The kinds of operation whose answers are read differently.
KindsOf(provider) ==
    CASE provider = "azure_devops" -> {"read"}
      [] provider = "msteams" -> {"write"}
      [] provider = "microsoft_graph" -> {"read", "write", "mail", "mail_send"}
      [] provider = "computer" -> {"read", "write", "command"}
      [] OTHER -> {"read", "write"}

\* The answers of a provider.  No answer; something else than one result; an
\* error by its class.  An error may say that its outcome is unknown: as its
\* outcome ("unsure"), along with an expired authorization, or only as its
\* state ("unresolved").  A result by the state it names: a success with its
\* readback, a success without, a command that exits with an error, no state
\* ("bare"), a state no list of Exchange's has ("named"), a success of another
\* request or resource ("other"), no state but an error ("flagged"), and a
\* result with credential material.
Unsettled == {"unsure", "unsure_expired", "unresolved"}
Errors == {"refused", "expired", "throttled", "broken"} \cup Unsettled
Wire == {"lost", "garbled", "ok", "unproved", "bare", "accepted", "accepted_bare", "failed",
         "unknown", "exit", "named", "other", "flagged", "unsafe"} \cup Errors

\* Which of them a provider that has, or has not, carried out the operation
\* may give.  A success Bilibili reports is a claim until it is read back.
Truthful(provider, wire, done) ==
    CASE wire \in {"refused", "expired", "throttled", "failed"} -> ~done
      [] wire = "ok" -> done
      [] wire = "unproved" -> done \/ provider = "bilibili"
      [] OTHER -> TRUE

NoCall == [pc |-> "idle"]

CallInit ==
    /\ call = NoCall
    /\ effect = FALSE

Written == call.kind # "read"
Goto(pc) == call' = [call EXCEPT !.pc = pc]
Receipt(state) == call' = [call EXCEPT !.pc = "done", !.receipt = state]

----------------------------------------------------------------------------
(* Before anything is sent.  A refusal here is an HTTP problem and leaves   *)
(* no receipt.                                                              *)

\* The connection's own repository, from its arguments.
GitHubTarget(target) == target \in HostScope

\* The repository the connection selects, in the host's scope with the
\* permission the operation needs; the vendor CLI never.
HuggingFaceTarget(target) == target \in HostScope

GraphScopeUnchecked(a, r, target) ==
    LET row == OwnedRow(a, r, "microsoft_graph")
    IN  /\ row # Nothing /\ row.owner = a
        /\ ~NeedsConsent(row) /\ row.status = "healthy"
        /\ target \in row.scope

\* One row of the actor's own, with the very scope the host has configured,
\* authorized now; the target comes from that scope.
GraphScope(a, r, target) ==
    LET row == OwnedRow(a, r, "microsoft_graph")
    IN  /\ row # Nothing /\ row.owner = a
        /\ row.scope = HostScope
        /\ ~NeedsConsent(row) /\ row.status = "healthy"
        /\ target \in row.scope

\* The same for the one source the connection selects.
AzureDevOpsScope(a, r, target) ==
    LET row == OwnedRow(a, r, "azure_devops")
    IN  /\ row # Nothing /\ row.owner = a
        /\ ~NeedsConsent(row) /\ row.status = "healthy"
        /\ row.scope = HostScope
        /\ target \in row.scope

\* Bilibili's arguments are checked by their form and a write needs the
\* host's key; a cloud target must be a typed object, which the plugin checks;
\* the computer's paths and commands must be in the host's workspace.
BilibiliArguments(keyed, kind) == kind = "read" \/ keyed
CloudTarget(target) == TRUE
ComputerTarget(target) == target \in HostScope
TeamsTarget(target) == target \in HostScope

Admissible(a, r, provider, kind, target, keyed) ==
    CASE provider = "github" -> GitHubTarget(target)
      [] provider = "huggingface" -> HuggingFaceTarget(target)
      [] provider = "microsoft_graph" -> GraphScope(a, r, target)
      [] provider = "azure_devops" -> AzureDevOpsScope(a, r, target)
      [] provider = "bilibili" -> BilibiliArguments(keyed, kind)
      [] provider = "cloud" -> CloudTarget(target)
      [] provider = "computer" -> ComputerTarget(target)
      [] provider = "msteams" -> TeamsTarget(target)

\* The request is checked, then reserved in the ledger.
Prepare(a, r, provider, kind, target, keyed) ==
    /\ call.pc \in {"idle", "done"}
    /\ kind \in KindsOf(provider)
    /\ Admissible(a, r, provider, kind, target, keyed)
    /\ call' = [pc |-> "reserved", actor |-> a, ref |-> r, provider |-> provider, kind |-> kind,
                target |-> target, lease |-> Nothing, answer |-> Nothing, result |-> Nothing,
                receipt |-> Nothing]
    /\ effect' = FALSE
    /\ UNCHANGED profiles

\* A grant that cannot be consumed discards the reservation.
ConsumeGrant ==
    /\ call.pc = "reserved"
    /\ \/ Goto("granted")
       \/ call' = NoCall
    /\ UNCHANGED <<profiles, effect>>

----------------------------------------------------------------------------
(* The credential lease.                                                    *)

\* A call that never reached the provider is told from one that did only by
\* the class of its exception.
ExceptionDefinite(write, class) == "FAILED"

\* A typed refusal is definite; a write that ended in any other exception may
\* have been carried out.
ExceptionState(write, class) == IF write /\ class # "4xx" THEN "UNKNOWN_RESULT" ELSE "FAILED"

ExceptionResult(class) ==
    [state |-> ExceptionState(Written, class), ref |-> FALSE, proof |-> FALSE, error |-> TRUE]

Fail(class) == call' = [call EXCEPT !.pc = "answered", !.result = ExceptionResult(class)]

\* The lease must repeat the profile, the operation and the target asked for.
LeaseMatches(lease) == lease = call.target

\* Account Center leases the target, refuses it, is away, or answers with
\* something else.
LeaseCredential ==
    /\ call.pc = "granted"
    /\ call.provider \in Leased
    /\ \/ ~Leasable(call.actor, call.ref, call.target) /\ Fail("4xx")
       \/ \E class \in {"5xx", "raised"} : Fail(class)
       \/ /\ Leasable(call.actor, call.ref, call.target)
          /\ \E lease \in Target :
               IF LeaseMatches(lease)
                 THEN call' = [call EXCEPT !.pc = "leased", !.lease = lease]
                 ELSE Fail("raised")
    /\ UNCHANGED <<profiles, effect>>

\* The others run under the host's own identity.
NoLease ==
    /\ call.pc = "granted"
    /\ call.provider \in Unleased
    /\ Goto("leased")
    /\ UNCHANGED <<profiles, effect>>

----------------------------------------------------------------------------
(* The call.                                                                *)

\* Before it signs, the adapter checks its binding again: Graph's plans and
\* sites once more against the host's, Bilibili's plugin by its identity.
Signable ==
    call.provider = "microsoft_graph" /\ call.kind \in {"read", "write"} => call.target \in HostScope

\* What _raise_provider_error makes of an error's class.
ProviderError(wire) == IF wire \in {"refused", "expired", "throttled"} THEN "4xx" ELSE "5xx"

GitHubAnswer(wire) ==
    CASE wire = "lost" -> {"5xx"}
      [] wire = "garbled" -> {"5xx", "raised"}
      [] wire \in Errors -> {ProviderError(wire)}
      [] OTHER -> {"result"}

\* The computer's results have a fixed form, with an exit code or a length;
\* an error inside a result is one of the runner, whatever it says.
ComputerAnswer(wire) ==
    CASE wire \in Errors \ Unsettled -> {ProviderError(wire), "5xx"}
      [] wire \in {"ok", "exit", "other", "unsafe"} -> {"result"}
      [] OTHER -> {"5xx"}

\* Cloud and Bilibili: an exception is no proof that nothing was sent.
SignedAnswer(wire) ==
    CASE wire \in {"lost", "garbled"} -> {"raised"}
      [] wire \in Errors -> {ProviderError(wire)}
      [] OTHER -> {"result"}

\* An error of the protocol itself has no class here.  Only an error's outcome
\* is asked whether it is unknown, never its state: an unresolved error is of
\* the class its code names.
HuggingFaceAnswer(wire) ==
    CASE wire \in {"lost", "garbled"} -> {"raised"}
      [] wire \in {"unsure", "unsure_expired"} -> {"5xx"}
      [] wire = "unresolved" -> {"4xx", "5xx"}
      [] wire \in Errors \ Unsettled -> {ProviderError(wire), "raised"}
      [] OTHER -> {"result"}

\* A mail write is confirmed, accepted or unknown, about the message asked
\* for, if it asked for one; anything else is an unknown outcome.
MailAnswer(kind, wire) ==
    CASE wire \in {"ok", "unknown", "unsafe"} -> {"result"}
      [] kind = "mail" /\ wire = "other" -> {"result", "5xx"}
      [] OTHER -> {"5xx"}

\* An expired authorization is told before an unknown outcome.
GraphAnswer(kind, wire) ==
    IF wire \in {"lost", "garbled"} THEN {IF kind = "read" THEN "raised" ELSE "5xx"}
    ELSE IF wire = "unsure_expired" THEN {"4xx"}
    ELSE IF wire \in Errors THEN {ProviderError(wire)}
    ELSE IF kind \in {"mail", "mail_send"} THEN MailAnswer(kind, wire)
    ELSE {"result"}

AzureDevOpsAnswer(wire) ==
    CASE wire \in {"lost", "garbled"} -> {"raised"}
      [] wire \in Errors -> {ProviderError(wire), "raised"}
      [] OTHER -> {"result"}

Decode(provider, kind, wire) ==
    CASE provider = "github" -> GitHubAnswer(wire)
      [] provider = "computer" -> ComputerAnswer(wire)
      [] provider \in {"cloud", "bilibili"} -> SignedAnswer(wire)
      [] provider = "huggingface" -> HuggingFaceAnswer(wire)
      [] provider = "microsoft_graph" -> GraphAnswer(kind, wire)
      [] provider = "azure_devops" -> AzureDevOpsAnswer(wire)

\* The state a result names; no resource it names is compared here.
NamedState(kind, wire) ==
    CASE wire \in {"ok", "unproved", "other"} -> IF kind = "mail_send" THEN "ACCEPTED" ELSE "SUCCEEDED"
      [] wire \in {"accepted", "accepted_bare"} -> "PENDING"
      [] wire = "failed" -> "FAILED"
      [] wire = "unknown" -> "UNKNOWN"
      [] wire = "exit" -> "COMMAND_FAILED"
      [] wire = "named" -> "unlisted"
      [] OTHER -> "none"

ProviderResult(kind, wire) ==
    [state |-> NamedState(kind, wire), ref |-> wire \in {"ok", "accepted"}, proof |-> wire = "ok",
     error |-> wire \in {"exit", "flagged"}]

\* A result with credential material, or out of bounds, is refused whole.  The
\* answer itself is remembered for the properties; the code keeps its result.
Answer(wire) ==
    \E class \in Decode(call.provider, call.kind, wire) :
        call' = [call EXCEPT !.pc = "answered", !.answer = wire,
                             !.result = IF class # "result" THEN ExceptionResult(class)
                                        ELSE IF wire = "unsafe" THEN ExceptionResult("5xx")
                                        ELSE ProviderResult(call.kind, wire)]

\* An exit code is the answer of a command only.
Possible(wire) == wire = "exit" => call.kind = "command"

Send ==
    /\ call.pc = "leased"
    /\ call.provider # "msteams"
    /\ \/ /\ (~Signable \/ call.provider = "bilibili")
          /\ Fail("raised") /\ UNCHANGED effect
       \/ /\ Signable
          /\ \E done \in BOOLEAN, wire \in {w \in Wire : Possible(w)} :
               /\ Truthful(call.provider, wire, done)
               /\ effect' = done
               /\ Answer(wire)
    /\ UNCHANGED profiles

----------------------------------------------------------------------------
(* The receipt.                                                             *)

\* A write is pending only when there is something to ask for later, and
\* verified by any state that is not on a list of others; Bilibili's only by
\* success with its readback.
OperationResponse(provider, kind, res) ==
    LET write == kind # "read"
    IN  IF write /\ provider = "bilibili"
          THEN IF res.state = "SUCCEEDED" /\ res.ref /\ res.proof THEN "verified"
               ELSE IF res.state = "FAILED" THEN "failed" ELSE "uncertain"
        ELSE IF write /\ res.state \in {"UNKNOWN", "UNKNOWN_RESULT"} THEN "uncertain"
        ELSE IF kind = "mail_send" /\ res.state = "ACCEPTED" THEN "verified"
        ELSE IF res.state = "COMMAND_FAILED" THEN "failed"
        ELSE IF write /\ res.state \in {"PENDING", "ACCEPTED"} THEN IF res.ref THEN "pending" ELSE "uncertain"
        ELSE IF res.error \/ (write /\ res.state = "FAILED") THEN "failed"
        ELSE IF write /\ res.state = "none" THEN "uncertain"
        ELSE "verified"

Store ==
    /\ call.pc = "answered"
    /\ LET outcome == OperationResponse(call.provider, call.kind, call.result)
       IN  Receipt(CASE outcome = "verified" -> "SUCCEEDED" [] outcome = "pending" -> "PENDING"
                     [] outcome = "uncertain" -> "UNKNOWN_RESULT" [] outcome = "failed" -> "FAILED")
    /\ UNCHANGED <<profiles, effect>>

\* A Teams reply has a handler of its own.  A refusal is definite, the reason
\* of a refusal beside an accepted reply too; the status RATE_LIMITED arrives
\* under its protobuf name and is stored as REJECTED.
TeamsAnswer(wire) ==
    CASE wire \in {"refused", "expired", "failed", "throttled", "flagged"} -> "REJECTED"
      [] wire \in {"ok", "other"} -> "SUCCEEDED"
      [] OTHER -> "UNKNOWN_RESULT"

TeamsReply ==
    /\ call.pc = "leased"
    /\ call.provider = "msteams"
    /\ \E done \in BOOLEAN, wire \in Wire \ {"exit"} :
         /\ Truthful("msteams", wire, done)
         /\ effect' = done
         /\ call' = [call EXCEPT !.pc = "done", !.answer = wire, !.receipt = TeamsAnswer(wire)]
    /\ UNCHANGED profiles

CallStep == ConsumeGrant \/ LeaseCredential \/ NoLease \/ Send \/ Store \/ TeamsReply

\* Requests of actor a on account r, and what happens to the account.
CallOn(a, r) ==
    \/ \E p \in Leased \cup Unleased, t \in Target, keyed \in BOOLEAN :
         \E kind \in KindsOf(p) : Prepare(a, r, p, kind, t, keyed)
    \/ ProfileChanges(r) /\ UNCHANGED <<call, effect>>

CallNext == CallStep \/ \E a \in Actor, r \in Profile : CallOn(a, r)

CallSpec ==
    /\ profiles \in [Profile -> Row \cup {Nothing}] /\ CallInit
    /\ [][CallNext]_callVars

----------------------------------------------------------------------------
(* Properties.                                                              *)

ReceiptState == {"SUCCEEDED", "PENDING", "UNKNOWN_RESULT", "FAILED", "REJECTED"}

CallTypeOK ==
    /\ effect \in BOOLEAN
    /\ call.pc \in {"idle", "reserved", "granted", "leased", "answered", "done"}
    /\ call.pc = "done" => call.receipt \in ReceiptState

\* The answers the code takes for a definite failure although they leave open
\* whether the write was made: a result or a Teams reply that carries an error
\* beside no failure, an unresolved error of Hugging Face, and an expired
\* authorization of Graph that says its outcome is unknown.
TakenAsFailure ==
    \/ call.answer = "flagged"
    \/ call.provider = "huggingface" /\ call.answer = "unresolved"
    \/ call.provider = "microsoft_graph" /\ call.answer = "unsure_expired"

\* And for a success: a state outside every list, and a success of another
\* request, where nothing is compared.  Bilibili's readback and the message of
\* a mail send are, so that neither is ever taken on trust.
TakenOnTrust ==
    /\ call.provider # "bilibili" /\ call.kind # "mail_send"
    /\ \/ call.answer = "other"
       \/ call.answer = "named" /\ call.provider \in {"github", "huggingface", "cloud", "microsoft_graph"}

\* A write whose receipt says it failed or was refused was not carried out, so
\* the caller may make it again: every lost, late, broken, unsafe or unreadable
\* answer of every adapter ends as unknown, and every unsure one but those.
\* (A command that exits with an error has run: its receipt speaks of its exit
\* code.)
FailedMeansNotDone ==
    call.pc = "done" /\ call.receipt \in {"FAILED", "REJECTED"} /\ call.kind \notin {"read", "command"} =>
        ~effect \/ TakenAsFailure

\* A write whose receipt says it succeeded was carried out, unless the answer
\* was taken on trust: no mere claim of Bilibili's, no bare result, no request
\* merely accepted and no lost answer is read as a success.
VerifiedMeansDone ==
    call.pc = "done" /\ call.receipt = "SUCCEEDED" /\ Written => effect \/ TakenOnTrust

\* The definite receipts of a write are true of it, but for the answers the
\* code does not tell apart.
ReceiptIsTrue == FailedMeansNotDone /\ VerifiedMeansDone

\* Nothing is done with an account outside what the host configured, nor
\* under a lease for something else, whatever the account has come to allow
\* between the check and the call.  (Bilibili has no host scope; its lease is
\* compared all the same.)
DoneUnderLease ==
    effect /\ call.pc \in {"answered", "done"} /\ call.provider \in Leased =>
        /\ call.lease = call.target
        /\ call.provider # "bilibili" => call.target \in HostScope
=============================================================================
