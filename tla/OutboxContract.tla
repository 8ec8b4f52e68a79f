--------------------------- MODULE OutboxContract ---------------------------
(***************************************************************************)
(* What the outbox promises about one job, whoever runs it: a write or a   *)
(* message reaches its provider at most once; a terminal answer is true;   *)
(* only a read goes back to the queue; and a lost answer stays open until  *)
(* a reconciling read closes it.  One step may move any number of jobs,    *)
(* each along Move, because a recovery transaction handles all the expired *)
(* leases it finds.                                                        *)
(***************************************************************************)
EXTENDS Naturals

CONSTANT Job

VARIABLES
    st,    \* st[j]: "none", "open", "flying" or a terminal state
    read,  \* read[j]: whether j only reads
    eff    \* eff[j]: how often a provider carried out j

cvars == <<st, read, eff>>

Status == {"none", "open", "flying", "accepted", "succeeded", "failed",
           "unknown"}

CInit ==
    /\ st = [j \in Job |-> "none"]
    /\ read = [j \in Job |-> FALSE]
    /\ eff = [j \in Job |-> 0]

Same(j) == st'[j] = st[j] /\ read'[j] = read[j] /\ eff'[j] = eff[j]

\* Nothing is known of the job yet.
Submit(j) ==
    /\ st[j] = "none"
    /\ st'[j] = "open"
    /\ read'[j] \in BOOLEAN
    /\ eff'[j] = eff[j]

\* The write boundary is persisted before the provider is called.
Depart(j) ==
    /\ st[j] = "open"
    /\ st'[j] = "flying"
    /\ read'[j] = read[j] /\ eff'[j] = eff[j]

\* The provider acts, maybe after the outbox has given the call up, and maybe
\* even after a read has found what the call was meant to bring about.
Act(j) ==
    /\ st[j] \in {"flying", "unknown", "succeeded"}
    /\ ~read[j]
    /\ eff[j] = 0 /\ eff'[j] = 1
    /\ st'[j] = st[j] /\ read'[j] = read[j]

\* Refused before the write boundary, or lost behind the Authority.
Settle(j) ==
    /\ st[j] = "open"
    /\ st'[j] \in {"failed", "unknown"}
    /\ read'[j] = read[j] /\ eff'[j] = eff[j]

\* A write that is acknowledged happened, one that failed did not.
Land(j) ==
    /\ st[j] = "flying"
    /\ st'[j] \in {"accepted", "succeeded", "failed", "unknown"}
    /\ ~read[j] => /\ st'[j] \in {"accepted", "succeeded"} => eff[j] = 1
                   /\ st'[j] = "failed" => eff[j] = 0
    /\ read'[j] = read[j] /\ eff'[j] = eff[j]

\* Only a read is tried again.
Retry(j) ==
    /\ st[j] = "flying"
    /\ read[j]
    /\ st'[j] = "open"
    /\ read'[j] = read[j] /\ eff'[j] = eff[j]

Resolve(j) ==
    /\ st[j] = "unknown"
    /\ st'[j] = "succeeded"
    /\ read'[j] = read[j] /\ eff'[j] = eff[j]

Move(j) == \/ Same(j) \/ Submit(j) \/ Depart(j) \/ Act(j) \/ Settle(j)
           \/ Land(j) \/ Retry(j) \/ Resolve(j)

CNext ==
    /\ st' \in [Job -> Status]
    /\ read' \in [Job -> BOOLEAN]
    /\ eff' \in [Job -> Nat]
    /\ \A j \in Job : Move(j)

CSpec == CInit /\ [][CNext]_cvars
=============================================================================
