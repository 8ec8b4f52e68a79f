---------------------------- MODULE MCDispatcher ----------------------------
(* Instances of IntegrationDispatcher for TLC.  The identifiers of each set  *)
(* are interchangeable, so the sets given as model values are symmetric.     *)
(* What arrives is chosen at the start: work over REST, commands in a WeCom  *)
(* group, or link challenges and notices.                                    *)
EXTENDS IntegrationDispatcher, TLC

CONSTANTS Scenes     \* the kinds of arrival explored

VARIABLES scene

mcVars == <<vars, scene>>

\* Nothing of the other kinds arrives.
InScene ==
    /\ scene # "rest" => \A o \in RestKey : ops'[o] = ops[o]
    /\ scene # "wecom" => \A e \in Event : events'[e] = events[e]
    /\ scene # "messages" => /\ \A e \in Link : events'[e] = events[e]
                             /\ \A n \in Notice : jobs'[NotifyJob(n)] = jobs[NotifyJob(n)]

\* Commands and their replies: three claims of a job, one callback at a time.
Bounded ==
    scene = "wecom" =>
        /\ \A j \in Job : jobs'[j].fence <= 3
        /\ Cardinality({c \in Caller : cb'[c].pc # "idle"}) <= 1

MCInit == Init /\ scene \in Scenes
MCNext == Next /\ InScene /\ UNCHANGED scene

MCSpec == MCInit /\ [][MCNext /\ Bounded]_mcVars

\* Without the bounds, which would stop a process that is due to go on.
FairMCSpec == MCInit /\ [][MCNext]_mcVars /\ Fairness

Symmetry == Permutations(RestKey) \cup Permutations(Event)
              \cup Permutations(Link) \cup Permutations(Notice)
              \cup Permutations(Worker) \cup Permutations(Caller)
=============================================================================
