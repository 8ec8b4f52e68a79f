------------------------ MODULE MCAuthorizationCloud ------------------------
(* Instances of AuthorizationCloudRunner for TLC.                           *)
EXTENDS AuthorizationCloudRunner, TLC

CONSTANTS w1, w2, k1

\* Incidents and their reminders under two racing processes.
Incidents == [kinds |-> {"required", "valid"}, mailed |-> FALSE, keys |-> {},
              workers |-> {w1, w2}, stops |-> {}, dies |-> {},
              until |-> 2, checks |-> 3, claims |-> 0]
\* Refreshes raced for by two processes, one of them shut down.
Refreshes == [kinds |-> {"required", "24h"}, mailed |-> FALSE, keys |-> {k1},
              workers |-> {w1, w2}, stops |-> {w1}, dies |-> {},
              until |-> 0, checks |-> 1, claims |-> 2]
\* Several refreshes of one resource that keeps changing.
Changes == [kinds |-> {}, mailed |-> FALSE, keys |-> RefreshKey,
            workers |-> {w1, w2}, stops |-> {}, dies |-> {},
            until |-> 0, checks |-> 0, claims |-> 1]
\* One mail, two processes, a shutdown and a crash.
Mails == [kinds |-> {"1h"}, mailed |-> TRUE, keys |-> {},
          workers |-> {w1, w2}, stops |-> {w1}, dies |-> {w2},
          until |-> 0, checks |-> 1, claims |-> 3]
\* One process alone, shut down or restarted at any point.
Alone == [kinds |-> {"missing"}, mailed |-> TRUE, keys |-> {},
          workers |-> {w1}, stops |-> {w1}, dies |-> {w1},
          until |-> 0, checks |-> 1, claims |-> 2]

MCScenes == {Incidents, Refreshes, Changes, Mails, Alone}
MCMailScene == {Mails}
=============================================================================
