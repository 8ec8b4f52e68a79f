------------------------------ MODULE MCLedger ------------------------------
(* Model values of ConnectorLedger are interchangeable within each set.     *)
(* Which requests are made is chosen at the start.                          *)
EXTENDS ConnectorLedger, TLC

CONSTANTS Scenes      \* the mixes of requests explored

VARIABLES scene

mcVars == <<vars, scene>>

\* "mixed": requests of every kind, one message among them, with one row in
\* the ledger at a time; "messages": more messages than the ledger can hold.
InScene ==
    LET asked == {grants'[g].req : g \in Grant} \ {NoRequest}
    IN  CASE scene = "mixed" -> /\ Cardinality(asked \cap Message) <= 1
                                /\ Cardinality(Present(ledger')) <= 1
          [] scene = "messages" -> asked \subseteq Message
          [] OTHER -> TRUE

MCInit == Init /\ scene \in Scenes
MCNext == Next /\ InScene /\ UNCHANGED scene
MCSpec == MCInit /\ [][MCNext]_mcVars

Symmetry == Permutations(Write) \cup Permutations(Message) \cup Permutations(Read)
              \cup Permutations(Grant) \cup Permutations(Handler)
=============================================================================
