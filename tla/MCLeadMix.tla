----------------------------- MODULE MCLeadMix -----------------------------
(***************************************************************************)
(* What may go wrong together: of a race on the lead, a failure (or a       *)
(* restart) and a staff operation, any two but not all three.  Two captures *)
(* are open at once only while nothing has failed and the campaign is live. *)
(***************************************************************************)
EXTENDS MCLeadLifecycle

Open == {w \in Captures : ses[w].pc # "idle"}

Mix ==
    \/ /\ Cardinality(Open) <= 1
       /\ faults = 0 \/ raced = {} \/ staff = 0
    \/ /\ faults = 0 /\ campaign = Live /\ settings = On
       /\ \A w \in Captures : ses[w].req # Subscriber
=============================================================================
