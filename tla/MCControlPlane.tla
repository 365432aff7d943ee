--------------------------- MODULE MCControlPlane ---------------------------
EXTENDS ControlPlane

\* The only management call is the replacement of the policies.
PolicyNext ==
    \/ \E g \in Gateways :
          \/ \E p \in Policies : PutPolicies(g, p)
          \/ Poll(g) \/ Receive(g)
          \/ \E t \in Tasks : Refresh(g, t)
    \/ \E s \in Savers : Save(s)

\* Messages are lost and reads of Redis fail, and no gateway crashes.
LossyNext == Next /\ \A g \in Gateways : UNCHANGED task[g]["boot"]
LossySpec == Init /\ [][LossyNext]_vars /\ Fairness

PolicySpec == Init /\ [][PolicyNext]_vars
=============================================================================
