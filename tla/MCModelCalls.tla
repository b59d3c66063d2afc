---------------------------- MODULE MCModelCalls ----------------------------
(* Model values for the run of ModelCalls.                                 *)
EXTENDS ModelCalls, TLC

CONSTANTS i1, i2

TwoScopes == i1 :> "agent" @@ i2 :> "tenant"

Wide == [enabled |-> TRUE, scopes |-> {"tenant", "agent"}, limit |-> 2]
Narrow == [enabled |-> TRUE, scopes |-> {"tenant"}, limit |-> 1]
Off == [enabled |-> FALSE, scopes |-> {"tenant", "agent"}, limit |-> 2]

ThreePolicies == {Wide, Narrow, Off}
TwoRestrictions == {[scopes |-> {"agent"}, limit |-> 1], [scopes |-> {"tenant", "agent"}, limit |-> 2]}
=============================================================================
