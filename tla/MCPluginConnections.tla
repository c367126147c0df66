------------------------ MODULE MCPluginConnections ------------------------
(* Instances of PluginConnections for TLC.                                 *)
EXTENDS PluginConnections

CONSTANTS s, d, m, l1, l2

\* d goes through the server s; m stands alone.
MCProvider == [p \in {d} |-> s]
NoProvider == [p \in {} |-> s]
TwoPlans == [l \in {l1, l2} |-> IF l = l1 THEN {s, d} ELSE {d}]

BothPlans == [l \in {l1, l2} |-> IF l = l1 THEN {s, m} ELSE {m}]

None_(kinds) == {<<k, None>> : k \in kinds}
MCCancels == None_({"cancelPlan", "cancelNode", "force", "cancel"})
MCDisconnects == None_({"disconnect"}) \cup {<<"disconnect", p>> : p \in Plugins}
MCSaves == {<<"save", p>> : p \in Plugins}
MCNetwork == None_({"network"})
MCDisconnectOne == {<<"disconnect", m>>}
MCCancel == None_({"cancel"})
MCAll == MCCancels \cup MCDisconnects \cup MCSaves \cup MCNetwork
=============================================================================
