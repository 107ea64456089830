-------------------------- MODULE MCRuleArpSpoofing --------------------------
(* A small instance of the rule for TLC: the clock stops at MaxNow.          *)
EXTENDS RuleArpSpoofing

CONSTANTS m1, m2, m3, MaxNow

MCMac == {m1, m2, m3}

MCTick == now < MaxNow /\ Tick
MCNext == MCTick \/ \E m \in Mac : Evaluate(m)
MCSpec == Init /\ [][MCNext]_vars
=============================================================================
