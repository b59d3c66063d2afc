--------------------------- MODULE MCPlanExecution ---------------------------
EXTENDS PlanExecution

S(k, d) == [key |-> k, deps |-> d]
MCAnswers == { <<S("b", {"a"}), S("a", {})>>, <<S("a", {})>>, <<S("a", {"b"}), S("b", {"a"})>> }
=============================================================================
