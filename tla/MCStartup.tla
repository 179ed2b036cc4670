----------------------------- MODULE MCStartup ------------------------------
(* Builds of different ages against one database.                          *)
EXTENDS Startup

CONSTANTS new, old, tool, a, b, admin

E(m, v, s) == [module |-> m, version |-> v, sum |-> s]
MCModules == {"identity", "authorization"}

\* The tools are built from another text of identity's second version.
MCPlan ==
  [p \in Processes |->
     CASE p = new   -> <<E("identity", 1, a), E("identity", 2, a), E("authorization", 1, a)>>
       [] p = tool -> <<E("identity", 1, a), E("identity", 2, b)>>
       [] OTHER     -> <<E("identity", 1, a), E("authorization", 1, a)>>]
=============================================================================
