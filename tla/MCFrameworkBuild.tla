-------------------------- MODULE MCFrameworkBuild --------------------------
(***************************************************************************)
(* Instances of FrameworkBuild for TLC: three modules and a test module,   *)
(* with the chains, the fork and the independent modules their makefiles   *)
(* can be edited into between invocations.                                 *)
(***************************************************************************)
EXTENDS FrameworkBuild

MCUnits == {"base", "mid", "top", "check"}

\* The units in this order; needs[u] is MODULE_DEPS.
Ordered(order, needs) ==
    [order |-> order,
     deps |-> [u \in MCUnits |-> IF u \in DOMAIN needs THEN needs[u] ELSE {}]]

MCGraphs ==
    {\* a chain
     Ordered(<<"base", "mid", "top", "check">>, [mid |-> {"base"}, top |-> {"mid"}]),
     \* two prerequisites of one module, which do not need each other
     Ordered(<<"base", "mid", "top">>, [top |-> {"base", "mid"}]),
     \* the chain the other way round; base's test was removed
     Ordered(<<"mid", "base", "top">>, [base |-> {"mid"}, top |-> {"base"}]),
     \* base was removed
     Ordered(<<"mid", "top", "check">>, [top |-> {"mid"}])}
=============================================================================
