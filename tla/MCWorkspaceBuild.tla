-------------------------- MODULE MCWorkspaceBuild --------------------------
(***************************************************************************)
(* Instances of WorkspaceBuild for TLC: a chain of three frameworks, and   *)
(* what its makefiles can be edited into.                                  *)
(***************************************************************************)
EXTENDS WorkspaceBuild

MCFrameworks == {"core", "gui", "app"}

Using(order, needs, excludes) ==
    [order |-> order,
     prereqs |-> [f \in MCFrameworks |-> IF f \in DOMAIN needs THEN needs[f] ELSE {}],
     excludes |-> excludes]

Chain == <<"core", "gui", "app">>
ChainNeeds == [gui |-> {"core"}, app |-> {"gui"}]

\* The chain, with nothing excluded and with gui (app then needs one that is
\* not built here) or gui and app excluded; and app needing core and gui.
MCConfigs ==
    {Using(Chain, ChainNeeds, {}),
     Using(Chain, ChainNeeds, {"gui"}),
     Using(Chain, ChainNeeds, {"core", "gui"}),
     Using(Chain, [app |-> {"core", "gui"}], {"core"})}

MCChainOnly == {Using(Chain, ChainNeeds, {})}
=============================================================================
