---------------------------- MODULE MCAtfFiles ------------------------------
EXTENDS AtfFiles, TLC

CONSTANTS f, g

MCNames == {f, g}
\* Among them one whose effective group, the files', getgroups does not tell of.
MCTests == {[euid |-> 0, egid |-> 0, groups |-> {}],
            [euid |-> 1, egid |-> 2, groups |-> {}], [euid |-> 1, egid |-> 1, groups |-> {1}],
            [euid |-> 2, egid |-> 2, groups |-> {}], [euid |-> 2, egid |-> 2, groups |-> {1, 2}],
            [euid |-> 2, egid |-> 1, groups |-> {}]}
MCModes == {({"owner", "group", "other"} \X S) \cup (classes \X {"x"}) :
                S \in {{}, {"r", "w"}}, classes \in SUBSET {"owner", "group", "other"}}
MCUmasks == {{}, {<<"group", "w">>, <<"other", "w">>}, {<<"owner", "w">>}, Bits}
MCSymmetry == Permutations(Names)
=============================================================================
