---- MODULE MCOrchestrate ----
EXTENDS Orchestrate
CONSTANTS f, g, i1, i2, i3
MCSymbols == {"lt", "bar", "ch", "fase", "dash", "task"}
MCOpenMark == <<"lt", "bar">>
MCCloseMark == <<"lt", "ch">>
MCPieces == {<<s>> : s \in MCSymbols} \cup
            {<<"lt", "bar">>, <<"bar", "task">>, <<"task", "lt">>, <<"ch", "task">>, <<"lt", "ch", "fase">>}
====
