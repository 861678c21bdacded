------------------------- MODULE MCBrowserCommands --------------------------
(* A small instance of BrowserCommands: pages of up to two elements, forms of *)
(* two fields.                                                               *)
EXTENDS BrowserCommands

CONSTANTS p1, p2

MCFields == <<"name", "city">>
MCElements == [role : {"button", "textbox", "searchbox", "heading"}, exact : {FALSE}, score : {0, 85}]
              \cup [role : {"button", "textbox"}, exact : {TRUE}, score : {100}]
MCTrees == {<<>>} \cup {<<a>> : a \in MCElements} \cup {<<a, b>> : a, b \in MCElements}

\* Every command on its own, with all its outcomes.
Each == [procs |-> {p1}, names |-> Names, commands |-> 1, tabs |-> 2, changes |-> FALSE]

\* Two commands at once, three in all, on one tab.
Concurrent == [procs |-> {p1, p2}, names |-> {"execute"}, commands |-> 3,
               tabs |-> 1, changes |-> FALSE]

\* One at a time, while pages and the user open and close tabs.
Tabs == [procs |-> {p1}, names |-> TabCommands \cup {"click", "execute"}, commands |-> 2,
         tabs |-> 3, changes |-> TRUE]

MCSettings == {Each, Concurrent, Tabs}
=============================================================================
