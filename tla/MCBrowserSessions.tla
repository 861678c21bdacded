------------------------- MODULE MCBrowserSessions --------------------------
(* Small instances of BrowserSessions. *)
EXTENDS BrowserSessions

CONSTANTS p1, p2, i1, i2, i3

\* One command at a time, with everything that can fail: three sessions, one more
\* than the limit allows, and a longer history of two.
Full == [procs |-> {p1}, ops |-> Commands, ids |-> {i1, i2, i3}, commands |-> 3,
         faults |-> TRUE, deaths |-> TRUE, crashes |-> FALSE]
Long == [Full EXCEPT !.ids = {i1, i2}, !.commands = 4,
                     !.ops = {"use", "close", "closeAll", "prune"}]

\* Two commands at once: on two sessions, and on one with processes that are killed.
Concurrent == [procs |-> {p1, p2}, ops |-> {"use", "close", "force", "closeAll", "prune"},
               ids |-> {i1, i2}, commands |-> 3,
               faults |-> FALSE, deaths |-> FALSE, crashes |-> FALSE]
Killed == [Concurrent EXCEPT !.ids = {i1}, !.crashes = TRUE]

MCSettings == {Full, Long, Concurrent, Killed}
=============================================================================
