--------------------------- MODULE NetworkCapture ---------------------------
(***************************************************************************)
(* The ring buffer of requests that `act browser network-log` shows        *)
(* (cli/browser/services/network_capture.py), as the function of the page's*)
(* events that it is.  An entry is an object of its own, that a late       *)
(* answer changes wherever it is: entries are numbered, `book` has them    *)
(* all and `kept` the numbers of those in the deque.                       *)
(***************************************************************************)
EXTENDS Picking

CONSTANT MaxEntries   \* the deque's maxlen

ASSUME NetworkCaptureAssumption == MaxEntries \in Nat \ {0}

\* An event of the page, or a call of the service: kind; url and id, the
\* request's URL and Python's id() of it; status of a response.
Kinds == {"request", "response", "failed", "attach", "detach", "clear"}

NoStatus == 0

\* Mutant: requests of one URL are not told apart.
RequestKey_Url(e) == e.url
RequestKey(e) == <<e.url, e.id>>

Fresh == [book |-> <<>>, kept |-> <<>>, index |-> <<>>, pending |-> {}, attached |-> FALSE]

Without(index, key) == [k \in DOMAIN index \ {key} |-> index[k]]
LastN(s, n) == IF Len(s) <= n THEN s ELSE SubSeq(s, Len(s) - n + 1, Len(s))

OnRequest(c, e) ==
    LET n == Len(c.book) + 1
        key == RequestKey(e)
    IN  [c EXCEPT !.book = Append(@, [status |-> NoStatus, failed |-> FALSE, timed |-> FALSE]),
                  !.kept = LastN(Append(@, n), MaxEntries),
                  !.index = [k \in DOMAIN @ \cup {key} |-> IF k = key THEN n ELSE @[k]],
                  !.pending = @ \cup {key}]

\* _on_response() and _on_request_failed(): the entry is found once.
Answered(c, e, entry) ==
    LET key == RequestKey(e)
        book == IF key \in DOMAIN c.index THEN [c.book EXCEPT ![c.index[key]] = entry] ELSE c.book
    IN  [c EXCEPT !.book = book, !.index = Without(@, key), !.pending = @ \ {key}]
OnResponse(c, e) ==
    Answered(c, e, [status |-> e.status, failed |-> FALSE, timed |-> RequestKey(e) \in c.pending])
OnRequestFailed(c, e) ==
    Answered(c, e, [status |-> NoStatus, failed |-> TRUE, timed |-> FALSE])

Clear(c) == [c EXCEPT !.kept = <<>>, !.index = <<>>, !.pending = {}]

\* The listeners hear nothing while they are detached.
Handle(c, e) ==
    CASE e.kind \in {"attach", "detach"} -> [c EXCEPT !.attached = (e.kind = "attach")]
      [] e.kind = "clear" -> Clear(c)
      [] e.kind = "request" -> IF c.attached THEN OnRequest(c, e) ELSE c
      [] e.kind = "response" -> IF c.attached THEN OnResponse(c, e) ELSE c
      [] e.kind = "failed" -> IF c.attached THEN OnRequestFailed(c, e) ELSE c

\* The capture before the first event (0) and after each one.
After(events) ==
    LET c[i \in 0..Len(events)] == IF i = 0 THEN Fresh ELSE Handle(c[i - 1], events[i])
    IN  c

Captured(events) ==
    LET c == After(events)[Len(events)]
    IN  [i \in DOMAIN c.kept |-> c.book[c.kept[i]]]

\* --status: an exact code, a hundred ("4xx"), a lower bound, or not a status.
MatchesStatus(actual, pattern) ==
    /\ actual # NoStatus
    /\ CASE pattern.kind = "hundred" -> actual \div 100 = pattern.n
         [] pattern.kind = "least" -> actual >= pattern.n
         [] pattern.kind = "exact" -> actual = pattern.n
         [] OTHER -> FALSE

Matches(actual, pattern) == pattern.kind = "all" \/ MatchesStatus(actual, pattern)

\* get_entries(): filtered, then limited; a limit of 0 is none.
GetEntries(entries, pattern, limit) ==
    LET matching == Picked(entries, {i \in DOMAIN entries : Matches(entries[i].status, pattern)})
    IN  IF limit > 0 THEN LastN(matching, limit) ELSE matching
=============================================================================
