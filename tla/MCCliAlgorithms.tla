-------------------------- MODULE MCCliAlgorithms --------------------------
(* The instance of CliAlgorithms that TLC checks.                          *)
EXTENDS CliAlgorithms

Steps == [kw : Keyword, text : {"plain", "url", "login"}]
OutlineSteps == [kw : {"Context", "Outcome", "Conjunction"}, text : Text]
StepLists(S, n) == UNION {[1..k -> S] : k \in 0..n}

Scenario(tags, steps, rows) ==
    [kind |-> "scenario", tags |-> tags, steps |-> steps, rows |-> rows]
Background == [Scenario({}, <<[kw |-> "Context", text |-> "plain"]>>, NoExamples)
                  EXCEPT !.kind = "background"]
Feature(tags, children) == [tags |-> tags, children |-> children]

\* Every plain scenario of up to three steps, outlines of up to two steps
\* with no, one and two rows, and two tagged scenarios beside a background.
MCFeatures ==
    {Feature({}, <<Scenario({}, steps, NoExamples)>>) : steps \in StepLists(Steps, 3)}
    \cup {Feature({}, <<Scenario({}, steps, rows)>>) :
             steps \in StepLists(OutlineSteps, 2),
             rows \in {<<>>, <<"url">>, <<"login", "plain">>}}
    \cup {Feature(tags, <<Background, Scenario(first, steps, NoExamples),
                           Scenario(second, steps, <<"url", "plain">>)>>) :
             tags \in SUBSET {"@a"}, first \in SUBSET {"@b"}, second \in SUBSET {"@a", "@b"},
             steps \in StepLists(OutlineSteps, 1)}
MCFilters == SUBSET {"@a", "@b"}

\* Pages of two elements: any element before or after a colour or text input
\* of the main document, no id given twice in one document.
Element(kinds, ids, frames, choosers) ==
    [kind : kinds, id : ids, class : {"", "c"}, frame : frames, chooser : choosers]
AnyElement == Element(Kind \ {"file", "button"}, {"", "a"}, {"main", "inner", "closed"}, {FALSE})
    \cup Element({"file", "button"}, {"", "a"}, {"main", "inner", "closed"}, BOOLEAN)
Neighbour == Element({"color", "plain"}, {"", "a", "b"}, {"main"}, {FALSE})
MCPages == {page \in (AnyElement \X Neighbour) \cup (Neighbour \X AnyElement) :
               page[1].id # "" => page[1].id # page[2].id \/ page[1].frame # page[2].frame}

MCStatuses == {200, 201, 302, 400, 401, 403, 404, 409, 429, 499, 500, 503, 599}
MCReasons == {"", "AGENT_GUARDRAILS_TRIGGERED", "INVALID_INPUT", "RATE_LIMIT_EXCEEDED",
              "DAILY_QUOTA_LIMIT_EXCEEDED"} \cup ModelFaults

\* What a page may report to a capture that is attached to it once, as the
\* service's usage has it: requests under two ids, a response, a failure or one
\* after the other to each in any order, clears and the detach.
\* An id is used again only when its request is answered or gets no answer.
Event(kind, id, of, status) == [kind |-> kind, url |-> "u", id |-> id, of |-> of, status |-> status]
Open(h, kinds) ==
    {i \in DOMAIN h : /\ h[i].kind = "request"
                      /\ \A j \in (i + 1) .. Len(h) : h[j].id = h[i].id => h[j].kind \in kinds}
Following(h) ==
    {Event("request", id, 0, NoStatus) : id \in 1..2}
    \cup {Event("response", h[i].id, i, 200 * h[i].id) : i \in Open(h, {})}
    \cup {Event("failed", h[i].id, i, NoStatus) : i \in Open(h, {"response"})}
    \cup {Event(kind, 0, 0, NoStatus) : kind \in {"clear", "detach"}}
MCHistories ==
    LET histories[n \in 1..6] ==
            IF n = 1 THEN {<<Event("attach", 0, 0, NoStatus)>>}
            ELSE UNION {{Append(h, e) : e \in Following(h)} : h \in histories[n - 1]}
    IN  histories[6]
MCPatterns == {[kind |-> kind, n |-> n] : kind \in {"all", "exact", "malformed"}, n \in {200}}
    \cup {[kind |-> "hundred", n |-> 4], [kind |-> "least", n |-> 400]}
=============================================================================
