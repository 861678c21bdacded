--------------------------- MODULE CliAlgorithms ---------------------------
(***************************************************************************)
(* The algorithms of ServiceErrors, QaPlan, Actuation, CliAuth and         *)
(* NetworkCapture, applied to one input each: `task` names the algorithm,  *)
(* `input` and `output` are what it was given and what it returned.        *)
(***************************************************************************)
EXTENDS ServiceErrors, QaPlan, Actuation, CliAuth, NetworkCapture, SequencesExt

CONSTANTS Features,    \* the features compiled
          Filters,     \* the tags asked for
          Pages,       \* the pages clicked and typed on
          Statuses, Reasons,  \* of answers of the API-key service
          Histories,          \* the events a network capture gets
          Patterns, Limits    \* what the network log is filtered by

\* A page is a sequence of elements; the ids of a document are unique; a status
\* is a number.
ASSUME CliAlgorithmsAssumption ==
    /\ Pages \subseteq Seq([kind : Kind, id : STRING, class : STRING,
                           frame : {"main", "inner", "closed"}, chooser : BOOLEAN])
    /\ \A page \in Pages : \A i, j \in DOMAIN page :
           page[i].frame = "main" /\ page[j].frame = "main" /\ i # j
               => page[i].id = "" \/ page[i].id # page[j].id
    /\ Statuses \subseteq Nat

\* A feature has children with steps; an outline has rows of values.
ASSUME FeaturesAssumption ==
    Features \subseteq
        [ tags : SUBSET STRING,
          children : Seq([ kind : {"scenario", "background", "rule"}, tags : SUBSET STRING,
                           steps : Seq([kw : Keyword, text : Text]), rows : Seq(STRING) ]) ]

\* A capture is attached to its page once, first of all; an answer (of which a
\* request may get several: its body may fail after the response) is one to an
\* earlier request, whose id() no other request had since.
ASSUME HistoriesAssumption ==
    /\ Limits \subseteq Nat
    /\ Histories \subseteq Seq([kind : Kinds, url : STRING, id : Nat, of : Nat, status : Nat])
    /\ \A h \in Histories : \A i \in DOMAIN h :
           /\ h[i].kind = "attach" <=> i = 1
           /\ h[i].kind = "response" => h[i].status # NoStatus
           /\ h[i].kind \in {"response", "failed"} =>
                  /\ h[i].of \in 1 .. (i - 1) /\ h[h[i].of].kind = "request"
                  /\ h[h[i].of].url = h[i].url /\ h[h[i].of].id = h[i].id
                  /\ \A j \in (h[i].of + 1) .. (i - 1) : h[j].kind = "request" => h[j].id # h[i].id

VARIABLES task, input, output
taskVars == <<task, input, output>>

NoTask == task = "none" /\ input = <<>> /\ output = <<>>

Apply(t, i, o) == task' = t /\ input' = i /\ output' = o

\* The same fault met through both services, by any call.
MeetFault ==
    \E fault \in Fault, call \in Calls :
        Apply("fault", <<fault, call>>,
            << SunburstCall(call, SunburstAnswer[fault]), StarburstCall(StarburstAnswer[fault]) >>)

\* Any answer of the API-key service, a proxy's included.
GetAnswer ==
    \E status \in Statuses, reason \in Reasons, body \in {"object", "list", "text"}, call \in Calls :
        LET r == [status |-> status, reason |-> reason, body |-> body]
        IN  Apply("answer", r, SunburstCall(call, r))

\* Any exception leaves a browser command.
LeaveCommand ==
    \E e \in Class \ {"BaseException"}, says \in {"", "chrome not found", "bad profile"} :
        Apply("report", <<e, says>>, Report(e, says))

MakePlan ==
    \E feature \in Features, tags \in Filters :
        Apply("plan", <<feature, tags>>,
            << PlanOfOne(feature, "aggressive", tags), PlanOfOne(feature, "conservative", tags) >>)

\* A click, and what the agent types when it is told to.
ClickThenType ==
    \E page \in Pages : \E t \in DOMAIN page, clickType \in ClickType, focus \in 0..Len(page) :
        LET redirect == AgentClick(page, t, clickType) IN
        Apply("click", <<page, t>>,
            << redirect, IF redirect = "clicked" THEN Done(0, "none")
                         ELSE AgentType(page, t, Asked[redirect], focus) >>)

TypeAnything ==
    \E page \in Pages : \E t \in DOMAIN page, value \in Value, focus \in 0..Len(page) :
        Apply("type", <<page, t, value>>, AgentType(page, t, value, focus))

Authenticate ==
    \E s \in Surroundings, authMode \in {"api-key", "aws", "auto"} :
        Apply("auth", <<s, authMode>>, ResolveAuthMode(authMode, s))

ShowNetwork ==
    \E events \in Histories, pattern \in Patterns, limit \in Limits :
        Apply("network", <<events, pattern, limit>>, GetEntries(Captured(events), pattern, limit))

RunTask ==
    /\ task = "none"
    /\ \/ MeetFault \/ GetAnswer \/ LeaveCommand
       \/ MakePlan
       \/ ClickThenType \/ TypeAnything
       \/ Authenticate
       \/ ShowNetwork

Tasks == NoTask /\ [][RunTask]_taskVars

-----------------------------------------------------------------------------
(* Service errors                                                          *)

IsA(e, c) == e \in Class /\ c \in Ancestors[e]

\* A fault is reported with the same code and the same advice whichever
\* service it came from, except that only the AWS client knows an access
\* denied for an authentication error (client.py has no rule for 401 and
\* 403); an answer's blame follows its status, except for a JSON body that
\* is no object; and no handler of the CLI hides a later one for a class
\* nearer to the exception.
FaultsReportedAlike ==
    /\ task = "fault" /\ input[1] # "accessDenied" =>
           Report(output[1], "") = Report(output[2], "")
    /\ task = "answer" /\ input.body # "list" =>
           /\ input.status \in 400..499 => IsA(output, "ActClientError")
           /\ input.status \in 500..599 => ~ IsA(output, "ActClientError")
    /\ task = "report" =>
           \A h \in ToSet(SessionHandlers \o SdkErrorMap) :
               IsA(input[1], h.class) => ~ (IsA(h.class, output.class) /\ h.class # output.class)

(* Plans                                                                   *)

\* The scenarios asked for among the first i children of a feature, each as
\* often as it has rows.
Wanted(child, feature, tags) ==
    /\ child.kind = "scenario"
    /\ tags = {} \/ \E tag \in tags : tag \in child.tags \/ tag \in feature.tags
Rows(child) == IF child.rows = NoExamples THEN 1 ELSE Len(child.rows)
WantedUpTo(feature, tags, i) ==
    UNION {{j} \X (1 .. Rows(feature.children[j])) :
               j \in {k \in 1 .. i : Wanted(feature.children[k], feature, tags)}}

\* A plan has the steps of the other one, that has one step for each: all of
\* them in order, of the same type, with a human where one of them needs one,
\* and what navigates alone.
Collapses(plan, single) ==
    /\ plan = <<>> <=> single = <<>>
    /\ \A i \in DOMAIN plan :
           LET sources == plan[i].sources
               before == IF i = 1 THEN 0 ELSE plan[i - 1].sources[Len(plan[i - 1].sources)]
           IN  /\ Len(sources) > 0
               /\ \A n \in DOMAIN sources : /\ sources[n] = before + n /\ sources[n] \in DOMAIN single
                                            /\ single[sources[n]].type = plan[i].type
               /\ i = Len(plan) => sources[Len(sources)] = Len(single)
               /\ plan[i].requiresHuman
                      = (\E n \in DOMAIN sources : single[sources[n]].requiresHuman)
               /\ plan[i].type = "navigate" => Len(sources) = 1

\* Collapsing loses, repeats and reorders nothing, and every scenario asked for
\* (every row of an outline) has its plan, in order, with all its steps.
PlanKeepsSteps ==
    task = "plan" =>
        LET feature == input[1]
            Before(i) == Cardinality(WantedUpTo(feature, input[2], i))
            children == feature.children
            aggressive == output[1]
            conservative == output[2]
        IN  /\ Len(aggressive) = Before(Len(children))
            /\ Len(conservative) = Before(Len(children))
            /\ \A n \in DOMAIN aggressive : Collapses(aggressive[n], conservative[n])
            /\ \A i \in DOMAIN children : Wanted(children[i], feature, input[2]) =>
                   \A r \in 1 .. Rows(children[i]) :
                       Len(conservative[Before(i - 1) + r]) = Len(children[i].steps)

(* Clicking and typing                                                     *)

\* A redirect leads somewhere: typing what it asks for on the same box sets
\* the value of the element that was clicked, and no keys are typed into a
\* page behind a file chooser.  For a colour or a range it takes that the
\* element has an id and lies in the main document: locate_element() takes
\* the first one its class or tag names there for any other.  And only
\* allowed files are uploaded.
RedirectsLead ==
    /\ task = "click" /\ output[1] # "clicked" =>
           LET page == input[1]
               t == input[2]
           IN  \/ output[1] \in {"color", "range"} /\ (page[t].id = "" \/ page[t].frame # "main")
               \/ output[2].at = t /\ output[2].how \in {"set", "upload", "chosen"}
    /\ task = "type" /\ output.how = "upload" => input[3] = "allowed file"

(* Authentication                                                          *)

\* The client finds a key in the environment exactly in the mode that needs
\* one (with a workflow it refuses one), and detection fails only when there
\* is nothing to authenticate with.
KeyExactlyInKeyMode ==
    task = "auth" =>
        /\ output.mode = "api-key" => output.env
        /\ output.mode = "aws" => ~ output.env
        /\ input[2] = "auto" /\ output.mode = "error" =>
               ~ (input[1].env \/ input[1].file \/ input[1].aws)

(* The network log                                                         *)

\* What one would write down: the requests heard since the log was cleared, and
\* for each the first answer that was heard.
Listening(events, i) ==
    \E a \in 1 .. i : events[a].kind = "attach" /\ \A d \in a .. i : events[d].kind # "detach"
Heard(events, i, kinds) == events[i].kind \in kinds /\ Listening(events, i)
Requests(events) ==
    {i \in DOMAIN events : /\ Heard(events, i, {"request"})
                           /\ \A j \in i .. Len(events) : events[j].kind # "clear"}
Own(events, i) == {j \in DOMAIN events : Heard(events, j, {"response", "failed"}) /\ events[j].of = i}
Item(e) ==
    [ status |-> IF e.kind = "response" THEN e.status ELSE NoStatus,
      failed |-> e.kind = "failed",
      timed |-> e.kind = "response" ]
EntryOf(events, i) ==
    IF Own(events, i) = {} THEN Item(events[i])
    ELSE Item(events[CHOOSE j \in Own(events, i) : \A k \in Own(events, i) : j <= k])

\* The last n of a set of numbers.
LastOf(S, n) == {i \in S : Cardinality({j \in S : j >= i}) <= n}

\* The log has the last requests since it was cleared, in order, each with the
\* first answer it got itself, if one came while somebody listened: however answers
\* are reordered, come after the entry was pushed out or after a clear, and
\* although an id() is used again once its request is gone; the filters keep
\* the most recent of what matches.
LogIsTrue ==
    task = "network" =>
        LET events == input[1]
            logged == LastOf(Requests(events), MaxEntries)
            shown == {i \in logged : Matches(EntryOf(events, i).status, input[2])}
            last == IF input[3] = 0 THEN shown ELSE LastOf(shown, input[3])
        IN  /\ Len(output) = Cardinality(last)
            /\ \A i \in last : output[Place(last, i)] = EntryOf(events, i)
=============================================================================
