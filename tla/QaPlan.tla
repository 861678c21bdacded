------------------------------- MODULE QaPlan -------------------------------
(***************************************************************************)
(* `act browser qa-plan`: a Gherkin feature becomes a plan of CLI commands *)
(* (cli/browser/services/gherkin_compiler.py).  A step is its keyword type *)
(* and its text; of a text only matters whether it ends in a URL and       *)
(* whether it mentions a login, or that it is a parameter of an outline.   *)
(***************************************************************************)
EXTENDS Picking

Keyword == {"Context", "Action", "Outcome", "Conjunction", "Unknown"}
Text == {"plain", "url", "login", "login url", "parameter"}

HasUrl(text) == text \in {"url", "login url"}
DetectAuth(text) == text \in {"login", "login url"}

\* And / But have the type of the keyword before them.
ResolveKeyword(kw, before) ==
    IF kw = "Conjunction" /\ before # "" THEN before ELSE kw

Resolved(steps) ==
    LET kw[i \in 0..Len(steps)] ==
            IF i = 0 THEN "" ELSE ResolveKeyword(steps[i].kw, kw[i - 1])
    IN  [i \in DOMAIN steps |-> [kw |-> kw[i], text |-> steps[i].text, at |-> i]]

\* Only a Given step navigates.
DetectNavigate(step) == step.kw = "Context" /\ HasUrl(step.text)

StepType(step) == IF DetectNavigate(step) THEN "navigate"
                  ELSE IF step.kw = "Outcome" THEN "assertion" ELSE "action"

\* Mutant: looks at the new step only for a URL.
Grouped_NoPrevUrl(groups, step) ==
    IF groups = <<>> \/ DetectNavigate(step) \/ step.kw # groups[Len(groups)][1].kw
    THEN Append(groups, <<step>>)
    ELSE [groups EXCEPT ![Len(groups)] = Append(@, step)]

\* One more step: consecutive steps of one keyword type are a group, and a step
\* that navigates is alone.
Grouped(groups, step) ==
    IF \/ groups = <<>>
       \/ DetectNavigate(step)
       \/ DetectNavigate(groups[Len(groups)][1])
       \/ step.kw # groups[Len(groups)][1].kw
    THEN Append(groups, <<step>>)
    ELSE [groups EXCEPT ![Len(groups)] = Append(@, step)]

\* The groups of no step (0) and of the first ones.
GroupConsecutive(steps) ==
    LET groups[i \in 0..Len(steps)] == IF i = 0 THEN <<>> ELSE Grouped(groups[i - 1], steps[i])
    IN  groups

\* The plan step of a group: the type is the first one's, and a login
\* anywhere in the joined text needs a human.
PlanStep(group) ==
    [ type |-> StepType(group[1]),
      sources |-> [i \in DOMAIN group |-> group[i].at],
      requiresHuman |-> \E i \in DOMAIN group : DetectAuth(group[i].text) ]

CompileSteps(strategy, steps) ==
    IF strategy = "aggressive"
    THEN LET groups == GroupConsecutive(Resolved(steps))[Len(steps)]
         IN  [i \in DOMAIN groups |-> PlanStep(groups[i])]
    ELSE [i \in DOMAIN steps |-> PlanStep(<<Resolved(steps)[i]>>)]

-----------------------------------------------------------------------------

\* A scenario is a record of kind, tags, steps and rows: the values of the
\* parameter in the Examples of an outline, NoExamples for a plain scenario.
NoExamples == <<"no examples">>

Substitute(steps, value) ==
    [i \in DOMAIN steps |->
        [steps[i] EXCEPT !.text = IF @ = "parameter" THEN value ELSE @]]

ExpandOutline(scenario) ==
    IF scenario.rows = NoExamples THEN <<scenario.steps>>
    ELSE [i \in DOMAIN scenario.rows |-> Substitute(scenario.steps, scenario.rows[i])]

\* Any one of the tags asked for is enough; a feature's tags are its
\* scenarios' too.  Backgrounds and rules have no scenario of their own.
Selected(feature, child, tags) ==
    /\ child.kind = "scenario"
    /\ tags = {} \/ tags \cap (feature.tags \cup child.tags) # {}

Plans(child, strategy) ==
    [i \in DOMAIN ExpandOutline(child) |-> CompileSteps(strategy, ExpandOutline(child)[i])]

\* The plans of the first children.
CompileFeature(feature, strategy, tags) ==
    LET plans[i \in 0..Len(feature.children)] ==
            IF i = 0 THEN <<>>
            ELSE plans[i - 1] \o (IF Selected(feature, feature.children[i], tags)
                                  THEN Plans(feature.children[i], strategy) ELSE <<>>)
    IN  plans

\* The command: features without a selected scenario are left out, and with
\* none left it fails ("No matching scenarios").
PlanOf(features, strategy, tags) ==
    LET compiled == [i \in DOMAIN features |->
                        CompileFeature(features[i], strategy, tags)[Len(features[i].children)]]
    IN  Picked(compiled, {i \in DOMAIN compiled : compiled[i] # <<>>})

\* For one file the plan itself; there is none when no scenario is selected.
PlanOfOne(feature, strategy, tags) ==
    LET plans == PlanOf(<<feature>>, strategy, tags)
    IN  IF plans = <<>> THEN <<>> ELSE plans[1]
=============================================================================
