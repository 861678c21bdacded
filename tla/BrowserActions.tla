--------------------------- MODULE BrowserActions ---------------------------
(* What a browser action of the CLI (services/browser_actions) may do to the *)
(* page and to whom it leaves the rest.  Actions try a direct Playwright call*)
(* first and fall back to act(), so each is described by the set of its      *)
(* outcomes: the effects it had, in order, and how it ended.                 *)
(*                                                                           *)
(* An outcome is a record: did, the sequence of effects; exc, the exception  *)
(* that left the action, or "none"; val, what it returned.  An effect names  *)
(* the operation, what it was about, and the page it was done on: "sdk" is   *)
(* the page of the client (NovaAct.page), "tab" the tab the CLI selected.    *)
EXTENDS IntentResolution, FiniteSets

CONSTANTS
    Fields,         \* the fields of a form, as a sequence of names
    MaxAttempts,    \* scroll_to's max_attempts
    MaxPolls,       \* bound on the polls of wait_for
    Trees           \* the snapshots of the page to resolve targets in

\* "submit" stands for the submission of the form, not for a field of it.
ASSUME BrowserActionsAssumption == Fields \in Seq(STRING \ {"submit"})

\* Where to resolve: a typed target, a selector, a reference that may be stale.
Resolutions(cmd) ==
    {Resolve(f, ref, cmd, t) : f \in Formats, ref \in 1..2, t \in Trees}
ResolutionsOf == [cmd \in {"click", "fill-form", "scroll-to"} |-> Resolutions(cmd)]
-----------------------------------------------------------------------------
(* Outcomes and how statements compose them. *)

Effect(op, about, on) == [op |-> op, about |-> about, on |-> on]

Returns(val) == {[did |-> <<>>, exc |-> "none", val |-> val]}
Raises(exc) == {[did |-> <<>>, exc |-> exc, val |-> "none"]}

\* First; then Rest of what it returned, unless it raised.
Then(First, Rest(_)) ==
    UNION {IF o.exc # "none" THEN {o}
           ELSE {[n EXCEPT !.did = o.did \o n.did] : n \in Rest(o.val)} : o \in First}

\* try: Body, except Excs: Handler.
Except(Body, Excs, Handler) ==
    UNION {IF o.exc \notin Excs THEN {o}
           ELSE {[n EXCEPT !.did = o.did \o n.did] : n \in Handler} : o \in Body}

\* A Playwright call, which may fail without effect.
PageCall(effects) ==
    {[did |-> effects, exc |-> "none", val |-> "ok"]} \cup Raises("PlaywrightError")

\* An accessibility snapshot: it fails while the page navigates.
Snapshot == PageCall(<<>>)

\* transition_tracker(): a snapshot before; the one after is taken by
\* tracker.transition(), inside the block.
Tracked(Block) == Then(Snapshot, LAMBDA s : Block)
Transition(val) == Then(Snapshot, LAMBDA s : Returns(val))

\* act() and act_get(): the agent may fail after it has acted, or before.
ActErrors == {"ActError", "RuntimeError"}
ActGet(op, about, answers) ==
    LET done == <<Effect(op, about, "sdk")>>
    IN  [did : {done}, exc : {"none"}, val : answers]
        \cup [did : {done, <<>>}, exc : ActErrors, val : {"none"}]
Act(about) == ActGet("act", about, {"done"})

SdkCall(op, about) == PageCall(<<Effect(op, about, "sdk")>>)
-----------------------------------------------------------------------------
(* interaction.py *)

Execute == Tracked(Then(Act({"prompt"}), LAMBDA a : Transition(TRUE)))

\* The fast path of a click or a scroll: "no" when it was not taken, or when
\* anything failed on the page, the snapshot after the click included.
FastOn(cmd, op) ==
    LET try(r) ==
            IF r.path = "smart" THEN Returns("no")
            ELSE Tracked(Then(SdkCall(op, {"target"}), LAMBDA a : Transition("yes")))
    IN  Except(Then(Snapshot, LAMBDA s : UNION {try(r) : r \in ResolutionsOf[cmd]}),
               {"PlaywrightError"}, Returns("no"))
TryFastClick == FastOn("click", "click")

Click ==
    Then(TryFastClick, LAMBDA fast :
        IF fast = "yes" THEN Returns(TRUE)
        ELSE Tracked(Then(ActGet("act", {"target"}, BOOLEAN), LAMBDA clicked :
                          Transition(clicked))))

\* ask() compares the page's URL before and after; the prompt forbids acting.
Ask == Then(ActGet("look", {"question"}, {"answer"}), LAMBDA a : Returns(TRUE))

\* Mutant: a field whose direct fill failed counts as filled.
FillField_Forgets(f) ==
    LET try(r) == IF r.path = "smart" \/ r.element = <<>> THEN Returns({f})
                  ELSE Then(SdkCall("fill", {f}), LAMBDA a : Returns({}))
    IN  Except(Then(Snapshot, LAMBDA s : UNION {try(r) : r \in ResolutionsOf["fill-form"]}),
               {"PlaywrightError"}, Returns({}))
\* _try_fast_fill(): the fields that could not be filled, each on its own.
FillField(f) ==
    LET try(r) == IF r.path = "smart" \/ r.element = <<>> THEN Returns({f})
                  ELSE Then(SdkCall("fill", {f}), LAMBDA a : Returns({}))
    IN  Except(Then(Snapshot, LAMBDA s : UNION {try(r) : r \in ResolutionsOf["fill-form"]}),
               {"PlaywrightError"}, Returns({f}))
FastFill[n \in 0..Len(Fields)] ==
    IF n = 0 THEN Returns({})
    ELSE Then(FastFill[n - 1], LAMBDA failed :
              Then(FillField(Fields[n]), LAMBDA f : Returns(failed \cup f)))
TryFastFill ==
    Tracked(Then(FastFill[Len(Fields)], LAMBDA failed : Transition(failed)))

\* fill_form(): the model gets the failed fields, and the submission.
FillForm(submit) ==
    LET last == IF submit THEN {"submit"} ELSE {}
    IN  Then(TryFastFill, LAMBDA failed :
            IF failed = {} /\ ~submit THEN Returns(TRUE)
            ELSE Tracked(Then(Act(failed \cup last), LAMBDA a : Transition(TRUE))))

Verify == Tracked(Then(ActGet("look", {"assertion"}, BOOLEAN), LAMBDA passed : Transition(passed)))

\* wait_for(): n polls are done.  What remains of the timeout is the next
\* poll's own; act_get() refuses less than its minimum (MIN_TIMEOUT_S).
Poll ==
    LET answer == Except(ActGet("look", {"condition"}, {"true", "false"}),
                         {"RuntimeError"}, Returns("broken"))
        poll[n \in 0..MaxPolls] ==
            IF n = MaxPolls THEN Returns(FALSE)
            ELSE Returns(FALSE) \cup Raises("InvalidTimeout")
                 \cup Then(answer, LAMBDA a :
                        CASE a = "true" -> Returns(TRUE)
                          [] a = "broken" -> Returns(FALSE)
                          [] OTHER -> poll[n + 1])
    IN  poll[0]
WaitFor == Tracked(Then(Poll, LAMBDA met : Transition(met)))

\* type_text(): into the focused element or a resolved one, else by act().
TypeInto == Tracked(Then(SdkCall("type", {"text"}), LAMBDA a : Transition("yes")))
TypeFast(target) ==
    LET try(r) == IF r.path = "smart" \/ r.element = <<>> THEN Returns("no")
                  ELSE IF r.element[1].role \notin FILLABLE_ROLES THEN Returns("no")
                  ELSE TypeInto
        into == IF target THEN UNION {try(r) : r \in ResolutionsOf["fill-form"]}
                ELSE TypeInto \cup Returns("no")
    IN  Except(Then(Snapshot, LAMBDA s : into), {"PlaywrightError"}, Returns("no"))
TypeText(target) ==
    Then(TypeFast(target), LAMBDA fast :
        IF fast = "yes" THEN Returns(TRUE)
        ELSE Then(Act({"text"}), LAMBDA a : Returns(TRUE)))
-----------------------------------------------------------------------------
(* navigation.py *)

\* goto() sets the page's timeout for the call and resets it.
Goto == SdkCall("goto", {"url"})

TryFastScroll == FastOn("scroll-to", "scroll")
ScrollTo ==
    LET look == Then(Act({"scroll"}), LAMBDA a : ActGet("look", {"target"}, {"true", "false"}))
        attempt[n \in 0..MaxAttempts] ==
            IF n = MaxAttempts THEN Returns(FALSE)
            ELSE Then(Except(look, {"RuntimeError"}, Returns("broken")), LAMBDA seen :
                      CASE seen = "true" -> Returns(TRUE)
                        [] seen = "broken" -> Returns(FALSE)
                        [] OTHER -> attempt[n + 1])
    IN  Then(TryFastScroll, LAMBDA fast :
            IF fast = "yes" THEN Returns(TRUE)
            ELSE Tracked(Then(attempt[0], LAMBDA reached : Transition(reached))))
-----------------------------------------------------------------------------
(* inspection.py and run_observe() of utils.py *)

Extract == Then(ActGet("look", {"prompt"}, {"data"}), LAMBDA a : Returns(TRUE))
\* get_content(), screenshot(), query_dom()
ReadPage == Then(SdkCall("read", {"page"}), LAMBDA a : Returns(TRUE))
GetStyles == Then(SdkCall("read", {"styles"}), LAMBDA a : Returns(TRUE) \cup Raises("ValueError"))
EvaluateJs == Then(SdkCall("evaluate", {"expression"}), LAMBDA a : Returns(TRUE))
              \cup Raises("EvaluationTimedOut")
Diff == Then(ActGet("act", {"action"}, {"data"}), LAMBDA a : Returns(TRUE))
Observe == Except(Then(ActGet("look", {"layout"}, {"layout"}), LAMBDA a : Returns(TRUE)),
                  {"RuntimeError"}, Returns(FALSE))
=============================================================================
