-------------------------- MODULE IntentResolution --------------------------
(* Which element of the page a CLI command's target means, without asking   *)
(* the model: services/intent_resolution.  A snapshot of the page is a       *)
(* sequence of elements; of an element only what the decision looks at is    *)
(* kept: its role, whether its name equals the target, and the token-set     *)
(* ratio of its name and the target (0 when it has no name).                 *)
EXTENDS Integers, Sequences, SequencesExt, FiniteSetsExt

\* The thresholds of matching.py and the bonus of resolver.py.
FUZZY_SCORE_THRESHOLD == 85
FUZZY_GAP_THRESHOLD == 15
HEADING_LANDMARK_BONUS == 5

\* One role stands for each of the sets CLICKABLE_ROLES, FILLABLE_ROLES and
\* HEADING_LANDMARK_ROLES, "searchbox" for its own; "other" is in none.
CLICKABLE_ROLES == {"button"}
FILLABLE_ROLES == {"textbox", "searchbox"}
SEARCH_ROLES == {"searchbox", "button"}
HEADING_LANDMARK_ROLES == {"heading"}

\* detect_format(): what the target looks like.
Formats == {"snapshot_ref", "css_selector", "text"}

\* _filter_by_command(): the elements a command can use.
FilterByCommand(cmd, elements) ==
    LET usable(e) ==
            CASE cmd = "click" -> e.role \in CLICKABLE_ROLES
              [] cmd = "fill-form" -> e.role \in FILLABLE_ROLES
              [] cmd = "search" -> e.role \in SEARCH_ROLES
              [] OTHER -> TRUE
    IN  SelectSeq(elements, usable)

\* exact_match(): the element of that name, if it is the only one.
ExactMatch(elements) ==
    LET matches == SelectSeq(elements, LAMBDA e : e.exact)
    IN  IF Len(matches) = 1 THEN matches ELSE <<>>

\* token_set_match(): the first of the best scored elements; confident when it
\* is good and leads the next one by the gap.
TokenSetMatch(elements) ==
    LET named == SelectSeq(elements, LAMBDA e : e.score > 0)
        ranked == SortSeq(named, LAMBDA a, b : a.score > b.score)
        best == ranked[1]
        second == IF Len(ranked) > 1 THEN ranked[2].score ELSE 0
        good == best.score >= FUZZY_SCORE_THRESHOLD
    IN  IF named = <<>> THEN [element |-> <<>>, confident |-> FALSE]
        ELSE [element |-> IF good THEN <<best>> ELSE <<>>,
              confident |-> good /\ best.score - second >= FUZZY_GAP_THRESHOLD]

Fast(element, method) == [path |-> "fast", element |-> element, method |-> method]
Smart == [path |-> "smart", element |-> <<>>, method |-> "no_match"]

\* resolve(): the fast path names an element (or trusts a selector), the smart
\* path leaves the target to the model.  The position stands for a snapshot
\* reference: flatten_snapshot() numbers the elements in document order.
Resolve(format, ref, cmd, elements) ==
    LET usable == FilterByCommand(cmd, elements)
        exact == ExactMatch(usable)
        fuzzy == TokenSetMatch(usable)
        landmark == cmd = "scroll-to" /\ ~fuzzy.confident /\ fuzzy.element # <<>>
                    /\ fuzzy.element[1].role \in HEADING_LANDMARK_ROLES
                    /\ fuzzy.element[1].score + HEADING_LANDMARK_BONUS >= FUZZY_SCORE_THRESHOLD
    IN  CASE format = "snapshot_ref" ->
               IF ref \in DOMAIN elements THEN Fast(<<elements[ref]>>, "ref") ELSE Smart
          [] format = "css_selector" -> Fast(<<>>, "selector")
          [] OTHER ->
               IF exact # <<>> THEN Fast(exact, "exact")
               ELSE IF landmark THEN Fast(fuzzy.element, "token_set_ratio_boosted")
               ELSE IF fuzzy.confident THEN Fast(fuzzy.element, "token_set_ratio")
               ELSE Smart
=============================================================================
