----------------------------- MODULE Actuation -----------------------------
(***************************************************************************)
(* Clicking and typing at a point of a page                                *)
(* (tools/browser/default/util/agent_click.py and agent_type.py).  Some    *)
(* inputs cannot be clicked: agentClick raises an AgentRedirectError that  *)
(* tells the agent to use agentType on the same box.                       *)
(*                                                                         *)
(* A page is a sequence of elements.  An element has a kind, the id and    *)
(* class it is located by ("" for none), whether it lies in the main       *)
(* document, in a frame the lookup can enter or in one it cannot, and      *)
(* whether a click on it opens a file chooser.                             *)
(***************************************************************************)
EXTENDS Integers, FiniteSets

InputType == {"color", "range", "file", "plain"}
Kind == InputType \cup {"select", "button"}
Tag(e) == IF e.kind \in InputType THEN "input" ELSE e.kind

\* What agentType is asked to type: a path of a file that may be uploaded,
\* of one that may not, a colour, a number, or any other text.
Value == {"allowed file", "other file", "color", "number", "words"}
IsFile(value) == value \in {"allowed file", "other file"}

\* get_element_at_point(): None for an element of a frame without a name.
Seen(page, t) == page[t].frame # "closed"

\* check_if_native_dropdown()
NativeDropdown(page, t) == Seen(page, t) /\ page[t].kind = "select"

ClickType == {"left", "left-double", "right"}

\* agent_click(): the redirect it raises, or "clicked".
AgentClick(page, t, clickType) ==
    IF Seen(page, t) /\ page[t].kind \in {"color", "range"} THEN page[t].kind
    ELSE IF NativeDropdown(page, t) THEN "select"
    ELSE IF clickType = "left" /\ page[t].chooser THEN "file" ELSE "clicked"

-----------------------------------------------------------------------------

\* Does not look at the id.
LocateElement_ByTag(page, t) ==
    LET found == {i \in DOMAIN page : page[i].frame = "main" /\ Tag(page[i]) = Tag(page[t])}
    IN  IF found = {} THEN 0 ELSE CHOOSE i \in found : \A j \in found : i <= j

\* locate_element(): the first element of the main document with the id of
\* the one at the point, else with its class, else with its tag; 0 is none.
LocateElement(page, t) ==
    LET Same(i) == IF page[t].id # "" THEN page[i].id = page[t].id
                   ELSE IF page[t].class # "" THEN page[i].class = page[t].class
                   ELSE Tag(page[i]) = Tag(page[t])
        found == {i \in DOMAIN page : page[i].frame = "main" /\ Same(i)}
    IN  IF found = {} THEN 0 ELSE CHOOSE i \in found : \A j \in found : i <= j

\* What a call did: which element got the value (0: none) and how.
Done(at, how) == [at |-> at, how |-> how]
Raised == Done(0, "raised")

\* A value set by script; an element that is not found is only logged.
SetValue(page, t, valid, how) == IF valid THEN Done(LocateElement(page, t), how) ELSE Raised

\* ensure_element_focus(): where the focus is after the last click, t itself,
\* another element (typed into all the same) or nowhere (nothing is typed).
TypeKeys(focus) == Done(focus, IF focus = 0 THEN "not focused" ELSE "keys")

\* agent_type()
AgentType(page, t, value, focus) ==
    IF IsFile(value) /\ page[t].chooser
    THEN IF value = "allowed file" THEN Done(t, "upload") ELSE Raised
    ELSE IF ~ Seen(page, t) THEN TypeKeys(focus)
    ELSE CASE page[t].kind = "color" -> SetValue(page, t, value = "color", "set")
           [] page[t].kind = "file" -> SetValue(page, t, value = "allowed file", "upload")
           [] page[t].kind = "range" -> SetValue(page, t, value = "number", "set")
           [] NativeDropdown(page, t) -> Done(t, "chosen")
           [] OTHER -> TypeKeys(focus)

\* The value the message of a redirect asks for.
Asked == [color |-> "color", range |-> "number", file |-> "allowed file", select |-> "words"]
=============================================================================
