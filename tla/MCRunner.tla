------------------------------- MODULE MCRunner -------------------------------
(***************************************************************************)
(* Instances of Runner for TLC.  The transitions are six workflow          *)
(* definitions that share no state; the letter of a state tells which.     *)
(*   a: an inline read whose result feeds a governed effect, then a second *)
(*      governed effect whose capability has no handler; two gates.  Its   *)
(*      state a2 is declared terminal although a transition leaves it.     *)
(*   b: a transition without action, then a draft the policy disables.     *)
(*   c: a governed effect in a loop, which only the step budget ends; its  *)
(*      second transition is never the first in declaration order.         *)
(*   d: a dead end that is not terminal.                                   *)
(*   e: an inline read whose input may be missing.                         *)
(*   f: a cycle without a gate, through a move and an inline read: run()   *)
(*      never meets a human in it and only the step budget ends it.        *)
(***************************************************************************)
EXTENDS RunnerProperties

T(from, to, capability, input_from) ==
    [from |-> from, to |-> to, capability |-> capability, input_from |-> input_from]

MCState == {"a0", "a1", "a2", "a3", "b0", "b1", "b2", "c0", "c1", "d0", "d1", "e0", "e1",
            "f0", "f1"}
MCEntry == {"a0", "b0", "c0", "d0", "e0", "f0"}
MCGoverned == {"a0", "c0"}
MCDisturbed == MCGoverned \cup {"e0"}
MCTerminal == {"a2", "a3", "b2", "c1", "e1"}
MCCapability == {"lookup", "draft", "pay", "notify"}
MCTransitions ==
    << T("a0", "a1", "lookup", {}), T("a1", "a2", "pay", Path), T("a2", "a3", "notify", {}),
       T("b0", "b1", NoAction, {}), T("b1", "b2", "draft", {}),
       T("c0", "c0", "pay", Path),  T("c0", "c1", NoAction, {}),
       T("d0", "d1", NoAction, {}),
       T("e0", "e1", "lookup", Path),
       T("f0", "f1", "lookup", {}), T("f1", "f0", NoAction, {}) >>
MCEffect == [c \in MCCapability |-> CASE c = "lookup" -> "read" [] c = "draft" -> "local_draft"
                                      [] OTHER -> "external_mutation"]
MCEnabled == {"read", "external_mutation"}
MCHandled == {"pay", "lookup"}
=============================================================================
