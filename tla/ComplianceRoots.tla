--------------------------- MODULE ComplianceRoots ---------------------------
(***************************************************************************)
(* The windowed compliance roots (contracts/finnes/src/state.rs 165-252):  *)
(* kyc_root, sanction_root and assets_root each keep the latest value and a *)
(* short window of accepted values.  A root of a set is represented by the *)
(* set.                                                                    *)
(***************************************************************************)
EXTENDS Integers, Sequences

CONSTANT COMPLIANCE_WINDOW_CAPACITY   \* 16 in the code

ASSUME WindowAssumption == COMPLIANCE_WINDOW_CAPACITY \in Nat \ {0}

WindowedRoot(Values) == [current : Values, window : Seq(Values)]

WindowContains(window, r) == \E i \in DOMAIN window : window[i] = r

\* Fault, for testing the properties: a full window drops the new root.
PushIfRoom(window, r) ==
  IF WindowContains(window, r) \/ Len(window) = COMPLIANCE_WINDOW_CAPACITY
  THEN window
  ELSE Append(window, r)

\* push_compliance_window: a root already in the window keeps its old slot.
PushWindow(window, r) ==
  CASE WindowContains(window, r) -> window
    [] ~WindowContains(window, r) /\ Len(window) < COMPLIANCE_WINDOW_CAPACITY -> Append(window, r)
    [] OTHER -> Append(Tail(window), r)

SetRoot(c, r) == [current |-> r, window |-> PushWindow(c.window, r)]

\* The window after `init`: the setter runs once on an empty window.
SeedRoot(r) == [current |-> r, window |-> <<r>>]

\* check_kyc_root, check_sanction_root and check_assets_root.
RootInWindow(c, r) == WindowContains(c.window, r)
=============================================================================
