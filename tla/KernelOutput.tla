---------------------------- MODULE KernelOutput ----------------------------
(***************************************************************************)
(* What an elementwise kernel launch promises about one output buffer:  *)
(* the launch is one of a set of launches; starting from an unwritten    *)
(* buffer, each element is set to its final contents Target(l)[i] for the *)
(* launch l, and eventually every element is.  The order in which        *)
(* elements are set is left open: that is the freedom the GPU threads of *)
(* the kernels take.                                                      *)
(***************************************************************************)
CONSTANTS
  Launches,    \* the launches (kernel and sizes) the caller may make
  Cells(_),    \* Cells(l): indices of the output buffer of launch l
  Target(_),   \* Target(l): the final contents of that buffer, on Cells(l)
  Unwritten    \* the contents of an element no thread has stored yet

VARIABLES
  launch,      \* the launch being run; it never changes
  out          \* the output buffer

vars == <<launch, out>>

Init ==
  /\ launch \in Launches
  /\ out = [i \in Cells(launch) |-> Unwritten]

\* Element i receives its final value.
Store(i) ==
  /\ out[i] = Unwritten
  /\ out' = [out EXCEPT ![i] = Target(launch)[i]]
  /\ UNCHANGED launch

Next == \E i \in Cells(launch) : Store(i)

\* What the buffer may go through: only stores of final values.
SafetySpec == Init /\ [][Next]_vars

\* ... and every element is eventually stored.
Spec == SafetySpec /\ WF_vars(Next)
=============================================================================
