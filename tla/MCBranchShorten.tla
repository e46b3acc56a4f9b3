--------------------------- MODULE MCBranchShorten ---------------------------
(* transfer_routine_z and transfer_routine_g: one of the two runs, as        *)
(* glulx_mode says.  They share their variables but for labels[].never_...   *)
(* and labeluse[], which the Glulx passes do not read.                       *)
EXTENDS BranchShortenZ

CONSTANTS GOps, GLengths

ASSUME GlulxBoundsAssumption ==
  /\ GOps \subseteq {"plain", "branch", "jump", "return"}
  /\ GLengths \subseteq Nat \ {0}

VARIABLE glulx

G == INSTANCE BranchShortenG WITH Ops <- GOps, Lengths <- GLengths

TargetInit == glulx \in BOOLEAN /\ Init

ZCode == ~glulx /\ Next /\ UNCHANGED glulx
Glulx == glulx /\ G!Next /\ UNCHANGED <<glulx, never, use>>

TargetSpec == TargetInit /\ [][ZCode \/ Glulx]_<<vars, glulx>>

\* From any label, the code transferred does what the code assembled would
\* have done: the passes of transfer_routine_z and transfer_routine_g
\* preserve the flow of control.
TargetFlowPreserved == IF glulx THEN G!FlowPreserved ELSE FlowPreserved

\* Every branch form chosen on the old distances holds the new one, and no
\* pass of transfer_routine_z meets a compiler_error of its own.
FormsHold == IF glulx THEN G!FormsHold ELSE NoInternalError
==============================================================================
