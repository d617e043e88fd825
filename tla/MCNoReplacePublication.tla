----------------------- MODULE MCNoReplacePublication -----------------------
(***************************************************************************)
(* Two runs of the acquisition command for one output file (a run and its  *)
(* retry), each with its receipt, beside two builds of an overlay, one of  *)
(* which does not reopen as requested: all four publish to the same output *)
(* path, the builds under a staging suffix of their own.                   *)
(***************************************************************************)
EXTENDS NoReplacePublication, TLC

CONSTANTS Acquire, Retry, Overlay, BadOverlay, OutputFile, ReceiptFile,
          MemberSuffix, ReceiptSuffix, OverlaySuffix

Reaches(outputSuffix) ==
    [output |-> [dest |-> OutputFile, suffix |-> outputSuffix],
     receipt |-> [dest |-> ReceiptFile, suffix |-> ReceiptSuffix]]

MCInvocations == {Acquire, Retry, Overlay, BadOverlay}
MCPaths == {OutputFile, ReceiptFile}
MCSuffixes == {MemberSuffix, ReceiptSuffix, OverlaySuffix}
MCWithReceipt == {Acquire, Retry}
MCPlan == [p \in MCInvocations |->
    Reaches(IF p \in MCWithReceipt THEN MemberSuffix ELSE OverlaySuffix)]

\* A run of the acquisition command and its retry do the same.
Symmetry == Permutations(MCWithReceipt)
=============================================================================
