---------------------------- MODULE MCPldmFwup ----------------------------
(* Bounds for model checking PldmFwup against an unconstrained agent.     *)
EXTENDS PldmFwup

MCTransferSizes == {1, 3}    \* below and above the buffer
MCPkgLens == {0, 2}
MCImgSizes == {3}
MCOrigins == {0}
MCHandles == {1}
=============================================================================
