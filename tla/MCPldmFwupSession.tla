------------------------ MODULE MCPldmFwupSession ------------------------
(* Bounds for model checking a session with a disciplined agent.         *)
EXTENDS PldmFwupSession

MCTransferSizes == {0, 2, 4}   \* none, one that straddles blocks, above the buffer
MCPkgLens == {0, 3}             \* none, more than one answer
MCImgSizes == {4}              \* a full block and a tail
MCOrigins == 0 .. 4            \* every offset of the image
MCHandles == {1}
=============================================================================
