------------------------ MODULE MCPldmEventsSession ------------------------
(* Bounds for model checking the events with one receiver.                  *)
EXTENDS PldmEventsSession

MCReceiverSizes == {3, 4}
MCDataLens == {1, 2}
MCNobody == {0, 1}
=============================================================================
