------------------------ MODULE MCTerminusDiscovery ------------------------
(***************************************************************************)
(* SMBus and one VDM interface, two addresses and an id; each owner may  *)
(* be reset once, or one of them twice.                                    *)
(***************************************************************************)
EXTENDS TerminusDiscovery

MCInterfaces == {0, 1}
MCVdmPayload == {1}
MCEids == {8, 165}
MCTids == {102}
=============================================================================
