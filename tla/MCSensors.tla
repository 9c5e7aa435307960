----------------------------- MODULE MCSensors -----------------------------
(***************************************************************************)
(* One port, a temperature that each set of thresholds judges otherwise,   *)
(* and a controller that makes two requests.  Every sensor has a record, or *)
(* the pool was used up before the first.                                  *)
(***************************************************************************)
EXTENDS Sensors

MCReadings == {90}
MCModuleLimits == [warning_high |-> 70, critical_high |-> 75, fatal_high |-> 80]
MCLimits == {MCModuleLimits, [warning_high |-> 30, critical_high |-> 50, fatal_high |-> 100]}
MCMade == {AllNumeric, {}}
MCFields == {[op_state |-> PLDM_OP_ENABLE, event_msg_en |-> PLDM_EVENT_EN],
             [op_state |-> PLDM_OP_ENABLE, event_msg_en |-> PLDM_EVENT_DIS_EN],
             [op_state |-> PLDM_OP_UNAVAILABLE, event_msg_en |-> PLDM_EVENT_EN]}
=============================================================================
