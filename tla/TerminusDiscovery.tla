------------------------- MODULE TerminusDiscovery -------------------------
(***************************************************************************)
(* The terminus with those who look for it.  On each interface a bus owner *)
(* makes the endpoint known again, finds it, gives it an address and       *)
(* repeats what is not answered; it may be reset at any time.  A           *)
(* controller gives the terminus its id, and asks for all there is to ask, *)
(* going by the answers.  Requests and answers get lost.                   *)
(*                                                                         *)
(* The owners send what mctp_ctrl_gen.c has, with its data taken from the  *)
(* constants; the controller sends the requests of mctp_ctrl_gen.c and     *)
(* pldm_ctrl_gen.c, one for each thing it was told of.                     *)
(***************************************************************************)
EXTENDS Terminus, Sequences, SequencesExt, TLC

CONSTANTS
  Via,          \* the interface that the controller uses
  MaxResets     \* bound: resets of bus owners

VARIABLES
  owner,        \* per interface: how far its owner is, and the address it knows
  resets,
  todo,         \* what the controller still wants to ask
  announced,    \* the commands it was told of
  refused,      \* what it was told of and then refused
  known         \* an address or an id was accepted since start-up

vars == <<terminusVars, owner, resets, todo, announced, refused, known>>
explorerVars == <<todo, announced, refused>>

FirstQuestions ==
  << <<"eid">>, <<"tid">>, <<"interfaces">>, <<"message types">>, <<"rate">>, <<"types">> >>

DiscoveryInit ==
  /\ mctp_ctrl_init
  /\ owner = [h \in Interfaces |-> [at |-> "idle", eid |-> MCTP_EID_NULL]]
  /\ resets = 0
  /\ todo = FirstQuestions
  /\ announced = {} /\ refused = {}
  /\ known = FALSE

(***************************************************************************)
(* The bus owners.  Of what a request may meet only a loss of its answer   *)
(* changes the device; a loss of the request changes nothing at all.       *)
(***************************************************************************)
OwnerGets(h, state) == owner' = [owner EXCEPT ![h] = state]

\* The owner begins with PrepareForEndpointDiscovery, or without it where the
\* medium has none.
Prepare(h, answered) ==
  /\ owner[h].at = "idle"
  /\ mctp_prepare_for_eid_discovery(h)
  /\ IF answered
     THEN OwnerGets(h, [at |-> IF rsp'.code = "SUCCESS" THEN "prepared" ELSE "found",
                        eid |-> MCTP_EID_NULL])
     ELSE UNCHANGED owner
  /\ UNCHANGED <<explorerVars, resets, known>>

Discover(h, answered) ==
  /\ owner[h].at = "prepared"
  /\ mctp_eid_discovery(h)
  /\ IF answered /\ rsp'.code = "SUCCESS"
     THEN OwnerGets(h, [at |-> "found", eid |-> MCTP_EID_NULL])
     ELSE UNCHANGED owner
  /\ UNCHANGED <<explorerVars, resets, known>>

\* With an address of the owner's choice, by either operation; or one that
\* the device refuses.
Assign(h, answered) ==
  /\ owner[h].at = "found"
  /\ \E op \in {SET_EID, FORCE_EID}, e \in Eids : mctp_set_eid(h, op, e)
  /\ IF answered
     THEN OwnerGets(h, [at |-> "assigned", eid |-> rsp'.val])
     ELSE UNCHANGED owner
  /\ known' = TRUE
  /\ UNCHANGED <<explorerVars, resets>>

\* An owner that knows the address of the endpoint sets the flag alone.
SetFlag(h) ==
  /\ owner[h].at = "assigned"
  /\ mctp_set_eid(h, SET_DISC_FLAG, MCTP_EID_NULL)
  /\ known' = TRUE
  /\ UNCHANGED <<owner, resets, explorerVars>>

\* Requests that are refused, whoever sends them.
SendRefused(h) ==
  /\ \/ mctp_set_eid(h, RESET_EID, MCTP_EID_NULL)
     \/ \E e \in {MCTP_EID_NULL, MCTP_EID_BROADCAST} : mctp_set_eid(h, SET_EID, e)
     \/ \E t \in {PLDM_TID_UNASSIGN, PLDM_TID_RSVD} : pldm_ctrl_set_tid(t)
  /\ UNCHANGED <<owner, resets, explorerVars, known>>

\* An answer to what the device would have asked is taken for nothing.
Stray ==
  /\ rsp' \in {mctp_resolve_eid_rsp, mctp_discovery_notify_rsp}
  /\ UNCHANGED <<g_mctp_ctrl_info, tid, locator, owner, resets, explorerVars, known>>

ResetOwner(h) ==
  /\ resets < MaxResets
  /\ resets' = resets + 1
  /\ OwnerGets(h, [at |-> "idle", eid |-> MCTP_EID_NULL])
  /\ UNCHANGED <<terminusVars, explorerVars, known>>

(***************************************************************************)
(* The controller.                                                         *)
(***************************************************************************)
SetTid(t) ==
  /\ pldm_ctrl_set_tid(t)
  /\ known' = TRUE
  /\ UNCHANGED <<owner, resets, explorerVars>>

\* What a question is answered with.
AnswerTo(q) ==
  CASE q[1] = "eid" -> mctp_get_eid(Via)
    [] q[1] = "tid" -> pldm_ctrl_get_tid
    [] q[1] = "interfaces" -> mctp_query_supported_interfaces
    [] q[1] = "message types" -> mctp_get_msg_type_sup
    [] q[1] = "message version" -> mctp_get_ver_sup(q[2])
    [] q[1] = "vendor" -> mctp_get_vendor_defined_msg_sup(q[2])
    [] q[1] = "rate" -> mctp_query_rate_limit(Via)
    [] q[1] = "limit" -> mctp_request_tx_rate_limit(Via)
    [] q[1] = "update" -> mctp_update_rate_limit
    [] q[1] = "types" -> pldm_ctrl_get_type
    [] q[1] = "version" -> pldm_ctrl_get_ver(q[2], TRUE)
    [] q[1] = "commands" -> pldm_ctrl_get_cmd(q[2], q[3])

\* What the controller asks next because of answer a to question q.
FollowUps(q, a) ==
  CASE a.code # "SUCCESS" -> {}
    [] a.code = "SUCCESS" /\ q[1] = "message types" ->
         {<<"message version", t>> : t \in a.val}
         \cup (IF "VDPCI" \in a.val THEN {<<"vendor", 0>>} ELSE {})
    [] a.code = "SUCCESS" /\ q[1] = "vendor" -> IF a.val = 255 THEN {} ELSE {<<"vendor", a.val>>}
    [] a.code = "SUCCESS" /\ q[1] = "rate" -> IF a.val THEN {<<"limit">>, <<"update">>} ELSE {}
    [] a.code = "SUCCESS" /\ q[1] = "types" -> {<<"version", t>> : t \in a.val}
    [] a.code = "SUCCESS" /\ q[1] = "version" -> {<<"commands", q[2], a.val>>}
    [] OTHER -> {}

\* A question that is not answered is asked again.
Ask ==
  /\ todo # <<>>
  /\ LET q == Head(todo)
         a == AnswerTo(q)
     IN  /\ todo' = Tail(todo) \o SetToSeq(FollowUps(q, a))
         /\ announced' = announced \cup
              (IF q[1] = "commands" /\ a.code = "SUCCESS" THEN {q[2]} \X a.val ELSE {})
         /\ refused' = IF a.code = "SUCCESS" THEN refused ELSE refused \cup {q}
  /\ UNCHANGED <<terminusVars, owner, resets, known>>

DiscoveryNext ==
  \/ \E h \in Interfaces :
       \/ \E answered \in BOOLEAN :
            Prepare(h, answered) \/ Discover(h, answered) \/ Assign(h, answered)
       \/ SetFlag(h) \/ SendRefused(h) \/ ResetOwner(h)
  \/ \E t \in Tids : SetTid(t)
  \/ Stray
  \/ Ask

DiscoverySpec == DiscoveryInit /\ [][DiscoveryNext]_vars

\* A request that is repeated for ever is answered in the end, and the
\* controller goes on asking.
FairSpec ==
  /\ DiscoverySpec
  /\ \A h \in Interfaces :
       SF_vars(Prepare(h, TRUE) \/ Discover(h, TRUE) \/ Assign(h, TRUE))
  /\ WF_vars(Ask)

(***************************************************************************)
(* Properties.                                                             *)
(***************************************************************************)
ControlTypeOK ==
  /\ g_mctp_ctrl_info \in
       [Interfaces -> [discovered : BOOLEAN, dev_eid : Eids \cup {MCTP_EID_NULL}]]
  /\ tid \in Tids \cup {103}
  /\ locator = NoRecord
     \/ locator \in [tid : Tids \cup {103}, eid : Eids \cup {MCTP_EID_NULL}]
  /\ owner \in [Interfaces -> [at : {"idle", "prepared", "found", "assigned"},
                               eid : Eids \cup {MCTP_EID_NULL}]]

\* An owner that was told the endpoint has its address is right, and one that
\* was told there is an endpoint can still give it one - through losses, resets
\* and what the owners of the other interfaces and the controller do.  Over VDM
\* an endpoint that was found, or made ready to be, is not discovered yet.
OwnerIsRight ==
  \A h \in Interfaces :
    /\ owner[h].at = "assigned" =>
         /\ mctp_get_eid(h) = SUCCESS(owner[h].eid)
         /\ mctp_query_supported_interfaces.val[h] = owner[h].eid
    /\ owner[h].at = "prepared" => ~g_mctp_ctrl_info[h].discovered

\* The record in the repository tells where the terminus is, as soon as
\* anything of that was set: its id, and the address of interface 1.
LocatorIsRight ==
  (known /\ locator # NoRecord) =>
    locator = [tid |-> tid, eid |-> g_mctp_ctrl_info[1].dev_eid]

\* Whatever the device announces - message types, versions, PLDM types, a rate
\* limit - it does not refuse when it is asked for it next.
AnnouncedIsAnswered == refused = {}

\* Every owner ends up with an endpoint that has an address, and the
\* controller with nothing left to ask.
DiscoveryEnds ==
  /\ \A h \in Interfaces : <>[](owner[h].at = "assigned")
  /\ <>(todo = <<>>)
=============================================================================
