-------------------------- MODULE MCNcsiController --------------------------
(* Two ports.  The second one gets every command; the first one those that   *)
(* decide which port transmits, and those of the generator, but for the      *)
(* package status, which no command looks at.                               *)
EXTENDS NcsiController

MCModes == {1, 256}
MCSpeeds == {"1G"}
MCLinks == {[p \in {0, 1} |-> [up |-> p \in up, speed |-> "1G"]] : up \in {{}, {1}}}

Deciding == {"reset_channel", "enable_network_tx", "disable_network_tx"}
Setting == {"enable_channel", "disable_channel", "clear_initial_state",
            "enable_aen", "enable_vlan", "disable_vlan", "set_link",
            "enable_broadcast_filter", "disable_broadcast_filter"}

MCRequests ==
  {r \in AllRequests :
     \/ r.pkg = 0 /\ r.chn \in {0, 1, AllChannels} /\ r.cmd \in Deciding
     \/ r.pkg = 0 /\ r.chn = 1 /\ r.cmd \in Setting
     \/ r.pkg = 0 /\ r.chn = 1 /\ r.cmd \in {"get_parameters", "get_link_status"}
     \/ r.pkg = 0 /\ r.chn = AllChannels /\ r.cmd = "enable_aen" /\ r.arg = 1
     \/ r.pkg = 1 /\ r.chn = 0 /\ r.cmd = "reset_channel"
     \/ r.pkg = 0 /\ r.chn = 2 /\ r.cmd = "enable_channel"}
    \cup {r \in ncsi_cmd_gen : r.cmd \notin {"enable_channel", "select_package",
                                           "deselect_package", "clear_initial_state"}}

MCWatched == [chn : {1}, field : {"TX_ENABLE", "aen_mode", "vlan_mode", "bc_mode", "link"}]
=============================================================================
