---------------------------- MODULE MCPdrReader ----------------------------
(* Bounds for model checking the repository and one reader: a port that     *)
(* may find the pool used up in the middle of its records.                  *)
EXTENDS PdrReader

MCNvmList == <<1, NicTemp, TerminusLocator>>
MCSizes ==
  [h \in {1, TerminusLocator, NicTemp} \cup UNION {PortRecords(port) : port \in {0}} |->
     CASE h \in {NicTemp, Temp(0), Power(0)} -> 3
       [] h \in {1, Speed(0), CommChan(0)} -> 2
       [] OTHER -> 1]
MCSpares == {0, 8, 9, 15, 20, 22}
MCLimits == {"low"}
MCTids == {103}
MCEids == {0, 9}
MCCounts == {1, 3}
=============================================================================
