---------------------------- MODULE MCIpuProbe ----------------------------
(* IpuProbe with two video nodes, two receivers and the two sensors of      *)
(* mipi_bridge_configs.                                                     *)
EXTENDS IpuProbe

MCVideos == <<"video0", "video1">>
MCReceivers == <<"csi0", "csi1">>
MCSensors == <<"sensor0", "sensor1">>

\* The reference machine, the virtual sensor on a secure machine, and a machine
\* whose firmware describes the camera graph.
MCConfigs == {[virt |-> FALSE, secure |-> FALSE, graph |-> FALSE],
              [virt |-> TRUE, secure |-> TRUE, graph |-> FALSE],
              [virt |-> FALSE, secure |-> TRUE, graph |-> TRUE]}

=============================================================================
