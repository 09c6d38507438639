--------------------------- MODULE MCTunnelWatch ---------------------------
(* An instance of TunnelWatch for TLC. *)
EXTENDS TunnelWatch

Device(dev, local, local6) ==
    [k \in {"dev", "ifconfig_local", "ifconfig_ipv6_local"} |->
        CASE k = "dev" -> dev [] k = "ifconfig_local" -> local [] OTHER -> local6]

\* Two devices that differ in every variable, one without an IPv4 address, and
\* an environment that does not name its device.
MCDevices ==
    { Device("tun0", V4(10, 8, 0, 2), Absent),
      Device("tun1", V4(10, 9, 0, 2), V6(64768, "other", <<0, 0, 0, 2>>)),
      Device("tun1", Absent, Absent),
      Device(Absent, V4(10, 9, 0, 2), Absent) }
=============================================================================
