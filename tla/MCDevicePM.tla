----------------------------- MODULE MCDevicePM -----------------------------
(* A bus, a bridge on it, a device behind the bridge and one on the bus.     *)
EXTENDS DevicePM

CONSTANTS bus, bridge, dev, disk

MCParent == [d \in Devices |-> CASE d = bus -> NoDevice
                                 [] d = dev -> bridge
                                 [] OTHER -> bus]
=============================================================================
