---------------------------- MODULE MCProxyBuffer ----------------------------
(* RegisterDevice with a few clients registering the same device.         *)
EXTENDS ProxyBuffer, TLC

\* Clients, devices and data are interchangeable.
Symmetry ==
    Permutations(Clients) \cup Permutations(DeviceIds) \cup Permutations(Data)
=============================================================================
