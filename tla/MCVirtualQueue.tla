---------------------------- MODULE MCVirtualQueue ----------------------------
(***************************************************************************)
(* VirtualQueue for TLC: the first user may have the queue open on two     *)
(* devices.                                                                *)
(***************************************************************************)
EXTENDS VirtualQueue, TLC

CONSTANTS u1, u2, k1, k2, k3, c1, c2, p1, p2

TwoDevices == (k1 :> u1) @@ (k2 :> u1) @@ (k3 :> u2)

OneDevice == (k1 :> u1) @@ (k3 :> u2)

OneEach == (c1 :> p1) @@ (c2 :> p2)

OneCall == c1 :> p1
=============================================================================
