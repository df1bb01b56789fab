--------------------------- MODULE MC_CloudCommon ---------------------------
(* A small instance of CloudCommon for TLC: one account, two selectors, two *)
(* goroutines, two subscriptions.  vm1 and vm2 are in subscription c1 in    *)
(* different VNets, so the two VNet selectors tell them apart; vm3 is in    *)
(* subscription c2, so a filter compiled under stale credentials returns    *)
(* the wrong VMs after a credential switch.                                 *)
EXTENDS CloudCommon, TLC

CONSTANTS vm1, vm2, vm3, n1, n2, c1, c2

MC_Credentials == {c1, c2}
MC_Vnets == {n1, n2}
MC_VMs == {vm1, vm2, vm3}
\* The instance for interleavings of two live config objects: one
\* subscription, one VNet, one VM.
MC_RaceCredentials == {c1}
MC_RaceVnets == {n1}
MC_RaceVMs == {vm1}
\* The instance for progress: no guard of a goroutine step reads VM or VNet
\* data, so the cloud holds no VM (an empty snapshot is still distinct from
\* nil) and selectors only match everything.
MC_NoVMs == {}
MC_NoVnets == {}

MC_VmVnet == [v \in VMs |-> IF v = vm2 THEN n2 ELSE n1]
MC_VmSub == [v \in VMs |-> IF v = vm3 THEN c2 ELSE c1]
=============================================================================
