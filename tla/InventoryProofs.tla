--------------------------- MODULE InventoryProofs ---------------------------
(***************************************************************************)
(* Proof, for every value of the constants, that GetVpcInventory's two     *)
(* reads of the snapshot see the same snapshot: the account mutex that     *)
(* GetCloudInventory holds keeps every writer of that snapshot out.        *)
(***************************************************************************)
EXTENDS CloudCommonProofs

\* The program points at which a goroutine holds its config's mutex across
\* steps: the cloud query of a poll and the two reads of GetVpcInventory.
LockPcs == {"PollSync", "InvVpcs", "InvManaged"}

(* LockInv: a goroutine at one of those points holds the mutex of the      *)
(* config it looked up (so no two of them work on one config at once).     *)
LockInv ==
    \A u \in Threads : pc[u] \in LockPcs => accountMutex[tCfg[u]] = u

(* SnapInv: between its two reads, GetVpcInventory's snapshot is still the *)
(* published one.                                                          *)
SnapInv ==
    \A u \in Threads : pc[u] = "InvManaged" => snapshot[tCfg[u]] = tVms[u]

\* The inductive invariant behind VpcInventoryFromOneSnapshot.
InvInv == TypeInv /\ LockInv /\ SnapInv

-----------------------------------------------------------------------------
(* Three shapes of step cover every action.                                *)

\* A goroutine whose step neither takes nor frees a mutex, leaves the
\* snapshots the readers hold alone, and ends outside LockPcs.
LEMMA FrameStep ==
    ASSUME TypeInv, LockInv, SnapInv, NEW t \in Threads,
           accountMutex' = accountMutex,
           \A u \in Threads : pc[u] = "InvManaged"
                                => snapshot'[tCfg[u]] = snapshot[tCfg[u]],
           pc'[t] \notin LockPcs,
           \A u \in Threads \ {t} : /\ pc'[u] = pc[u]
                                    /\ tCfg'[u] = tCfg[u]
                                    /\ tVms'[u] = tVms[u]
    PROVE  LockInv' /\ SnapInv'
BY DEF LockInv, SnapInv, LockPcs

\* A goroutine that takes the free mutex of the config it holds.
LEMMA AcquireStep ==
    ASSUME TypeInv, LockInv, SnapInv, NEW t \in Threads,
           pc[t] \notin LockPcs,
           tCfg[t] \in ConfigIds,
           accountMutex[tCfg[t]] = NoThread,
           accountMutex' = [accountMutex EXCEPT ![tCfg[t]] = t],
           snapshot' = snapshot,
           pc'[t] \in LockPcs \ {"InvManaged"},
           tCfg'[t] = tCfg[t],
           \A u \in Threads \ {t} : /\ pc'[u] = pc[u]
                                    /\ tCfg'[u] = tCfg[u]
                                    /\ tVms'[u] = tVms[u]
    PROVE  LockInv' /\ SnapInv'
<1>1. \A u \in Threads \ {t} : pc[u] \in LockPcs => tCfg[u] # tCfg[t]
    BY ConstantsAssumption DEF LockInv
<1>2. LockInv'
    BY <1>1 DEF LockInv, TypeInv, TypeOK
<1>3. SnapInv'
    BY DEF SnapInv, LockPcs
<1>4. QED
    BY <1>2, <1>3

\* A goroutine in LockPcs that frees its mutex and returns; its step may
\* replace the snapshot of its own config only.
LEMMA ReleaseStep ==
    ASSUME TypeInv, LockInv, SnapInv, NEW t \in Threads,
           pc[t] \in LockPcs,
           accountMutex' = [accountMutex EXCEPT ![tCfg[t]] = NoThread],
           \A d \in ConfigIds : d # tCfg[t] => snapshot'[d] = snapshot[d],
           pc'[t] \notin LockPcs,
           \A u \in Threads \ {t} : /\ pc'[u] = pc[u]
                                    /\ tCfg'[u] = tCfg[u]
                                    /\ tVms'[u] = tVms[u]
    PROVE  LockInv' /\ SnapInv'
<1>1. \A u \in Threads \ {t} : pc[u] \in LockPcs => tCfg[u] # tCfg[t]
    BY DEF LockInv
<1>2. \A u \in Threads : pc[u] \in LockPcs => tCfg[u] \in ConfigIds
    BY DEF TypeInv, AddInv, LockPcs
<1>3. LockInv'
    BY <1>1, <1>2 DEF LockInv, TypeInv, TypeOK
<1>4. SnapInv'
    BY <1>1, <1>2 DEF SnapInv, LockPcs
<1>5. QED
    BY <1>3, <1>4

-----------------------------------------------------------------------------
(* Every action is one of the three shapes.                                *)

\* The framework calls: a goroutine leaves Idle for a step outside LockPcs.
LEMMA InvokeLock ==
    ASSUME InvInv, NEW t \in Threads, Invoke(t)
    PROVE  LockInv' /\ SnapInv'
<1>1. \A u \in Threads \ {t} : /\ pc'[u] = pc[u]
                               /\ tCfg'[u] = tCfg[u]
                               /\ tVms'[u] = tVms[u]
    BY DEF Invoke, AddLock, RmLookup, AfLookup, RfLookup, PollLookup,
           ResetLookup, InvLookup, Lookup, InvInv, TypeInv, TypeOK
<1>2. /\ accountMutex' = accountMutex
      /\ snapshot' = snapshot
      /\ pc'[t] \notin LockPcs
    BY DEF Invoke, AddLock, RmLookup, AfLookup, RfLookup, PollLookup,
           ResetLookup, InvLookup, Lookup, configVars, InvInv, TypeInv, TypeOK,
           LockPcs
<1>3. QED
    BY <1>1, <1>2, FrameStep DEF InvInv

\* AddCloudAccount's second step fills a config object nobody holds.
LEMMA AddResolveLock ==
    ASSUME InvInv, NEW t \in Threads, AddResolve(t)
    PROVE  LockInv' /\ SnapInv'
<1> DEFINE c == CHOOSE c \in FreeConfigs : TRUE
<1>1. \A u \in Threads \ {t} : /\ pc'[u] = pc[u]
                               /\ tCfg'[u] = tCfg[u]
                               /\ tVms'[u] = tVms[u]
    BY DEF AddResolve, Return, InvInv, TypeInv, TypeOK
<1>2. pc'[t] \notin LockPcs /\ accountMutex' = accountMutex
    BY DEF AddResolve, Return, InvInv, TypeInv, TypeOK, LockPcs
<1>3. \A u \in Threads : pc[u] = "InvManaged"
                           => snapshot'[tCfg[u]] = snapshot[tCfg[u]]
    <2>1. CASE snapshot' = [snapshot EXCEPT ![c] = NoSnapshot]
               /\ FreeConfigs # {}
        <3>1. c \in FreeConfigs
            BY <2>1, ChooseFree
        <3>2. \A u \in Threads : tCfg[u] # c
            BY <3>1 DEF FreeConfigs
        <3>3. QED
            BY <2>1, <3>2
    <2>2. CASE snapshot' = snapshot
        BY <2>2
    <2>3. QED
        <3>1. pc[t] = "AddResolve"
            BY DEF AddResolve
        <3>2. accountConfigs[tAcct[t]] = NoConfig
                => FreeConfigs # {}
            BY <3>1 DEF InvInv, TypeInv, AddInv
        <3>3. QED
            BY <2>1, <2>2, <3>2 DEF AddResolve, configVars
<1>4. QED
    BY <1>1, <1>2, <1>3, FrameStep DEF InvInv

\* The steps that touch no mutex and no snapshot and end in Idle.
LEMMA ApplyLock ==
    ASSUME InvInv, NEW t \in Threads,
           AddUpdate(t) \/ RmDelete(t) \/ AfApply(t) \/ RfApply(t)
    PROVE  LockInv' /\ SnapInv'
<1>1. \A u \in Threads \ {t} : /\ pc'[u] = pc[u]
                               /\ tCfg'[u] = tCfg[u]
                               /\ tVms'[u] = tVms[u]
    BY DEF AddUpdate, RmDelete, AfApply, RfApply, Return, InvInv, TypeInv, TypeOK
<1>2. /\ accountMutex' = accountMutex
      /\ snapshot' = snapshot
      /\ pc'[t] \notin LockPcs
    BY DEF AddUpdate, RmDelete, AfApply, RfApply, Return, configVars, InvInv,
           TypeInv, TypeOK, LockPcs
<1>3. QED
    BY <1>1, <1>2, FrameStep DEF InvInv

\* ResetInventoryCache clears a snapshot whose mutex is free, so no reader
\* in the middle of GetVpcInventory holds it.
LEMMA ResetLock ==
    ASSUME InvInv, NEW t \in Threads, ResetApply(t)
    PROVE  LockInv' /\ SnapInv'
<1> DEFINE c == tCfg[t]
<1>1. \A u \in Threads \ {t} : /\ pc'[u] = pc[u]
                               /\ tCfg'[u] = tCfg[u]
                               /\ tVms'[u] = tVms[u]
    BY DEF ResetApply, Return, InvInv, TypeInv, TypeOK
<1>2. accountMutex' = accountMutex /\ pc'[t] \notin LockPcs
    BY DEF ResetApply, Return, InvInv, TypeInv, TypeOK, LockPcs
<1>3. \A u \in Threads : pc[u] = "InvManaged" => tCfg[u] # c
    BY ConstantsAssumption DEF ResetApply, InvInv, LockInv, LockPcs
<1>4. \A u \in Threads : pc[u] = "InvManaged"
                           => snapshot'[tCfg[u]] = snapshot[tCfg[u]]
    BY <1>3 DEF ResetApply
<1>5. QED
    BY <1>1, <1>2, <1>4, FrameStep DEF InvInv

\* A poll, or GetCloudInventory, takes the account mutex.
LEMMA LockLock ==
    ASSUME InvInv, NEW t \in Threads, PollLock(t) \/ InvLock(t)
    PROVE  LockInv' /\ SnapInv'
<1>1. /\ pc[t] \notin LockPcs
      /\ tCfg[t] \in ConfigIds
      /\ accountMutex[tCfg[t]] = NoThread
      /\ accountMutex' = [accountMutex EXCEPT ![tCfg[t]] = t]
      /\ snapshot' = snapshot
      /\ pc'[t] \in LockPcs \ {"InvManaged"}
      /\ tCfg'[t] = tCfg[t]
    BY DEF PollLock, InvLock, configVars, InvInv, TypeInv, TypeOK, AddInv, LockPcs
<1>2. \A u \in Threads \ {t} : /\ pc'[u] = pc[u]
                               /\ tCfg'[u] = tCfg[u]
                               /\ tVms'[u] = tVms[u]
    BY DEF PollLock, InvLock, InvInv, TypeInv, TypeOK
<1>3. QED
    BY <1>1, <1>2, AcquireStep DEF InvInv

\* The cloud query of a poll publishes its snapshot and frees the mutex.
LEMMA PollSyncLock ==
    ASSUME InvInv, NEW t \in Threads, PollSync(t)
    PROVE  LockInv' /\ SnapInv'
<1>1. /\ pc[t] \in LockPcs
      /\ accountMutex' = [accountMutex EXCEPT ![tCfg[t]] = NoThread]
      /\ pc'[t] \notin LockPcs
    BY DEF PollSync, Return, InvInv, TypeInv, TypeOK, LockPcs
<1>2. \A d \in ConfigIds : d # tCfg[t] => snapshot'[d] = snapshot[d]
    <2>1. snapshot \in [ConfigIds -> (SUBSET VMs) \cup {NoSnapshot}]
        BY DEF InvInv, TypeInv, TypeOK
    <2>2. \/ snapshot' = snapshot
          \/ \E x : snapshot' = [snapshot EXCEPT ![tCfg[t]] = x]
        BY DEF PollSync
    <2>3. QED
        BY <2>1, <2>2
<1>3. \A u \in Threads \ {t} : /\ pc'[u] = pc[u]
                               /\ tCfg'[u] = tCfg[u]
                               /\ tVms'[u] = tVms[u]
    BY DEF PollSync, Return, InvInv, TypeInv, TypeOK
<1>4. QED
    BY <1>1, <1>2, <1>3, ReleaseStep DEF InvInv

\* GetVpcInventory's first read: a nil snapshot returns and unlocks; any
\* other is remembered for the second read.
LEMMA InvVpcsLock ==
    ASSUME InvInv, NEW t \in Threads, InvVpcs(t)
    PROVE  LockInv' /\ SnapInv'
<1> DEFINE c == tCfg[t]
<1>1. \A u \in Threads \ {t} : /\ pc'[u] = pc[u]
                               /\ tCfg'[u] = tCfg[u]
                               /\ tVms'[u] = tVms[u]
    BY DEF InvVpcs, Return, InvInv, TypeInv, TypeOK
<1>2. CASE snapshot[c] = NoSnapshot
    <2>1. /\ pc[t] \in LockPcs
          /\ accountMutex' = [accountMutex EXCEPT ![c] = NoThread]
          /\ snapshot' = snapshot
          /\ pc'[t] \notin LockPcs
        BY <1>2 DEF InvVpcs, Return, configVars, InvInv, TypeInv, TypeOK, LockPcs
    <2>2. QED
        BY <1>1, <2>1, ReleaseStep DEF InvInv
<1>3. CASE snapshot[c] # NoSnapshot
    <2>1. /\ pc' = [pc EXCEPT ![t] = "InvManaged"]
          /\ tVms' = [tVms EXCEPT ![t] = snapshot[c]]
          /\ UNCHANGED <<accountMutex, tCfg, snapshot>>
        BY <1>3 DEF InvVpcs, configVars
    <2>2. accountMutex[c] = t
        BY DEF InvVpcs, InvInv, LockInv, LockPcs
    <2>3. LockInv'
        BY <1>1, <2>1, <2>2 DEF InvInv, LockInv, LockPcs, TypeInv, TypeOK
    <2>4. SnapInv'
        BY <1>1, <2>1 DEF InvInv, SnapInv, TypeInv, TypeOK
    <2>5. QED
        BY <2>3, <2>4
<1>4. QED
    BY <1>2, <1>3

\* GetVpcInventory's second read returns and unlocks.
LEMMA InvManagedLock ==
    ASSUME InvInv, NEW t \in Threads, InvManaged(t)
    PROVE  LockInv' /\ SnapInv'
<1>1. /\ pc[t] \in LockPcs
      /\ accountMutex' = [accountMutex EXCEPT ![tCfg[t]] = NoThread]
      /\ snapshot' = snapshot
      /\ pc'[t] \notin LockPcs
    BY DEF InvManaged, Return, configVars, InvInv, TypeInv, TypeOK, LockPcs
<1>2. \A u \in Threads \ {t} : /\ pc'[u] = pc[u]
                               /\ tCfg'[u] = tCfg[u]
                               /\ tVms'[u] = tVms[u]
    BY DEF InvManaged, Return, InvInv, TypeInv, TypeOK
<1>3. QED
    BY <1>1, <1>2, ReleaseStep DEF InvInv

-----------------------------------------------------------------------------
(* The invariant and the property.                                         *)

LEMMA InvInit == Init => InvInv
<1> SUFFICES ASSUME Init PROVE InvInv
    OBVIOUS
<1>1. TypeInv
    BY TypeInit
<1>2. LockInv /\ SnapInv
    BY DEF Init, LockInv, SnapInv, LockPcs
<1>3. QED
    BY <1>1, <1>2 DEF InvInv

LEMMA InvStep == InvInv /\ [Next]_vars => InvInv'
<1> SUFFICES ASSUME InvInv, [Next]_vars PROVE InvInv'
    OBVIOUS
<1>1. TypeInv'
    BY TypeStep DEF InvInv
<1>2. ASSUME NEW t \in Threads, Invoke(t) \/ Continue(t)
      PROVE  LockInv' /\ SnapInv'
    BY <1>2, InvokeLock, AddResolveLock, ApplyLock, ResetLock, LockLock,
       PollSyncLock, InvVpcsLock, InvManagedLock DEF Continue
<1>3. ASSUME NEW a \in Accounts, NEW v \in SecretValues, SecretUpdate(a, v)
      PROVE  LockInv' /\ SnapInv'
    BY <1>3 DEF SecretUpdate, threadVars, configVars, InvInv, LockInv, SnapInv
<1>4. CASE UNCHANGED vars
    <2>1. UNCHANGED <<pc, tCfg, tVms, accountMutex, snapshot>>
        BY <1>4 DEF vars, threadVars, configVars
    <2>2. QED
        BY <1>1, <2>1 DEF InvInv, LockInv, SnapInv
<1>5. QED
    BY <1>1, <1>2, <1>3, <1>4 DEF Next, InvInv

(* InventoryFromOneSnapshot: in every behaviour, for every number of       *)
(* accounts, goroutines and config objects, the managed set that           *)
(* GetVpcInventory's second read (getManagedVnetIDs) returns is the one of *)
(* the snapshot its first read listed the VPCs from: GetCloudInventory     *)
(* holds the account mutex that every poll and reset must take.            *)
THEOREM InventoryFromOneSnapshot == Spec => VpcInventoryFromOneSnapshot
<1>1. Spec => []InvInv
    BY InvInit, InvStep, PTL DEF Spec
<1>2. InvInv /\ [Next]_vars
        => [\A t \in Threads :
              (pc[t] = "InvManaged" /\ pc'[t] = "Idle")
                  => ManagedVnetIDs(snapshot[tCfg[t]]) = ManagedVnetIDs(tVms[t])]_vars
    BY DEF InvInv, SnapInv
<1>3. QED
    BY <1>1, <1>2, PTL DEF Spec, VpcInventoryFromOneSnapshot

====
