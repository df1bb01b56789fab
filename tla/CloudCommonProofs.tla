------------------------- MODULE CloudCommonProofs -------------------------
(***************************************************************************)
(* Proofs, for every value of the constants, of the type invariant and of  *)
(* FiltersFollowSelectors of CloudCommon.                                  *)
(***************************************************************************)
EXTENDS CloudCommon, TLAPS

(* AddInv: what AddCloudAccount relies on between its steps.  A goroutine  *)
(* inside AddCloudAccount holds the registry write lock (so at most one    *)
(* does); when it is about to create a config, the account is registered   *)
(* or a config object is free (nobody could register or look up meanwhile, *)
(* as the lock is held since AddLock checked it); every goroutine past its *)
(* lookup holds a real config.                                             *)
AddInv ==
    \A t \in Threads :
        /\ pc[t] \in {"AddResolve", "AddUpdate"} => registryWriter = t
        /\ pc[t] = "AddResolve" =>
               accountConfigs[tAcct[t]] # NoConfig \/ FreeConfigs # {}
        /\ pc[t] \notin {"Idle", "AddResolve"} => tCfg[t] \in ConfigIds

\* The inductive invariant behind TypeOK.
TypeInv == TypeOK /\ AddInv

\* The inductive invariant behind FiltersFollowSelectors: the selector
\* copies UpdateServiceConfig re-adds are exactly the selectors callers
\* registered.
FilterInv == TypeInv /\ selectors = acked /\ FiltersFollowSelectors

-----------------------------------------------------------------------------
(* Facts about the values the model chooses.                               *)

\* The locals an idle goroutine holds are an account and a selector.
LEMMA AnyLocals == AnyAccount \in Accounts /\ AnySelector \in Selectors
BY ConstantsAssumption DEF AnyAccount, AnySelector

\* The config AddCloudAccount allocates is a free config object.
LEMMA ChooseFree ==
    FreeConfigs # {} => (CHOOSE c \in FreeConfigs : TRUE) \in FreeConfigs
OBVIOUS

\* A free config object is a config identity.
LEMMA FreeIsConfig == FreeConfigs \subseteq ConfigIds
BY DEF FreeConfigs

\* A step that leaves the registry alone and at most makes goroutines drop
\* the config they hold frees no less than before.
LEMMA FreeGrows ==
    ASSUME accountConfigs' = accountConfigs,
           \A u \in Threads : tCfg'[u] \in {tCfg[u], NoConfig}
    PROVE  FreeConfigs \subseteq FreeConfigs'
BY ConstantsAssumption DEF FreeConfigs

\* A poll only ever returns cloud VMs.
LEMMA FetchInVMs ==
    ASSUME NEW filters, NEW cur
    PROVE  FetchVirtualMachines(filters, cur) \subseteq VMs
BY DEF FetchVirtualMachines, QueryResult

\* The filters UpdateServiceConfig re-adds are compute filters.
LEMMA RecompileType ==
    ASSUME NEW sels \in [Selectors -> Matches \cup {NoMatch}],
           NEW creds \in CredentialValues
    PROVE  RecompileFilters(sels, creds) \in [Selectors -> Filters \cup {NoFilter}]
BY DEF RecompileFilters, CompileFilter, Filters

-----------------------------------------------------------------------------
(* Type correctness.                                                       *)

\* The initial registry, configs and goroutines are well typed.
LEMMA TypeInit == Init => TypeInv
<1> SUFFICES ASSUME Init PROVE TypeInv
    OBVIOUS
<1>1. TypeOK
    <2> USE DEF Init
    <2>1. /\ accountConfigs \in [Accounts -> ConfigIds \cup {NoConfig}]
          /\ registryWriter \in Threads \cup {NoThread}
          /\ accountMutex \in [ConfigIds -> Threads \cup {NoThread}]
          /\ credentials \in [ConfigIds -> CredentialValues]
        BY DEF CredentialValues
    <2>2. computeFilters \in [ConfigIds -> [Selectors -> Filters \cup {NoFilter}]]
        OBVIOUS
    <2>3. /\ selectors \in [ConfigIds -> [Selectors -> Matches \cup {NoMatch}]]
          /\ acked \in [ConfigIds -> [Selectors -> Matches \cup {NoMatch}]]
        OBVIOUS
    <2>4. /\ snapshot \in [ConfigIds -> (SUBSET VMs) \cup {NoSnapshot}]
          /\ inventoryInitialized \in [ConfigIds -> BOOLEAN]
        OBVIOUS
    <2>5. /\ secrets \in [Accounts -> SecretValues]
          /\ pc \in [Threads -> Pcs]
          /\ tAcct \in [Threads -> Accounts]
          /\ tSel \in [Threads -> Selectors]
          /\ tMatch \in [Threads -> Matches]
          /\ tCfg \in [Threads -> ConfigIds \cup {NoConfig}]
          /\ tVms \in [Threads -> SUBSET VMs]
        BY AnyLocals DEF Pcs, Matches
    <2>6. QED
        BY <2>1, <2>2, <2>3, <2>4, <2>5 DEF TypeOK
<1>2. AddInv
    BY DEF Init, AddInv
<1>3. QED
    BY <1>1, <1>2 DEF TypeInv

\* Every step keeps the registry, the configs and the goroutines well typed
\* and keeps AddCloudAccount's lock discipline.
LEMMA TypeStep == TypeInv /\ [Next]_vars => TypeInv'
<1> SUFFICES ASSUME TypeInv, [Next]_vars PROVE TypeInv'
    OBVIOUS
<1> USE ConstantsAssumption, AnyLocals
<1>1. ASSUME NEW t \in Threads, NEW a \in Accounts, AddLock(t, a)
      PROVE  TypeInv'
    <2>1. TypeOK'
        BY <1>1 DEF AddLock, TypeInv, TypeOK, Pcs, configVars
    <2>2. FreeConfigs' = FreeConfigs
        BY <1>1 DEF AddLock, FreeConfigs
    <2>3. AddInv'
        BY <1>1, <2>2 DEF AddLock, TypeInv, TypeOK, AddInv
    <2>4. QED
        BY <2>1, <2>3 DEF TypeInv
<1>2. ASSUME NEW t \in Threads, NEW a \in Accounts, RmLookup(t, a)
      PROVE  TypeInv'
    BY <1>2 DEF RmLookup, Lookup, TypeInv, TypeOK, AddInv, Pcs, configVars, Matches
<1>3. ASSUME NEW t \in Threads, NEW a \in Accounts, NEW sl \in Selectors,
             NEW m \in Matches, AfLookup(t, a, sl, m)
      PROVE  TypeInv'
    BY <1>3 DEF AfLookup, Lookup, TypeInv, TypeOK, AddInv, Pcs, configVars, Matches
<1>4. ASSUME NEW t \in Threads, NEW a \in Accounts, NEW sl \in Selectors,
             RfLookup(t, a, sl)
      PROVE  TypeInv'
    BY <1>4 DEF RfLookup, Lookup, TypeInv, TypeOK, AddInv, Pcs, configVars, Matches
<1>5. ASSUME NEW t \in Threads, NEW a \in Accounts, PollLookup(t, a)
      PROVE  TypeInv'
    BY <1>5 DEF PollLookup, Lookup, TypeInv, TypeOK, AddInv, Pcs, configVars, Matches
<1>6. ASSUME NEW t \in Threads, NEW a \in Accounts, ResetLookup(t, a)
      PROVE  TypeInv'
    BY <1>6 DEF ResetLookup, Lookup, TypeInv, TypeOK, AddInv, Pcs, configVars, Matches
<1>7. ASSUME NEW t \in Threads, AddResolve(t)
      PROVE  TypeInv'
    <2> DEFINE a == tAcct[t]
               c == CHOOSE c \in FreeConfigs : TRUE
    <2>0. /\ pc[t] = "AddResolve"
          /\ registryWriter = t
          /\ a \in Accounts
          /\ \A u \in Threads : pc[u] \in {"AddResolve", "AddUpdate"} => u = t
        BY <1>7 DEF AddResolve, TypeInv, TypeOK, AddInv
    <2>1. CASE /\ accountConfigs[a] = NoConfig
               /\ secrets[a] = BadSecret
               /\ registryWriter' = NoThread
               /\ Return(t)
               /\ UNCHANGED <<accountConfigs, configVars>>
               /\ UNCHANGED <<accountMutex, secrets>>
        <3>1. TypeOK'
            BY <2>1 DEF Return, TypeInv, TypeOK, Pcs, configVars, Matches
        <3>2. AddInv'
            BY <2>0, <2>1 DEF Return, TypeInv, TypeOK, AddInv
        <3>3. QED
            BY <3>1, <3>2 DEF TypeInv
    <2>2. CASE /\ accountConfigs[a] = NoConfig
               /\ secrets[a] # BadSecret
               /\ accountConfigs' = [accountConfigs EXCEPT ![a] = c]
               /\ credentials' = [credentials EXCEPT ![c] = secrets[a]]
               /\ computeFilters' = [computeFilters EXCEPT ![c] =
                                         [s \in Selectors |-> NoFilter]]
               /\ selectors' = [selectors EXCEPT ![c] = [s \in Selectors |-> NoMatch]]
               /\ acked' = [acked EXCEPT ![c] = [s \in Selectors |-> NoMatch]]
               /\ snapshot' = [snapshot EXCEPT ![c] = NoSnapshot]
               /\ inventoryInitialized' = [inventoryInitialized EXCEPT ![c] = FALSE]
               /\ registryWriter' = NoThread
               /\ Return(t)
               /\ UNCHANGED <<accountMutex, secrets>>
        <3>1. c \in ConfigIds
            BY <2>0, <2>2, ChooseFree, FreeIsConfig DEF TypeInv, AddInv
        <3>2. secrets[a] \in CredentialValues
            BY <2>0, <2>2 DEF TypeInv, TypeOK, SecretValues, CredentialValues
        <3>3. TypeOK'
            BY <2>2, <3>1, <3>2 DEF Return, TypeInv, TypeOK, Pcs, Matches,
                                     Filters, NoFilter
        <3>4. AddInv'
            BY <2>0, <2>2 DEF Return, TypeInv, TypeOK, AddInv
        <3>5. QED
            BY <3>3, <3>4 DEF TypeInv
    <2>3. CASE /\ accountConfigs[a] # NoConfig
               /\ pc' = [pc EXCEPT ![t] = "AddUpdate"]
               /\ tCfg' = [tCfg EXCEPT ![t] = accountConfigs[a]]
               /\ UNCHANGED <<accountConfigs, registryWriter,
                              configVars, tAcct, tSel, tMatch, tVms>>
               /\ UNCHANGED <<accountMutex, secrets>>
        <3>1. TypeOK'
            BY <2>0, <2>3 DEF TypeInv, TypeOK, Pcs, configVars
        <3>2. AddInv'
            BY <2>0, <2>3 DEF TypeInv, TypeOK, AddInv
        <3>3. QED
            BY <3>1, <3>2 DEF TypeInv
    <2>4. QED
        BY <1>7, <2>1, <2>2, <2>3 DEF AddResolve
<1>8. ASSUME NEW t \in Threads, AddUpdate(t)
      PROVE  TypeInv'
    <2> DEFINE c == tCfg[t]
               new == ResolveCredentials(secrets[tAcct[t]])
    <2>1. c \in ConfigIds /\ new \in CredentialValues
        BY <1>8 DEF AddUpdate, ResolveCredentials, TypeInv, TypeOK, AddInv,
                    CredentialValues, SecretValues
    <2>2. RecompileFilters(selectors[c], new)
              \in [Selectors -> Filters \cup {NoFilter}]
        BY <2>1, RecompileType DEF TypeInv, TypeOK
    <2>3. /\ credentials' \in [ConfigIds -> CredentialValues]
          /\ computeFilters' \in [ConfigIds -> [Selectors -> Filters \cup {NoFilter}]]
        <3>1. CASE CredentialsChanged(credentials[c], new)
            <4>1. /\ credentials' = [credentials EXCEPT ![c] = new]
                  /\ computeFilters' = [computeFilters EXCEPT ![c] =
                                           RecompileFilters(selectors[c], new)]
                BY <1>8, <3>1 DEF AddUpdate
            <4>2. QED
                BY <2>1, <2>2, <4>1 DEF TypeInv, TypeOK
        <3>2. CASE ~CredentialsChanged(credentials[c], new)
            BY <1>8, <3>2 DEF AddUpdate, TypeInv, TypeOK
        <3>3. QED
            BY <3>1, <3>2
    <2>4. TypeOK'
        BY <1>8, <2>3 DEF AddUpdate, Return, TypeInv, TypeOK, Pcs, Matches
    <2>5. AddInv'
        BY <1>8, <2>1 DEF AddUpdate, Return, TypeInv, TypeOK, AddInv, Pcs
    <2>6. QED
        BY <2>4, <2>5 DEF TypeInv
<1>9. ASSUME NEW t \in Threads, RmDelete(t)
      PROVE  TypeInv'
    <2>1. TypeOK'
        BY <1>9 DEF RmDelete, Return, TypeInv, TypeOK, Pcs, configVars, Matches
    <2>2. AddInv'
        BY <1>9 DEF RmDelete, Return, TypeInv, TypeOK, AddInv, Pcs, configVars, Matches
    <2>3. QED
        BY <2>1, <2>2 DEF TypeInv
<1>10. ASSUME NEW t \in Threads, AfApply(t)
       PROVE  TypeInv'
    <2>1. TypeOK'
        BY <1>10 DEF AfApply, Return, CompileFilter, Filters, NoFilter, CredentialValues, TypeInv, TypeOK, Pcs, configVars, Matches
    <2>2. FreeConfigs \subseteq FreeConfigs'
        BY <1>10, FreeGrows DEF AfApply, Return, TypeInv, TypeOK
    <2>3. AddInv'
        BY <1>10, <2>2 DEF AfApply, Return, CompileFilter, Filters, NoFilter, CredentialValues, TypeInv, TypeOK, AddInv, Pcs, configVars
    <2>4. QED
        BY <2>1, <2>3 DEF TypeInv
<1>11. ASSUME NEW t \in Threads, RfApply(t)
       PROVE  TypeInv'
    <2>1. TypeOK'
        BY <1>11 DEF RfApply, Return, TypeInv, TypeOK, Pcs, configVars, Matches
    <2>2. FreeConfigs \subseteq FreeConfigs'
        BY <1>11, FreeGrows DEF RfApply, Return, TypeInv, TypeOK
    <2>3. AddInv'
        BY <1>11, <2>2 DEF RfApply, Return, TypeInv, TypeOK, AddInv, Pcs, configVars
    <2>4. QED
        BY <2>1, <2>3 DEF TypeInv
<1>12. ASSUME NEW t \in Threads, PollLock(t)
       PROVE  TypeInv'
    <2>1. TypeOK'
        BY <1>12 DEF PollLock, TypeInv, TypeOK, Pcs, configVars, Matches
    <2>2. FreeConfigs \subseteq FreeConfigs'
        BY <1>12, FreeGrows DEF PollLock, TypeInv, TypeOK
    <2>3. AddInv'
        BY <1>12, <2>2 DEF PollLock, TypeInv, TypeOK, AddInv, Pcs, configVars
    <2>4. QED
        BY <2>1, <2>3 DEF TypeInv
<1>13. ASSUME NEW t \in Threads, PollSync(t)
       PROVE  TypeInv'
    <2> DEFINE c == tCfg[t]
    <2>0. /\ c \in ConfigIds
          /\ FetchVirtualMachines(computeFilters[c], credentials[c]) \subseteq VMs
        BY <1>13, FetchInVMs DEF PollSync, TypeInv, AddInv
    <2>1. /\ snapshot' \in [ConfigIds -> (SUBSET VMs) \cup {NoSnapshot}]
          /\ inventoryInitialized' \in [ConfigIds -> BOOLEAN]
        <3>1. CASE snapshot' = [snapshot EXCEPT ![c] =
                       FetchVirtualMachines(computeFilters[c], credentials[c])]
                   /\ inventoryInitialized' =
                       [inventoryInitialized EXCEPT ![c] = TRUE]
            BY <2>0, <3>1 DEF TypeInv, TypeOK
        <3>2. CASE UNCHANGED <<snapshot, inventoryInitialized>>
            BY <3>2 DEF TypeInv, TypeOK
        <3>3. QED
            BY <1>13, <3>1, <3>2 DEF PollSync
    <2>2. TypeOK'
        BY <1>13, <2>1 DEF PollSync, Return, TypeInv, TypeOK, Pcs, Matches
    <2>3. FreeConfigs \subseteq FreeConfigs'
        BY <1>13, FreeGrows DEF PollSync, Return, TypeInv, TypeOK
    <2>4. AddInv'
        BY <1>13, <2>3 DEF PollSync, Return, TypeInv, TypeOK, AddInv, Pcs
    <2>5. QED
        BY <2>2, <2>4 DEF TypeInv
<1>14. ASSUME NEW t \in Threads, ResetApply(t)
       PROVE  TypeInv'
    <2>1. TypeOK'
        BY <1>14 DEF ResetApply, Return, TypeInv, TypeOK, Pcs, configVars, Matches
    <2>2. FreeConfigs \subseteq FreeConfigs'
        BY <1>14, FreeGrows DEF ResetApply, Return, TypeInv, TypeOK
    <2>3. AddInv'
        BY <1>14, <2>2 DEF ResetApply, Return, TypeInv, TypeOK, AddInv, Pcs, configVars
    <2>4. QED
        BY <2>1, <2>3 DEF TypeInv
<1>15. ASSUME NEW a \in Accounts, NEW v \in SecretValues, SecretUpdate(a, v)
       PROVE  TypeInv'
    <2>1. TypeOK'
        BY <1>15 DEF SecretUpdate, TypeInv, TypeOK, configVars, threadVars
    <2>2. FreeConfigs' = FreeConfigs
        BY <1>15 DEF SecretUpdate, threadVars, FreeConfigs
    <2>3. AddInv'
        BY <1>15, <2>2 DEF SecretUpdate, TypeInv, AddInv, threadVars
    <2>4. QED
        BY <2>1, <2>3 DEF TypeInv
<1>18. ASSUME NEW t \in Threads, NEW a \in Accounts, InvLookup(t, a)
       PROVE  TypeInv'
    BY <1>18 DEF InvLookup, Lookup, TypeInv, TypeOK, AddInv, Pcs, configVars, Matches
<1>19. ASSUME NEW t \in Threads, InvLock(t)
       PROVE  TypeInv'
    <2>1. TypeOK'
        BY <1>19 DEF InvLock, TypeInv, TypeOK, Pcs, configVars, Matches
    <2>2. FreeConfigs \subseteq FreeConfigs'
        BY <1>19, FreeGrows DEF InvLock, TypeInv, TypeOK
    <2>3. AddInv'
        BY <1>19, <2>2 DEF InvLock, TypeInv, TypeOK, AddInv, Pcs, configVars
    <2>4. QED
        BY <2>1, <2>3 DEF TypeInv
<1>20. ASSUME NEW t \in Threads, InvVpcs(t)
       PROVE  TypeInv'
    <2> DEFINE c == tCfg[t]
    <2>0. c \in ConfigIds
        BY <1>20 DEF InvVpcs, TypeInv, AddInv
    <2>1. CASE snapshot[c] = NoSnapshot
        <3>0. /\ accountMutex' = [accountMutex EXCEPT ![c] = NoThread]
              /\ Return(t)
              /\ UNCHANGED <<accountConfigs, registryWriter, configVars, secrets>>
            BY <1>20, <2>1 DEF InvVpcs
        <3>1. TypeOK'
            BY <2>0, <3>0 DEF Return, TypeInv, TypeOK, Pcs, configVars, Matches
        <3>2. FreeConfigs \subseteq FreeConfigs'
            BY <3>0, FreeGrows DEF Return, TypeInv, TypeOK
        <3>3. AddInv'
            BY <3>0, <3>2 DEF Return, TypeInv, TypeOK, AddInv, Pcs
        <3>4. QED
            BY <3>1, <3>3 DEF TypeInv
    <2>2. CASE snapshot[c] # NoSnapshot
        <3>0. /\ pc' = [pc EXCEPT ![t] = "InvManaged"]
              /\ tVms' = [tVms EXCEPT ![t] = snapshot[c]]
              /\ UNCHANGED <<accountMutex, tAcct, tSel, tMatch, tCfg>>
              /\ UNCHANGED <<accountConfigs, registryWriter, configVars, secrets>>
            BY <1>20, <2>2 DEF InvVpcs
        <3>1. TypeOK'
            BY <2>0, <2>2, <3>0 DEF TypeInv, TypeOK, Pcs, configVars
        <3>2. FreeConfigs' = FreeConfigs
            BY <3>0 DEF FreeConfigs
        <3>3. AddInv'
            BY <2>0, <3>0, <3>2 DEF TypeInv, TypeOK, AddInv
        <3>4. QED
            BY <3>1, <3>3 DEF TypeInv
    <2>3. QED
        BY <2>1, <2>2
<1>21. ASSUME NEW t \in Threads, InvManaged(t)
       PROVE  TypeInv'
    <2>0. tCfg[t] \in ConfigIds
        BY <1>21 DEF InvManaged, TypeInv, AddInv
    <2>1. TypeOK'
        BY <1>21, <2>0 DEF InvManaged, Return, TypeInv, TypeOK, Pcs, configVars, Matches
    <2>2. FreeConfigs \subseteq FreeConfigs'
        BY <1>21, FreeGrows DEF InvManaged, Return, TypeInv, TypeOK
    <2>3. AddInv'
        BY <1>21, <2>2 DEF InvManaged, Return, TypeInv, TypeOK, AddInv, Pcs, configVars
    <2>4. QED
        BY <2>1, <2>3 DEF TypeInv
<1>16. CASE UNCHANGED vars
    <2>1. FreeConfigs' = FreeConfigs
        BY <1>16 DEF vars, threadVars, FreeConfigs
    <2>2. QED
        BY <1>16, <2>1 DEF vars, configVars, threadVars, TypeInv, TypeOK, AddInv
<1>17. QED
    BY <1>1, <1>2, <1>3, <1>4, <1>5, <1>6, <1>7, <1>8, <1>9, <1>10, <1>11,
       <1>12, <1>13, <1>14, <1>15, <1>16, <1>18, <1>19, <1>20, <1>21
    DEF Next, Invoke, Continue

-----------------------------------------------------------------------------
(* Filters follow the registered selectors.                                *)

\* A compiled filter is never the "no filter" entry.
LEMMA CompiledIsFilter ==
    ASSUME NEW m \in Matches, NEW creds
    PROVE  CompileFilter(m, creds) # NoFilter
BY ConstantsAssumption DEF CompileFilter, NoFilter

\* The four variables FiltersFollowSelectors and the selector copies are about.
FilterVars == <<credentials, computeFilters, selectors, acked>>

\* Only AddCloudAccount, UpdateServiceConfig and the filter operations touch
\* credentials, filters or selectors.
LEMMA OtherStepsKeepFilters ==
    ASSUME [Next]_vars,
           ~\E t \in Threads : AddResolve(t) \/ AddUpdate(t) \/ AfApply(t)
                               \/ RfApply(t)
    PROVE  UNCHANGED FilterVars
<1>1. ASSUME NEW t \in Threads, Invoke(t) PROVE UNCHANGED FilterVars
    BY <1>1 DEF Invoke, configVars, FilterVars, AddLock, RmLookup, AfLookup,
                RfLookup, PollLookup, ResetLookup, InvLookup
<1>2. ASSUME NEW t \in Threads, RmDelete(t) \/ PollLock(t)
      PROVE  UNCHANGED FilterVars
    BY <1>2 DEF configVars, FilterVars, RmDelete, PollLock
<1>3. ASSUME NEW t \in Threads, PollSync(t) \/ ResetApply(t)
      PROVE  UNCHANGED FilterVars
    BY <1>3 DEF FilterVars, PollSync, ResetApply
<1>4. ASSUME NEW a \in Accounts, NEW v \in SecretValues, SecretUpdate(a, v)
      PROVE  UNCHANGED FilterVars
    BY <1>4 DEF configVars, FilterVars, SecretUpdate
<1>5. CASE UNCHANGED vars
    BY <1>5 DEF vars, configVars, FilterVars
<1>7. ASSUME NEW t \in Threads, InvLock(t) \/ InvVpcs(t) \/ InvManaged(t)
      PROVE  UNCHANGED FilterVars
    BY <1>7 DEF configVars, FilterVars, InvLock, InvVpcs, InvManaged
<1>6. QED
    BY <1>1, <1>2, <1>3, <1>4, <1>5, <1>7 DEF Next, Continue

\* Every step keeps the selector copies equal to the registered selectors
\* and the filters compiled from them under the current credentials.
LEMMA FilterStep == FilterInv /\ [Next]_vars => FilterInv'
<1> SUFFICES ASSUME FilterInv, [Next]_vars PROVE FilterInv'
    OBVIOUS
<1> USE ConstantsAssumption
<1>0. TypeInv'
    BY TypeStep DEF FilterInv
<1>1. CASE UNCHANGED FilterVars
    BY <1>0, <1>1 DEF FilterInv, FilterVars, FiltersFollowSelectors
<1>2. ASSUME NEW t \in Threads, AddResolve(t)
      PROVE  FilterInv'
    <2> DEFINE a == tAcct[t]
               c == CHOOSE c \in FreeConfigs : TRUE
    <2>1. CASE UNCHANGED configVars
        BY <1>1, <2>1 DEF configVars, FilterVars
    <2>2. CASE /\ accountConfigs[a] = NoConfig
               /\ credentials' = [credentials EXCEPT ![c] = secrets[a]]
               /\ computeFilters' = [computeFilters EXCEPT ![c] =
                                         [s \in Selectors |-> NoFilter]]
               /\ selectors' = [selectors EXCEPT ![c] = [s \in Selectors |-> NoMatch]]
               /\ acked' = [acked EXCEPT ![c] = [s \in Selectors |-> NoMatch]]
        <3>1. c \in ConfigIds
            BY <1>2, <2>2, ChooseFree, FreeIsConfig
               DEF AddResolve, FilterInv, TypeInv, AddInv
        <3>2. (selectors = acked /\ FiltersFollowSelectors)'
            BY <2>2, <3>1 DEF FilterInv, FiltersFollowSelectors, TypeInv, TypeOK
        <3>3. QED
            BY <1>0, <3>2 DEF FilterInv
    <2>3. QED
        BY <1>2, <2>1, <2>2 DEF AddResolve
<1>3. ASSUME NEW t \in Threads, AddUpdate(t)
      PROVE  FilterInv'
    <2> DEFINE c == tCfg[t]
               new == ResolveCredentials(secrets[tAcct[t]])
    <2>1. c \in ConfigIds /\ UNCHANGED <<selectors, acked>>
        BY <1>3 DEF AddUpdate, FilterInv, TypeInv, AddInv
    <2>2. CASE CredentialsChanged(credentials[c], new)
        <3>1. /\ credentials' = [credentials EXCEPT ![c] = new]
              /\ computeFilters' = [computeFilters EXCEPT ![c] =
                                       RecompileFilters(selectors[c], new)]
            BY <1>3, <2>2 DEF AddUpdate
        <3>2. SUFFICES ASSUME NEW c0 \in ConfigIds, NEW s0 \in Selectors
                       PROVE  /\ (computeFilters'[c0][s0] = NoFilter)
                                     <=> (acked'[c0][s0] = NoMatch)
                              /\ acked'[c0][s0] # NoMatch =>
                                     computeFilters'[c0][s0] =
                                       CompileFilter(acked'[c0][s0], credentials'[c0])
            BY <1>0, <2>1 DEF FilterInv, FiltersFollowSelectors
        <3>3. CASE c0 = c
            <4>1. computeFilters'[c0][s0] =
                      IF selectors[c][s0] = NoMatch THEN NoFilter
                      ELSE CompileFilter(selectors[c][s0], new)
                BY <2>1, <3>1, <3>3 DEF FilterInv, TypeInv, TypeOK,
                                        RecompileFilters
            <4>2. selectors[c][s0] # NoMatch => selectors[c][s0] \in Matches
                BY <2>1 DEF FilterInv, TypeInv, TypeOK
            <4>3. QED
                BY <2>1, <3>1, <3>3, <4>1, <4>2, CompiledIsFilter
                   DEF FilterInv, TypeInv, TypeOK
        <3>4. CASE c0 # c
            BY <2>1, <3>1, <3>4 DEF FilterInv, FiltersFollowSelectors,
                                    TypeInv, TypeOK
        <3>5. QED
            BY <3>3, <3>4
    <2>3. CASE ~CredentialsChanged(credentials[c], new)
        BY <1>1, <1>3, <2>1, <2>3 DEF AddUpdate, FilterVars
    <2>4. QED
        BY <2>2, <2>3
<1>4. ASSUME NEW t \in Threads, AfApply(t)
      PROVE  FilterInv'
    <2> DEFINE c == tCfg[t]
    <2>1. c \in ConfigIds /\ tSel[t] \in Selectors /\ tMatch[t] \in Matches
        BY <1>4 DEF AfApply, FilterInv, TypeInv, TypeOK, AddInv
    <2>2. CompileFilter(tMatch[t], credentials[c]) # NoFilter
        BY <2>1, CompiledIsFilter
    <2>3. (selectors = acked /\ FiltersFollowSelectors)'
        BY <1>4, <2>1, <2>2 DEF AfApply, Return, FilterInv, FiltersFollowSelectors,
                               TypeInv, TypeOK
    <2>4. QED
        BY <1>0, <2>3 DEF FilterInv
<1>5. ASSUME NEW t \in Threads, RfApply(t)
      PROVE  FilterInv'
    <2> DEFINE c == tCfg[t]
    <2>1. c \in ConfigIds /\ tSel[t] \in Selectors
        BY <1>5 DEF RfApply, FilterInv, TypeInv, TypeOK, AddInv
    <2>2. (selectors = acked /\ FiltersFollowSelectors)'
        BY <1>5, <2>1 DEF RfApply, Return, FilterInv, FiltersFollowSelectors,
                          TypeInv, TypeOK
    <2>3. QED
        BY <1>0, <2>2 DEF FilterInv
<1>6. QED
    BY <1>1, <1>2, <1>3, <1>4, <1>5, OtherStepsKeepFilters

(* TypeCorrect: in every behaviour of CloudCommon, for every number of     *)
(* accounts, selectors, goroutines and config objects, the registry, every *)
(* config's credentials, filters, selector copies and snapshot, and every  *)
(* goroutine's locals stay well typed; in particular AddCloudAccount never *)
(* installs an unresolved secret and always finds a config object to fill. *)
THEOREM TypeCorrect == Spec => []TypeOK
<1>1. Init => TypeInv
    BY TypeInit
<1>2. TypeInv /\ [Next]_vars => TypeInv'
    BY TypeStep
<1>3. TypeInv => TypeOK
    BY DEF TypeInv
<1>4. QED
    BY <1>1, <1>2, <1>3, PTL DEF Spec

(* FiltersAlwaysFollowSelectors: in every behaviour, for every number of    *)
(* accounts, selectors, goroutines and config objects, the compute filters *)
(* of each config are exactly its registered selectors compiled under its  *)
(* current credentials, through AddResourceFilters, RemoveResourceFilters  *)
(* and the credential hot-reload of UpdateServiceConfig, whatever stale     *)
(* config pointers the goroutines hold.                                    *)
THEOREM FiltersAlwaysFollowSelectors == Spec => []FiltersFollowSelectors
<1>1. Init => FilterInv
    BY TypeInit DEF Init, FilterInv, FiltersFollowSelectors
<1>2. FilterInv /\ [Next]_vars => FilterInv'
    BY FilterStep
<1>3. FilterInv => FiltersFollowSelectors
    BY DEF FilterInv
<1>4. QED
    BY <1>1, <1>2, <1>3, PTL DEF Spec

=============================================================================
