---------------------------- MODULE CloudCommon ----------------------------
(***************************************************************************)
(* The common cloud-plugin framework (plugins/internal/cloud_common.go)     *)
(* together with the per-account compute service configuration it drives   *)
(* (plugins/azure/azure_compute.go, azure_account_mgmt.go).                 *)
(*                                                                          *)
(* Goroutines (reconcilers, the inventory poller) call the framework        *)
(* concurrently.  The framework keeps a registry accountConfigs guarded by  *)
(* an RWMutex; every account config has its own mutex.  Every operation     *)
(* but AddCloudAccount looks the config up under the read lock, releases    *)
(* it, and only then takes the account mutex, so the config it works on may *)
(* have been removed (and the account re-added as a new config) meanwhile.  *)
(* AddCloudAccount holds the registry write lock across the secret fetch    *)
(* and the credential update.                                               *)
(*                                                                          *)
(* Data is abstracted: a credential payload is a model value, a selector    *)
(* match is the VNet it selects or MatchAll (empty VM selector list), a     *)
(* compiled Resource-Graph query is the pair <<match, credentials it was     *)
(* compiled under>>, a snapshot is the set of VMs it holds.                 *)
(***************************************************************************)
EXTENDS Naturals, FiniteSets

CONSTANTS
    Accounts,          \* namespaced names of CloudProviderAccounts
    Selectors,         \* namespaced names of CloudEntitySelectors
    Threads,           \* goroutines calling into the framework
    Credentials,       \* credential payloads a valid secret can hold
    Vnets,             \* VNet IDs
    VMs,               \* cloud VMs (all of them exist in the cloud)
    VmVnet,            \* VmVnet[v]: the VNet of VM v
    VmSub,             \* VmSub[v]: the subscription (credentials) owning v
    MaxConfigs,        \* bound on the number of config objects alive at once
    AccountCredentialsDefault, \* the "default" sentinel credentials
    BadSecret,         \* a secret that fails to resolve
    MatchAll,          \* a selector with no match list: everything in scope
    NoMatch,           \* no selector stored under this key
    NoConfig,          \* no account config in the registry
    NoSnapshot,        \* resourcesCache holds nil
    NoThread           \* a mutex nobody holds

ConfigIds == 1..MaxConfigs
Matches == Vnets \cup {MatchAll}
CredentialValues == Credentials \cup {AccountCredentialsDefault}
SecretValues == Credentials \cup {BadSecret}
Filters == [match : Matches, creds : CredentialValues]
\* No compute filter stored under a selector key.
NoFilter == [match |-> NoMatch, creds |-> AccountCredentialsDefault]

ASSUME ConstantsAssumption ==
    /\ Accounts # {}
    /\ Selectors # {}
    /\ MaxConfigs \in Nat \ {0}
    /\ VmVnet \in [VMs -> Vnets]
    /\ VmSub \in [VMs -> Credentials]
    /\ AccountCredentialsDefault \notin Credentials
    /\ BadSecret \notin Credentials
    /\ MatchAll \notin Vnets
    /\ NoMatch \notin Matches
    /\ NoConfig \notin ConfigIds
    /\ NoThread \notin Threads

\* The account records of AccountStore: no registered account looks like an
\* unregistered one.
StoreRecords == [creds : CredentialValues,
                 sels : [Selectors -> Matches \cup {NoMatch}],
                 snap : (SUBSET VMs) \cup {NoSnapshot}]

ASSUME NoConfigAssumption == NoConfig \notin StoreRecords

VARIABLES
    accountConfigs,       \* cloudCommon.accountConfigs: account -> config
    registryWriter,       \* holder of the write side of cloudCommon.mutex
    accountMutex,         \* accountMutex[c]: holder of config c's mutex
    credentials,          \* computeServiceConfig.credentials
    computeFilters,       \* computeServiceConfig.computeFilters
    selectors,            \* computeServiceConfig.selectors (deep copies)
    snapshot,             \* resourcesCache snapshot: VMs seen by the last poll
    inventoryInitialized, \* inventoryStats: a poll has succeeded
    acked,                \* ghost: selectors added by callers and not removed
    secrets,              \* the Kubernetes secret each account references
    pc,                   \* pc[t]: where goroutine t is
    tAcct, tSel, tMatch, tCfg, \* the arguments and locals of goroutine t
    tVms                  \* the snapshot an inventory reader listed its VPCs from

configVars == <<credentials, computeFilters, selectors, snapshot,
                inventoryInitialized, acked>>
threadVars == <<pc, tAcct, tSel, tMatch, tCfg, tVms>>
vars == <<accountConfigs, registryWriter, accountMutex,
          configVars, secrets, threadVars>>

Pcs == {"Idle", "AddResolve", "AddUpdate", "RmDelete", "AfApply",
        "RfApply", "PollLock", "PollSync", "ResetApply",
        "InvLock", "InvVpcs", "InvManaged"}

-----------------------------------------------------------------------------
(* Helpers translated from the plugin code.                                *)

\* setAccountCredentials (Azure): a secret that cannot be resolved yields the
\* "default" sentinel in every credential field (and an error).
ResolveCredentials(secret) ==
    IF secret = BadSecret THEN AccountCredentialsDefault ELSE secret

\* compareAccountCredentials: true when any credential field differs.
CredentialsChanged(old, new) == old # new

\* convertSelectorToComputeQuery: the query is built from the selector's
\* match and the credentials (subscription, tenant, region) of the config.
CompileFilter(match, creds) == [match |-> match, creds |-> creds]

\* The VMs one compiled query returns when run by getVirtualMachineTable
\* with the config's current subscription.
QueryResult(f, cur) ==
    {v \in VMs : /\ VmSub[v] = cur
                 /\ VmSub[v] = f.creds
                 /\ (f.match = MatchAll \/ f.match = VmVnet[v])}

\* Mutant: a selector with an empty match list is skipped instead of
\* turning the whole fetch into a match-everything query.
FetchVirtualMachinesSkipAll(filters, cur) ==
    LET installed == {s \in Selectors : filters[s] # NoFilter
                                         /\ filters[s].match # MatchAll}
    IN  UNION {QueryResult(filters[s], cur) : s \in installed}

\* getComputeResourceFilters + getVirtualMachines: no filter installed means
\* nothing is fetched; any selector with an empty list replaces all queries
\* by one query for everything in the current subscription and region.
\* The builder of that query (line 228) is not under src and takes fixed,
\* non-empty inputs; it is taken never to fail, so its error exit at
\* 229-230, which would publish an empty snapshot, is left out.
FetchVirtualMachines(filters, cur) ==
    LET installed == {s \in Selectors : filters[s] # NoFilter}
    IN  IF installed = {} THEN {}
        ELSE IF \E s \in installed : filters[s].match = MatchAll
             THEN QueryResult(CompileFilter(MatchAll, cur), cur)
             ELSE UNION {QueryResult(filters[s], cur) : s \in installed}

\* UpdateServiceConfig: re-add every stored selector under the new
\* credentials.
RecompileFilters(sels, creds) ==
    [s \in Selectors |-> IF sels[s] = NoMatch THEN NoFilter
                         ELSE CompileFilter(sels[s], creds)]

-----------------------------------------------------------------------------
\* Values the locals of an idle goroutine hold.
AnyAccount == CHOOSE a \in Accounts : TRUE
AnySelector == CHOOSE s \in Selectors : TRUE

Init ==
    /\ accountConfigs = [a \in Accounts |-> NoConfig]
    /\ registryWriter = NoThread
    /\ accountMutex = [c \in ConfigIds |-> NoThread]
    /\ credentials = [c \in ConfigIds |-> AccountCredentialsDefault]
    /\ computeFilters = [c \in ConfigIds |-> [s \in Selectors |-> NoFilter]]
    /\ selectors = [c \in ConfigIds |-> [s \in Selectors |-> NoMatch]]
    /\ snapshot = [c \in ConfigIds |-> NoSnapshot]
    /\ inventoryInitialized = [c \in ConfigIds |-> FALSE]
    /\ acked = [c \in ConfigIds |-> [s \in Selectors |-> NoMatch]]
    /\ secrets \in [Accounts -> SecretValues]
    /\ pc = [t \in Threads |-> "Idle"]
    /\ tAcct = [t \in Threads |-> AnyAccount]
    /\ tSel = [t \in Threads |-> AnySelector]
    /\ tMatch = [t \in Threads |-> MatchAll]
    /\ tCfg = [t \in Threads |-> NoConfig]
    /\ tVms = [t \in Threads |-> {}]

\* A goroutine returns from the framework: its locals are dropped.  This is
\* bookkeeping of the model (the end of a Go call), not a line of the code.
Return(t) ==
    /\ pc' = [pc EXCEPT ![t] = "Idle"]
    /\ tAcct' = [tAcct EXCEPT ![t] = AnyAccount]
    /\ tSel' = [tSel EXCEPT ![t] = AnySelector]
    /\ tMatch' = [tMatch EXCEPT ![t] = MatchAll]
    /\ tCfg' = [tCfg EXCEPT ![t] = NoConfig]
    /\ tVms' = [tVms EXCEPT ![t] = {}]

\* GetCloudAccountByName under the read lock: blocked by a writer.
Lookup(t, a, next) ==
    /\ pc[t] = "Idle"
    /\ registryWriter = NoThread
    /\ accountConfigs[a] # NoConfig
    /\ pc' = [pc EXCEPT ![t] = next]
    /\ tAcct' = [tAcct EXCEPT ![t] = a]
    /\ tCfg' = [tCfg EXCEPT ![t] = accountConfigs[a]]

-----------------------------------------------------------------------------
(* AddCloudAccount: write-lock the registry, resolve the secret, then      *)
(* create a new config or update the existing one.                         *)

\* A config object no registry entry and no goroutine refers to is garbage;
\* its identity may be handed out again for a new object.  A device of the
\* model, standing for Go's allocation and garbage collection: it bounds
\* the live config objects by ConfigIds.
FreeConfigs ==
    {c \in ConfigIds : /\ \A a \in Accounts : accountConfigs[a] # c
                       /\ \A t \in Threads : tCfg[t] # c}

AddLock(t, a) ==
    /\ pc[t] = "Idle"
    /\ registryWriter = NoThread
    /\ accountConfigs[a] # NoConfig \/ FreeConfigs # {}
    /\ registryWriter' = t
    /\ pc' = [pc EXCEPT ![t] = "AddResolve"]
    /\ tAcct' = [tAcct EXCEPT ![t] = a]
    /\ UNCHANGED <<accountConfigs, accountMutex, configVars,
                   secrets, tSel, tMatch, tCfg, tVms>>

\* Mutant: the error of the credential resolution is not checked and the
\* unresolved payload is installed as the config's credentials.
AddResolveNoErrCheck(t) ==
    LET a == tAcct[t]
        c == CHOOSE c \in FreeConfigs : TRUE
    IN
    /\ pc[t] = "AddResolve"
    /\ \/ /\ accountConfigs[a] = NoConfig
          /\ accountConfigs' = [accountConfigs EXCEPT ![a] = c]
          /\ credentials' = [credentials EXCEPT ![c] = secrets[a]]
          /\ computeFilters' = [computeFilters EXCEPT ![c] =
                                    [s \in Selectors |-> NoFilter]]
          /\ selectors' = [selectors EXCEPT ![c] = [s \in Selectors |-> NoMatch]]
          /\ acked' = [acked EXCEPT ![c] = [s \in Selectors |-> NoMatch]]
          /\ snapshot' = [snapshot EXCEPT ![c] = NoSnapshot]
          /\ inventoryInitialized' = [inventoryInitialized EXCEPT ![c] = FALSE]
          /\ registryWriter' = NoThread
          /\ Return(t)
       \/ /\ accountConfigs[a] # NoConfig
          /\ pc' = [pc EXCEPT ![t] = "AddUpdate"]
          /\ tCfg' = [tCfg EXCEPT ![t] = accountConfigs[a]]
          /\ UNCHANGED <<accountConfigs, registryWriter,
                         configVars, tAcct, tSel, tMatch, tVms>>
    /\ UNCHANGED <<accountMutex, secrets>>

\* Mutant: the lookup of an existing config is dropped and every add builds
\* a fresh config object, replacing the registered one.
AddResolveIgnoreExisting(t) ==
    LET a == tAcct[t]
        c == CHOOSE c \in FreeConfigs : TRUE
    IN
    /\ pc[t] = "AddResolve"
    /\ FreeConfigs # {}
    /\ \/ /\ secrets[a] = BadSecret
          /\ registryWriter' = NoThread
          /\ Return(t)
          /\ UNCHANGED <<accountConfigs, configVars>>
       \/ /\ secrets[a] # BadSecret
          /\ accountConfigs' = [accountConfigs EXCEPT ![a] = c]
          /\ credentials' = [credentials EXCEPT ![c] = secrets[a]]
          /\ computeFilters' = [computeFilters EXCEPT ![c] =
                                    [s \in Selectors |-> NoFilter]]
          /\ selectors' = [selectors EXCEPT ![c] = [s \in Selectors |-> NoMatch]]
          /\ acked' = [acked EXCEPT ![c] = [s \in Selectors |-> NoMatch]]
          /\ snapshot' = [snapshot EXCEPT ![c] = NoSnapshot]
          /\ inventoryInitialized' = [inventoryInitialized EXCEPT ![c] = FALSE]
          /\ registryWriter' = NoThread
          /\ Return(t)
    /\ UNCHANGED <<accountMutex, secrets>>

\* newCloudAccountConfig: a secret that does not resolve fails the add and
\* nothing is recorded; otherwise a fresh config object holds the
\* credentials, no filters or selectors, a nil snapshot and zero stats.
AddResolve(t) ==
    LET a == tAcct[t]
        c == CHOOSE c \in FreeConfigs : TRUE
    IN
    /\ pc[t] = "AddResolve"
    /\ \/ /\ accountConfigs[a] = NoConfig
          /\ secrets[a] = BadSecret
          /\ registryWriter' = NoThread
          /\ Return(t)
          /\ UNCHANGED <<accountConfigs, configVars>>
       \/ /\ accountConfigs[a] = NoConfig
          /\ secrets[a] # BadSecret
          /\ accountConfigs' = [accountConfigs EXCEPT ![a] = c]
          /\ credentials' = [credentials EXCEPT ![c] = secrets[a]]
          /\ computeFilters' = [computeFilters EXCEPT ![c] =
                                    [s \in Selectors |-> NoFilter]]
          /\ selectors' = [selectors EXCEPT ![c] = [s \in Selectors |-> NoMatch]]
          /\ acked' = [acked EXCEPT ![c] = [s \in Selectors |-> NoMatch]]
          /\ snapshot' = [snapshot EXCEPT ![c] = NoSnapshot]
          /\ inventoryInitialized' = [inventoryInitialized EXCEPT ![c] = FALSE]
          /\ registryWriter' = NoThread
          /\ Return(t)
       \/ /\ accountConfigs[a] # NoConfig
          /\ pc' = [pc EXCEPT ![t] = "AddUpdate"]
          /\ tCfg' = [tCfg EXCEPT ![t] = accountConfigs[a]]
          /\ UNCHANGED <<accountConfigs, registryWriter,
                         configVars, tAcct, tSel, tMatch, tVms>>
    /\ UNCHANGED <<accountMutex, secrets>>

\* Mutant: UpdateServiceConfig re-adds the selectors before it installs the
\* new credentials, so they are compiled under the old ones.
AddUpdateStaleCompile(t) ==
    LET c == tCfg[t]
        new == ResolveCredentials(secrets[tAcct[t]])
    IN
    /\ pc[t] = "AddUpdate"
    /\ accountMutex[c] = NoThread
    /\ IF CredentialsChanged(credentials[c], new)
       THEN /\ credentials' = [credentials EXCEPT ![c] = new]
            /\ computeFilters' = [computeFilters EXCEPT ![c] =
                                      RecompileFilters(selectors[c], credentials[c])]
       ELSE UNCHANGED <<credentials, computeFilters>>
    /\ registryWriter' = NoThread
    /\ Return(t)
    /\ UNCHANGED <<accountConfigs, accountMutex, selectors,
                   snapshot, inventoryInitialized, acked, secrets>>

\* updateCloudAccountConfig under the account mutex: when the resolved
\* credentials differ, UpdateServiceConfig installs them and re-adds every
\* stored selector.  An unresolvable secret installs the default sentinel.
AddUpdate(t) ==
    LET c == tCfg[t]
        new == ResolveCredentials(secrets[tAcct[t]])
    IN
    /\ pc[t] = "AddUpdate"
    /\ accountMutex[c] = NoThread
    /\ IF CredentialsChanged(credentials[c], new)
       THEN /\ credentials' = [credentials EXCEPT ![c] = new]
            /\ computeFilters' =
                   [computeFilters EXCEPT ![c] = RecompileFilters(selectors[c], new)]
       ELSE UNCHANGED <<credentials, computeFilters>>
    /\ registryWriter' = NoThread
    /\ Return(t)
    /\ UNCHANGED <<accountConfigs, accountMutex, selectors,
                   snapshot, inventoryInitialized, acked, secrets>>

-----------------------------------------------------------------------------
(* RemoveCloudAccount: look up under the read lock, then delete the key    *)
(* under the write lock.                                                   *)

RmLookup(t, a) ==
    /\ Lookup(t, a, "RmDelete")
    /\ UNCHANGED <<accountConfigs, registryWriter, accountMutex,
                   configVars, secrets, tSel, tMatch, tVms>>

RmDelete(t) ==
    /\ pc[t] = "RmDelete"
    /\ registryWriter = NoThread
    /\ accountConfigs' = [accountConfigs EXCEPT ![tAcct[t]] = NoConfig]
    /\ Return(t)
    /\ UNCHANGED <<registryWriter, accountMutex, configVars,
                   secrets>>

-----------------------------------------------------------------------------
(* AddResourceFilters / RemoveResourceFilters on the looked-up config.     *)

AfLookup(t, a, s, m) ==
    /\ Lookup(t, a, "AfApply")
    /\ tSel' = [tSel EXCEPT ![t] = s]
    /\ tMatch' = [tMatch EXCEPT ![t] = m]
    /\ UNCHANGED <<accountConfigs, registryWriter, accountMutex,
                   configVars, secrets, tVms>>

\* computeServiceConfig.AddResourceFilters: compile the selector under the
\* config's credentials and store the filter and a copy of the selector.
AfApply(t) ==
    LET c == tCfg[t]
        s == tSel[t]
    IN
    /\ pc[t] = "AfApply"
    /\ accountMutex[c] = NoThread
    /\ computeFilters' = [computeFilters EXCEPT ![c][s] =
                              CompileFilter(tMatch[t], credentials[c])]
    /\ selectors' = [selectors EXCEPT ![c][s] = tMatch[t]]
    /\ acked' = [acked EXCEPT ![c][s] = tMatch[t]]
    /\ Return(t)
    /\ UNCHANGED <<accountConfigs, registryWriter, accountMutex,
                   credentials, snapshot, inventoryInitialized,
                   secrets>>

RfLookup(t, a, s) ==
    /\ Lookup(t, a, "RfApply")
    /\ tSel' = [tSel EXCEPT ![t] = s]
    /\ UNCHANGED <<accountConfigs, registryWriter, accountMutex,
                   configVars, secrets, tMatch, tVms>>

\* computeServiceConfig.RemoveResourceFilters: delete both map entries.
RfApply(t) ==
    LET c == tCfg[t]
        s == tSel[t]
    IN
    /\ pc[t] = "RfApply"
    /\ accountMutex[c] = NoThread
    /\ computeFilters' = [computeFilters EXCEPT ![c][s] = NoFilter]
    /\ selectors' = [selectors EXCEPT ![c][s] = NoMatch]
    /\ acked' = [acked EXCEPT ![c][s] = NoMatch]
    /\ Return(t)
    /\ UNCHANGED <<accountConfigs, registryWriter, accountMutex,
                   credentials, snapshot, inventoryInitialized,
                   secrets>>

-----------------------------------------------------------------------------
(* DoInventoryPoll: lock the account, query the cloud (a suspension point  *)
(* with the mutex held), publish the snapshot or record the error.         *)

PollLookup(t, a) ==
    /\ Lookup(t, a, "PollLock")
    /\ UNCHANGED <<accountConfigs, registryWriter, accountMutex,
                   configVars, secrets, tSel, tMatch, tVms>>

PollLock(t) ==
    /\ pc[t] = "PollLock"
    /\ accountMutex[tCfg[t]] = NoThread
    /\ accountMutex' = [accountMutex EXCEPT ![tCfg[t]] = t]
    /\ pc' = [pc EXCEPT ![t] = "PollSync"]
    /\ UNCHANGED <<accountConfigs, registryWriter, configVars,
                   secrets, tAcct, tSel, tMatch, tCfg, tVms>>

\* Mutant: the error path of the sync returns without unlocking the mutex.
PollSyncKeepLock(t) ==
    LET c == tCfg[t] IN
    /\ pc[t] = "PollSync"
    /\ \/ /\ credentials[c] # AccountCredentialsDefault
          /\ snapshot' = [snapshot EXCEPT ![c] =
                  FetchVirtualMachines(computeFilters[c], credentials[c])]
          /\ inventoryInitialized' = [inventoryInitialized EXCEPT ![c] = TRUE]
          /\ accountMutex' = [accountMutex EXCEPT ![c] = NoThread]
       \/ UNCHANGED <<snapshot, inventoryInitialized, accountMutex>>
    /\ Return(t)
    /\ UNCHANGED <<accountConfigs, registryWriter, credentials,
                   computeFilters, selectors, acked, secrets>>

\* performInventorySync / DoResourceInventory: with the default sentinel the
\* cloud rejects the calls; otherwise a call may fail transiently.  A failure
\* leaves the previous snapshot in place.
PollSync(t) ==
    LET c == tCfg[t] IN
    /\ pc[t] = "PollSync"
    /\ \/ /\ credentials[c] # AccountCredentialsDefault
          /\ snapshot' = [snapshot EXCEPT ![c] =
                  FetchVirtualMachines(computeFilters[c], credentials[c])]
          /\ inventoryInitialized' = [inventoryInitialized EXCEPT ![c] = TRUE]
       \/ UNCHANGED <<snapshot, inventoryInitialized>>
    /\ accountMutex' = [accountMutex EXCEPT ![c] = NoThread]
    /\ Return(t)
    /\ UNCHANGED <<accountConfigs, registryWriter, credentials,
                   computeFilters, selectors, acked, secrets>>

-----------------------------------------------------------------------------
(* ResetInventoryCache: clear the snapshot and the poll stats.             *)

ResetLookup(t, a) ==
    /\ Lookup(t, a, "ResetApply")
    /\ UNCHANGED <<accountConfigs, registryWriter, accountMutex,
                   configVars, secrets, tSel, tMatch, tVms>>

ResetApply(t) ==
    LET c == tCfg[t] IN
    /\ pc[t] = "ResetApply"
    /\ accountMutex[c] = NoThread
    /\ snapshot' = [snapshot EXCEPT ![c] = NoSnapshot]
    /\ inventoryInitialized' = [inventoryInitialized EXCEPT ![c] = FALSE]
    /\ Return(t)
    /\ UNCHANGED <<accountConfigs, registryWriter, accountMutex,
                   credentials, computeFilters, selectors, acked, secrets>>

-----------------------------------------------------------------------------
(* GetCloudInventory: look the account up, lock its mutex, and build the   *)
(* VPC map of GetVpcInventory, which reads the snapshot pointer twice:     *)
(* once for the VPC list and once, through getManagedVnetIDs, for the set  *)
(* of managed VNet IDs that sets each VPC's managed flag.                  *)

\* getManagedVnetIDs: the managed VNet IDs of the snapshot, which
\* DoResourceInventory collects from the VNet of every selected VM; an empty
\* set when no snapshot is published.
ManagedVnetIDs(snap) ==
    IF snap = NoSnapshot THEN {} ELSE {VmVnet[v] : v \in snap}

InvLookup(t, a) ==
    /\ Lookup(t, a, "InvLock")
    /\ UNCHANGED <<accountConfigs, registryWriter, accountMutex,
                   configVars, secrets, tSel, tMatch, tVms>>

\* Mutant: the inventory is read without taking the account mutex.
InvLockNoMutex(t) ==
    /\ pc[t] = "InvLock"
    /\ pc' = [pc EXCEPT ![t] = "InvVpcs"]
    /\ UNCHANGED <<accountConfigs, registryWriter, accountMutex, configVars,
                   secrets, tAcct, tSel, tMatch, tCfg, tVms>>

InvLock(t) ==
    /\ pc[t] = "InvLock"
    /\ accountMutex[tCfg[t]] = NoThread
    /\ accountMutex' = [accountMutex EXCEPT ![tCfg[t]] = t]
    /\ pc' = [pc EXCEPT ![t] = "InvVpcs"]
    /\ UNCHANGED <<accountConfigs, registryWriter, configVars,
                   secrets, tAcct, tSel, tMatch, tCfg, tVms>>

\* The first read: a nil snapshot returns a nil map (and the deferred
\* unlock runs); otherwise the VPC list is taken from it.
InvVpcs(t) ==
    LET c == tCfg[t] IN
    /\ pc[t] = "InvVpcs"
    /\ \/ /\ snapshot[c] = NoSnapshot
          /\ accountMutex' = [accountMutex EXCEPT ![c] = NoThread]
          /\ Return(t)
       \/ /\ snapshot[c] # NoSnapshot
          /\ pc' = [pc EXCEPT ![t] = "InvManaged"]
          /\ tVms' = [tVms EXCEPT ![t] = snapshot[c]]
          /\ UNCHANGED <<accountMutex, tAcct, tSel, tMatch, tCfg>>
    /\ UNCHANGED <<accountConfigs, registryWriter, configVars, secrets>>

\* The second read, getManagedVnetIDs; the map is returned and the deferred
\* unlock runs.
InvManaged(t) ==
    /\ pc[t] = "InvManaged"
    /\ accountMutex' = [accountMutex EXCEPT ![tCfg[t]] = NoThread]
    /\ Return(t)
    /\ UNCHANGED <<accountConfigs, registryWriter, configVars, secrets>>

-----------------------------------------------------------------------------
(* The environment: the referenced secret is edited.                       *)

SecretUpdate(a, v) ==
    /\ secrets' = [secrets EXCEPT ![a] = v]
    /\ UNCHANGED <<accountConfigs, registryWriter, accountMutex,
                   configVars, threadVars>>

\* The steps a goroutine takes once it has called into the framework.
Continue(t) ==
    \/ AddResolve(t) \/ AddUpdate(t) \/ RmDelete(t) \/ AfApply(t)
    \/ RfApply(t) \/ PollLock(t) \/ PollSync(t) \/ ResetApply(t)
    \/ InvLock(t) \/ InvVpcs(t) \/ InvManaged(t)

Invoke(t) ==
    \E a \in Accounts :
        \/ AddLock(t, a)
        \/ RmLookup(t, a)
        \/ \E s \in Selectors, m \in Matches : AfLookup(t, a, s, m)
        \/ \E s \in Selectors : RfLookup(t, a, s)
        \/ PollLookup(t, a)
        \/ ResetLookup(t, a)
        \/ InvLookup(t, a)

Next ==
    \/ \E t \in Threads : Invoke(t) \/ Continue(t)
    \/ \E a \in Accounts, v \in SecretValues : SecretUpdate(a, v)

\* Go's sync.Mutex hands a contended lock to a waiter that has starved for
\* 1ms, and a pending writer blocks new readers of an RWMutex: a goroutine
\* that keeps finding its lock free now and then eventually gets it.
Fairness == \A t \in Threads : SF_vars(Continue(t))

Spec == Init /\ [][Next]_vars
FairSpec == Spec /\ Fairness

-----------------------------------------------------------------------------
(* Properties.                                                             *)

TypeOK ==
    /\ accountConfigs \in [Accounts -> ConfigIds \cup {NoConfig}]
    /\ registryWriter \in Threads \cup {NoThread}
    /\ accountMutex \in [ConfigIds -> Threads \cup {NoThread}]
    /\ credentials \in [ConfigIds -> CredentialValues]
    /\ computeFilters \in [ConfigIds -> [Selectors -> Filters \cup {NoFilter}]]
    /\ selectors \in [ConfigIds -> [Selectors -> Matches \cup {NoMatch}]]
    /\ snapshot \in [ConfigIds -> (SUBSET VMs) \cup {NoSnapshot}]
    /\ inventoryInitialized \in [ConfigIds -> BOOLEAN]
    /\ acked \in [ConfigIds -> [Selectors -> Matches \cup {NoMatch}]]
    /\ secrets \in [Accounts -> SecretValues]
    /\ pc \in [Threads -> Pcs]
    /\ tAcct \in [Threads -> Accounts]
    /\ tSel \in [Threads -> Selectors]
    /\ tMatch \in [Threads -> Matches]
    /\ tCfg \in [Threads -> ConfigIds \cup {NoConfig}]
    /\ tVms \in [Threads -> SUBSET VMs]

\* The selectors a caller has added to a config and not removed.
AckedSelectors(c) == {s \in Selectors : acked[c][s] # NoMatch}

\* Reference for what a poll must surface: every VM of the current
\* subscription matched by at least one selector a caller has registered
\* (the union over selectors, spec section 8 property 4).
Selected(sel, cur) ==
    {v \in VMs : /\ VmSub[v] = cur
                 /\ \E s \in Selectors : sel[s] \in {MatchAll, VmVnet[v]}}

(* FiltersFollowSelectors: on every config, the compute filters installed  *)
(* are exactly the selectors callers have added and not removed, each      *)
(* compiled from that selector's match under the config's CURRENT          *)
(* credentials.  It is what AddResourceFilters / RemoveResourceFilters and  *)
(* the re-add loop of UpdateServiceConfig on a credential hot-reload must   *)
(* keep together; a removed selector must not come back on a reload.       *)
FiltersFollowSelectors ==
    \A c \in ConfigIds, s \in Selectors :
        /\ (computeFilters[c][s] = NoFilter) <=> (acked[c][s] = NoMatch)
        /\ acked[c][s] # NoMatch =>
               computeFilters[c][s] = CompileFilter(acked[c][s], credentials[c])

(* PollSurfacesSelected: a snapshot published by DoInventoryPoll holds     *)
(* exactly the VMs of the account's subscription that some registered      *)
(* selector matches: the queries built by getComputeResourceFilters (with  *)
(* the match-everything short cut) return the union of the selectors.      *)
PollSurfacesSelected ==
    [][\A c \in ConfigIds :
          (snapshot'[c] # snapshot[c] /\ snapshot'[c] # NoSnapshot)
              => snapshot'[c] = Selected(acked[c], credentials[c])]_vars

(* VpcInventoryFromOneSnapshot: the managed flags GetVpcInventory puts on  *)
(* the VPCs come from the same snapshot as the VPC list: when the second   *)
(* read (getManagedVnetIDs) is made, the managed set it returns is the one *)
(* of the snapshot the first read listed (spec section 3: "managed iff the *)
(* VPC ID is in the snapshot's managed set").  A poll or a reset landing   *)
(* between the two reads would break it.                                   *)
VpcInventoryFromOneSnapshot ==
    [][\A t \in Threads :
          (pc[t] = "InvManaged" /\ pc'[t] = "Idle")
              => ManagedVnetIDs(snapshot[tCfg[t]]) = ManagedVnetIDs(tVms[t])]_vars

(* StoreRefinement: the framework implements the atomic account store of  *)
(* AccountStore.  Seen through the config object the registry holds for    *)
(* each account, every step of every goroutine either is one whole call of *)
(* the store (AddCloudAccount's create or update, RemoveCloudAccount's     *)
(* delete, a filter change, a poll's publish, a reset) or changes nothing  *)
(* a caller can see: the lookups, the lock steps, and any step on a config *)
(* object a goroutine still holds after its account was removed or        *)
(* replaced.                                                               *)
StoreMap ==
    [a \in Accounts |->
        IF accountConfigs[a] = NoConfig THEN NoConfig
        ELSE [creds |-> credentials[accountConfigs[a]],
              sels |-> selectors[accountConfigs[a]],
              snap |-> snapshot[accountConfigs[a]]]]

Store == INSTANCE AccountStore WITH store <- StoreMap, NoAccount <- NoConfig

StoreRefinement == Store!Spec

(* OperationsComplete: every call into the framework returns: no goroutine *)
(* waits forever on the registry lock or an account mutex (no lock is      *)
(* leaked on an error path and the lock order admits no cycle).            *)
OperationsComplete ==
    \A t \in Threads : pc[t] # "Idle" ~> pc[t] = "Idle"

=============================================================================
