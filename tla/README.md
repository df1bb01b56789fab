# Formal models of the nephe cloud-plugin framework

This directory holds TLA+ models of the cloud integration plane of nephe,
TLC configurations that model-check them, and TLAPS proofs about them. The
models are translated from the Go code under `src/`. `PROJECT.json` lists
the following:

- the components, and which modules model them;
- the runs;
- the mutants each property must catch;
- the map from every TLA+ definition to the source lines it models;
- the hazards of the code and the findings.

## 1. The system and its parts

The cloud integration plane (spec sections 2 and 4) consists of the following
parts:

| Part | Source in this repository | Modelled |
|---|---|---|
| Common plugin framework (`cloudCommon`) | `plugins/internal/cloud_common.go` | yes, `CloudCommon` |
| Azure compute service config (filters, selectors, snapshot, stats, VPC inventory read) | `plugins/azure/azure_compute.go` | partly, `CloudCommon` |
| Azure credential handling | `plugins/azure/azure_account_mgmt.go` | yes, `AccountCredentials` (abstracted in `CloudCommon`) |
| AWS credential handling | `src/unnamed/part_000` | yes, `AccountCredentials` |
| AWS account glue (forwarders to `cloudCommon`) | `src/unnamed/part_001` | behaviour is the framework's |
| Cloud resource naming | `cloudresource/cloudresource.go` | partly, `CloudResource` |
| Interfaces | `cloudapi/common/cloud.go` | no state |
| Account-manager mock, tests, Kind script | `part_002`, `part_003`, `part_004`, `controller_test.go` | not modelled (generated or test code) |
| Security-group synchronizer, inventory poller, account reconciler, secret watcher | not in this snapshot | environment only |

How the parts interact is described below.

- **Callers.** Reconciler goroutines and the inventory poller call into
  `cloudCommon` concurrently.
- **Registry.** `cloudCommon` keeps the registry `accountConfigs`, which maps
  an account to its config and is guarded by an `sync.RWMutex`.
- **Account configs.** Every account config has its own mutex and owns a
  compute service config. A compute service config holds the following:
  - the credentials;
  - the compiled filters (`computeFilters`);
  - deep copies of the selectors;
  - the inventory snapshot;
  - poll stats.
- **Add.** `AddCloudAccount` holds the registry write lock while it resolves
  the secret. It then creates a config or updates the existing one. An update
  calls `UpdateServiceConfig`, which installs the new credentials and re-adds
  every stored selector.
- **Other operations.** Every other operation works in three steps:
  1. look the config up under the read lock;
  2. release the read lock;
  3. take the account mutex.

  Between steps 1 and 3 the account may have been removed, or removed and
  added again as a new config object. The operation then works on the config
  it looked up, not on the one now in the registry.

The modules:

| Module | Role |
|---|---|
| `CloudCommon` | The framework and the Azure compute config, with goroutines, locks and stale config pointers. |
| `AccountStore` | The abstract specification: an account store whose every call is atomic. `CloudCommon` implements it. |
| `AccountCredentials` | Credential resolution and the reload comparison of both providers, over malformed secrets and padded strings. |
| `CloudResource` | The cloud-visible names of security groups. |
| `MC_*` | Instantiate the above for TLC. |
| `CloudCommonProofs`, `InventoryProofs`, `StoreProofs`, `CredentialsProofs`, `CloudResourceProofs` | TLAPS proofs. |

## 2. Module `CloudCommon`

### 2.1 State

| Variable | Code |
|---|---|
| `accountConfigs` | `cloudCommon.accountConfigs`. Config objects are identities `1..MaxConfigs`. |
| `registryWriter` | The goroutine holding the write side of `cloudCommon.mutex`. |
| `accountMutex[c]` | The goroutine holding config `c`'s mutex. |
| `credentials[c]` | `computeServiceConfig.credentials`. A credential payload is a model value; `AccountCredentialsDefault` is the sentinel. |
| `computeFilters[c][s]` | The compiled query of selector `s`: the record `[match, creds]`, i.e. the VNet matched (or `MatchAll` for an empty match list) and the credentials it was compiled under. `NoFilter` means no entry. |
| `selectors[c][s]` | The stored selector copy. |
| `snapshot[c]` | The `resourcesCache` snapshot, as the set of VMs it holds, or `NoSnapshot` for nil. |
| `inventoryInitialized[c]` | The poll-stats initialized flag. |
| `acked` | A ghost variable: the selectors callers have added and not removed. It is the reference the properties compare against. |
| `secrets` | The secret each account references. `BadSecret` does not resolve. |
| `pc`, `tAcct`, `tSel`, `tMatch`, `tCfg` | Each goroutine's program counter, arguments and the config pointer it looked up. |
| `tVms` | The snapshot an inventory reader listed its VPCs from. |

Data is abstracted in the following ways:

- The cloud holds the constant set `VMs`. `VmVnet` maps each VM to its VNet
  and `VmSub` to its subscription.
- A Resource-Graph query returns the VMs of the config's current subscription
  that match the query's subscription and VNet.
- A config object no registry entry and no goroutine refers to is garbage.
  Its identity may be handed out again (`FreeConfigs`), which bounds live
  objects by `MaxConfigs`.

### 2.2 Actions

Each action corresponds to code as follows; the exact lines are in
`PROJECT.json` "map".

- **Lookups.** `RmLookup`, `AfLookup`, `RfLookup`, `PollLookup` and
  `ResetLookup` model `GetCloudAccountByName` under the read lock. A lookup
  is blocked while a writer holds the lock. A lookup that finds nothing
  returns at once and changes nothing, so it is a stutter.
- **AddCloudAccount.**
  - `AddLock` acquires the write lock.
  - `AddResolve` resolves the secret and takes one of three branches:
    - new account, bad secret: return the error and record nothing
      (cloud_common.go:112-116);
    - new account, good secret: fill a fresh config;
    - existing account: go on to the update.
  - `AddUpdate` is `updateCloudAccountConfig` under the account mutex
    (`compareAccountCredentials`, then `UpdateServiceConfig`: install the
    credentials, then re-add every selector). It then releases the write
    lock.
- **RemoveCloudAccount.** `RmDelete` deletes the key under the write lock.
- **Filter operations.** `AfApply` and `RfApply` model the compute config's
  `AddResourceFilters` and `RemoveResourceFilters` under the account mutex.
- **Inventory poll.** `PollLock` then `PollSync` model `DoInventoryPoll`.
  `PollSync` runs `getComputeResourceFilters` and `getVirtualMachines`,
  including the short cut for an empty match list. Its outcome is one of:
  - it publishes the snapshot and sets the stats;
  - it fails and leaves both as they were. With default credentials it
    always fails.
- **ResetApply.** Models `ResetInventoryCache`.
- **VPC inventory.** `InvLookup` and `InvLock` are `GetCloudInventory`
  (lookup, then the account mutex). `InvVpcs` is the first half of
  `GetVpcInventory`: with no snapshot it returns an empty map, otherwise it
  lists the VPCs of the snapshot it read. `InvManaged` is the second half:
  `getManagedVnetIDs` reads the snapshot pointer again
  (azure_compute.go:375) and marks the managed VPCs. `ManagedVnetIDs` is
  that helper: the VNets of the snapshot's VMs.
- **SecretUpdate.** The environment: the referenced secret is edited.

### 2.3 Properties

- **`TypeOK`**: the type invariant.
- **`FiltersFollowSelectors`** (invariant). On every config, a filter is
  installed for a selector exactly when a caller registered that selector and
  has not removed it. The filter is compiled from that selector under the
  config's current credentials. Three code paths must keep this, across
  interleavings of several goroutines:
  - `AddResourceFilters` and `RemoveResourceFilters`;
  - the re-add loop of `UpdateServiceConfig` on a credential reload;
  - stale config pointers.
- **`PollSurfacesSelected`** (action property). A snapshot published by a
  poll holds exactly the VMs of the account's subscription that some
  registered selector matches. This is the union property of spec section 8,
  item 4, including the match-everything short cut.
- **`OperationsComplete`** (liveness). Every call into the framework
  returns: no lock is leaked and no goroutine waits forever.
- **`VpcInventoryFromOneSnapshot`** (action property). The managed set
  `GetVpcInventory` computes from its second read of the snapshot is that of
  the snapshot its first read listed. The reads are not atomic; only the
  account mutex, which every poll and reset needs to publish, keeps them
  together.
- **`StoreRefinement`** (temporal property). `CloudCommon` implements
  `AccountStore` (section 2.5).

### 2.4 Fairness

`FairSpec` adds strong fairness on each goroutine's continuing steps
(`Continue(t)`), which is justified by Go's runtime:

- `sync.Mutex` switches to starvation mode and hands the lock to a waiter
  that has waited 1 ms;
- a pending writer on an `RWMutex` blocks new readers.

So a goroutine whose lock is free again and again eventually gets it. No
fairness is assumed for starting calls, since reconcilers may go idle.

### 2.5 Refinement of `AccountStore`

`AccountStore` says what callers may rely on: each call takes effect at one
instant on the account's entry, an entry holding credentials, the match of
each selector and the snapshot. The mapping sends each registered account to
the credentials, selector copies and snapshot of the config the registry
maps it to, and an unregistered one to `NoAccount`. Then:

- the steps that change the registry or a config (`AddResolve`, `AddUpdate`,
  `RmDelete`, `AfApply`, `RfApply`, `PollSync`, `ResetApply`) are one
  abstract call each;
- lookups, lock steps and every step on an orphaned config (removed from the
  registry after the lookup) are stutters, since no registered entry
  changes.

So the stale pointer window (section 1) is harmless to callers: it is as if
the late call ran before the remove, or did nothing. TLC checks the
refinement as `PROPERTY StoreRefinement` with two config objects, so a
goroutine can hold the orphaned one while a new one is registered. The
mutant `AddResolveIgnoreExisting`, which creates a fresh config for an
account already registered, loses the selectors and is caught.
`StoreImplemented` (section 5.1) proves the refinement for every value of
the constants.

## 2b. Module `AccountCredentials`

It models `extractSecret`, `setAccountCredentials` and
`compareAccountCredentials` of both plugins; `Provider` selects one.

- **Data.** A string is a record `[core, pad]`: its text without
  surrounding whitespace and whether whitespace surrounds it.
  `strings.TrimSpace` (`Trim`) drops the padding. A secret is one of the six
  ways `extractSecret` can fail before decoding (`SecretErrors`: the Get
  fails, no data map, no key, not a string, bad base64, bad JSON), or a
  payload mapping each credential field to a string.
- **AWS** (`part_000`). A missing key or a non-string value panics (the
  unchecked type assertion at line 107). The decoded fields are not
  checked. An error yields no config.
- **Azure.** Every failure is an error. An empty required field is an
  error (line 115). On an error every credential field becomes the
  sentinel `"default"`, and the config is returned with the error.
- **CR settings.** The config copies the CR's string settings, trimmed
  (`CrFields`, `TrimCr`): `Region[0]` for Azure (line 42), `Region` and
  `Endpoint` for AWS (part_000:47-48).
- **Comparators.** Each plugin's `compareAccountCredentials` is its own
  definition. Both compare the stored, untrimmed values with
  `strings.Compare`. Azure (`CompareAccountCredentialsAzure`, lines 57-83)
  compares the four credential fields and the region. AWS
  (`CompareAccountCredentialsAws`, part_000:54-88) compares the five
  credential fields, the region and the endpoint.
- **State.** The secret and the CR's settings are edited by the
  environment.
  `AddNew` and `AddExisting` are `AddCloudAccount` for an absent and a
  registered account (cloud_common.go:103-119): the latter installs the new
  config when the comparator reports a change. A panic ends the process.
- **Properties.**
  - `NoPanic`: no secret content makes resolution panic (spec section 7).
  - `InstalledUsable`: the registered config never has an empty required
    field (spec section 6).
  - `ReloadTracksSecret` (action property): after every add that resolves
    the secret, the registered config equals, up to whitespace, what was
    just resolved. No field edit is lost by the comparison. For AWS this
    includes the endpoint, which its comparator checks last.
  - `ChangeIffTrimmedDiffers` (action property, expected to be violated):
    a change is reported exactly when a trimmed field differs (spec section
    8, property 5).

## 2c. Module `CloudResource`

`SetCloudResourcePrefix` stores the prefix once at start-up (spec section 9;
the caller is not under src). `GetCloudName` recomputes the role's prefix,
caches it in its package variable, reads it back and appends the lowercased
name. Strings are sequences of one-character strings and `ToLower` maps each
through `CaseMap`. A ghost `issued` records the name each group was given.

- `TypeOK` includes that the cached prefixes are unset or derived from the
  configured prefix.
- `NamesIdentifyGroups`: two groups get the same cloud name exactly when
  their roles agree and their names agree up to case. The instance has names
  differing only in case, a name containing an infix, and a prefix ending in
  `-ag`, so that a careless prefix or infix would collide.

## 3. Runs

| Run | Configuration | Checks | Result |
|---|---|---|---|
| `cloudcommon_safety` | `MC_CloudCommon.cfg`: 1 account, 2 selectors, 2 goroutines, 2 subscriptions, 2 VNets, 3 VMs (one in another subscription, one in another VNet), `MaxConfigs = 1`, secrets editable at any time | `TypeOK`, `FiltersFollowSelectors`, `PollSurfacesSelected`, `VpcInventoryFromOneSnapshot` | pass, about 293,000 states |
| `cloudcommon_progress` | `MC_CloudCommonRace.cfg`: 1 account, 1 selector, 2 goroutines, `MaxConfigs = 2`, 1 subscription, no VM and no VNet (no guard reads them; selectors match everything) | `OperationsComplete` under `FairSpec` | pass, about 90,000 states |
| `cloudcommon_store` | `MC_CloudCommonStore.cfg`: the race instance with `MaxConfigs = 2` | `StoreRefinement` | pass, about 563,000 states |
| `credentials_azure` | `MC_CredentialsAzure.cfg`: two required fields; strings empty, plain, padded and a second value; a region that is "a", padded "a" or "b" | `TypeOK`, `NoPanic`, `InstalledUsable`, `ReloadTracksSecret` | pass, 2,772 states |
| `credentials_aws` | `MC_CredentialsAws.cfg`: as above for AWS, with an endpoint taking the same three values; deadlock not checked (a panic ends the process) | `ReloadTracksSecret` | pass, 53,406 states |
| `credentials_aws_panic` | AWS | `NoPanic` | violation |
| `credentials_aws_empty` | AWS | `InstalledUsable` | violation |
| `credentials_azure_trim` | Azure | `ChangeIffTrimmedDiffers` | violation |
| `cloudresource_names` | two prefixes, four names, both roles; deadlock not checked (the run ends once every group is named) | `TypeOK`, `NamesIdentifyGroups` | pass, 513 states |

Why the bounds are enough:

- **Two goroutines** are enough for every pairwise race, and every
  hazardous race in this code is pairwise:
  - a reload against a filter add;
  - a remove against a lookup;
  - a poll against an update.
- **Two selectors** make the union and the short cut observable.
- **Two subscriptions** make a credential change observable in the compiled
  filters and in the poll result.
- **`MaxConfigs = 1`** in the safety run still lets a remove and a re-add
  recycle the single config object.
- **`MaxConfigs = 2`** in the progress run keeps a stale config alive next
  to the new one, which is what the lookup-then-lock window allows.

Each property of a passing run has a mutant in `PROJECT.json` that TLC shows
is caught:

| Mutant | Property that catches it |
|---|---|
| `AddResolveNoErrCheck`: the resolution error is ignored | `TypeOK` |
| `AddUpdateStaleCompile`: selectors are re-added before the credentials are installed | `FiltersFollowSelectors` |
| `FetchVirtualMachinesSkipAll`: the match-everything short cut is dropped | `PollSurfacesSelected` |
| `PollSyncKeepLock`: the error path keeps the mutex | `OperationsComplete` |
| `InvLockNoMutex`: `GetCloudInventory` reads without the account mutex | `VpcInventoryFromOneSnapshot` |
| `AddResolveIgnoreExisting`: a registered account gets a fresh config | `StoreRefinement` |
| `ExtractSecretAzureUnchecked`: the AWS type assertion in the Azure plugin | `NoPanic` |
| `ExtractSecretAzureNoEmptyCheck`: the empty-field check dropped | `InstalledUsable` |
| `CompareAccountCredentialsAzureSkipField`: one credential field not compared | `ReloadTracksSecret` (Azure) |
| `CompareAccountCredentialsAwsNoEndpoint`: the endpoint not compared | `ReloadTracksSecret` (AWS) |
| `SetAccountCredentialsAzureNoTrim`: the region not trimmed | `TypeOK` (Azure) |
| `GetCloudNameSwappedCache`: the applied-to prefix cached in the wrong variable | `TypeOK` (CloudResource) |
| `GetCloudNameNoLower`: the name appended as spelled | `NamesIdentifyGroups` |

## 4. Findings

1. **The AWS plugin panics on a malformed secret** (run
   `credentials_aws_panic`). `extractSecret` (part_000:107) asserts
   `data[s.Key].(string)` without the ok form. A secret without the key, or
   with a non-string under it, panics the controller. Spec section 7 says
   plugins never panic. The Azure plugin checks (azure_account_mgmt.go:102).
2. **The AWS plugin accepts empty credentials** (run
   `credentials_aws_empty`). Nothing checks the decoded fields, so an empty
   `accessKeyId` or `accessKeySecret` is registered. Spec section 6 calls
   that a resolution failure. The Azure plugin checks (line 115).
3. **Whitespace-only edits count as credential changes** (run
   `credentials_azure_trim`). `compareAccountCredentials`
   (azure_account_mgmt.go:62, and part_000:59 for AWS) compares the fields
   untrimmed; only the region is trimmed. An edit that adds or strips
   surrounding whitespace (the counterexample strips it) is reported as a
   change. Spec section 8, property 5, says a
   change is detected iff a trimmed field differs. The effect is a needless
   rebuild of the SDK clients and re-add of every selector; no edit is lost
   (`ReloadTracksSecret` holds).

## 5. Proofs

`CloudCommonProofs.tla` proves the following for every value of the
constants allowed by `ConstantsAssumption`: at least one account and one
selector, `MaxConfigs >= 1`, and the sentinels distinct from real values.

- **`TypeCorrect`** (`Spec => []TypeOK`). `TypeOK` is not inductive on its
  own. `AddResolve` picks a free config object, and the proof needs to know
  one exists. The inductive invariant `TypeInv` adds `AddInv`:
  - a goroutine inside `AddCloudAccount` holds the write lock, so there is at
    most one such goroutine;
  - when it is about to create a config, a config object is free or the
    account is registered. Nobody could register or look up meanwhile,
    because the lock has been held since `AddLock` checked it;
  - every goroutine past its lookup holds a real config identity.

  The proof has one case per action. Each case splits into `TypeOK'` and
  `AddInv'`. It rests on these lemmas:
  - `FreeGrows`: a step that only drops config pointers frees no less than
    before;
  - `FetchInVMs`;
  - `RecompileType`.
- **`FiltersAlwaysFollowSelectors`** (`Spec => []FiltersFollowSelectors`).
  The inductive invariant `FilterInv` is `TypeInv`, plus
  `selectors = acked`, plus the property itself. The middle conjunct says the
  selector copies `UpdateServiceConfig` re-adds are exactly the selectors
  callers registered. Without it the re-add loop could not be shown to
  rebuild the right filters. Only four actions touch the filter state:
  - `AddResolve`: a fresh config is empty;
  - `AddUpdate`: every stored selector is recompiled under the new
    credentials;
  - `AfApply`;
  - `RfApply`.

  `OtherStepsKeepFilters` shows that all other steps leave that state
  unchanged.

TLC checked both inductive invariants on the instances of both runs before
they were proved.

- **`InventoryFromOneSnapshot`** (`InventoryProofs.tla`,
  `Spec => VpcInventoryFromOneSnapshot`). The inductive invariant `InvInv`
  is `TypeInv` plus two conjuncts:
  - `LockInv`: a goroutine polling or reading the inventory holds the mutex
    of the config it looked up;
  - `SnapInv`: a reader about to compute the managed set still sees, in its
    config, the snapshot it listed.

  `SnapInv` alone is not inductive: a poll of the same config could replace
  the snapshot. `LockInv` rules that out, because `PollSync` and
  `ResetApply` run under the same mutex. Each action gets a lemma, built on
  three shape lemmas: a step that leaves the locks alone, one that takes a
  lock, one that releases it.
- **`AzureInstalledUsable`** (`CredentialsProofs.tla`, for
  `Provider = "azure"`: `Spec => []InstalledUsable`). The lemma
  `AzureResolved` shows that `setAccountCredentials` either succeeds with no
  empty required field or fails with the sentinel in every field, and the
  sentinel is not a string value (`CredentialsAssumption`). The inductive
  invariant adds the secret's type.

### 5.1 The refinement and the poll (`StoreProofs.tla`)

- **`StoreImplemented`** (`Spec => StoreRefinement`). `CloudCommon` names
  its refinement mapping `StoreMap`. It sends each account to the record of
  the config object it is registered under. The named assumption
  `NoConfigAssumption` says `NoConfig` is not such a record, so a
  registered account never looks unregistered. The proof follows the usual
  layout:
  - `Init` maps to `Store!Init`;
  - every step under the inductive invariant is a `Store!Next` step or a
    stutter;
  - a `PTL` step joins the two.

  The inductive invariant `RefInv` is `FilterInv` plus `RegInv`, whose two
  conjuncts are:
  - no config object is registered under two accounts. `AddResolve`
    registers only a free one. Without this, one `AfApply` would change two
    abstract accounts;
  - a goroutine at `AddUpdate` works on the config registered for its
    account. It has held the write lock since the lookup, and `RmDelete`
    needs that lock. Without this, a credential reload could land on an
    orphaned config while the abstract `Add` changed the registered one.

  `RegInv` was model-checked first, with two accounts and two config
  objects (5.2 million states), and then proved inductive (`RegStep`).
  There is one refinement lemma per state-changing step (`RefAddResolve`
  ... `RefResetApply`). Each lemma splits on whether the goroutine's config
  is still registered:
  - if it is, `ConfigChange` shows that only that account's record
    changes;
  - if not, `StaleConfigStep` shows the step is a stutter.

  `FetchIsSelection` proves that the fetch through the compute filters,
  with its match-everything short cut and its empty case, is the abstract
  `Selection` of the selectors.
- **`PollsSurfaceSelected`** (`Spec => PollSurfacesSelected`, an action
  property). Only `PollSync` publishes a non-nil snapshot. By
  `FetchIsSelection` and `selectors = acked`, what it publishes is
  `Selected(acked[c], credentials[c])`. The proof is `FilterInv` with the
  step lemma `PollPublishes`.

### 5.2 Credentials (`CredentialsProofs.tla`)

The config type `CfgType` and the named assumption `NoCfgAssumption` (a nil
config is not a config) live in `AccountCredentials`, so TLC evaluates them
on every credentials run. The lemma `Resolved` proves, for both providers,
that `setAccountCredentials` returns status ok, err or panic, with a config
of `CfgType` whenever the status is ok.

- **`TypeCorrect`** (`Spec => []TypeOK`, both providers). `TypeOK` is
  inductive once `Resolved` is known. TLC checks `TypeOK` on the Azure run
  only; for AWS its content beyond types is the trimming the proof covers. The `AddExisting` case splits on
  whether the resolution panics or returns no config.
- **`AzureNoPanic`** (`Provider = "azure"`: `Spec => []NoPanic`). Azure's
  resolution never panics. For AWS, `credentials_aws_panic` shows the
  opposite.
- **`ReloadsTrackSecret`** (`Spec => ReloadTracksSecret`, both providers).
  The step lemma `ReloadStep` shows that a successful resolution always
  installs exactly the resolved config. When the reload comparison finds no
  difference, the installed config is the resolved one already. That rests
  on `CompareComplete`: for each provider, two configs its
  `compareAccountCredentials` finds unchanged are equal. For Azure the
  config stores the region; for AWS the region and the endpoint. `CfgExt`
  says configs agreeing on every credential field and every CR setting are
  equal.

### 5.3 Cloud names (`CloudResourceProofs.tla`)

- **`CloudNamesIdentifyGroups`** (`Spec => []NamesIdentifyGroups`). The
  inductive invariant `NameInv` adds two facts to `TypeOK`:
  - every name issued equals `CloudName(ControllerPrefix, g)`;
  - before `SetCloudResourcePrefix` nothing is named or cached.

  The invariant is needed because the property relates names issued at
  different times. Equal names then mean equal prefixes only because the
  prefix is set once, before the first name. The lemma
  `CloudNameIdentifies` proves that the names of two groups under one
  prefix are equal exactly when their roles and lowercased names are. The
  two infixes have equal length and differ, so cancelling the prefix
  (`ConcatCancel`) and comparing the first `Len(infix)` characters tells
  the roles apart. The rest is the lowercased name.
- **`CachedPrefixesCurrent`** (`Spec => []TypeOK`). It follows from the
  same invariant.

The sequence lemmas of `SequenceTheorems` are wrapped in local lemmas over
`Seq(Chars)` (`ConcatAssoc`, `ConcatCancel`). They are cited with
`BY ONLY`, because the SMT backend does not find the instance among many
hypotheses.

### 5.4 What stays model-checked only

- `OperationsComplete` is liveness under strong fairness. TLAPS's backends
  do not handle the `ENABLED` and fairness reasoning it needs.
- The properties of the violation runs (`NoPanic` for AWS, `InstalledUsable` for AWS, `ChangeIffTrimmedDiffers`) are false of
  the code. The runs exhibit the counterexamples.

TLC checked every inductive invariant above, as an invariant of a run,
before it was proved.

## 6. Not modelled, and why

- **Read-only operations.** `GetStatus`, `GetCloudAccounts` and
  `GetCloudAccountByAccountId` change no state. `GetCloudInventory` and
  `GetVpcInventory` are modelled for their double read of the snapshot.
- **VNet list and peering map.** The snapshot is modelled as its VMs;
  `buildMapVpcPeers`, `getVnetPeers`, `getManagedVnets` and
  `GetInternalResourceObjects` only project it. `GetInternalResourceObjects`
  also reads the snapshot twice (azure_compute.go:288-289), but nothing
  under src calls it.
- **`waitForInventoryInit`** (azure_compute.go:100-113). Nothing under src
  calls it, so its backoff and timeout are unreachable in this snapshot.
- **Failing query compilation.** The query builders are not under src and
  are taken to be total:
  - `convertSelectorToComputeQuery`, so the error exit of
    `AddResourceFilters` (azure_compute.go:275-276) and the partial failure
    of the re-add loop (azure_compute.go:322) are not exercised;
  - `getVMsBySubscriptionIDsAndTenantIDsAndLocationsMatchQuery`, the
    match-everything builder, whose inputs are the fixed subscription,
    tenant and region. Its error exit (azure_compute.go:228-230) returns
    `(nil, false)`, and the poll would then publish an empty snapshot
    instead of the selected VMs. `PollSurfacesSelected` assumes that exit
    is never taken.
- **Adding an account whose secret does not resolve.** `AddCloudAccount`
  (cloud_common.go:113) returns the error of `newCloudAccountConfig` and
  records nothing. Spec section 4.2 describes a record with default
  credentials, but section 9 leaves this fallback open and prefers the
  "fully rejected" reading the code implements. `newCloudAccountConfig` is
  not under src. So the model follows the code and reports no divergence.
- **AWS role fields.** The session token, role ARN and external ID are
  credential fields like the others; the instances use two fields per
  provider.
- **Formatting in `cloudresource.go`.** The `String` methods, the rule
  description and `CloudRule.GetHash` (SHA-1 of the JSON form) have no
  caller under src. The rule and content types carry no behaviour.
- **Interfaces, generated mocks, tests and scripts** (`cloud.go`,
  `part_002` to `part_004`, `controller_test.go`). No state-changing code of
  the system.
- **Parts whose code is absent from this snapshot.** The security-group
  synchronizer, the account manager, the poller, the reconciler and the
  secret watcher.

## 7. Plan for later work

1. Model the credential resolution of `CloudCommon` by that of
   `AccountCredentials`, through a refinement, instead of the abstraction
   `ResolveCredentials`.
2. Prove `InstalledUsable` for the Azure case of the composed model.
3. Extend `CloudResource` with the rule and content types once their
   callers are in the snapshot.
