---------------------------- MODULE StoreProofs ----------------------------
(***************************************************************************)
(* Proof, for every value of the constants, that CloudCommon implements   *)
(* AccountStore under the refinement mapping StoreMap: every step of every *)
(* goroutine is one whole store call on the account whose config it works  *)
(* on, or leaves every registered account as it was; and that a snapshot  *)
(* a poll publishes is the selection of the registered selectors.         *)
(***************************************************************************)
EXTENDS CloudCommonProofs

(* RegInv: what makes the config steps act on one account.  No config      *)
(* object is registered under two accounts (AddCloudAccount only registers *)
(* a free one), and a goroutine about to update an account's credentials   *)
(* works on the config registered for that account (it has held the       *)
(* registry write lock since it looked the config up, and RemoveCloudAccount *)
(* needs that lock to delete).                                             *)
RegInv ==
    /\ \A a, b \in Accounts :
           accountConfigs[a] = accountConfigs[b] /\ accountConfigs[a] # NoConfig
               => a = b
    /\ \A t \in Threads :
           pc[t] = "AddUpdate" => accountConfigs[tAcct[t]] = tCfg[t]

\* The inductive invariant behind StoreRefinement.
RefInv == FilterInv /\ RegInv

-----------------------------------------------------------------------------
(* RegInv is inductive.                                                    *)

\* A step that leaves the registry alone and sends no goroutine into
\* updateCloudAccountConfig keeps RegInv.
LEMMA RegFrame ==
    ASSUME RegInv,
           accountConfigs' = accountConfigs,
           \A u \in Threads :
               pc'[u] = "AddUpdate" =>
                   pc[u] = "AddUpdate" /\ tAcct'[u] = tAcct[u] /\ tCfg'[u] = tCfg[u]
    PROVE  RegInv'
BY DEF RegInv

\* AddCloudAccount registers only a free config, and moves to the update
\* with the config registered for the account.
LEMMA RegAddResolve ==
    ASSUME TypeInv, RegInv, NEW t \in Threads, AddResolve(t)
    PROVE  RegInv'
<1> DEFINE a == tAcct[t]
           c == CHOOSE c \in FreeConfigs : TRUE
<1>1. a \in Accounts /\ pc[t] = "AddResolve"
    BY DEF AddResolve, TypeInv, TypeOK
<1>2. registryWriter = t
    BY <1>1 DEF TypeInv, AddInv
<1>3. \A u \in Threads : pc[u] # "AddUpdate"
    BY <1>1, <1>2 DEF TypeInv, AddInv
<1>4. CASE /\ accountConfigs[a] = NoConfig
           /\ secrets[a] = BadSecret
           /\ Return(t)
           /\ UNCHANGED accountConfigs
    BY <1>3, <1>4, RegFrame DEF Return, TypeInv, TypeOK
<1>5. CASE /\ accountConfigs[a] = NoConfig
           /\ accountConfigs' = [accountConfigs EXCEPT ![a] = c]
           /\ Return(t)
    <2>1. c \in FreeConfigs
        BY <1>1, <1>5, ChooseFree DEF TypeInv, AddInv
    <2>2. \A b \in Accounts : accountConfigs[b] # c
        BY <2>1 DEF FreeConfigs
    <2>3. (\A x, y \in Accounts :
              accountConfigs[x] = accountConfigs[y] /\ accountConfigs[x] # NoConfig
                  => x = y)'
        BY <1>1, <1>5, <2>2 DEF RegInv, TypeInv, TypeOK
    <2>4. \A u \in Threads : pc'[u] # "AddUpdate"
        BY <1>3, <1>5 DEF Return, TypeInv, TypeOK
    <2>5. QED
        BY <2>3, <2>4 DEF RegInv
<1>6. CASE /\ accountConfigs[a] # NoConfig
           /\ pc' = [pc EXCEPT ![t] = "AddUpdate"]
           /\ tCfg' = [tCfg EXCEPT ![t] = accountConfigs[a]]
           /\ UNCHANGED <<accountConfigs, tAcct>>
    BY <1>1, <1>6 DEF RegInv, TypeInv, TypeOK
<1>7. QED
    BY <1>4, <1>5, <1>6 DEF AddResolve

\* RemoveCloudAccount deletes under the write lock, which no goroutine
\* inside AddCloudAccount lets go of before it has updated the account.
LEMMA RegRmDelete ==
    ASSUME TypeInv, RegInv, NEW t \in Threads, RmDelete(t)
    PROVE  RegInv'
<1>1. \A u \in Threads : pc[u] # "AddUpdate"
    BY ConstantsAssumption DEF RmDelete, TypeInv, AddInv
<1>2. \A u \in Threads : pc'[u] # "AddUpdate"
    BY <1>1 DEF RmDelete, Return, TypeInv, TypeOK
<1>3. QED
    BY <1>2 DEF RmDelete, RegInv, TypeInv, TypeOK

LEMMA RegStep ==
    ASSUME TypeInv, RegInv, [Next]_vars
    PROVE  RegInv'
<1>1. ASSUME NEW t \in Threads, Invoke(t) PROVE RegInv'
    BY <1>1, RegFrame DEF Invoke, AddLock, RmLookup, AfLookup, RfLookup,
                           PollLookup, ResetLookup, InvLookup, Lookup,
                           TypeInv, TypeOK
<1>2. ASSUME NEW t \in Threads,
             \/ AddUpdate(t) \/ AfApply(t) \/ RfApply(t) \/ ResetApply(t)
             \/ PollSync(t) \/ InvManaged(t)
      PROVE  RegInv'
    BY <1>2, RegFrame DEF AddUpdate, AfApply, RfApply, ResetApply, PollSync,
                           InvManaged, Return, TypeInv, TypeOK
<1>3. ASSUME NEW t \in Threads, PollLock(t) \/ InvLock(t) \/ InvVpcs(t)
      PROVE  RegInv'
    BY <1>3, RegFrame DEF PollLock, InvLock, InvVpcs, Return, TypeInv, TypeOK
<1>4. ASSUME NEW a \in Accounts, NEW v \in SecretValues, SecretUpdate(a, v)
      PROVE  RegInv'
    BY <1>4, RegFrame DEF SecretUpdate, threadVars
<1>5. CASE UNCHANGED vars
    BY <1>5, RegFrame DEF vars, threadVars
<1>6. QED
    BY <1>1, <1>2, <1>3, <1>4, <1>5, RegAddResolve, RegRmDelete DEF Next, Continue

-----------------------------------------------------------------------------
(* The refinement mapping.                                                 *)

\* The account record a registered config object stands for.
Rec(c) == [creds |-> credentials[c], sels |-> selectors[c], snap |-> snapshot[c]]

\* A registered account is seen as the record of its config object.
LEMMA RegisteredRec ==
    ASSUME TypeOK, NEW a \in Accounts, accountConfigs[a] # NoConfig
    PROVE  /\ StoreMap[a] = Rec(accountConfigs[a])
           /\ StoreMap[a] # NoConfig
<1>1. StoreMap[a] = Rec(accountConfigs[a])
    BY DEF StoreMap, Rec
<1>2. Rec(accountConfigs[a]) \in StoreRecords
    BY DEF TypeOK, Rec, StoreRecords
<1>3. QED
    BY <1>1, <1>2, NoConfigAssumption

\* A step that touches neither the registry nor the configs' credentials,
\* selectors and snapshots is invisible in the store.
LEMMA MapUnchanged ==
    ASSUME UNCHANGED <<accountConfigs, credentials, selectors, snapshot>>
    PROVE  StoreMap' = StoreMap
BY DEF StoreMap

\* A step on one config object changes the record of the one account it is
\* registered under, or none if it is registered under none.
LEMMA ConfigChange ==
    ASSUME TypeOK, RegInv, NEW a \in Accounts, accountConfigs[a] \in ConfigIds,
           accountConfigs' = accountConfigs,
           \A d \in ConfigIds \ {accountConfigs[a]} :
               /\ credentials'[d] = credentials[d]
               /\ selectors'[d] = selectors[d]
               /\ snapshot'[d] = snapshot[d]
    PROVE  /\ StoreMap = [b \in Accounts |-> StoreMap[b]]
           /\ StoreMap' = [b \in Accounts |->
                             IF b = a
                             THEN [creds |-> credentials'[accountConfigs[a]],
                                   sels |-> selectors'[accountConfigs[a]],
                                   snap |-> snapshot'[accountConfigs[a]]]
                             ELSE StoreMap[b]]
<1> DEFINE c == accountConfigs[a]
<1>1. c # NoConfig
    BY ConstantsAssumption
<1>2. \A b \in Accounts \ {a} : accountConfigs[b] # c
    BY <1>1 DEF RegInv
<1>3. QED
    BY <1>1, <1>2 DEF StoreMap, TypeOK

\* ... and none when it is registered under none.
LEMMA StaleChange ==
    ASSUME TypeOK, NEW STATE c, NEW STATE cr, NEW STATE se, NEW STATE sn,
           c \in ConfigIds,
           accountConfigs' = accountConfigs,
           credentials' = [credentials EXCEPT ![c] = cr],
           selectors' = [selectors EXCEPT ![c] = se],
           snapshot' = [snapshot EXCEPT ![c] = sn],
           \A a \in Accounts : accountConfigs[a] # c
    PROVE  StoreMap' = StoreMap
BY DEF StoreMap, TypeOK

\* What DoInventoryPoll fetches through the compute filters, with the
\* match-everything short cut, is the abstract selection: the VMs of the
\* subscription some registered selector matches.
LEMMA FetchIsSelection ==
    ASSUME FilterInv, NEW c \in ConfigIds, credentials[c] \in Credentials
    PROVE  FetchVirtualMachines(computeFilters[c], credentials[c])
               = Store!Selection(selectors[c], credentials[c])
<1> DEFINE f == computeFilters[c]
           cur == credentials[c]
           sel == selectors[c]
           installed == {s \in Selectors : f[s] # NoFilter}
<1> USE ConstantsAssumption
<1>1. \A s \in Selectors : sel[s] \in Matches \cup {NoMatch}
    BY DEF FilterInv, TypeInv, TypeOK
<1>2. \A s \in Selectors :
          /\ sel[s] = NoMatch => f[s] = NoFilter
          /\ sel[s] # NoMatch => f[s] = CompileFilter(sel[s], cur)
    BY DEF FilterInv, FiltersFollowSelectors
<1>3. installed = {s \in Selectors : sel[s] # NoMatch}
    BY <1>1, <1>2, CompiledIsFilter
<1>4. \A v \in VMs : VmVnet[v] \in Vnets /\ VmSub[v] \in Credentials
    OBVIOUS
<1>5. CASE installed = {}
    <2>1. \A s \in Selectors, v \in VMs : sel[s] \notin {MatchAll, VmVnet[v]}
        BY <1>3, <1>4, <1>5 DEF Matches
    <2>2. QED
        BY <1>5, <2>1 DEF FetchVirtualMachines, Store!Selection
<1>6. CASE installed # {} /\ \E s \in installed : f[s].match = MatchAll
    <2>1. PICK s0 \in installed : f[s0].match = MatchAll
        BY <1>6
    <2>2. sel[s0] = MatchAll
        <3>1. s0 \in Selectors /\ sel[s0] # NoMatch
            BY <1>3, <2>1
        <3>2. f[s0] = CompileFilter(sel[s0], cur)
            BY <1>2, <3>1
        <3>3. QED
            BY <2>1, <3>2 DEF CompileFilter
    <2>3. FetchVirtualMachines(f, cur) = {v \in VMs : VmSub[v] = cur}
        BY <1>6 DEF FetchVirtualMachines, QueryResult, CompileFilter
    <2>4. QED
        BY <2>2, <2>3 DEF Store!Selection
<1>7. CASE installed # {} /\ ~\E s \in installed : f[s].match = MatchAll
    <2>1. FetchVirtualMachines(f, cur) = UNION {QueryResult(f[s], cur) : s \in installed}
        BY <1>7 DEF FetchVirtualMachines
    <2>2. \A s \in installed :
              QueryResult(f[s], cur) =
                  {v \in VMs : VmSub[v] = cur /\ sel[s] \in {MatchAll, VmVnet[v]}}
        <3> TAKE s \in installed
        <3>1. s \in Selectors /\ sel[s] # NoMatch
            BY <1>3
        <3>2. f[s] = [match |-> sel[s], creds |-> cur]
            BY <1>2, <3>1 DEF CompileFilter
        <3>3. QED
            BY <3>2 DEF QueryResult
    <2>3. \A v \in VMs, s \in Selectors :
              sel[s] \in {MatchAll, VmVnet[v]} => s \in installed
        BY <1>3, <1>4 DEF Matches
    <2>4. QED
        BY <2>1, <2>2, <2>3 DEF Store!Selection
<1>8. QED
    BY <1>5, <1>6, <1>7

-----------------------------------------------------------------------------
(* Every step of CloudCommon is a step of AccountStore or a stutter.       *)

\* The abstract step relation, for short.
StoreStep == [Store!Next]_Store!vars

\* A step that touches no visible state is a stutter of the store.
LEMMA Invisible ==
    ASSUME UNCHANGED <<accountConfigs, credentials, selectors, snapshot, secrets>>
    PROVE  StoreStep
BY MapUnchanged DEF StoreStep, Store!vars

\* A step on a config object no account is registered under is a stutter.
LEMMA StaleConfigStep ==
    ASSUME TypeOK, RegInv, NEW STATE c, NEW STATE cr, NEW STATE se, NEW STATE sn,
           c \in ConfigIds,
           \A a \in Accounts : accountConfigs[a] # c,
           accountConfigs' = accountConfigs,
           credentials' = [credentials EXCEPT ![c] = cr],
           selectors' = [selectors EXCEPT ![c] = se],
           snapshot' = [snapshot EXCEPT ![c] = sn],
           UNCHANGED secrets
    PROVE  StoreStep
BY StaleChange DEF StoreStep, Store!vars

\* AddCloudAccount creating a config is Add of a new account; its other
\* steps change nothing a caller sees.
LEMMA RefAddResolve ==
    ASSUME RefInv, NEW t \in Threads, AddResolve(t)
    PROVE  StoreStep
<1> DEFINE a == tAcct[t]
           c == CHOOSE c \in FreeConfigs : TRUE
           new == [creds |-> secrets[a], sels |-> [s \in Selectors |-> NoMatch],
                   snap |-> NoSnapshot]
<1>1. a \in Accounts /\ pc[t] = "AddResolve"
    BY DEF AddResolve, RefInv, FilterInv, TypeInv, TypeOK
<1>2. CASE UNCHANGED <<accountConfigs, configVars>>
    BY <1>2, Invisible DEF AddResolve, configVars
<1>3. CASE /\ accountConfigs[a] = NoConfig
           /\ secrets[a] # BadSecret
           /\ accountConfigs' = [accountConfigs EXCEPT ![a] = c]
           /\ credentials' = [credentials EXCEPT ![c] = secrets[a]]
           /\ selectors' = [selectors EXCEPT ![c] = [s \in Selectors |-> NoMatch]]
           /\ snapshot' = [snapshot EXCEPT ![c] = NoSnapshot]
    <2>1. c \in FreeConfigs /\ c \in ConfigIds
        BY <1>1, <1>3, ChooseFree, FreeIsConfig DEF RefInv, FilterInv, TypeInv, AddInv
    <2>2. \A b \in Accounts : accountConfigs[b] # c
        BY <2>1 DEF FreeConfigs
    <2>3. StoreMap' = [StoreMap EXCEPT ![a] = new]
        BY <1>1, <1>3, <2>1, <2>2, ConstantsAssumption
           DEF StoreMap, RefInv, FilterInv, TypeInv, TypeOK
    <2>4. Store!Add(a)
        BY <1>1, <1>3, <2>3 DEF Store!Add, Store!Registered, StoreMap, AddResolve
    <2>5. QED
        BY <1>1, <2>4 DEF StoreStep, Store!Next
<1>4. QED
    BY <1>2, <1>3 DEF AddResolve

\* updateCloudAccountConfig installs the credentials the secret resolves to
\* on the config registered for the account: Add of a registered account.
LEMMA RefAddUpdate ==
    ASSUME RefInv, NEW t \in Threads, AddUpdate(t)
    PROVE  StoreStep
<1> DEFINE a == tAcct[t]
           c == tCfg[t]
           new == ResolveCredentials(secrets[a])
<1>0. TypeOK /\ RegInv
    BY DEF RefInv, FilterInv, TypeInv
<1>1. a \in Accounts /\ c \in ConfigIds /\ accountConfigs[a] = c
    BY ConstantsAssumption DEF AddUpdate, RefInv, RegInv, FilterInv, TypeInv, TypeOK, AddInv
<1>2. credentials' = [credentials EXCEPT ![c] = new]
    BY <1>1 DEF AddUpdate, CredentialsChanged, RefInv, FilterInv, TypeInv, TypeOK
<1>3. /\ accountConfigs' = accountConfigs
      /\ UNCHANGED <<selectors, snapshot, secrets>>
    BY DEF AddUpdate
<1>4. /\ StoreMap = [b \in Accounts |-> StoreMap[b]]
      /\ StoreMap' = [b \in Accounts |->
                         IF b = a
                         THEN [creds |-> new, sels |-> selectors[c], snap |-> snapshot[c]]
                         ELSE StoreMap[b]]
    <2>1. \A d \in ConfigIds \ {c} :
              /\ credentials'[d] = credentials[d]
              /\ selectors'[d] = selectors[d]
              /\ snapshot'[d] = snapshot[d]
        BY <1>2, <1>3
    <2>2. credentials'[c] = new
        BY <1>0, <1>1, <1>2 DEF TypeOK
    <2>3. QED
        BY <1>0, <1>1, <1>3, <2>1, <2>2, ConfigChange
<1>5. StoreMap[a] = Rec(c) /\ StoreMap[a] # NoConfig
    BY <1>0, <1>1, RegisteredRec, ConstantsAssumption
<1>6. StoreMap' = [StoreMap EXCEPT ![a].creds = Store!Resolve(secrets[a])]
    BY <1>4, <1>5 DEF Rec, Store!Resolve, ResolveCredentials
<1>7. Store!Add(a)
    BY <1>3, <1>5, <1>6 DEF Store!Add, Store!Registered
<1>8. QED
    BY <1>1, <1>7 DEF StoreStep, Store!Next

\* RemoveCloudAccount's delete is Remove, or nothing when the account was
\* already removed by another goroutine.
LEMMA RefRmDelete ==
    ASSUME RefInv, NEW t \in Threads, RmDelete(t)
    PROVE  StoreStep
<1> DEFINE a == tAcct[t]
<1>1. a \in Accounts /\ UNCHANGED <<configVars, secrets>>
    BY DEF RmDelete, RefInv, FilterInv, TypeInv, TypeOK
<1>2. CASE accountConfigs[a] = NoConfig
    <2>1. accountConfigs' = accountConfigs
        BY <1>1, <1>2 DEF RmDelete, RefInv, FilterInv, TypeInv, TypeOK
    <2>2. QED
        BY <1>1, <2>1, Invisible DEF configVars
<1>3. CASE accountConfigs[a] # NoConfig
    <2>1. StoreMap' = [StoreMap EXCEPT ![a] = NoConfig]
        BY <1>1 DEF RmDelete, StoreMap, configVars, RefInv, FilterInv, TypeInv, TypeOK
    <2>2. StoreMap[a] # NoConfig
        BY <1>1, <1>3, RegisteredRec DEF RefInv, FilterInv, TypeInv
    <2>3. Store!Remove(a)
        BY <1>1, <2>1, <2>2 DEF Store!Remove, Store!Registered
    <2>4. QED
        BY <1>1, <2>3 DEF StoreStep, Store!Next
<1>4. QED
    BY <1>2, <1>3

\* AddResourceFilters on the config of a registered account is AddFilter
\* of that account; on a config since removed or replaced it is invisible.
LEMMA RefAfApply ==
    ASSUME RefInv, NEW t \in Threads, AfApply(t)
    PROVE  StoreStep
<1> DEFINE c == tCfg[t]
           s == tSel[t]
           m == tMatch[t]
<1>0. TypeOK /\ RegInv
    BY DEF RefInv, FilterInv, TypeInv
<1>1. c \in ConfigIds /\ s \in Selectors /\ m \in Matches
    BY DEF AfApply, RefInv, FilterInv, TypeInv, TypeOK, AddInv
<1>2. /\ accountConfigs' = accountConfigs
      /\ credentials' = [credentials EXCEPT ![c] = credentials[c]]
      /\ selectors' = [selectors EXCEPT ![c] = [selectors[c] EXCEPT ![s] = m]]
      /\ snapshot' = [snapshot EXCEPT ![c] = snapshot[c]]
      /\ UNCHANGED secrets
    BY <1>1 DEF AfApply, RefInv, FilterInv, TypeInv, TypeOK
<1>3. CASE \E a \in Accounts : accountConfigs[a] = c
    <2>1. PICK a \in Accounts : accountConfigs[a] = c
        BY <1>3
    <2>2. /\ StoreMap = [b \in Accounts |-> StoreMap[b]]
          /\ StoreMap' = [b \in Accounts |->
                             IF b = a
                             THEN [creds |-> credentials[c],
                                   sels |-> [selectors[c] EXCEPT ![s] = m],
                                   snap |-> snapshot[c]]
                             ELSE StoreMap[b]]
        <3>1. \A d \in ConfigIds \ {c} :
                  /\ credentials'[d] = credentials[d]
                  /\ selectors'[d] = selectors[d]
                  /\ snapshot'[d] = snapshot[d]
            BY <1>2
        <3>2. /\ credentials'[c] = credentials[c]
              /\ selectors'[c] = [selectors[c] EXCEPT ![s] = m]
              /\ snapshot'[c] = snapshot[c]
            BY <1>0, <1>1, <1>2 DEF TypeOK
        <3>3. QED
            BY <1>0, <1>1, <1>2, <2>1, <3>1, <3>2, ConfigChange
    <2>3. StoreMap[a] = Rec(c) /\ StoreMap[a] # NoConfig
        BY <1>0, <1>1, <2>1, RegisteredRec, ConstantsAssumption
    <2>4. StoreMap' = [StoreMap EXCEPT ![a].sels[s] = m]
        BY <2>2, <2>3 DEF Rec
    <2>5. Store!AddFilter(a, s, m)
        BY <1>2, <2>3, <2>4 DEF Store!AddFilter, Store!Registered
    <2>6. QED
        BY <1>1, <2>5 DEF StoreStep, Store!Next, Matches
<1>4. CASE ~\E a \in Accounts : accountConfigs[a] = c
    BY ONLY <1>0, <1>1, <1>2, <1>4, StaleConfigStep
<1>5. QED
    BY <1>3, <1>4

\* RemoveResourceFilters likewise is RemoveFilter or invisible.
LEMMA RefRfApply ==
    ASSUME RefInv, NEW t \in Threads, RfApply(t)
    PROVE  StoreStep
<1> DEFINE c == tCfg[t]
           s == tSel[t]
<1>0. TypeOK /\ RegInv
    BY DEF RefInv, FilterInv, TypeInv
<1>1. c \in ConfigIds /\ s \in Selectors
    BY DEF RfApply, RefInv, FilterInv, TypeInv, TypeOK, AddInv
<1>2. /\ accountConfigs' = accountConfigs
      /\ credentials' = [credentials EXCEPT ![c] = credentials[c]]
      /\ selectors' = [selectors EXCEPT ![c] = [selectors[c] EXCEPT ![s] = NoMatch]]
      /\ snapshot' = [snapshot EXCEPT ![c] = snapshot[c]]
      /\ UNCHANGED secrets
    BY <1>1 DEF RfApply, RefInv, FilterInv, TypeInv, TypeOK
<1>3. CASE \E a \in Accounts : accountConfigs[a] = c
    <2>1. PICK a \in Accounts : accountConfigs[a] = c
        BY <1>3
    <2>2. /\ StoreMap = [b \in Accounts |-> StoreMap[b]]
          /\ StoreMap' = [b \in Accounts |->
                             IF b = a
                             THEN [creds |-> credentials[c],
                                   sels |-> [selectors[c] EXCEPT ![s] = NoMatch],
                                   snap |-> snapshot[c]]
                             ELSE StoreMap[b]]
        <3>1. \A d \in ConfigIds \ {c} :
                  /\ credentials'[d] = credentials[d]
                  /\ selectors'[d] = selectors[d]
                  /\ snapshot'[d] = snapshot[d]
            BY <1>2
        <3>2. /\ credentials'[c] = credentials[c]
              /\ selectors'[c] = [selectors[c] EXCEPT ![s] = NoMatch]
              /\ snapshot'[c] = snapshot[c]
            BY <1>0, <1>1, <1>2 DEF TypeOK
        <3>3. QED
            BY <1>0, <1>1, <1>2, <2>1, <3>1, <3>2, ConfigChange
    <2>3. StoreMap[a] = Rec(c) /\ StoreMap[a] # NoConfig
        BY <1>0, <1>1, <2>1, RegisteredRec, ConstantsAssumption
    <2>4. StoreMap' = [StoreMap EXCEPT ![a].sels[s] = NoMatch]
        BY <2>2, <2>3 DEF Rec
    <2>5. Store!RemoveFilter(a, s)
        BY <1>2, <2>3, <2>4 DEF Store!RemoveFilter, Store!Registered
    <2>6. QED
        BY <1>1, <2>5 DEF StoreStep, Store!Next
<1>4. CASE ~\E a \in Accounts : accountConfigs[a] = c
    BY ONLY <1>0, <1>1, <1>2, <1>4, StaleConfigStep
<1>5. QED
    BY <1>3, <1>4

\* A poll that publishes a snapshot on the config of a registered account
\* is Poll of that account; a failed poll, or one on a config since
\* removed or replaced, is invisible.
LEMMA RefPollSync ==
    ASSUME RefInv, NEW t \in Threads, PollSync(t)
    PROVE  StoreStep
<1> DEFINE c == tCfg[t]
           fetched == FetchVirtualMachines(computeFilters[c], credentials[c])
<1>0. TypeOK /\ RegInv
    BY DEF RefInv, FilterInv, TypeInv
<1>1. c \in ConfigIds
    BY DEF PollSync, RefInv, FilterInv, TypeInv, TypeOK, AddInv
<1>2. UNCHANGED <<accountConfigs, credentials, selectors, secrets>>
    BY DEF PollSync
<1>3. CASE UNCHANGED snapshot
    BY <1>2, <1>3, Invisible
<1>4. CASE /\ credentials[c] # AccountCredentialsDefault
           /\ snapshot' = [snapshot EXCEPT ![c] = fetched]
    <2>1. /\ credentials' = [credentials EXCEPT ![c] = credentials[c]]
          /\ selectors' = [selectors EXCEPT ![c] = selectors[c]]
        BY <1>0, <1>1, <1>2 DEF TypeOK
    <2>2. CASE \E a \in Accounts : accountConfigs[a] = c
        <3>1. PICK a \in Accounts : accountConfigs[a] = c
            BY <2>2
        <3>2. /\ StoreMap = [b \in Accounts |-> StoreMap[b]]
              /\ StoreMap' = [b \in Accounts |->
                                 IF b = a
                                 THEN [creds |-> credentials[c], sels |-> selectors[c],
                                       snap |-> fetched]
                                 ELSE StoreMap[b]]
            <4>1. \A d \in ConfigIds \ {c} :
                      /\ credentials'[d] = credentials[d]
                      /\ selectors'[d] = selectors[d]
                      /\ snapshot'[d] = snapshot[d]
                BY <1>2, <1>4
            <4>2. snapshot'[c] = fetched
                BY <1>0, <1>1, <1>4 DEF TypeOK
            <4>3. QED
                BY <1>0, <1>1, <1>2, <3>1, <4>1, <4>2, ConfigChange
        <3>3. StoreMap[a] = Rec(c) /\ StoreMap[a] # NoConfig
            BY <1>0, <1>1, <3>1, RegisteredRec, ConstantsAssumption
        <3>4. credentials[c] \in Credentials
            BY <1>0, <1>1, <1>4 DEF TypeOK, CredentialValues
        <3>5. fetched = Store!Selection(selectors[c], credentials[c])
            BY <1>1, <3>4, FetchIsSelection DEF RefInv
        <3>6. StoreMap' = [StoreMap EXCEPT ![a].snap =
                              Store!Selection(StoreMap[a].sels, StoreMap[a].creds)]
            BY <3>2, <3>3, <3>5 DEF Rec
        <3>7. Store!Poll(a)
            BY <1>2, <1>4, <3>3, <3>6 DEF Store!Poll, Store!Registered, Rec
        <3>8. QED
            BY <3>7 DEF StoreStep, Store!Next
    <2>3. CASE ~\E a \in Accounts : accountConfigs[a] = c
        BY ONLY <1>0, <1>1, <1>2, <1>4, <2>1, <2>3, StaleConfigStep
    <2>4. QED
        BY <2>2, <2>3
<1>5. QED
    BY <1>3, <1>4 DEF PollSync

\* ResetInventoryCache on the config of a registered account is Reset of
\* that account, and invisible on a config since removed or replaced.
LEMMA RefResetApply ==
    ASSUME RefInv, NEW t \in Threads, ResetApply(t)
    PROVE  StoreStep
<1> DEFINE c == tCfg[t]
<1>0. TypeOK /\ RegInv
    BY DEF RefInv, FilterInv, TypeInv
<1>1. c \in ConfigIds
    BY DEF ResetApply, RefInv, FilterInv, TypeInv, TypeOK, AddInv
<1>2. /\ accountConfigs' = accountConfigs
      /\ credentials' = [credentials EXCEPT ![c] = credentials[c]]
      /\ selectors' = [selectors EXCEPT ![c] = selectors[c]]
      /\ snapshot' = [snapshot EXCEPT ![c] = NoSnapshot]
      /\ UNCHANGED <<credentials, selectors, secrets>>
    BY <1>0, <1>1 DEF ResetApply, TypeOK
<1>3. CASE \E a \in Accounts : accountConfigs[a] = c
    <2>1. PICK a \in Accounts : accountConfigs[a] = c
        BY <1>3
    <2>2. /\ StoreMap = [b \in Accounts |-> StoreMap[b]]
          /\ StoreMap' = [b \in Accounts |->
                             IF b = a
                             THEN [creds |-> credentials[c], sels |-> selectors[c],
                                   snap |-> NoSnapshot]
                             ELSE StoreMap[b]]
        <3>1. \A d \in ConfigIds \ {c} :
                  /\ credentials'[d] = credentials[d]
                  /\ selectors'[d] = selectors[d]
                  /\ snapshot'[d] = snapshot[d]
            BY <1>2
        <3>2. snapshot'[c] = NoSnapshot
            BY <1>0, <1>1, <1>2 DEF TypeOK
        <3>3. QED
            BY <1>0, <1>1, <1>2, <2>1, <3>1, <3>2, ConfigChange
    <2>3. StoreMap[a] = Rec(c) /\ StoreMap[a] # NoConfig
        BY <1>0, <1>1, <2>1, RegisteredRec, ConstantsAssumption
    <2>4. StoreMap' = [StoreMap EXCEPT ![a].snap = NoSnapshot]
        BY <2>2, <2>3 DEF Rec
    <2>5. Store!Reset(a)
        BY <1>2, <2>3, <2>4 DEF Store!Reset, Store!Registered
    <2>6. QED
        BY <2>5 DEF StoreStep, Store!Next
<1>4. CASE ~\E a \in Accounts : accountConfigs[a] = c
    BY ONLY <1>0, <1>1, <1>2, <1>4, StaleConfigStep
<1>5. QED
    BY <1>3, <1>4

\* Every step of the framework is a step of the store or a stutter.
LEMMA RefStep ==
    ASSUME RefInv, [Next]_vars
    PROVE  StoreStep
<1>1. ASSUME NEW t \in Threads, Invoke(t) PROVE StoreStep
    BY <1>1, Invisible DEF Invoke, AddLock, RmLookup, AfLookup, RfLookup,
                           PollLookup, ResetLookup, InvLookup, configVars
<1>2. ASSUME NEW t \in Threads,
             PollLock(t) \/ InvLock(t) \/ InvVpcs(t) \/ InvManaged(t)
      PROVE  StoreStep
    BY <1>2, Invisible DEF PollLock, InvLock, InvVpcs, InvManaged, configVars
<1>3. ASSUME NEW a \in Accounts, NEW v \in SecretValues, SecretUpdate(a, v)
      PROVE  StoreStep
    <2>1. UNCHANGED StoreMap
        BY <1>3, MapUnchanged DEF SecretUpdate, configVars
    <2>2. Store!SecretUpdate(a, v)
        BY <1>3, <2>1 DEF SecretUpdate, Store!SecretUpdate
    <2>3. QED
        BY <2>2 DEF StoreStep, Store!Next, Store!SecretValues, SecretValues
<1>4. CASE UNCHANGED vars
    BY <1>4, Invisible DEF vars, configVars
<1>5. QED
    BY <1>1, <1>2, <1>3, <1>4, RefAddResolve, RefAddUpdate, RefRmDelete,
       RefAfApply, RefRfApply, RefPollSync, RefResetApply DEF Next, Continue

-----------------------------------------------------------------------------
(* The refinement theorem.                                                 *)

LEMMA RefInit == Init => RefInv
<1> SUFFICES ASSUME Init PROVE RefInv
    OBVIOUS
<1>1. FilterInv
    BY TypeInit DEF Init, FilterInv, FiltersFollowSelectors
<1>2. RegInv
    BY ConstantsAssumption DEF Init, RegInv
<1>3. QED
    BY <1>1, <1>2 DEF RefInv

LEMMA RefInvStep == RefInv /\ [Next]_vars => RefInv'
BY FilterStep, RegStep DEF RefInv, FilterInv

(* StoreImplemented: for every number of accounts, selectors, goroutines   *)
(* and config objects, CloudCommon implements AccountStore: the registry,  *)
(* seen through the config object each account is registered under, starts *)
(* empty and changes only by whole store calls, although every framework   *)
(* call but AddCloudAccount releases the registry lock before it takes the *)
(* account mutex and may act on a config object that has meanwhile been    *)
(* removed or replaced.  It rests on RegInv (one account per config, the   *)
(* update of AddCloudAccount on the registered config) and on the compute  *)
(* filters following the selectors, which makes a poll publish exactly the *)
(* abstract selection.                                                     *)
THEOREM StoreImplemented == Spec => StoreRefinement
<1>1. Init => Store!Init
    BY DEF Init, Store!Init, StoreMap, Store!SecretValues, SecretValues
<1>2. RefInv /\ [Next]_vars => [Store!Next]_Store!vars
    BY RefStep DEF StoreStep
<1>3. QED
    BY <1>1, <1>2, RefInit, RefInvStep, PTL DEF Spec, StoreRefinement, Store!Spec

-----------------------------------------------------------------------------
(* What a poll publishes.                                                  *)

\* Only a successful poll publishes a snapshot other than nil, and what it
\* publishes is the selection of the selectors registered on the config.
LEMMA PollPublishes ==
    ASSUME FilterInv, [Next]_vars
    PROVE  \A c \in ConfigIds :
               (snapshot'[c] # snapshot[c] /\ snapshot'[c] # NoSnapshot)
                   => snapshot'[c] = Selected(acked[c], credentials[c])
<1> SUFFICES ASSUME NEW c \in ConfigIds, snapshot'[c] # snapshot[c],
                    snapshot'[c] # NoSnapshot
             PROVE  snapshot'[c] = Selected(acked[c], credentials[c])
    OBVIOUS
<1>0. TypeOK /\ AddInv
    BY DEF FilterInv, TypeInv
<1>1. ASSUME NEW t \in Threads, PollSync(t)
      PROVE  snapshot'[c] = Selected(acked[c], credentials[c])
    <2> DEFINE d == tCfg[t]
    <2>1. d \in ConfigIds
        BY <1>0, <1>1 DEF PollSync, TypeOK, AddInv
    <2>2. /\ credentials[d] # AccountCredentialsDefault
          /\ snapshot' = [snapshot EXCEPT ![d] =
                             FetchVirtualMachines(computeFilters[d], credentials[d])]
        BY <1>1 DEF PollSync
    <2>3. d = c
        BY <1>0, <2>1, <2>2 DEF TypeOK
    <2>4. credentials[c] \in Credentials
        BY <1>0, <2>2, <2>3 DEF TypeOK, CredentialValues
    <2>5. snapshot'[c] = Store!Selection(selectors[c], credentials[c])
        BY <1>0, <2>2, <2>3, <2>4, FetchIsSelection DEF TypeOK
    <2>6. QED
        BY <2>5 DEF FilterInv, Selected, Store!Selection
<1>2. ASSUME NEW t \in Threads, AddResolve(t) \/ ResetApply(t)
      PROVE  FALSE
    <2>1. \E d : snapshot' \in {snapshot, [snapshot EXCEPT ![d] = NoSnapshot]}
        BY <1>2 DEF AddResolve, ResetApply, configVars
    <2>2. QED
        BY <1>0, <2>1 DEF TypeOK
<1>3. CASE UNCHANGED snapshot
    BY <1>3
<1>4. QED
    <2>1. ASSUME NEW t \in Threads, Invoke(t) PROVE UNCHANGED snapshot
        BY <2>1 DEF Invoke, AddLock, RmLookup, AfLookup, RfLookup, PollLookup,
                    ResetLookup, InvLookup, configVars
    <2>2. ASSUME NEW t \in Threads,
                 \/ AddUpdate(t) \/ RmDelete(t) \/ AfApply(t) \/ RfApply(t)
                 \/ PollLock(t) \/ InvLock(t) \/ InvVpcs(t) \/ InvManaged(t)
          PROVE  UNCHANGED snapshot
        BY <2>2 DEF AddUpdate, RmDelete, AfApply, RfApply, PollLock, InvLock,
                    InvVpcs, InvManaged, configVars
    <2>3. ASSUME NEW a \in Accounts, NEW v \in SecretValues, SecretUpdate(a, v)
          PROVE  UNCHANGED snapshot
        BY <2>3 DEF SecretUpdate, configVars
    <2>4. CASE UNCHANGED vars
        BY <2>4 DEF vars, configVars
    <2>5. QED
        BY <1>1, <1>2, <1>3, <2>1, <2>2, <2>3, <2>4 DEF Next, Continue

(* PollsSurfaceSelected: in every behaviour, for every number of accounts, *)
(* selectors, goroutines and config objects, a snapshot DoInventoryPoll    *)
(* publishes holds exactly the VMs of the account's subscription that a    *)
(* selector registered on the config matches: the union over the          *)
(* selectors, with the match-everything short cut, whatever filter changes *)
(* and credential reloads interleave with the poll.                        *)
THEOREM PollsSurfaceSelected == Spec => PollSurfacesSelected
<1>1. Init => FilterInv
    BY TypeInit DEF Init, FilterInv, FiltersFollowSelectors
<1>2. FilterInv /\ [Next]_vars =>
          [\A c \in ConfigIds :
               (snapshot'[c] # snapshot[c] /\ snapshot'[c] # NoSnapshot)
                   => snapshot'[c] = Selected(acked[c], credentials[c])]_vars
    BY PollPublishes
<1>3. QED
    BY <1>1, <1>2, FilterStep, PTL DEF Spec, PollSurfacesSelected

====
