---------------------------- MODULE AccountStore ----------------------------
(***************************************************************************)
(* What the account framework of a cloud plugin promises its callers: a    *)
(* store of accounts in which every framework call (AddCloudAccount,       *)
(* RemoveCloudAccount, AddResourceFilters, RemoveResourceFilters,          *)
(* DoInventoryPoll, ResetInventoryCache) takes effect on the registered    *)
(* account at one instant, as if no other call ran concurrently.  An       *)
(* account holds its credentials, the match of each registered selector   *)
(* and its latest inventory snapshot.  CloudCommon, whose goroutines split *)
(* these calls into several steps around the registry lock and the        *)
(* account mutexes, implements this module (see StoreRefinement there).   *)
(***************************************************************************)
CONSTANTS
    Accounts, Selectors, Credentials, Vnets, VMs, VmVnet, VmSub,
    AccountCredentialsDefault,  \* the sentinel of unresolved credentials
    BadSecret,                  \* a secret payload that does not resolve
    MatchAll, NoMatch,          \* a selector matching everything / none
    NoSnapshot,                 \* no inventory published yet
    NoAccount                   \* the account is not registered

VARIABLES
    store,    \* account -> [creds, sels, snap], or NoAccount
    secrets   \* account -> the payload of its referenced secret

vars == <<store, secrets>>

SecretValues == Credentials \cup {BadSecret}

\* A secret that does not resolve yields the default sentinel.
Resolve(secret) == IF secret = BadSecret THEN AccountCredentialsDefault ELSE secret

\* The VMs of the subscription of creds that a registered selector matches.
Selection(sels, creds) ==
    {v \in VMs : /\ VmSub[v] = creds
                 /\ \E s \in Selectors : sels[s] \in {MatchAll, VmVnet[v]}}

Registered(a) == store[a] # NoAccount

Init ==
    /\ store = [a \in Accounts |-> NoAccount]
    /\ secrets \in [Accounts -> SecretValues]

\* AddCloudAccount: a new account with a resolvable secret is recorded with
\* no selectors and no snapshot (one whose secret does not resolve is not
\* recorded at all); a registered account takes the newly resolved
\* credentials and keeps its selectors and snapshot.
Add(a) ==
    /\ \/ /\ ~Registered(a)
          /\ secrets[a] # BadSecret
          /\ store' = [store EXCEPT ![a] =
                 [creds |-> secrets[a], sels |-> [s \in Selectors |-> NoMatch],
                  snap |-> NoSnapshot]]
       \/ /\ Registered(a)
          /\ store' = [store EXCEPT ![a].creds = Resolve(secrets[a])]
    /\ UNCHANGED secrets

Remove(a) ==
    /\ Registered(a)
    /\ store' = [store EXCEPT ![a] = NoAccount]
    /\ UNCHANGED secrets

AddFilter(a, s, m) ==
    /\ Registered(a)
    /\ store' = [store EXCEPT ![a].sels[s] = m]
    /\ UNCHANGED secrets

RemoveFilter(a, s) ==
    /\ Registered(a)
    /\ store' = [store EXCEPT ![a].sels[s] = NoMatch]
    /\ UNCHANGED secrets

\* A successful poll publishes the selection under the current credentials;
\* with the default sentinel nothing can be fetched.
Poll(a) ==
    /\ Registered(a)
    /\ store[a].creds # AccountCredentialsDefault
    /\ store' = [store EXCEPT ![a].snap = Selection(store[a].sels, store[a].creds)]
    /\ UNCHANGED secrets

Reset(a) ==
    /\ Registered(a)
    /\ store' = [store EXCEPT ![a].snap = NoSnapshot]
    /\ UNCHANGED secrets

SecretUpdate(a, v) ==
    /\ secrets' = [secrets EXCEPT ![a] = v]
    /\ UNCHANGED store

Next ==
    \E a \in Accounts :
        \/ Add(a) \/ Remove(a) \/ Poll(a) \/ Reset(a)
        \/ \E s \in Selectors, m \in Vnets \cup {MatchAll} : AddFilter(a, s, m)
        \/ \E s \in Selectors : RemoveFilter(a, s)
        \/ \E v \in SecretValues : SecretUpdate(a, v)

Spec == Init /\ [][Next]_vars

====
