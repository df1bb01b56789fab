-------------------------- MODULE CredentialsProofs --------------------------
(***************************************************************************)
(* Proof, for every set of credential fields and string values, that the  *)
(* Azure plugin never registers a config with an empty required field.     *)
(***************************************************************************)
EXTENDS AccountCredentials, TLAPS

\* The sentinel is not the empty string.
LEMMA DefaultNotEmpty == Default # EmptyStr
BY CredentialsAssumption DEF EmptyStr

\* What Azure's setAccountCredentials returns without an error has every
\* required field non-empty; with an error, every field is the sentinel.
LEMMA AzureResolved ==
    ASSUME NEW o \in SecretObjs, NEW r
    PROVE  LET x == SetAccountCredentialsAzure(o, r) IN
           \/ x.status = "ok" /\ \A f \in Required : x.cfg.cred[f] # EmptyStr
           \/ x.status = "err" /\ \A f \in Fields : x.cfg.cred[f] = Default
<1>1. CASE o.kind \in SecretErrors
    BY <1>1 DEF SetAccountCredentialsAzure, ExtractSecretAzure, EmptyStr, SecretErrors
<1>2. CASE o.kind \notin SecretErrors /\ \E f \in Required : o.data[f] = EmptyStr
    BY <1>2 DEF SetAccountCredentialsAzure, ExtractSecretAzure, EmptyStr, SecretErrors
<1>3. CASE o.kind \notin SecretErrors /\ ~\E f \in Required : o.data[f] = EmptyStr
    BY <1>3 DEF SetAccountCredentialsAzure, ExtractSecretAzure, EmptyStr, SecretErrors
<1>4. QED
    BY <1>1, <1>2, <1>3

(* AzureInstalledUsable: with the Azure plugin, in every behaviour, the    *)
(* config AddCloudAccount leaves in the registry (created, or replaced     *)
(* after compareAccountCredentials reported a change) never has an empty  *)
(* required credential field: extractSecret's check for empty fields turns *)
(* such a secret into an error, and an error leaves the sentinel.          *)
THEOREM AzureInstalledUsable ==
    ASSUME Provider = "azure"
    PROVE  Spec => []InstalledUsable
<1> DEFINE IInv == secret \in SecretObjs /\ InstalledUsable
<1>1. Init => IInv
    BY DEF Init, InstalledUsable
<1>2. ASSUME IInv, [Next]_vars
      PROVE  IInv'
    <2> DEFINE x == SetAccountCredentialsAzure(secret, cr)
    <2>0. secret' \in SecretObjs
        BY <1>2 DEF Next, EditSecret, EditCr, AddNew, AddExisting, vars
    <2>1. x = SetAccountCredentials(secret, cr)
        BY DEF SetAccountCredentials
    <2>2. \/ x.status = "ok" /\ \A f \in Required : x.cfg.cred[f] # EmptyStr
          \/ x.status = "err" /\ \A f \in Fields : x.cfg.cred[f] = Default
        BY <1>2, AzureResolved
    <2>3. \A f \in Required : f \in Fields
        BY CredentialsAssumption
    <2>4. CASE AddNew
        BY <2>1, <2>2, <2>4, <1>2 DEF AddNew, InstalledUsable
    <2>5. CASE AddExisting
        BY <2>1, <2>2, <2>3, <2>5, <1>2, DefaultNotEmpty DEF AddExisting, InstalledUsable
    <2>6. CASE (\E o \in SecretObjs : EditSecret(o)) \/ (\E k \in CrFields, v \in CrValues : EditCr(k, v))
              \/ UNCHANGED vars
        BY <2>6, <1>2 DEF EditSecret, EditCr, vars, InstalledUsable
    <2>7. InstalledUsable'
        BY <1>2, <2>4, <2>5, <2>6 DEF Next
    <2>8. QED
        BY <2>0, <2>7
<1>3. QED
    BY <1>1, <1>2, PTL DEF Spec
-----------------------------------------------------------------------------
(* Type correctness for both providers, and what it takes: every way of    *)
(* resolving a secret yields a status and either no config or a config of *)
(* the stored shape.                                                       *)

\* A secret object that is not one of the read errors is a decoded payload.
LEMMA PayloadShape ==
    ASSUME NEW o \in SecretObjs, o.kind \notin SecretErrors
    PROVE  o.kind = "Payload" /\ o.data \in Payloads
BY DEF SecretObjs

\* The trimmed settings of the CR have the type a config stores.
LEMMA TrimmedCr ==
    ASSUME NEW r \in [CrFields -> CrValues]
    PROVE  TrimCr(r) \in [CrFields -> {Trim(s) : s \in Strs}]
BY CredentialsAssumption DEF TrimCr

\* setAccountCredentials of either plugin, on any secret and CR settings.
LEMMA Resolved ==
    ASSUME NEW o \in SecretObjs, NEW r \in [CrFields -> CrValues]
    PROVE  LET x == SetAccountCredentials(o, r) IN
           /\ x.status \in {"ok", "err", "panic"}
           /\ x.cfg = NoCfg \/ x.cfg \in CfgType
           /\ x.status = "ok" => x.cfg \in CfgType
<1>0. TrimCr(r) \in [CrFields -> {Trim(s) : s \in Strs}]
    BY TrimmedCr
<1>1. CASE Provider = "aws" /\ o.kind \in SecretErrors
    BY <1>1 DEF SetAccountCredentials, SetAccountCredentialsAws, ExtractSecretAws,
                SecretErrors
<1>2. CASE Provider = "aws" /\ o.kind \notin SecretErrors
    <2>1. o.kind = "Payload" /\ o.data \in Payloads
        BY <1>2, PayloadShape
    <2>2. SetAccountCredentials(o, r)
              = [status |-> "ok", cfg |-> [cred |-> o.data, cr |-> TrimCr(r)]]
        BY <1>2, <2>1 DEF SetAccountCredentials, SetAccountCredentialsAws,
                          ExtractSecretAws
    <2>3. QED
        BY <1>0, <2>1, <2>2 DEF CfgType, Payloads
<1>3. CASE Provider # "aws"
    <2> DEFINE y == ExtractSecretAzure(o)
    <2>1. y.status \in {"ok", "err"}
        BY DEF ExtractSecretAzure
    <2>2. y.status = "ok" => y.cred \in [Fields -> Strs]
        <3>1. CASE o.kind \in SecretErrors
            BY <3>1 DEF ExtractSecretAzure
        <3>2. CASE o.kind \notin SecretErrors
            BY <3>2, PayloadShape DEF ExtractSecretAzure, Payloads
        <3>3. QED
            BY <3>1, <3>2
    <2>3. SetAccountCredentials(o, r) = SetAccountCredentialsAzure(o, r)
        BY <1>3 DEF SetAccountCredentials
    <2>4. QED
        BY <1>0, <2>1, <2>2, <2>3 DEF SetAccountCredentialsAzure, CfgType
<1>4. QED
    BY <1>1, <1>2, <1>3

(* TypeCorrect: in every behaviour, with either plugin, the registry holds *)
(* no config or one whose credential fields are strings or the sentinel    *)
(* and whose CR settings are trimmed: setAccountCredentials trims the     *)
(* region (and the AWS endpoint) before anything is stored.                *)
THEOREM TypeCorrect == Spec => []TypeOK
<1>1. Init => TypeOK
    BY DEF Init, TypeOK
<1>2. ASSUME TypeOK, [Next]_vars
      PROVE  TypeOK'
    <2> DEFINE x == SetAccountCredentials(secret, cr)
    <2>1. /\ x.status \in {"ok", "err", "panic"}
          /\ x.cfg = NoCfg \/ x.cfg \in CfgType
          /\ x.status = "ok" => x.cfg \in CfgType
        BY <1>2, Resolved DEF TypeOK
    <2>2. CASE AddNew
        BY <1>2, <2>1, <2>2 DEF AddNew, TypeOK, CfgType
    <2>3. CASE AddExisting
        <3>1. status' \in {"none", "ok", "err", "panic"} /\ UNCHANGED <<secret, cr>>
            BY <2>1, <2>3 DEF AddExisting
        <3>2. CASE x.status = "panic" \/ x.cfg = NoCfg
            BY <1>2, <2>3, <3>1, <3>2 DEF AddExisting, TypeOK
        <3>3. CASE ~(x.status = "panic" \/ x.cfg = NoCfg)
            <4>1. x.cfg \in CfgType
                BY <2>1, <3>3
            <4>2. changed' \in BOOLEAN /\ installed' \in {installed, x.cfg}
                BY <2>3, <3>3 DEF AddExisting, CompareAccountCredentials,
                          CompareAccountCredentialsAws, CompareAccountCredentialsAzure
            <4>3. QED
                BY <1>2, <3>1, <4>1, <4>2 DEF TypeOK, CfgType
        <3>4. QED
            BY <3>2, <3>3
    <2>4. CASE \E o \in SecretObjs : EditSecret(o)
        BY <1>2, <2>4 DEF EditSecret, TypeOK
    <2>5. CASE \E k \in CrFields, v \in CrValues : EditCr(k, v)
        BY <1>2, <2>5 DEF EditCr, TypeOK
    <2>6. CASE UNCHANGED vars
        BY <1>2, <2>6 DEF vars, TypeOK
    <2>7. QED
        BY <1>2, <2>2, <2>3, <2>4, <2>5, <2>6 DEF Next
<1>3. QED
    BY <1>1, <1>2, PTL DEF Spec

(* AzureNoPanic: with the Azure plugin no secret content, however          *)
(* malformed, makes AddCloudAccount panic: extractSecret uses the checked  *)
(* form of the type assertion and turns every failure into an error.       *)
THEOREM AzureNoPanic ==
    ASSUME Provider = "azure"
    PROVE  Spec => []NoPanic
<1>1. Init => NoPanic
    BY DEF Init, NoPanic
<1>2. ASSUME TypeOK, NoPanic, [Next]_vars
      PROVE  NoPanic'
    <2>1. SetAccountCredentials(secret, cr).status \in {"ok", "err"}
        BY <1>2 DEF SetAccountCredentials, SetAccountCredentialsAzure,
                    ExtractSecretAzure
    <2>2. QED
        BY <1>2, <2>1 DEF Next, AddNew, AddExisting, EditSecret, EditCr,
                          vars, NoPanic
<1>3. QED
    BY <1>1, <1>2, TypeCorrect, PTL DEF Spec
-----------------------------------------------------------------------------
(* The reload of a registered account.                                    *)

\* Two configs that agree on every credential field and on every setting
\* of the CR are the same config.
LEMMA CfgExt ==
    ASSUME NEW c \in CfgType, NEW d \in CfgType,
           \A f \in Fields : c.cred[f] = d.cred[f],
           \A k \in CrFields : c.cr[k] = d.cr[k]
    PROVE  c = d
<1>1. c.cred = d.cred /\ c.cr = d.cr
    BY DEF CfgType
<1>2. QED
    BY <1>1 DEF CfgType

\* compareAccountCredentials of either plugin compares every field the
\* config stores: two configs it finds unchanged are the same config.
LEMMA CompareComplete ==
    ASSUME NEW c \in CfgType, NEW d \in CfgType,
           ~CompareAccountCredentials(c, d)
    PROVE  c = d
<1>1. \A f \in Fields : c.cred[f] = d.cred[f]
    BY DEF CompareAccountCredentials, CompareAccountCredentialsAws,
           CompareAccountCredentialsAzure
<1>2. CASE Provider = "aws"
    <2>1. CrFields = {"region", "endpoint"}
        BY <1>2 DEF CrFields
    <2>2. c.cr["region"] = d.cr["region"] /\ c.cr["endpoint"] = d.cr["endpoint"]
        BY <1>2 DEF CompareAccountCredentials, CompareAccountCredentialsAws
    <2>3. QED
        BY <1>1, <2>1, <2>2, CfgExt
<1>3. CASE Provider # "aws"
    <2>1. CrFields = {"region"}
        BY <1>3 DEF CrFields
    <2>2. c.cr["region"] = d.cr["region"]
        BY <1>3 DEF CompareAccountCredentials, CompareAccountCredentialsAzure
    <2>3. QED
        BY <1>1, <2>1, <2>2, CfgExt
<1>4. QED
    BY <1>2, <1>3

\* A step that resolves the secret without error and ends with an "ok"
\* status, the secret and CR settings being those it resolved, leaves in the
\* registry exactly the config it resolved.
LEMMA ReloadStep ==
    ASSUME TypeOK, [Next]_vars, vars' # vars,
           SetAccountCredentials(secret, cr).status = "ok",
           status' = "ok", UNCHANGED <<secret, cr>>
    PROVE  installed' = SetAccountCredentials(secret, cr).cfg
<1> DEFINE x == SetAccountCredentials(secret, cr)
<1>1. x.cfg \in CfgType
    BY Resolved DEF TypeOK
<1>2. x.cfg # NoCfg
    BY <1>1, NoCfgAssumption
<1>3. CASE AddNew
    BY <1>3 DEF AddNew
<1>4. CASE AddExisting
    <2>1. installed \in CfgType
        BY <1>4 DEF AddExisting, TypeOK
    <2>2. changed' = CompareAccountCredentials(installed, x.cfg)
          /\ installed' = IF changed' THEN x.cfg ELSE installed
        BY <1>2, <1>4 DEF AddExisting
    <2>3. CASE ~CompareAccountCredentials(installed, x.cfg)
        <3>1. installed = x.cfg
            BY <1>1, <2>1, <2>3, CompareComplete
        <3>2. QED
            BY <2>2, <3>1
    <2>4. QED
        BY <2>2, <2>3
<1>5. CASE (\E o \in SecretObjs : EditSecret(o)) \/ (\E k \in CrFields, v \in CrValues : EditCr(k, v))
          \/ UNCHANGED vars
    BY <1>5 DEF EditSecret, EditCr, vars
<1>6. QED
    BY <1>3, <1>4, <1>5 DEF Next

(* ReloadsTrackSecret: for either plugin, after every AddCloudAccount that *)
(* resolves the secret, the registry holds what was resolved: when        *)
(* compareAccountCredentials reports no change the stored config already   *)
(* equals the new one, so no edit of a field or of a setting is lost.      *)
THEOREM ReloadsTrackSecret == Spec => ReloadTracksSecret
<1>1. TypeOK /\ [Next]_vars
        => [LET new == SetAccountCredentials(secret, cr) IN
            (/\ new.status = "ok"
             /\ status' = "ok"
             /\ UNCHANGED <<secret, cr>>)
            => TrimCfg(installed') = TrimCfg(new.cfg)]_vars
    BY ReloadStep
<1>2. QED
    BY <1>1, TypeCorrect, PTL DEF Spec, ReloadTracksSecret
====
