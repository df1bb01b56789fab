------------------------- MODULE AccountCredentials -------------------------
(***************************************************************************)
(* Credential resolution of a cloud plugin: extractSecret reads the        *)
(* referenced Kubernetes secret and decodes its payload,                   *)
(* setAccountCredentials builds the account config from it and from the    *)
(* CR's settings, and compareAccountCredentials decides on a re-invocation *)
(* of AddProviderAccount whether the credentials changed.  Both providers  *)
(* are modelled; Provider selects one.  Besides the secret, the config     *)
(* copies the CR's string settings, trimmed: the region for Azure, the    *)
(* region and the endpoint for AWS.                                        *)
(*                                                                         *)
(* A string is a record [core, pad]: its text without surrounding          *)
(* whitespace and whether whitespace surrounds it; strings.TrimSpace drops *)
(* the padding.  A secret object is one of the ways extractSecret can fail *)
(* or a decoded payload, a function from the credential fields to strings. *)
(***************************************************************************)
CONSTANTS
    Provider,      \* "aws" or "azure"
    Fields,        \* the credential fields of the payload
    Required,      \* the fields spec section 6 requires to be non-empty
    Strs,          \* the string values a field or a region may hold
    CrValues,      \* the values a setting of the CR (region, endpoint) may hold
    Empty,         \* the core of the empty string
    Default,       \* the sentinel "default" (internal.AccountCredentialsDefault)
    NoCfg          \* no account config

ASSUME CredentialsAssumption ==
    /\ Provider \in {"aws", "azure"}
    /\ Required \subseteq Fields
    /\ CrValues \subseteq Strs
    /\ [core |-> Empty, pad |-> FALSE] \in Strs
    /\ Default \notin Strs

\* The empty string.
EmptyStr == [core |-> Empty, pad |-> FALSE]

\* strings.TrimSpace.
Trim(s) == IF s = Default THEN s ELSE [core |-> s.core, pad |-> FALSE]

\* The ways reading the secret can go wrong before a payload is decoded:
\* c.Get fails, "data" is not a map, the key is missing or not a string,
\* the value is not base64, the decoded bytes are not JSON.
SecretErrors ==
    {"GetFails", "NoData", "NoKey", "NotString", "BadBase64", "BadJson"}

Payloads == [Fields -> Strs]

\* The settings of the CR that setAccountCredentials copies into the config:
\* Region[0] for Azure; Region and Endpoint for AWS.
CrFields == IF Provider = "aws" THEN {"region", "endpoint"} ELSE {"region"}

\* The CR's settings as setAccountCredentials stores them, trimmed.
TrimCr(cr) == [k \in CrFields |-> Trim(cr[k])]

\* The account configs setAccountCredentials builds: credential fields and
\* the trimmed settings.
CfgType == [cred : [Fields -> Strs \cup {Default}],
            cr : [CrFields -> {Trim(r) : r \in Strs}]]

\* No config (a nil *cloudAccountConfig) is not a config.
ASSUME NoCfgAssumption == NoCfg \notin CfgType
SecretObjs == {[kind |-> e] : e \in SecretErrors}
                \cup {[kind |-> "Payload", data |-> p] : p \in Payloads}

\* extractSecret (AWS): the key's value is type-asserted to a string without
\* the ok form, so a missing key or a non-string value panics; the decoded
\* fields are not checked.
ExtractSecretAws(o) ==
    CASE o.kind \in {"GetFails", "NoData"}   -> [status |-> "err", cred |-> NoCfg]
      [] o.kind \in {"NoKey", "NotString"}   -> [status |-> "panic", cred |-> NoCfg]
      [] o.kind \in {"BadBase64", "BadJson"} -> [status |-> "err", cred |-> NoCfg]
      [] OTHER                               -> [status |-> "ok", cred |-> o.data]

\* Mutant: the key's value is type-asserted without the ok form, as in the
\* AWS plugin.
ExtractSecretAzureUnchecked(o) ==
    CASE o.kind \in {"NoKey", "NotString"} -> [status |-> "panic", cred |-> NoCfg]
      [] o.kind \in SecretErrors ->
             [status |-> "err", cred |-> [f \in Fields |-> EmptyStr]]
      [] \E f \in Required : o.data[f] = EmptyStr ->
             [status |-> "err", cred |-> o.data]
      [] OTHER -> [status |-> "ok", cred |-> o.data]

\* Mutant: the check for empty fields is dropped.
ExtractSecretAzureNoEmptyCheck(o) ==
    CASE o.kind \in SecretErrors ->
             [status |-> "err", cred |-> [f \in Fields |-> EmptyStr]]
      [] OTHER -> [status |-> "ok", cred |-> o.data]

\* extractSecret (Azure): every failure returns the credential struct read
\* so far and an error; a payload with an empty required field is an error.
ExtractSecretAzure(o) ==
    CASE o.kind \in SecretErrors ->
             [status |-> "err", cred |-> [f \in Fields |-> EmptyStr]]
      [] \E f \in Required : o.data[f] = EmptyStr ->
             [status |-> "err", cred |-> o.data]
      [] OTHER -> [status |-> "ok", cred |-> o.data]

\* setAccountCredentials (AWS): an error returns no config; otherwise the
\* credentials with the trimmed region and endpoint.
SetAccountCredentialsAws(o, cr) ==
    LET x == ExtractSecretAws(o) IN
    IF x.status # "ok" THEN [status |-> x.status, cfg |-> NoCfg]
    ELSE [status |-> "ok", cfg |-> [cred |-> x.cred, cr |-> TrimCr(cr)]]

\* Mutant: the region is stored as the CR spells it.
SetAccountCredentialsAzureNoTrim(o, cr) ==
    LET x == ExtractSecretAzure(o)
        cred == IF x.status = "err" THEN [f \in Fields |-> Default] ELSE x.cred
    IN  [status |-> x.status, cfg |-> [cred |-> cred, cr |-> cr]]

\* setAccountCredentials (Azure): the trimmed region is set first; an error
\* replaces every credential field by the sentinel and is returned with the
\* config.
SetAccountCredentialsAzure(o, cr) ==
    LET x == ExtractSecretAzure(o)
        cred == IF x.status = "err" THEN [f \in Fields |-> Default] ELSE x.cred
    IN  [status |-> x.status, cfg |-> [cred |-> cred, cr |-> TrimCr(cr)]]

SetAccountCredentials(o, cr) ==
    IF Provider = "aws" THEN SetAccountCredentialsAws(o, cr)
    ELSE SetAccountCredentialsAzure(o, cr)

\* Mutant: the comparison of one credential field is left out.
CompareAccountCredentialsAzureSkipField(old, new) ==
    \/ \E f \in Fields \ {CHOOSE f \in Fields : TRUE} : old.cred[f] # new.cred[f]
    \/ old.cr["region"] # new.cr["region"]

\* compareAccountCredentials (Azure): any credential field or the region,
\* compared as stored (strings.Compare).
CompareAccountCredentialsAzure(old, new) ==
    \/ \E f \in Fields : old.cred[f] # new.cred[f]
    \/ old.cr["region"] # new.cr["region"]

\* Mutant: the endpoint, the last field the AWS config gained, is not
\* compared.
CompareAccountCredentialsAwsNoEndpoint(old, new) ==
    \/ \E f \in Fields : old.cred[f] # new.cred[f]
    \/ old.cr["region"] # new.cr["region"]

\* compareAccountCredentials (AWS): any credential field, the region or the
\* endpoint, compared as stored (strings.Compare).
CompareAccountCredentialsAws(old, new) ==
    \/ \E f \in Fields : old.cred[f] # new.cred[f]
    \/ old.cr["region"] # new.cr["region"]
    \/ old.cr["endpoint"] # new.cr["endpoint"]

CompareAccountCredentials(old, new) ==
    IF Provider = "aws" THEN CompareAccountCredentialsAws(old, new)
    ELSE CompareAccountCredentialsAzure(old, new)

-----------------------------------------------------------------------------
(* The account's credentials across reconciles: the secret and the CR are  *)
(* edited, and each reconcile calls AddProviderAccount, that is            *)
(* AddCloudAccount, which creates the config or updates the existing one.  *)

VARIABLES
    secret,     \* the referenced secret object
    cr,         \* the settings of the CR
    installed,  \* the account's config in the registry, or NoCfg
    status,     \* the outcome of the last AddCloudAccount
    changed     \* what its comparison reported

vars == <<secret, cr, installed, status, changed>>

Init ==
    /\ secret \in SecretObjs
    /\ cr \in [CrFields -> CrValues]
    /\ installed = NoCfg
    /\ status = "none"
    /\ changed = FALSE

\* A panic ends the controller process: nothing happens after it.
EditSecret(o) ==
    /\ status # "panic"
    /\ secret' = o
    /\ UNCHANGED <<cr, installed, status, changed>>

\* An edit of one setting of the CR.
EditCr(k, v) ==
    /\ status # "panic"
    /\ cr' = [cr EXCEPT ![k] = v]
    /\ UNCHANGED <<secret, installed, status, changed>>

\* AddCloudAccount for an account not in the registry: newCloudAccountConfig
\* fails on a resolution error and nothing is recorded.
AddNew ==
    LET r == SetAccountCredentials(secret, cr) IN
    /\ status # "panic"
    /\ installed = NoCfg
    /\ status' = r.status
    /\ installed' = IF r.status = "ok" THEN r.cfg ELSE NoCfg
    /\ changed' = FALSE
    /\ UNCHANGED <<secret, cr>>

\* AddCloudAccount for a registered account: updateCloudAccountConfig
\* installs the newly built config when compareAccountCredentials reports a
\* change; without a config (AWS error) the old one stays.
AddExisting ==
    LET r == SetAccountCredentials(secret, cr) IN
    /\ status # "panic"
    /\ installed # NoCfg
    /\ status' = r.status
    /\ IF r.status = "panic" \/ r.cfg = NoCfg
       THEN UNCHANGED <<installed, changed>>
       ELSE /\ changed' = CompareAccountCredentials(installed, r.cfg)
            /\ installed' = IF changed' THEN r.cfg ELSE installed
    /\ UNCHANGED <<secret, cr>>

Next ==
    \/ \E o \in SecretObjs : EditSecret(o)
    \/ \E k \in CrFields, v \in CrValues : EditCr(k, v)
    \/ AddNew
    \/ AddExisting

Spec == Init /\ [][Next]_vars

-----------------------------------------------------------------------------
\* A config with its strings trimmed.
TrimCfg(cfg) == [cred |-> [f \in Fields |-> Trim(cfg.cred[f])],
                 cr |-> TrimCr(cfg.cr)]

TypeOK ==
    /\ secret \in SecretObjs
    /\ cr \in [CrFields -> CrValues]
    /\ status \in {"none", "ok", "err", "panic"}
    /\ changed \in BOOLEAN
    /\ installed \in {NoCfg} \cup CfgType

(* NoPanic: no secret content, however malformed, makes credential         *)
(* resolution panic (spec section 7: "plugins never panic"; a missing or   *)
(* malformed secret is a retried credential error).                        *)
NoPanic == status # "panic"

(* InstalledUsable: the config in the registry never carries an empty      *)
(* required credential field (spec section 6: "Any empty required field is *)
(* a credential-resolution failure").                                      *)
InstalledUsable ==
    installed # NoCfg => \A f \in Required : installed.cred[f] # EmptyStr

(* ReloadTracksSecret: after every AddCloudAccount that resolves the       *)
(* secret, the registry's config holds, up to surrounding whitespace, the  *)
(* credentials and settings just resolved: no edit of any field is lost by *)
(* the comparison that decides whether the config is replaced.             *)
ReloadTracksSecret ==
    [][LET new == SetAccountCredentials(secret, cr) IN
       (/\ new.status = "ok"
        /\ status' = "ok"
        /\ UNCHANGED <<secret, cr>>)
       => TrimCfg(installed') = TrimCfg(new.cfg)]_vars

(* ChangeIffTrimmedDiffers: a re-invocation reports a credential change    *)
(* exactly when some trimmed field differs (spec section 8, property 5,    *)
(* and section 4.2: "The comparator must treat whitespace-trimmed          *)
(* strings").                                                              *)
ChangeIffTrimmedDiffers ==
    [][LET new == SetAccountCredentials(secret, cr) IN
       (/\ installed # NoCfg
        /\ new.status # "panic"
        /\ new.cfg # NoCfg
        /\ UNCHANGED <<secret, cr>>
        /\ vars' # vars)
       => (changed' <=> TrimCfg(installed) # TrimCfg(new.cfg))]_vars

====
