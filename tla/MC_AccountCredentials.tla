----------------------- MODULE MC_AccountCredentials -----------------------
(***************************************************************************)
(* Small instances of AccountCredentials for TLC: two credential fields,   *)
(* and strings that are empty, "a", "a" with surrounding whitespace, or    *)
(* "b"; CR settings "a" with and without surrounding whitespace, or "b".   *)
(***************************************************************************)
EXTENDS AccountCredentials, TLC

CONSTANTS a, b

MC_Strs ==
    {[core |-> Empty, pad |-> FALSE], [core |-> a, pad |-> FALSE],
     [core |-> a, pad |-> TRUE], [core |-> b, pad |-> FALSE]}

MC_CrValues ==
    {[core |-> a, pad |-> FALSE], [core |-> a, pad |-> TRUE], [core |-> b, pad |-> FALSE]}

MC_AwsFields == {"accessKeyId", "accessKeySecret"}
MC_AzureFields == {"subscriptionId", "clientKey"}

====
