--------------------------- MODULE CloudResource ---------------------------
(***************************************************************************)
(* Cloud-visible names of the security groups the system owns              *)
(* (cloudresource.go).  SetCloudResourcePrefix stores the controller       *)
(* prefix in a package variable; every GetCloudName call recomputes the    *)
(* address-group or applied-to prefix from it, stores that in a second     *)
(* package variable, and appends the lowercased resource name.             *)
(*                                                                         *)
(* A string is a sequence of one-character strings; strings.ToLower maps  *)
(* each character through CaseMap.  The prefix is set once, at process     *)
(* start, before any plugin names a group (spec section 9); after that     *)
(* concurrent GetCloudName calls write the same value to the cached        *)
(* prefixes, so one atomic step per call loses no interleaving.            *)
(***************************************************************************)
EXTENDS Sequences

CONSTANTS
    Chars,      \* the characters names are made of
    CaseMap,    \* strings.ToLower on one character
    StartPrefixes,   \* the prefixes the process may be started with
    Names,      \* the CloudResourceID.Name values groups may have
    Vpcs        \* the CloudResourceID.Vpc values

ASSUME ResourceAssumption ==
    /\ CaseMap \in [Chars -> Chars]
    /\ {"-", "a", "g", "t"} \subseteq Chars
    /\ StartPrefixes \subseteq Seq(Chars)
    /\ Names \subseteq Seq(Chars)

\* strings.ToLower.
ToLower(s) == [i \in DOMAIN s |-> CaseMap[s[i]]]

AgInfix == <<"-", "a", "g", "-">>
AtInfix == <<"-", "a", "t", "-">>

\* A group of the synchronizer: its CloudResourceID and its role.
Groups == [Name : Names, Vpc : Vpcs, membershipOnly : BOOLEAN]

\* The ghost record of names with group g named n added.
Issue(f, g, n) == [x \in DOMAIN f \cup {g} |-> IF x = g THEN n ELSE f[x]]

VARIABLES
    ControllerPrefix,              \* the package variables of the same name
    ControllerAddressGroupPrefix,
    ControllerAppliedToPrefix,
    prefixSet,                     \* SetCloudResourcePrefix has run
    issued                         \* ghost: group -> the name it was given

vars == <<ControllerPrefix, ControllerAddressGroupPrefix,
          ControllerAppliedToPrefix, prefixSet, issued>>

\* Go zero values: empty strings, nothing named yet.
Init ==
    /\ ControllerPrefix = <<>>
    /\ ControllerAddressGroupPrefix = <<>>
    /\ ControllerAppliedToPrefix = <<>>
    /\ prefixSet = FALSE
    /\ issued = [g \in {} |-> <<>>]

SetCloudResourcePrefix(p) ==
    /\ ~prefixSet
    /\ ControllerPrefix' = p
    /\ prefixSet' = TRUE
    /\ UNCHANGED <<ControllerAddressGroupPrefix, ControllerAppliedToPrefix,
                   issued>>

\* Mutant: the applied-to prefix is cached in the address-group variable.
GetCloudNameSwappedCache(g) ==
    /\ prefixSet
    /\ IF g.membershipOnly
       THEN /\ ControllerAddressGroupPrefix' = ControllerPrefix \o AgInfix
            /\ issued' = Issue(issued, g, ControllerAddressGroupPrefix' \o ToLower(g.Name))
            /\ UNCHANGED ControllerAppliedToPrefix
       ELSE /\ ControllerAddressGroupPrefix' = ControllerPrefix \o AtInfix
            /\ issued' = Issue(issued, g, ControllerAddressGroupPrefix' \o ToLower(g.Name))
            /\ UNCHANGED ControllerAppliedToPrefix
    /\ UNCHANGED <<ControllerPrefix, prefixSet>>

\* Mutant: the name is appended as spelled.
GetCloudNameNoLower(g) ==
    /\ prefixSet
    /\ IF g.membershipOnly
       THEN /\ ControllerAddressGroupPrefix' = ControllerPrefix \o AgInfix
            /\ issued' = Issue(issued, g, ControllerAddressGroupPrefix' \o g.Name)
            /\ UNCHANGED ControllerAppliedToPrefix
       ELSE /\ ControllerAppliedToPrefix' = ControllerPrefix \o AtInfix
            /\ issued' = Issue(issued, g, ControllerAppliedToPrefix' \o g.Name)
            /\ UNCHANGED ControllerAddressGroupPrefix
    /\ UNCHANGED <<ControllerPrefix, prefixSet>>

\* CloudResourceID.GetCloudName, with GetControllerAddressGroupPrefix or
\* GetControllerAppliedToPrefix: the role's prefix is recomputed, cached in
\* its package variable and read back, and the lowercased name appended.
GetCloudName(g) ==
    /\ prefixSet
    /\ IF g.membershipOnly
       THEN /\ ControllerAddressGroupPrefix' = ControllerPrefix \o AgInfix
            /\ issued' = Issue(issued, g, ControllerAddressGroupPrefix' \o ToLower(g.Name))
            /\ UNCHANGED ControllerAppliedToPrefix
       ELSE /\ ControllerAppliedToPrefix' = ControllerPrefix \o AtInfix
            /\ issued' = Issue(issued, g, ControllerAppliedToPrefix' \o ToLower(g.Name))
            /\ UNCHANGED ControllerAddressGroupPrefix
    /\ UNCHANGED <<ControllerPrefix, prefixSet>>

Next ==
    \/ \E p \in StartPrefixes : SetCloudResourcePrefix(p)
    \/ \E g \in Groups : g \notin DOMAIN issued /\ GetCloudName(g)

Spec == Init /\ [][Next]_vars

-----------------------------------------------------------------------------
\* The cached prefixes are unset or derived from the current prefix.
TypeOK ==
    /\ ControllerPrefix \in StartPrefixes \cup {<<>>}
    /\ ControllerAddressGroupPrefix \in {<<>>, ControllerPrefix \o AgInfix}
    /\ ControllerAppliedToPrefix \in {<<>>, ControllerPrefix \o AtInfix}
    /\ prefixSet \in BOOLEAN
    /\ DOMAIN issued \subseteq Groups
    /\ \A g \in DOMAIN issued : issued[g] \in Seq(Chars)

(* NamesIdentifyGroups: two groups get the same cloud name exactly when    *)
(* they have the same role and their names agree up to case; so a         *)
(* membership-only group and an applied-to group never share a cloud name, *)
(* and a lookup by the lowercased name finds the group whatever case the   *)
(* CR spelled it in (spec sections 3 and 4.4: lookup is case-insensitive,  *)
(* writes use the lowercased form).                                        *)
NamesIdentifyGroups ==
    \A g, h \in DOMAIN issued :
        issued[g] = issued[h]
            <=> /\ g.membershipOnly = h.membershipOnly
                /\ ToLower(g.Name) = ToLower(h.Name)

====
