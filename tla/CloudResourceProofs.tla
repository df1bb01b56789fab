------------------------ MODULE CloudResourceProofs ------------------------
(***************************************************************************)
(* Proof, for every prefix, alphabet and set of names, that the cloud     *)
(* names GetCloudName gives security groups identify the group's role and  *)
(* its name up to case.                                                    *)
(***************************************************************************)
EXTENDS CloudResource, SequenceTheorems, TLAPS

\* The infix GetCloudName puts after the prefix for a group's role.
Infix(g) == IF g.membershipOnly THEN AgInfix ELSE AtInfix

\* The name a group is given under prefix p.
CloudName(p, g) == (p \o Infix(g)) \o ToLower(g.Name)

(* NameInv: the inductive invariant.  Every group named so far carries the *)
(* name GetCloudName computes from the current prefix, and nothing is      *)
(* named nor cached before the prefix is set, so that the prefix never     *)
(* changes under a name already given.                                     *)
NameInv ==
    /\ TypeOK
    /\ ~prefixSet => /\ DOMAIN issued = {}
                     /\ ControllerAddressGroupPrefix = <<>>
                     /\ ControllerAppliedToPrefix = <<>>
    /\ \A g \in DOMAIN issued : issued[g] = CloudName(ControllerPrefix, g)

-----------------------------------------------------------------------------
(* Lemmas about the string operators.                                     *)

LEMMA InfixesAreStrings ==
    /\ AgInfix \in Seq(Chars) /\ AtInfix \in Seq(Chars)
    /\ Len(AgInfix) = Len(AtInfix)
    /\ AgInfix # AtInfix
BY ResourceAssumption DEF AgInfix, AtInfix

\* strings.ToLower maps a string to a string of the same length.
LEMMA ToLowerIsString ==
    ASSUME NEW s \in Seq(Chars)
    PROVE  ToLower(s) \in Seq(Chars)
<1>1. DOMAIN s = 1 .. Len(s) /\ \A i \in DOMAIN s : s[i] \in Chars
    BY LenProperties
<1>2. ToLower(s) \in [1 .. Len(s) -> Chars]
    BY <1>1, ResourceAssumption DEF ToLower
<1>3. QED
    BY <1>2, LenProperties, SeqDef

LEMMA CloudNameIsString ==
    ASSUME NEW p \in Seq(Chars), NEW g \in Groups
    PROVE  CloudName(p, g) \in Seq(Chars)
<1>1. Infix(g) \in Seq(Chars) /\ ToLower(g.Name) \in Seq(Chars)
    BY InfixesAreStrings, ToLowerIsString, ResourceAssumption DEF Infix, Groups
<1>2. QED
    BY <1>1, ConcatProperties DEF CloudName

\* Concatenation of strings is associative.
LEMMA ConcatAssoc ==
    ASSUME NEW s \in Seq(Chars), NEW t \in Seq(Chars), NEW u \in Seq(Chars)
    PROVE  (s \o t) \o u = s \o (t \o u)
BY ConcatAssociative

\* A common first part of two strings can be cancelled.
LEMMA ConcatCancel ==
    ASSUME NEW s \in Seq(Chars), NEW t \in Seq(Chars), NEW u \in Seq(Chars),
           s \o t = s \o u
    PROVE  t = u
BY ConcatSimplifications

\* Two groups' names under one prefix are equal exactly when the groups
\* have the same role and the same name up to case: the infixes have the
\* same length and differ, so the first part of the names after the prefix
\* tells the role, and the rest is the lowercased name.
LEMMA CloudNameIdentifies ==
    ASSUME NEW p \in Seq(Chars), NEW g \in Groups, NEW h \in Groups
    PROVE  CloudName(p, g) = CloudName(p, h)
               <=> /\ g.membershipOnly = h.membershipOnly
                   /\ ToLower(g.Name) = ToLower(h.Name)
<1> DEFINE I == Infix(g)  J == Infix(h)  a == ToLower(g.Name)  b == ToLower(h.Name)
<1>1. /\ I \in Seq(Chars) /\ J \in Seq(Chars)
      /\ Len(I) = Len(J)
      /\ (I = J <=> g.membershipOnly = h.membershipOnly)
    BY InfixesAreStrings DEF Infix, Groups
<1>2. a \in Seq(Chars) /\ b \in Seq(Chars)
    BY ToLowerIsString, ResourceAssumption DEF Groups
<1>3. p \in Seq(Chars)
    OBVIOUS
<1>4. (p \o I) \o a = p \o (I \o a)
    BY ONLY <1>1, <1>2, <1>3, ConcatAssoc
<1>5. (p \o J) \o b = p \o (J \o b)
    BY ONLY <1>1, <1>2, <1>3, ConcatAssoc
<1>6. I \o a \in Seq(Chars) /\ J \o b \in Seq(Chars)
    BY <1>1, <1>2, ConcatProperties
<1>7. SUFFICES ASSUME CloudName(p, g) = CloudName(p, h)
               PROVE  I = J /\ a = b
    BY <1>1 DEF CloudName
<1>8. I \o a = J \o b
    BY ONLY <1>3, <1>4, <1>5, <1>6, <1>7, ConcatCancel DEF CloudName
<1>9. I = J
    <2>1. ASSUME NEW i \in 1 .. Len(I) PROVE I[i] = J[i]
        <3>1. I[i] = (I \o a)[i]
            BY <1>1, <1>2, ConcatProperties
        <3>2. J[i] = (J \o b)[i]
            BY <1>1, <1>2, ConcatProperties
        <3>3. QED
            BY <1>8, <3>1, <3>2
    <2>2. QED
        BY <1>1, <2>1, SeqEqual
<1>10. a = b
    BY ONLY <1>1, <1>2, <1>8, <1>9, ConcatCancel
<1>11. QED
    BY <1>9, <1>10

-----------------------------------------------------------------------------
(* The invariant.                                                          *)

LEMMA PrefixIsString ==
    ASSUME TypeOK
    PROVE  ControllerPrefix \in Seq(Chars)
BY ResourceAssumption, EmptySeq DEF TypeOK

LEMMA NameInit == Init => NameInv
BY DEF Init, NameInv, TypeOK

\* GetCloudName records, for a group, the name CloudName gives it.
LEMMA GetCloudNameIssues ==
    ASSUME NEW g \in Groups, GetCloudName(g)
    PROVE  /\ issued' = Issue(issued, g, CloudName(ControllerPrefix, g))
           /\ ControllerAddressGroupPrefix' \in {ControllerAddressGroupPrefix,
                                                 ControllerPrefix \o AgInfix}
           /\ ControllerAppliedToPrefix' \in {ControllerAppliedToPrefix,
                                              ControllerPrefix \o AtInfix}
           /\ prefixSet /\ UNCHANGED <<ControllerPrefix, prefixSet>>
BY DEF GetCloudName, CloudName, Infix

LEMMA NameStep ==
    ASSUME NameInv, [Next]_vars
    PROVE  NameInv'
<1>1. ControllerPrefix \in Seq(Chars)
    BY PrefixIsString DEF NameInv
<1>2. CASE \E p \in StartPrefixes : SetCloudResourcePrefix(p)
    BY <1>2 DEF SetCloudResourcePrefix, NameInv, TypeOK
<1>3. ASSUME NEW g \in Groups, g \notin DOMAIN issued, GetCloudName(g)
      PROVE  NameInv'
    <2>1. /\ issued' = Issue(issued, g, CloudName(ControllerPrefix, g))
          /\ ControllerAddressGroupPrefix' \in {ControllerAddressGroupPrefix,
                                                ControllerPrefix \o AgInfix}
          /\ ControllerAppliedToPrefix' \in {ControllerAppliedToPrefix,
                                             ControllerPrefix \o AtInfix}
          /\ prefixSet /\ UNCHANGED <<ControllerPrefix, prefixSet>>
        BY <1>3, GetCloudNameIssues
    <2>2. CloudName(ControllerPrefix, g) \in Seq(Chars)
        BY <1>1, CloudNameIsString
    <2>3. DOMAIN issued' = DOMAIN issued \cup {g}
        BY <2>1 DEF Issue
    <2>4. TypeOK'
        BY <2>1, <2>2, <2>3 DEF NameInv, TypeOK, Issue
    <2>5. \A x \in DOMAIN issued' : issued'[x] = CloudName(ControllerPrefix', x)
        BY <2>1, <2>3 DEF NameInv, Issue
    <2>6. QED
        BY <2>1, <2>4, <2>5 DEF NameInv
<1>4. CASE UNCHANGED vars
    BY <1>4 DEF vars, NameInv, TypeOK, CloudName, Infix
<1>5. QED
    BY <1>2, <1>3, <1>4 DEF Next

(* CloudNamesIdentifyGroups: in every behaviour, for every prefix the      *)
(* process is started with and every set of names, two security groups    *)
(* GetCloudName has named share a cloud name exactly when they have the    *)
(* same role and their names agree up to case: the address-group and       *)
(* applied-to infixes have the same length and differ, so neither the role *)
(* nor the lowercased name can be confused across the prefix.              *)
THEOREM CloudNamesIdentifyGroups == Spec => []NamesIdentifyGroups
<1>1. NameInv => NamesIdentifyGroups
    <2> SUFFICES ASSUME NameInv, NEW g \in DOMAIN issued, NEW h \in DOMAIN issued
                 PROVE  issued[g] = issued[h]
                            <=> /\ g.membershipOnly = h.membershipOnly
                                /\ ToLower(g.Name) = ToLower(h.Name)
        BY DEF NamesIdentifyGroups
    <2>1. g \in Groups /\ h \in Groups /\ ControllerPrefix \in Seq(Chars)
        BY PrefixIsString DEF NameInv, TypeOK
    <2>2. issued[g] = CloudName(ControllerPrefix, g)
          /\ issued[h] = CloudName(ControllerPrefix, h)
        BY DEF NameInv
    <2>3. QED
        BY <2>1, <2>2, CloudNameIdentifies
<1>2. QED
    BY <1>1, NameInit, NameStep, PTL DEF Spec

(* CachedPrefixesCurrent: in every behaviour the package variables         *)
(* ControllerAddressGroupPrefix and ControllerAppliedToPrefix, which every *)
(* GetCloudName call overwrites, are unset or hold the role prefix built   *)
(* from the configured prefix, and every name given is a string.           *)
THEOREM CachedPrefixesCurrent == Spec => []TypeOK
<1>1. NameInv => TypeOK
    BY DEF NameInv
<1>2. QED
    BY <1>1, NameInit, NameStep, PTL DEF Spec
====
