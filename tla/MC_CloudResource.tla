-------------------------- MODULE MC_CloudResource --------------------------
EXTENDS CloudResource

\* Lower and upper case of one letter, the letters of the infixes, and "-".
MC_Chars == {"a", "A", "g", "t", "-"}
MC_CaseMap == [c \in MC_Chars |-> IF c = "A" THEN "a" ELSE c]

\* The default prefix "nephe" shortened to one letter, and a prefix that
\* ends in "-ag" and so runs into the infix.
MC_Prefixes == {<<"a">>, <<"a", "-", "a", "g">>}

\* Names that differ only in case, a name that contains an infix, and a
\* name that is a prefix of another.
MC_Names == {<<"a">>, <<"A">>, <<"a", "-", "a", "t">>, <<"t">>}

MC_Vpcs == {"v1"}
====
