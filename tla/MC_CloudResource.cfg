CONSTANTS
    Chars <- MC_Chars
    CaseMap <- MC_CaseMap
    StartPrefixes <- MC_Prefixes
    Names <- MC_Names
    Vpcs <- MC_Vpcs

SPECIFICATION Spec

INVARIANTS
    TypeOK
    NamesIdentifyGroups

CHECK_DEADLOCK FALSE
