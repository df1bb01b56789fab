CONSTANTS
    a = a
    b = b
    Provider = "aws"
    Fields <- MC_AwsFields
    Required <- MC_AwsFields
    Strs <- MC_Strs
    CrValues <- MC_CrValues
    Empty = Empty
    Default = Default
    NoCfg = NoCfg

SPECIFICATION Spec

CHECK_DEADLOCK FALSE
INVARIANT InstalledUsable
