CONSTANTS
    a = a
    b = b
    Provider = "azure"
    Fields <- MC_AzureFields
    Required <- MC_AzureFields
    Strs <- MC_Strs
    CrValues <- MC_CrValues
    Empty = Empty
    Default = Default
    NoCfg = NoCfg

SPECIFICATION Spec

PROPERTY ChangeIffTrimmedDiffers
