SPECIFICATION Spec
CONSTANTS
    Files = {F1, F2}
    Configs <- MCConfigs
    MaxLoads = 3
    ReadErrors = TRUE
    WriteErrors = TRUE
    GivenKinds = {"RSA"}
    Absent = Absent
    Torn = Torn
    F1 = F1
    F2 = F2
INVARIANTS
    TypeOK
    RegistryOfOneVersion
    ServedKeysSurvive
    CachedKeysStayGood
    RegisteredKeysFit
PROPERTIES
    ImplementsKeyRegistry
CHECK_DEADLOCK FALSE
