SPECIFICATION Spec
CONSTANTS
    None = None
    Tenant = 1
    MaxLength = 5
    Texts <- MCTexts
    ParamLists <- MCParamLists
    Inserts <- MCInserts
INVARIANTS SentAsWritten InsertBindsItsRow ScopeBinds
