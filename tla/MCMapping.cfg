CONSTANTS
    Quotas = {q}
    Namespaces = {m, n}
    Labels = {x, y}
    Selectors <- MCSelectors
    None = None
    MaxChanges = 4
SPECIFICATION FairSpec
INVARIANTS TypeOK MappingConsistent SettledIsExact SettleInv
PROPERTIES Settles
CHECK_DEADLOCK FALSE
