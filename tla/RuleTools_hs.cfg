SPECIFICATION ToolsSpec
CONSTANTS
    RuleBases <- MCRuleBases
    Ratios <- MCRatios
    MaxRules = 4
    WordSize = 5
    MaxPrefixes = 2
    Segments = {4, 5}
    RawRules <- MCRawRules
INVARIANTS
    HsFiltered
