SPECIFICATION PipelineSpec
CONSTANTS
    Texts = {"10", "9", "NaN", "abc"}
    AsNumber <- Numbers
    NaN = NaN
    NotNumber = NotNumber
    Rank <- Ranks
    TextOf <- NumberTexts
    parse_rule <- ParsedRule
    passes <- evaluate
    SqlTrue <- SqlSelects
    Tables = {"t1", "t2"}
    Shapes <- TwoShapes
    Cells <- SomeCells
    Truncates <- SomeTruncates
    Configs <- SomeConfigs
    MaxChanges = 2
    MaxDrops = 1
INVARIANT RulesMeanWhatTheySay
INVARIANT DeliveredAsDeclared
INVARIANT SchemaBeforeRow
CHECK_DEADLOCK FALSE
