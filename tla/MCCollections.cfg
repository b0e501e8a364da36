CONSTANTS
    Lower <- MCLower
    Top = 255
    MaxKeyLen = 13
    ExactLimit = 4
    NumberBias = 100
    LeafSize = 3
    MaxInt = 9
    MaxNesting = 3
    Calls <- MCCalls
    Starts <- MCStarts
    Asked <- MCAsked
    Totalled <- MCTotalled
    Damages <- MCDamages
    FindBy <- MCFindBy
    CountBy <- MCCountBy
    AnyBy <- MCAnyBy
    TotalBy <- MCTotalBy
    CheckBy <- MCCheckBy
    Answers <- MCAnswers
    Matching <- MatchingIds
    TuplesOf <- TupleValues
    RowsFor <- MCRowsFor
    Locations = {1, 2, 3, 4, 5, 6}
    Roots = {1, 2, 3, 4}
    MaxCalls = 1
    KeysOf <- IndexKeys
    IdOfKey <- KeyId
    Tuples <- UniqueTuples
    SameValues <- SameTuple
    UnderPart <- IsPrefix
    WithId <- WithIdOf
    Found <- FoundIds
    Matched <- MCMatched
    HintFollowed <- MCHintFollowed
    Changed <- MCChanged
    SeedOf <- SeedFor
    Refused <- NestsTooDeep
    Invalid <- MCInvalid
    Outgrows <- MCOutgrows
SPECIFICATION Spec
INVARIANT EntriesMatchDocs FindsRight CountsAgree AggregatesRight CheckFindsDamage
PROPERTY ImplementsDocuments
CHECK_DEADLOCK FALSE
