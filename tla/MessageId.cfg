SPECIFICATION IdsSpec
CONSTANTS
    Uid <- TwoCharacters
    GroupId <- OneGroup
    UidLength = 2
INVARIANTS ChatShowsItsMessages PreviewIsOfTheChat
