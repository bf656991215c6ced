\* save_to_file() of a template whose name has four characters
SPECIFICATION ParserSpec
CONSTANTS
    AstOf <- GenerateAst
    Parsed <- ParseChildren
    OneCharacter <- Characters
    MaxNumber = 2
    Path <- Paths
    FourLetters <- FourLetter
    Given <- FourLetter
    Text <- Texts
    Key = {"name"}
    List = {"items"}
    NewValue <- Values
    Item <- Items1
    MaxParser = 2
    MaxTree = 2
    MaxList = 2
    MaxWords = 1
\* a rendering may end the process
CHECK_DEADLOCK FALSE
PROPERTIES SaveKeepsTemplate
