SPECIFICATION FairSpec
CONSTANTS
    DEPTH = 2
    QOS = 2
    Commands <- WithError
    DbgCommands <- None
    FENCES = FALSE
PROPERTIES
    CommandsAreAnswered
    BothAreSent
