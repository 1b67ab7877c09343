\* Three commands, the third with the text of the first; in half of the
\* behaviours command 2 and the login banner print lines that end in '#'.
\* One command, any one, may be given up.
SPECIFICATION FairSpec
CONSTANTS
    Script <- RepeatingScript
    HashySets <- NoneOrTwo
    MaxGiveUps = 1
INVARIANTS
    TypeOK
    IInv
    CleanUntilTimeout
    ReadersAccounted
PROPERTIES
    ReadersEnd
