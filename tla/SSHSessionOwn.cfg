\* No line ends in '#': only a late answer can go astray.
SPECIFICATION Spec
CONSTANTS
    Script <- RepeatingScript
    HashySets <- NoHashes
    MaxGiveUps = 1
INVARIANTS
    AnswersAreOwn
