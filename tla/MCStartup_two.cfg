\* Two programs on every kind of database, any of them stopped at any step.
CONSTANTS
    server = server
    cli = cli
    t1 = t1
    t2 = t2
    t3 = t3
    noun = noun
    verb = verb
    None = None
    Empty = Empty
    NoToken = NoToken
    Programs = {server, cli}
    Tokens = {t1, t2}
    OldToken = t1
    Cards = {noun}
    Installs = {"fresh", "single", "multi"}
    MaxUser = 2
    MaxForget = 2
SPECIFICATION FairSpec
CONSTRAINT NotBoth
INVARIANTS TypeOK UpIsComplete RowsHaveUsers ConfigReadable OwnerTokenOnDisk
PROPERTIES StartsEnd
CHECK_DEADLOCK FALSE
