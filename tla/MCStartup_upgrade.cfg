\* One program on the database of a single-user install.
CONSTANTS
    server = server
    cli = cli
    t1 = t1
    t2 = t2
    t3 = t3
    noun = noun
    verb = verb
    None = None
    Empty = Empty
    NoToken = NoToken
    Programs = {server}
    Tokens = {t1, t2}
    OldToken = t1
    Cards = {noun, verb}
    Installs = {"single"}
    MaxUser = 2
    MaxForget = 0
SPECIFICATION Spec
PROPERTIES MigrationsKeepProgress
CHECK_DEADLOCK FALSE
