\* Three handlers at once, a budget of two calls, two days.
CONSTANTS
    h1 = h1
    h2 = h2
    h3 = h3
    None = None
    Handlers = {h1, h2, h3}
    Inputs <- InputsMC
    Budget = 2
    Days = 2
    Scores <- ScoresMC
    Cyrillic <- Letters
    Latin <- Foreign
    Digits <- Figures
    Space = " "
    Lower <- LowerMC
    Words <- WordsMC
    Typings <- TypingsMC
SPECIFICATION Spec
SYMMETRY Symmetry
INVARIANTS TypeOK BudgetBound GatesHold SilenceFails NearestEdits TypographyForgiven
