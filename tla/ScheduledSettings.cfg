SPECIFICATION LiveSpec
CONSTANTS
    Id = {1, 2}
    Source = {s1, s2}
    Local = Local
    Ref = {ref}
    NoRef = NoRef
    RuleKey = {language}
    Language = language
    RuleValue = {v1, v2}
    Unset = Unset
    Offered <- MCOffered
    NoRule = NoRule
    Window = {w1}
    NoWindow = NoWindow
    DayLength = 3
    Days = 2
    s1 = s1
    s2 = s2
    ref = ref
    language = language
    v1 = v1
    v2 = v2
    w1 = w1
INVARIANTS
    LastAnswerDecides
    MatchesItsWindows
PROPERTIES
    Gated
    Prevails
CHECK_DEADLOCK FALSE
