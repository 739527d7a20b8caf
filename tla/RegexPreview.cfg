SPECIFICATION Spec
CONSTANTS
    Search = {b1, b2}
    Text = {none, quick, slow}
    Plain = {none}
    Slow = {slow}
    NoJob = NoJob
    NoResult = NoResult
    Matcher = Matcher
    Checking = Checking
    MaxPosted = 4
INVARIANTS
    JobsAgree
    StatusFits
PROPERTIES
    CheckingEnds
