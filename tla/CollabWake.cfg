SPECIFICATION Spec
CONSTANTS
    a = a  b = b  q = q
    Workers = {a, b}
    NoOne = NoOne
    Requests = {q}
    Candidates = {b}
    Facts <- MCFacts
    Revisions <- MCRevisions
INVARIANTS
    EdgeKept
    OnlyNews
    BatchIsTrue
CHECK_DEADLOCK FALSE
