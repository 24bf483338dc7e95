SPECIFICATION LiveSpec
CONSTANTS
    Jars = {j1}
    NoJar = NoJar
    Replacers = {c1}
    Runs = {x1}
    Nobody = Nobody
    Failed = Failed
    MaxGen = 0
    Callers = {p1, p2}
    Leader = x1
    Latest = 1
    Nothing = Nothing
INVARIANTS TypeOK NeverExtractedTwice
PROPERTY CallsReturn
