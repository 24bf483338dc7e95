SPECIFICATION Spec
CONSTANTS
    Jars = {j1}
    NoJar = NoJar
    Replacers = {c1}
    Runs = {x1}
    Nobody = Nobody
    Failed = Failed
    MaxGen = 4
    Callers = {p1}
    Leader = x1
    Latest = 2
    Nothing = Nothing
INVARIANTS FiledUnlessInside 
