SPECIFICATION JarSpec
CONSTANTS
    Jars = {j1, j2}
    NoJar = NoJar
    Replacers = {c1, c2}
    Runs = {x1}
    Nobody = Nobody
    Failed = Failed
    MaxGen = 4
SYMMETRY Symmetric
INVARIANTS JarTypeOK JarsAgree VerdictIsCurrent ResultFitsRow
