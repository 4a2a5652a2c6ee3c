SPECIFICATION Spec
CONSTANTS
    Raws = {r1}
    Keyfiles = {k1}
    EmptyKeyfile = empty
    NoKeyfile = noKeyfile
    Terminals = {t1}
    Writers = {t1}
    Names = {n1, n2}
    Global = global
    Modes = {"off", "r"}
    NoFile = noFile
    None = none
INVARIANTS TypeOK StoreOpens GlobalProven
SYMMETRY SecretNames
