SPECIFICATION Spec
CONSTANTS
    Raws = {r1}
    Keyfiles = {k1}
    EmptyKeyfile = empty
    NoKeyfile = noKeyfile
    Terminals = {t1, t2}
    Writers = {t1}
    Names = {n1}
    Global = global
    Modes = {"r"}
    NoFile = noFile
    None = none
INVARIANTS StoreOpens GlobalProven
