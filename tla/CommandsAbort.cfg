SPECIFICATION Spec
CONSTANTS
    Raws = {r1}
    Keyfiles = {k1}
    EmptyKeyfile = empty
    NoKeyfile = noKeyfile
    Terminals = {t1}
    Writers = {t1}
    Names = {n1}
    Global = global
    Modes = {"r", "rw"}
    NoFile = noFile
    None = none
PROPERTY AbortClearsCache
