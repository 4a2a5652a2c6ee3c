\* An interruption while the journal is written.
SPECIFICATION Spec
CONSTANTS
    Raws = {r1}
    Keyfiles = {k1, k2}
    EmptyKeyfile = kEmpty
    NoKeyfile = kNone
    Names = {n1, n2}
    Hidden = {}
    Texts = {t1}
    NoFile = NoFile
    Torn = Torn
    None = None
INVARIANTS
    PendingRekeyRecoverable
\* A journal that cannot be read stops every command.
CHECK_DEADLOCK FALSE
