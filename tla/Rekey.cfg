\* Two visible secrets and a hidden one, two passphrases, a store with and
\* without a keyfile: every request, mixture and interruption; interruptions that
\* may stop, and a user who keeps aborting.
SPECIFICATION FairSpec
CONSTANTS
    Raws = {r1, r2}
    Keyfiles = {k1}
    EmptyKeyfile = kEmpty
    NoKeyfile = kNone
    Names = {n1, n2, n3}
    Hidden = {n3}
    Texts = {t1}
    NoFile = NoFile
    Torn = Torn
    None = None
INVARIANTS
    TypeOK
    NothingLost
    RekeyedUnderMarker
    PassphrasesAsAsked
    AbortRestores
    IInv
PROPERTIES
    BackedUpFirst
    ImplementsAtomicRekey
    RecoveryTerminates
\* A journal that cannot be read stops every command.
CHECK_DEADLOCK FALSE
