\* Two terminals copy: one between the copy and the read-back of the other.
SPECIFICATION FairSpec
CONSTANTS
    Keys = {"totp", "TOTP", "user"}
    NoKey = NoKey
    Lower <- MCLower
    Totp = "totp"
    Base32 <- MCBase32
    Terminals = {t1, t2}
    Writers = {t1}
    Clearers = {c1, c2}
    Stored <- MCStored
    Fresh <- MCFresh
    Others <- MCOthers
    Empty <- MCEmpty
    Seen <- MCSeen
INVARIANTS
    TypeOK
    FieldAsDocumented
    ClearerKnows
    UserTextStays
PROPERTIES
    SecretLeaves
