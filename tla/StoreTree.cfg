SPECIFICATION Spec
CONSTANTS
    top = top
    work = work
    mail = mail
    inMail = inMail
    inWork = inWork
    Root = Root
    Terminals = {t1, t2}
    Dirs = {Root, top, work, mail}
    Names = {inMail, inWork}
    Hidden = {mail}
    Parent <- MCParent
SYMMETRY Symmetry
INVARIANTS
    UnforcedKeeps
    NoEmptyDirs
    StableListed
PROPERTIES
    NothingElseLost
