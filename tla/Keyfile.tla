------------------------------ MODULE Keyfile ------------------------------
(***************************************************************************)
(* Effective passphrases: what a raw passphrase becomes when it is         *)
(* combined with a keyfile.  Two functions of the program do this, and     *)
(* they do not agree on a keyfile without content:                         *)
(*                                                                         *)
(*   applyKeyfile        (commands/helpers.go) derives as soon as a        *)
(*                       keyfile PATH is given;                            *)
(*   newPassphraseEntry  (commands/keyfile.go) derives only when the       *)
(*                       keyfile has CONTENT.                              *)
(*                                                                         *)
(* HKDF and SHA-256 are taken to be injective: a derived passphrase is the *)
(* pair it was derived from, and a fingerprint is the keyfile itself.      *)
(***************************************************************************)

CONSTANTS
    Raws,          \* passphrases a user can type (never empty strings)
    Keyfiles,      \* contents of the keyfiles a user can name
    EmptyKeyfile,  \* the content of a keyfile of zero bytes
    NoKeyfile      \* no keyfile: no --keyfile flag, no fingerprint recorded

ASSUME NoKeyfileAssumption == NoKeyfile \notin Keyfiles

\* What --keyfile can name, and what the fingerprint of a store or of a
\* journal can identify.
Credential == Keyfiles \cup {NoKeyfile}

\* An effective passphrase.  [raw |-> r, kf |-> NoKeyfile] is r itself.
Key == [raw : Raws, kf : Credential]

\* The len(keyfile) > 0 test of newPassphraseEntry.
HasBytes(kf) == kf \notin {NoKeyfile, EmptyKeyfile}

\* The passphrase of an ordinary command run with --keyfile kf.
ApplyKeyfile(raw, kf) == [raw |-> raw, kf |-> kf]

\* entry.oldDerived: opens the backup.
OldDerived(raw, old) ==
    [raw |-> raw, kf |-> IF HasBytes(old) THEN old ELSE NoKeyfile]

\* entry.newDerived: re-encrypts.
NewDerived(raw, old, new, removing) ==
    [raw |-> raw,
     kf  |-> IF HasBytes(new) THEN new
             ELSE IF removing \/ ~HasBytes(old) THEN NoKeyfile
             ELSE old]

=============================================================================
