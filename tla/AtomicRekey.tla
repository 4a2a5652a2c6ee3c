---------------------------- MODULE AtomicRekey ----------------------------
(***************************************************************************)
(* What a rekey promises, without its backup, journal and files written in *)
(* two steps: a rekey is pending, and then either the whole store has been *)
(* re-encrypted or nothing has happened to it.  While it is pending, the   *)
(* store as it was is still there to be rolled back to, and no command     *)
(* changes it.                                                             *)
(***************************************************************************)
EXTENDS Keyfile

CONSTANTS Names, Hidden, Texts, NoFile, Torn

VARIABLES
    secrets,  \* what the store holds under each name
    keyfile,  \* the keyfile every command has to be given
    pending   \* a rekey has begun and has neither ended nor been rolled back

vars == <<secrets, keyfile, pending>>

Visible == {n \in Names \ Hidden : secrets[n] # NoFile}

Init ==
    /\ secrets = [n \in Names |-> NoFile]
    /\ keyfile \in Credential
    /\ pending = FALSE

\* Any command that writes, removes or moves secrets.  A write uses the
\* keyfile of the store.
Change ==
    /\ ~pending
    /\ UNCHANGED <<keyfile, pending>>
    /\ \/ \E n \in Names, r \in Raws, t \in Texts :
            secrets' = [secrets EXCEPT ![n] = [key |-> ApplyKeyfile(r, keyfile), text |-> t]]
       \/ \E n \in Names, f \in {NoFile, Torn} : secrets' = [secrets EXCEPT ![n] = f]
       \/ \E n, m \in Names :
            secrets' = [secrets EXCEPT ![m] = secrets[n], ![n] = NoFile]

Begin ==
    /\ ~pending /\ Visible # {}
    /\ pending' = TRUE
    /\ UNCHANGED <<secrets, keyfile>>

\* All the visible secrets change their keys together, to keys that agree on
\* the keyfile; either they keep their passphrases or they all get the same.
\* Every text stays where it is, and a hidden secret is not touched.
Commit ==
    /\ pending
    /\ pending' = FALSE
    /\ keyfile' \in Credential
    /\ \A n \in Visible : secrets[n] # Torn
    /\ \E kf \in Credential, change \in BOOLEAN, r \in Raws :
         secrets' = [n \in Names |->
            IF n \notin Visible THEN secrets[n]
            ELSE [key  |-> [raw |-> IF change THEN r ELSE secrets[n].key.raw,
                            kf  |-> kf],
                  text |-> secrets[n].text]]

Rollback ==
    /\ pending
    /\ pending' = FALSE
    /\ UNCHANGED <<secrets, keyfile>>

\* A store that shows no secrets changes its keyfile without a rekey.
Reset ==
    /\ ~pending /\ Visible = {}
    /\ keyfile' \in Credential
    /\ UNCHANGED <<secrets, pending>>

Next == Change \/ Begin \/ Commit \/ Rollback \/ Reset

Spec == Init /\ [][Next]_vars

=============================================================================
