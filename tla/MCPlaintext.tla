---------------------------- MODULE MCPlaintext ----------------------------
(***************************************************************************)
(* Two texts of a secret, and a clipboard that adds to one of its values.  *)
(***************************************************************************)
EXTENDS Plaintext

MCLower == [k \in Keys |-> IF k = "TOTP" THEN "totp" ELSE k]

Line(k, v) == [key |-> k, value |-> v]
Opens(k) == Line(k, "|")
Password1 == Line("user", "word")
Code == Plain("JBSW")

\* Between them the texts have a block that ends at a field, at a blank line and
\* with the text, one that is empty, a key that comes twice and a line outside
\* of fields.  There are three secrets to copy from them: the password, a key
\* (under two names) and its code.
MCStored == <<Password1, Opens("TOTP"), Code, Opens("user"), Code, Blank, Code>>
MCFresh == <<Password1, Line("totp", "JBSW"), Opens("TOTP"), Blank, Opens("user"), Code>>

MCBase32 == {<<"JBSW">>}
MCOthers == {<<"mine">>}
MCEmpty == <<>>

\* A paste gives the password with a line's end, which it was copied without.
MCSeen(v) == IF v = Password(MCStored) THEN v \o <<"newline">> ELSE v

=============================================================================
