------------------------------- MODULE Fields -------------------------------
(***************************************************************************)
(* The text of a secret: a password and fields (fields/fields.go), and the *)
(* code of its totp field (totp/totp.go).                                  *)
(*                                                                         *)
(* A text is a sequence of lines.  A line with a colon after a name has    *)
(* that name as its key; any other line has none, and its value is the     *)
(* line.  White space around keys and values, and the bytes of a value,    *)
(* are left out.                                                           *)
(***************************************************************************)
EXTENDS Naturals, Sequences, FiniteSets

CONSTANTS
    Keys,     \* the keys that lines have and users ask for
    NoKey,    \* of a line without one
    Lower,    \* the lower case of each key
    Totp,     \* the key "totp"
    Base32    \* the values that are a TOTP key

ASSUME KeyAssumption ==
    NoKey \notin Keys /\ Totp \in Keys /\ Lower \in [Keys -> Keys]

\* What a text is a sequence of.
Lines == [key : Keys \cup {NoKey}, value : STRING]

Plain(v) == [key |-> NoKey, value |-> v]
Blank == Plain("")
IsField(line) == line.key \in Keys

\* The lines of a multiline block that begins at line i.
Block(text, i) ==
    LET from[j \in i..(Len(text) + 1)] ==
          IF j > Len(text) THEN <<>>
          ELSE IF text[j] = Blank \/ IsField(text[j]) THEN <<>>
          ELSE <<text[j].value>> \o from[j + 1]
    IN from[i]

\* Mutant: the line that ends a block is skipped, whatever it is.
AfterBlockSkipped(text, i) == i + 1

\* The line where Parse goes on after a block that ended before line i: a blank
\* line is consumed, a field is not.
AfterBlock(text, i) ==
    IF i <= Len(text) /\ IsField(text[i]) THEN i ELSE i + 1

\* Line 1 as it is, also when it has a colon.
Password(text) == <<text[1].key, text[1].value>>

Parse(text) ==
    LET fields[i \in 2..(Len(text) + 2)] ==
          IF i > Len(text) THEN <<>>
          ELSE IF ~IsField(text[i]) THEN fields[i + 1]
          ELSE IF text[i].value # "|"
          THEN <<[key |-> text[i].key, value |-> <<text[i].value>>]>> \o fields[i + 1]
          ELSE LET block == Block(text, i + 1)
               IN <<[key |-> text[i].key, value |-> block]>>
                    \o fields[AfterBlock(text, i + 1 + Len(block))]
    IN fields[2]

\* The value of the first field with the key, or none.
Get(text, key) ==
    LET fields == Parse(text)
        found == {i \in DOMAIN fields : Lower[fields[i].key] = Lower[key]}
    IN IF found = {} THEN {}
       ELSE {fields[CHOOSE i \in found : \A j \in found : i <= j].value}

\* The code of a field, which is an error when the field is no TOTP key.
Generate(value) == IF value \in Base32 THEN {<<"code", value>>} ELSE {}

----------------------------------------------------------------------------
\* What README.md says of the format ("Secret Format", "Multiline Fields").

\* Line 1 is the password; the fields are the other lines with a key.
FieldLines(text, key) ==
    {i \in 2..Len(text) : IsField(text[i]) /\ Lower[text[i].key] = Lower[key]}

\* "The value continues until a blank line, the next key: value line, or EOF."
Continues(text, i, last) ==
    \A j \in (i + 1)..last : text[j] # Blank /\ ~IsField(text[j])

DocumentedValue(text, i) ==
    IF text[i].value # "|" THEN <<text[i].value>>
    ELSE LET last == CHOOSE n \in i..Len(text) :
               /\ Continues(text, i, n)
               /\ n < Len(text) => ~Continues(text, i, n + 1)
         IN [j \in 1..(last - i) |-> text[i + j].value]

Documented(text, key) ==
    {DocumentedValue(text, i) :
       i \in {n \in FieldLines(text, key) : \A m \in FieldLines(text, key) : n <= m}}

=============================================================================
