----------------------------- MODULE Plaintext -----------------------------
(***************************************************************************)
(* Where the plaintext of a secret goes: to the clipboard, from which a    *)
(* detached process clears it later (clip/clipboard.go; commands/show.go,  *)
(* totp.go, generate.go; cmd/sympa/main.go), and to a temporary file while *)
(* it is edited (commands/edit.go, secret/tempfile.go).                    *)
(*                                                                         *)
(* The clipboard belongs to everybody: other terminals and the user copy   *)
(* at any moment, also between two steps of a command or of a clearer.     *)
(* Commands that print, and reading and decrypting a secret, change        *)
(* nothing here; a new secret is edited in an empty file.                  *)
(***************************************************************************)
EXTENDS Fields

CONSTANTS
    Terminals,  \* each runs one command at a time
    Writers,    \* those in which the secret is changed
    Clearers,   \* the detached processes (bound: as many at a time)
    Stored,     \* the text of the secret at first
    Fresh,      \* the text "generate" or an edit gives it
    Others,     \* what the user copies
    Empty,      \* nothing on the clipboard
    Seen(_)     \* what a paste returns of a text the clipboard was given

ASSUME TextAssumption == {Stored, Fresh} \subseteq Seq(Lines)

ASSUME WriterAssumption == Writers \subseteq Terminals

VARIABLES
    text,     \* the text of the secret
    board,    \* what the clipboard was given last
    command,  \* where each terminal is: at, and the out or print of a copy
    clearer,  \* the clearers, each with the print it compares
    tmp,      \* the temporary file of each terminal's edit
    exposed,  \* history: what is on the clipboard may stay, because its command
              \* or its clearer has failed or was stopped
    own       \* history: the user copied what is on the clipboard, at a moment
              \* when nobody was about to read or to clear it

vars == <<text, board, command, clearer, tmp, exposed, own>>

Idle == [at |-> "idle"]
Asleep(print) == [at |-> "sleep", print |-> print]
Clearing(print) == [at |-> "clear", print |-> print]

\* A SHA-256 sum: equal for equal texts only.
Fingerprint(v) == v

\* Whether a process with the fingerprint clears a clipboard that was given v.
Matches(print, v) == print = Fingerprint(Seen(v))

Init ==
    /\ text = Stored
    /\ board = Empty
    /\ command = [p \in Terminals |-> Idle]
    /\ clearer = [c \in Clearers |-> Idle]
    /\ tmp = [p \in Terminals |-> "none"]
    /\ exposed = FALSE /\ own = FALSE

Goto(p, state) == command' = [command EXCEPT ![p] = state]
File(p, state) == tmp' = [tmp EXCEPT ![p] = state]

----------------------------------------------------------------------------
\* The clipboard.

Copies(p, out) ==
    /\ Goto(p, [at |-> "copy", out |-> out])
    /\ File(p, "none")
    /\ UNCHANGED <<board, clearer, exposed, own>>

\* "show -c", of the password or of a field, and "totp -c".
HandleShow(p) ==
    /\ command[p] = Idle
    /\ \E out \in {Password(text)} \cup UNION {Get(text, k) : k \in Keys} : Copies(p, out)
    /\ UNCHANGED text

HandleTotp(p) ==
    /\ command[p] = Idle
    /\ \E out \in UNION {Generate(v) : v \in Get(text, Totp)} : Copies(p, out)
    /\ UNCHANGED text

\* "generate -c -f".
HandleGenerate(p) ==
    /\ command[p] = Idle
    /\ text' = Fresh
    /\ Copies(p, Password(Fresh))

Copy(p) ==
    /\ command[p].at = "copy"
    /\ board' = command[p].out /\ own' = FALSE /\ exposed' = FALSE
    /\ Goto(p, [at |-> "readBack", out |-> command[p].out])
    /\ UNCHANGED <<text, clearer, tmp>>

CopyFails(p) ==
    /\ command[p].at = "copy"
    /\ Goto(p, Idle)
    /\ UNCHANGED <<text, board, clearer, tmp, exposed, own>>

ToSpawn(p, print) ==
    Goto(p, [at |-> "spawn", print |-> print])

\* Mutant: the fingerprint is that of what was copied.
ReadBackSkipped(p) ==
    /\ command[p].at = "readBack"
    /\ ToSpawn(p, Fingerprint(command[p].out))
    /\ UNCHANGED <<text, board, clearer, tmp, exposed, own>>

\* The fingerprint is that of what a paste returns, or of what was copied when
\* there is no paste.
ReadBack(p) ==
    /\ command[p].at = "readBack"
    /\ ToSpawn(p, Fingerprint(Seen(board)))
    /\ UNCHANGED <<text, board, clearer, tmp, exposed, own>>

ReadBackFails(p) ==
    /\ command[p].at = "readBack"
    /\ LET out == command[p].out
       IN /\ ToSpawn(p, Fingerprint(out))
          /\ exposed' = (exposed \/ (board = out /\ Seen(out) # out))
    /\ UNCHANGED <<text, board, clearer, tmp, own>>

Spawn(p) ==
    /\ command[p].at = "spawn"
    /\ \E c \in Clearers :
          /\ clearer[c] = Idle
          /\ clearer' = [clearer EXCEPT ![c] = Asleep(command[p].print)]
    /\ Goto(p, Idle)
    /\ UNCHANGED <<text, board, tmp, exposed, own>>

\* The process does not start, which is no error.
SpawnFails(p) ==
    /\ command[p].at = "spawn"
    /\ Goto(p, Idle)
    /\ exposed' = (exposed \/ Matches(command[p].print, board))
    /\ UNCHANGED <<text, board, clearer, tmp, own>>

\* Mutant: it clears whatever it finds.
CompareBlind(c) ==
    /\ clearer[c].at = "sleep"
    /\ clearer' = [clearer EXCEPT ![c] = Clearing(@.print)]
    /\ UNCHANGED <<text, board, command, tmp, exposed, own>>

\* Mutant: it waits until something else is on the clipboard.
CompareWaits(c) ==
    /\ clearer[c].at = "sleep"
    /\ clearer' = [clearer EXCEPT ![c] = IF Matches(@.print, board) THEN @ ELSE Idle]
    /\ UNCHANGED <<text, board, command, tmp, exposed, own>>

\* ClearIfMatch: 45 seconds later it compares ...
Compare(c) ==
    /\ clearer[c].at = "sleep"
    /\ clearer' = [clearer EXCEPT ![c] =
         IF Matches(@.print, board) THEN Clearing(@.print) ELSE Idle]
    /\ UNCHANGED <<text, board, command, tmp, exposed, own>>

\* ... and clears.
Clear(c) ==
    /\ clearer[c].at = "clear"
    /\ board' = Empty /\ own' = FALSE /\ exposed' = FALSE
    /\ clearer' = [clearer EXCEPT ![c] = Idle]
    /\ UNCHANGED <<text, command, tmp>>

\* It cannot paste or copy, or is killed when the session ends.
ClearerFails(c) ==
    /\ clearer[c] # Idle
    /\ clearer' = [clearer EXCEPT ![c] = Idle]
    /\ exposed' = (exposed \/ Matches(clearer[c].print, board))
    /\ UNCHANGED <<text, board, command, tmp, own>>

\* Nobody is about to read the clipboard, or to clear it when it was given v.
LeftAlone(v) ==
    /\ \A p \in Terminals :
         /\ command[p].at # "readBack"
         /\ command[p].at = "spawn" => ~Matches(command[p].print, v)
    /\ \A c \in Clearers :
         /\ clearer[c].at # "clear"
         /\ clearer[c].at = "sleep" => ~Matches(clearer[c].print, v)

UserCopies ==
    /\ \E v \in Others : board' = v /\ own' = LeftAlone(v)
    /\ exposed' = FALSE
    /\ UNCHANGED <<text, command, clearer, tmp>>

----------------------------------------------------------------------------
\* The temporary file of an edit.

Edits(p, here, there) ==
    /\ command[p].at = here
    /\ Goto(p, IF there = "idle" THEN Idle ELSE [at |-> there])
    /\ UNCHANGED <<board, clearer, exposed, own>>

HandleEdit(p) == Edits(p, "idle", "fill") /\ File(p, "empty") /\ UNCHANGED text

\* A secret that exists is written into the file, unless it cannot be read,
\* decrypted or written.
FillFile(p) ==
    /\ Edits(p, "fill", "edit") \/ Edits(p, "fill", "cleanup")
    /\ \E state \in {"empty", "plain"} : File(p, state)
    /\ UNCHANGED text

\* Mutant: the command returns the editor's error at once.
EditorReturns(p) ==
    /\ Edits(p, "edit", "save") \/ Edits(p, "edit", "idle")
    /\ \E state \in {tmp[p], "plain", "none"} : File(p, state)
    /\ UNCHANGED text

\* The editor leaves the file as it is, with text or not at all, and may fail.
Editor(p) ==
    /\ Edits(p, "edit", "save") \/ Edits(p, "edit", "cleanup")
    /\ \E state \in {tmp[p], "plain", "none"} : File(p, state)
    /\ UNCHANGED text

\* Nothing has changed, or it is encrypted and written, or one of these fails.
Save(p) ==
    /\ Edits(p, "save", "cleanup")
    /\ text' \in {text} \cup (IF tmp[p] = "plain" THEN {Fresh} ELSE {})
    /\ UNCHANGED tmp

\* Cleanup, deferred.  That it cannot overwrite the file is no error.
Overwrite(p) ==
    /\ Edits(p, "cleanup", "remove")
    /\ \E state \in {tmp[p]} \cup (IF tmp[p] = "plain" THEN {"noise"} ELSE {}) :
          File(p, state)
    /\ UNCHANGED text

\* That it cannot be removed is none, either: then it stays.
Remove(p) ==
    /\ Edits(p, "remove", "idle")
    /\ \E state \in {"none"} \cup (IF tmp[p] = "none" THEN {} ELSE {"stray"}) :
          File(p, state)
    /\ UNCHANGED text

\* A signal.  The file of an edit stays where it is (bound: a file that stays is
\* followed until the terminal's next command).
Interrupt(p) ==
    /\ command[p] # Idle
    /\ Goto(p, Idle)
    /\ File(p, IF tmp[p] = "none" THEN "none" ELSE "stray")
    /\ exposed' = \/ exposed
                  \/ command[p].at = "readBack" /\ board = command[p].out
                  \/ command[p].at = "spawn" /\ Matches(command[p].print, board)
    /\ UNCHANGED <<text, board, clearer, own>>

----------------------------------------------------------------------------

CopyStep(p) ==
    \/ Copy(p) \/ CopyFails(p) \/ ReadBack(p) \/ ReadBackFails(p)
    \/ Spawn(p) \/ SpawnFails(p)

ClearStep(c) == Compare(c) \/ Clear(c)

EditStep(p) ==
    \/ HandleEdit(p) \/ FillFile(p) \/ Editor(p) \/ Save(p) \/ Overwrite(p) \/ Remove(p)

Next ==
    \/ \E p \in Terminals :
         HandleShow(p) \/ HandleTotp(p) \/ CopyStep(p) \/ Interrupt(p)
    \/ \E p \in Writers : HandleGenerate(p) \/ EditStep(p)
    \/ \E c \in Clearers : ClearStep(c) \/ ClearerFails(c)
    \/ UserCopies

Spec == Init /\ [][Next]_vars

\* Commands go on and the sleep of a clearer ends.
FairSpec ==
    /\ Spec
    /\ \A p \in Terminals : WF_vars(CopyStep(p))
    /\ \A c \in Clearers : WF_vars(ClearStep(c))

----------------------------------------------------------------------------
\* Properties.

\* Every variable has a value of its kind; a command that copies has no temporary
\* file, and a terminal that is idle none but one that a signal left or that could
\* not be removed (commands/edit.go).
TypeOK ==
    /\ text \in {Stored, Fresh}
    /\ \A p \in Terminals :
         /\ command[p].at \in {"idle", "copy", "readBack", "spawn", "fill", "edit",
                               "save", "cleanup", "remove"}
         /\ tmp[p] \in {"none", "empty", "plain", "noise", "stray"}
         /\ command[p].at \in {"copy", "readBack", "spawn"} => tmp[p] = "none"
         /\ command[p].at = "idle" => tmp[p] \in {"none", "stray"}
    /\ \A c \in Clearers : clearer[c].at \in {"idle", "sleep", "clear"}
    /\ exposed \in BOOLEAN
    /\ own \in BOOLEAN /\ (own => board \in Others)

\* "show -f" gives what README.md promises for every key: Parse finds each field,
\* blocks end where they are said to end, and the line that ends one is not lost
\* (fields/fields.go, Parse and Get).
FieldAsDocumented == \A k \in Keys : Get(text, k) = Documented(text, k)

\* A secret is on the clipboard, and nothing that was to clear it has failed.
SecretOut == board \notin Others \cup {Empty} /\ ~exposed

\* While a secret is on the clipboard somebody will clear it: the command that
\* copied it has yet to read it back, or a process that will be started or sleeps
\* has the fingerprint a paste gives now, whatever was copied meanwhile and
\* whatever the clipboard does to a text (clip/clipboard.go, CopyAndClear).
ClearerKnows ==
    SecretOut =>
      \/ \E p \in Terminals : command[p].at = "readBack" /\ command[p].out = board
      \/ \E p \in Terminals : command[p].at = "spawn" /\ Matches(command[p].print, board)
      \/ \E c \in Clearers : clearer[c] # Idle /\ Matches(clearer[c].print, board)

\* A text the user copied when nobody was about to read or to clear the clipboard
\* is never cleared (clip/clipboard.go, ClearIfMatch).
UserTextStays == own => \A c \in Clearers : clearer[c].at # "clear"

\* No secret stays on the clipboard, unless its command was interrupted or one of
\* the programs it needs failed: it is cleared, or replaced, however often secrets
\* are copied and by whomever (clip/clipboard.go, CopyAndClear and ClearIfMatch).
SecretLeaves == []<>~SecretOut \/ []<><<TRUE>>_board

=============================================================================
