-------------------------- MODULE PlaintextProofs --------------------------
(***************************************************************************)
(* Theorems about Plaintext, for any number of terminals and clearers, any *)
(* texts, and whatever the clipboard makes of a text.                      *)
(*                                                                         *)
(* That somebody will clear a secret passes from hand to hand: from the    *)
(* command that has copied it to the same command with a fingerprint, and  *)
(* from there to a clearer.  That a text of the user stays needs more than *)
(* it says: nobody has its fingerprint, not even a command that has yet to *)
(* start a clearer.  What a field is does not depend on the state: it is   *)
(* the theorem of FieldsProofs.                                            *)
(***************************************************************************)
EXTENDS Plaintext, FieldsProofs

Domains ==
    DOMAIN command = Terminals /\ DOMAIN clearer = Clearers /\ DOMAIN tmp = Terminals

Quiet == own => LeftAlone(board)

PInv == Domains /\ TypeOK /\ ClearerKnows /\ Quiet

----------------------------------------------------------------------------

LEMMA InitInv == Init => PInv
<1> SUFFICES ASSUME Init PROVE PInv
  OBVIOUS
<1>1. Domains
  BY DEF Init, Domains
<1>2. TypeOK
  BY DEF Init, TypeOK, Idle
<1>3. ClearerKnows /\ Quiet
  BY DEF Init, ClearerKnows, SecretOut, Quiet
<1> QED
  BY <1>1, <1>2, <1>3 DEF PInv

\* Whatever a step leaves alone.
LEMMA StutterInv == PInv /\ UNCHANGED vars => PInv'
<1> SUFFICES ASSUME PInv, UNCHANGED vars PROVE PInv'
  OBVIOUS
<1>1. Domains' /\ TypeOK'
  BY DEF PInv, Domains, TypeOK, vars
<1>2. ClearerKnows'
  BY DEF PInv, ClearerKnows, SecretOut, Matches, vars
<1>3. Quiet'
  BY DEF PInv, Quiet, LeftAlone, Matches, vars
<1> QED
  BY <1>1, <1>2, <1>3 DEF PInv

\* A command that is about to copy.
LEMMA CopiesInv ==
    ASSUME PInv, NEW p \in Terminals, command[p] = Idle, NEW out, Copies(p, out),
           text' \in {Stored, Fresh}
    PROVE  PInv'
<1> USE DEF PInv, Copies, Goto, File, Idle
<1>1. Domains'
  BY DEF Domains
<1>2. TypeOK'
  BY DEF TypeOK, Domains
<1>3. ClearerKnows'
  BY DEF ClearerKnows, SecretOut, Matches, Domains
<1>4. Quiet'
  BY DEF Quiet, LeftAlone, Matches, Domains
<1> QED
  BY <1>1, <1>2, <1>3, <1>4

----------------------------------------------------------------------------
\* The steps of a copy.

LEMMA CopyInv ==
    ASSUME PInv, NEW p \in Terminals, CopyStep(p)
    PROVE  PInv'
<1> USE DEF PInv
<1>1. Domains'
  BY DEF Domains, CopyStep, Copy, CopyFails, ReadBack, ReadBackFails, Spawn,
         SpawnFails, Goto, ToSpawn
<1>2. TypeOK'
  <2> USE DEF Domains, TypeOK, Goto, Idle
  <2>1. CASE Copy(p)
    BY <2>1 DEF Copy
  <2>2. CASE CopyFails(p)
    BY <2>2 DEF CopyFails
  <2>3. CASE ReadBack(p)
    BY <2>3 DEF ReadBack, ToSpawn
  <2>4. CASE ReadBackFails(p)
    <3>1. exposed' \in BOOLEAN
      BY <2>4 DEF ReadBackFails
    <3> QED
      BY <2>4, <3>1 DEF ReadBackFails, ToSpawn
  <2>5. CASE Spawn(p)
    BY <2>5 DEF Spawn, Asleep
  <2>6. CASE SpawnFails(p)
    BY <2>6 DEF SpawnFails
  <2> QED
    BY <2>1, <2>2, <2>3, <2>4, <2>5, <2>6 DEF CopyStep
<1>3. ClearerKnows'
  <2> USE DEF Domains, ClearerKnows, SecretOut, Goto, Idle, Matches
  <2>1. CASE Copy(p)
    BY <2>1 DEF Copy
  <2>2. CASE CopyFails(p)
    BY <2>2 DEF CopyFails
  <2>3. CASE ReadBack(p)
    BY <2>3 DEF ReadBack, ToSpawn
  <2>4. CASE ReadBackFails(p)
    BY <2>4 DEF ReadBackFails, ToSpawn, Fingerprint
  <2>5. CASE Spawn(p)
    BY <2>5 DEF Spawn, Asleep
  <2>6. CASE SpawnFails(p)
    BY <2>6 DEF SpawnFails
  <2> QED
    BY <2>1, <2>2, <2>3, <2>4, <2>5, <2>6 DEF CopyStep
<1>4. Quiet'
  <2> USE DEF Domains, Quiet, LeftAlone, Goto, Idle, Matches
  <2>1. CASE Copy(p)
    BY <2>1 DEF Copy
  <2>2. CASE CopyFails(p)
    BY <2>2 DEF CopyFails
  <2>3. CASE ReadBack(p) \/ ReadBackFails(p)
    BY <2>3 DEF ReadBack, ReadBackFails
  <2>4. CASE Spawn(p)
    BY <2>4 DEF Spawn, Asleep
  <2>5. CASE SpawnFails(p)
    BY <2>5 DEF SpawnFails
  <2> QED
    BY <2>1, <2>2, <2>3, <2>4, <2>5 DEF CopyStep
<1> QED
  BY <1>1, <1>2, <1>3, <1>4

\* The steps of a clearer, and what the user copies.
LEMMA ClearerInv ==
    ASSUME PInv, NEW c \in Clearers, ClearStep(c) \/ ClearerFails(c)
    PROVE  PInv'
<1> USE DEF PInv, ClearStep
<1>1. Domains'
  BY DEF Domains, Compare, Clear, ClearerFails
<1>2. TypeOK'
  <2> USE DEF Domains, TypeOK, Idle
  <2>1. CASE Compare(c)
    BY <2>1 DEF Compare, Clearing
  <2>2. CASE Clear(c)
    BY <2>2 DEF Clear
  <2>3. CASE ClearerFails(c)
    BY <2>3 DEF ClearerFails
  <2> QED
    BY <2>1, <2>2, <2>3
<1>3. ClearerKnows'
  <2> USE DEF Domains, ClearerKnows, SecretOut, Idle, Matches
  <2>1. CASE Compare(c)
    BY <2>1 DEF Compare, Clearing
  <2>2. CASE Clear(c)
    BY <2>2 DEF Clear
  <2>3. CASE ClearerFails(c)
    BY <2>3 DEF ClearerFails
  <2> QED
    BY <2>1, <2>2, <2>3
<1>4. Quiet'
  <2> USE DEF Domains, Quiet, LeftAlone, Idle, Matches
  <2>1. CASE Compare(c)
    BY <2>1 DEF Compare, Clearing
  <2>2. CASE Clear(c)
    BY <2>2 DEF Clear
  <2>3. CASE ClearerFails(c)
    BY <2>3 DEF ClearerFails
  <2> QED
    BY <2>1, <2>2, <2>3
<1> QED
  BY <1>1, <1>2, <1>3, <1>4

LEMMA UserInv == PInv /\ UserCopies => PInv'
<1> SUFFICES ASSUME PInv, UserCopies PROVE PInv'
  OBVIOUS
<1>1. Domains'
  BY DEF PInv, Domains, UserCopies
<1>2. TypeOK'
  BY DEF PInv, TypeOK, UserCopies, LeftAlone
<1>3. ClearerKnows'
  BY DEF ClearerKnows, SecretOut, UserCopies
<1>4. Quiet'
  BY DEF Quiet, LeftAlone, UserCopies, Matches
<1> QED
  BY <1>1, <1>2, <1>3, <1>4 DEF PInv

----------------------------------------------------------------------------
\* The steps of an edit, which leave the clipboard alone.

LEMMA EditsInv ==
    ASSUME PInv, NEW p \in Terminals, NEW here, NEW there, Edits(p, here, there),
           here \notin {"readBack", "spawn"}, there \notin {"readBack", "spawn"}
    PROVE  ClearerKnows' /\ Quiet'
<1> USE DEF PInv, Domains, Edits, Goto, Idle
<1>1. ClearerKnows'
  BY DEF ClearerKnows, SecretOut, Matches
<1>2. Quiet'
  BY DEF Quiet, LeftAlone, Matches
<1> QED
  BY <1>1, <1>2

LEMMA EditInv ==
    ASSUME PInv, NEW p \in Terminals, EditStep(p)
    PROVE  PInv'
<1> USE DEF PInv, EditStep
<1>1. Domains'
  BY DEF Domains, HandleEdit, FillFile, Editor, Save, Overwrite, Remove, Edits,
         Goto, File
<1>2. TypeOK'
  <2> USE DEF Domains, TypeOK, Edits, Goto, File, Idle
  <2>1. CASE HandleEdit(p)
    BY <2>1 DEF HandleEdit
  <2>2. CASE FillFile(p)
    BY <2>2 DEF FillFile
  <2>3. CASE Editor(p)
    BY <2>3 DEF Editor
  <2>4. CASE Save(p)
    BY <2>4 DEF Save
  <2>5. CASE Overwrite(p)
    BY <2>5 DEF Overwrite
  <2>6. CASE Remove(p)
    BY <2>6 DEF Remove
  <2> QED
    BY <2>1, <2>2, <2>3, <2>4, <2>5, <2>6
<1>3. ClearerKnows' /\ Quiet'
  BY EditsInv DEF HandleEdit, FillFile, Editor, Save, Overwrite, Remove
<1> QED
  BY <1>1, <1>2, <1>3

LEMMA InterruptInv ==
    ASSUME PInv, NEW p \in Terminals, Interrupt(p)
    PROVE  PInv'
<1> USE DEF PInv, Interrupt, Goto, File, Idle
<1>1. Domains'
  BY DEF Domains
<1>2. TypeOK'
  BY DEF TypeOK, Domains
<1>3. ClearerKnows'
  BY DEF ClearerKnows, SecretOut, Matches, Domains
<1>4. Quiet'
  BY DEF Quiet, LeftAlone, Matches, Domains
<1> QED
  BY <1>1, <1>2, <1>3, <1>4

----------------------------------------------------------------------------

\* The invariant is inductive.
THEOREM PlaintextInvariant == Spec => []PInv
<1>1. PInv /\ [Next]_vars => PInv'
  <2> SUFFICES ASSUME PInv, [Next]_vars PROVE PInv'
    OBVIOUS
  <2>1. ASSUME NEW p \in Terminals,
               HandleShow(p) \/ HandleTotp(p) \/ HandleGenerate(p)
        PROVE  PInv'
    <3>1. text' \in {Stored, Fresh}
      BY <2>1 DEF HandleShow, HandleTotp, HandleGenerate, PInv, TypeOK
    <3>2. command[p] = Idle /\ \E out : Copies(p, out)
      BY <2>1 DEF HandleShow, HandleTotp, HandleGenerate
    <3> QED
      BY <3>1, <3>2, CopiesInv
  <2>2. ASSUME NEW p \in Terminals, CopyStep(p) \/ EditStep(p) \/ Interrupt(p)
        PROVE  PInv'
    BY <2>2, CopyInv, EditInv, InterruptInv
  <2>3. ASSUME NEW c \in Clearers, ClearStep(c) \/ ClearerFails(c) PROVE PInv'
    BY <2>3, ClearerInv
  <2> QED
    BY <2>1, <2>2, <2>3, UserInv, StutterInv, WriterAssumption DEF Next
<1> QED
  BY InitInv, <1>1, PTL DEF Spec

\* The temporary file of an edit is gone when its command is, however that ends,
\* unless a signal stopped it or the file could not be removed (edit.go,
\* handleEdit and the deferred Cleanup).
THEOREM EditsCleanUp == Spec => []TypeOK
<1>1. PInv => TypeOK
  BY DEF PInv
<1> QED
  BY PlaintextInvariant, <1>1, PTL

\* A secret on the clipboard has somebody who will recognise and clear it, unless
\* it or its command has failed (clip/clipboard.go, CopyAndClear).
THEOREM SomebodyClears == Spec => []ClearerKnows
<1>1. PInv => ClearerKnows
  BY DEF PInv
<1> QED
  BY PlaintextInvariant, <1>1, PTL

\* A clearer never clears a text that the user copied while nobody was about to
\* read or to clear the clipboard (clip/clipboard.go, ClearIfMatch).
THEOREM UserTextIsSafe == Spec => []UserTextStays
<1>1. PInv => UserTextStays
  BY DEF PInv, Quiet, LeftAlone, UserTextStays
<1> QED
  BY PlaintextInvariant, <1>1, PTL

\* Whatever its text, each field of the secret is what README.md says it is
\* (fields/fields.go, Parse and Get).
THEOREM FieldsAreDocumented == Spec => []FieldAsDocumented
<1>1. PInv => FieldAsDocumented
  <2>1. PInv => text \in Seq(Lines)
    BY TextAssumption DEF PInv, TypeOK
  <2> QED
    BY <2>1, GetIsDocumented DEF FieldAsDocumented
<1> QED
  BY PlaintextInvariant, <1>1, PTL

=============================================================================
