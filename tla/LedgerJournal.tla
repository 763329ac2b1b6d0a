--------------------------- MODULE LedgerJournal ----------------------------
(***************************************************************************)
(* The redemption ledger over the text of its journal file.                *)
(*                                                                         *)
(* RedemptionLedger summarises the journal by what it replays to.  Here    *)
(* the file is what was written to it, line by line: whole records, and    *)
(* pieces of records that a failed or killed write left, possibly several  *)
(* on one line.  A start parses and replays the lines and writes the       *)
(* compacted text.  The module implements RedemptionLedger.                *)
(***************************************************************************)
EXTENDS RedemptionBook, SequencesExt

CONSTANTS ShareHashes, NonAsciiIds, WriteErrors, MaxWork

ASSUME JournalAssumption ==
    /\ ShareHashes \subseteq Nat
    /\ NonAsciiIds \subseteq Ids
    /\ WriteErrors \in BOOLEAN
    /\ MaxWork \in Nat

VARIABLES up, mem, text, worked, completions

vars == <<up, mem, text, worked, completions>>

-----------------------------------------------------------------------------
\* The text of the file, cut at its newlines: the last element is what
\* follows the last newline, <<>> when the text is empty or ends with one.

Piece == [op |-> "piece"]            \* a prefix of a record
CutPiece == [op |-> "cut_piece"]     \* one that ends inside a character

IsUtf8(t) == \A i \in DOMAIN t : \A j \in DOMAIN t[i] : t[i][j] # CutPiece

\* Mutant: the first record of a line counts, whatever follows it.
ParseFirst(line) == IF line = <<>> THEN NoTail
                    ELSE IF line[1].op \in {"open", "credit"} THEN line[1]
                    ELSE Torn

\* serde_json::from_str: a line parses when it is exactly one whole record.
Parse(line) == IF line = <<>> THEN NoTail
               ELSE IF Len(line) = 1 /\ line[1].op \in {"open", "credit"} THEN line[1]
               ELSE Torn

ReplayLines(t) ==
    LET upto[n \in 0 .. Len(t)] ==
            IF n = 0 THEN Empty ELSE Replay(upto[n - 1], Parse(t[n]))
    IN  upto[Len(t)]

Restored == ReplayLines(text)

\* Write adds bytes to the last line; a newline starts the next one.
Write(t, bytes) == [t EXCEPT ![Len(t)] = @ \o bytes]
NewLine(t) == Append(t, <<>>)

\* Journal::open terminates a torn last line before anything else is written.
Terminated(t) == IF Last(t) = <<>> THEN t ELSE NewLine(t)

\* The compacted lines of a redemption: one open and at most one credit.
RecordsOf(id, acc) ==
    <<<<OpenRecord(id)>>>> \o IF acc > 0 THEN <<<<CreditRecord(id, acc)>>>> ELSE <<>>

\* Journal::rewrite of the records of every redemption, oldest first.
CompactText(b) ==
    LET lines[n \in 0 .. Len(b.order)] ==
            IF n = 0 THEN <<>>
            ELSE lines[n - 1] \o RecordsOf(b.order[n], b.of[b.order[n]].acc)
    IN  Append(lines[Len(b.order)], <<>>)

\* The texts one write of rec may leave.
Written(rec, failing) ==
    {NewLine(Write(text, <<rec>>))} \cup
    IF ~failing THEN {}
    ELSE {text, Write(text, <<rec>>), Write(text, <<Piece>>)} \cup
         IF rec.op = "open" /\ rec.id \in NonAsciiIds
         THEN {Write(text, <<CutPiece>>)} ELSE {}

JournalAppend(rec, failing) == text' \in Written(rec, failing)

-----------------------------------------------------------------------------
\* The operations of RedemptionLedger, writing text.

Open(id) ==
    /\ up
    /\ ~Knows(mem, id)
    /\ JournalAppend(OpenRecord(id), WriteErrors)
    /\ mem' = OpenIn(mem, id)
    /\ UNCHANGED <<up, worked, completions>>

CreditShare(id, h) ==
    /\ up
    /\ Knows(mem, id)
    /\ worked[id] + h =< MaxWork
    /\ mem' = CreditIn(mem, id, h)
    /\ IF ~IsComplete(mem, id) /\ h > 0
       THEN JournalAppend(CreditRecord(id, h), WriteErrors)
       ELSE UNCHANGED text
    /\ worked' = IF IsComplete(mem, id) THEN worked
                 ELSE [worked EXCEPT ![id] = @ + h]
    /\ completions' = IF ~IsComplete(mem, id) /\ IsComplete(mem', id)
                      THEN [completions EXCEPT ![id] = @ + 1]
                      ELSE completions
    /\ UNCHANGED up

Down == up' = FALSE /\ mem' = Empty

Kill ==
    /\ up
    /\ Down
    /\ UNCHANGED <<text, worked, completions>>

KillDuringOpen(id) ==
    /\ up
    /\ ~Knows(mem, id)
    /\ JournalAppend(OpenRecord(id), TRUE)
    /\ Down
    /\ UNCHANGED <<worked, completions>>

KillDuringCredit(id, h) ==
    /\ up
    /\ Knows(mem, id) /\ ~IsComplete(mem, id)
    /\ h > 0
    /\ worked[id] + h =< MaxWork
    /\ JournalAppend(CreditRecord(id, h), TRUE)
    /\ worked' = [worked EXCEPT ![id] = @ + h]
    /\ Down
    /\ UNCHANGED completions

Start ==
    /\ ~up
    /\ IsUtf8(text)
    /\ mem' = Restored
    /\ text' = CompactText(Restored)
    /\ up' = TRUE
    /\ UNCHANGED <<worked, completions>>

StartFails ==
    /\ ~up
    /\ IsUtf8(text)
    /\ text' \in {Terminated(text), CompactText(Restored)}
    /\ UNCHANGED <<up, mem, worked, completions>>

Init ==
    /\ up = FALSE
    /\ mem = Empty
    /\ text = <<<<>>>>
    /\ worked = [id \in Ids |-> 0]
    /\ completions = [id \in Ids |-> 0]

Next ==
    \/ \E id \in Ids : Open(id) \/ KillDuringOpen(id)
    \/ \E id \in Ids, h \in ShareHashes : CreditShare(id, h) \/ KillDuringCredit(id, h)
    \/ Kill
    \/ Start
    \/ StartFails

Spec == Init /\ [][Next]_vars

-----------------------------------------------------------------------------
\* Properties.

Ledger == INSTANCE RedemptionLedger WITH
    file <- ReplayLines(Front(text)),
    tail <- Parse(Last(text)),
    unreadable <- ~IsUtf8(text)

\* The journal on disk behaves as RedemptionLedger says: replaying the lines
\* of the file is what its summary of the file predicts, after every append,
\* failed append, kill, failed start and compaction.
ImplementsLedger == Ledger!Safety

=============================================================================
