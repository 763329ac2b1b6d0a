-------------------------- MODULE RedemptionLedger --------------------------
(***************************************************************************)
(* The redemption ledger (hashu-core/src/redemption.rs) and the journal it *)
(* is rebuilt from (hashu-core/src/journal.rs).                            *)
(*                                                                         *)
(* The journal file is represented by the Book that replaying its          *)
(* terminated lines yields, plus its last line when that line has no       *)
(* newline yet.                                                            *)
(* Module LedgerJournal keeps the lines themselves and implements this one.*)
(***************************************************************************)
EXTENDS RedemptionBook

CONSTANTS
    ShareHashes,  \* what one accepted share may be worth; 0 when its
                  \* difficulty is not a positive finite number
    NonAsciiIds,  \* ids whose pool URL, worker or password is not ASCII
    WriteErrors,  \* may an append fail without the process dying?
    MaxWork       \* bound: hashes worked for one redemption

ASSUME SharesAssumption == ShareHashes \subseteq Nat
ASSUME NonAsciiAssumption == NonAsciiIds \subseteq Ids
ASSUME WriteErrorsAssumption == WriteErrors \in BOOLEAN
ASSUME MaxWorkAssumption == MaxWork \in Nat

VARIABLES
    up,           \* the process is running with a loaded ledger
    mem,          \* the Book in memory (Empty while the process is down)
    file,         \* the Book the terminated lines of the journal replay to
    tail,         \* the journal's unterminated last line, if any
    unreadable,   \* the journal holds a line cut inside a UTF-8 character
    worked,       \* history: hashes of the shares the pools accepted for each
                  \* redemption while it was not complete
    completions   \* history: credits that returned newly_completed = true

journal == <<file, tail, unreadable>>
vars == <<up, mem, journal, worked, completions>>

-----------------------------------------------------------------------------
\* The journal.

\* The ledger a start would restore from the file as it is now: text.lines()
\* yields the last line too when it has no newline.
Replayed == Replay(file, tail)

\* How much of a record's line one write leaves in the file: all of it, all
\* but the newline, nothing, a part, or a part that ends inside a character.
Outcomes == {"line", "unterminated", "nothing", "part", "split_char"}

JournalAppend(rec, outcome) ==
    /\ outcome = "split_char" => rec.op = "open" /\ rec.id \in NonAsciiIds
    /\ file' = IF outcome = "line" /\ tail = NoTail THEN Replay(file, rec) ELSE file
    /\ tail' = CASE outcome = "line" -> NoTail
                 [] outcome = "nothing" -> tail
                 [] outcome = "unterminated" /\ tail = NoTail -> rec
                 [] OTHER -> Torn
    /\ unreadable' = (unreadable \/ outcome = "split_char")

\* An append of the running process; record() only logs a failure.
Record(rec) ==
    \E outcome \in IF WriteErrors THEN Outcomes ELSE {"line"} :
        JournalAppend(rec, outcome)

-----------------------------------------------------------------------------
\* Operations of the running ledger.

\* A second open of a known id is refused (LedgerError::Duplicate).
Open(id) ==
    /\ up
    /\ ~Knows(mem, id)
    /\ Record(OpenRecord(id))
    /\ mem' = OpenIn(mem, id)
    /\ UNCHANGED <<up, worked, completions>>

\* Mutant: a share that came too late is journalled too.
CreditShareRecordsLate(id, h) ==
    /\ up
    /\ Knows(mem, id)
    /\ worked[id] + h =< MaxWork
    /\ mem' = CreditIn(mem, id, h)
    /\ IF h > 0 THEN Record(CreditRecord(id, h)) ELSE UNCHANGED journal
    /\ worked' = IF IsComplete(mem, id) THEN worked
                 ELSE [worked EXCEPT ![id] = @ + h]
    /\ completions' = IF ~IsComplete(mem, id) /\ IsComplete(mem', id)
                      THEN [completions EXCEPT ![id] = @ + 1]
                      ELSE completions
    /\ UNCHANGED up

\* Mutant: completeness is tested after the credit, so the credit that fills
\* the redemption is not journalled.
CreditShareTestsAfter(id, h) ==
    /\ up
    /\ Knows(mem, id)
    /\ worked[id] + h =< MaxWork
    /\ mem' = CreditIn(mem, id, h)
    /\ IF ~IsComplete(mem', id) /\ h > 0
       THEN Record(CreditRecord(id, h))
       ELSE UNCHANGED journal
    /\ worked' = IF IsComplete(mem, id) THEN worked
                 ELSE [worked EXCEPT ![id] = @ + h]
    /\ completions' = IF ~IsComplete(mem, id) /\ IsComplete(mem', id)
                      THEN [completions EXCEPT ![id] = @ + 1]
                      ELSE completions
    /\ UNCHANGED up

\* A credit to an unknown id is refused (LedgerError::Unknown); one to a
\* completed redemption succeeds and changes nothing.
CreditShare(id, h) ==
    /\ up
    /\ Knows(mem, id)
    /\ worked[id] + h =< MaxWork
    /\ mem' = CreditIn(mem, id, h)
    /\ IF ~IsComplete(mem, id) /\ h > 0
       THEN Record(CreditRecord(id, h))
       ELSE UNCHANGED journal
    /\ worked' = IF IsComplete(mem, id) THEN worked
                 ELSE [worked EXCEPT ![id] = @ + h]
    /\ completions' = IF ~IsComplete(mem, id) /\ IsComplete(mem', id)
                      THEN [completions EXCEPT ![id] = @ + 1]
                      ELSE completions
    /\ UNCHANGED up

-----------------------------------------------------------------------------
\* The process dies: between operations, or with a record partly written.

Down == up' = FALSE /\ mem' = Empty

Kill ==
    /\ up
    /\ Down
    /\ UNCHANGED <<journal, worked, completions>>

KillDuringOpen(id) ==
    /\ up
    /\ ~Knows(mem, id)
    /\ \E outcome \in Outcomes : JournalAppend(OpenRecord(id), outcome)
    /\ Down
    /\ UNCHANGED <<worked, completions>>

\* The pool accepted the share; no caller learns the outcome of its credit.
KillDuringCredit(id, h) ==
    /\ up
    /\ Knows(mem, id) /\ ~IsComplete(mem, id)
    /\ h > 0
    /\ worked[id] + h =< MaxWork
    /\ \E outcome \in Outcomes : JournalAppend(CreditRecord(id, h), outcome)
    /\ worked' = [worked EXCEPT ![id] = @ + h]
    /\ Down
    /\ UNCHANGED completions

\* Mutant: compaction appends to the journal instead of replacing it.
StartAppends ==
    /\ ~up
    /\ ~unreadable
    /\ mem' = Replayed
    /\ file' = [Replayed EXCEPT !.of = [id \in Ids |->
                   CreditHashes(id, Replayed.of[id], Replayed.of[id].acc)]]
    /\ tail' = NoTail
    /\ up' = TRUE
    /\ UNCHANGED <<unreadable, worked, completions>>

\* Mutant: a line that does not parse fails the start.
StartRefusesTorn ==
    /\ ~up
    /\ ~unreadable /\ tail # Torn
    /\ mem' = Replayed
    /\ file' = Compact(Replayed)
    /\ tail' = NoTail
    /\ up' = TRUE
    /\ UNCHANGED <<unreadable, worked, completions>>

\* persistent(): read the journal as UTF-8, terminate a torn last line,
\* replay, compact by an atomic rename.
Start ==
    /\ ~up
    /\ ~unreadable
    /\ mem' = Replayed
    /\ file' = Compact(Replayed)
    /\ tail' = NoTail
    /\ up' = TRUE
    /\ UNCHANGED <<unreadable, worked, completions>>

\* persistent() fails or is killed after Journal::open, before or after the
\* rename.
StartFails ==
    /\ ~up
    /\ ~unreadable
    /\ file' \in {Replayed, Compact(Replayed)}
    /\ tail' = NoTail
    /\ UNCHANGED <<up, mem, unreadable, worked, completions>>

-----------------------------------------------------------------------------

Init ==
    /\ up = FALSE
    /\ mem = Empty
    /\ file = Empty
    /\ tail = NoTail
    /\ unreadable = FALSE
    /\ worked = [id \in Ids |-> 0]
    /\ completions = [id \in Ids |-> 0]

Next ==
    \/ \E id \in Ids : Open(id) \/ KillDuringOpen(id)
    \/ \E id \in Ids, h \in ShareHashes : CreditShare(id, h) \/ KillDuringCredit(id, h)
    \/ Kill
    \/ Start
    \/ StartFails

Safety == Init /\ [][Next]_vars

\* The container restarts the process until it comes up.
Spec == Safety /\ WF_vars(Start)

-----------------------------------------------------------------------------
\* Properties.

\* Every variable has its type.
TypeOK ==
    /\ up \in BOOLEAN
    /\ mem \in Book
    /\ file \in Book
    /\ tail \in Records \cup {NoTail, Torn}
    /\ unreadable \in BOOLEAN
    /\ worked \in [Ids -> Nat]
    /\ completions \in [Ids -> Nat]

\* A redemption is never credited with more hashes than the pools accepted
\* for it before it was filled: not in memory, and not by any restart from the journal, whatever
\* writes failed and wherever the process was killed.
NeverOverCredited ==
    \A id \in Ids : /\ mem.of[id].acc =< worked[id]
                    /\ Replayed.of[id].acc =< worked[id]

\* Shares in flight at completion do not move the total past the target: the
\* total of a filled redemption was below its target one share earlier.
OvershootsByLessThanAShare ==
    \A id \in Ids : mem.of[id].acc >= Target[id] =>
        \E h \in ShareHashes : mem.of[id].acc < Target[id] + h

\* A failed write only loses durability: what a restart would restore is
\* never ahead of what the running process has told anyone.
ReplayNeverAhead ==
    up => \A id \in Ids :
            /\ Knows(Replayed, id) => Knows(mem, id)
            /\ Replayed.of[id].acc =< mem.of[id].acc

\* Compaction rewrites the journal without changing what it replays to.
CompactionExact == Compact(Replayed) = Replayed

\* Order lists each known redemption once, in memory and on file.
OrderMatches(b) ==
    /\ \A id \in Ids : Knows(b, id) <=> \E i \in DOMAIN b.order : b.order[i] = id
    /\ \A i, j \in DOMAIN b.order : b.order[i] = b.order[j] => i = j

\* inner and order never disagree about which ids exist.
OrderListsTheKnown == OrderMatches(mem) /\ OrderMatches(Replayed)

\* A restart serves the redemptions it restores in the order they were
\* opened: of two that the journal holds, the older one stays the older.
RestartKeepsMeltOrder ==
    up => \A i, j \in DOMAIN Replayed.order : i < j =>
            \E k, l \in DOMAIN mem.order :
                /\ k < l
                /\ mem.order[k] = Replayed.order[i]
                /\ mem.order[l] = Replayed.order[j]

\* Without write errors no redemption reports newly_completed twice, over
\* any number of kills and restarts.
CompletesAtMostOnce == ~WriteErrors => \A id \in Ids : completions[id] =< 1

\* The redemptions as a caller sees them: what memory says while the process
\* runs, what a restart would restore while it is down.
Effective == IF up THEN mem ELSE Replayed

Promise == INSTANCE RedemptionPromise WITH
    opened <- {id \in Ids : Knows(Effective, id)},
    credited <- [id \in Ids |-> Effective.of[id].acc],
    announced <- {id \in Ids : completions[id] > 0}

\* Without write errors the journalled ledger keeps the promise: kills and
\* restarts take back nothing a caller was told, and announce nothing twice.
KeepsPromise == Promise!Spec

\* After a kill the ledger comes back: a torn last line is skipped, it does
\* not stop the start.
ComesBack == ~up ~> up

=============================================================================
