--------------------------- MODULE RedemptionBook ---------------------------
(***************************************************************************)
(* The data of the redemption ledger (hashu-core/src/redemption.rs).       *)
(*                                                                         *)
(* A Book is what the program holds in memory: every redemption and the    *)
(* order they were opened in.  Records are the lines of its journal.  The  *)
(* same two operators, OpenIn and CreditIn, serve the running ledger and   *)
(* the replay, because persistent() replays records through the code that  *)
(* produced them.                                                          *)
(***************************************************************************)
EXTENDS Naturals, Sequences

CONSTANTS
    Ids,     \* redemption ids
    Target   \* Target[id]: amount_thh * HASHES_PER_THH

ASSUME TargetAssumption == Target \in [Ids -> Nat \ {0}]

States == {"Absent", "Pending", "Active", "Completed"}
Redemption == [acc : Nat, state : States]
Book == [of : [Ids -> Redemption], order : Seq(Ids)]

Absent == [acc |-> 0, state |-> "Absent"]
New == [acc |-> 0, state |-> "Pending"]

\* Mutant: the hashes still missing are stored, not those credited.
CreditHashesCountsDown(id, r, h) ==
    IF r.state = "Completed" THEN r
    ELSE [acc |-> Target[id] - (r.acc + h),
          state |-> IF r.acc + h >= Target[id] THEN "Completed" ELSE "Active"]

\* Mutant: a completed redemption is credited further.
CreditHashesNeverFull(id, r, h) ==
    [acc |-> r.acc + h,
     state |-> IF r.acc + h >= Target[id] THEN "Completed" ELSE "Active"]

CreditHashes(id, r, h) ==
    IF r.state = "Completed" THEN r
    ELSE [acc |-> r.acc + h,
          state |-> IF r.acc + h >= Target[id] THEN "Completed" ELSE "Active"]

Empty == [of |-> [id \in Ids |-> Absent], order |-> <<>>]
Knows(b, id) == b.of[id].state # "Absent"
IsComplete(b, id) == b.of[id].state = "Completed"

OpenIn(b, id) == [of |-> [b.of EXCEPT ![id] = New],
                  order |-> Append(b.order, id)]

CreditIn(b, id, h) ==
    [of |-> [b.of EXCEPT ![id] = CreditHashes(id, b.of[id], h)],
     order |-> b.order]

\* RedemptionLedger::active: the ids not yet complete, oldest first.
ActiveIds(b) == SelectSeq(b.order, LAMBDA id : ~IsComplete(b, id))

-----------------------------------------------------------------------------
\* The journal.

OpenRecord(id) == [op |-> "open", id |-> id, hashes |-> 0]
CreditRecord(id, h) == [op |-> "credit", id |-> id, hashes |-> h]
Records == [op : {"open", "credit"}, id : Ids, hashes : Nat]

\* What the last line may be instead of a record.
NoTail == [op |-> "none"]   \* the file is empty or ends with a newline
Torn == [op |-> "torn"]     \* the last line is a prefix or two run together

\* What one more line does to the book being rebuilt.  A duplicate open, a
\* credit to an unknown id and a line that does not parse change nothing.
Replay(b, line) ==
    IF line.op = "open" /\ ~Knows(b, line.id) THEN OpenIn(b, line.id)
    ELSE IF line.op = "credit" /\ Knows(b, line.id)
         THEN CreditIn(b, line.id, line.hashes)
    ELSE b

\* Mutant: credit is written for the redemptions in progress only.
CompactOneActive(id, r) ==
    IF r.state = "Absent" THEN Absent
    ELSE IF r.state = "Active" THEN CreditHashes(id, New, r.acc)
    ELSE New

\* One open record, and one credit record if anything was credited.
CompactOne(id, r) ==
    IF r.state = "Absent" THEN Absent
    ELSE IF r.acc > 0 THEN CreditHashes(id, New, r.acc)
    ELSE New

\* Mutant: the redemptions are written in another order than they were opened.
CompactReordered(b) ==
    [of |-> [id \in Ids |-> CompactOne(id, b.of[id])],
     order |-> [i \in DOMAIN b.order |-> b.order[Len(b.order) + 1 - i]]]

Compact(b) == [of |-> [id \in Ids |-> CompactOne(id, b.of[id])],
               order |-> b.order]

=============================================================================
