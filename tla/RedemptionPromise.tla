------------------------- MODULE RedemptionPromise --------------------------
(***************************************************************************)
(* What the ledger promises about a redemption, without process, memory or *)
(* journal: once opened it stays open, each accepted share adds its hashes *)
(* until the target is reached and none after that, and the completion is  *)
(* announced at most once, by the credit that reaches the target.  Nothing *)
(* is ever taken back; in particular not by a restart.                     *)
(*                                                                         *)
(* The comments it is taken from are in hashu-core/src/redemption.rs: the  *)
(* lifecycle of RedemptionState, Redemption::credit_share and              *)
(* RedemptionLedger::credit_share_outcome.                                 *)
(***************************************************************************)
EXTENDS Naturals

CONSTANTS Ids, Target, ShareHashes

VARIABLES opened, credited, announced

promised == <<opened, credited, announced>>

Init ==
    /\ opened = {}
    /\ credited = [id \in Ids |-> 0]
    /\ announced = {}

Open(id) ==
    /\ id \notin opened
    /\ opened' = opened \cup {id}
    /\ UNCHANGED <<credited, announced>>

Credit(id, h) ==
    /\ id \in opened
    /\ credited[id] < Target[id]
    /\ credited' = [credited EXCEPT ![id] = @ + h]
    /\ \/ announced' = announced
       \/ credited'[id] >= Target[id] /\ announced' = announced \cup {id}
    /\ UNCHANGED opened

Next == \E id \in Ids : Open(id) \/ \E h \in ShareHashes : Credit(id, h)

Spec == Init /\ [][Next]_promised

=============================================================================
