---------------------------- MODULE CheckoutRedeem ----------------------------
(***************************************************************************)
(* Redeeming a pasted token at the checkout page (redeem in hashu-cli/src/ *)
(* checkout.rs).  A request has a throwaway wallet: it looks the token's   *)
(* proofs up at the mint, asks for a melt quote, takes the proofs over by a*)
(* swap, and melts what it took.  Meanwhile the buyer's own wallet, and    *)
(* other requests with the same token, may use the proofs too.             *)
(***************************************************************************)
EXTENDS Naturals, FiniteSetsExt

CONSTANTS
    Proofs, Thh,    \* the proofs of the token, each worth Thh[p] > 0
    Requests,       \* requests that are made with it, some of them with parts
    MinThh,         \* min_redeem_thh
    MaxCuts         \* bound: kills, clients that go away, lost answers

VARIABLES
    proof,      \* the mint: each proof's state
    holder,     \* the THH the buyer's own wallet took over or melted
    at,         \* how far each request is
    picked,     \* CheckedToken.unspent: the proofs it will take over
    quoted,     \* the amount of its melt quote
    wallet,     \* the THH its throwaway wallet can spend
    melting,    \* the THH the mint holds for its melt
    opened,     \* the THH its redemption was opened for
    returned,   \* the THH it handed back as a fresh token
    lost,       \* the THH in wallets that are gone
    cut,        \* history: the requests that were cut off
    cuts        \* bound

token == <<proof, holder>>
request == <<at, picked, quoted>>
money == <<wallet, melting, opened, returned, lost>>
vars == <<token, request, money, cut, cuts>>

Worth(S) == MapThenSumSet(LAMBDA p : Thh[p], S)
Unspent(S) == {p \in S : proof[p] = "unspent"}
Go(r, step) == at' = [at EXCEPT ![r] = step]

-----------------------------------------------------------------------------
\* The buyer's own wallet.

\* It takes proofs over for itself, or melts them elsewhere.
Claim(S) ==
    /\ S # {} /\ S = Unspent(S)
    /\ \/ /\ proof' = [p \in Proofs |-> IF p \in S THEN "spent" ELSE proof[p]]
          /\ holder' = holder + Worth(S)
       \/ /\ proof' = [p \in Proofs |-> IF p \in S THEN "pending" ELSE proof[p]]
          /\ UNCHANGED holder
    /\ UNCHANGED <<request, money, cut, cuts>>

\* The mint settles such a melt, or returns its proofs.
EndClaim(p) ==
    /\ proof[p] = "pending"
    /\ \/ proof' = [proof EXCEPT ![p] = "spent"] /\ holder' = holder + Thh[p]
       \/ proof' = [proof EXCEPT ![p] = "unspent"] /\ UNCHANGED holder
    /\ UNCHANGED <<request, money, cut, cuts>>

-----------------------------------------------------------------------------
\* redeem.

\* The pool and the worker are checked before anything is asked of the mint.
Arrive(r) ==
    /\ at[r] = "idle"
    /\ Go(r, "inspecting")
    /\ UNCHANGED <<token, picked, quoted, money, cut, cuts>>

\* inspect_token: what the mint still counts as unspent, and only that.
Inspect(r) ==
    /\ at[r] = "inspecting"
    /\ LET unspent == Unspent(Proofs) IN
       IF unspent = {} \/ Worth(unspent) < MinThh
       THEN Go(r, "done") /\ UNCHANGED picked
       ELSE Go(r, "quoting") /\ picked' = [picked EXCEPT ![r] = unspent]
    /\ UNCHANGED <<token, quoted, money, cut, cuts>>

\* The mint may refuse the quote: nothing was taken yet.
Quote(r) ==
    /\ at[r] = "quoting"
    /\ \/ Go(r, "receiving") /\ quoted' = [quoted EXCEPT ![r] = Worth(picked[r])]
       \/ Go(r, "done") /\ UNCHANGED quoted
    /\ UNCHANGED <<token, picked, money, cut, cuts>>

\* The mint swaps all of the proofs or none, without a fee.
Receive(r) ==
    /\ at[r] = "receiving"
    /\ IF Unspent(picked[r]) = picked[r]
       THEN /\ proof' = [p \in Proofs |-> IF p \in picked[r] THEN "spent" ELSE proof[p]]
            /\ wallet' = [wallet EXCEPT ![r] = Worth(picked[r])]
            /\ Go(r, IF Worth(picked[r]) = quoted[r] THEN "melting" ELSE "refunding")
       ELSE Go(r, "done") /\ UNCHANGED <<proof, wallet>>
    /\ UNCHANGED <<holder, picked, quoted, melting, opened, returned, lost, cut, cuts>>

\* prepare_melt and confirm_prefer_async, which the mint takes up.
Melt(r) ==
    /\ at[r] = "melting"
    /\ wallet[r] = quoted[r]
    /\ wallet' = [wallet EXCEPT ![r] = 0]
    /\ melting' = [melting EXCEPT ![r] = quoted[r]]
    /\ Go(r, "confirming")
    /\ UNCHANGED <<token, picked, quoted, opened, returned, lost, cut, cuts>>

\* A refusal is answered with a refund.
AfterRefusal == "refunding"

\* Or it refuses, and the wallet has its proofs still.
MeltRefused(r) ==
    /\ at[r] = "melting"
    /\ Go(r, AfterRefusal)
    /\ UNCHANGED <<token, picked, quoted, money, cut, cuts>>

\* The melter opens the redemption, also when nobody waits for the answer.
Redeem(r) ==
    /\ melting[r] > 0
    /\ opened' = [opened EXCEPT ![r] = melting[r]]
    /\ melting' = [melting EXCEPT ![r] = 0]
    /\ UNCHANGED <<token, request, wallet, returned, lost, cut, cuts>>

\* Paid or pending, the answer is the redemption's id.
Answer(r) ==
    /\ at[r] = "confirming"
    /\ Go(r, "done")
    /\ UNCHANGED <<token, picked, quoted, money, cut, cuts>>

\* The answer is lost on its way: for the request the melt failed.
AnswerLost(r) ==
    /\ at[r] = "confirming"
    /\ cuts < MaxCuts
    /\ cuts' = cuts + 1
    /\ Go(r, "refunding")
    /\ UNCHANGED <<token, picked, quoted, money, cut>>

\* Mutant: the proofs of a melt count as the wallet's still.
SpendableMelting(r) == wallet[r] + melting[r]

\* get_unspent_proofs: without the proofs of a melt in progress.
Spendable(r) == wallet[r]

\* refund: a fresh token of what the wallet can spend, if that is anything.
Refund(r) ==
    /\ at[r] = "refunding"
    /\ returned' = [returned EXCEPT ![r] = Spendable(r)]
    /\ wallet' = [wallet EXCEPT ![r] = 0]
    /\ Go(r, "done")
    /\ UNCHANGED <<token, picked, quoted, melting, opened, lost, cut, cuts>>

\* The handler goes with its client, or with the process, wherever it waits;
\* its wallet is in memory.
Cut(r) ==
    /\ at[r] \notin {"idle", "done"}
    /\ cuts < MaxCuts
    /\ cuts' = cuts + 1
    /\ cut' = cut \cup {r}
    /\ lost' = lost + wallet[r]
    /\ wallet' = [wallet EXCEPT ![r] = 0]
    /\ Go(r, "done")
    /\ UNCHANGED <<token, picked, quoted, melting, opened, returned>>

Init ==
    /\ proof = [p \in Proofs |-> "unspent"]
    /\ holder = 0 /\ lost = 0
    /\ at = [r \in Requests |-> "idle"]
    /\ picked = [r \in Requests |-> {}]
    /\ quoted = [r \in Requests |-> 0]
    /\ wallet = quoted /\ melting = quoted /\ opened = quoted /\ returned = quoted
    /\ cut = {} /\ cuts = 0

Next ==
    \/ \E S \in SUBSET Proofs : Claim(S)
    \/ \E p \in Proofs : EndClaim(p)
    \/ \E r \in Requests :
          \/ Arrive(r) \/ Inspect(r) \/ Quote(r) \/ Receive(r) \/ Melt(r) \/ MeltRefused(r)
          \/ Redeem(r) \/ Answer(r) \/ AnswerLost(r) \/ Refund(r) \/ Cut(r)

Spec == Init /\ [][Next]_vars

-----------------------------------------------------------------------------

All(f) == MapThenSumSet(LAMBDA r : f[r], Requests)

TypeOK ==
    /\ proof \in [Proofs -> {"unspent", "pending", "spent"}]
    /\ at \in [Requests -> {"idle", "inspecting", "quoting", "receiving", "melting",
                            "confirming", "refunding", "done"}]
    /\ \A r \in Requests : picked[r] \subseteq Proofs
    /\ {quoted, wallet, melting, opened, returned} \subseteq [Requests -> 0..Worth(Proofs)]
    /\ holder \in Nat /\ lost \in Nat /\ cut \subseteq Requests

\* However requests with one token and the buyer's wallet interleave, and
\* whichever answer is lost, every THH of the token is in one place: unspent,
\* taken by the buyer's wallet, in a request, redeemed, handed back or lost.
EveryThhInOnePlace ==
    Worth({p \in Proofs : proof[p] # "spent"}) + holder + All(wallet) + All(melting)
        + All(opened) + All(returned) + lost = Worth(Proofs)

\* A request that was not cut off leaves nothing in its throwaway wallet; what it
\* took over it redeems whole, or hands back whole.
NothingStranded ==
    \A r \in Requests : (at[r] = "done" /\ r \notin cut) =>
        /\ wallet[r] = 0
        /\ melting[r] + opened[r] \in {0, quoted[r]}
        /\ returned[r] > 0 => melting[r] + opened[r] = 0

\* A redeem neither makes nor loses THH: the two together.
NoThhIsLost == EveryThhInOnePlace /\ NothingStranded

=============================================================================
