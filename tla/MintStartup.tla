----------------------------- MODULE MintStartup -----------------------------
(***************************************************************************)
(* The start of `hashu mint run` (run_daemon in hashu-cli/src/mint.rs):    *)
(* what it loads, creates and checks, in which order, and what the mint    *)
(* then serves.  A start may fail or be killed at every step; the next one *)
(* finds the files as they were left, and may be configured otherwise.     *)
(***************************************************************************)
EXTENDS Naturals, FiniteSets

CONSTANTS
    Seeds,        \* what the random generator may come up with
    Rails,        \* {"bolt11", "usdt"}
    Prices,       \* the prices a start may be given: {"thh", "btc"}
    Proofs,       \* proofs that wallets get
    None,
    MaxStarts     \* bound: starts

VARIABLES
    step,        \* how far the start is; "off", or "serving"
    config,      \* the rails and prices this start was given
    file,        \* seed.hex
    seed,        \* the seed this process has read or made
    db,          \* mint.sqlite: the seed its keysets are of, the mint info
    methods,     \* the payment methods this process has registered
    signed,      \* history: the seed each proof is signed with
    starts       \* bound

vars == <<step, config, file, seed, db, methods, signed, starts>>

Half == "half"
Go(next) == step' = next

Fail == Go("off") /\ seed' = None /\ methods' = {}

-----------------------------------------------------------------------------
\* The steps of a start.

\* The upstream, the ledger and the audit journal come first; any may fail.
Begin ==
    /\ step = "off"
    /\ starts < MaxStarts
    /\ starts' = starts + 1
    /\ config' \in [rails : SUBSET Rails, prices : SUBSET Prices]
    /\ Go("journals")
    /\ UNCHANGED <<file, seed, db, methods, signed>>

OpenJournals ==
    /\ step = "journals"
    /\ Go("seed") \/ Go("off")
    /\ UNCHANGED <<config, file, seed, db, methods, signed, starts>>

\* load_or_create_seed makes a seed where there is no file.
MakesSeed == file = None

\* A file that does not hold a seed ends the start.
LoadSeed ==
    /\ step = "seed"
    /\ ~MakesSeed
    /\ IF file = Half
       THEN Fail
       ELSE seed' = file /\ Go("database") /\ UNCHANGED methods
    /\ UNCHANGED <<config, file, db, signed, starts>>

\* Mutant: a seed that could not be written is used all the same.
CreateSeedUnsaved ==
    /\ step = "seed"
    /\ MakesSeed
    /\ \E s \in Seeds : file' \in {s, file} /\ seed' = s
    /\ Go("database")
    /\ UNCHANGED <<config, db, methods, signed, starts>>

\* The file is not written as a whole: a kill leaves a part of it.
CreateSeed ==
    /\ step = "seed"
    /\ MakesSeed
    /\ \/ \E s \in Seeds : file' = s /\ seed' = s /\ Go("database") /\ UNCHANGED methods
       \/ file' = Half /\ Fail
       \/ UNCHANGED file /\ Fail
    /\ UNCHANGED <<config, db, signed, starts>>

\* The database, and the redemptions of its pending melts.
OpenDatabase ==
    /\ step = "database"
    /\ (Go("rails") /\ UNCHANGED <<seed, methods>>) \/ Fail
    /\ UNCHANGED <<config, file, db, signed, starts>>

\* usdt_pricer: its own price, or one of bitcoin.
Priced == config.prices # {}

\* Lightning is connected to, Tether set up; a rail that fails ends the start.
\* The hashrate melt is there always, and is not for buying.
AddRails ==
    /\ step = "rails"
    /\ \/ /\ "usdt" \in config.rails => Priced
          /\ methods' = config.rails
          /\ Go("build")
          /\ UNCHANGED seed
       \/ Fail
    /\ UNCHANGED <<config, file, db, signed, starts>>

\* cdk: keysets and info are made at the first start, and kept.
Build ==
    /\ step = "build"
    /\ \/ /\ db' = IF db = None THEN [seed |-> seed, info |-> methods, pubkey |-> seed] ELSE db
          /\ Go("info")
          /\ UNCHANGED <<seed, methods>>
       \/ Fail /\ UNCHANGED db
    /\ UNCHANGED <<config, file, signed, starts>>

\* refresh_stored_mint_info: this start's, with the pubkey that is stored.
Refreshed(info) == [info EXCEPT !.info = methods]

RefreshInfo ==
    /\ step = "info"
    /\ \/ db' = Refreshed(db) /\ Go("starting") /\ UNCHANGED <<seed, methods>>
       \/ Fail /\ UNCHANGED db
    /\ UNCHANGED <<config, file, signed, starts>>

\* The mint starts, counts what it owes, and takes its port and the miners' one.
Serve ==
    /\ step = "starting"
    /\ (Go("serving") /\ UNCHANGED <<seed, methods>>) \/ Fail
    /\ UNCHANGED <<config, file, db, signed, starts>>

\* A wallet gets a proof, signed by the keysets.
Sign(p) ==
    /\ step = "serving"
    /\ signed[p] = None
    /\ signed' = [signed EXCEPT ![p] = seed]
    /\ UNCHANGED <<step, config, file, seed, db, methods, starts>>

\* A server that ends, Ctrl-C or a kill, at any step.
Stop ==
    /\ step # "off"
    /\ Fail
    /\ UNCHANGED <<config, file, db, signed, starts>>

\* The operator removes a seed file that no start accepts.
RemoveHalf ==
    /\ step = "off"
    /\ file = Half
    /\ file' = None
    /\ UNCHANGED <<step, config, seed, db, methods, signed, starts>>

Init ==
    /\ step = "off"
    /\ config = [rails |-> {}, prices |-> {}]
    /\ file = None /\ seed = None /\ db = None
    /\ methods = {}
    /\ signed = [p \in Proofs |-> None]
    /\ starts = 0

Next ==
    \/ Begin \/ OpenJournals \/ LoadSeed \/ CreateSeed \/ OpenDatabase \/ AddRails \/ Build
    \/ RefreshInfo \/ Serve \/ Stop \/ RemoveHalf
    \/ \E p \in Proofs : Sign(p)

Spec == Init /\ [][Next]_vars

-----------------------------------------------------------------------------

TypeOK ==
    /\ step \in {"off", "journals", "seed", "database", "rails", "build", "info", "starting", "serving"}
    /\ config \in [rails : SUBSET Rails, prices : SUBSET Prices]
    /\ file \in Seeds \cup {None, Half}
    /\ seed \in Seeds \cup {None}
    /\ db = None \/ (db.info \subseteq Rails /\ db.seed \in Seeds)
    /\ methods \subseteq Rails

\* However starts fail and are killed, the mint has one seed: the one in its file
\* is that of its keysets, and every proof it ever signed is worth something still.
OneSeedForEver ==
    /\ db # None => file = db.seed
    /\ \A p \in Proofs : signed[p] # None => signed[p] = db.seed

\* A serving mint announces the rails of this start, whatever an earlier one
\* stored, under the public key its wallets know.
InfoIsThisStarts ==
    step = "serving" => db.info = config.rails /\ db.pubkey = db.seed

\* Start by start the mint is the same mint: the two together.
StartsAgree == OneSeedForEver /\ InfoIsThisStarts

=============================================================================
