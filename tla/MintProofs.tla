------------------------------ MODULE MintProofs -------------------------------
(***************************************************************************)
(* Proofs about the parts of the mint: what it keeps in files and on       *)
(* relays (one seed and the info of the start that serves, keysets that    *)
(* stay listed, the settings of the operator), and what it sells and takes *)
(* back (purchases and redeems at the checkout, sales over Lightning, the  *)
(* capacity that is left to sell).  The names of the constants and         *)
(* variables are those of the parts' modules; where two parts give one     *)
(* name to different things, the instances say which is which.             *)
(***************************************************************************)
EXTENDS Integers, Sequences, SequenceTheorems, Sums, TLAPS

CONSTANTS
    None,
    Seeds, Rails, Prices, Proofs, MaxStarts,
    Keysets, Relays, MaxNow, MaxRuns,
    Controls, TestMints, Markups, TooHigh, FlagMarkup, MaxRequests, MaxQuotes, MaxKills,
    Buys, Polls, MaxFaults,
    TokenProofs, ProofThh, Requests, MinThh, MaxCuts,
    Quotes, Thh, Price, Fees, MaxDrops, MaxRestarts,
    Sales, SaleThh, Lists, Limits, Counters, MaxHours, MaxChanges, MaxSwaps

VARIABLES
    step, config, file, seed, db, methods, signed, starts,
    active, now, disk, run, held, told, newest, cut, runs,
    paused, markup, saved, snap, wrote, req, up, asked, crossed, requests, quotes,
    kills,
    quote, entry, token, day, poll, lock, buyTold, hit, faults,
    proof, holder, at, picked, quoted, wallet, melting, opened, returned, lost,
    redeemCut, cuts,
    salesAsked, paid, age, open, book, pass, socket, frames, tx, credited, drops,
    restarts,
    stage, rest, limit, manual, mrr, capacityDisk, owed, counted, count, moved,
    missed, phase, capacityNow, changes, swaps, capacityFaults

Startup == INSTANCE MintStartup
Manifest == INSTANCE MintManifest
Settings == INSTANCE OperatorSettings
Buy == INSTANCE CheckoutBuy WITH told <- buyTold
Redeem == INSTANCE CheckoutRedeem WITH
    Proofs <- TokenProofs, Thh <- ProofThh, cut <- redeemCut
Issuer == INSTANCE ThhSales WITH asked <- salesAsked
Cap == INSTANCE ThhCapacity WITH
    Thh <- SaleThh, disk <- capacityDisk, now <- capacityNow, faults <- capacityFaults

-----------------------------------------------------------------------------
\* The start of the mint.

\* A seed is told from a file that holds part of one, and from none; and a
\* database from none.
SeedsAreWhole ==
    /\ None \notin Seeds \cup {Startup!Half}
    /\ Startup!Half \notin Seeds
    /\ None \notin [seed : Seeds, info : SUBSET Rails, pubkey : Seeds]

\* What the files hold: keysets of the seed on file, under its public key, and
\* proofs of these keysets.
FilesAgree ==
    /\ file \in Seeds \cup {None, Startup!Half}
    /\ db # None => /\ db = [seed |-> db.seed, info |-> db.info, pubkey |-> db.seed]
                    /\ db.seed \in Seeds
                    /\ file = db.seed
    /\ \A p \in Proofs : signed[p] # None => db # None /\ signed[p] = db.seed

\* What the process has of them, as far as its start is.
StartAgrees ==
    /\ step \in {"database", "rails", "build", "info", "starting", "serving"}
          => seed \in Seeds /\ file = seed
    /\ step \in {"info", "starting", "serving"} => db # None
    /\ step \in {"build", "info", "starting", "serving"} => methods = config.rails
    /\ step \in {"starting", "serving"} => db.info = config.rails
    /\ config.rails \in SUBSET Rails /\ methods \in SUBSET Rails
    /\ DOMAIN signed = Proofs

StartInv == FilesAgree /\ StartAgrees

\* Nothing is there before the first start.
LEMMA InitAgrees == Startup!Init => StartInv
  BY DEF Startup!Init, StartInv, FilesAgree, StartAgrees

\* A start that fails leaves the files as they are.
LEMMA FailAgrees ==
    ASSUME SeedsAreWhole, StartInv, Startup!Fail, UNCHANGED <<config, file, db, signed>>
    PROVE  StartInv'
  BY DEF SeedsAreWhole, StartInv, FilesAgree, StartAgrees, Startup!Fail, Startup!Go

\* The steps up to the seed: one is made only where there is none, and then
\* there is no database either.
LEMMA SeedAgrees ==
    ASSUME SeedsAreWhole, StartInv,
           Startup!Begin \/ Startup!OpenJournals \/ Startup!LoadSeed \/ Startup!CreateSeed
    PROVE  StartInv'
<1> USE DEF SeedsAreWhole, StartInv, FilesAgree, StartAgrees, Startup!Go
<1>1. CASE Startup!Begin
  BY <1>1 DEF Startup!Begin
<1>2. CASE Startup!OpenJournals
  BY <1>2 DEF Startup!OpenJournals
<1>3. CASE Startup!LoadSeed
  BY <1>3 DEF Startup!LoadSeed, Startup!MakesSeed, Startup!Fail
<1>4. CASE Startup!CreateSeed
  BY <1>4 DEF Startup!CreateSeed, Startup!MakesSeed, Startup!Fail
<1> QED
  BY <1>1, <1>2, <1>3, <1>4

\* The steps behind the seed: the database is made with it, and the info of the
\* database becomes that of this start.
LEMMA RestAgrees ==
    ASSUME SeedsAreWhole, StartInv,
           \/ Startup!OpenDatabase \/ Startup!AddRails \/ Startup!Build
           \/ Startup!RefreshInfo \/ Startup!Serve
    PROVE  StartInv'
<1> USE DEF SeedsAreWhole, StartInv, FilesAgree, StartAgrees, Startup!Go
<1>1. CASE Startup!OpenDatabase
  BY <1>1 DEF Startup!OpenDatabase, Startup!Fail
<1>2. CASE Startup!AddRails
  BY <1>2 DEF Startup!AddRails, Startup!Fail
<1>3. CASE Startup!Build
  <2>1. CASE Startup!Fail /\ UNCHANGED db
    BY <1>3, <2>1, FailAgrees DEF Startup!Build
  <2>2. CASE db = None /\ ~Startup!Fail
    BY <1>3, <2>2 DEF Startup!Build
  <2>3. CASE db # None /\ ~Startup!Fail
    BY <1>3, <2>3 DEF Startup!Build
  <2> QED
    BY <1>3, <2>1, <2>2, <2>3 DEF Startup!Build
<1>4. CASE Startup!RefreshInfo
  BY <1>4 DEF Startup!RefreshInfo, Startup!Refreshed, Startup!Fail
<1>5. CASE Startup!Serve
  BY <1>5 DEF Startup!Serve, Startup!Fail
<1> QED
  BY <1>1, <1>2, <1>3, <1>4, <1>5

\* Serving, stopping and the operator's remedy for half a seed.
LEMMA ServingAgrees ==
    ASSUME SeedsAreWhole, StartInv,
           Startup!Stop \/ Startup!RemoveHalf \/ \E p \in Proofs : Startup!Sign(p)
    PROVE  StartInv'
<1>1. CASE Startup!Stop
  BY <1>1, FailAgrees DEF Startup!Stop
<1>2. CASE Startup!RemoveHalf
  BY <1>2 DEF Startup!RemoveHalf, SeedsAreWhole, StartInv, FilesAgree, StartAgrees
<1>3. CASE \E p \in Proofs : Startup!Sign(p)
  BY <1>3 DEF Startup!Sign, SeedsAreWhole, StartInv, FilesAgree, StartAgrees
<1> QED
  BY <1>1, <1>2, <1>3

\* Start by start the mint is the same mint: one seed under all its keysets and
\* proofs, and the info of the start that serves.
THEOREM StartsAgreeHolds ==
    ASSUME SeedsAreWhole
    PROVE  Startup!Spec => []Startup!StartsAgree
<1>1. StartInv /\ [Startup!Next]_(Startup!vars) => StartInv'
  <2> SUFFICES ASSUME StartInv, [Startup!Next]_(Startup!vars)
               PROVE  StartInv'
    OBVIOUS
  <2>1. CASE UNCHANGED Startup!vars
    BY <2>1 DEF Startup!vars, StartInv, FilesAgree, StartAgrees
  <2> QED
    BY <2>1, SeedAgrees, RestAgrees, ServingAgrees DEF Startup!Next
<1>2. StartInv => Startup!StartsAgree
  BY DEF StartInv, FilesAgree, StartAgrees, Startup!StartsAgree, Startup!OneSeedForEver,
     Startup!InfoIsThisStarts
<1> QED
  BY InitAgrees, <1>1, <1>2, PTL DEF Startup!Spec

-----------------------------------------------------------------------------
\* The manifest.

\* No time is taken for none; the clock is a number.
TimeIsTime == MaxNow \in Nat /\ None \notin Int

Kept == [id : Keysets, retired : {TRUE, FALSE}]

\* What the file knows is the latest there is: it lists what any event has
\* listed, and no relay has an event later than the last it recorded.
KnowsAll(keysets, last) ==
    /\ told \subseteq Manifest!Ids(keysets)
    /\ last = None => \A r \in Relays : held[r].at = -1
    /\ last # None => \A r \in Relays : held[r].at <= last

ManifestTyped ==
    /\ now \in Nat
    /\ active \in Seq(Keysets) /\ active # <<>>
    /\ disk.keysets \in Seq(Kept)
    /\ disk.last = None \/ disk.last \in Nat
    /\ run \in [phase : {"none", "publishing", "saving"}, keysets : Seq(Kept), at : Nat]
    /\ DOMAIN held = Relays
    /\ \A r \in Relays : held[r].at \in Int

\* A run's event is later than all before it and lists all they list; once it
\* was published the file is behind, until it is saved.
Ahead ==
    /\ run.phase = "none" => KnowsAll(disk.keysets, disk.last)
    /\ run.phase = "publishing" =>
          /\ KnowsAll(disk.keysets, disk.last)
          /\ told \subseteq Manifest!Ids(run.keysets)
          /\ \A r \in Relays : held[r].at < run.at
    /\ run.phase = "saving" =>
          /\ KnowsAll(run.keysets, run.at)
          /\ newest.reached = {} => KnowsAll(disk.keysets, disk.last)

ManifestInv == ManifestTyped /\ (~cut => Ahead /\ Manifest!KeysetsStayListed)

\* Nothing is published at the start.
LEMMA InitAhead == TimeIsTime /\ Manifest!Init => ManifestInv
<1> SUFFICES ASSUME TimeIsTime, Manifest!Init
             PROVE  ManifestInv
  OBVIOUS
<1>1. active \in Seq(Keysets) /\ active # <<>>
  <2>1. PICK k \in Keysets : active = <<k>>
    BY DEF Manifest!Init
  <2> QED
    BY <2>1
<1>2. disk.keysets = <<>> /\ run.keysets = <<>> /\ disk.last = None /\ run.phase = "none"
  BY DEF Manifest!Init, Manifest!NoRun
<1>3. \A r \in Relays : held[r].at = -1
  BY DEF Manifest!Init, Manifest!NoEvent
<1>4. ManifestTyped
  <2>1. Manifest!NoRun \in [phase : {"none", "publishing", "saving"}, keysets : Seq(Kept), at : Nat]
    BY DEF Manifest!NoRun
  <2> QED
    BY <1>1, <1>2, <1>3, <2>1 DEF Manifest!Init, ManifestTyped
<1>5. Ahead
  BY <1>2, <1>3 DEF Manifest!Init, Ahead, KnowsAll
<1>6. Manifest!KeysetsStayListed
  BY DEF Manifest!Init, Manifest!KeysetsStayListed, Manifest!PublishedStaysListed,
     Manifest!ReachedKeepNewest
<1> QED
  BY <1>4, <1>5, <1>6 DEF ManifestInv

\* Recording a keyset retires others and drops none.
LEMMA RecordedKeeps ==
    ASSUME NEW keysets \in Seq(Kept), NEW id \in Keysets
    PROVE  /\ Manifest!Recorded(keysets, id) \in Seq(Kept)
           /\ Manifest!Ids(keysets) \subseteq Manifest!Ids(Manifest!Recorded(keysets, id))
<1> DEFINE retired == [i \in DOMAIN keysets |-> [keysets[i] EXCEPT !.retired = TRUE]]
           added == [id |-> id, retired |-> FALSE]
<1>1. CASE \E k \in Manifest!Range(keysets) : k.id = id /\ ~k.retired
  BY <1>1 DEF Manifest!Recorded
<1>2. CASE ~\E k \in Manifest!Range(keysets) : k.id = id /\ ~k.retired
  <2>1. Manifest!Recorded(keysets, id) = Append(retired, added)
    BY <1>2 DEF Manifest!Recorded
  <2>2. added \in Kept
    BY DEF Kept
  <2>3. ASSUME NEW i \in DOMAIN keysets
        PROVE  retired[i] \in Kept /\ retired[i].id = keysets[i].id
    <3>1. keysets[i] \in Kept
      OBVIOUS
    <3>2. retired[i] = [id |-> keysets[i].id, retired |-> TRUE]
      BY <3>1 DEF Kept
    <3> QED
      BY <3>1, <3>2 DEF Kept
  <2>4. retired \in Seq(Kept) /\ DOMAIN retired = DOMAIN keysets
    BY <2>3
  <2> HIDE DEF retired, added
  <2>5. \A i \in DOMAIN keysets :
           i \in DOMAIN Append(retired, added) /\ Append(retired, added)[i].id = keysets[i].id
    BY <2>2, <2>3, <2>4
  <2>6. Append(retired, added) \in Seq(Kept)
    BY <2>2, <2>4
  <2> QED
    BY <2>1, <2>5, <2>6 DEF Manifest!Ids, Manifest!Range
<1> QED
  BY <1>1, <1>2

\* A run starts from the file: its event is later than any and lists all.
LEMMA StartKeeps == ASSUME TimeIsTime, ManifestInv, Manifest!Start PROVE ManifestInv'
<1> USE DEF TimeIsTime, ManifestInv
<1>1. Manifest!Last(active) \in Keysets
  BY DEF ManifestTyped, Manifest!Last
<1>2. /\ run'.phase = "publishing"
      /\ run'.keysets = Manifest!Recorded(disk.keysets, Manifest!Last(active))
      /\ run'.at = Manifest!CreatedAt(disk.last)
  BY DEF Manifest!Start
<1>3. /\ run'.keysets \in Seq(Kept)
      /\ Manifest!Ids(disk.keysets) \subseteq Manifest!Ids(run'.keysets)
  BY <1>1, <1>2, RecordedKeeps DEF ManifestTyped
<1>4. run'.at \in Nat
  BY <1>2 DEF ManifestTyped, Manifest!CreatedAt
<1>5. ManifestTyped'
  <2>1. run' = [phase |-> "publishing", keysets |-> run'.keysets, at |-> run'.at]
    BY DEF Manifest!Start
  <2> QED
    BY <1>3, <1>4, <2>1 DEF Manifest!Start, ManifestTyped
<1>6. ASSUME ~cut
      PROVE  Ahead' /\ Manifest!KeysetsStayListed'
  <2>1. KnowsAll(disk.keysets, disk.last)
    BY <1>6 DEF Manifest!Start, Ahead, Manifest!NoRun
  <2>2. KnowsAll(disk.keysets, disk.last)'
    BY <2>1 DEF Manifest!Start, KnowsAll, Manifest!Ids
  <2>3. \A r \in Relays : held[r].at < run'.at
    BY <1>2, <2>1 DEF KnowsAll, Manifest!CreatedAt, ManifestTyped
  <2>4. told \subseteq Manifest!Ids(run'.keysets)
    BY <1>3, <2>1 DEF KnowsAll
  <2>5. Ahead'
    BY <1>2, <2>2, <2>3, <2>4 DEF Manifest!Start, Ahead, Manifest!Ids
  <2>6. Manifest!KeysetsStayListed'
    BY <1>6 DEF Manifest!Start, Manifest!KeysetsStayListed, Manifest!PublishedStaysListed,
       Manifest!ReachedKeepNewest, Manifest!Ids
  <2> QED
    BY <2>5, <2>6
<1> QED
  BY <1>5, <1>6 DEF Manifest!Start

\* Relays that are reached keep the event: it is later than what they have.  A
\* run that ends here without saving has reached none, or is a cut.
LEMMA PublishKeeps == ASSUME TimeIsTime, ManifestInv, Manifest!Publish PROVE ManifestInv'
<1> USE DEF TimeIsTime, ManifestInv
<1> DEFINE e == Manifest!EventOf(run)
<1>1. PICK reached \in SUBSET Relays :
         /\ held' \in {h \in [Relays -> {e} \cup Manifest!Range(held)] :
                         \A r \in Relays : h[r] \in IF r \in reached THEN Manifest!Keeps(r, e) ELSE {held[r]}}
         /\ newest' = [event |-> e, reached |-> reached]
         /\ told' = IF reached = {} THEN told ELSE told \cup Manifest!Ids(e.keysets)
         /\ \/ run' = [run EXCEPT !.phase = "saving"] /\ UNCHANGED cut
            \/ run' = Manifest!NoRun /\ cut' = (cut \/ reached # {})
  BY DEF Manifest!Publish
<1>2. run.phase = "publishing" /\ UNCHANGED <<active, now, disk, runs>>
  BY DEF Manifest!Publish
<1>3. e.keysets = run.keysets /\ e.at = run.at /\ run.at \in Nat
  BY <1>2 DEF Manifest!EventOf, ManifestTyped, Manifest!NoRun
<1>4. /\ DOMAIN held' = Relays
      /\ \A r \in Relays : held'[r] \in IF r \in reached THEN Manifest!Keeps(r, e) ELSE {held[r]}
  BY <1>1
<1> HIDE DEF e
<1>5. \A r \in Relays : held'[r] \in {e, held[r]}
  BY <1>4 DEF Manifest!Keeps
<1>6. \/ run'.phase = "saving" /\ run'.keysets = run.keysets /\ run'.at = run.at
      \/ run' = Manifest!NoRun /\ run'.phase = "none" /\ cut' = (cut \/ reached # {})
  BY <1>1, <1>2 DEF Manifest!NoRun, ManifestTyped
<1>9. run' \in [phase : {"none", "publishing", "saving"}, keysets : Seq(Kept), at : Nat]
  <2>1. Manifest!NoRun \in [phase : {"none", "publishing", "saving"}, keysets : Seq(Kept), at : Nat]
    BY DEF Manifest!NoRun
  <2>2. [run EXCEPT !.phase = "saving"]
           \in [phase : {"none", "publishing", "saving"}, keysets : Seq(Kept), at : Nat]
    BY DEF ManifestTyped
  <2> QED
    BY <1>1, <2>1, <2>2
<1>7. ManifestTyped'
  BY <1>2, <1>3, <1>4, <1>5, <1>9, SMTT(40) DEF ManifestTyped
<1>8. ASSUME ~cut'
      PROVE  Ahead' /\ Manifest!KeysetsStayListed'
  <2>1. ~cut
    BY <1>1, <1>8
  <2>2. /\ KnowsAll(disk.keysets, disk.last)
        /\ told \subseteq Manifest!Ids(run.keysets)
        /\ \A r \in Relays : held[r].at < run.at
    BY <1>2, <2>1 DEF Ahead
  <2>3. told' \subseteq Manifest!Ids(run.keysets)
    BY <1>1, <1>3, <2>2
  <2>4. \A r \in reached : held'[r] = e
    BY <1>3, <1>4, <2>2 DEF Manifest!Keeps, ManifestTyped
  <2>5. Manifest!KeysetsStayListed'
    BY <1>1, <1>3, <2>3, <2>4
       DEF Manifest!KeysetsStayListed, Manifest!PublishedStaysListed,
               Manifest!ReachedKeepNewest, Manifest!Ids
  <2>6. reached = {} => KnowsAll(disk.keysets, disk.last)'
    BY <1>1, <1>2, <1>4, <2>2 DEF KnowsAll, Manifest!Ids
  <2>7. CASE run'.phase = "saving"
    <3>1. run'.keysets = run.keysets /\ run'.at = run.at
      BY <1>6, <2>7
    <3>2. \A r \in Relays : held'[r].at <= run.at
      <4> SUFFICES ASSUME NEW r \in Relays
                   PROVE  held'[r].at <= run.at
        OBVIOUS
      <4>1. CASE held'[r] = e
        BY <1>3, <4>1
      <4>2. CASE held'[r] = held[r]
        BY <1>3, <2>2, <4>2 DEF ManifestTyped
      <4> QED
        BY <1>5, <4>1, <4>2
    <3>3. KnowsAll(run.keysets, run.at)'
      BY <1>3, <2>3, <3>1, <3>2 DEF KnowsAll, Manifest!Ids
    <3> QED
      BY <1>1, <2>5, <2>6, <2>7, <3>3 DEF Ahead
  <2>8. CASE run' = Manifest!NoRun
    <3>1. reached = {}
      BY <1>6, <1>8, <2>1, <2>8 DEF Manifest!NoRun
    <3> QED
      BY <2>5, <2>6, <2>8, <3>1 DEF Ahead, Manifest!NoRun
  <2> QED
    BY <1>6, <2>7, <2>8
<1> QED
  BY <1>7, <1>8

\* Saving makes the file know all; dying behind an event that was seen is a cut.
LEMMA RestKeeps ==
    ASSUME TimeIsTime, ManifestInv,
           \/ Manifest!Save \/ Manifest!Die \/ Manifest!Clock
           \/ \E k \in Keysets : Manifest!Rotate(k)
    PROVE  ManifestInv'
<1> USE DEF TimeIsTime, ManifestInv, ManifestTyped, Ahead, KnowsAll, Manifest!Ids,
            Manifest!KeysetsStayListed, Manifest!PublishedStaysListed, Manifest!ReachedKeepNewest
<1>1. CASE Manifest!Save
  BY <1>1 DEF Manifest!Save, Manifest!NoRun
<1>2. CASE Manifest!Die
  <2>1. ManifestTyped'
    BY <1>2 DEF Manifest!Die, Manifest!NoRun
  <2>2. ASSUME ~cut'
        PROVE  Ahead' /\ Manifest!KeysetsStayListed'
    <3>1. ~cut /\ ~(run.phase = "saving" /\ newest.reached # {})
      BY <1>2, <2>2, Zenon DEF Manifest!Die
    <3> QED
      BY <1>2, <3>1 DEF Manifest!Die, Manifest!NoRun
  <2> QED
    BY <2>1, <2>2
<1>3. CASE Manifest!Clock
  BY <1>3 DEF Manifest!Clock
<1>4. ASSUME NEW k \in Keysets, Manifest!Rotate(k)
      PROVE  ManifestInv'
  BY <1>4 DEF Manifest!Rotate
<1> QED
  BY <1>1, <1>2, <1>3, <1>4

\* A wallet that asks a relay finds every keyset it holds, run after run.
THEOREM KeysetsStayListedHolds ==
    ASSUME TimeIsTime
    PROVE  Manifest!Spec => []Manifest!KeysetsStayListed
<1>1. ManifestInv /\ [Manifest!Next]_(Manifest!vars) => ManifestInv'
  <2> SUFFICES ASSUME ManifestInv, [Manifest!Next]_(Manifest!vars)
               PROVE  ManifestInv'
    OBVIOUS
  <2>1. CASE UNCHANGED Manifest!vars
    BY <2>1 DEF Manifest!vars, ManifestInv, ManifestTyped, Ahead, KnowsAll, Manifest!Ids,
                Manifest!KeysetsStayListed, Manifest!PublishedStaysListed, Manifest!ReachedKeepNewest
  <2> QED
    BY <2>1, StartKeeps, PublishKeeps, RestKeeps DEF Manifest!Next
<1>2. ManifestInv => Manifest!KeysetsStayListed
  BY DEF ManifestInv, Manifest!KeysetsStayListed, Manifest!PublishedStaysListed,
     Manifest!ReachedKeepNewest
<1> QED
  BY InitAhead, <1>1, <1>2, PTL DEF Manifest!Spec

-----------------------------------------------------------------------------
\* The operator's settings.

\* No request is one to both; what is saved is something.
RequestsAreOne ==
    /\ Controls \cap TestMints = {}
    /\ None \notin [paused : BOOLEAN, markup : Markups \cup {FlagMarkup}]

InForce == [paused |-> paused, markup |-> markup]

Save == Settings!Save
Lift == Settings!Set("paused", FALSE)
PutBack == Settings!Set("paused", TRUE)

\* Steps of a request to /api/controls, and of a test mint.
ControlSteps ==
    {Save, Lift, PutBack} \cup {Settings!Set("markup", m) : m \in Markups \cup {TooHigh}}
TestSteps == {Save, Lift, PutBack, Settings!Quote, Settings!Pay}

\* A test mint that is to lift the pause is to put it back after that; its
\* payment comes last, and is there as long as its quote is.
Rehearses(s) ==
    /\ s \in Seq(TestSteps)
    /\ \A i \in 1..Len(s) : s[i] = Lift => \E j \in (i + 1)..Len(s) : s[j] = PutBack
    /\ \A i \in 1..Len(s) : s[i] = Settings!Pay => i = Len(s)
    /\ \A i \in 1..Len(s) : s[i] = Settings!Quote => s[Len(s)] = Settings!Pay
    /\ \A i, j \in 1..Len(s) : s[i] = Settings!Quote /\ s[j] = Settings!Quote => i = j

PutsBack(s) == \E i \in 1..Len(s) : s[i] = PutBack
Saves(s) == s # <<>> /\ Head(s) = Save

SettingsTyped ==
    /\ paused \in BOOLEAN /\ asked \in BOOLEAN
    /\ markup \in Markups \cup {FlagMarkup}
    /\ wrote \in {"none", "ok", "failed"}
    /\ DOMAIN req = Settings!Requests /\ DOMAIN snap = Settings!Requests
    /\ \A c \in Controls : req[c] \in Seq(ControlSteps)
    /\ \A t \in TestMints : Rehearses(req[t])
    /\ ~up => \A r \in Settings!Requests : req[r] = <<>> /\ snap[r] = None

Saving(r) == Saves(req[r])

\* The settings are read under the lock and written under it, one request at a
\* time; what is being written is in force, or someone is to save after it.
SavesOK ==
    /\ \A r \in Settings!Requests : snap[r] # None => Saving(r)
    /\ \A r, o \in Settings!Requests : snap[r] # None /\ snap[o] # None => r = o
    /\ \A r \in Settings!Requests : snap[r] # None /\ snap[r] # InForce =>
          \E o \in Settings!Requests : Saving(o) /\ snap[o] = None

\* So the file holds the settings in force, or someone is to write them.
FileOK ==
    /\ up /\ wrote = "ok" =>
          \/ saved = InForce
          \/ \E o \in Settings!Requests : Saving(o) /\ snap[o] \in {None, InForce}
    /\ up /\ wrote = "none" =>
          \/ Settings!LoadedPause <=> paused
          \/ \E o \in Settings!Requests : Saving(o)

\* A test mint lifts only a pause the operator asked for, and where the pause is
\* not as asked for, some test mint is to put it back.
PauseOK ==
    ~crossed =>
        /\ \A t \in TestMints : PutsBack(req[t]) => asked
        /\ (paused # asked) => \E t \in TestMints : PutsBack(req[t])
        /\ ~up => (Settings!LoadedPause <=> asked)

SettingsInv == SettingsTyped /\ SavesOK /\ FileOK /\ PauseOK

-----------------------------------------------------------------------------
\* No two steps are the same.
LEMMA StepsDiffer ==
    /\ Save[1] = "save" /\ Settings!Quote[1] = "quote" /\ Settings!Pay[1] = "pay"
    /\ \A f, v : Settings!Set(f, v)[1] = f /\ Settings!Set(f, v)[2] = v
    /\ Lift[1] = "paused" /\ Lift[2] = FALSE /\ PutBack[1] = "paused" /\ PutBack[2] = TRUE
    /\ Lift # PutBack
    /\ \A f \in {"paused", "markup"} : \A v :
          Settings!Set(f, v) \notin {Save, Settings!Quote, Settings!Pay}
    /\ Save # Settings!Quote /\ Save # Settings!Pay /\ Settings!Quote # Settings!Pay
<1>1. \A f, v : Settings!Set(f, v)[1] = f /\ Settings!Set(f, v)[2] = v
  BY DEF Settings!Set
<1>2. Save[1] = "save" /\ Settings!Quote[1] = "quote" /\ Settings!Pay[1] = "pay"
  BY DEF Save, Settings!Save, Settings!Quote, Settings!Pay
<1>3. Lift[1] = "paused" /\ Lift[2] = FALSE /\ PutBack[1] = "paused" /\ PutBack[2] = TRUE
  BY <1>1 DEF Lift, PutBack
<1> QED
  BY <1>1, <1>2, <1>3

\* What is left of a request one step later: its first step is done, or replaced
\* by saving, or its last one falls away too.
LEMMA TailIs ==
    ASSUME NEW S, NEW s \in Seq(S), s # <<>>
    PROVE  /\ Tail(s) \in Seq(S) /\ Len(Tail(s)) = Len(s) - 1
           /\ \A i \in 1..Len(Tail(s)) : i + 1 \in 1..Len(s) /\ Tail(s)[i] = s[i + 1]
  OBVIOUS

LEMMA SavedIs ==
    ASSUME NEW S, NEW s \in Seq(S), s # <<>>, NEW e \in S
    PROVE  LET u == <<e>> \o Tail(s) IN
           /\ u \in Seq(S) /\ u # <<>> /\ Head(u) = e /\ Len(u) = Len(s)
           /\ \A i \in 2..Len(s) : u[i] = s[i]
<1> DEFINE u == <<e>> \o Tail(s)
<1>1. <<e>> \in Seq(S) /\ Len(<<e>>) = 1 /\ Tail(s) \in Seq(S) /\ Len(Tail(s)) = Len(s) - 1
  OBVIOUS
<1>2. u \in Seq(S) /\ Len(u) = Len(s) /\ u[1] = e
  BY <1>1
<1>3. ASSUME NEW i \in 2..Len(s)
      PROVE  u[i] = s[i]
  <2>1. u[i] = Tail(s)[i - 1]
    BY <1>1
  <2> QED
    BY <2>1
<1> QED
  BY <1>2, <1>3

LEMMA MiddleIs ==
    ASSUME NEW S, NEW s \in Seq(S), NEW n \in Nat, Len(s) = n, n > 1
    PROVE  /\ SubSeq(s, 2, n - 1) \in Seq(S)
           /\ Len(SubSeq(s, 2, n - 1)) = n - 2
           /\ \A i \in 1..(n - 2) : i + 1 \in 1..(n - 1) /\ SubSeq(s, 2, n - 1)[i] = s[i + 1]
<1>1. \A i \in 2..(n - 1) : s[i] \in S
  OBVIOUS
<1>2. 2 \in Int /\ n - 1 \in Int
  OBVIOUS
<1>3. /\ SubSeq(s, 2, n - 1) \in Seq(S)
      /\ Len(SubSeq(s, 2, n - 1)) = IF 2 <= n - 1 THEN (n - 1) - 2 + 1 ELSE 0
      /\ \A i \in 1..((n - 1) - 2 + 1) : SubSeq(s, 2, n - 1)[i] = s[2 + i - 1]
  BY <1>1, <1>2, SubSeqProperties
<1>4. (n - 1) - 2 + 1 = n - 2 /\ \A i \in 1..(n - 2) : 2 + i - 1 = i + 1 /\ i + 1 \in 1..(n - 1)
  OBVIOUS
<1> QED
  BY <1>3, <1>4

\* So a test mint goes on rehearsing, and puts back the pause if it did before.
LEMMA RehearsesOn ==
    ASSUME NEW s, Rehearses(s), s # <<>>
    PROVE  /\ Rehearses(Tail(s))
           /\ Head(s) # PutBack => (PutsBack(Tail(s)) <=> PutsBack(s))
           /\ Head(s) = Settings!Pay => ~PutsBack(s)
<1>1. s \in Seq(TestSteps) /\ Len(s) \in Nat /\ Len(s) > 0 /\ s[1] = Head(s)
  BY DEF Rehearses
<1>2. /\ Tail(s) \in Seq(TestSteps) /\ Len(Tail(s)) = Len(s) - 1
      /\ \A i \in 1..Len(Tail(s)) : i + 1 \in 1..Len(s) /\ Tail(s)[i] = s[i + 1]
  BY <1>1, TailIs
<1>3. ASSUME NEW j \in 2..Len(s)
      PROVE  j - 1 \in 1..Len(Tail(s)) /\ Tail(s)[j - 1] = s[j]
  <2>1. j - 1 \in 1..Len(Tail(s)) /\ (j - 1) + 1 = j
    BY <1>1, <1>2
  <2>2. QED
    BY <1>2, <2>1
<1>4. Rehearses(Tail(s))
  <2>1. ASSUME NEW i \in 1..Len(Tail(s)), Tail(s)[i] = Lift
        PROVE  \E j \in (i + 1)..Len(Tail(s)) : Tail(s)[j] = PutBack
    <3>1. i + 1 \in 1..Len(s) /\ s[i + 1] = Lift
      BY <1>2, <2>1
    <3>2. PICK j \in ((i + 1) + 1)..Len(s) : s[j] = PutBack
      BY <3>1 DEF Rehearses
    <3>3. j \in 2..Len(s) /\ j - 1 \in (i + 1)..Len(Tail(s))
      BY <1>1, <1>2, <3>2
    <3> QED
      BY <1>3, <3>2, <3>3
  <2>2. ASSUME NEW i \in 1..Len(Tail(s)), Tail(s)[i] = Settings!Pay
        PROVE  i = Len(Tail(s))
    <3>1. i + 1 \in 1..Len(s) /\ s[i + 1] = Settings!Pay
      BY <1>2, <2>2
    <3>2. i + 1 = Len(s)
      BY <3>1 DEF Rehearses
    <3>3. Len(Tail(s)) = Len(s) - 1 /\ i \in Int
      BY <1>2
    <3> QED
      BY <1>1, <3>2, <3>3
  <2>3. ASSUME NEW i \in 1..Len(Tail(s)), Tail(s)[i] = Settings!Quote
        PROVE  Tail(s)[Len(Tail(s))] = Settings!Pay
    <3>1. i + 1 \in 1..Len(s) /\ s[i + 1] = Settings!Quote
      BY <1>2, <2>3
    <3>2. s[Len(s)] = Settings!Pay /\ Len(s) \in 2..Len(s)
      BY <1>1, <3>1 DEF Rehearses
    <3> QED
      BY <1>2, <1>3, <3>2
  <2>4. ASSUME NEW i \in 1..Len(Tail(s)), NEW j \in 1..Len(Tail(s)),
               Tail(s)[i] = Settings!Quote, Tail(s)[j] = Settings!Quote
        PROVE  i = j
    <3>1. /\ i + 1 \in 1..Len(s) /\ s[i + 1] = Settings!Quote
          /\ j + 1 \in 1..Len(s) /\ s[j + 1] = Settings!Quote
      BY <1>2, <2>4
    <3>2. i + 1 = j + 1
      BY <3>1 DEF Rehearses
    <3> QED
      BY <1>2, <3>2
  <2> QED
    BY <1>2, <2>1, <2>2, <2>3, <2>4 DEF Rehearses
<1>5. Head(s) # PutBack => (PutsBack(Tail(s)) <=> PutsBack(s))
  <2>1. ASSUME NEW i \in 1..Len(s), s[i] = PutBack, Head(s) # PutBack
        PROVE  PutsBack(Tail(s))
    <3>1. i \in 2..Len(s)
      BY <1>1, <2>1
    <3> QED
      BY <1>3, <2>1, <3>1 DEF PutsBack
  <2>2. PutsBack(Tail(s)) => PutsBack(s)
    BY <1>2 DEF PutsBack
  <2> QED
    BY <2>1, <2>2 DEF PutsBack
<1>6. Head(s) = Settings!Pay => ~PutsBack(s)
  <2>1. Settings!Pay # PutBack
    BY StepsDiffer DEF PutBack
  <2>2. Head(s) = Settings!Pay => Len(s) = 1
    <3>1. 1 \in 1..Len(s)
      BY <1>1
    <3> QED
      BY <1>1, <3>1 DEF Rehearses
  <2> QED
    BY <1>1, <2>1, <2>2 DEF PutsBack
<1> QED
  BY <1>4, <1>5, <1>6

LEMMA RehearsesSaving ==
    ASSUME NEW s, Rehearses(s), s # <<>>
    PROVE  LET u == <<Save>> \o Tail(s) IN
           /\ Rehearses(u) /\ Saves(u)
           /\ PutsBack(u) => PutsBack(s)
           /\ Head(s) # PutBack /\ PutsBack(s) => PutsBack(u)
           /\ Head(s) = Lift => PutsBack(u)
<1> DEFINE u == <<Save>> \o Tail(s)
<1>1. s \in Seq(TestSteps) /\ Len(s) \in Nat /\ Len(s) > 0 /\ s[1] = Head(s)
  BY DEF Rehearses
<1>2. /\ u \in Seq(TestSteps) /\ u # <<>> /\ Head(u) = Save /\ Len(u) = Len(s) /\ u[1] = Save
      /\ \A i \in 2..Len(s) : u[i] = s[i]
  <2>1. Save \in TestSteps
    BY DEF TestSteps
  <2> QED
    BY <1>1, <2>1, SavedIs
<1> HIDE DEF u
<1>3. Save # Lift /\ Save # PutBack /\ Save # Settings!Pay /\ Save # Settings!Quote
  BY StepsDiffer DEF Lift, PutBack
<1>4. \A i \in 1..Len(s) : u[i] # Save => i \in 2..Len(s) /\ u[i] = s[i]
  BY <1>1, <1>2
<1>5. Rehearses(u)
  <2>1. ASSUME NEW i \in 1..Len(u), u[i] = Lift
        PROVE  \E j \in (i + 1)..Len(u) : u[j] = PutBack
    <3>1. i \in 2..Len(s) /\ s[i] = Lift
      BY <1>2, <1>3, <1>4, <2>1
    <3>2. PICK j \in (i + 1)..Len(s) : s[j] = PutBack
      BY <1>1, <3>1 DEF Rehearses
    <3> QED
      BY <1>1, <1>2, <3>1, <3>2
  <2>2. ASSUME NEW i \in 1..Len(u), u[i] = Settings!Pay
        PROVE  i = Len(u)
    BY <1>2, <1>3, <1>4, <2>2 DEF Rehearses
  <2>3. ASSUME NEW i \in 1..Len(u), u[i] = Settings!Quote
        PROVE  u[Len(u)] = Settings!Pay
    <3>1. i \in 2..Len(s) /\ s[i] = Settings!Quote
      BY <1>2, <1>3, <1>4, <2>3
    <3>2. s[Len(s)] = Settings!Pay /\ Len(s) \in 2..Len(s)
      BY <1>1, <3>1 DEF Rehearses
    <3> QED
      BY <1>2, <3>2
  <2>4. ASSUME NEW i \in 1..Len(u), NEW j \in 1..Len(u),
               u[i] = Settings!Quote, u[j] = Settings!Quote
        PROVE  i = j
    <3>1. /\ i \in 1..Len(s) /\ s[i] = Settings!Quote
          /\ j \in 1..Len(s) /\ s[j] = Settings!Quote
      BY <1>2, <1>3, <1>4, <2>4
    <3> QED
      BY <3>1 DEF Rehearses
  <2> QED
    BY <1>2, <2>1, <2>2, <2>3, <2>4 DEF Rehearses
<1>6. PutsBack(u) => PutsBack(s)
  BY <1>1, <1>2, <1>3, <1>4 DEF PutsBack
<1>7. Head(s) # PutBack /\ PutsBack(s) => PutsBack(u)
  <2> SUFFICES ASSUME Head(s) # PutBack, NEW i \in 1..Len(s), s[i] = PutBack
               PROVE  PutsBack(u)
    BY DEF PutsBack
  <2>1. i \in 2..Len(s)
    BY <1>1
  <2> QED
    BY <1>1, <1>2, <2>1 DEF PutsBack
<1>8. Head(s) = Lift => PutsBack(u)
  <2> SUFFICES ASSUME Head(s) = Lift
               PROVE  PutsBack(u)
    OBVIOUS
  <2>1. PICK j \in 2..Len(s) : s[j] = PutBack
    BY <1>1 DEF Rehearses
  <2> QED
    BY <1>1, <1>2, <2>1 DEF PutsBack
<1> QED
  BY <1>2, <1>5, <1>6, <1>7, <1>8 DEF Saves, u

LEMMA RehearsesRefused ==
    ASSUME NEW s, Rehearses(s), s # <<>>, Head(s) = Settings!Quote
    PROVE  LET u == SubSeq(s, 2, Len(s) - 1) IN
           Rehearses(u) /\ (PutsBack(u) <=> PutsBack(s))
<1> DEFINE u == SubSeq(s, 2, Len(s) - 1)
           n == Len(s)
<1>1. s \in Seq(TestSteps) /\ n \in Nat /\ n > 0 /\ s[1] = Settings!Quote
  BY DEF Rehearses
<1>2. Settings!Quote # PutBack /\ Settings!Pay # PutBack /\ Settings!Quote # Settings!Pay
  BY StepsDiffer DEF PutBack
<1>3. s[n] = Settings!Pay /\ n > 1
  BY <1>1, <1>2 DEF Rehearses
<1>4. /\ u \in Seq(TestSteps) /\ Len(u) = n - 2
      /\ \A i \in 1..(n - 2) : i + 1 \in 1..(n - 1) /\ u[i] = s[i + 1]
  BY <1>1, <1>3, MiddleIs
<1> HIDE DEF u, n
<1>5. n = Len(s)
  BY DEF n
<1>6. \A j \in 1..n : s[j] = PutBack => j \in 2..(n - 1) /\ j - 1 \in 1..(n - 2) /\ u[j - 1] = PutBack
  <2> SUFFICES ASSUME NEW j \in 1..n, s[j] = PutBack
               PROVE  j \in 2..(n - 1) /\ j - 1 \in 1..(n - 2) /\ u[j - 1] = PutBack
    OBVIOUS
  <2>1. j # 1 /\ j # n
    BY <1>1, <1>2, <1>3
  <2>2. j \in 2..(n - 1) /\ j - 1 \in 1..(n - 2)
    BY <1>1, <2>1
  <2> QED
    BY <1>4, <2>2
<1>7. PutsBack(u) <=> PutsBack(s)
  <2>1. PutsBack(s) => PutsBack(u)
    BY <1>4, <1>5, <1>6 DEF PutsBack
  <2>2. \A i \in 1..(n - 2) : i + 1 \in 1..n
    BY <1>1
  <2>3. PutsBack(u) => PutsBack(s)
    BY <1>4, <1>5, <2>2 DEF PutsBack
  <2> QED
    BY <2>1, <2>3
<1>8. Rehearses(u)
  <2>1. ASSUME NEW i \in 1..(n - 2), u[i] = Lift
        PROVE  \E j \in (i + 1)..(n - 2) : u[j] = PutBack
    <3>1. i + 1 \in 1..n /\ s[i + 1] = Lift
      BY <1>1, <1>4, <2>1
    <3>2. PICK j \in ((i + 1) + 1)..n : s[j] = PutBack
      BY <1>5, <3>1 DEF Rehearses
    <3>3. j \in 1..n
      BY <1>1, <3>2
    <3>4. j - 1 \in 1..(n - 2) /\ u[j - 1] = PutBack
      BY <1>6, <3>2, <3>3
    <3>5. j - 1 \in (i + 1)..(n - 2)
      BY <1>1, <3>2, <3>3, <3>4
    <3> QED
      BY <3>4, <3>5
  <2>2. ASSUME NEW i \in 1..(n - 2)
        PROVE  u[i] # Settings!Pay /\ u[i] # Settings!Quote
    <3>1. u[i] = s[i + 1] /\ i + 1 \in 1..n /\ i + 1 # n /\ i + 1 # 1 /\ 1 \in 1..n
      BY <1>1, <1>4
    <3>2. s[i + 1] # Settings!Pay
      BY <1>5, <3>1 DEF Rehearses
    <3>3. s[i + 1] # Settings!Quote
      BY <1>1, <1>5, <3>1 DEF Rehearses
    <3> QED
      BY <3>1, <3>2, <3>3
  <2> QED
    BY <1>4, <2>1, <2>2 DEF Rehearses
<1> QED
  BY <1>7, <1>8 DEF u, n

\* What a test mint is to restore, and what a request has not saved, in the terms
\* above.
LEMMA RestoresIs ==
    ASSUME SettingsTyped, NEW r \in Settings!Requests
    PROVE  /\ Settings!Restores(r) <=> r \in TestMints /\ PutsBack(req[r])
           /\ Saving(r) => Settings!Unsaved(r)
<1>1. PICK S : req[r] \in Seq(S)
  BY DEF SettingsTyped, Settings!Requests, Rehearses
<1>2. DOMAIN req[r] = 1..Len(req[r]) /\ (req[r] # <<>> => 1 \in 1..Len(req[r]) /\ Head(req[r]) = req[r][1])
  BY <1>1
<1>3. Settings!Restores(r) <=> r \in TestMints /\ PutsBack(req[r])
  BY <1>2 DEF Settings!Restores, PutsBack, PutBack
<1>4. Saving(r) => Settings!Unsaved(r)
  BY <1>2 DEF Saving, Saves, Save, Settings!Unsaved
<1> QED
  BY <1>3, <1>4

\* A step that leaves settings and file alone, and takes nobody away who is to
\* save, keeps them as they are.
LEMMA SavesStay ==
    ASSUME SavesOK, FileOK,
           UNCHANGED <<paused, markup, saved, snap, wrote, up>>,
           \A o \in Settings!Requests : Saving(o) => Saving(o)'
    PROVE  SavesOK' /\ FileOK'
<1>1. UNCHANGED <<InForce, Settings!LoadedPause>>
  BY DEF InForce, Settings!LoadedPause
<1>2. SavesOK'
  BY <1>1 DEF SavesOK
<1>3. FileOK'
  BY <1>1 DEF FileOK
<1> QED
  BY <1>2, <1>3

\* Nor does one that takes nobody away who is to put back the pause.
LEMMA PauseStays ==
    ASSUME PauseOK, UNCHANGED <<paused, up, asked>>, up \/ UNCHANGED saved, crossed' \/ ~crossed,
           \A t \in TestMints : ~crossed' =>
              /\ PutsBack(req[t]) => PutsBack(req'[t])
              /\ PutsBack(req'[t]) => PutsBack(req[t]) \/ asked
    PROVE  PauseOK'
<1>1. ~up => UNCHANGED Settings!LoadedPause
  BY DEF Settings!LoadedPause
<1> QED
  BY <1>1 DEF PauseOK

\* What requests set out with.
LEMMA BodiesAre == Settings!Bodies \subseteq Seq(ControlSteps)
<1>1. \A p \in BOOLEAN : Settings!Set("paused", p) \in ControlSteps
  BY DEF ControlSteps, Lift, PutBack
<1>2. \A m \in Markups \cup {TooHigh} : Settings!Set("markup", m) \in ControlSteps
  BY DEF ControlSteps
<1>3. \A x, y \in ControlSteps : <<x>> \in Seq(ControlSteps) /\ <<x, y>> \in Seq(ControlSteps)
  OBVIOUS
<1>4. ASSUME NEW b \in Settings!Bodies
      PROVE  b \in Seq(ControlSteps)
  <2>1. \/ \E m \in Markups : b = <<Settings!Set("markup", m)>>
        \/ \E p \in BOOLEAN : b = <<Settings!Set("paused", p)>>
        \/ \E m \in Markups \cup {TooHigh}, p \in BOOLEAN :
              b = <<Settings!Set("markup", m), Settings!Set("paused", p)>>
    BY DEF Settings!Bodies
  <2> QED
    BY <1>1, <1>2, <1>3, <2>1
<1> QED
  BY <1>4

LEMMA RehearsalIs ==
    ASSUME NEW was \in BOOLEAN
    PROVE  /\ Rehearses(Settings!Rehearsal(was))
           /\ PutsBack(Settings!Rehearsal(was)) => was
<1>1. /\ Settings!Quote # PutBack /\ Settings!Pay # PutBack /\ Lift # PutBack
      /\ Settings!Quote # Lift /\ Settings!Pay # Lift /\ Settings!Quote # Settings!Pay
  BY StepsDiffer DEF PutBack, Lift
<1>2. {Lift, PutBack, Settings!Quote, Settings!Pay} \subseteq TestSteps
  BY DEF TestSteps
<1>3. CASE was
  <2> DEFINE s == <<Lift, Settings!Quote, PutBack, Settings!Pay>>
  <2>1. Settings!Rehearsal(was) = s
    BY <1>3 DEF Settings!Rehearsal, Lift, PutBack
  <2>2. /\ s \in Seq(TestSteps) /\ Len(s) = 4
        /\ s[1] = Lift /\ s[2] = Settings!Quote /\ s[3] = PutBack /\ s[4] = Settings!Pay
    BY <1>2
  <2> HIDE DEF s
  <2>3. \A i \in 1..Len(s) : i = 1 \/ i = 2 \/ i = 3 \/ i = 4
    BY <2>2
  <2>4. Rehearses(s)
    <3>1. 3 \in (1 + 1)..4
      OBVIOUS
    <3> QED
      BY <1>1, <2>2, <2>3, <3>1 DEF Rehearses
  <2> QED
    BY <1>3, <2>1, <2>4
<1>4. CASE ~was
  <2> DEFINE s == <<Settings!Quote, Settings!Pay>>
  <2>1. Settings!Rehearsal(was) = s
    BY <1>4 DEF Settings!Rehearsal
  <2>2. s \in Seq(TestSteps) /\ Len(s) = 2 /\ s[1] = Settings!Quote /\ s[2] = Settings!Pay
    BY <1>2
  <2> HIDE DEF s
  <2>3. \A i \in 1..Len(s) : i = 1 \/ i = 2
    BY <2>2
  <2>4. Rehearses(s) /\ ~PutsBack(s)
    BY <1>1, <2>2, <2>3 DEF Rehearses, PutsBack
  <2> QED
    BY <2>1, <2>4
<1> QED
  BY <1>3, <1>4

\* A request comes: a test mint that is to put back the pause found it there.
LEMMA ArriveKeeps ==
    ASSUME RequestsAreOne, SettingsInv, NEW r \in Settings!Requests, Settings!Arrive(r)
    PROVE  SettingsInv'
<1> USE DEF SettingsInv
<1>1. PICK s :
         /\ req' = [req EXCEPT ![r] = s] /\ req[r] = <<>> /\ up
         /\ \/ r \in Controls /\ s \in Settings!Bodies
            \/ r \in TestMints /\ s = Settings!Rehearsal(paused)
         /\ UNCHANGED <<paused, markup, saved, snap, wrote, up, asked, crossed>>
  BY DEF Settings!Arrive, Settings!Runs, Settings!settings, Settings!file, Settings!history
<1>2. /\ DOMAIN req' = Settings!Requests /\ req'[r] = s
      /\ \A o \in Settings!Requests \ {r} : req'[o] = req[o]
  BY <1>1 DEF SettingsTyped
<1>3. r \in Controls => r \notin TestMints /\ s \in Seq(ControlSteps)
  BY <1>1, BodiesAre DEF RequestsAreOne
<1>4. r \in TestMints => r \notin Controls /\ Rehearses(s) /\ (PutsBack(s) => paused)
  BY <1>1, RehearsalIs DEF RequestsAreOne, SettingsTyped
<1>5. SettingsTyped'
  BY <1>1, <1>2, <1>3, <1>4 DEF SettingsTyped, Settings!Requests
<1>6. SavesOK' /\ FileOK'
  <2>1. ~Saving(r)
    BY <1>1 DEF Saving, Saves
  <2>2. \A o \in Settings!Requests : Saving(o) => Saving(o)'
    BY <1>2, <2>1 DEF Saving
  <2> QED
    BY <1>1, <2>2, SavesStay
<1>7. PauseOK'
  <2>1. ~crossed /\ paused => asked
    BY DEF PauseOK, SettingsTyped
  <2>2. ~PutsBack(req[r])
    BY <1>1 DEF PutsBack
  <2>3. \A t \in TestMints : ~crossed =>
           /\ PutsBack(req[t]) => PutsBack(req'[t])
           /\ PutsBack(req'[t]) => PutsBack(req[t]) \/ asked
    BY <1>2, <1>4, <2>1, <2>2 DEF Settings!Requests
  <2> QED
    BY <1>1, <2>3, PauseStays
<1> QED
  BY <1>5, <1>6, <1>7

\* A request sets a setting and is to save then.  A test mint that lifts the
\* pause is to put it back; one that puts it back was to, so the operator had
\* asked for it; and an operator who sets it while one is to has crossed it.
LEMMA StoreKeeps ==
    ASSUME RequestsAreOne, SettingsInv, NEW r \in Settings!Requests, Settings!Store(r)
    PROVE  SettingsInv'
<1> USE DEF SettingsInv
<1> DEFINE first == Head(req[r])
           later == <<Save>> \o Tail(req[r])
<1>1. /\ req[r] # <<>> /\ first[1] \in {"markup", "paused"}
      /\ first[1] = "markup" => first[2] \in Markups
      /\ paused' = IF first[1] = "paused" THEN first[2] ELSE paused
      /\ markup' = IF first[1] = "markup" THEN first[2] ELSE markup
      /\ asked' = IF first[1] = "paused" /\ r \in Controls THEN first[2] ELSE asked
      /\ crossed' = (crossed \/ (first[1] = "paused" /\ r \in Controls
                        /\ \E t \in TestMints : Settings!Restores(t)))
      /\ req' = [req EXCEPT ![r] = later]
      /\ UNCHANGED <<saved, snap, wrote, up>>
  BY DEF Settings!Store, Settings!Sets, Settings!Runs, Settings!Next1, Settings!Accepted,
         Settings!file, Save
<1>2. first # Save
  BY <1>1, StepsDiffer
<1>3. r \in Controls => /\ r \notin TestMints /\ later \in Seq(ControlSteps) /\ Saves(later)
                        /\ first[1] = "paused" => first[2] \in BOOLEAN
  <2> SUFFICES ASSUME r \in Controls
               PROVE  /\ r \notin TestMints /\ later \in Seq(ControlSteps) /\ Saves(later)
                      /\ first[1] = "paused" => first[2] \in BOOLEAN
    OBVIOUS
  <2>1. req[r] \in Seq(ControlSteps) /\ Save \in ControlSteps
    BY DEF SettingsTyped, ControlSteps
  <2>2. later \in Seq(ControlSteps) /\ Saves(later)
    BY <1>1, <2>1, SavedIs DEF Saves
  <2>3. first \in ControlSteps
    BY <1>1, <2>1
  <2>4. first[1] = "paused" => first[2] \in BOOLEAN
    <3>1. first \in {Lift, PutBack} \/ \E m \in Markups \cup {TooHigh} : first = Settings!Set("markup", m)
      BY <1>2, <2>3 DEF ControlSteps
    <3>2. first \in {Lift, PutBack} => first[2] \in BOOLEAN
      BY StepsDiffer
    <3>3. (\E m \in Markups \cup {TooHigh} : first = Settings!Set("markup", m)) => first[1] = "markup"
      BY StepsDiffer
    <3> QED
      BY <3>1, <3>2, <3>3
  <2> QED
    BY <2>2, <2>4 DEF RequestsAreOne
<1>4. r \in TestMints => /\ r \notin Controls /\ Rehearses(later) /\ Saves(later)
                         /\ PutsBack(later) => PutsBack(req[r])
                         /\ \/ /\ first[1] = "paused" /\ first[2] = FALSE /\ PutsBack(later)
                            \/ first[1] = "paused" /\ first[2] = TRUE /\ PutsBack(req[r])
  <2> SUFFICES ASSUME r \in TestMints
               PROVE  /\ r \notin Controls /\ Rehearses(later) /\ Saves(later)
                      /\ PutsBack(later) => PutsBack(req[r])
                      /\ \/ /\ first[1] = "paused" /\ first[2] = FALSE /\ PutsBack(later)
                         \/ first[1] = "paused" /\ first[2] = TRUE /\ PutsBack(req[r])
    OBVIOUS
  <2>1. Rehearses(req[r])
    BY DEF SettingsTyped
  <2>2. /\ Rehearses(later) /\ Saves(later)
        /\ PutsBack(later) => PutsBack(req[r])
        /\ first = Lift => PutsBack(later)
    BY <1>1, <2>1, RehearsesSaving
  <2>3. first \in TestSteps /\ 1 \in 1..Len(req[r]) /\ first = req[r][1]
    BY <1>1, <2>1 DEF Rehearses
  <2>4. first \in {Lift, PutBack}
    BY <1>1, <1>2, <2>3, StepsDiffer DEF TestSteps
  <2>5. /\ first = Lift => first[1] = "paused" /\ first[2] = FALSE
        /\ first = PutBack => first[1] = "paused" /\ first[2] = TRUE /\ PutsBack(req[r])
    <3>1. first = PutBack => PutsBack(req[r])
      BY <2>3 DEF PutsBack
    <3> QED
      BY <3>1, StepsDiffer
  <2> QED
    BY <2>2, <2>4, <2>5 DEF RequestsAreOne
<1> HIDE DEF first, later
<1>5. /\ DOMAIN req' = Settings!Requests /\ req'[r] = later
      /\ \A o \in Settings!Requests \ {r} : req'[o] = req[o]
      /\ r \in Controls \/ r \in TestMints
  BY <1>1 DEF SettingsTyped, Settings!Requests
<1>6. Saving(r)' /\ ~Saving(r)
  BY <1>2, <1>3, <1>4, <1>5 DEF Saving, Saves, first
<1>7. snap[r] = None /\ snap'[r] = None
  BY <1>1, <1>6 DEF SavesOK
<1>8. \A o \in Settings!Requests : Saving(o) => o # r /\ Saving(o)'
  BY <1>5, <1>6 DEF Saving
<1>9. SettingsTyped'
  <2>1. paused' \in BOOLEAN /\ asked' \in BOOLEAN
    BY <1>1, <1>3, <1>4, <1>5 DEF SettingsTyped
  <2>2. markup' \in Markups \cup {FlagMarkup}
    BY <1>1 DEF SettingsTyped
  <2>3. up
    BY <1>1 DEF SettingsTyped
  <2>4. \A c \in Controls : req'[c] \in Seq(ControlSteps)
    BY <1>3, <1>5 DEF SettingsTyped, Settings!Requests
  <2>5. \A t \in TestMints : Rehearses(req'[t])
    BY <1>4, <1>5 DEF SettingsTyped, Settings!Requests
  <2> QED
    BY <1>1, <1>5, <2>1, <2>2, <2>3, <2>4, <2>5 DEF SettingsTyped
<1>10. SavesOK'
  BY <1>1, <1>6, <1>7, <1>8 DEF SavesOK
<1>11. FileOK'
  BY <1>6, <1>7 DEF FileOK
<1>12. PauseOK'
  <2> SUFFICES ASSUME ~crossed'
               PROVE  /\ \A t \in TestMints : PutsBack(req'[t]) => asked'
                      /\ (paused' # asked') => \E t \in TestMints : PutsBack(req'[t])
                      /\ ~up'
                            => (Settings!LoadedPause' <=> asked')
    BY DEF PauseOK
  <2>1. up'
    BY <1>1 DEF SettingsTyped
  <2>2. /\ ~crossed
        /\ \A t \in TestMints : PutsBack(req[t]) => asked
        /\ (paused # asked) => \E t \in TestMints : PutsBack(req[t])
    BY <1>1 DEF PauseOK
  <2>3. CASE r \in Controls
    <3>1. \A t \in TestMints : req'[t] = req[t]
      BY <1>3, <1>5, <2>3 DEF Settings!Requests
    <3>2. CASE first[1] = "paused"
      <4>1. \A t \in TestMints : ~PutsBack(req[t])
        BY <1>1, <2>3, <3>2, RestoresIs DEF Settings!Requests
      <4> QED
        BY <1>1, <2>1, <2>3, <3>1, <3>2, <4>1
    <3>3. CASE first[1] # "paused"
      BY <1>1, <2>1, <2>2, <2>3, <3>1, <3>3
    <3> QED
      BY <3>2, <3>3
  <2>4. CASE r \in TestMints
    <3>1. asked' = asked /\ paused' = first[2]
      BY <1>1, <1>4, <2>4
    <3>2. \A t \in TestMints : PutsBack(req'[t]) => PutsBack(req[t])
      BY <1>4, <1>5, <2>4 DEF Settings!Requests
    <3>3. CASE first[2] = FALSE /\ PutsBack(later)
      BY <1>5, <2>1, <2>2, <2>4, <3>1, <3>2, <3>3
    <3>4. CASE first[2] = TRUE /\ PutsBack(req[r])
      <4>1. asked = TRUE
        BY <2>2, <2>4, <3>4 DEF SettingsTyped
      <4> QED
        BY <2>1, <2>2, <3>1, <3>2, <3>4, <4>1
    <3> QED
      BY <1>4, <2>4, <3>3, <3>4
  <2> QED
    BY <1>5, <2>3, <2>4
<1> QED
  BY <1>9, <1>10, <1>11, <1>12

\* Only a test mint quotes and pays.
LEMMA ControlsSet ==
    ASSUME SettingsInv, NEW r \in Controls, req[r] # <<>>
    PROVE  Head(req[r]) \notin {Settings!Quote, Settings!Pay}
<1>1. req[r] \in Seq(ControlSteps)
  BY DEF SettingsInv, SettingsTyped
<1>2. Head(req[r]) \in ControlSteps
  BY <1>1
<1> QED
  BY <1>2, StepsDiffer DEF ControlSteps, Lift, PutBack

\* A step that changes none of it.
LEMMA Untouched ==
    ASSUME SettingsInv, UNCHANGED <<paused, markup, saved, snap, wrote, req, up, asked, crossed>>
    PROVE  SettingsInv'
<1>1. UNCHANGED <<InForce, Settings!LoadedPause>>
  BY DEF InForce, Settings!LoadedPause
<1> QED
  BY <1>1 DEF SettingsInv, SettingsTyped, SavesOK, FileOK, PauseOK, Saving

\* A request comes one step further, or to its end, and neither setting nor file
\* is touched: what was to be saved and put back still is.
LEMMA OneStepKeeps ==
    ASSUME RequestsAreOne, SettingsInv, NEW r \in Settings!Requests, NEW s,
           req[r] # <<>>, ~Saving(r), req' = [req EXCEPT ![r] = s],
           r \in Controls => s \in Seq(ControlSteps),
           r \in TestMints => Rehearses(s) /\ (~crossed' => (PutsBack(s) <=> PutsBack(req[r]))),
           crossed' \/ ~crossed,
           UNCHANGED <<paused, markup, saved, snap, wrote, up, asked>>
    PROVE  SettingsInv'
<1> USE DEF SettingsInv
<1>1. /\ DOMAIN req' = Settings!Requests /\ req'[r] = s
      /\ \A o \in Settings!Requests \ {r} : req'[o] = req[o]
      /\ r \in Controls => r \notin TestMints
  BY DEF SettingsTyped, RequestsAreOne
<1>2. SettingsTyped'
  <2>1. up
    BY DEF SettingsTyped
  <2> QED
    BY <1>1, <2>1 DEF SettingsTyped, Settings!Requests
<1>3. \A o \in Settings!Requests : Saving(o) => Saving(o)'
  BY <1>1 DEF Saving
<1>4. SavesOK' /\ FileOK'
  BY <1>3, SavesStay
<1>5. \A t \in TestMints : ~crossed' =>
         /\ PutsBack(req[t]) => PutsBack(req'[t])
         /\ PutsBack(req'[t]) => PutsBack(req[t]) \/ asked
  BY <1>1 DEF Settings!Requests
<1>6. PauseOK'
  BY <1>5, PauseStays
<1> QED
  BY <1>2, <1>4, <1>6

\* A request that is refused a setting was one to the controls: a test mint sets
\* nothing but the pause.
LEMMA RefuseKeeps ==
    ASSUME RequestsAreOne, SettingsInv, NEW r \in Settings!Requests, Settings!Refuse(r)
    PROVE  SettingsInv'
<1>1. /\ req[r] # <<>> /\ Head(req[r])[1] = "markup"
      /\ req' = [req EXCEPT ![r] = <<>>]
      /\ UNCHANGED <<paused, markup, saved, snap, wrote, up, asked, crossed>>
  BY DEF Settings!Refuse, Settings!Sets, Settings!Runs, Settings!Next1, Settings!Accepted,
         Settings!settings, Settings!file, Settings!history
<1>2. ~Saving(r)
  BY <1>1, StepsDiffer DEF Saving, Saves
<1>3. r \notin TestMints
  <2> SUFFICES ASSUME r \in TestMints
               PROVE  FALSE
    OBVIOUS
  <2>1. req[r] \in Seq(TestSteps)
    BY DEF SettingsInv, SettingsTyped, Rehearses
  <2>2. Head(req[r]) \in TestSteps
    BY <1>1, <2>1
  <2> QED
    BY <1>1, <2>2, StepsDiffer DEF TestSteps
<1>4. <<>> \in Seq(ControlSteps)
  OBVIOUS
<1> QED
  BY <1>1, <1>2, <1>3, <1>4, OneStepKeeps

\* A test mint makes its quote, or is refused it and goes on to restore the pause.
LEMMA TestQuoteKeeps ==
    ASSUME RequestsAreOne, SettingsInv, NEW r \in Settings!Requests, Settings!TestQuote(r)
    PROVE  SettingsInv'
<1>1. /\ req[r] # <<>> /\ Head(req[r]) = Settings!Quote
      /\ \/ req' = [req EXCEPT ![r] = Tail(req[r])]
         \/ req' = [req EXCEPT ![r] = SubSeq(req[r], 2, Len(req[r]) - 1)]
      /\ UNCHANGED <<paused, markup, saved, snap, wrote, up, asked, crossed>>
  BY DEF Settings!TestQuote, Settings!Runs, Settings!Next1,
         Settings!settings, Settings!file, Settings!history
<1>2. ~Saving(r) /\ Head(req[r]) # PutBack
  BY <1>1, StepsDiffer DEF Saving, Saves, PutBack
<1>3. r \notin Controls /\ r \in TestMints /\ Rehearses(req[r])
  BY <1>1, ControlsSet DEF SettingsInv, SettingsTyped, Settings!Requests
<1>4. CASE req' = [req EXCEPT ![r] = Tail(req[r])]
  <2>1. Rehearses(Tail(req[r])) /\ (PutsBack(Tail(req[r])) <=> PutsBack(req[r]))
    BY <1>1, <1>2, <1>3, RehearsesOn
  <2> QED
    BY <1>1, <1>2, <1>3, <1>4, <2>1, OneStepKeeps
<1>5. CASE req' = [req EXCEPT ![r] = SubSeq(req[r], 2, Len(req[r]) - 1)]
  <2> DEFINE u == SubSeq(req[r], 2, Len(req[r]) - 1)
  <2>1. Rehearses(u) /\ (PutsBack(u) <=> PutsBack(req[r]))
    BY <1>1, <1>3, RehearsesRefused
  <2>2. req' = [req EXCEPT ![r] = u]
    BY <1>5
  <2> HIDE DEF u
  <2> QED
    BY <1>1, <1>2, <1>3, <2>1, <2>2, OneStepKeeps
<1> QED
  BY <1>1, <1>4, <1>5

\* It is paid, which is its last step; or its client has gone, and a pause it was
\* to put back is one it has crossed.
LEMMA EndKeeps ==
    ASSUME RequestsAreOne, SettingsInv, NEW r \in Settings!Requests,
           Settings!PayTestQuote(r) \/ Settings!Abandon(r)
    PROVE  SettingsInv'
<1>1. /\ req[r] # <<>> /\ Head(req[r]) \in {Settings!Quote, Settings!Pay}
      /\ req' = [req EXCEPT ![r] = <<>>]
      /\ UNCHANGED <<paused, markup, saved, snap, wrote, up, asked>>
      /\ \/ Head(req[r]) = Settings!Pay /\ crossed' = crossed
         \/ crossed' = (crossed \/ Settings!Restores(r))
  BY DEF Settings!PayTestQuote, Settings!Abandon, Settings!Runs, Settings!Next1,
         Settings!settings, Settings!file, Settings!history
<1>2. ~Saving(r)
  BY <1>1, StepsDiffer DEF Saving, Saves
<1>3. r \notin Controls /\ r \in TestMints /\ Rehearses(req[r])
  BY <1>1, ControlsSet DEF SettingsInv, SettingsTyped, Settings!Requests
<1>4. ~crossed' => ~PutsBack(req[r])
  BY <1>1, <1>3, RehearsesOn, RestoresIs DEF SettingsInv
<1>5. Rehearses(<<>>) /\ ~PutsBack(<<>>)
  BY DEF Rehearses, PutsBack
<1>6. crossed' \/ ~crossed
  BY <1>1
<1> QED
  BY <1>1, <1>2, <1>3, <1>4, <1>5, <1>6, OneStepKeeps

\* A request reads the settings under the lock.
LEMMA BeginSaveKeeps ==
    ASSUME RequestsAreOne, SettingsInv, NEW r \in Settings!Requests, Settings!BeginSave(r)
    PROVE  SettingsInv'
<1> USE DEF SettingsInv
<1>1. /\ Saving(r) /\ \A o \in Settings!Requests : snap[o] = None
      /\ snap' = [snap EXCEPT ![r] = InForce]
      /\ UNCHANGED <<paused, markup, saved, wrote, req, up, asked, crossed>>
  BY DEF Settings!BeginSave, Settings!MayRead, Settings!Runs, Settings!Next1, Saving, Saves, Save,
         InForce, Settings!settings, Settings!history
<1>2. /\ DOMAIN snap' = Settings!Requests /\ snap'[r] = InForce
      /\ \A o \in Settings!Requests \ {r} : snap'[o] = None
  BY <1>1 DEF SettingsTyped
<1>3. InForce' = InForce /\ \A o \in Settings!Requests : Saving(o)' <=> Saving(o)
  BY <1>1 DEF InForce, Saving
<1>4. SettingsTyped'
  <2>1. up
    BY <1>1 DEF SettingsTyped, Saving, Saves
  <2> QED
    BY <1>1, <1>2, <2>1 DEF SettingsTyped
<1>5. SavesOK'
  BY <1>1, <1>2, <1>3 DEF SavesOK
<1>6. FileOK'
  <2>1. UNCHANGED Settings!LoadedPause
    BY <1>1 DEF Settings!LoadedPause
  <2>2. \A o \in Settings!Requests : snap'[o] \in {None, InForce}
    BY <1>2
  <2> QED
    BY <1>1, <1>3, <2>1, <2>2 DEF FileOK
<1>7. PauseOK'
  BY <1>1, PauseStays
<1> QED
  BY <1>4, <1>5, <1>6, <1>7

\* It writes what it read, or fails to: where the settings have changed since,
\* whoever changed them is to save too.
LEMMA EndSaveKeeps ==
    ASSUME RequestsAreOne, SettingsInv, NEW r \in Settings!Requests, Settings!EndSave(r)
    PROVE  SettingsInv'
<1> USE DEF SettingsInv
<1>1. /\ snap[r] # None
      /\ \/ wrote' = "ok" /\ saved' = snap[r]
         \/ wrote' = "failed"
      /\ snap' = [snap EXCEPT ![r] = None] /\ req' = [req EXCEPT ![r] = Tail(req[r])]
      /\ UNCHANGED <<paused, markup, up, asked, crossed>>
  BY DEF Settings!EndSave, Settings!settings, Settings!history
<1>2. Saving(r) /\ up
  BY <1>1 DEF SavesOK, SettingsTyped
<1>3. /\ DOMAIN req' = Settings!Requests /\ req'[r] = Tail(req[r])
      /\ DOMAIN snap' = Settings!Requests /\ snap'[r] = None
      /\ \A o \in Settings!Requests \ {r} : req'[o] = req[o] /\ snap'[o] = snap[o]
      /\ \A o \in Settings!Requests : snap'[o] = None
      /\ r \in Controls => r \notin TestMints
  BY <1>1 DEF SettingsTyped, SavesOK, RequestsAreOne
<1>4. r \in Controls => Tail(req[r]) \in Seq(ControlSteps)
  BY <1>2 DEF SettingsTyped, Saving, Saves
<1>5. r \in TestMints => Rehearses(Tail(req[r])) /\ (PutsBack(Tail(req[r])) <=> PutsBack(req[r]))
  <2> SUFFICES ASSUME r \in TestMints
               PROVE  Rehearses(Tail(req[r])) /\ (PutsBack(Tail(req[r])) <=> PutsBack(req[r]))
    OBVIOUS
  <2>1. Rehearses(req[r]) /\ req[r] # <<>> /\ Head(req[r]) = Save /\ Save # PutBack
    BY <1>2, StepsDiffer DEF SettingsTyped, Saving, Saves, PutBack
  <2> QED
    BY <2>1, RehearsesOn
<1>6. SettingsTyped'
  BY <1>1, <1>2, <1>3, <1>4, <1>5 DEF SettingsTyped, Settings!Requests
<1>7. SavesOK'
  BY <1>3 DEF SavesOK
<1>8. FileOK'
  <2>1. InForce' = InForce
    BY <1>1 DEF InForce
  <2>2. wrote' = "ok" => \/ saved' = InForce'
                         \/ \E o \in Settings!Requests : Saving(o)' /\ snap'[o] = None
    <3> SUFFICES ASSUME wrote' = "ok", saved' # InForce'
                 PROVE  \E o \in Settings!Requests : Saving(o)' /\ snap'[o] = None
      OBVIOUS
    <3>1. snap[r] # InForce
      BY <1>1, <2>1
    <3>2. PICK o \in Settings!Requests : Saving(o) /\ snap[o] = None
      BY <1>1, <3>1 DEF SavesOK
    <3>3. Saving(o)'
      BY <1>1, <1>3, <3>2 DEF Saving
    <3> QED
      BY <1>3, <3>3
  <2> QED
    BY <1>1, <2>2 DEF FileOK
<1>9. PauseOK'
  <2>1. \A t \in TestMints : PutsBack(req'[t]) <=> PutsBack(req[t])
    BY <1>3, <1>5 DEF Settings!Requests
  <2> QED
    BY <1>1, <1>2, <2>1, PauseStays
<1> QED
  BY <1>6, <1>7, <1>8, <1>9

\* A kill that finds nothing to put back and nothing to save finds the pause as
\* asked for, and so does the file.
LEMMA KillKeeps ==
    ASSUME RequestsAreOne, SettingsInv, Settings!Kill
    PROVE  SettingsInv'
<1> USE DEF SettingsInv
<1>1. /\ up /\ up' = FALSE
      /\ crossed' = (crossed \/ wrote = "failed" \/
            \E r \in Settings!Requests : Settings!Restores(r) \/ Settings!Unsaved(r))
      /\ req' = [r \in Settings!Requests |-> <<>>] /\ snap' = [r \in Settings!Requests |-> None]
      /\ UNCHANGED <<paused, markup, saved, wrote, asked>>
  BY DEF Settings!Kill, Settings!settings
<1>2. \A r \in Settings!Requests : req'[r] = <<>> /\ snap'[r] = None
  BY <1>1
<1>3. <<>> \in Seq(ControlSteps) /\ Rehearses(<<>>) /\ ~PutsBack(<<>>)
  BY DEF Rehearses, PutsBack
<1>4. SettingsTyped'
  BY <1>1, <1>2, <1>3 DEF SettingsTyped, Settings!Requests
<1>5. SavesOK' /\ FileOK'
  BY <1>1, <1>2 DEF SavesOK, FileOK
<1>6. PauseOK'
  <2> SUFFICES ASSUME ~crossed'
               PROVE  /\ \A t \in TestMints : ~PutsBack(req'[t])
                      /\ paused' = asked' /\ (Settings!LoadedPause' <=> asked')
    BY DEF PauseOK
  <2>1. /\ ~crossed /\ wrote # "failed"
        /\ \A r \in Settings!Requests : ~Settings!Restores(r) /\ ~Settings!Unsaved(r)
    BY <1>1
  <2>2. \A t \in TestMints : ~PutsBack(req[t])
    BY <2>1, RestoresIs DEF Settings!Requests
  <2>3. \A r \in Settings!Requests : ~Saving(r)
    BY <2>1, RestoresIs
  <2>4. paused = asked
    BY <2>1, <2>2 DEF PauseOK
  <2>5. Settings!LoadedPause <=> paused
    <3>1. wrote = "ok" \/ wrote = "none"
      BY <2>1 DEF SettingsTyped
    <3>2. wrote = "ok" => saved = InForce
      BY <1>1, <2>3 DEF FileOK
    <3>3. InForce # None /\ InForce.paused = paused
      BY DEF InForce, RequestsAreOne, SettingsTyped
    <3> QED
      BY <1>1, <2>3, <3>1, <3>2, <3>3 DEF FileOK, Settings!LoadedPause
  <2>6. Settings!LoadedPause' <=> Settings!LoadedPause
    BY <1>1 DEF Settings!LoadedPause
  <2>7. paused' = paused /\ asked' = asked
    BY <1>1
  <2> QED
    BY <1>2, <1>3, <2>4, <2>5, <2>6, <2>7 DEF Settings!Requests
<1> QED
  BY <1>4, <1>5, <1>6

\* A start takes the settings from the file.
LEMMA RestartKeeps ==
    ASSUME RequestsAreOne, SettingsInv, Settings!Start
    PROVE  SettingsInv'
<1> USE DEF SettingsInv
<1>1. /\ ~up /\ up' = TRUE /\ wrote' = "none"
      /\ paused' = Settings!LoadedPause /\ markup' = Settings!LoadedMarkup
      /\ UNCHANGED <<saved, snap, req, asked, crossed>>
  BY DEF Settings!Start, Settings!history
<1>2. paused' \in BOOLEAN /\ markup' \in Markups \cup {FlagMarkup}
  BY <1>1 DEF Settings!LoadedPause, Settings!LoadedMarkup, Settings!Accepted
<1>3. \A r \in Settings!Requests : req[r] = <<>> /\ snap[r] = None
  BY <1>1 DEF SettingsTyped
<1>4. UNCHANGED Settings!LoadedPause
  BY <1>1 DEF Settings!LoadedPause
<1>5. SettingsTyped'
  BY <1>1, <1>2 DEF SettingsTyped
<1>6. SavesOK'
  BY <1>1, <1>3 DEF SavesOK
<1>7. FileOK'
  BY <1>1, <1>4 DEF FileOK
<1>8. PauseOK'
  <2>1. ~crossed => paused' = asked
    BY <1>1, <1>2 DEF PauseOK, SettingsTyped
  <2>2. \A t \in TestMints : ~PutsBack(req[t])
    BY <1>3 DEF PutsBack, Settings!Requests
  <2> QED
    BY <1>1, <2>1, <2>2 DEF PauseOK
<1> QED
  BY <1>5, <1>6, <1>7, <1>8

LEMMA SettingsStart ==
    ASSUME RequestsAreOne, Settings!Init
    PROVE  SettingsInv
<1>1. /\ paused = Settings!LoadedPause /\ asked = Settings!LoadedPause
      /\ markup = Settings!LoadedMarkup /\ wrote = "none" /\ up = TRUE /\ crossed = FALSE
      /\ req = [r \in Settings!Requests |-> <<>>] /\ snap = [r \in Settings!Requests |-> None]
  BY DEF Settings!Init
<1>2. paused \in BOOLEAN /\ markup \in Markups \cup {FlagMarkup}
  BY <1>1 DEF Settings!LoadedPause, Settings!LoadedMarkup, Settings!Accepted
<1>3. <<>> \in Seq(ControlSteps) /\ Rehearses(<<>>) /\ ~PutsBack(<<>>)
  BY DEF Rehearses, PutsBack
<1>4. SettingsTyped
  BY <1>1, <1>2, <1>3 DEF SettingsTyped, Settings!Requests
<1>5. SavesOK /\ FileOK
  BY <1>1 DEF SavesOK, FileOK
<1>6. PauseOK
  BY <1>1, <1>3 DEF PauseOK, Settings!Requests
<1> QED
  BY <1>4, <1>5, <1>6 DEF SettingsInv

LEMMA SettingsStep ==
    ASSUME RequestsAreOne, SettingsInv, [Settings!Next]_(Settings!vars)
    PROVE  SettingsInv'
<1>1. CASE UNCHANGED Settings!vars
  <2>1. UNCHANGED <<paused, markup, saved, snap, wrote, req, up, asked, crossed>>
    BY <1>1 DEF Settings!vars, Settings!settings, Settings!file, Settings!history
  <2> QED
    BY <2>1, Untouched
<1>2. CASE Settings!PublicQuote
  <2>1. UNCHANGED <<paused, markup, saved, snap, wrote, req, up, asked, crossed>>
    BY <1>2 DEF Settings!PublicQuote, Settings!settings, Settings!file, Settings!history
  <2> QED
    BY <2>1, Untouched
<1>3. CASE Settings!Kill
  BY <1>3, KillKeeps
<1>4. CASE Settings!Start
  BY <1>4, RestartKeeps
<1>5. ASSUME NEW r \in Settings!Requests,
             \/ Settings!Arrive(r) \/ Settings!Store(r) \/ Settings!Refuse(r)
             \/ Settings!BeginSave(r) \/ Settings!EndSave(r)
             \/ Settings!TestQuote(r) \/ Settings!PayTestQuote(r) \/ Settings!Abandon(r)
      PROVE  SettingsInv'
  BY <1>5, ArriveKeeps, StoreKeeps, RefuseKeeps, BeginSaveKeeps, EndSaveKeeps,
     TestQuoteKeeps, EndKeeps
<1> QED
  BY <1>1, <1>2, <1>3, <1>4, <1>5 DEF Settings!Next

\* Once no request runs, nobody is to save and nobody is to put back the pause.
LEMMA SettingsInvSays ==
    ASSUME SettingsInv
    PROVE  Settings!SettingsLast
<1> USE DEF SettingsInv
<1>1. Settings!SettledIsSaved
  <2> SUFFICES ASSUME up, wrote = "ok", \A r \in Settings!Requests : req[r] = <<>>
               PROVE  saved = InForce
    BY DEF Settings!SettledIsSaved, Settings!Runs, InForce
  <2> QED
    BY DEF FileOK, Saving, Saves
<1>2. Settings!PauseComesBack
  <2> SUFFICES ASSUME up, ~crossed, \A r \in Settings!Requests : req[r] = <<>>
               PROVE  paused = asked
    BY DEF Settings!PauseComesBack, Settings!Runs
  <2> QED
    BY DEF PauseOK, PutsBack, Settings!Requests
<1> QED
  BY <1>1, <1>2 DEF Settings!SettingsLast

THEOREM SettingsLastHolds ==
    ASSUME RequestsAreOne
    PROVE  Settings!Spec => []Settings!SettingsLast
<1>1. Settings!Init => SettingsInv
  BY SettingsStart
<1>2. SettingsInv /\ [Settings!Next]_(Settings!vars) => SettingsInv'
  BY SettingsStep
<1>3. SettingsInv => Settings!SettingsLast
  BY SettingsInvSays
<1> QED
  BY <1>1, <1>2, <1>3, PTL DEF Settings!Spec

-----------------------------------------------------------------------------
\* Purchases.

\* A lock that is free is held by no poll.
NoneIsNoPoll == None \notin Polls

Locked == {"checking", "minting", "answering"}

\* The maps have an entry for each purchase and poll.
Shape ==
    /\ DOMAIN quote = Buys /\ DOMAIN entry = Buys
    /\ poll \in [Polls -> [of : Buys \cup {None}, at : {"idle", "waiting"} \cup Locked]]
    /\ lock \in [Buys -> Polls \cup {None}]
    /\ token \subseteq Buys

\* A poll behind the lock holds it, alone.  What it has seen under the lock is
\* so as long as it holds it.
PollOK(p) ==
    /\ Buy!At(p, "waiting") => Buy!Of(p) \in Buys
    /\ poll[p].at \in Locked => Buy!Of(p) \in Buys /\ lock[Buy!Of(p)] = p
    /\ Buy!At(p, "checking") \/ Buy!At(p, "minting") => Buy!Of(p) \notin token
    /\ Buy!At(p, "minting") => quote[Buy!Of(p)] \in {"paid", "issued"}

\* An entry goes by a fault or after a day, and only what was issued is there.
BuyOK(b) ==
    /\ entry[b] = "gone" => b \in day \cup hit
    /\ b \in token => quote[b] = "issued"
    /\ quote[b] \in {"paid", "issued"} =>
          \/ b \in buyTold \cup hit \cup day
          \/ entry[b] = "here" /\ (quote[b] = "paid" \/ b \in token)
    /\ entry[b] \in {"none", "here", "gone"}

BuyInv == Shape /\ (\A p \in Polls : PollOK(p)) /\ (\A b \in Buys : BuyOK(b))

\* Nothing is bought at the start.
LEMMA InitBuys == Buy!Init => BuyInv
  BY DEF Buy!Init, BuyInv, Shape, PollOK, BuyOK, Buy!Idle, Buy!At, Buy!Of, Locked

\* What buyers and the clock do touches no poll behind its lock.
LEMMA BuyerKeeps ==
    ASSUME BuyInv, NEW b \in Buys,
           \/ Buy!RequestQuote(b) \/ Buy!Insert(b) \/ Buy!Pay(b) \/ Buy!DayPasses(b)
           \/ \E p \in Polls : Buy!Arrive(p, b)
    PROVE  BuyInv'
<1> USE DEF BuyInv, Shape, PollOK, BuyOK, Buy!At, Buy!Of, Locked
<1>1. CASE Buy!RequestQuote(b)
  BY <1>1 DEF Buy!RequestQuote
<1>2. CASE Buy!Insert(b)
  BY <1>2 DEF Buy!Insert, Buy!Forgotten
<1>3. CASE Buy!Pay(b)
  BY <1>3 DEF Buy!Pay
<1>4. CASE Buy!DayPasses(b)
  BY <1>4 DEF Buy!DayPasses
<1>5. ASSUME NEW p \in Polls, Buy!Arrive(p, b)
      PROVE  BuyInv'
  BY <1>5 DEF Buy!Arrive
<1> QED
  BY <1>1, <1>2, <1>3, <1>4, <1>5

\* A poll that ends frees the lock it holds, and no other poll's.
LEMMA LeaveKeeps ==
    ASSUME NoneIsNoPoll, BuyInv, NEW p \in Polls, poll[p].at \in Locked, Buy!Leave(p)
    PROVE  /\ poll' \in [Polls -> [of : Buys \cup {None}, at : {"idle", "waiting"} \cup Locked]]
           /\ lock' \in [Buys -> Polls \cup {None}]
           /\ poll'[p] = Buy!Idle
           /\ \A q \in Polls \ {p} : poll'[q] = poll[q]
           /\ \A q \in Polls \ {p} : poll[q].at \in Locked =>
                 Buy!Of(q) # Buy!Of(p) /\ lock'[Buy!Of(q)] = q
  BY DEF NoneIsNoPoll, BuyInv, Shape, PollOK, Buy!Leave, Buy!Idle, Buy!Of, Locked

\* The steps of a poll up to the mint's answer.
LEMMA PollKeeps ==
    ASSUME NoneIsNoPoll, BuyInv, NEW p \in Polls,
           Buy!Lock(p) \/ Buy!CheckQuote(p) \/ Buy!Mint(p) \/ Buy!MintRefused(p) \/ Buy!Answer(p)
    PROVE  BuyInv'
<1>1. CASE Buy!Lock(p)
  BY <1>1 DEF Buy!Lock, Buy!AfterLock, NoneIsNoPoll, BuyInv, Shape, PollOK, BuyOK, Buy!At,
     Buy!Of, Locked
<1>2. CASE Buy!CheckQuote(p)
  <2>1. CASE Buy!Leave(p)
    BY <1>2, <2>1, LeaveKeeps
       DEF Buy!CheckQuote, BuyInv, Shape, PollOK, BuyOK, Buy!At, Buy!Of, Locked, Buy!Idle
  <2>2. CASE ~Buy!Leave(p)
    BY <1>2, <2>2 DEF Buy!CheckQuote, BuyInv, Shape, PollOK, BuyOK, Buy!At, Buy!Of, Locked
  <2> QED
    BY <2>1, <2>2
<1>3. CASE Buy!Mint(p)
  BY <1>3 DEF Buy!Mint, BuyInv, Shape, PollOK, BuyOK, Buy!At, Buy!Of, Locked
<1>4. CASE Buy!MintRefused(p)
  BY <1>4, LeaveKeeps DEF Buy!MintRefused, BuyInv, Shape, PollOK, BuyOK, Buy!At, Buy!Of,
     Locked, Buy!Idle
<1>5. CASE Buy!Answer(p)
  BY <1>5, LeaveKeeps DEF Buy!Answer, BuyInv, Shape, PollOK, BuyOK, Buy!At, Buy!Of, Locked, Buy!Idle
<1> QED
  BY <1>1, <1>2, <1>3, <1>4, <1>5

\* A fault is seen in hit where it takes a token or an entry away.
LEMMA FaultKeeps ==
    ASSUME NoneIsNoPoll, BuyInv, (\E p \in Polls : Buy!MintedInVain(p) \/ Buy!Abandon(p)) \/ Buy!Kill
    PROVE  BuyInv'
<1>1. ASSUME NEW p \in Polls, Buy!MintedInVain(p)
      PROVE  BuyInv'
  BY <1>1, LeaveKeeps DEF Buy!MintedInVain, BuyInv, Shape, PollOK, BuyOK, Buy!At, Buy!Of,
     Locked, Buy!Idle
<1>2. ASSUME NEW p \in Polls, Buy!Abandon(p)
      PROVE  BuyInv'
  BY <1>2, LeaveKeeps DEF Buy!Abandon, BuyInv, Shape, PollOK, BuyOK, Buy!At, Buy!Of,
     Locked, Buy!Idle
<1>3. CASE Buy!Kill
  BY <1>3 DEF Buy!Kill, BuyInv, Shape, PollOK, BuyOK, Buy!At, Buy!Of, Locked, Buy!Idle
<1> QED
  BY <1>1, <1>2, <1>3

\* A buyer who paid gets the token, and the mint is asked for it once.
THEOREM PaidBuysAreIssuedHolds ==
    ASSUME NoneIsNoPoll
    PROVE  Buy!Spec => []Buy!PaidBuysAreIssued
<1>1. BuyInv /\ [Buy!Next]_(Buy!vars) => BuyInv'
  <2> SUFFICES ASSUME BuyInv, [Buy!Next]_(Buy!vars)
               PROVE  BuyInv'
    OBVIOUS
  <2>1. CASE UNCHANGED Buy!vars
    BY <2>1 DEF Buy!vars, BuyInv, Shape, PollOK, BuyOK, Buy!At, Buy!Of, Locked
  <2> QED
    BY <2>1, BuyerKeeps, PollKeeps, FaultKeeps DEF Buy!Next
<1>2. BuyInv => Buy!PaidBuysAreIssued
  BY DEF BuyInv, PollOK, BuyOK, Buy!PaidBuysAreIssued, Buy!PaidIsWithinReach, Buy!TokenIsMintedOnce
<1> QED
  BY InitBuys, <1>1, <1>2, PTL DEF Buy!Spec

-----------------------------------------------------------------------------
\* Redeems at the checkout.

\* A token has finitely many proofs, each worth something.
TokensAreFinite ==
    /\ IsFiniteSet(TokenProofs) /\ IsFiniteSet(Requests)
    /\ \A p \in TokenProofs : ProofThh[p] \in Nat \ {0}

\* The mint has a state for each proof, a request has sums.
RedeemShape ==
    /\ proof \in [TokenProofs -> {"unspent", "pending", "spent"}]
    /\ DOMAIN at = Requests
    /\ picked \in [Requests -> SUBSET TokenProofs]
    /\ quoted \in [Requests -> Nat] /\ wallet \in [Requests -> Nat]
    /\ melting \in [Requests -> Nat] /\ opened \in [Requests -> Nat]
    /\ returned \in [Requests -> Nat]
    /\ holder \in Nat /\ lost \in Nat /\ redeemCut \subseteq Requests

\* What a request has, by how far it is.  It takes over what it was quoted, and
\* what it melts is in its wallet no more.
RequestOK(r) ==
    /\ at[r] \in {"idle", "inspecting", "quoting", "receiving"} =>
          wallet[r] = 0 /\ melting[r] = 0 /\ opened[r] = 0 /\ returned[r] = 0
    /\ at[r] = "receiving" => quoted[r] = SumOver(ProofThh, picked[r])
    /\ at[r] = "melting" =>
          wallet[r] = quoted[r] /\ melting[r] = 0 /\ opened[r] = 0 /\ returned[r] = 0
    /\ at[r] = "confirming" =>
          wallet[r] = 0 /\ melting[r] + opened[r] = quoted[r] /\ returned[r] = 0
    /\ at[r] = "refunding" =>
          /\ returned[r] = 0
          /\ \/ wallet[r] = quoted[r] /\ melting[r] + opened[r] = 0
             \/ wallet[r] = 0 /\ melting[r] + opened[r] = quoted[r]
    /\ at[r] = "done" => wallet[r] = 0
    /\ at[r] = "done" /\ r \notin redeemCut =>
          /\ melting[r] + opened[r] \in {0, quoted[r]}
          /\ returned[r] > 0 => melting[r] + opened[r] = 0
    /\ melting[r] > 0 => opened[r] = 0
    /\ r \in redeemCut => at[r] = "done"

\* Where the THH of the token are.
InTheMint == SumOver(ProofThh, {p \in TokenProofs : proof[p] # "spent"})
InRequests == SumOver(wallet, Requests) + SumOver(melting, Requests)
                + SumOver(opened, Requests) + SumOver(returned, Requests)

RedeemInv ==
    /\ RedeemShape
    /\ \A r \in Requests : RequestOK(r)
    /\ InTheMint + holder + InRequests + lost = SumOver(ProofThh, TokenProofs)

\* The sums of CheckoutRedeem are sums.
LEMMA RedeemSums ==
    /\ \A S : Redeem!Worth(S) = SumOver(ProofThh, S)
    /\ \A f : Redeem!All(f) = SumOver(f, Requests)
  BY DEF Redeem!Worth, Redeem!All, SumOver, MapThenSumSet, MapThenFoldSet,
     Redeem!MapThenSumSet, Redeem!MapThenFoldSet

\* They are numbers.
LEMMA RedeemNumbers ==
    ASSUME TokensAreFinite, RedeemShape
    PROVE  /\ \A S \in SUBSET TokenProofs : SumOver(ProofThh, S) \in Nat /\ IsFiniteSet(S)
           /\ InTheMint \in Nat
           /\ SumOver(wallet, Requests) \in Nat /\ SumOver(melting, Requests) \in Nat
           /\ SumOver(opened, Requests) \in Nat /\ SumOver(returned, Requests) \in Nat
<1>1. ASSUME NEW S \in SUBSET TokenProofs
      PROVE  SumOver(ProofThh, S) \in Nat /\ IsFiniteSet(S)
  BY SumType, FS_Subset DEF TokensAreFinite
<1>2. ASSUME NEW f \in [Requests -> Nat] PROVE SumOver(f, Requests) \in Nat
  BY SumType DEF TokensAreFinite
<1> QED BY <1>1, <1>2 DEF RedeemShape, InTheMint

LEMMA InitRedeems == ASSUME TokensAreFinite, Redeem!Init PROVE RedeemInv
<1>1. RedeemShape
  BY DEF Redeem!Init, RedeemShape
<1>2. ASSUME NEW r \in Requests PROVE RequestOK(r)
  BY DEF Redeem!Init, RequestOK
<1>3. {p \in TokenProofs : proof[p] # "spent"} = TokenProofs
  BY DEF Redeem!Init
<1>4. ASSUME NEW f, f = [r \in Requests |-> 0] PROVE SumOver(f, Requests) = 0
  BY <1>4, SumZeros DEF TokensAreFinite
<1>5. InRequests = 0 /\ holder = 0 /\ lost = 0
  BY <1>4 DEF Redeem!Init, InRequests
<1>6. InTheMint = SumOver(ProofThh, TokenProofs) /\ InTheMint \in Nat
  BY <1>1, <1>3, RedeemNumbers DEF InTheMint
<1> QED BY <1>1, <1>2, <1>5, <1>6 DEF RedeemInv

\* Proofs that become spent, no other changing, take their worth out of the mint.
LEMMA MintPays ==
    ASSUME TokensAreFinite, RedeemShape, NEW S \in SUBSET TokenProofs,
           \A p \in S : proof[p] # "spent",
           proof' = [p \in TokenProofs |-> IF p \in S THEN "spent" ELSE proof[p]]
    PROVE  InTheMint = InTheMint' + SumOver(ProofThh, S)
<1> DEFINE Old == {p \in TokenProofs : proof[p] # "spent"}
           New == {p \in TokenProofs : proof'[p] # "spent"}
<1>1. New = Old \ S /\ S \subseteq Old /\ IsFiniteSet(Old)
  <2>1. IsFiniteSet(Old)
    BY FS_Subset DEF TokensAreFinite
  <2>2. \A p \in TokenProofs : p \in New <=> p \in Old /\ p \notin S
    OBVIOUS
  <2> QED BY <2>1, <2>2
<1>2. InTheMint = SumOver(ProofThh, Old) /\ InTheMint' = SumOver(ProofThh, New)
  BY DEF InTheMint
<1>3. \A p \in Old : ProofThh[p] \in Nat
  BY DEF TokensAreFinite
<1> HIDE DEF Old, New
<1>4. S \in SUBSET Old /\ IsFiniteSet(Old)
  BY <1>1
<1>5. SumOver(ProofThh, Old) = SumOver(ProofThh, S) + SumOver(ProofThh, Old \ S)
  BY <1>3, <1>4, SumPart
<1>6. SumOver(ProofThh, S) \in Nat /\ SumOver(ProofThh, Old \ S) \in Nat
  BY <1>3, <1>4, SumPart
<1>7. New = Old \ S
  BY <1>1
<1>8. InTheMint' = SumOver(ProofThh, Old \ S)
  BY <1>2, <1>7
<1> QED BY <1>2, <1>5, <1>6, <1>8

\* Proofs that become pending, or unspent again, are the mint's as before.
LEMMA MintKeeps ==
    ASSUME RedeemShape, proof' \in [TokenProofs -> {"unspent", "pending", "spent"}],
           \A p \in TokenProofs : proof[p] = "spent" <=> proof'[p] = "spent"
    PROVE  InTheMint' = InTheMint
<1>1. {p \in TokenProofs : proof'[p] # "spent"} = {p \in TokenProofs : proof[p] # "spent"}
  OBVIOUS
<1> QED BY <1>1 DEF InTheMint

\* Requests are as they were.
LEMMA RequestsKeep ==
    ASSUME RedeemInv, UNCHANGED <<Redeem!request, Redeem!money, redeemCut>>
    PROVE  /\ \A r \in Requests : RequestOK(r)'
           /\ InRequests' = InRequests /\ lost' = lost
  BY DEF RedeemInv, RequestOK, InRequests, Redeem!request, Redeem!money

\* What the buyer's own wallet does.
LEMMA ClaimKeeps ==
    ASSUME TokensAreFinite, RedeemInv,
           \/ \E S \in SUBSET TokenProofs : Redeem!Claim(S)
           \/ \E p \in TokenProofs : Redeem!EndClaim(p)
    PROVE  RedeemInv'
<1>1. UNCHANGED <<Redeem!request, Redeem!money, redeemCut>>
  BY DEF Redeem!Claim, Redeem!EndClaim
<1>2. RedeemShape /\ holder \in Nat
  BY DEF RedeemInv, RedeemShape
<1>3. ASSUME NEW S \in SUBSET TokenProofs, Redeem!Claim(S)
      PROVE  /\ InTheMint' + holder' = InTheMint + holder
             /\ RedeemShape'
  <2>1. \A p \in S : proof[p] = "unspent"
    BY <1>3 DEF Redeem!Claim, Redeem!Unspent
  <2>2. CASE /\ proof' = [p \in TokenProofs |-> IF p \in S THEN "spent" ELSE proof[p]]
             /\ holder' = holder + SumOver(ProofThh, S)
    <3>1. InTheMint = InTheMint' + SumOver(ProofThh, S)
      BY <1>2, <2>1, <2>2, MintPays
    <3>2. SumOver(ProofThh, S) \in Nat
      BY <1>2, RedeemNumbers
    <3>3. RedeemShape'
      BY <1>1, <1>2, <2>2, <3>2 DEF RedeemShape, Redeem!request, Redeem!money
    <3>4. InTheMint' \in Nat
      <4>1. \A T \in SUBSET TokenProofs : SumOver(ProofThh, T) \in Nat
        BY <1>2, RedeemNumbers
      <4> QED BY <4>1 DEF InTheMint
    <3> QED BY <1>2, <2>2, <3>1, <3>2, <3>3, <3>4
  <2>3. CASE /\ proof' = [p \in TokenProofs |-> IF p \in S THEN "pending" ELSE proof[p]]
             /\ UNCHANGED holder
    <3>1. RedeemShape'
      BY <1>1, <1>2, <2>3 DEF RedeemShape, Redeem!request, Redeem!money
    <3>2. InTheMint' = InTheMint
      BY <1>2, <2>1, <2>3, MintKeeps DEF RedeemShape
    <3> QED BY <2>3, <3>1, <3>2
  <2> QED BY <1>3, <2>2, <2>3, RedeemSums DEF Redeem!Claim
<1>4. ASSUME NEW p \in TokenProofs, Redeem!EndClaim(p)
      PROVE  /\ InTheMint' + holder' = InTheMint + holder
             /\ RedeemShape'
  <2>1. proof[p] = "pending"
    BY <1>4 DEF Redeem!EndClaim
  <2>2. CASE proof' = [proof EXCEPT ![p] = "spent"] /\ holder' = holder + ProofThh[p]
    <3>1. proof' = [x \in TokenProofs |-> IF x \in {p} THEN "spent" ELSE proof[x]]
      BY <1>2, <2>2 DEF RedeemShape
    <3>2. InTheMint = InTheMint' + SumOver(ProofThh, {p})
      BY <1>2, <2>1, <3>1, MintPays
    <3>3. SumOver(ProofThh, {p}) = ProofThh[p] /\ ProofThh[p] \in Nat
      <4>1. ProofThh[p] \in Nat /\ IsFiniteSet({p}) /\ {p} \ {p} = {}
        BY FS_Singleton DEF TokensAreFinite
      <4>2. SumOver(ProofThh, {p}) = ProofThh[p] + SumOver(ProofThh, {p} \ {p})
        BY <4>1, SumRemove
      <4> QED BY <4>1, <4>2, SumNone
    <3>4. InTheMint' \in Nat
      <4>1. \A T \in SUBSET TokenProofs : SumOver(ProofThh, T) \in Nat
        BY <1>2, RedeemNumbers
      <4> QED BY <4>1 DEF InTheMint
    <3>5. RedeemShape'
      BY <1>1, <1>2, <2>2, <3>3 DEF RedeemShape, Redeem!request, Redeem!money
    <3> QED BY <1>2, <2>2, <3>2, <3>3, <3>4, <3>5
  <2>3. CASE proof' = [proof EXCEPT ![p] = "unspent"] /\ UNCHANGED holder
    <3>1. RedeemShape'
      BY <1>1, <1>2, <2>3 DEF RedeemShape, Redeem!request, Redeem!money
    <3>2. InTheMint' = InTheMint
      BY <1>2, <2>1, <2>3, MintKeeps DEF RedeemShape
    <3> QED BY <2>3, <3>1, <3>2
  <2> QED BY <1>4, <2>2, <2>3 DEF Redeem!EndClaim
<1>5. InTheMint' + holder' = InTheMint + holder /\ RedeemShape'
  BY <1>3, <1>4
<1>6. InRequests' = InRequests /\ lost' = lost /\ \A r \in Requests : RequestOK(r)'
  BY <1>1, RequestsKeep
<1> QED BY <1>5, <1>6 DEF RedeemInv

\* What one request has.
Row(r) == wallet[r] + melting[r] + opened[r] + returned[r]

\* When one request moves THH, the requests' sum changes as its own.
LEMMA RowMoves ==
    ASSUME TokensAreFinite, RedeemShape, RedeemShape', NEW r \in Requests,
           \A q \in Requests \ {r} :
              /\ wallet'[q] = wallet[q] /\ melting'[q] = melting[q]
              /\ opened'[q] = opened[q] /\ returned'[q] = returned[q]
    PROVE  InRequests' + Row(r) = InRequests + Row(r)'
<1>1. ASSUME NEW f \in [Requests -> Nat], NEW g \in [Requests -> Nat],
             \A q \in Requests \ {r} : f[q] = g[q]
      PROVE  /\ SumOver(g, Requests) + f[r] = SumOver(f, Requests) + g[r]
             /\ SumOver(g, Requests) \in Nat /\ SumOver(f, Requests) \in Nat
             /\ f[r] \in Nat /\ g[r] \in Nat
  <2>1. SumOver(g, Requests) + f[r] = SumOver(f, Requests) + g[r]
    BY <1>1, SumOneChanges DEF TokensAreFinite
  <2>2. SumOver(g, Requests) \in Nat /\ SumOver(f, Requests) \in Nat
    BY SumType DEF TokensAreFinite
  <2> QED BY <2>1, <2>2
<1>2. /\ SumOver(wallet', Requests) + wallet[r] = SumOver(wallet, Requests) + wallet'[r]
      /\ SumOver(wallet', Requests) \in Nat /\ SumOver(wallet, Requests) \in Nat
      /\ wallet[r] \in Nat /\ wallet'[r] \in Nat
  BY <1>1 DEF RedeemShape
<1>3. /\ SumOver(melting', Requests) + melting[r] = SumOver(melting, Requests) + melting'[r]
      /\ SumOver(melting', Requests) \in Nat /\ SumOver(melting, Requests) \in Nat
      /\ melting[r] \in Nat /\ melting'[r] \in Nat
  BY <1>1 DEF RedeemShape
<1>4. /\ SumOver(opened', Requests) + opened[r] = SumOver(opened, Requests) + opened'[r]
      /\ SumOver(opened', Requests) \in Nat /\ SumOver(opened, Requests) \in Nat
      /\ opened[r] \in Nat /\ opened'[r] \in Nat
  BY <1>1 DEF RedeemShape
<1>5. /\ SumOver(returned', Requests) + returned[r] = SumOver(returned, Requests) + returned'[r]
      /\ SumOver(returned', Requests) \in Nat /\ SumOver(returned, Requests) \in Nat
      /\ returned[r] \in Nat /\ returned'[r] \in Nat
  BY <1>1 DEF RedeemShape
<1>6. PICK W \in Nat, M \in Nat, O \in Nat, R \in Nat :
         /\ W = SumOver(wallet, Requests) /\ M = SumOver(melting, Requests)
         /\ O = SumOver(opened, Requests) /\ R = SumOver(returned, Requests)
  BY <1>2, <1>3, <1>4, <1>5, Zenon
<1>7. PICK V \in Nat, L \in Nat, N \in Nat, Q \in Nat :
         /\ V = SumOver(wallet', Requests) /\ L = SumOver(melting', Requests)
         /\ N = SumOver(opened', Requests) /\ Q = SumOver(returned', Requests)
  BY <1>2, <1>3, <1>4, <1>5, Zenon
<1>8. PICK v \in Nat, l \in Nat, n \in Nat, q \in Nat :
         v = wallet'[r] /\ l = melting'[r] /\ n = opened'[r] /\ q = returned'[r]
  BY <1>2, <1>3, <1>4, <1>5, Zenon
<1>9. /\ V + wallet[r] = W + v /\ L + melting[r] = M + l
      /\ N + opened[r] = O + n /\ Q + returned[r] = R + q
  BY <1>2, <1>3, <1>4, <1>5, <1>6, <1>7, <1>8, Zenon
<1>10. (V + L + N + Q) + (wallet[r] + melting[r] + opened[r] + returned[r])
       = (W + M + O + R) + (v + l + n + q)
  <2>1. wallet[r] \in Nat /\ melting[r] \in Nat /\ opened[r] \in Nat /\ returned[r] \in Nat
    BY <1>2, <1>3, <1>4, <1>5
  <2> QED BY <1>9, <2>1
<1> QED BY <1>6, <1>7, <1>8, <1>10, Zenon DEF InRequests, Row

\* A step of request r: the others keep what they have, and what it and the mint
\* have together stays.
Moves(r) ==
    /\ RedeemShape'
    /\ \A q \in Requests \ {r} :
          /\ wallet'[q] = wallet[q] /\ melting'[q] = melting[q]
          /\ opened'[q] = opened[q] /\ returned'[q] = returned[q]
          /\ at'[q] = at[q] /\ picked'[q] = picked[q] /\ quoted'[q] = quoted[q]
          /\ q \in redeemCut' <=> q \in redeemCut
    /\ RequestOK(r)'
    /\ InTheMint' + holder' + Row(r)' + lost' = InTheMint + holder + Row(r) + lost

\* Such a step is all that is needed.
LEMMA MovesKeep ==
    ASSUME TokensAreFinite, RedeemInv, NEW r \in Requests, Moves(r)
    PROVE  RedeemInv'
<1>1. RedeemShape /\ RedeemShape'
  BY DEF RedeemInv, Moves
<1>2. ASSUME NEW q \in Requests PROVE RequestOK(q)'
  <2>1. CASE q = r
    BY <2>1 DEF Moves
  <2>2. CASE q # r
    <3>1. RequestOK(q)
      BY DEF RedeemInv
    <3> QED BY <2>2, <3>1 DEF Moves, RequestOK
  <2> QED BY <2>1, <2>2
<1>3. InRequests' + Row(r) = InRequests + Row(r)'
  BY <1>1, RowMoves DEF Moves
<1>4. /\ Row(r) \in Nat /\ Row(r)' \in Nat
      /\ holder \in Nat /\ holder' \in Nat /\ lost \in Nat /\ lost' \in Nat
  BY <1>1 DEF RedeemShape, Row
<1>5. InTheMint \in Nat /\ InRequests \in Nat
  BY <1>1, RedeemNumbers DEF InRequests
<1>6. InTheMint' \in Nat /\ InRequests' \in Nat
  <2>1. \A S \in SUBSET TokenProofs : SumOver(ProofThh, S) \in Nat
    BY <1>1, RedeemNumbers
  <2>2. InTheMint' \in Nat
    BY <2>1 DEF InTheMint
  <2>3. ASSUME NEW f \in [Requests -> Nat] PROVE SumOver(f, Requests) \in Nat
    BY SumType DEF TokensAreFinite
  <2>4. InRequests' \in Nat
    BY <1>1, <2>3 DEF InRequests, RedeemShape
  <2> QED BY <2>2, <2>4
<1>7. InTheMint + holder + InRequests + lost = SumOver(ProofThh, TokenProofs)
  BY DEF RedeemInv
<1>8. InTheMint' + holder' + Row(r)' + lost' = InTheMint + holder + Row(r) + lost
  BY DEF Moves
<1>9. InTheMint' + holder' + InRequests' + lost' = InTheMint + holder + InRequests + lost
  <2>1. PICK m \in Nat, q \in Nat, w \in Nat :
           m = InTheMint /\ q = InRequests /\ w = Row(r)
    BY <1>4, <1>5, Zenon
  <2>2. PICK n \in Nat, p \in Nat, v \in Nat, h \in Nat, l \in Nat :
           /\ n = InTheMint' /\ p = InRequests' /\ v = Row(r)'
           /\ h = holder' /\ l = lost'
    BY <1>4, <1>6, Zenon
  <2>3. p + w = q + v
    BY <1>3, <2>1, <2>2, Zenon
  <2>4. n + h + v + l = m + holder + w + lost
    BY <1>8, <2>1, <2>2, Zenon
  <2>5. holder \in Nat /\ lost \in Nat
    BY <1>4
  <2>6. n + h + p + l = m + holder + q + lost
    BY <2>3, <2>4, <2>5
  <2> QED BY <2>1, <2>2, <2>6, Zenon
<1>10. InTheMint' + holder' + InRequests' + lost' = SumOver(ProofThh, TokenProofs)
  BY <1>7, <1>9
<1> QED BY <1>1, <1>2, <1>10 DEF RedeemInv

\* The steps before anything is taken over.
LEMMA AskingMoves ==
    ASSUME TokensAreFinite, RedeemInv, NEW r \in Requests,
           Redeem!Arrive(r) \/ Redeem!Inspect(r) \/ Redeem!Quote(r)
    PROVE  Moves(r)
<1>1. RedeemShape /\ RequestOK(r)
  BY DEF RedeemInv
<1>2. UNCHANGED <<proof, holder, wallet, melting, opened, returned, lost, redeemCut>>
  BY DEF Redeem!Arrive, Redeem!Inspect, Redeem!Quote, Redeem!token, Redeem!money
<1>3. InTheMint' = InTheMint /\ Row(r)' = Row(r)
  BY <1>2 DEF InTheMint, Row
<1>4. \A S \in SUBSET TokenProofs : SumOver(ProofThh, S) \in Nat
  BY <1>1, RedeemNumbers
<1>5. RedeemShape'
  <2>1. DOMAIN at' = Requests /\ picked' \in [Requests -> SUBSET TokenProofs]
    BY <1>1 DEF RedeemShape, Redeem!Arrive, Redeem!Inspect, Redeem!Quote, Redeem!Go,
       Redeem!Unspent
  <2>2. quoted' \in [Requests -> Nat]
    BY <1>1, <1>4, RedeemSums DEF RedeemShape, Redeem!Arrive, Redeem!Inspect, Redeem!Quote
  <2> QED BY <1>1, <1>2, <2>1, <2>2 DEF RedeemShape
<1>6. RequestOK(r)'
  <2>1. CASE Redeem!Arrive(r)
    BY <1>1, <1>2, <2>1 DEF RequestOK, RedeemShape, Redeem!Arrive, Redeem!Go
  <2>2. CASE Redeem!Inspect(r)
    BY <1>1, <1>2, <2>2 DEF RequestOK, RedeemShape, Redeem!Inspect, Redeem!Go
  <2>3. CASE Redeem!Quote(r)
    BY <1>1, <1>2, <2>3, RedeemSums DEF RequestOK, RedeemShape, Redeem!Quote, Redeem!Go
  <2> QED BY <2>1, <2>2, <2>3
<1>7. \A q \in Requests \ {r} :
         at'[q] = at[q] /\ picked'[q] = picked[q] /\ quoted'[q] = quoted[q]
  BY <1>1 DEF RedeemShape, Redeem!Arrive, Redeem!Inspect, Redeem!Quote, Redeem!Go
<1> QED BY <1>2, <1>3, <1>5, <1>6, <1>7 DEF Moves

\* The swap: the proofs leave the mint for the throwaway wallet.
LEMMA ReceiveMoves ==
    ASSUME TokensAreFinite, RedeemInv, NEW r \in Requests, Redeem!Receive(r)
    PROVE  Moves(r)
<1>1. RedeemShape /\ RequestOK(r)
  BY DEF RedeemInv
<1>2. UNCHANGED <<holder, picked, quoted, melting, opened, returned, lost, redeemCut>>
  BY DEF Redeem!Receive
<1>3. at[r] = "receiving" /\ wallet[r] = 0 /\ quoted[r] = SumOver(ProofThh, picked[r])
  BY <1>1 DEF RequestOK, Redeem!Receive
<1>4. picked[r] \in SUBSET TokenProofs
  BY <1>1 DEF RedeemShape
<1>5. SumOver(ProofThh, picked[r]) \in Nat
  BY <1>1, <1>4, RedeemNumbers
<1>6. CASE Redeem!Unspent(picked[r]) = picked[r]
  <2>1. /\ proof' = [p \in TokenProofs |-> IF p \in picked[r] THEN "spent" ELSE proof[p]]
        /\ wallet' = [wallet EXCEPT ![r] = SumOver(ProofThh, picked[r])]
        /\ at' = [at EXCEPT ![r] = "melting"]
    BY <1>3, <1>6, RedeemSums DEF Redeem!Receive, Redeem!Go
  <2>2. \A p \in picked[r] : proof[p] # "spent"
    BY <1>6 DEF Redeem!Unspent
  <2>3. InTheMint = InTheMint' + SumOver(ProofThh, picked[r])
    BY <1>1, <1>4, <2>1, <2>2, MintPays
  <2>4. RedeemShape'
    BY <1>1, <1>2, <1>5, <2>1 DEF RedeemShape
  <2>5. RequestOK(r)'
    BY <1>1, <1>2, <1>3, <2>1 DEF RequestOK, RedeemShape
  <2>6. wallet'[r] = SumOver(ProofThh, picked[r])
    BY <1>1, <2>1 DEF RedeemShape
  <2>7. InTheMint' \in Nat
    <3>1. \A S \in SUBSET TokenProofs : SumOver(ProofThh, S) \in Nat
      BY <1>1, RedeemNumbers
    <3> QED BY <3>1 DEF InTheMint
  <2>8. InTheMint' + holder' + Row(r)' + lost' = InTheMint + holder + Row(r) + lost
    <3>1. /\ melting[r] \in Nat /\ opened[r] \in Nat /\ returned[r] \in Nat
          /\ holder \in Nat /\ lost \in Nat
      BY <1>1 DEF RedeemShape
    <3> QED BY <1>2, <1>3, <1>5, <2>3, <2>6, <2>7, <3>1 DEF Row
  <2>9. \A q \in Requests \ {r} : at'[q] = at[q] /\ wallet'[q] = wallet[q]
    BY <1>1, <2>1 DEF RedeemShape
  <2> QED BY <1>2, <2>4, <2>5, <2>8, <2>9 DEF Moves
<1>7. CASE Redeem!Unspent(picked[r]) # picked[r]
  <2>1. at' = [at EXCEPT ![r] = "done"] /\ UNCHANGED <<proof, wallet>>
    BY <1>7 DEF Redeem!Receive, Redeem!Go
  <2>2. RedeemShape'
    BY <1>1, <1>2, <2>1 DEF RedeemShape
  <2>3. RequestOK(r)'
    BY <1>1, <1>2, <1>3, <2>1 DEF RequestOK, RedeemShape
  <2>4. InTheMint' = InTheMint /\ Row(r)' = Row(r)
    BY <1>2, <2>1 DEF InTheMint, Row
  <2>5. \A q \in Requests \ {r} : at'[q] = at[q]
    BY <1>1, <2>1 DEF RedeemShape
  <2> QED BY <1>2, <2>1, <2>2, <2>3, <2>4, <2>5 DEF Moves
<1> QED BY <1>6, <1>7

\* The steps that move THH from the wallet to the melt, to the redemption, back to
\* the buyer, or away.
LEMMA RestMoves ==
    ASSUME TokensAreFinite, RedeemInv, NEW r \in Requests,
           \/ Redeem!Melt(r) \/ Redeem!MeltRefused(r) \/ Redeem!Redeem(r)
           \/ Redeem!Answer(r) \/ Redeem!AnswerLost(r) \/ Redeem!Refund(r)
           \/ Redeem!Cut(r)
    PROVE  Moves(r)
<1>1. RedeemShape /\ RequestOK(r)
  BY DEF RedeemInv
<1>2. UNCHANGED <<proof, holder, picked, quoted>>
  BY DEF Redeem!Melt, Redeem!MeltRefused, Redeem!Redeem, Redeem!Answer, Redeem!AnswerLost,
     Redeem!Refund, Redeem!Cut, Redeem!token, Redeem!request
<1>3. InTheMint' = InTheMint
  BY <1>2 DEF InTheMint
<1>4. /\ wallet[r] \in Nat /\ melting[r] \in Nat /\ opened[r] \in Nat
      /\ returned[r] \in Nat /\ quoted[r] \in Nat /\ holder \in Nat /\ lost \in Nat
  BY <1>1 DEF RedeemShape
<1>5. SUFFICES
        /\ RedeemShape'
        /\ \A q \in Requests \ {r} :
              /\ wallet'[q] = wallet[q] /\ melting'[q] = melting[q]
              /\ opened'[q] = opened[q] /\ returned'[q] = returned[q]
              /\ at'[q] = at[q] /\ (q \in redeemCut' <=> q \in redeemCut)
        /\ RequestOK(r)'
        /\ Row(r)' + lost' = Row(r) + lost
  <2>1. ASSUME RedeemShape', Row(r)' + lost' = Row(r) + lost
        PROVE  InTheMint' + holder' + Row(r)' + lost' = InTheMint + holder + Row(r) + lost
    <3>1. Row(r) \in Nat /\ Row(r)' \in Nat /\ lost' \in Nat
      BY <1>1, <2>1 DEF Row, RedeemShape
    <3>2. InTheMint \in Nat
      BY <1>1, RedeemNumbers
    <3> QED BY <1>2, <1>3, <1>4, <2>1, <3>1, <3>2
  <2> QED BY <1>2, <2>1 DEF Moves
<1>6. CASE Redeem!Melt(r)
  <2>1. /\ at[r] = "melting" /\ wallet[r] = quoted[r] /\ melting[r] = 0
        /\ wallet' = [wallet EXCEPT ![r] = 0]
        /\ melting' = [melting EXCEPT ![r] = quoted[r]]
        /\ at' = [at EXCEPT ![r] = "confirming"]
        /\ UNCHANGED <<opened, returned, lost, redeemCut>>
    BY <1>1, <1>6 DEF Redeem!Melt, Redeem!Go, RequestOK
  <2>2. RedeemShape'
    BY <1>1, <1>2, <1>4, <2>1 DEF RedeemShape
  <2>3. RequestOK(r)'
    BY <1>1, <1>2, <1>4, <2>1 DEF RequestOK, RedeemShape
  <2>4. Row(r)' + lost' = Row(r) + lost
    BY <1>1, <1>4, <2>1 DEF Row, RedeemShape
  <2> QED BY <1>1, <2>1, <2>2, <2>3, <2>4 DEF RedeemShape
<1>7. CASE Redeem!MeltRefused(r) \/ Redeem!Answer(r) \/ Redeem!AnswerLost(r)
  <2>1. /\ \/ at[r] = "melting" /\ at' = [at EXCEPT ![r] = "refunding"]
           \/ at[r] = "confirming" /\ at' = [at EXCEPT ![r] = "done"]
           \/ at[r] = "confirming" /\ at' = [at EXCEPT ![r] = "refunding"]
        /\ UNCHANGED <<wallet, melting, opened, returned, lost, redeemCut>>
    BY <1>7 DEF Redeem!MeltRefused, Redeem!Answer, Redeem!AnswerLost, Redeem!Go,
       Redeem!AfterRefusal, Redeem!money
  <2>2. RedeemShape'
    BY <1>1, <1>2, <2>1 DEF RedeemShape
  <2>3. RequestOK(r)'
    BY <1>1, <1>2, <1>4, <2>1 DEF RequestOK, RedeemShape
  <2>4. Row(r)' + lost' = Row(r) + lost
    BY <2>1 DEF Row
  <2> QED BY <1>1, <2>1, <2>2, <2>3, <2>4 DEF RedeemShape
<1>8. CASE Redeem!Redeem(r)
  <2>1. /\ melting[r] > 0 /\ opened[r] = 0
        /\ opened' = [opened EXCEPT ![r] = melting[r]]
        /\ melting' = [melting EXCEPT ![r] = 0]
        /\ UNCHANGED <<at, wallet, returned, lost, redeemCut>>
    BY <1>1, <1>8 DEF Redeem!Redeem, Redeem!request, RequestOK
  <2>2. RedeemShape'
    BY <1>1, <1>2, <1>4, <2>1 DEF RedeemShape
  <2>3. RequestOK(r)'
    BY <1>1, <1>2, <1>4, <2>1 DEF RequestOK, RedeemShape
  <2>4. Row(r)' + lost' = Row(r) + lost
    BY <1>1, <1>4, <2>1 DEF Row, RedeemShape
  <2> QED BY <1>1, <2>1, <2>2, <2>3, <2>4 DEF RedeemShape
<1>9. CASE Redeem!Refund(r)
  <2>1. /\ at[r] = "refunding" /\ returned[r] = 0
        /\ returned' = [returned EXCEPT ![r] = wallet[r]]
        /\ wallet' = [wallet EXCEPT ![r] = 0]
        /\ at' = [at EXCEPT ![r] = "done"]
        /\ UNCHANGED <<melting, opened, lost, redeemCut>>
    BY <1>1, <1>9 DEF Redeem!Refund, Redeem!Go, Redeem!Spendable, RequestOK
  <2>2. RedeemShape'
    BY <1>1, <1>2, <1>4, <2>1 DEF RedeemShape
  <2>3. RequestOK(r)'
    BY <1>1, <1>2, <1>4, <2>1 DEF RequestOK, RedeemShape
  <2>4. Row(r)' + lost' = Row(r) + lost
    BY <1>1, <1>4, <2>1 DEF Row, RedeemShape
  <2> QED BY <1>1, <2>1, <2>2, <2>3, <2>4 DEF RedeemShape
<1>10. CASE Redeem!Cut(r)
  <2>1. /\ lost' = lost + wallet[r]
        /\ redeemCut' = redeemCut \cup {r}
        /\ wallet' = [wallet EXCEPT ![r] = 0]
        /\ at' = [at EXCEPT ![r] = "done"]
        /\ UNCHANGED <<melting, opened, returned>>
    BY <1>10 DEF Redeem!Cut, Redeem!Go
  <2>2. RedeemShape'
    BY <1>1, <1>2, <1>4, <2>1 DEF RedeemShape
  <2>3. RequestOK(r)'
    BY <1>1, <1>2, <1>4, <2>1 DEF RequestOK, RedeemShape
  <2>4. Row(r)' + lost' = Row(r) + lost
    BY <1>1, <1>4, <2>1 DEF Row, RedeemShape
  <2> QED BY <1>1, <2>1, <2>2, <2>3, <2>4 DEF RedeemShape
<1> QED BY <1>6, <1>7, <1>8, <1>9, <1>10

\* Every step keeps the account.
LEMMA StepRedeems ==
    TokensAreFinite /\ RedeemInv /\ [Redeem!Next]_(Redeem!vars) => RedeemInv'
<1> SUFFICES ASSUME TokensAreFinite, RedeemInv, [Redeem!Next]_(Redeem!vars)
             PROVE  RedeemInv'
  OBVIOUS
<1>1. CASE \/ \E S \in SUBSET TokenProofs : Redeem!Claim(S)
           \/ \E p \in TokenProofs : Redeem!EndClaim(p)
  BY <1>1, ClaimKeeps
<1>2. ASSUME NEW r \in Requests,
             \/ Redeem!Arrive(r) \/ Redeem!Inspect(r) \/ Redeem!Quote(r) \/ Redeem!Receive(r)
             \/ Redeem!Melt(r) \/ Redeem!MeltRefused(r) \/ Redeem!Redeem(r)
             \/ Redeem!Answer(r) \/ Redeem!AnswerLost(r) \/ Redeem!Refund(r)
             \/ Redeem!Cut(r)
      PROVE  RedeemInv'
  BY <1>2, AskingMoves, ReceiveMoves, RestMoves, MovesKeep
<1>3. CASE UNCHANGED Redeem!vars
  BY <1>3 DEF RedeemInv, RedeemShape, RequestOK, InTheMint, InRequests, Redeem!vars,
     Redeem!token, Redeem!request, Redeem!money
<1> QED BY <1>1, <1>2, <1>3 DEF Redeem!Next

LEMMA RedeemInvSays == ASSUME TokensAreFinite, RedeemInv PROVE Redeem!NoThhIsLost
<1>1. Redeem!NothingStranded
  BY DEF RedeemInv, RequestOK, Redeem!NothingStranded
<1>2. Redeem!EveryThhInOnePlace
  <2>1. InTheMint + holder + InRequests + lost = SumOver(ProofThh, TokenProofs)
    BY DEF RedeemInv
  <2>2. /\ InTheMint \in Nat /\ holder \in Nat /\ lost \in Nat
        /\ SumOver(wallet, Requests) \in Nat /\ SumOver(melting, Requests) \in Nat
        /\ SumOver(opened, Requests) \in Nat /\ SumOver(returned, Requests) \in Nat
    BY RedeemNumbers DEF RedeemInv, RedeemShape
  <2>3. InTheMint + holder + SumOver(wallet, Requests) + SumOver(melting, Requests)
          + SumOver(opened, Requests) + SumOver(returned, Requests) + lost
          = SumOver(ProofThh, TokenProofs)
    BY <2>1, <2>2 DEF InRequests
  <2> QED BY <2>3, RedeemSums DEF InTheMint, Redeem!EveryThhInOnePlace
<1> QED BY <1>1, <1>2 DEF Redeem!NoThhIsLost

\* A redeem neither makes nor loses THH: every THH of the token is in one place,
\* and a request that is not cut off redeems or hands back what it took.
THEOREM NoThhIsLostHolds ==
    ASSUME TokensAreFinite
    PROVE  Redeem!Spec => []Redeem!NoThhIsLost
<1>1. Redeem!Init => RedeemInv
  BY InitRedeems
<1>2. RedeemInv /\ [Redeem!Next]_(Redeem!vars) => RedeemInv'
  BY StepRedeems
<1>3. RedeemInv => Redeem!NoThhIsLost
  BY RedeemInvSays
<1> QED BY <1>1, <1>2, <1>3, PTL DEF Redeem!Spec

-----------------------------------------------------------------------------
\* Sales over Lightning.

\* A quote sells some THH for some sats.
SalesAreSales ==
    /\ \A q \in Quotes : Thh[q] \in Nat \ {0} /\ Price[q] \in Nat \ {0}
    /\ Fees \subseteq Nat

\* Some element of s is about q.
Has(s, q) == \E i \in 1..Len(s) : s[i].quote = q

Settlements == [quote : Quotes, sats : Nat]
Passes == [on : BOOLEAN, todo : SUBSET Quotes, found : Seq(Settlements)]

\* Payments on their way, of quotes that were paid and at their full price.
Settles(s) == s \in Seq(Settlements) /\ \A i \in 1..Len(s) : s[i] = Issuer!Settled(s[i].quote)

SalesTyped ==
    /\ salesAsked \in [Quotes -> {"no", "invoiced", "quoted", "failed"}]
    /\ paid \in SUBSET Quotes
    /\ age \in [Quotes -> {"live", "late", "old"}]
    /\ open \in SUBSET Quotes /\ book \in SUBSET Quotes
    /\ pass \in [Issuer!Tasks -> Passes]
    /\ frames \in Seq(Settlements)
    /\ Settles(tx) /\ \A t \in Issuer!Tasks : Settles(pass[t].found)

\* A pass that is not on has nothing to ask and has found nothing.
PassesOK ==
    \A t \in Issuer!Tasks : ~pass[t].on => pass[t].todo = {} /\ pass[t].found = <<>>

\* Where the invoice of a quote may be on its way to cdk.
Found(q) == \E t \in Issuer!Tasks : Has(pass[t].found, q)
OnItsWay(q) == Found(q) \/ Has(tx, q)
Wanted(q) == q \in open \/ (\E t \in Issuer!Tasks : q \in pass[t].todo)

\* The issuer knows every quote the rail still has to do with.
Known(q) == salesAsked[q] = "quoted" /\ age[q] # "old" => q \in book

SaleOK(q) ==
    /\ salesAsked[q] = "invoiced" => q \in open
    /\ salesAsked[q] # "quoted" => age[q] = "live" /\ q \notin paid /\ q \notin book
    /\ q \in open => age[q] # "old"
    /\ Wanted(q) \/ OnItsWay(q) => Known(q)
    /\ OnItsWay(q) \/ Has(frames, q) => q \in paid

\* What the issuer has booked can still be found while it is not recorded.
NotLost(q) ==
    q \in book /\ age[q] = "live" =>
        \/ q \in open
        \/ q \in paid /\ (OnItsWay(q) \/ \E r \in credited : r.quote = q)

\* Every credit is one of a paid quote, of its THH.
CreditsOK == credited \subseteq {[quote |-> q, thh |-> Thh[q]] : q \in paid}

SalesInv ==
    /\ SalesTyped /\ PassesOK /\ CreditsOK
    /\ \A q \in Quotes : SaleOK(q) /\ NotLost(q)

-----------------------------------------------------------------------------
\* An element more, one less, two sequences one behind the other.
LEMMA HasAppend ==
    ASSUME NEW s \in Seq(Settlements), NEW e \in Settlements, NEW q
    PROVE  Has(Append(s, e), q) <=> Has(s, q) \/ e.quote = q
  BY DEF Has

LEMMA HasTail ==
    ASSUME NEW s \in Seq(Settlements), s # <<>>, NEW q
    PROVE  Has(s, q) <=> Has(Tail(s), q) \/ Head(s).quote = q
<1>1. ASSUME NEW i \in 1..Len(s), s[i].quote = q
      PROVE  Has(Tail(s), q) \/ Head(s).quote = q
  <2>1. CASE i = 1
    BY <1>1, <2>1
  <2>2. CASE i > 1
    <3>1. i - 1 \in 1..Len(Tail(s)) /\ Tail(s)[i - 1] = s[i]
      BY <2>2
    <3> QED
      BY <1>1, <3>1 DEF Has
  <2> QED
    BY <2>1, <2>2
<1>2. ASSUME NEW i \in 1..Len(Tail(s)), Tail(s)[i].quote = q
      PROVE  Has(s, q)
  <2>1. i + 1 \in 1..Len(s) /\ s[i + 1] = Tail(s)[i]
    OBVIOUS
  <2> QED
    BY <1>2, <2>1 DEF Has
<1>3. Head(s).quote = q => Has(s, q)
  <2>1. 1 \in 1..Len(s) /\ s[1] = Head(s)
    OBVIOUS
  <2> QED
    BY <2>1 DEF Has
<1> QED
  BY <1>1, <1>2, <1>3 DEF Has

LEMMA HasConcat ==
    ASSUME NEW s \in Seq(Settlements), NEW u \in Seq(Settlements), NEW q
    PROVE  Has(s \o u, q) <=> Has(s, q) \/ Has(u, q)
<1>1. s \o u \in Seq(Settlements) /\ Len(s \o u) = Len(s) + Len(u)
  OBVIOUS
<1>2. ASSUME NEW i \in 1..Len(s \o u), (s \o u)[i].quote = q
      PROVE  Has(s, q) \/ Has(u, q)
  <2>1. CASE i <= Len(s)
    <3>1. i \in 1..Len(s) /\ (s \o u)[i] = s[i]
      BY <2>1
    <3> QED
      BY <1>2, <3>1 DEF Has
  <2>2. CASE i > Len(s)
    <3>1. i - Len(s) \in 1..Len(u) /\ (s \o u)[i] = u[i - Len(s)]
      BY <1>1, <2>2
    <3> QED
      BY <1>2, <3>1 DEF Has
  <2> QED
    BY <2>1, <2>2
<1>3. ASSUME NEW i \in 1..Len(s), s[i].quote = q
      PROVE  Has(s \o u, q)
  <2>1. i \in 1..Len(s \o u) /\ (s \o u)[i] = s[i]
    OBVIOUS
  <2> QED
    BY <1>3, <2>1 DEF Has
<1>4. ASSUME NEW i \in 1..Len(u), u[i].quote = q
      PROVE  Has(s \o u, q)
  <2>1. i + Len(s) \in 1..Len(s \o u) /\ (s \o u)[i + Len(s)] = u[i]
    OBVIOUS
  <2> QED
    BY <1>4, <2>1 DEF Has
<1> QED
  BY <1>2, <1>3, <1>4 DEF Has

LEMMA HasNone == \A q : ~Has(<<>>, q)
  BY DEF Has

\* A settlement more, one less, two sequences of them.
LEMMA SettlesKeeps ==
    ASSUME SalesAreSales
    PROVE  /\ Settles(<<>>)
           /\ \A q \in Quotes : Issuer!Settled(q) \in Settlements
           /\ \A s : \A q \in Quotes : Settles(s) => Settles(Append(s, Issuer!Settled(q)))
           /\ \A s : Settles(s) /\ s # <<>> =>
                 /\ Settles(Tail(s))
                 /\ Head(s).quote \in Quotes /\ Head(s) = Issuer!Settled(Head(s).quote)
           /\ \A s, u : Settles(s) /\ Settles(u) => Settles(s \o u)
<1>1. \A q \in Quotes : Issuer!Settled(q) \in Settlements
  BY DEF SalesAreSales, Settlements, Issuer!Settled
<1>2. ASSUME NEW s, NEW q \in Quotes, Settles(s)
      PROVE  Settles(Append(s, Issuer!Settled(q)))
  <2>1. Issuer!Settled(q) = Issuer!Settled(Issuer!Settled(q).quote)
    BY DEF Issuer!Settled
  <2> QED
    BY <1>1, <1>2, <2>1 DEF Settles
<1>3. ASSUME NEW s, Settles(s), s # <<>>
      PROVE  /\ Settles(Tail(s))
             /\ Head(s).quote \in Quotes /\ Head(s) = Issuer!Settled(Head(s).quote)
  <2>1. s \in Seq(Settlements) /\ \A i \in 1..Len(s) : s[i] = Issuer!Settled(s[i].quote)
    BY <1>3 DEF Settles
  <2>2. 1 \in 1..Len(s) /\ Head(s) = s[1] /\ Head(s) \in Settlements
    BY <1>3, <2>1
  <2>3. Tail(s) \in Seq(Settlements)
    BY <1>3, <2>1
  <2>4. \A i \in 1..Len(Tail(s)) : i + 1 \in 1..Len(s) /\ Tail(s)[i] = s[i + 1]
    BY <1>3, <2>1
  <2>5. Settles(Tail(s))
    BY <2>1, <2>3, <2>4 DEF Settles
  <2> QED
    BY <2>1, <2>2, <2>5 DEF Settlements
<1>4. ASSUME NEW s, NEW u, Settles(s), Settles(u)
      PROVE  Settles(s \o u)
  <2>1. s \in Seq(Settlements) /\ u \in Seq(Settlements)
    BY <1>4 DEF Settles
  <2>2. s \o u \in Seq(Settlements) /\ Len(s \o u) = Len(s) + Len(u)
    BY <2>1
  <2>3. \A i \in 1..Len(s \o u) :
           \/ i \in 1..Len(s) /\ (s \o u)[i] = s[i]
           \/ i - Len(s) \in 1..Len(u) /\ (s \o u)[i] = u[i - Len(s)]
    BY <2>1, <2>2
  <2> QED
    BY <1>4, <2>2, <2>3 DEF Settles
<1>5. Settles(<<>>)
  BY DEF Settles
<1> QED
  BY <1>1, <1>2, <1>3, <1>4, <1>5

-----------------------------------------------------------------------------
\* Nothing is sold at the start.
LEMMA InitSales == ASSUME SalesAreSales, Issuer!Init PROVE SalesInv
<1> USE DEF Issuer!Init, Issuer!NoPass
<1>1. SalesTyped
  BY SettlesKeeps DEF SalesTyped, Passes, Issuer!Tasks
<1>2. PassesOK /\ CreditsOK
  BY DEF PassesOK, CreditsOK
<1>3. ASSUME NEW q \in Quotes
      PROVE  SaleOK(q) /\ NotLost(q)
  BY HasNone DEF SaleOK, NotLost, Wanted, OnItsWay, Found, Known
<1> QED
  BY <1>1, <1>2, <1>3 DEF SalesInv

\* The quote, its payment and its age, which leave the passes alone.
LEMMA QuoteKeeps ==
    ASSUME SalesAreSales, SalesInv, NEW q \in Quotes,
           Issuer!CreateInvoice(q) \/ Issuer!BookSale(q) \/ Issuer!Age(q)
    PROVE  SalesInv'
<1> USE DEF SalesInv, SalesTyped, Issuer!node, Issuer!rail, Issuer!bounds
<1>1. UNCHANGED <<paid, pass, frames, tx, credited>>
  BY DEF Issuer!CreateInvoice, Issuer!BookSale, Issuer!Age
<1>2. /\ PassesOK' /\ CreditsOK'
      /\ Settles(tx)' /\ \A t \in Issuer!Tasks : Settles(pass[t].found)'
  BY <1>1 DEF PassesOK, CreditsOK
<1>3. \A r : /\ OnItsWay(r)' <=> OnItsWay(r)
             /\ Has(frames, r)' <=> Has(frames, r)
  BY <1>1 DEF OnItsWay, Found
<1>4. \A r : Wanted(r)' <=> r \in open' \/ \E t \in Issuer!Tasks : r \in pass[t].todo
  BY <1>1 DEF Wanted
<1>5. CASE Issuer!CreateInvoice(q)
  <2>1. SalesTyped'
    BY <1>1, <1>2, <1>5 DEF Issuer!CreateInvoice
  <2>2. ASSUME NEW r \in Quotes
        PROVE  SaleOK(r)' /\ NotLost(r)'
    BY <1>1, <1>3, <1>4, <1>5 DEF Issuer!CreateInvoice, SaleOK, NotLost, Known, Wanted
  <2> QED
    BY <1>2, <2>1, <2>2
<1>6. CASE Issuer!BookSale(q)
  <2>1. SalesTyped'
    BY <1>1, <1>2, <1>6 DEF Issuer!BookSale, Issuer!BookKept
  <2>2. ASSUME NEW r \in Quotes
        PROVE  SaleOK(r)' /\ NotLost(r)'
    BY <1>1, <1>3, <1>4, <1>6
       DEF Issuer!BookSale, Issuer!BookKept, SaleOK, NotLost, Known, Wanted
  <2> QED
    BY <1>2, <2>1, <2>2
<1>7. CASE Issuer!Age(q)
  <2>1. SalesTyped'
    BY <1>1, <1>2, <1>7 DEF Issuer!Age
  <2>2. ASSUME NEW r \in Quotes
        PROVE  SaleOK(r)' /\ NotLost(r)'
    BY <1>1, <1>3, <1>4, <1>7 DEF Issuer!Age, SaleOK, NotLost, Known, Wanted
  <2> QED
    BY <1>2, <2>1, <2>2
<1> QED
  BY <1>5, <1>6, <1>7

\* A payment of a live invoice, which is open if its sale is booked.
LEMMA PayKeeps ==
    ASSUME SalesAreSales, SalesInv, NEW q \in Quotes, NEW fee \in Nat, Issuer!Pay(q, fee)
    PROVE  SalesInv'
<1> USE DEF SalesInv, SalesTyped, Issuer!node, Issuer!rail, Issuer!bounds
<1>1. /\ paid' = paid \cup {q} /\ salesAsked[q] = "quoted" /\ q \notin paid /\ age[q] = "live"
      /\ UNCHANGED <<salesAsked, age, open, book, pass, tx, credited>>
  BY DEF Issuer!Pay
<1>2. Issuer!Frame(q, fee) \in Settlements /\ Issuer!Frame(q, fee).quote = q
  BY DEF SalesAreSales, Settlements, Issuer!Frame
<1>3. /\ frames' \in Seq(Settlements)
      /\ \A r : Has(frames, r)' => Has(frames, r) \/ r = q
  BY <1>2, HasAppend DEF Issuer!Pay
<1>4. SalesTyped' /\ PassesOK' /\ CreditsOK'
  BY <1>1, <1>3 DEF PassesOK, CreditsOK
<1>5. \A r : (Wanted(r)' <=> Wanted(r)) /\ (OnItsWay(r)' <=> OnItsWay(r))
  BY <1>1 DEF Wanted, OnItsWay, Found
<1>6. ASSUME NEW r \in Quotes
      PROVE  SaleOK(r)' /\ NotLost(r)'
  BY <1>1, <1>3, <1>5 DEF SaleOK, NotLost, Known
<1> QED
  BY <1>4, <1>6

\* A pass that begins has found nothing before, and asks for live invoices.
LEMMA BeginKeeps ==
    ASSUME SalesAreSales, SalesInv, NEW t \in Issuer!Tasks, Issuer!BeginPass(t)
    PROVE  SalesInv'
<1> USE DEF SalesInv, SalesTyped, Issuer!node, Issuer!rail, Issuer!bounds
<1>1. /\ ~pass[t].on /\ open' = {q \in open : age[q] = "live"}
      /\ pass' = [pass EXCEPT ![t] = [on |-> TRUE, todo |-> open', found |-> <<>>]]
      /\ UNCHANGED <<salesAsked, paid, age, book, frames, tx, credited>>
  BY DEF Issuer!BeginPass
<1>2. /\ pass' \in [Issuer!Tasks -> Passes] /\ pass'[t].on
      /\ pass'[t].todo = open' /\ pass'[t].found = <<>>
      /\ \A u \in Issuer!Tasks \ {t} : pass'[u] = pass[u]
  BY <1>1 DEF Passes
<1>3. \A u \in Issuer!Tasks : pass'[u].found = pass[u].found
  BY <1>1, <1>2 DEF PassesOK
<1>4. SalesTyped' /\ PassesOK' /\ CreditsOK'
  BY <1>1, <1>2, <1>3 DEF PassesOK, CreditsOK
<1>5. \A r : (OnItsWay(r)' <=> OnItsWay(r)) /\ (Has(frames, r)' <=> Has(frames, r))
  BY <1>1, <1>3 DEF OnItsWay, Found
<1>6. \A r : Wanted(r)' => Wanted(r)
  BY <1>1, <1>2 DEF Wanted
<1>7. ASSUME NEW r \in Quotes
      PROVE  SaleOK(r)' /\ NotLost(r)'
  BY <1>1, <1>5, <1>6 DEF SaleOK, NotLost, Known
<1> QED
  BY <1>4, <1>7

\* An answer closes a paid invoice and notes its payment; any other answer, or
\* none, leaves it open.
LEMMA AskKeeps ==
    ASSUME SalesAreSales, SalesInv, NEW t \in Issuer!Tasks, NEW q \in Quotes,
           Issuer!Ask(t, q) \/ Issuer!AskFails(t, q)
    PROVE  SalesInv'
<1> USE DEF SalesInv, SalesTyped, Issuer!node, Issuer!bounds
<1> DEFINE closes == Issuer!Ask(t, q) /\ q \in paid
           found == IF closes THEN Append(pass[t].found, Issuer!Settled(q)) ELSE pass[t].found
<1>1. /\ q \in pass[t].todo
      /\ open' = IF closes THEN open \ {q} ELSE open
      /\ UNCHANGED <<salesAsked, paid, age, book, frames, tx, credited>>
  BY DEF Issuer!Ask, Issuer!Asked, Issuer!AskFails
<1>2. /\ pass[t] \in Passes /\ Settles(pass[t].found)
      /\ pass[t].found \in Seq(Settlements)
  BY DEF Settles
<1>3. Settles(found) /\ \A r : Has(found, r) <=> Has(pass[t].found, r) \/ (closes /\ r = q)
  <2>1. Issuer!Settled(q).quote = q
    BY DEF Issuer!Settled
  <2>2. Issuer!Settled(q) \in Settlements
    BY SettlesKeeps
  <2> QED
    BY <1>2, <2>1, <2>2, SettlesKeeps, HasAppend
<1>4. pass' = [pass EXCEPT ![t] = [on |-> pass[t].on, todo |-> pass[t].todo \ {q}, found |-> found]]
  <2>1. pass[t].on = TRUE
    BY <1>1, <1>2 DEF PassesOK, Passes
  <2> QED
    BY <1>1, <2>1 DEF Issuer!Ask, Issuer!Asked, Issuer!AskFails
<1> HIDE DEF found, closes
<1>5. [on |-> pass[t].on, todo |-> pass[t].todo \ {q}, found |-> found] \in Passes
  BY <1>2, <1>3 DEF Passes, Settles
<1>6. /\ pass' \in [Issuer!Tasks -> Passes] /\ pass'[t].on = pass[t].on
      /\ pass'[t].todo = pass[t].todo \ {q} /\ pass'[t].found = found
      /\ \A u \in Issuer!Tasks \ {t} : pass'[u] = pass[u]
  BY <1>4, <1>5
<1>7. SalesTyped' /\ CreditsOK'
  BY <1>1, <1>3, <1>6 DEF CreditsOK
<1>8. PassesOK'
  BY <1>1, <1>6 DEF PassesOK
<1>9. closes => q \in paid
  BY DEF closes
<1>10. \A r : OnItsWay(r)' <=> OnItsWay(r) \/ (closes /\ r = q)
  <2>1. \A r : Has(tx, r)' <=> Has(tx, r)
    BY <1>1
  <2>2. \A r : Found(r)' <=> Found(r) \/ (closes /\ r = q)
    BY <1>3, <1>6 DEF Found
  <2> QED
    BY <2>1, <2>2 DEF OnItsWay
<1>11. Wanted(q) /\ \A r : (Wanted(r)' => Wanted(r)) /\ (Has(frames, r)' <=> Has(frames, r))
  BY <1>1, <1>6 DEF Wanted
<1>12. ASSUME NEW r \in Quotes
       PROVE  SaleOK(r)' /\ NotLost(r)'
  BY <1>1, <1>9, <1>10, <1>11 DEF SaleOK, NotLost, Known
<1> QED
  BY <1>7, <1>8, <1>12

\* What a pass has found goes to cdk when it ends.
LEMMA EndPassKeeps ==
    ASSUME SalesAreSales, SalesInv, NEW t \in Issuer!Tasks, Issuer!EndPass(t)
    PROVE  SalesInv'
<1> USE DEF SalesInv, SalesTyped, Issuer!node, Issuer!bounds
<1>1. /\ tx' = tx \o pass[t].found /\ pass' = [pass EXCEPT ![t] = Issuer!NoPass]
      /\ UNCHANGED <<salesAsked, paid, age, open, book, frames, credited>>
  BY DEF Issuer!EndPass
<1>2. Settles(tx') /\ \A r : Has(tx', r) <=> Has(tx, r) \/ Has(pass[t].found, r)
  <2>1. tx \in Seq(Settlements) /\ pass[t].found \in Seq(Settlements)
    BY DEF Settles
  <2>2. Settles(tx \o pass[t].found)
    BY SettlesKeeps
  <2> QED
    BY <1>1, <2>1, <2>2, HasConcat
<1>3. /\ pass' \in [Issuer!Tasks -> Passes] /\ pass'[t] = Issuer!NoPass
      /\ \A u \in Issuer!Tasks \ {t} : pass'[u] = pass[u]
  BY <1>1 DEF Passes, Issuer!NoPass
<1>4. pass'[t].todo = {} /\ pass'[t].found = <<>>
  BY <1>3 DEF Issuer!NoPass
<1>5. SalesTyped' /\ PassesOK' /\ CreditsOK'
  BY <1>1, <1>2, <1>3, <1>4, SettlesKeeps DEF PassesOK, CreditsOK
<1>6. \A r : OnItsWay(r)' <=> OnItsWay(r)
  BY <1>2, <1>3, <1>4, HasNone DEF OnItsWay, Found
<1>7. \A r : (Wanted(r)' => Wanted(r)) /\ (Has(frames, r)' <=> Has(frames, r))
  BY <1>1, <1>3, <1>4 DEF Wanted
<1>8. ASSUME NEW r \in Quotes
      PROVE  SaleOK(r)' /\ NotLost(r)'
  BY <1>1, <1>6, <1>7 DEF SaleOK, NotLost, Known
<1> QED
  BY <1>5, <1>8

\* A frame of an open invoice closes it and goes to cdk; frames may be lost.
LEMMA PushKeeps ==
    ASSUME SalesAreSales, SalesInv, Issuer!SettlePush \/ Issuer!Drop
    PROVE  SalesInv'
<1> USE DEF SalesInv, SalesTyped, Issuer!node, Issuer!bounds
<1>1. UNCHANGED <<salesAsked, paid, age, book, pass, credited>>
  BY DEF Issuer!SettlePush, Issuer!Drop
<1>2. PassesOK' /\ CreditsOK' /\ \A r : Found(r)' <=> Found(r)
  BY <1>1 DEF PassesOK, CreditsOK, Found
<1>3. CASE Issuer!SettlePush
  <2> DEFINE q == Head(frames).quote
  <2>1. /\ frames # <<>> /\ frames' = Tail(frames) /\ open' = open \ {q}
        /\ tx' = IF q \in open THEN Append(tx, Issuer!Settled(q)) ELSE tx
    BY <1>3 DEF Issuer!SettlePush, Issuer!Pushed
  <2>2. q \in Quotes /\ frames' \in Seq(Settlements) /\ Has(frames, q)
    <3>1. Head(frames) \in Settlements /\ frames' \in Seq(Settlements)
      BY <2>1
    <3> QED
      BY <2>1, <3>1, HasTail DEF Settlements
  <2> HIDE DEF q
  <2>3. \A r : Has(frames, r)' => Has(frames, r)
    BY <2>1, HasTail
  <2>4. Issuer!Settled(q).quote = q /\ Issuer!Settled(q) \in Settlements
    BY <2>2, SettlesKeeps DEF Issuer!Settled
  <2>5. Settles(tx') /\ \A r : Has(tx', r) <=> Has(tx, r) \/ (q \in open /\ r = q)
    BY <2>1, <2>2, <2>4, SettlesKeeps, HasAppend DEF Settles
  <2>6. SalesTyped'
    BY <1>1, <2>1, <2>2, <2>5
  <2>7. \A r : OnItsWay(r)' <=> OnItsWay(r) \/ (q \in open /\ r = q)
    BY <1>2, <2>5 DEF OnItsWay
  <2>8. (q \in open => Wanted(q)) /\ \A r : Wanted(r)' => Wanted(r)
    BY <1>1, <2>1 DEF Wanted
  <2>9. ASSUME NEW r \in Quotes
        PROVE  SaleOK(r)' /\ NotLost(r)'
    BY <1>1, <2>1, <2>2, <2>3, <2>7, <2>8 DEF SaleOK, NotLost, Known
  <2> QED
    BY <1>2, <2>6, <2>9
<1>4. CASE Issuer!Drop
  <2>1. frames' = <<>> /\ UNCHANGED <<open, tx>>
    BY <1>4 DEF Issuer!Drop
  <2>2. SalesTyped'
    BY <1>1, <2>1
  <2>3. \A r : OnItsWay(r)' <=> OnItsWay(r)
    BY <1>2, <2>1 DEF OnItsWay
  <2>4. \A r : (Wanted(r)' <=> Wanted(r)) /\ ~Has(frames, r)'
    BY <1>1, <2>1, HasNone DEF Wanted
  <2>5. ASSUME NEW r \in Quotes
        PROVE  SaleOK(r)' /\ NotLost(r)'
    BY <1>1, <2>1, <2>3, <2>4 DEF SaleOK, NotLost, Known
  <2> QED
    BY <1>2, <2>2, <2>5
<1> QED
  BY <1>3, <1>4

\* What cdk records of a settled payment of a booked sale is its THH; of any
\* other it records nothing.
LEMMA RecordKeeps ==
    ASSUME SalesAreSales, CreditsOK, NEW q \in Quotes, q \in paid,
           credited' = Issuer!Record(Issuer!Settled(q)), paid' = paid
    PROVE  /\ CreditsOK'
           /\ credited \subseteq credited'
           /\ q \in book => \E r \in credited' : r.quote = q
<1>1. /\ Issuer!Settled(q).quote = q /\ Issuer!Settled(q).sats = Price[q]
      /\ Issuer!ThhFor(Price[q], q) = Thh[q] /\ Thh[q] # 0
  BY DEF SalesAreSales, Issuer!Settled, Issuer!ThhFor
<1>2. credited' = IF q \notin book \/ \E r \in credited : r.quote = q
                  THEN credited ELSE credited \cup {[quote |-> q, thh |-> Thh[q]]}
  BY <1>1 DEF Issuer!Record
<1>3. CASE q \notin book \/ \E r \in credited : r.quote = q
  BY <1>2, <1>3 DEF CreditsOK
<1>4. CASE q \in book /\ ~\E r \in credited : r.quote = q
  <2>1. credited' = credited \cup {[quote |-> q, thh |-> Thh[q]]}
    BY <1>2, <1>4
  <2>2. CreditsOK'
    BY <2>1 DEF CreditsOK
  <2>3. [quote |-> q, thh |-> Thh[q]].quote = q
    OBVIOUS
  <2> QED
    BY <2>1, <2>2, <2>3
<1> QED
  BY <1>3, <1>4

\* A payment is recorded from the stream or by a wallet's check.
LEMMA CreditKeeps ==
    ASSUME SalesAreSales, SalesInv,
           Issuer!Deliver \/ \E q \in Quotes : Issuer!Check(q)
    PROVE  SalesInv'
<1> USE DEF SalesInv, SalesTyped, Issuer!node, Issuer!rail, Issuer!bounds
<1>1. CASE Issuer!Deliver
  <2> DEFINE q == Head(tx).quote
  <2>1. /\ tx # <<>> /\ tx' = Tail(tx) /\ credited' = Issuer!Record(Head(tx))
        /\ UNCHANGED <<salesAsked, paid, age, open, book, pass, frames>>
    BY <1>1 DEF Issuer!Deliver
  <2>2. q \in Quotes /\ Head(tx) = Issuer!Settled(q) /\ Settles(tx')
    BY <2>1, SettlesKeeps
  <2>3. \A r : Has(tx, r) <=> Has(tx', r) \/ r = q
    BY <2>1, HasTail DEF Settles
  <2> HIDE DEF q
  <2>4. q \in paid
    BY <2>2, <2>3 DEF SaleOK, OnItsWay
  <2>5. /\ CreditsOK' /\ credited \subseteq credited'
        /\ q \in book => \E r \in credited' : r.quote = q
    BY <2>1, <2>2, <2>4, RecordKeeps
  <2>6. SalesTyped' /\ PassesOK'
    BY <2>1, <2>2 DEF PassesOK
  <2>7. \A r : Found(r)' <=> Found(r)
    BY <2>1 DEF Found
  <2>8. \A r : (Wanted(r)' <=> Wanted(r)) /\ (Has(frames, r)' <=> Has(frames, r))
    BY <2>1 DEF Wanted
  <2>9. \A r : /\ OnItsWay(r)' => OnItsWay(r)
               /\ OnItsWay(r) => OnItsWay(r)' \/ r = q
    BY <2>3, <2>7 DEF OnItsWay
  <2>10. ASSUME NEW r \in Quotes
         PROVE  SaleOK(r)' /\ NotLost(r)'
    BY <2>1, <2>4, <2>5, <2>8, <2>9 DEF SaleOK, NotLost, Known
  <2> QED
    BY <2>5, <2>6, <2>10
<1>2. ASSUME NEW q \in Quotes, Issuer!Check(q)
      PROVE  SalesInv'
  <2>1. /\ q \in paid /\ credited' = Issuer!Record(Issuer!Settled(q))
        /\ UNCHANGED <<salesAsked, paid, age, open, book, pass, frames, tx>>
    BY <1>2 DEF Issuer!Check
  <2>2. CreditsOK' /\ credited \subseteq credited'
    BY <2>1, RecordKeeps
  <2>3. SalesTyped' /\ PassesOK'
    BY <2>1 DEF PassesOK
  <2>4. \A r : /\ Wanted(r)' <=> Wanted(r)
               /\ Has(frames, r)' <=> Has(frames, r)
               /\ OnItsWay(r)' <=> OnItsWay(r)
    BY <2>1 DEF Wanted, OnItsWay, Found
  <2>5. ASSUME NEW r \in Quotes
        PROVE  SaleOK(r)' /\ NotLost(r)'
    BY <2>1, <2>2, <2>4 DEF SaleOK, NotLost, Known
  <2> QED
    BY <2>2, <2>3, <2>5
<1> QED
  BY <1>1, <1>2

\* A kill forgets the open invoices and the book; the credits are on disk.
LEMMA RestartIssuerKeeps == ASSUME SalesAreSales, SalesInv, Issuer!Restart PROVE SalesInv'
<1> USE DEF SalesInv, SalesTyped
<1>1. /\ salesAsked' = [q \in Quotes |-> IF salesAsked[q] = "invoiced" THEN "failed" ELSE salesAsked[q]]
      /\ open' = {} /\ book' = {} /\ frames' = <<>> /\ tx' = <<>>
      /\ UNCHANGED <<paid, age, credited>>
  BY DEF Issuer!Restart
<1>2. pass' \in [Issuer!Tasks -> Passes]
      /\ \A t \in Issuer!Tasks : pass'[t].todo = {} /\ pass'[t].found = <<>>
  BY DEF Issuer!Restart, Issuer!NoPass, Passes
<1>3. SalesTyped' /\ PassesOK' /\ CreditsOK'
  BY <1>1, <1>2, SettlesKeeps DEF PassesOK, CreditsOK
<1>4. \A r : ~Wanted(r)' /\ ~OnItsWay(r)' /\ ~Has(frames, r)'
  BY <1>1, <1>2, HasNone DEF Wanted, OnItsWay, Found
<1>5. ASSUME NEW r \in Quotes
      PROVE  SaleOK(r)' /\ NotLost(r)'
  BY <1>1, <1>4 DEF SaleOK, NotLost, Known
<1> QED
  BY <1>3, <1>5

LEMMA StepSales ==
    ASSUME SalesAreSales
    PROVE  SalesInv /\ [Issuer!Next]_(Issuer!vars) => SalesInv'
<1> SUFFICES ASSUME SalesInv, [Issuer!Next]_(Issuer!vars)
             PROVE  SalesInv'
  OBVIOUS
<1>1. CASE UNCHANGED Issuer!vars
  BY <1>1 DEF Issuer!vars, Issuer!node, Issuer!rail, Issuer!bounds, SalesInv, SalesTyped,
              PassesOK, CreditsOK, SaleOK, NotLost, Known, Wanted, OnItsWay, Found
<1>2. ASSUME NEW q \in Quotes, NEW fee \in Fees, Issuer!Pay(q, fee)
      PROVE  SalesInv'
  <2>1. fee \in Nat
    BY DEF SalesAreSales
  <2> QED
    BY <1>2, <2>1, PayKeeps
<1> QED
  BY <1>1, <1>2, QuoteKeeps, BeginKeeps, AskKeeps, EndPassKeeps, PushKeeps, CreditKeeps,
     RestartIssuerKeeps DEF Issuer!Next

\* What the invariant is for: payments are credited in full, known to the
\* issuer, and not lost.
LEMMA SalesAreCredited == ASSUME SalesInv PROVE Issuer!PaymentsAreCredited
<1> USE DEF SalesInv, SalesTyped
<1>1. Issuer!CreditedInFull
  <2> SUFFICES ASSUME NEW q \in Quotes, NEW r \in credited, r.quote = q
               PROVE  q \in paid /\ {s \in credited : s.quote = q} = {[quote |-> q, thh |-> Thh[q]]}
    BY DEF Issuer!CreditedInFull
  <2>1. \A s \in credited : s.quote \in paid /\ s = [quote |-> s.quote, thh |-> Thh[s.quote]]
    BY DEF CreditsOK
  <2> QED
    BY <2>1
<1>2. Issuer!RailWithinBook
  <2>1. \A q \in open : Wanted(q)
    BY DEF Wanted
  <2>2. \A i \in DOMAIN tx : i \in 1..Len(tx) /\ tx[i].quote \in Quotes
    <3>1. tx \in Seq(Settlements)
      BY DEF Settles
    <3>2. DOMAIN tx = 1..Len(tx) /\ \A i \in 1..Len(tx) : tx[i] \in Settlements
      BY <3>1
    <3> QED
      BY <3>2 DEF Settlements
  <2>3. \A i \in DOMAIN tx : OnItsWay(tx[i].quote)
    BY <2>2 DEF OnItsWay, Has
  <2> QED
    BY <2>1, <2>2, <2>3 DEF Issuer!RailWithinBook, SaleOK, Known
<1>3. Issuer!PaidIsNotLost
  <2> SUFFICES ASSUME NEW q \in paid, q \in book, age[q] = "live"
               PROVE  \/ q \in open
                      \/ \E t \in Issuer!Tasks : \E i \in DOMAIN pass[t].found : pass[t].found[i].quote = q
                      \/ \E i \in DOMAIN tx : tx[i].quote = q
                      \/ \E r \in credited : r.quote = q
    BY DEF Issuer!PaidIsNotLost
  <2>1. q \in open \/ Found(q) \/ Has(tx, q) \/ \E r \in credited : r.quote = q
    BY DEF NotLost, OnItsWay
  <2>2. \A s \in Seq(Settlements) : Has(s, q) => \E i \in DOMAIN s : s[i].quote = q
    BY DEF Has
  <2>3. tx \in Seq(Settlements) /\ \A t \in Issuer!Tasks : pass[t].found \in Seq(Settlements)
    BY DEF Settles
  <2> QED
    BY <2>1, <2>2, <2>3 DEF Found
<1> QED
  BY <1>1, <1>2, <1>3 DEF Issuer!PaymentsAreCredited

\* A payment becomes a credit, once and in full, by whichever way it is found.
THEOREM PaymentsAreCreditedHolds ==
    ASSUME SalesAreSales
    PROVE  Issuer!Spec => []Issuer!PaymentsAreCredited
<1>1. Issuer!Init => SalesInv
  BY InitSales
<1>2. SalesInv => Issuer!PaymentsAreCredited
  BY SalesAreCredited
<1> QED
  BY <1>1, <1>2, StepSales, PTL DEF Issuer!Spec

-----------------------------------------------------------------------------
\* The capacity.

\* A mint that serves has counted what it owes since it started, or has tried.
ServesCounted ==
    /\ DOMAIN stage = Sales
    /\ phase = "serving" => counted \/ missed

LEMMA InitCounted == Cap!Init => ServesCounted
  BY DEF Cap!Init, ServesCounted

\* The first count that ends, or fails, is what lets the mint serve; a kill stops
\* it, and the start behind it counts again.
LEMMA StepCounted == ServesCounted /\ [Cap!Next]_(Cap!vars) => ServesCounted'
<1> SUFFICES ASSUME ServesCounted, [Cap!Next]_(Cap!vars)
             PROVE  ServesCounted'
  OBVIOUS
<1> USE DEF ServesCounted, Cap!sales, Cap!book, Cap!counting, Cap!bounds
<1>1. CASE UNCHANGED Cap!vars
  BY <1>1 DEF Cap!vars
<1>2. ASSUME NEW k \in Counters, Cap!Counting(k) \/ Cap!CountFails(k)
      PROVE  ServesCounted'
  <2>1. CASE Cap!Read(k)
    BY <2>1 DEF Cap!Read
  <2>2. CASE Cap!EndCount(k)
    BY <2>2 DEF Cap!EndCount
  <2>3. CASE Cap!CountFails(k)
    BY <2>3 DEF Cap!CountFails, Cap!Served
  <2> QED
    BY <1>2, <2>1, <2>2, <2>3 DEF Cap!Counting
<1>3. ASSUME NEW s \in Sales,
             \/ Cap!GrantQuote(s) \/ Cap!Pay(s) \/ Cap!Issue(s) \/ Cap!Melt(s)
             \/ Cap!OpenRedemption(s) \/ Cap!Deliver(s) \/ Cap!Settle(s)
      PROVE  ServesCounted'
  <2>1. PICK from, to : Cap!Move(s, from, to)
    BY <1>3 DEF Cap!GrantQuote, Cap!Pay, Cap!Issue, Cap!Melt, Cap!OpenRedemption,
                Cap!Deliver, Cap!Settle
  <2> QED
    BY <2>1 DEF Cap!Move
<1>4. CASE Cap!SetManual \/ Cap!SetLimit \/ Cap!SetMrr \/ Cap!Hour
  BY <1>4 DEF Cap!SetManual, Cap!SetLimit, Cap!SetMrr, Cap!Hour, Cap!Change
<1>5. CASE Cap!Kill
  BY <1>5 DEF Cap!Kill
<1>6. CASE Cap!Start
  BY <1>6 DEF Cap!Start, Cap!StartsWith
<1>7. ASSUME NEW s \in Sales, Cap!Swap(s) PROVE ServesCounted'
  BY <1>7 DEF Cap!Swap
<1> QED
  BY <1>1, <1>2, <1>3, <1>4, <1>5, <1>6, <1>7 DEF Cap!Next

\* Only a quote that is granted turns a sale into an unpaid one.
LEMMA StepSellsCounted == ServesCounted /\ [Cap!Next]_(Cap!vars) => Cap!SellsCounted
<1> SUFFICES ASSUME ServesCounted, [Cap!Next]_(Cap!vars), NEW s \in Sales,
                    stage[s] = "none", stage'[s] = "unpaid"
             PROVE  counted \/ limit = "off" \/ missed
  BY DEF Cap!SellsCounted
<1> USE DEF ServesCounted, Cap!sales, Cap!book, Cap!counting, Cap!bounds
<1>1. stage' # stage
  OBVIOUS
<1>2. CASE \E k \in Counters : Cap!Counting(k) \/ Cap!CountFails(k)
  BY <1>1, <1>2 DEF Cap!Counting, Cap!Read, Cap!EndCount, Cap!CountFails
<1>3. CASE \E r \in Sales : Cap!GrantQuote(r)
  BY <1>3 DEF Cap!GrantQuote
<1>4. ASSUME NEW r \in Sales, NEW from, NEW to, Cap!Move(r, from, to),
             from # "none" \/ to # "unpaid"
      PROVE  FALSE
  BY <1>4 DEF Cap!Move
<1>5. ASSUME NEW r \in Sales, Cap!Pay(r) \/ Cap!Issue(r) \/ Cap!Melt(r)
                \/ Cap!OpenRedemption(r) \/ Cap!Deliver(r) \/ Cap!Settle(r)
      PROVE  FALSE
  <2>1. CASE Cap!Deliver(r)
    BY <1>4, <2>1 DEF Cap!Deliver
  <2>2. CASE Cap!Pay(r) \/ Cap!Issue(r) \/ Cap!Melt(r) \/ Cap!OpenRedemption(r) \/ Cap!Settle(r)
    BY <1>4, <2>2 DEF Cap!Pay, Cap!Issue, Cap!Melt, Cap!OpenRedemption, Cap!Settle
  <2> QED
    BY <1>5, <2>1, <2>2
<1>6. CASE Cap!SetManual \/ Cap!SetLimit \/ Cap!SetMrr \/ Cap!Hour \/ Cap!Kill
  BY <1>1, <1>6 DEF Cap!SetManual, Cap!SetLimit, Cap!SetMrr, Cap!Hour, Cap!Change, Cap!Kill
<1>7. CASE Cap!Start
  BY <1>7 DEF Cap!Start
<1>9. CASE \E r \in Sales : Cap!Swap(r)
  BY <1>1, <1>9 DEF Cap!Swap
<1>8. CASE UNCHANGED Cap!vars
  BY <1>1, <1>8 DEF Cap!vars
<1> QED
  BY <1>2, <1>3, <1>5, <1>6, <1>7, <1>8, <1>9 DEF Cap!Next

\* After a start no quote is given under the limit before what is owed was
\* counted, unless that count failed.
THEOREM NeverSellsBlindHolds ==
    Cap!Init /\ [][Cap!Next]_(Cap!vars) => Cap!NeverSellsBlind
  BY InitCounted, StepCounted, StepSellsCounted, PTL DEF Cap!NeverSellsBlind

-----------------------------------------------------------------------------
\* What a count may miss or invent.

\* There are finitely many sales, each of some THH.
SalesAreFinite == IsFiniteSet(Sales) /\ \A s \in Sales : SaleThh[s] \in Nat \ {0}

CapShape ==
    /\ stage \in [Sales -> Cap!Stages]
    /\ rest \in [Sales -> Nat] /\ \A s \in Sales : rest[s] <= SaleThh[s]
    /\ count \in [Counters -> [read : 0..5, total : Nat, swapped : Nat]]
    /\ moved \in [Counters -> SUBSET Sales]

\* What the n-th read leaves of a sale at rest: its THH at these stages, and in the
\* end what is undelivered of an open redemption.  st are the stages of the sales,
\* rs the work they wait for.
Minted == {"issued", "melting", "open", "filled", "spent"}
CountedAt(n) ==
    IF n = 1 THEN Minted ELSE IF n = 2 THEN Minted \ {"spent"}
    ELSE IF n = 3 THEN {"issued"} ELSE {"issued", "paid"}
Exact(n, st, rs, s) ==
    (IF st[s] \in CountedAt(n) THEN SaleThh[s] ELSE 0)
        + (IF n = 5 /\ st[s] = "open" THEN rs[s] ELSE 0)

\* What at most it leaves of a sale that moved: a sale is issued or paid when it is
\* counted as such, so the fourth read adds nothing to what the first counted.
AtMost(n, st, s) ==
    IF n < 4 THEN IF st[s] \in Minted THEN SaleThh[s] ELSE 0
    ELSE IF n = 4 THEN IF st[s] \in Minted \cup {"paid"} THEN SaleThh[s] ELSE 0
    ELSE SaleThh[s] + SaleThh[s]

\* And what at most it takes away, though it never counted it: a sale is spent or
\* on its way to be spent.
Missing(n, st, s) ==
    IF n = 1 THEN 0 ELSE IF n = 2 THEN IF st[s] = "spent" THEN SaleThh[s] ELSE 0
    ELSE SaleThh[s]

\* By sale, for a count of n reads during which those of m moved.
High(n, m, st, rs) == [s \in Sales |-> IF s \in m THEN AtMost(n, st, s) ELSE Exact(n, st, rs, s)]
Sure(n, m, st, rs) == [s \in Sales |-> IF s \in m THEN 0 ELSE Exact(n, st, rs, s)]
Torn(n, m, st) == [s \in Sales |-> IF s \in m THEN Missing(n, st, s) ELSE 0]

\* The total lies between, when as much as w was spent in swaps whose new ecash was
\* not counted as signed.
Bounds(n, t, w, m, st, rs) ==
    /\ t <= SumOver(High(n, m, st, rs), Sales)
    /\ SumOver(Sure(n, m, st, rs), Sales) <= t + w + SumOver(Torn(n, m, st), Sales)

\* What a swap between the first two reads takes away, it takes at the second.
Swapped(n, e) == IF n < 2 THEN 0 ELSE e

\* A count that has not begun has seen nothing move, and there is none while the
\* mint is down.
CountOK(k) ==
    /\ count[k].read = 0 => moved[k] = {}
    /\ count[k].read > 0 =>
          Bounds(count[k].read, count[k].total, Swapped(count[k].read, count[k].swapped),
                 moved[k], stage, rest)
    /\ phase = "down" => count[k].read = 0

CapInv == CapShape /\ \A k \in Counters : CountOK(k)

\* The THH of the sales at some stages, and what open redemptions wait for, by sale.
Weight(st, Q) == [s \in Sales |-> IF st[s] \in Q THEN SaleThh[s] ELSE 0]
Waiting(st, rs) == [s \in Sales |-> IF st[s] = "open" THEN rs[s] ELSE 0]
Nothing == [s \in Sales |-> 0]

\* The sums of ThhCapacity are sums.
LEMMA CapSums ==
    ASSUME SalesAreFinite, CapShape
    PROVE  /\ \A Q : Cap!Sum(Cap!AtStage(Q)) = SumOver(Weight(stage, Q), Sales)
           /\ Cap!OpenRest = SumOver(Waiting(stage, rest), Sales)
           /\ \A m : Cap!Sum(m) = SumOver(SaleThh, m)
<1>1. \A S : Cap!Sum(S) = SumOver(SaleThh, S)
  BY DEF Cap!Sum, SumOver, MapThenSumSet, MapThenFoldSet, Cap!MapThenSumSet,
     Cap!MapThenFoldSet
<1>2. Cap!OpenRest = SumOver(rest, Cap!AtStage({"open"}))
  BY DEF Cap!OpenRest, SumOver, MapThenSumSet, MapThenFoldSet, Cap!MapThenSumSet,
     Cap!MapThenFoldSet
<1>3. ASSUME NEW Q PROVE SumOver(SaleThh, Cap!AtStage(Q)) = SumOver(Weight(stage, Q), Sales)
  <2> DEFINE T == {s \in Sales : stage[s] \in Q}
  <2>1. T \in SUBSET Sales /\ \A s \in Sales : SaleThh[s] \in Nat
    BY DEF SalesAreFinite
  <2>2. [s \in Sales |-> IF s \in T THEN SaleThh[s] ELSE 0] = Weight(stage, Q)
    BY DEF Weight
  <2>3. Cap!AtStage(Q) = T
    BY DEF Cap!AtStage
  <2> HIDE DEF T
  <2> QED BY <2>1, <2>2, <2>3, SumWhere DEF SalesAreFinite
<1>4. SumOver(rest, Cap!AtStage({"open"})) = SumOver(Waiting(stage, rest), Sales)
  <2> DEFINE T == {s \in Sales : stage[s] = "open"}
  <2>1. T \in SUBSET Sales /\ \A s \in Sales : rest[s] \in Nat
    BY DEF CapShape
  <2>2. [s \in Sales |-> IF s \in T THEN rest[s] ELSE 0] = Waiting(stage, rest)
    BY DEF Waiting
  <2>3. Cap!AtStage({"open"}) = T
    BY DEF Cap!AtStage
  <2> HIDE DEF T
  <2> QED BY <2>1, <2>2, <2>3, SumWhere DEF SalesAreFinite
<1> QED BY <1>1, <1>2, <1>3, <1>4

\* They are numbers, sale by sale and in all.
LEMMA CapNumbers ==
    ASSUME SalesAreFinite, NEW st, NEW rs \in [Sales -> Nat], NEW n, NEW m, NEW Q
    PROVE  /\ High(n, m, st, rs) \in [Sales -> Nat] /\ Sure(n, m, st, rs) \in [Sales -> Nat]
           /\ Torn(n, m, st) \in [Sales -> Nat] /\ Weight(st, Q) \in [Sales -> Nat]
           /\ Waiting(st, rs) \in [Sales -> Nat] /\ Nothing \in [Sales -> Nat]
<1>1. \A s \in Sales : SaleThh[s] \in Nat /\ rs[s] \in Nat
  BY DEF SalesAreFinite
<1>2. \A s \in Sales : Exact(n, st, rs, s) \in Nat
  BY <1>1 DEF Exact
<1>3. \A s \in Sales : AtMost(n, st, s) \in Nat /\ Missing(n, st, s) \in Nat
  BY <1>1 DEF AtMost, Missing
<1>4. High(n, m, st, rs) \in [Sales -> Nat] /\ Sure(n, m, st, rs) \in [Sales -> Nat]
  BY <1>2, <1>3 DEF High, Sure
<1>5. Torn(n, m, st) \in [Sales -> Nat]
  BY <1>3 DEF Torn
<1>6. Weight(st, Q) \in [Sales -> Nat] /\ Waiting(st, rs) \in [Sales -> Nat]
  BY <1>1 DEF Weight, Waiting
<1>7. Nothing \in [Sales -> Nat]
  BY DEF Nothing
<1> QED BY <1>4, <1>5, <1>6, <1>7

LEMMA CapTotals ==
    ASSUME SalesAreFinite
    PROVE  /\ \A f \in [Sales -> Nat] : SumOver(f, Sales) \in Nat
           /\ SumOver(Nothing, Sales) = 0
<1>1. ASSUME NEW f \in [Sales -> Nat] PROVE SumOver(f, Sales) \in Nat
  BY SumType DEF SalesAreFinite
<1>2. \A s \in Sales : Nothing[s] = 0
  BY DEF Nothing
<1> QED BY <1>1, <1>2, SumZeros DEF SalesAreFinite

\* A read that takes g away, and e that was swapped.
LEMMA ReadTakes ==
    ASSUME SalesAreFinite, NEW n, NEW o, NEW m, NEW t \in Nat, NEW w \in Nat,
           NEW e \in Nat, NEW st, NEW rs \in [Sales -> Nat], NEW g \in [Sales -> Nat],
           Bounds(n, t, w, m, st, rs),
           \A s \in Sales :
              /\ High(n, m, st, rs)[s] <= High(o, m, st, rs)[s] + g[s]
              /\ Sure(o, m, st, rs)[s] + g[s] + Torn(n, m, st)[s]
                   <= Sure(n, m, st, rs)[s] + Torn(o, m, st)[s]
    PROVE  /\ Bounds(o, Cap!Minus(t, SumOver(g, Sales) + e), w + e, m, st, rs)
           /\ Cap!Minus(t, SumOver(g, Sales) + e) \in Nat
<1> DEFINE f == High(n, m, st, rs)
           h == High(o, m, st, rs)
           u == Sure(n, m, st, rs)
           v == Sure(o, m, st, rs)
           x == Torn(n, m, st)
           y == Torn(o, m, st)
           z == Nothing
<1>1. /\ f \in [Sales -> Nat] /\ h \in [Sales -> Nat] /\ u \in [Sales -> Nat]
      /\ v \in [Sales -> Nat] /\ x \in [Sales -> Nat] /\ y \in [Sales -> Nat]
      /\ z \in [Sales -> Nat]
  BY CapNumbers
<1>2. /\ \A s \in Sales : z[s] = 0
      /\ \A s \in Sales : f[s] <= h[s] + g[s] /\ v[s] + g[s] + x[s] <= u[s] + y[s]
  BY DEF Nothing
<1>3. IsFiniteSet(Sales)
  BY DEF SalesAreFinite
<1>4. t <= SumOver(f, Sales) /\ SumOver(u, Sales) <= t + w + SumOver(x, Sales)
  BY DEF Bounds
<1>5. SUFFICES /\ Cap!Minus(t, SumOver(g, Sales) + e) <= SumOver(h, Sales)
               /\ SumOver(v, Sales) <= Cap!Minus(t, SumOver(g, Sales) + e) + (w + e) + SumOver(y, Sales)
               /\ Cap!Minus(t, SumOver(g, Sales) + e) \in Nat
  BY DEF Bounds
<1> HIDE DEF f, h, u, v, x, y, z
<1>6. SumOver(f, Sales) + SumOver(z, Sales) + SumOver(z, Sales)
        <= SumOver(h, Sales) + SumOver(g, Sales) + SumOver(z, Sales)
  <2>1. \A s \in Sales : f[s] + z[s] + z[s] <= h[s] + g[s] + z[s]
    BY <1>1, <1>2
  <2> QED BY <1>1, <1>3, <2>1, SumOrder
<1>7. SumOver(v, Sales) + SumOver(g, Sales) + SumOver(x, Sales)
        <= SumOver(u, Sales) + SumOver(y, Sales) + SumOver(z, Sales)
  <2>1. \A s \in Sales : v[s] + g[s] + x[s] <= u[s] + y[s] + z[s]
    BY <1>1, <1>2
  <2> QED BY <1>1, <1>3, <2>1, SumOrder
<1>8. SumOver(z, Sales) = 0
  BY CapTotals DEF z
<1>9. PICK F \in Nat, H \in Nat, G \in Nat, U \in Nat, V \in Nat, X \in Nat, Y \in Nat :
         /\ F = SumOver(f, Sales) /\ H = SumOver(h, Sales) /\ G = SumOver(g, Sales)
         /\ U = SumOver(u, Sales) /\ V = SumOver(v, Sales) /\ X = SumOver(x, Sales)
         /\ Y = SumOver(y, Sales)
  <2>1. \A k \in [Sales -> Nat] : SumOver(k, Sales) \in Nat
    BY CapTotals
  <2> QED BY <1>1, <2>1, Zenon
<1>10. /\ t <= F /\ U <= t + w + X
       /\ F + 0 + 0 <= H + G + 0 /\ V + G + X <= U + Y + 0
  BY <1>4, <1>6, <1>7, <1>8, <1>9, Zenon
<1>11. /\ Cap!Minus(t, G + e) <= H /\ V <= Cap!Minus(t, G + e) + (w + e) + Y
       /\ Cap!Minus(t, G + e) \in Nat
  BY <1>10 DEF Cap!Minus
<1> QED BY <1>9, <1>11, Zenon

\* A read that adds g.
LEMMA ReadGives ==
    ASSUME SalesAreFinite, NEW n, NEW o, NEW m, NEW t \in Nat, NEW w \in Nat,
           NEW st, NEW rs \in [Sales -> Nat], NEW g \in [Sales -> Nat],
           Bounds(n, t, w, m, st, rs),
           \A s \in Sales :
              /\ High(n, m, st, rs)[s] + g[s] <= High(o, m, st, rs)[s]
              /\ Sure(o, m, st, rs)[s] + Torn(n, m, st)[s]
                   <= Sure(n, m, st, rs)[s] + g[s] + Torn(o, m, st)[s]
    PROVE  /\ Bounds(o, t + SumOver(g, Sales), w, m, st, rs)
           /\ t + SumOver(g, Sales) \in Nat
<1> DEFINE f == High(n, m, st, rs)
           h == High(o, m, st, rs)
           u == Sure(n, m, st, rs)
           v == Sure(o, m, st, rs)
           x == Torn(n, m, st)
           y == Torn(o, m, st)
           z == Nothing
<1>1. /\ f \in [Sales -> Nat] /\ h \in [Sales -> Nat] /\ u \in [Sales -> Nat]
      /\ v \in [Sales -> Nat] /\ x \in [Sales -> Nat] /\ y \in [Sales -> Nat]
      /\ z \in [Sales -> Nat]
  BY CapNumbers
<1>2. /\ \A s \in Sales : z[s] = 0
      /\ \A s \in Sales : f[s] + g[s] <= h[s] /\ v[s] + x[s] <= u[s] + g[s] + y[s]
  BY DEF Nothing
<1>3. IsFiniteSet(Sales)
  BY DEF SalesAreFinite
<1>4. t <= SumOver(f, Sales) /\ SumOver(u, Sales) <= t + w + SumOver(x, Sales)
  BY DEF Bounds
<1>5. SUFFICES /\ t + SumOver(g, Sales) <= SumOver(h, Sales)
               /\ SumOver(v, Sales) <= (t + SumOver(g, Sales)) + w + SumOver(y, Sales)
               /\ t + SumOver(g, Sales) \in Nat
  BY DEF Bounds
<1> HIDE DEF f, h, u, v, x, y, z
<1>6. SumOver(f, Sales) + SumOver(g, Sales) + SumOver(z, Sales)
        <= SumOver(h, Sales) + SumOver(z, Sales) + SumOver(z, Sales)
  <2>1. \A s \in Sales : f[s] + g[s] + z[s] <= h[s] + z[s] + z[s]
    BY <1>1, <1>2
  <2> QED BY <1>1, <1>3, <2>1, SumOrder
<1>7. SumOver(v, Sales) + SumOver(x, Sales) + SumOver(z, Sales)
        <= SumOver(u, Sales) + SumOver(g, Sales) + SumOver(y, Sales)
  <2>1. \A s \in Sales : v[s] + x[s] + z[s] <= u[s] + g[s] + y[s]
    BY <1>1, <1>2
  <2> QED BY <1>1, <1>3, <2>1, SumOrder
<1>8. SumOver(z, Sales) = 0
  BY CapTotals DEF z
<1>9. PICK F \in Nat, H \in Nat, G \in Nat, U \in Nat, V \in Nat, X \in Nat, Y \in Nat :
         /\ F = SumOver(f, Sales) /\ H = SumOver(h, Sales) /\ G = SumOver(g, Sales)
         /\ U = SumOver(u, Sales) /\ V = SumOver(v, Sales) /\ X = SumOver(x, Sales)
         /\ Y = SumOver(y, Sales)
  <2>1. \A k \in [Sales -> Nat] : SumOver(k, Sales) \in Nat
    BY CapTotals
  <2> QED BY <1>1, <2>1, Zenon
<1>10. /\ t <= F /\ U <= t + w + X
       /\ F + G + 0 <= H + 0 + 0 /\ V + X + 0 <= U + G + Y
  BY <1>4, <1>6, <1>7, <1>8, <1>9, Zenon
<1>11. t + G <= H /\ V <= (t + G) + w + Y /\ t + G \in Nat
  BY <1>10
<1> QED BY <1>9, <1>11, Zenon

\* Each read keeps the total within the bounds.
LEMMA ReadKeeps ==
    ASSUME SalesAreFinite, CapShape, NEW n \in 0..4, NEW t \in Nat, NEW e \in Nat,
           NEW c, c.total = t, c.swapped = e, NEW m \in SUBSET Sales,
           n = 0 => m = {}, n > 0 => Bounds(n, t, Swapped(n, e), m, stage, rest)
    PROVE  /\ Bounds(n + 1, Cap!Tally(n + 1, c), Swapped(n + 1, e), m, stage, rest)
           /\ Cap!Tally(n + 1, c) \in Nat
<1>1. /\ rest \in [Sales -> Nat] /\ stage \in [Sales -> Cap!Stages]
      /\ \A s \in Sales : rest[s] <= SaleThh[s] /\ SaleThh[s] \in Nat /\ rest[s] \in Nat
  BY DEF CapShape, SalesAreFinite
<1>2. \A Q : Weight(stage, Q) \in [Sales -> Nat]
  BY <1>1, CapNumbers
<1>3. CASE n = 0
  <2> DEFINE g == Weight(stage, Minted)
  <2>1. Cap!Tally(n + 1, c) = SumOver(g, Sales)
    BY <1>3, CapSums DEF Cap!Tally, Minted
  <2>2. \A s \in Sales : High(1, m, stage, rest)[s] = g[s] /\ Sure(1, m, stage, rest)[s] = g[s]
    BY <1>1, <1>3 DEF High, Sure, Exact, CountedAt, Weight
  <2>3. /\ g \in [Sales -> Nat] /\ High(1, m, stage, rest) \in [Sales -> Nat]
        /\ Sure(1, m, stage, rest) \in [Sales -> Nat] /\ Torn(1, m, stage) \in [Sales -> Nat]
    BY <1>1, CapNumbers
  <2> HIDE DEF g
  <2>4. /\ SumOver(g, Sales) \in Nat /\ SumOver(Torn(1, m, stage), Sales) \in Nat
        /\ SumOver(High(1, m, stage, rest), Sales) = SumOver(g, Sales)
        /\ SumOver(Sure(1, m, stage, rest), Sales) = SumOver(g, Sales)
    <3>1. SumOver(g, Sales) \in Nat /\ SumOver(Torn(1, m, stage), Sales) \in Nat
      BY <2>3, CapTotals
    <3>2. SumOver(High(1, m, stage, rest), Sales) = SumOver(g, Sales)
      BY <2>2, SumSame DEF SalesAreFinite
    <3>3. SumOver(Sure(1, m, stage, rest), Sales) = SumOver(g, Sales)
      BY <2>2, SumSame DEF SalesAreFinite
    <3> QED BY <3>1, <3>2, <3>3
  <2>5. Bounds(1, SumOver(g, Sales), 0, m, stage, rest)
    BY <2>4 DEF Bounds
  <2> QED BY <1>3, <2>1, <2>4, <2>5 DEF Swapped
<1>4. CASE n = 1
  <2> DEFINE g == Weight(stage, {"spent"})
  <2>1. Cap!Tally(n + 1, c) = Cap!Minus(t, SumOver(g, Sales) + e)
    BY <1>4, CapSums DEF Cap!Tally
  <2>2. ASSUME NEW s \in Sales
        PROVE  /\ High(1, m, stage, rest)[s] <= High(2, m, stage, rest)[s] + g[s]
               /\ Sure(2, m, stage, rest)[s] + g[s] + Torn(1, m, stage)[s]
                    <= Sure(1, m, stage, rest)[s] + Torn(2, m, stage)[s]
    BY <1>1 DEF High, Sure, Torn, Exact, CountedAt, AtMost, Missing, Weight, Minted
  <2>3. Bounds(1, t, 0, m, stage, rest) /\ g \in [Sales -> Nat]
    BY <1>2, <1>4 DEF Swapped
  <2> HIDE DEF g
  <2>4. /\ Bounds(2, Cap!Minus(t, SumOver(g, Sales) + e), 0 + e, m, stage, rest)
        /\ Cap!Minus(t, SumOver(g, Sales) + e) \in Nat
    BY <1>1, <2>2, <2>3, ReadTakes
  <2> QED BY <1>4, <2>1, <2>4 DEF Swapped
<1>5. CASE n = 2
  <2> DEFINE g == Weight(stage, {"melting", "open", "filled"})
  <2>1. Cap!Tally(n + 1, c) = Cap!Minus(t, SumOver(g, Sales))
    BY <1>5, CapSums DEF Cap!Tally
  <2>2. ASSUME NEW s \in Sales
        PROVE  /\ High(2, m, stage, rest)[s] <= High(3, m, stage, rest)[s] + g[s]
               /\ Sure(3, m, stage, rest)[s] + g[s] + Torn(2, m, stage)[s]
                    <= Sure(2, m, stage, rest)[s] + Torn(3, m, stage)[s]
    BY <1>1 DEF High, Sure, Torn, Exact, CountedAt, AtMost, Missing, Weight, Minted
  <2>3. Bounds(2, t, e, m, stage, rest) /\ g \in [Sales -> Nat]
    BY <1>2, <1>5 DEF Swapped
  <2> HIDE DEF g
  <2>4. /\ Bounds(3, Cap!Minus(t, SumOver(g, Sales)), e, m, stage, rest)
        /\ Cap!Minus(t, SumOver(g, Sales)) \in Nat
    <3>1. /\ Bounds(3, Cap!Minus(t, SumOver(g, Sales) + 0), e + 0, m, stage, rest)
          /\ Cap!Minus(t, SumOver(g, Sales) + 0) \in Nat
      BY <1>1, <2>2, <2>3, ReadTakes
    <3>2. SumOver(g, Sales) \in Nat
      BY <2>3, CapTotals
    <3> QED BY <3>1, <3>2
  <2> QED BY <1>5, <2>1, <2>4 DEF Swapped
<1>6. CASE n = 3
  <2> DEFINE g == Weight(stage, {"paid"})
  <2>1. Cap!Tally(n + 1, c) = t + SumOver(g, Sales)
    BY <1>6, CapSums DEF Cap!Tally
  <2>2. ASSUME NEW s \in Sales
        PROVE  /\ High(3, m, stage, rest)[s] + g[s] <= High(4, m, stage, rest)[s]
               /\ Sure(4, m, stage, rest)[s] + Torn(3, m, stage)[s]
                    <= Sure(3, m, stage, rest)[s] + g[s] + Torn(4, m, stage)[s]
    BY <1>1 DEF High, Sure, Torn, Exact, CountedAt, AtMost, Missing, Weight, Minted
  <2>3. Bounds(3, t, e, m, stage, rest) /\ g \in [Sales -> Nat]
    BY <1>2, <1>6 DEF Swapped
  <2> HIDE DEF g
  <2>4. Bounds(4, t + SumOver(g, Sales), e, m, stage, rest) /\ t + SumOver(g, Sales) \in Nat
    BY <1>1, <2>2, <2>3, ReadGives
  <2> QED BY <1>6, <2>1, <2>4 DEF Swapped
<1>7. CASE n = 4
  <2> DEFINE g == Waiting(stage, rest)
  <2>1. Cap!Tally(n + 1, c) = t + SumOver(g, Sales)
    BY <1>7, CapSums DEF Cap!Tally
  <2>2. ASSUME NEW s \in Sales
        PROVE  /\ High(4, m, stage, rest)[s] + g[s] <= High(5, m, stage, rest)[s]
               /\ Sure(5, m, stage, rest)[s] + Torn(4, m, stage)[s]
                    <= Sure(4, m, stage, rest)[s] + g[s] + Torn(5, m, stage)[s]
    BY <1>1 DEF High, Sure, Torn, Exact, CountedAt, AtMost, Missing, Waiting, Minted
  <2>3. Bounds(4, t, e, m, stage, rest) /\ n = 4
    BY <1>7 DEF Swapped
  <2>5. rest \in [Sales -> Nat]
    BY <1>1
  <2>6. g \in [Sales -> Nat]
    BY <2>5, CapNumbers
  <2> HIDE DEF g
  <2>4. Bounds(5, t + SumOver(g, Sales), e, m, stage, rest) /\ t + SumOver(g, Sales) \in Nat
    BY <1>1, <2>2, <2>3, <2>6, ReadGives
  <2> QED BY <1>7, <2>1, <2>4 DEF Swapped
<1> QED BY <1>3, <1>4, <1>5, <1>6, <1>7

\* How a sale moves from a stage to the next, or on within an open redemption.
Onwards(from, to) ==
    \/ from = "none" /\ to = "unpaid"
    \/ from = "unpaid" /\ to = "paid"
    \/ from = "paid" /\ to = "issued"
    \/ from = "issued" /\ to = "melting"
    \/ from = "melting" /\ to = "open"
    \/ from = "open" /\ to = "open"
    \/ from = "open" /\ to = "filled"
    \/ from = "filled" /\ to = "spent"

\* A sale that moves widens the bounds.
LEMMA MoveWidens ==
    ASSUME SalesAreFinite, NEW n \in 1..5, NEW m, NEW t \in Nat, NEW w \in Nat, NEW a \in Sales,
           NEW st, NEW rs \in [Sales -> Nat], NEW ts, NEW qs \in [Sales -> Nat],
           \A s \in Sales : rs[s] <= SaleThh[s],
           Onwards(st[a], ts[a]),
           \A s \in Sales \ {a} : ts[s] = st[s] /\ qs[s] = rs[s],
           Bounds(n, t, w, m, st, rs)
    PROVE  Bounds(n, t, w, m \cup {a}, ts, qs)
<1> DEFINE k == m \cup {a}
           f == High(n, m, st, rs)
           g == High(n, k, ts, qs)
           u == Sure(n, m, st, rs)
           v == Sure(n, k, ts, qs)
           x == Torn(n, m, st)
           y == Torn(n, k, ts)
<1>1. \A s \in Sales : SaleThh[s] \in Nat /\ rs[s] \in Nat /\ rs[s] <= SaleThh[s]
  BY DEF SalesAreFinite
<1>2. /\ f \in [Sales -> Nat] /\ g \in [Sales -> Nat] /\ u \in [Sales -> Nat]
      /\ v \in [Sales -> Nat] /\ x \in [Sales -> Nat] /\ y \in [Sales -> Nat]
  BY CapNumbers
<1>3. ASSUME NEW s \in Sales PROVE f[s] <= g[s] /\ v[s] <= u[s] /\ x[s] <= y[s]
  <2>1. CASE s # a
    <3>1. ts[s] = st[s] /\ qs[s] = rs[s] /\ (s \in k <=> s \in m)
      BY <2>1
    <3>2. f[s] = g[s] /\ u[s] = v[s] /\ x[s] = y[s]
      BY <3>1 DEF High, Sure, Torn, Exact, AtMost, Missing
    <3> HIDE DEF f, g, u, v, x, y
    <3>3. f[s] \in Nat /\ u[s] \in Nat /\ x[s] \in Nat
      BY <1>2
    <3> QED BY <3>2, <3>3
  <2>2. CASE s = a
    <3>1. Onwards(st[s], ts[s]) /\ s \in k
      BY <2>2
    <3>2. v[s] = 0 /\ y[s] = Missing(n, ts, s) /\ g[s] = AtMost(n, ts, s)
      BY <3>1 DEF Sure, Torn, High
    <3>3. u[s] \in Nat
      <4> HIDE DEF f, g, u, v, x, y
      <4> QED BY <1>2
    <3>4. x[s] <= y[s]
      BY <1>1, <3>1, <3>2 DEF Torn, Missing, Onwards
    <3>5. f[s] <= g[s]
      BY <1>1, <3>1, <3>2 DEF High, AtMost, Exact, CountedAt, Minted, Onwards
    <3> QED BY <3>2, <3>3, <3>4, <3>5
  <2> QED BY <2>1, <2>2
<1>4. t <= SumOver(f, Sales) /\ SumOver(u, Sales) <= t + w + SumOver(x, Sales)
  BY DEF Bounds
<1>5. SUFFICES t <= SumOver(g, Sales) /\ SumOver(v, Sales) <= t + w + SumOver(y, Sales)
  BY DEF Bounds
<1> HIDE DEF f, g, u, v, x, y
<1>6. IsFiniteSet(Sales)
  BY DEF SalesAreFinite
<1>7. SumOver(f, Sales) <= SumOver(g, Sales)
  BY <1>3, <1>2, <1>6, SumLeq
<1>8. SumOver(v, Sales) <= SumOver(u, Sales)
  BY <1>3, <1>2, <1>6, SumLeq
<1>9. SumOver(x, Sales) <= SumOver(y, Sales)
  BY <1>3, <1>2, <1>6, SumLeq
<1>10. /\ SumOver(f, Sales) \in Nat /\ SumOver(g, Sales) \in Nat /\ SumOver(u, Sales) \in Nat
       /\ SumOver(v, Sales) \in Nat /\ SumOver(x, Sales) \in Nat /\ SumOver(y, Sales) \in Nat
  BY <1>2, CapTotals
<1> QED BY <1>4, <1>7, <1>8, <1>9, <1>10

\* Nothing is counted at the start.
LEMMA InitCapInv == ASSUME SalesAreFinite, Cap!Init PROVE CapInv
<1>1. CapShape
  BY DEF Cap!Init, CapShape, Cap!Stages, Cap!NoCount, SalesAreFinite
<1>2. ASSUME NEW k \in Counters PROVE CountOK(k)
  BY DEF Cap!Init, CountOK, Cap!NoCount
<1> QED BY <1>1, <1>2 DEF CapInv

\* What happens to the sales and to the counts in the course of a count.
LEMMA MovesCounted ==
    ASSUME SalesAreFinite, CapInv, NEW s \in Sales,
           \/ Cap!GrantQuote(s) \/ Cap!Pay(s) \/ Cap!Issue(s) \/ Cap!Melt(s)
           \/ Cap!OpenRedemption(s) \/ Cap!Deliver(s) \/ Cap!Settle(s)
    PROVE  CapInv'
<1>1. CapShape
  BY DEF CapInv
<1>2. /\ Onwards(stage[s], stage'[s])
      /\ stage' \in [Sales -> Cap!Stages]
      /\ \A x \in Sales \ {s} : stage'[x] = stage[x]
  BY <1>1 DEF CapShape, Cap!GrantQuote, Cap!Pay, Cap!Issue, Cap!Melt, Cap!OpenRedemption,
     Cap!Deliver, Cap!Settle, Cap!Move, Onwards, Cap!Stages
<1>3. /\ moved' = [k \in Counters |->
                     IF count[k].read = 0 THEN {} ELSE moved[k] \cup {s}]
      /\ UNCHANGED <<count, phase>>
  BY DEF Cap!GrantQuote, Cap!Pay, Cap!Issue, Cap!Melt, Cap!OpenRedemption, Cap!Deliver,
     Cap!Settle, Cap!Move
<1>4. /\ rest' \in [Sales -> Nat] /\ \A x \in Sales : rest'[x] <= SaleThh[x]
      /\ \A x \in Sales \ {s} : rest'[x] = rest[x]
  <2>1. \A x \in Sales : SaleThh[x] \in Nat /\ rest[x] \in Nat
    BY <1>1 DEF SalesAreFinite, CapShape
  <2>2. CASE Cap!OpenRedemption(s)
    BY <1>1, <2>1, <2>2 DEF Cap!OpenRedemption, CapShape
  <2>3. CASE Cap!Deliver(s)
    BY <1>1, <2>1, <2>3 DEF Cap!Deliver, CapShape
  <2>4. CASE Cap!GrantQuote(s) \/ Cap!Pay(s) \/ Cap!Issue(s) \/ Cap!Melt(s) \/ Cap!Settle(s)
    BY <1>1, <2>1, <2>4 DEF Cap!GrantQuote, Cap!Pay, Cap!Issue, Cap!Melt, Cap!Settle, CapShape
  <2> QED BY <2>2, <2>3, <2>4
<1>5. CapShape'
  BY <1>1, <1>2, <1>3, <1>4 DEF CapShape
<1>6. ASSUME NEW k \in Counters PROVE CountOK(k)'
  <2>1. CountOK(k)
    BY DEF CapInv
  <2>2. /\ count[k].read \in 0..5 /\ count[k].total \in Nat
        /\ Swapped(count[k].read, count[k].swapped) \in Nat
    BY <1>1 DEF CapShape, Swapped
  <2>3. CASE count[k].read = 0
    BY <1>3, <2>1, <2>3 DEF CountOK
  <2>4. CASE count[k].read # 0
    <3>1. Bounds(count[k].read, count[k].total,
                Swapped(count[k].read, count[k].swapped), moved[k], stage, rest)
      BY <2>1, <2>2, <2>4 DEF CountOK
    <3>2. Bounds(count[k].read, count[k].total,
                Swapped(count[k].read, count[k].swapped), moved[k] \cup {s}, stage', rest')
      <4>1. /\ count[k].read \in 1..5 /\ rest \in [Sales -> Nat]
            /\ \A x \in Sales : rest[x] <= SaleThh[x]
        BY <1>1, <2>2, <2>4 DEF CapShape
      <4>2. \A x \in Sales \ {s} : stage'[x] = stage[x] /\ rest'[x] = rest[x]
        BY <1>2, <1>4
      <4>3. /\ SalesAreFinite /\ count[k].total \in Nat /\ s \in Sales
            /\ Swapped(count[k].read, count[k].swapped) \in Nat
            /\ Onwards(stage[s], stage'[s]) /\ rest' \in [Sales -> Nat]
        BY <1>1, <1>2, <1>4, <2>2
      <4> QED BY <3>1, <4>1, <4>2, <4>3, MoveWidens, ZenonT(40)
    <3>3. moved'[k] = moved[k] \cup {s} /\ count'[k] = count[k] /\ phase' = phase
      BY <1>3, <2>4
    <3> QED BY <2>1, <2>4, <3>2, <3>3 DEF CountOK
  <2> QED BY <2>3, <2>4
<1> QED BY <1>5, <1>6 DEF CapInv

\* A swap takes away at the second read what it takes.
LEMMA SwapCounted ==
    ASSUME SalesAreFinite, CapInv, NEW s \in Sales, Cap!Swap(s)
    PROVE  CapInv'
<1>1. /\ count' = [k \in Counters |-> IF count[k].read = 1
                                     THEN [count[k] EXCEPT !.swapped = @ + SaleThh[s]]
                                     ELSE count[k]]
      /\ UNCHANGED <<stage, rest, moved, phase>>
  BY DEF Cap!Swap, Cap!sales
<1>2. CapShape /\ SaleThh[s] \in Nat
  BY DEF CapInv, SalesAreFinite
<1>3. ASSUME NEW k \in Counters
      PROVE  /\ count'[k] \in [read : 0..5, total : Nat, swapped : Nat]
             /\ count'[k].read = count[k].read /\ count'[k].total = count[k].total
             /\ Swapped(count'[k].read, count'[k].swapped)
                  = Swapped(count[k].read, count[k].swapped)
  <2>1. count[k] \in [read : 0..5, total : Nat, swapped : Nat]
    BY <1>2 DEF CapShape
  <2> QED
    BY <1>1, <1>2, <2>1 DEF Swapped
<1>4. CapShape'
  BY <1>1, <1>2, <1>3 DEF CapShape
<1>5. ASSUME NEW k \in Counters PROVE CountOK(k)'
  <2>1. CountOK(k)
    BY DEF CapInv
  <2> QED
    BY <1>1, <1>3, <2>1 DEF CountOK
<1> QED
  BY <1>4, <1>5 DEF CapInv

LEMMA CountsCounted ==
    ASSUME SalesAreFinite, CapInv, NEW k \in Counters,
           Cap!Read(k) \/ Cap!EndCount(k) \/ Cap!CountFails(k)
    PROVE  CapInv'
<1>1. CapShape /\ CountOK(k)
  BY DEF CapInv
<1>2. UNCHANGED <<stage, rest>>
  BY DEF Cap!Read, Cap!EndCount, Cap!CountFails, Cap!sales
<1>3. /\ count[k].read \in 0..5 /\ count[k].total \in Nat /\ count[k].swapped \in Nat
      /\ moved[k] \in SUBSET Sales
  BY <1>1 DEF CapShape
<1>4. CASE Cap!Read(k)
  <2> DEFINE n == count[k].read
             t == count[k].total
             e == count[k].swapped
  <2>1. /\ n < 5 /\ phase # "down" /\ UNCHANGED <<moved, phase>>
        /\ count' = [count EXCEPT ![k] =
                       [count[k] EXCEPT !.read = n + 1, !.total = Cap!Tally(n + 1, count[k])]]
    BY <1>4 DEF Cap!Read
  <2>2. n \in 0..4 /\ t \in Nat /\ e \in Nat
    BY <1>3, <2>1
  <2>3. n = 0 => moved[k] = {}
    BY <1>1 DEF CountOK
  <2>4. n > 0 => Bounds(n, t, Swapped(n, e), moved[k], stage, rest)
    BY <1>1 DEF CountOK
  <2>8. count[k].total = t /\ count[k].swapped = e
    OBVIOUS
  <2>9. count'[k] = [read |-> n + 1, total |-> Cap!Tally(n + 1, count[k]), swapped |-> e]
    <3>1. count \in [Counters -> [read : 0..5, total : Nat, swapped : Nat]]
      BY <1>1 DEF CapShape
    <3> HIDE DEF n
    <3> QED BY <2>1, <3>1
  <2> HIDE DEF n, t, e
  <2>5. /\ Bounds(n + 1, Cap!Tally(n + 1, count[k]), Swapped(n + 1, e), moved[k], stage, rest)
        /\ Cap!Tally(n + 1, count[k]) \in Nat
    BY <1>1, <1>3, <2>2, <2>3, <2>4, <2>8, ReadKeeps
  <2>6. CapShape'
    <3>1. n + 1 \in 0..5
      BY <2>2
    <3>2. count'[k] \in [read : 0..5, total : Nat, swapped : Nat]
      BY <2>2, <2>5, <2>9, <3>1
    <3> QED BY <1>1, <1>2, <2>1, <3>2 DEF CapShape
  <2>7. ASSUME NEW j \in Counters PROVE CountOK(j)'
    <3>1. CASE j = k
      <4>2. /\ count'[j].read = n + 1 /\ count'[j].total = Cap!Tally(n + 1, count[k])
            /\ count'[j].swapped = e
        BY <2>9, <3>1
      <4>3. n + 1 # 0 /\ n + 1 > 0
        BY <2>2
      <4>4. Bounds(count'[j].read, count'[j].total,
                   Swapped(count'[j].read, count'[j].swapped), moved'[j], stage', rest')
        BY <1>2, <2>1, <2>5, <3>1, <4>2
      <4> QED BY <2>1, <4>2, <4>3, <4>4 DEF CountOK
    <3>2. CASE j # k
      <4>1. CountOK(j) /\ count'[j] = count[j]
        BY <1>1, <2>1, <3>2 DEF CapInv, CapShape
      <4> QED BY <1>2, <2>1, <4>1 DEF CountOK
    <3> QED BY <3>1, <3>2
  <2> QED BY <2>6, <2>7 DEF CapInv
<1>5. CASE Cap!EndCount(k) \/ Cap!CountFails(k)
  <2>1. /\ count' = [count EXCEPT ![k] = [read |-> 0, total |-> 0, swapped |-> 0]]
        /\ moved' = [moved EXCEPT ![k] = {}]
        /\ phase' = "down" => phase = "down"
    BY <1>5 DEF Cap!EndCount, Cap!CountFails, Cap!NoCount, Cap!Served
  <2>2. CapShape'
    <3>1. [read |-> 0, total |-> 0, swapped |-> 0] \in [read : 0..5, total : Nat, swapped : Nat]
      OBVIOUS
    <3> QED BY <1>1, <1>2, <2>1, <3>1 DEF CapShape
  <2>3. ASSUME NEW j \in Counters PROVE CountOK(j)'
    <3>1. CASE j = k
      <4>1. count'[j].read = 0 /\ moved'[j] = {}
        BY <1>1, <2>1, <3>1 DEF CapShape
      <4> QED BY <4>1 DEF CountOK
    <3>2. CASE j # k
      <4>1. CountOK(j) /\ count'[j] = count[j] /\ moved'[j] = moved[j]
        BY <1>1, <2>1, <3>2 DEF CapInv, CapShape
      <4> QED BY <1>2, <2>1, <4>1 DEF CountOK
    <3> QED BY <3>1, <3>2
  <2> QED BY <2>2, <2>3 DEF CapInv
<1> QED BY <1>4, <1>5

LEMMA StepCapInv == SalesAreFinite /\ CapInv /\ [Cap!Next]_(Cap!vars) => CapInv'
<1> SUFFICES ASSUME SalesAreFinite, CapInv, [Cap!Next]_(Cap!vars)
             PROVE  CapInv'
  OBVIOUS
<1>1. CapShape
  BY DEF CapInv
<1>2. ASSUME NEW k \in Counters, Cap!Counting(k) \/ Cap!CountFails(k) PROVE CapInv'
  BY <1>2, CountsCounted DEF Cap!Counting
<1>3. ASSUME NEW s \in Sales,
             \/ Cap!GrantQuote(s) \/ Cap!Pay(s) \/ Cap!Issue(s) \/ Cap!Melt(s)
             \/ Cap!OpenRedemption(s) \/ Cap!Deliver(s) \/ Cap!Settle(s)
      PROVE  CapInv'
  BY <1>3, MovesCounted
<1>9. ASSUME NEW s \in Sales, Cap!Swap(s) PROVE CapInv'
  BY <1>9, SwapCounted
<1>4. ASSUME UNCHANGED <<stage, rest, count, moved, phase>> PROVE CapInv'
  BY <1>4 DEF CapInv, CapShape, CountOK
<1>5. CASE Cap!SetManual \/ Cap!SetLimit \/ Cap!SetMrr \/ Cap!Hour \/ UNCHANGED Cap!vars
  BY <1>4, <1>5 DEF Cap!SetManual, Cap!SetLimit, Cap!SetMrr, Cap!Hour, Cap!Change, Cap!sales,
     Cap!counting, Cap!vars
<1>6. CASE Cap!Kill
  <2>1. /\ count' = [k \in Counters |-> [read |-> 0, total |-> 0, swapped |-> 0]]
        /\ moved' = [k \in Counters |-> {}] /\ UNCHANGED <<stage, rest>>
    BY <1>6 DEF Cap!Kill, Cap!NoCount, Cap!sales
  <2>2. CapShape'
    <3>1. [read |-> 0, total |-> 0, swapped |-> 0] \in [read : 0..5, total : Nat, swapped : Nat]
      OBVIOUS
    <3> QED BY <1>1, <2>1, <3>1 DEF CapShape
  <2>3. ASSUME NEW k \in Counters PROVE CountOK(k)'
    BY <2>1 DEF CountOK
  <2> QED BY <2>2, <2>3 DEF CapInv
<1>7. CASE Cap!Start
  <2>1. /\ \A k \in Counters : count[k].read = 0 /\ moved[k] = {}
        /\ UNCHANGED <<count, moved>>
    BY <1>7 DEF Cap!Start, CapInv, CountOK, Cap!counting
  <2>2. CapShape'
    <3>1. stage' \in [Sales -> Cap!Stages]
      BY <1>1, <1>7 DEF Cap!Start, CapShape, Cap!Stages
    <3>2. rest' \in [Sales -> Nat] /\ \A s \in Sales : rest'[s] <= SaleThh[s]
      BY <1>1, <1>7 DEF Cap!Start, CapShape, SalesAreFinite
    <3> QED BY <1>1, <2>1, <3>1, <3>2 DEF CapShape
  <2>3. ASSUME NEW k \in Counters PROVE CountOK(k)'
    BY <2>1 DEF CountOK
  <2> QED BY <2>2, <2>3 DEF CapInv
<1> QED BY <1>2, <1>3, <1>5, <1>6, <1>7, <1>9 DEF Cap!Next

LEMMA CapInvSays == ASSUME SalesAreFinite, CapInv PROVE Cap!CountOffByWhatMoved
<1> SUFFICES ASSUME NEW k \in Counters, count[k].read = 5
             PROVE  /\ Cap!Owed <= count[k].total + 2 * Cap!Sum(moved[k]) + count[k].swapped
                                     + Cap!Sum(Cap!AtStage({"melting"}))
                    /\ count[k].total <= Cap!Owed + 2 * Cap!Sum(moved[k])
  BY DEF Cap!CountOffByWhatMoved
<1> DEFINE m == moved[k]
           t == count[k].total
           e == count[k].swapped
           h == High(5, m, stage, rest)
           u == Sure(5, m, stage, rest)
           x == Torn(5, m, stage)
           o == Weight(stage, {"paid", "issued", "melting"})
           w == Waiting(stage, rest)
           g == Weight(stage, {"melting"})
           d == [s \in Sales |-> IF s \in m THEN SaleThh[s] ELSE 0]
           z == Nothing
<1>1. /\ rest \in [Sales -> Nat] /\ t \in Nat /\ e \in Nat /\ m \in SUBSET Sales
      /\ \A s \in Sales : rest[s] <= SaleThh[s] /\ SaleThh[s] \in Nat /\ rest[s] \in Nat
  BY DEF CapInv, CapShape, SalesAreFinite
<1>2. t <= SumOver(h, Sales) /\ SumOver(u, Sales) <= t + e + SumOver(x, Sales)
  BY DEF CapInv, CountOK, Bounds, Swapped
<1>3. /\ h \in [Sales -> Nat] /\ u \in [Sales -> Nat] /\ x \in [Sales -> Nat]
      /\ o \in [Sales -> Nat] /\ w \in [Sales -> Nat] /\ g \in [Sales -> Nat]
      /\ z \in [Sales -> Nat]
  BY <1>1, CapNumbers
<1>4. d \in [Sales -> Nat]
  BY <1>1
<1>5. /\ Cap!Owed = SumOver(o, Sales) + SumOver(w, Sales)
      /\ Cap!Sum(Cap!AtStage({"melting"})) = SumOver(g, Sales)
      /\ Cap!Sum(m) = SumOver(d, Sales)
  <2>1. Cap!Sum(m) = SumOver(SaleThh, m)
    BY CapSums DEF CapInv
  <2>2. SumOver(SaleThh, m) = SumOver(d, Sales)
    <3> HIDE DEF m
    <3> QED BY <1>1, SumWhere DEF SalesAreFinite
  <2> QED BY <2>1, <2>2, CapSums DEF CapInv, Cap!Owed
<1>6. ASSUME NEW s \in Sales
      PROVE  /\ o[s] + w[s] + z[s] <= u[s] + d[s] + g[s]
             /\ x[s] = d[s]
             /\ h[s] + z[s] + z[s] <= (o[s] + w[s]) + d[s] + d[s]
  BY <1>1 DEF High, Sure, Torn, Exact, CountedAt, AtMost, Missing, Weight, Waiting, Nothing
<1>7. IsFiniteSet(Sales)
  BY DEF SalesAreFinite
<1>8. SumOver(z, Sales) = 0
  BY CapTotals
<1> HIDE DEF m, t, e, h, u, x, o, w, g, d, z
<1>9. SumOver(o, Sales) + SumOver(w, Sales) + SumOver(z, Sales)
        <= SumOver(u, Sales) + SumOver(d, Sales) + SumOver(g, Sales)
  BY <1>3, <1>4, <1>6, <1>7, SumOrder
<1>10. SumOver(x, Sales) = SumOver(d, Sales)
  BY <1>6, <1>7, SumSame
<1>11. SumOver(h, Sales) + SumOver(z, Sales) + SumOver(z, Sales)
         <= (SumOver(o, Sales) + SumOver(w, Sales)) + SumOver(d, Sales) + SumOver(d, Sales)
  <2> DEFINE b == [s \in Sales |-> o[s] + w[s]]
  <2>1. b \in [Sales -> Nat] /\ \A s \in Sales : h[s] + z[s] + z[s] <= b[s] + d[s] + d[s]
    BY <1>3, <1>4, <1>6
  <2>2. SumOver(b, Sales) = SumOver(o, Sales) + SumOver(w, Sales)
    BY <1>3, <1>7, SumPlus
  <2> HIDE DEF b
  <2>3. SumOver(h, Sales) + SumOver(z, Sales) + SumOver(z, Sales)
          <= SumOver(b, Sales) + SumOver(d, Sales) + SumOver(d, Sales)
    BY <1>3, <1>4, <1>7, <2>1, SumOrder
  <2> QED BY <2>2, <2>3
<1>12. PICK H \in Nat, U \in Nat, X \in Nat, O \in Nat, W \in Nat, G \in Nat, D \in Nat :
         /\ H = SumOver(h, Sales) /\ U = SumOver(u, Sales) /\ X = SumOver(x, Sales)
         /\ O = SumOver(o, Sales) /\ W = SumOver(w, Sales) /\ G = SumOver(g, Sales)
         /\ D = SumOver(d, Sales)
  <2>1. \A f \in [Sales -> Nat] : SumOver(f, Sales) \in Nat
    BY CapTotals
  <2> QED BY <1>3, <1>4, <2>1, Zenon
<1>13. /\ t <= H /\ U <= t + e + X /\ X = D
       /\ O + W + 0 <= U + D + G
       /\ H + 0 + 0 <= (O + W) + D + D
  BY <1>2, <1>8, <1>9, <1>10, <1>11, <1>12, Zenon
<1>14. O + W <= t + 2 * D + e + G /\ t <= O + W + 2 * D
  BY <1>1, <1>13
<1>15. Cap!Owed = O + W /\ Cap!Sum(Cap!AtStage({"melting"})) = G /\ Cap!Sum(m) = D
  BY <1>5, <1>12
<1> QED BY <1>14, <1>15, Zenon DEF m, t, e

\* A count misses or invents no more than twice what moved while it was made, and
\* melts whose redemption is not open yet.
THEOREM CountOffByWhatMovedHolds ==
    ASSUME SalesAreFinite
    PROVE  Cap!Spec => []Cap!CountOffByWhatMoved
<1>1. Cap!Init => CapInv
  BY InitCapInv
<1>2. CapInv /\ [Cap!Next]_(Cap!vars) => CapInv'
  BY StepCapInv
<1>3. CapInv => Cap!CountOffByWhatMoved
  BY CapInvSays
<1> QED BY <1>1, <1>2, <1>3, PTL DEF Cap!Spec

=============================================================================
