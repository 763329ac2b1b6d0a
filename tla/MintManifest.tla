---------------------------- MODULE MintManifest ----------------------------
(***************************************************************************)
(* The mint's manifest (hashu-mint/src/manifest/, `hashu manifest` in      *)
(* hashu-cli/src/manifest.rs): a signed event on the relays that lists     *)
(* every keyset the mint ever had.  A relay keeps one event of the mint,   *)
(* the latest by its created_at, so the file in the data directory is what *)
(* remembers.  A run loads it, records the keyset it was given, publishes, *)
(* and saves it; it may die anywhere, and the clock may go back.           *)
(***************************************************************************)
EXTENDS Integers, Sequences, SequencesExt, FiniteSetsExt

CONSTANTS
    Keysets,     \* keysets the mint has one after the other
    Relays,
    None,
    MaxNow,      \* bound: the clock
    MaxRuns      \* bound: runs

VARIABLES
    active,     \* the mint: its keysets so far, the last one the active one
    now,        \* the clock of the machine
    disk,       \* manifest state: keysets recorded, last_published_at
    run,        \* the run: its phase, its state, its event
    held,       \* each relay: the event it keeps
    told,       \* history: the keysets an event has listed
    newest,     \* history: the last event published, and the relays it reached
    cut,        \* history: a run died after its event had reached a relay
    runs        \* bound

vars == <<active, now, disk, run, held, told, newest, cut, runs>>

NoRun == [phase |-> "none", keysets |-> <<>>, at |-> 0]
NoEvent == [keysets |-> <<>>, at |-> -1]
Ids(keysets) == {k.id : k \in Range(keysets)}

-----------------------------------------------------------------------------
\* A run of `hashu manifest publish`.

\* apply_observed_keyset, for a keyset that is not retired: the active one is
\* retired and the new one appended.
Recorded(keysets, id) ==
    IF \E k \in Range(keysets) : k.id = id /\ ~k.retired
    THEN keysets
    ELSE Append([i \in DOMAIN keysets |-> [keysets[i] EXCEPT !.retired = TRUE]],
                [id |-> id, retired |-> FALSE])

\* Mutant: the event has the time of the clock.
CreatedAtNow(last) == now

\* build_event: later than the last event, whatever the clock says.
CreatedAt(last) == IF last # None /\ last >= now THEN last + 1 ELSE now

\* HashuManifest::from_state: what a relay is shown, and when it was made.
EventOf(r) == [keysets |-> r.keysets, at |-> r.at]

\* The operator names the active keyset.  Naming a retired one is an error,
\* before anything is published.
Start ==
    /\ run = NoRun
    /\ runs < MaxRuns
    /\ runs' = runs + 1
    /\ run' = [phase |-> "publishing",
               keysets |-> Recorded(disk.keysets, Last(active)),
               at |-> CreatedAt(disk.last)]
    /\ UNCHANGED <<active, now, disk, held, told, newest, cut>>

\* A relay keeps the later event; of two of one second it keeps either.
Keeps(r, e) == IF e.at > held[r].at THEN {e} ELSE IF e.at = held[r].at THEN {held[r], e} ELSE {held[r]}

\* publish: some relays are reached.  With none the run may fail or go on.
Publish ==
    /\ run.phase = "publishing"
    /\ \E reached \in SUBSET Relays :
       LET e == EventOf(run) IN
       /\ held' \in {h \in [Relays -> {e} \cup Range(held)] :
                        \A r \in Relays : h[r] \in IF r \in reached THEN Keeps(r, e) ELSE {held[r]}}
       /\ newest' = [event |-> e, reached |-> reached]
       /\ told' = IF reached = {} THEN told ELSE told \cup Ids(e.keysets)
       /\ \/ run' = [run EXCEPT !.phase = "saving"] /\ UNCHANGED cut
          \/ run' = NoRun /\ cut' = (cut \/ reached # {})
    /\ UNCHANGED <<active, now, disk, runs>>

\* The file is replaced as a whole.
Save ==
    /\ run.phase = "saving"
    /\ disk' = [keysets |-> run.keysets, last |-> run.at]
    /\ run' = NoRun
    /\ UNCHANGED <<active, now, held, told, newest, cut, runs>>

\* A kill, or a file that cannot be written.
Die ==
    /\ run # NoRun
    /\ run' = NoRun
    /\ cut' = (cut \/ (run.phase = "saving" /\ newest.reached # {}))
    /\ UNCHANGED <<active, now, disk, held, told, newest, runs>>

-----------------------------------------------------------------------------

\* The mint turns to a new keyset.
Rotate(k) ==
    /\ k \notin Range(active)
    /\ active' = Append(active, k)
    /\ UNCHANGED <<now, disk, run, held, told, newest, cut, runs>>

\* The clock goes on, or is set back.
Clock ==
    /\ now' \in 0..MaxNow
    /\ UNCHANGED <<active, disk, run, held, told, newest, cut, runs>>

Init ==
    /\ active \in {<<k>> : k \in Keysets}
    /\ now = 0
    /\ disk = [keysets |-> <<>>, last |-> None]
    /\ run = NoRun
    /\ held = [r \in Relays |-> NoEvent]
    /\ told = {}
    /\ newest = [event |-> NoEvent, reached |-> {}]
    /\ cut = FALSE
    /\ runs = 0

Next == Start \/ Publish \/ Save \/ Die \/ Clock \/ \E k \in Keysets : Rotate(k)

Spec == Init /\ [][Next]_vars

-----------------------------------------------------------------------------

TypeOK ==
    /\ Range(active) \subseteq Keysets /\ told \subseteq Keysets
    /\ now \in 0..MaxNow
    /\ run.phase \in {"none", "publishing", "saving"}
    /\ Cardinality({i \in DOMAIN disk.keysets : ~disk.keysets[i].retired}) <= 1
    /\ cut \in BOOLEAN

\* A keyset that was published stays listed in every event from then on, so its
\* tokens stay attested; unless a run died between publishing and saving.
PublishedStaysListed ==
    ~cut => told \subseteq Ids(newest.event.keysets) \/ newest.reached = {}

\* The relays that were reached keep the event just published and no older one,
\* though the clock was set back; unless a run died between the two.
ReachedKeepNewest ==
    ~cut => \A r \in newest.reached : held[r] = newest.event

\* A wallet that asks a relay finds every keyset it holds: the two together.
KeysetsStayListed == PublishedStaysListed /\ ReachedKeepNewest

=============================================================================
