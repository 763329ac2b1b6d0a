--------------------------- MODULE OperatorSettings ---------------------------
(***************************************************************************)
(* The operator's live settings (MintControls in hashu-cli/src/            *)
(* operator.rs).  Each is an atomic that a request stores; it then saves   *)
(* all of them under the lock of the settings file.  Every quote of every  *)
(* rail reads the pause, and a test mint (operator_test_mint in checkout.rs)*)
(* lifts the pause around its own quote.                                   *)
(*                                                                         *)
(* A request is the sequence of steps its handler has left.  The J/TH of   *)
(* the heat estimate is stored and saved as the markup is and has no step  *)
(* of its own.                                                             *)
(***************************************************************************)
EXTENDS Naturals, Sequences

CONSTANTS
    Controls,      \* requests to /api/controls that may run at a time
    TestMints,     \* requests to /api/test-mint that may run at a time
    Markups,       \* markups within the accepted range
    TooHigh,       \* a markup outside of it
    FlagMarkup,    \* --markup-bps
    None,          \* no file, or nothing read
    MaxRequests,   \* bound: requests
    MaxQuotes,     \* bound: quotes of the public
    MaxKills       \* bound: kills of the process

VARIABLES
    paused, markup,   \* the atomics
    saved,            \* operator-settings.json
    snap,             \* what a request has read under the lock and is writing
    wrote,            \* how the last write since the start ended
    req,              \* the steps each request has left
    up,               \* does the process run?
    asked,            \* history: the pause the operator last asked for
    crossed,          \* history: a test mint did not put back that pause
    requests, quotes, kills   \* bounds

settings == <<paused, markup>>
file == <<saved, snap, wrote>>
history == <<asked, crossed>>
bounds == <<requests, quotes, kills>>
vars == <<settings, file, req, up, history, bounds>>

Requests == Controls \cup TestMints
Settings == [paused : BOOLEAN, markup : Markups \cup {TooHigh}]

Set(field, value) == <<field, value>>
Save == <<"save">>
Quote == <<"quote">>
Pay == <<"pay">>

Next1(r) == Head(req[r])
Runs(r) == req[r] # <<>>
Sets(r) == Runs(r) /\ Next1(r)[1] \in {"markup", "paused"}

\* A test mint that has still to put back the pause it lifted.
Restores(r) == \E i \in DOMAIN req[r] : r \in TestMints /\ req[r][i] = Set("paused", TRUE)

\* A request that has stored a setting and not yet saved it.
Unsaved(r) == \E i \in DOMAIN req[r] : req[r][i] = Save

-----------------------------------------------------------------------------
\* Requests.

\* What set_controls applies of a body: the markup before the pause.
Bodies ==
    {<<Set("markup", m)>> : m \in Markups} \cup {<<Set("paused", p)>> : p \in BOOLEAN}
        \cup {<<Set("markup", m), Set("paused", p)>> : m \in Markups \cup {TooHigh}, p \in BOOLEAN}

\* operator_test_mint, which read the pause as `was`.
Rehearsal(was) ==
    IF was
    THEN <<Set("paused", FALSE), Quote, Set("paused", TRUE), Pay>>
    ELSE <<Quote, Pay>>

Arrive(r) ==
    /\ up
    /\ ~Runs(r)
    /\ requests < MaxRequests
    /\ requests' = requests + 1
    /\ \/ r \in Controls /\ \E body \in Bodies : req' = [req EXCEPT ![r] = body]
       \/ r \in TestMints /\ req' = [req EXCEPT ![r] = Rehearsal(paused)]
    /\ UNCHANGED <<settings, file, up, history, quotes, kills>>

\* store_markup_bps: a value outside of the range is refused.
Accepted(field, value) == field = "markup" => value \in Markups

Store(r) ==
    /\ Sets(r)
    /\ LET field == Next1(r)[1] value == Next1(r)[2] IN
       /\ Accepted(field, value)
       /\ paused' = IF field = "paused" THEN value ELSE paused
       /\ markup' = IF field = "markup" THEN value ELSE markup
       /\ asked' = IF field = "paused" /\ r \in Controls THEN value ELSE asked
       /\ crossed' = (crossed \/ (field = "paused" /\ r \in Controls /\ \E t \in TestMints : Restores(t)))
    /\ req' = [req EXCEPT ![r] = <<Save>> \o Tail(@)]
    /\ UNCHANGED <<file, up, bounds>>

\* The first refused setting ends the request; what it stored stays stored.
Refuse(r) ==
    /\ Sets(r)
    /\ ~Accepted(Next1(r)[1], Next1(r)[2])
    /\ req' = [req EXCEPT ![r] = <<>>]
    /\ UNCHANGED <<settings, file, up, history, bounds>>

\* Mutant: the settings are read before the lock is taken.
MayReadUnlocked(r) == TRUE

\* MintControls::save reads the settings under the lock it writes them under.
MayRead(r) == \A o \in Requests : snap[o] = None

BeginSave(r) ==
    /\ Runs(r)
    /\ Next1(r) = Save
    /\ snap[r] = None
    /\ MayRead(r)
    /\ snap' = [snap EXCEPT ![r] = [paused |-> paused, markup |-> markup]]
    /\ UNCHANGED <<settings, saved, wrote, req, up, history, bounds>>

\* The file is replaced as a whole; a write that fails is only logged.
EndSave(r) ==
    /\ snap[r] # None
    /\ \/ wrote' = "ok" /\ saved' = snap[r]
       \/ wrote' = "failed" /\ UNCHANGED saved
    /\ snap' = [snap EXCEPT ![r] = None]
    /\ req' = [req EXCEPT ![r] = Tail(@)]
    /\ UNCHANGED <<settings, up, history, bounds>>

-----------------------------------------------------------------------------
\* Quotes.

\* ControlledPricer::price, the capacity of the mint left aside.
MayQuote == ~paused

\* A quote that is refused ends the test mint, after it restored the pause: its
\* last step, the payment, falls away.
TestQuote(r) ==
    /\ Runs(r)
    /\ Next1(r) = Quote
    /\ \/ MayQuote /\ req' = [req EXCEPT ![r] = Tail(@)]
       \/ req' = [req EXCEPT ![r] = SubSeq(@, 2, Len(@) - 1)]
    /\ UNCHANGED <<settings, file, up, history, bounds>>

\* The quote is marked paid and its THH are issued.
PayTestQuote(r) ==
    /\ Runs(r)
    /\ Next1(r) = Pay
    /\ req' = [req EXCEPT ![r] = <<>>]
    /\ UNCHANGED <<settings, file, up, history, bounds>>

\* A handler whose client has gone is dropped where it awaits an answer.
Abandon(r) ==
    /\ Runs(r)
    /\ Next1(r) \in {Quote, Pay}
    /\ crossed' = (crossed \/ Restores(r))
    /\ req' = [req EXCEPT ![r] = <<>>]
    /\ UNCHANGED <<settings, file, up, asked, bounds>>

PublicQuote ==
    /\ up
    /\ MayQuote
    /\ quotes < MaxQuotes
    /\ quotes' = quotes + 1
    /\ UNCHANGED <<settings, file, req, up, history, requests, kills>>

-----------------------------------------------------------------------------
\* Kills and starts.

Kill ==
    /\ up
    /\ kills < MaxKills
    /\ up' = FALSE
    /\ kills' = kills + 1
    /\ crossed' = (crossed \/ wrote = "failed" \/ \E r \in Requests : Restores(r) \/ Unsaved(r))
    /\ req' = [r \in Requests |-> <<>>]
    /\ snap' = [r \in Requests |-> None]
    /\ UNCHANGED <<settings, saved, wrote, asked, requests, quotes>>

\* MintControls::persist_to: a saved value wins over its flag; one outside of
\* its range is ignored.
LoadedPause == saved # None /\ saved.paused
LoadedMarkup == IF saved # None /\ Accepted("markup", saved.markup) THEN saved.markup ELSE FlagMarkup

Start ==
    /\ ~up
    /\ up' = TRUE
    /\ paused' = LoadedPause
    /\ markup' = LoadedMarkup
    /\ wrote' = "none"
    /\ UNCHANGED <<saved, snap, req, history, bounds>>

\* A file may be there, of an earlier run or edited by hand.
Init ==
    /\ saved \in {None, [paused |-> FALSE, markup |-> TooHigh]}
    /\ snap = [r \in Requests |-> None]
    /\ wrote = "none"
    /\ paused = LoadedPause
    /\ markup = LoadedMarkup
    /\ req = [r \in Requests |-> <<>>]
    /\ up = TRUE
    /\ asked = LoadedPause
    /\ crossed = FALSE
    /\ requests = 0 /\ quotes = 0 /\ kills = 0

Next ==
    \/ \E r \in Requests :
          \/ Arrive(r) \/ Store(r) \/ Refuse(r) \/ BeginSave(r) \/ EndSave(r)
          \/ TestQuote(r) \/ PayTestQuote(r) \/ Abandon(r)
    \/ PublicQuote \/ Kill \/ Start

Spec == Init /\ [][Next]_vars

-----------------------------------------------------------------------------

TypeOK ==
    /\ paused \in BOOLEAN
    /\ markup \in Markups \cup {FlagMarkup}
    /\ saved \in Settings \cup {None}
    /\ snap \in [Requests -> Settings \cup {None}]
    /\ wrote \in {"none", "ok", "failed"}
    /\ \A r \in Requests : Len(req[r]) <= 5
    /\ asked \in BOOLEAN /\ crossed \in BOOLEAN /\ up \in BOOLEAN

\* Whatever order requests store and save in, once none is at it the file holds
\* the settings in force, unless the last write failed.
SettledIsSaved ==
    (up /\ wrote = "ok" /\ \A r \in Requests : ~Runs(r))
        => saved = [paused |-> paused, markup |-> markup]

\* Test mints, several at a time too, leave the pause as the operator set it, and
\* a restart brings it back: unless the operator or a kill came into a test mint,
\* its client went away, or a kill came before a setting was saved.
PauseComesBack ==
    (up /\ ~crossed /\ \A r \in Requests : ~Runs(r)) => paused = asked

\* What the operator has set stays in force and on disk: the two together.
SettingsLast == SettledIsSaved /\ PauseComesBack

\* operator.rs:15 "Pausing makes every rail refuse new mint quotes".
PausedSellsNothing == [][quotes' # quotes => ~asked]_vars

=============================================================================
