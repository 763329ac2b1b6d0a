---------------------------- MODULE HashrateMeter ----------------------------
(***************************************************************************)
(* The operator's charts (hashu-proxy/src/meter.rs): a task samples the    *)
(* work of the accepted shares and the ledger once a tick, for a rolling   *)
(* hashrate and for a curve of each redemption.  Shares are counted and    *)
(* credited between its readings, the clock may be set back, and a restart *)
(* leaves only the ledger.  Work is in shares of one worth.                *)
(***************************************************************************)
EXTENDS Integers, Sequences, SequencesExt, FiniteSetsExt

CONSTANTS
    Ids, Target,    \* redemptions, and the shares each is worth
    Conns,          \* connections of miners
    None,
    Window,         \* the trailing window of the hashrate
    MAX_SAMPLES,
    MAX_REDEMPTION_POINTS,
    MaxTicks,       \* bound: how often the clock changes
    MaxShares,      \* bound: accepted shares
    MaxFaults       \* bound: restarts

VARIABLES
    now,
    work,           \* ProxyMetrics::accepted_hashes
    crediting,      \* each connection's share that is counted, not yet credited: its redemption
    ledger,         \* what each redemption known has accumulated
    sampler,        \* what the task has read for the next sample
    samples, tracks,
    wound,          \* was the clock set back since the start?
    shares, ticks, faults   \* bounds

meter == <<sampler, samples, tracks>>
bounds == <<shares, ticks, faults>>
vars == <<now, wound, work, crediting, ledger, meter, bounds>>

Complete(id, acc) == acc >= Target[id]

LastOf(seq) == seq[Len(seq)]

-----------------------------------------------------------------------------
\* The rest of the proxy.

Open(id) ==
    /\ id \notin DOMAIN ledger
    /\ ledger' = [r \in DOMAIN ledger \cup {id} |-> IF r = id THEN 0 ELSE ledger[r]]
    /\ UNCHANGED <<now, wound, work, crediting, meter, bounds>>

\* A share's work is counted first, wherever it was routed; only the mutex of
\* its connection is held until it is credited ...
AddAcceptedWork(c, bound) ==
    /\ crediting[c] = None
    /\ shares < MaxShares
    /\ shares' = shares + 1
    /\ work' = work + 1
    /\ crediting' = [crediting EXCEPT ![c] = bound]
    /\ UNCHANGED <<now, wound, ledger, meter, ticks, faults>>


\* ... unless by then the redemption is complete.
Credit(c) ==
    /\ crediting[c] # None
    /\ LET id == crediting[c] IN
       ledger' = [ledger EXCEPT ![id] = IF Complete(id, @) THEN @ ELSE @ + 1]
    /\ crediting' = [crediting EXCEPT ![c] = None]
    /\ UNCHANGED <<now, wound, work, meter, bounds>>

Tick ==
    /\ ticks < MaxTicks
    /\ ticks' = ticks + 1
    /\ now' = now + 1
    /\ UNCHANGED <<wound, work, crediting, ledger, meter, shares, faults>>

SetBack ==
    /\ ticks < MaxTicks
    /\ ticks' = ticks + 1
    /\ now' \in 0..(now - 1)
    /\ wound' = TRUE
    /\ UNCHANGED <<work, crediting, ledger, meter, shares, faults>>

\* The metrics and the meter are gone; the ledger is replayed.
Restart ==
    /\ faults < MaxFaults
    /\ faults' = faults + 1
    /\ work' = 0
    /\ crediting' = [c \in Conns |-> None]
    /\ sampler' = None /\ samples' = <<>> /\ tracks' = << >>
    /\ wound' = FALSE
    /\ UNCHANGED <<now, ledger, shares, ticks>>

-----------------------------------------------------------------------------
\* sample_at.

\* The clock has moved between two ticks.
ReadTotal ==
    /\ sampler = None
    /\ samples # <<>> => LastOf(samples).t # now
    /\ sampler' = [t |-> now, total |-> work]
    /\ UNCHANGED <<now, wound, work, crediting, ledger, samples, tracks, bounds>>

\* The samples of the window, the first of which is the base.
Base(t) == SelectSeq(samples, LAMBDA s : s.t >= t - Window)

Rate(t, total) ==
    LET base == Base(t) IN
    IF base # <<>> /\ t > base[1].t
    THEN [work |-> total - base[1].total, span |-> t - base[1].t]
    ELSE [work |-> 0, span |-> 0]

Newest(n, seq) == IF Len(seq) > n THEN SubSeq(seq, Len(seq) - n + 1, Len(seq)) ELSE seq

ReadLedger ==
    /\ sampler # None /\ "redemptions" \notin DOMAIN sampler
    /\ sampler' = [t |-> sampler.t, total |-> sampler.total, redemptions |-> ledger]
    /\ UNCHANGED <<now, wound, work, crediting, ledger, samples, tracks, bounds>>

\* Every other point is kept, and the last one.
Thin(points) ==
    LET half == [i \in 1..((Len(points) + 1) \div 2) |-> points[2 * i - 1]] IN
    IF LastOf(half) = LastOf(points) THEN half ELSE Append(half, LastOf(points))

\* A curve starts where the redemption stands when it is first seen.
NewTrack(t, acc) == [opened |-> t, completed |-> None, points |-> << <<t, acc>> >>]

Grown(track, id, t, acc) ==
    LET done == Complete(id, acc)
        points == IF acc # LastOf(track.points)[2] \/ ~done
                  THEN Append(track.points, <<t, acc>>) ELSE track.points IN
    [track EXCEPT !.completed = IF done THEN t ELSE None,
                  !.points = IF Len(points) > MAX_REDEMPTION_POINTS THEN Thin(points) ELSE points]

\* The curve of a completed redemption is left alone.
TrackAfter(id, t, acc) ==
    LET track == IF id \in DOMAIN tracks THEN tracks[id] ELSE NewTrack(t, acc) IN
    IF track.completed # None THEN track ELSE Grown(track, id, t, acc)

Record ==
    /\ sampler # None /\ "redemptions" \in DOMAIN sampler
    /\ LET s == sampler IN
       /\ samples' = Newest(MAX_SAMPLES,
              Append(samples, [t |-> s.t, total |-> s.total, hashrate |-> Rate(s.t, s.total)]))
       /\ tracks' = [id \in DOMAIN s.redemptions |-> TrackAfter(id, s.t, s.redemptions[id])]
    /\ sampler' = None
    /\ UNCHANGED <<now, wound, work, crediting, ledger, bounds>>

Init ==
    /\ now = 0 /\ wound = FALSE /\ work = 0
    /\ crediting = [c \in Conns |-> None]
    /\ ledger = << >>
    /\ sampler = None /\ samples = <<>> /\ tracks = << >>
    /\ shares = 0 /\ ticks = 0 /\ faults = 0

Next ==
    \/ \E id \in Ids : Open(id)
    \/ \E c \in Conns :
          \/ \E bound \in DOMAIN ledger \cup {None} : AddAcceptedWork(c, bound)
          \/ Credit(c)
    \/ Tick \/ SetBack \/ Restart
    \/ ReadTotal \/ ReadLedger \/ Record

Spec == Init /\ [][Next]_vars

-----------------------------------------------------------------------------

TypeOK ==
    /\ crediting \in [Conns -> DOMAIN ledger \cup {None}]
    /\ DOMAIN tracks \subseteq DOMAIN ledger
    /\ Len(samples) <= MAX_SAMPLES
    /\ \A id \in DOMAIN tracks : Len(tracks[id].points) <= MAX_REDEMPTION_POINTS

\* A curve begins when the redemption was first seen, never falls, and that
\* of a completed redemption ends at what was delivered in all.
CurvesEndDelivered ==
    \A id \in DOMAIN tracks :
        LET p == tracks[id].points IN
        /\ p[1][1] = tracks[id].opened
        /\ \A i \in 1..(Len(p) - 1) : p[i][2] <= p[i + 1][2]
        /\ tracks[id].completed # None => LastOf(p)[2] = ledger[id] /\ Complete(id, ledger[id])

\* The curves of all redemptions together rise by no more than the work that
\* was accepted since the start, however shares and readings interleave.
CurvesWithinWork ==
    LET rise(id) == LastOf(tracks[id].points)[2] - tracks[id].points[1][2] IN
    MapThenSumSet(rise, DOMAIN tracks) <= work

\* meter.rs:10 "hashrate is the work over the trailing window": while the
\* clock is not set back no work older than the window is in a hashrate.
HashrateForgets ==
    ~wound =>
        \A i, j \in DOMAIN samples :
            i < j /\ samples[i].t < samples[j].t - Window =>
                samples[j].hashrate.work <= samples[j].total - samples[i].total


=============================================================================
