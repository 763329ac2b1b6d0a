--------------------------- MODULE StratumSession ---------------------------
(***************************************************************************)
(* One relayed miner connection: what the proxy knows of the pool's work   *)
(* (SessionState, hashu-proxy/src/stratum/session.rs), what it holds back  *)
(* until the miner is authorized (JobGate, replay.rs), and how forward and *)
(* update_session (connection.rs) drive both with every line.              *)
(*                                                                         *)
(* The module starts once the pool has answered mining.subscribe.  Each    *)
(* direction of a TCP connection is a queue.  The queues from the miner to *)
(* the proxy and from the proxy to the pool are left out: a line the miner *)
(* sends late or the pool takes up late is the same.  The pool and the     *)
(* miner are external; both follow Stratum V1, where a new difficulty or   *)
(* extranonce applies from the next job on.                                *)
(***************************************************************************)
EXTENDS Naturals, SequencesExt, FiniteSetsExt

CONSTANTS
    Extranonces,   \* values of extranonce1
    Difficulties,  \* share difficulties
    MAX_JOBS,      \* jobs the session retains, and jobs a pool keeps valid
    MAX_HELD,      \* notifications the gate holds
    MaxIssued,     \* bound: jobs the pool issues
    MaxChanges,    \* bound: changes of difficulty or extranonce
    MaxShares,     \* bound: shares the miner submits
    QueueBound     \* bound: lines in a queue before the writer waits

ASSUME SessionAssumption ==
    /\ {MAX_JOBS, MAX_HELD, QueueBound} \subseteq Nat \ {0}
    /\ {MaxIssued, MaxChanges, MaxShares} \subseteq Nat
    /\ Extranonces # {} /\ Difficulties \subseteq Nat \ {0} /\ Difficulties # {}

VARIABLES
    pool,      \* the pool: terms in force, valid jobs, has it been asked
    issued,    \* the terms of every job it issued
    changes,   \* bound: how often the terms changed
    shares,    \* every share submitted, and what became of it
    up,        \* lines from the pool to the proxy
    down,      \* lines from the proxy to the miner
    session,   \* SessionState: terms, and job_order
    pending,   \* pending_submits: difficulty_at_submit of unanswered shares
    bindings,  \* submit_bindings: the shares with an entry
    leaves,    \* what was committed and credited
    gate,      \* JobGate
    miner      \* the miner: terms, its jobs with theirs, is it authorized

poolVars == <<pool, issued, changes>>
proxyVars == <<session, pending, bindings, leaves, gate>>
vars == <<poolVars, shares, up, down, proxyVars, miner>>

Jobs == 1 .. MaxIssued
Terms == [en : Extranonces, diff : Difficulties]

Notifications ==
    [kind : {"notify"}, job : Jobs, clean : BOOLEAN]
    \cup [kind : {"set_difficulty"}, diff : Difficulties]
    \cup [kind : {"set_extranonce"}, en : Extranonces]
Responses ==
    [kind : {"authorize"}] \cup [kind : {"submit"}, share : 1 .. MaxShares, ok : BOOLEAN]
Lines == Notifications \cup Responses

IsNotification(line) == line.kind \in {"notify", "set_difficulty", "set_extranonce"}

\* The terms after a line.
Amended(terms, line) ==
    CASE line.kind = "set_difficulty" -> [terms EXCEPT !.diff = line.diff]
      [] line.kind = "set_extranonce" -> [terms EXCEPT !.en = line.en]
      [] OTHER -> terms

-----------------------------------------------------------------------------
\* The pool.

Send(line) == Len(up) < QueueBound /\ up' = Append(up, line)

LastN(s, n) == SubSeq(s, Max({1, Len(s) - n + 1}), Len(s))

Notify(clean) ==
    LET job == Len(issued) + 1 IN
    /\ job =< MaxIssued
    /\ Send([kind |-> "notify", job |-> job, clean |-> clean])
    /\ issued' = Append(issued, pool.terms)
    /\ pool' = [pool EXCEPT !.jobs = IF clean THEN <<job>>
                                     ELSE LastN(Append(@, job), MAX_JOBS)]
    /\ UNCHANGED <<changes, shares, down, proxyVars, miner>>

Change(line) ==
    /\ changes < MaxChanges
    /\ Amended(pool.terms, line) # pool.terms
    /\ Send(line)
    /\ pool' = [pool EXCEPT !.terms = Amended(@, line)]
    /\ changes' = changes + 1
    /\ UNCHANGED <<issued, shares, down, proxyVars, miner>>

SetDifficulty(d) == Change([kind |-> "set_difficulty", diff |-> d])
SetExtranonce(e) == Change([kind |-> "set_extranonce", en |-> e])

AnswerAuthorize ==
    /\ pool.asked
    /\ Send([kind |-> "authorize"])
    /\ pool' = [pool EXCEPT !.asked = FALSE]
    /\ UNCHANGED <<issued, changes, shares, down, proxyVars, miner>>

\* The pool may accept a share for a job that is valid and was worked under
\* the extranonce and at the difficulty the job was issued with.
Accept(s) ==
    /\ shares[s].status = "sent"
    /\ Contains(pool.jobs, shares[s].job)
    /\ shares[s].terms = issued[shares[s].job]
    /\ shares' = [shares EXCEPT ![s].status = "accepted"]
    /\ UNCHANGED <<poolVars, up, down, proxyVars, miner>>

\* The answer to an accepted share is late when its job is not valid any
\* more: the notify that ended it went out first.
AnswerSubmit(s) ==
    /\ shares[s].status \in {"sent", "accepted"}
    /\ Send([kind |-> "submit", share |-> s, ok |-> shares[s].status = "accepted"])
    /\ shares' = [shares EXCEPT ![s].status =
                     IF @ = "sent" THEN "refused"
                     ELSE IF Contains(pool.jobs, shares[s].job) THEN "granted"
                     ELSE "granted late"]
    /\ UNCHANGED <<poolVars, down, proxyVars, miner>>

-----------------------------------------------------------------------------
\* SessionState.

\* insert_job: the oldest is evicted at the cap.  The pools' job ids are new.
InsertJob(jobs, job) == LastN(Append(jobs, job), MAX_JOBS)

\* ingest_p2m, for the terms and the jobs.
Ingested(line) ==
    [terms |-> Amended(session.terms, line),
     jobs |-> IF line.kind # "notify" THEN session.jobs
              ELSE InsertJob(IF line.clean THEN <<>> ELSE session.jobs, line.job)]

Forget(f, s) == [x \in DOMAIN f \ {s} |-> f[x]]

\* A response settles a submit that is pending; others are passed on.
Settles(line) == line.kind = "submit" /\ line.share \in DOMAIN pending

\* An accepted share whose job is still known becomes a leaf, under the
\* extranonce in force now and the difficulty in force at the submit.
BecomesLeaf(line) == line.ok /\ Contains(session.jobs, shares[line.share].job)
LeafOf(s) == [share |-> s, en |-> session.terms.en, diff |-> pending[s]]

\* Mutant: a response that becomes no leaf leaves its binding behind.
UpdateSessionKeepsBinding(line) ==
    /\ session' = Ingested(line)
    /\ IF Settles(line)
       THEN /\ pending' = Forget(pending, line.share)
            /\ leaves' = IF BecomesLeaf(line) THEN Append(leaves, LeafOf(line.share)) ELSE leaves
            /\ bindings' = IF line.ok /\ ~BecomesLeaf(line) THEN bindings ELSE bindings \ {line.share}
       ELSE UNCHANGED <<pending, bindings, leaves>>

\* update_session on a line of the pool: the answer to a pending share settles it.
UpdateSession(line) ==
    /\ session' = Ingested(line)
    /\ IF Settles(line)
       THEN /\ pending' = Forget(pending, line.share)
            /\ leaves' = IF BecomesLeaf(line) THEN Append(leaves, LeafOf(line.share)) ELSE leaves
            /\ bindings' = bindings \ {line.share}
       ELSE UNCHANGED <<pending, bindings, leaves>>

-----------------------------------------------------------------------------
\* JobGate.

OfKind(lines, kind) ==
    LET upto[n \in 0 .. Len(lines)] ==
            IF n = 0 THEN <<>>
            ELSE IF lines[n].kind = kind THEN Append(upto[n - 1], lines[n])
            ELSE upto[n - 1]
    IN  upto[Len(lines)]
LatestOf(lines, kind) == LastN(OfKind(lines, kind), 1)

\* Mutant: the first difficulty and the first job are flushed.
FlushedFirst(first, lines) ==
    first \o OfKind(lines, "set_extranonce")
    \o SubSeq(OfKind(lines, "set_difficulty"), 1, Min({1, Len(OfKind(lines, "set_difficulty"))}))
    \o SubSeq(OfKind(lines, "notify"), 1, Min({1, Len(OfKind(lines, "notify"))}))

\* Mutant: the held lines go before the line that opens the gate.
FlushedBefore(first, lines) ==
    OfKind(lines, "set_extranonce") \o LatestOf(lines, "set_difficulty")
    \o LatestOf(lines, "notify") \o first

\* open_and_flush: the latest difficulty and the latest job come last, the
\* job made clean.
Flushed(first, lines) ==
    LET clean(l) == IF l.kind = "notify" THEN [l EXCEPT !.clean = TRUE] ELSE l
        notify == LatestOf(lines, "notify")
    IN  first \o OfKind(lines, "set_extranonce") \o LatestOf(lines, "set_difficulty")
        \o [i \in DOMAIN notify |-> clean(notify[i])]

Write(lines) == down' = down \o lines

OpenAndFlush(first, lines) ==
    /\ Write(Flushed(first, lines))
    /\ gate' = [open |-> TRUE, held |-> <<>>,
                authorizing |-> gate.authorizing /\ first = <<>>]

\* on_pool_line
PassGate(line) ==
    \/ /\ gate.open \/ line.kind = "submit"
       /\ Write(<<line>>)
       /\ UNCHANGED gate
    \/ /\ ~gate.open /\ IsNotification(line)
       /\ IF Len(gate.held) + 1 > MAX_HELD
          THEN OpenAndFlush(<<>>, Append(gate.held, line))
          ELSE /\ gate' = [gate EXCEPT !.held = Append(@, line)]
               /\ UNCHANGED down
    \/ /\ ~gate.open /\ line.kind = "authorize" /\ gate.authorizing
       /\ OpenAndFlush(<<line>>, gate.held)

\* forward, from the pool to the miner.
ReadPool ==
    /\ up # <<>>
    /\ Len(down) < QueueBound
    /\ UpdateSession(Head(up))
    /\ PassGate(Head(up))
    /\ up' = Tail(up)
    /\ UNCHANGED <<poolVars, shares, miner>>

-----------------------------------------------------------------------------
\* The miner, and forward from the miner to the pool.

Authorize ==
    /\ ~miner.asked
    /\ miner' = [miner EXCEPT !.asked = TRUE]
    /\ gate' = [gate EXCEPT !.authorizing = ~gate.open]
    /\ pool' = [pool EXCEPT !.asked = TRUE]
    /\ UNCHANGED <<issued, changes, shares, up, down, session, pending, bindings, leaves>>

\* A share for any job the miner has not been told to abandon.
Submit(job) ==
    LET s == Len(shares) + 1 IN
    /\ s =< MaxShares
    /\ job \in DOMAIN miner.work
    /\ shares' = Append(shares, [job |-> job, terms |-> miner.work[job], status |-> "sent"])
    /\ pending' = [x \in DOMAIN pending \cup {s} |->
                      IF x = s THEN session.terms.diff ELSE pending[x]]
    /\ bindings' = bindings \cup {s}
    /\ UNCHANGED <<poolVars, up, down, session, leaves, gate, miner>>

ReadProxy ==
    /\ down # <<>>
    /\ LET line == Head(down)
           kept == IF line.kind = "notify" /\ line.clean THEN {} ELSE DOMAIN miner.work
           jobs == IF line.kind = "notify" THEN kept \cup {line.job} ELSE kept
       IN  miner' =
               [terms |-> Amended(miner.terms, line),
                work |-> [j \in jobs |-> IF j \in kept THEN miner.work[j] ELSE miner.terms],
                asked |-> miner.asked,
                authorized |-> miner.authorized \/ line.kind = "authorize"]
    /\ down' = Tail(down)
    /\ UNCHANGED <<poolVars, shares, up, proxyVars>>

-----------------------------------------------------------------------------

\* mining.subscribe has told the miner and the session the same extranonce.
Init ==
    /\ \E terms \in Terms :
          /\ pool = [terms |-> terms, jobs |-> <<>>, asked |-> FALSE]
          /\ session = [terms |-> terms, jobs |-> <<>>]
          /\ miner = [terms |-> terms, work |-> <<>>, asked |-> FALSE, authorized |-> FALSE]
    /\ issued = <<>>
    /\ changes = 0
    /\ shares = <<>>
    /\ up = <<>>
    /\ down = <<>>
    /\ pending = <<>>
    /\ bindings = {}
    /\ leaves = <<>>
    /\ gate = [open |-> FALSE, held |-> <<>>, authorizing |-> FALSE]

Next ==
    \/ \E clean \in BOOLEAN : Notify(clean)
    \/ \E d \in Difficulties : SetDifficulty(d)
    \/ \E e \in Extranonces : SetExtranonce(e)
    \/ AnswerAuthorize
    \/ \E s \in DOMAIN shares : Accept(s) \/ AnswerSubmit(s)
    \/ ReadPool
    \/ Authorize
    \/ \E job \in Jobs : Submit(job)
    \/ ReadProxy

\* Both tasks of the proxy run on, the miner reads and asks to be authorized,
\* and the pool answers that.
Fairness ==
    /\ WF_vars(ReadPool) /\ WF_vars(ReadProxy)
    /\ WF_vars(Authorize) /\ WF_vars(AnswerAuthorize)

Spec == Init /\ [][Next]_vars /\ Fairness

-----------------------------------------------------------------------------
\* Properties.

Statuses == {"sent", "accepted", "granted", "granted late", "refused"}

TypeOK ==
    /\ pool \in [terms : Terms, jobs : Seq(Jobs), asked : BOOLEAN]
    /\ issued \in Seq(Terms)
    /\ changes \in 0 .. MaxChanges
    /\ shares \in Seq([job : Jobs, terms : Terms, status : Statuses])
    /\ up \in Seq(Lines) /\ down \in Seq(Lines)
    /\ session \in [terms : Terms, jobs : Seq(Jobs)]
    /\ pending \in [DOMAIN pending -> Difficulties] /\ DOMAIN pending \subseteq DOMAIN shares
    /\ bindings \subseteq DOMAIN shares
    /\ leaves \in Seq([share : DOMAIN shares, en : Extranonces, diff : Difficulties])
    /\ gate \in [open : BOOLEAN, held : Seq(Notifications), authorizing : BOOLEAN]
    /\ miner.work \in [DOMAIN miner.work -> Terms]

\* Work the pool accepted is not lost: unless its answer came behind the
\* notify that ended its job, an answered share has its leaf and its credit.
\* The session sees every job, also those the gate holds, and evicts none
\* that the pool still counts as valid.
AcceptedIsCommitted ==
    \A s \in DOMAIN shares :
        shares[s].status = "granted" /\ s \notin DOMAIN pending =>
            \E i \in DOMAIN leaves : leaves[i].share = s

\* submit_bindings holds an entry for exactly the submits that are pending,
\* so it does not grow whatever the pool answers.
BindingsArePending == bindings = DOMAIN pending

\* Every submit ends, and an accepted one in a leaf: the two together.
SubmitsAreSettled == AcceptedIsCommitted /\ BindingsArePending

\* The relay sees no work before the answer to its authorize, unless more
\* than MAX_HELD notifications came without one.
NoWorkBeforeAuthorize ==
    Len(issued) + changes =< MAX_HELD =>
        /\ DOMAIN miner.work # {} => miner.authorized
        /\ \A i \in DOMAIN down : IsNotification(down[i]) =>
              miner.authorized \/ \E j \in 1 .. i - 1 : down[j].kind = "authorize"

\* When every line has arrived and the gate is open, the miner mines under the
\* terms the pool has in force and on its newest job, and the session knows
\* every job the miner has a share accepted for.
MinerInStep ==
    gate.open /\ up = <<>> /\ down = <<>> =>
        /\ miner.terms = pool.terms
        /\ issued # <<>> => Len(issued) \in DOMAIN miner.work
        /\ DOMAIN miner.work \cap Range(pool.jobs) \subseteq Range(session.jobs)

\* The gate delays work and changes none: the two, and the types of the lines
\* and sessions they speak of.
GateKeepsWork == TypeOK /\ NoWorkBeforeAuthorize /\ MinerInStep

\* A session does not stay without work: every job reaches the miner, or a
\* newer one does.
WorkArrives ==
    \A job \in Jobs :
        Len(issued) >= job ~> \E j \in DOMAIN miner.work : j >= job

\* session.rs:3-4, connection.rs:322-335: the leaf of an accepted share is the
\* share the pool accepted, under the extranonce and at the difficulty of its
\* job.
LeafIsTheShare ==
    \A i \in DOMAIN leaves :
        [en |-> leaves[i].en, diff |-> leaves[i].diff] = issued[shares[leaves[i].share].job]

=============================================================================
