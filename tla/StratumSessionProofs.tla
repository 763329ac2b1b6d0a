------------------------ MODULE StratumSessionProofs ------------------------
(***************************************************************************)
(* Proofs that a relayed connection settles every submit and that its gate *)
(* keeps the work, for any terms, caps, numbers of jobs and shares, and    *)
(* lengths of the queues.                                                  *)
(*                                                                         *)
(* Submits.  The session inserts and evicts jobs by the rule the pool      *)
(* follows, so it is the pool some lines ago: reading the lines in flight  *)
(* would bring it to the pool's jobs.  The invariant names what the        *)
(* session will know after each of those lines, and claims that an         *)
(* accepted share whose answer is one of them has its job among that.      *)
(*                                                                         *)
(* Work.  A line is in one of three sequences: on its way from the pool,   *)
(* held by the gate, on its way to the miner.  The invariant looks for the *)
(* newest line of a kind in that order and claims that it says what the    *)
(* pool has in force, or that the miner has read it.                       *)
(***************************************************************************)
EXTENDS StratumSession, SequenceTheorems, Sums, TLAPS

\* What the session knows of the jobs after one more line.
After(jobs, line) ==
    IF line.kind # "notify" THEN jobs
    ELSE InsertJob(IF line.clean THEN <<>> ELSE jobs, line.job)

\* The answer to share s.
IsAnswer(line, s) == line.kind = "submit" /\ line.share = s

SharesOK ==
    /\ \E S : up \in Seq(S)
    /\ \E S : leaves \in Seq(S)
    /\ \E T : shares \in Seq([job : Jobs, terms : T, status : Statuses])
    /\ "jobs" \in DOMAIN pool
    /\ DOMAIN pending \subseteq DOMAIN shares

\* known[k] is what the session will know after the first k lines in flight.
Trails(known, lines, from, to, sh) ==
    /\ known[0] = from
    /\ known[Len(lines)] = to
    /\ \A k \in 1 .. Len(lines) : known[k] = After(known[k - 1], lines[k])
    /\ \A k \in 1 .. Len(lines), s \in DOMAIN sh :
          IsAnswer(lines[k], s) /\ sh[s].status = "granted" =>
              Contains(known[k], sh[s].job)

InStep == \E known : Trails(known, up, session.jobs, pool.jobs, shares)

\* A share is pending until its one answer is read.
AnswersOK ==
    /\ \A s \in DOMAIN shares :
          shares[s].status \in {"sent", "accepted"} => s \in DOMAIN pending
    /\ \A k \in 1 .. Len(up) : up[k].kind = "submit" =>
          LET s == up[k].share IN
          /\ s \in DOMAIN pending
          /\ shares[s].status \notin {"sent", "accepted"}
          /\ shares[s].status = "granted" => up[k].ok
    /\ \A j, k \in 1 .. Len(up) :
          (up[j].kind = "submit" /\ IsAnswer(up[k], up[j].share)) => j = k

SessionInv ==
    /\ SharesOK
    /\ AnswersOK
    /\ InStep
    /\ SubmitsAreSettled

-----------------------------------------------------------------------------
\* Lemmas about lines.

\* A clean job is the only one known, to the pool as to the session.
LEMMA CleanJob ==
  ASSUME NEW job
  PROVE  InsertJob(<<>>, job) = <<job>>
<1> DEFINE m == 1 - MAX_JOBS + 1
<1>1. MAX_JOBS \in Nat \ {0}
  BY SessionAssumption
<1>2. 1 \in {1, m} /\ \A y \in {1, m} : 1 >= y
  BY <1>1
<1>3. Max({1, m}) = 1
  <2> HIDE DEF m
  <2>1. m \in Int
    BY <1>1 DEF m
  <2>2. \A x \in {1, m} : (\A y \in {1, m} : x >= y) => x = 1
    BY <1>2, <2>1
  <2>3. QED
    BY <1>2, <2>2 DEF Max
<1>4. Append(<<>>, job) = <<job>> /\ Len(<<job>>) = 1
  OBVIOUS
<1>5. SubSeq(<<job>>, 1, 1) = <<job>>
  <2>1. <<job>> \in Seq({job})
    OBVIOUS
  <2>2. QED
    BY <1>4, <2>1, SubSeqFull
<1>6. QED
  BY <1>3, <1>4, <1>5 DEF InsertJob, LastN

\* A line more in flight: those before it keep their places.
LEMMA Appended ==
  ASSUME \E S : up \in Seq(S), NEW line, up' = Append(up, line)
  PROVE  /\ Len(up) \in Nat /\ Len(up') = Len(up) + 1
         /\ \A k \in 1 .. Len(up) : up'[k] = up[k]
         /\ up'[Len(up) + 1] = line
         /\ \E S : up' \in Seq(S)
<1>1. PICK S : up \in Seq(S)
  OBVIOUS
<1>2. up \in Seq(S \cup {line}) /\ up' \in Seq(S \cup {line})
  BY <1>1
<1>3. QED
  BY <1>1, <1>2

\* A line of the pool that is no answer, sent with the jobs the session will
\* know after it.
LEMMA SendsNoAnswer ==
  ASSUME SessionInv, NEW line, line.kind # "submit", up' = Append(up, line),
         pool'.jobs = After(pool.jobs, line), "jobs" \in DOMAIN pool',
         UNCHANGED <<shares, session, pending, bindings, leaves>>
  PROVE  SessionInv'
<1> DEFINE n == Len(up)
<1>1. /\ n \in Nat /\ Len(up') = n + 1
      /\ \A k \in 1 .. n : up'[k] = up[k]
      /\ up'[n + 1] = line
      /\ \E S : up' \in Seq(S)
  BY Appended DEF SessionInv, SharesOK
<1>2. SharesOK'
  BY <1>1 DEF SessionInv, SharesOK
<1>3. AnswersOK'
  BY <1>1 DEF SessionInv, AnswersOK, IsAnswer
<1>4. PICK known : Trails(known, up, session.jobs, pool.jobs, shares)
  BY DEF SessionInv, InStep
<1> DEFINE next == [k \in 0 .. n + 1 |-> IF k = n + 1 THEN pool'.jobs ELSE known[k]]
<1>5. /\ next[0] = known[0] /\ next[n] = known[n] /\ next[n + 1] = pool'.jobs
      /\ \A k \in 1 .. n : next[k] = known[k] /\ next[k - 1] = known[k - 1]
  BY <1>1
<1> HIDE DEF next, n
<1>6. \A k \in 1 .. n + 1 : next[k] = After(next[k - 1], up'[k])
  <2>1. \A k \in 1 .. n : next[k] = After(next[k - 1], up'[k])
    BY <1>1, <1>4, <1>5 DEF Trails, n
  <2>2. next[n + 1] = After(next[n], up'[n + 1]) /\ (n + 1) - 1 = n
    BY <1>1, <1>4, <1>5 DEF Trails, n
  <2>3. QED
    BY <1>1, <2>1, <2>2
<1>7. \A k \in 1 .. n + 1, s \in DOMAIN shares :
         IsAnswer(up'[k], s) /\ shares[s].status = "granted" =>
             Contains(next[k], shares[s].job)
  BY <1>1, <1>4, <1>5 DEF Trails, n, IsAnswer
<1>8. Trails(next, up', session'.jobs, pool'.jobs, shares')
  BY <1>1, <1>4, <1>5, <1>6, <1>7 DEF Trails, n
<1>9. SubmitsAreSettled'
  BY DEF SessionInv, SubmitsAreSettled, AcceptedIsCommitted, BindingsArePending
<1>10. QED
  BY <1>2, <1>3, <1>8, <1>9 DEF SessionInv, InStep

-----------------------------------------------------------------------------
\* Lemmas about shares.

\* Share s gets a status and keeps its job; the others stay.
Marked(s, status) ==
    /\ \E T : shares' \in Seq([job : Jobs, terms : T, status : Statuses])
    /\ DOMAIN shares' = DOMAIN shares
    /\ shares'[s].status = status /\ shares'[s].job = shares[s].job
    /\ \A x \in DOMAIN shares \ {s} : shares'[x] = shares[x]

\* EXCEPT on one share.
LEMMA StatusOfOne ==
  ASSUME NEW T, NEW old \in [job : Jobs, terms : T, status : Statuses],
         NEW status \in Statuses, NEW share, share = [old EXCEPT !.status = status]
  PROVE  /\ share \in [job : Jobs, terms : T, status : Statuses]
         /\ share.status = status /\ share.job = old.job
  OBVIOUS

\* One share is replaced.
Replaced(f, g, s, share) == g = [x \in DOMAIN f |-> IF x = s THEN share ELSE f[x]]

\* A replaced share that differs in its status only.
LEMMA OneShareChanged ==
  ASSUME NEW T, shares \in Seq([job : Jobs, terms : T, status : Statuses]),
         NEW s \in DOMAIN shares, NEW status, NEW share,
         shares[s] \in [job : Jobs, terms : T, status : Statuses] =>
            /\ share \in [job : Jobs, terms : T, status : Statuses]
            /\ share.status = status /\ share.job = shares[s].job,
         Replaced(shares, shares', s, share)
  PROVE  Marked(s, status)
<1>1. shares[s] \in [job : Jobs, terms : T, status : Statuses]
  <2>1. DOMAIN shares = 1 .. Len(shares)
    OBVIOUS
  <2>2. QED
    BY <2>1, ElementOfSeq
<1>2. /\ share \in [job : Jobs, terms : T, status : Statuses]
      /\ share.status = status /\ share.job = shares[s].job
  BY <1>1
<1>3. shares' \in Seq([job : Jobs, terms : T, status : Statuses])
  BY <1>2 DEF Replaced
<1>4. QED
  BY <1>2, <1>3 DEF Marked, Replaced

\* What the pool does to a share in Accept and AnswerSubmit.
LEMMA StatusIsMarked ==
  ASSUME \E T : shares \in Seq([job : Jobs, terms : T, status : Statuses]),
         NEW s \in DOMAIN shares, NEW status \in Statuses,
         shares' = [shares EXCEPT ![s].status = status]
  PROVE  Marked(s, status)
<1>1. PICK T : shares \in Seq([job : Jobs, terms : T, status : Statuses])
  BY Zenon
<1> DEFINE share == [shares[s] EXCEPT !.status = status]
<1>2. Replaced(shares, shares', s, share)
  BY Zenon DEF Replaced
<1>3. shares[s] \in [job : Jobs, terms : T, status : Statuses] =>
         /\ share \in [job : Jobs, terms : T, status : Statuses]
         /\ share.status = status /\ share.job = shares[s].job
  <2> SUFFICES ASSUME shares[s] \in [job : Jobs, terms : T, status : Statuses]
               PROVE  /\ share \in [job : Jobs, terms : T, status : Statuses]
                      /\ share.status = status /\ share.job = shares[s].job
    BY Zenon
  <2>1. \A old \in [job : Jobs, terms : T, status : Statuses] : \A new :
           new = [old EXCEPT !.status = status] =>
             /\ new \in [job : Jobs, terms : T, status : Statuses]
             /\ new.status = status /\ new.job = old.job
    BY StatusOfOne, Zenon
  <2>2. QED
    BY <2>1, Zenon
<1> HIDE DEF share
<1>4. QED
  BY <1>1, <1>2, <1>3, OneShareChanged, Zenon
-----------------------------------------------------------------------------
\* One lemma per action.

\* mining.subscribe leaves nothing in flight.
LEMMA InitInv == Init => SessionInv
<1> SUFFICES ASSUME Init PROVE SessionInv
  OBVIOUS
<1>1. /\ up = <<>> /\ leaves = <<>> /\ shares = <<>> /\ pending = <<>> /\ bindings = {}
      /\ session.jobs = <<>> /\ pool.jobs = <<>> /\ "jobs" \in DOMAIN pool
  BY DEF Init
<1>2. /\ up \in Seq({}) /\ leaves \in Seq({}) /\ Len(up) = 0
      /\ shares \in Seq([job : Jobs, terms : {}, status : Statuses])
      /\ DOMAIN shares = {} /\ DOMAIN pending = {}
  BY <1>1
<1>3. SharesOK
  <2>1. \E T : shares \in Seq([job : Jobs, terms : T, status : Statuses])
    BY <1>2
  <2>2. QED
    BY <1>1, <1>2, <2>1 DEF SharesOK
<1>4. AnswersOK /\ SubmitsAreSettled
  BY <1>1, <1>2 DEF AnswersOK, SubmitsAreSettled, AcceptedIsCommitted, BindingsArePending
<1>5. Trails([k \in {0} |-> <<>>], up, session.jobs, pool.jobs, shares)
  BY <1>1, <1>2 DEF Trails
<1>6. QED
  BY <1>3, <1>4, <1>5 DEF SessionInv, InStep

\* The pool sends a job: it is the only valid one if it is clean.
LEMMA NotifyStep ==
  ASSUME SessionInv, NEW clean \in BOOLEAN, Notify(clean)
  PROVE  SessionInv'
<1> DEFINE job == Len(issued) + 1
           line == [kind |-> "notify", job |-> job, clean |-> clean]
<1>1. /\ up' = Append(up, line)
      /\ pool' = [pool EXCEPT !.jobs = IF clean THEN <<job>>
                                       ELSE LastN(Append(pool.jobs, job), MAX_JOBS)]
      /\ UNCHANGED <<shares, session, pending, bindings, leaves>>
  BY DEF Notify, Send, proxyVars
<1>2. /\ line.kind = "notify" /\ line.job = job /\ line.clean = clean
      /\ "jobs" \in DOMAIN pool
  BY DEF SessionInv, SharesOK
<1>3. After(pool.jobs, line) = IF clean THEN <<job>> ELSE LastN(Append(pool.jobs, job), MAX_JOBS)
  BY <1>2, CleanJob DEF After, InsertJob
<1>4. pool'.jobs = After(pool.jobs, line) /\ "jobs" \in DOMAIN pool'
  BY <1>1, <1>2, <1>3
<1>5. QED
  BY <1>1, <1>2, <1>4, SendsNoAnswer

\* The pool sends new terms or the answer to authorize: its jobs stay.
LEMMA OtherLineStep ==
  ASSUME SessionInv, NEW line, line.kind \notin {"submit", "notify"},
         up' = Append(up, line), pool'.jobs = pool.jobs, DOMAIN pool' = DOMAIN pool,
         UNCHANGED <<shares, session, pending, bindings, leaves>>
  PROVE  SessionInv'
<1>1. pool'.jobs = After(pool.jobs, line)
  BY DEF After
<1>2. "jobs" \in DOMAIN pool'
  BY DEF SessionInv, SharesOK
<1>3. QED
  BY <1>1, <1>2, SendsNoAnswer

\* The pool accepts a share: its answer is not out yet.
LEMMA ShareAccepted ==
  ASSUME SessionInv, NEW s \in DOMAIN shares,
         shares[s].status = "sent", Marked(s, "accepted"),
         UNCHANGED <<up, pool, session, pending, bindings, leaves>>
  PROVE  SessionInv'
<1>1. SharesOK'
  BY DEF SessionInv, SharesOK, Marked
<1>2. AnswersOK'
  BY DEF SessionInv, SharesOK, AnswersOK, IsAnswer, Marked
<1>3. InStep'
  <2>1. PICK known : Trails(known, up, session.jobs, pool.jobs, shares)
    BY DEF SessionInv, InStep
  <2>2. Trails(known, up', session'.jobs, pool'.jobs, shares')
    BY <2>1 DEF Trails, Marked
  <2>3. QED
    BY <2>2 DEF InStep
<1>4. SubmitsAreSettled'
  BY DEF SessionInv, SubmitsAreSettled, AcceptedIsCommitted, BindingsArePending, Marked
<1>5. QED
  BY <1>1, <1>2, <1>3, <1>4 DEF SessionInv

\* Accept is such a step.
LEMMA AcceptStep ==
  ASSUME SessionInv, NEW s \in DOMAIN shares, Accept(s)
  PROVE  SessionInv'
<1>1. /\ shares[s].status = "sent"
      /\ shares' = [shares EXCEPT ![s].status = "accepted"]
      /\ UNCHANGED <<up, pool, session, pending, bindings, leaves>>
  BY Zenon DEF Accept, poolVars, proxyVars
<1>2. "accepted" \in Statuses
  BY Zenon DEF Statuses
<1>3. Marked(s, "accepted")
  BY <1>1, <1>2, StatusIsMarked, Zenon DEF SessionInv, SharesOK
<1>4. QED
  BY <1>1, <1>3, ShareAccepted, Zenon

\* The answer to a share goes out.  If it is granted its job is valid, so the
\* session will know the job after the lines before the answer.
LEMMA AnswerSent ==
  ASSUME SessionInv, NEW s \in DOMAIN shares, NEW line,
         line.kind = "submit", line.share = s,
         shares[s].status \in {"sent", "accepted"},
         NEW new, new # "sent" /\ new # "accepted",
         new = "granted" => line.ok /\ Contains(pool.jobs, shares[s].job),
         Marked(s, new),
         up' = Append(up, line),
         UNCHANGED <<pool, session, pending, bindings, leaves>>
  PROVE  SessionInv'
<1> DEFINE n == Len(up)
<1>4. /\ DOMAIN shares' = DOMAIN shares
      /\ shares'[s].status = new /\ shares'[s].job = shares[s].job
      /\ \A x \in DOMAIN shares \ {s} : shares'[x] = shares[x]
  BY DEF Marked
<1>5. /\ n \in Nat /\ Len(up') = n + 1
      /\ \A k \in 1 .. n : up'[k] = up[k]
      /\ up'[n + 1] = line
      /\ \E S : up' \in Seq(S)
  BY Appended DEF SessionInv, SharesOK
<1> HIDE DEF n
<1>7. SharesOK'
  BY <1>5 DEF SessionInv, SharesOK, Marked
<1>8. s \in DOMAIN pending
  BY DEF SessionInv, AnswersOK
<1>9. \A k \in 1 .. n : up[k].kind = "submit" => up[k].share # s
  BY DEF SessionInv, AnswersOK, n
<1>10. AnswersOK'
  <2>1. ASSUME NEW k \in 1 .. n + 1, up'[k].kind = "submit"
        PROVE  LET x == up'[k].share IN
               /\ x \in DOMAIN pending
               /\ shares'[x].status \notin {"sent", "accepted"}
               /\ shares'[x].status = "granted" => up'[k].ok
    <3>1. CASE k \in 1 .. n
      BY <1>4, <1>5, <1>9, <2>1, <3>1 DEF SessionInv, SharesOK, AnswersOK, n
    <3>2. CASE k = n + 1
      BY <1>4, <1>5, <1>8, <3>2
    <3>3. QED
      BY <1>5, <3>1, <3>2
  <2>2. ASSUME NEW j \in 1 .. n + 1, NEW k \in 1 .. n + 1,
               up'[j].kind = "submit", IsAnswer(up'[k], up'[j].share)
        PROVE  j = k
    <3>1. CASE j \in 1 .. n /\ k \in 1 .. n
      BY <1>5, <2>2, <3>1 DEF SessionInv, AnswersOK, n
    <3>2. CASE j = n + 1 \/ k = n + 1
      BY <1>5, <1>9, <2>2, <3>2 DEF IsAnswer
    <3>3. QED
      BY <1>5, <3>1, <3>2
  <2>3. \A x \in DOMAIN shares' :
           shares'[x].status \in {"sent", "accepted"} => x \in DOMAIN pending
    BY <1>4, <1>8 DEF SessionInv, AnswersOK
  <2>4. QED
    BY <1>5, <2>1, <2>2, <2>3 DEF AnswersOK
<1>11. InStep'
  <2>1. PICK known : Trails(known, up, session.jobs, pool.jobs, shares)
    BY DEF SessionInv, InStep
  <2> DEFINE next == [k \in 0 .. n + 1 |-> IF k = n + 1 THEN pool.jobs ELSE known[k]]
  <2>2. /\ next[0] = known[0] /\ next[n] = known[n] /\ next[n + 1] = pool.jobs
        /\ \A k \in 1 .. n : next[k] = known[k] /\ next[k - 1] = known[k - 1]
    BY <1>5
  <2> HIDE DEF next
  <2>3. \A k \in 1 .. n + 1 : next[k] = After(next[k - 1], up'[k])
    <3>1. \A k \in 1 .. n : next[k] = After(next[k - 1], up'[k])
      BY <1>5, <2>1, <2>2 DEF Trails, n
    <3>2. next[n + 1] = After(next[n], up'[n + 1]) /\ (n + 1) - 1 = n
      BY <1>5, <2>1, <2>2 DEF Trails, n, After
    <3>3. QED
      BY <1>5, <3>1, <3>2
  <2>4. ASSUME NEW k \in 1 .. n + 1, NEW x \in DOMAIN shares',
               IsAnswer(up'[k], x), shares'[x].status = "granted"
        PROVE  Contains(next[k], shares'[x].job)
    <3>1. CASE k \in 1 .. n
      <4>1. IsAnswer(up[k], x) /\ x # s /\ shares'[x] = shares[x]
        BY <1>4, <1>5, <1>9, <2>4, <3>1 DEF IsAnswer
      <4>2. QED
        BY <1>4, <2>1, <2>2, <2>4, <3>1, <4>1 DEF Trails, n
    <3>2. CASE k = n + 1
      BY <1>4, <1>5, <2>2, <2>4, <3>2 DEF IsAnswer
    <3>3. QED
      BY <1>5, <3>1, <3>2
  <2>5. Trails(next, up', session'.jobs, pool'.jobs, shares')
    BY <1>5, <2>1, <2>2, <2>3, <2>4 DEF Trails, n
  <2>6. QED
    BY <2>5 DEF InStep
<1>12. SubmitsAreSettled'
  BY <1>4, <1>8 DEF SessionInv, SubmitsAreSettled, AcceptedIsCommitted, BindingsArePending
<1>13. QED
  BY <1>7, <1>10, <1>11, <1>12 DEF SessionInv

\* The pool answers a share: refused if it had not accepted it, and late if
\* the job is not valid any more.
LEMMA AnswerSubmitStep ==
  ASSUME SessionInv, NEW s \in DOMAIN shares, AnswerSubmit(s)
  PROVE  SessionInv'
<1> DEFINE line == [kind |-> "submit", share |-> s, ok |-> shares[s].status = "accepted"]
           new == IF shares[s].status = "sent" THEN "refused"
                  ELSE IF Contains(pool.jobs, shares[s].job) THEN "granted"
                  ELSE "granted late"
<1>1. /\ shares[s].status \in {"sent", "accepted"}
      /\ up' = Append(up, line)
      /\ shares' = [shares EXCEPT ![s].status = new]
      /\ UNCHANGED <<pool, session, pending, bindings, leaves>>
  BY Zenon DEF AnswerSubmit, Send, poolVars, proxyVars
<1>2. /\ line.kind = "submit" /\ line.share = s
      /\ line.ok <=> shares[s].status = "accepted"
  BY Zenon
<1>3. /\ new # "sent" /\ new # "accepted" /\ new \in Statuses
      /\ new = "granted" => shares[s].status = "accepted" /\ Contains(pool.jobs, shares[s].job)
  BY <1>1, Zenon DEF Statuses
<1> HIDE DEF line, new
<1>4. Marked(s, new)
  BY <1>1, <1>3, StatusIsMarked, Zenon DEF SessionInv, SharesOK
<1>5. new = "granted" => line.ok /\ Contains(pool.jobs, shares[s].job)
  BY <1>2, <1>3, Zenon
<1>6. QED
  BY <1>1, <1>2, <1>3, <1>4, <1>5, AnswerSent, Zenon

\* The pool changes its terms, or answers authorize.
LEMMA ChangeStep ==
  ASSUME SessionInv, NEW line, line.kind \notin {"submit", "notify"}, Change(line)
  PROVE  SessionInv'
<1>1. /\ up' = Append(up, line)
      /\ pool' = [pool EXCEPT !.terms = Amended(pool.terms, line)]
      /\ UNCHANGED <<shares, session, pending, bindings, leaves>>
  BY Zenon DEF Change, Send, proxyVars
<1>2. pool'.jobs = pool.jobs /\ DOMAIN pool' = DOMAIN pool
  BY <1>1, Zenon DEF SessionInv, SharesOK
<1>3. QED
  BY <1>1, <1>2, OtherLineStep, Zenon

\* The answer to mining.authorize is such a line.
LEMMA AnswerAuthorizeStep ==
  ASSUME SessionInv, AnswerAuthorize
  PROVE  SessionInv'
<1> DEFINE line == [kind |-> "authorize"]
<1>1. /\ up' = Append(up, line)
      /\ pool' = [pool EXCEPT !.asked = FALSE]
      /\ UNCHANGED <<shares, session, pending, bindings, leaves>>
  BY Zenon DEF AnswerAuthorize, Send, proxyVars
<1>2. pool'.jobs = pool.jobs /\ DOMAIN pool' = DOMAIN pool
  BY <1>1, Zenon DEF SessionInv, SharesOK
<1>3. line.kind \notin {"submit", "notify"}
  OBVIOUS
<1> HIDE DEF line
<1>4. QED
  BY <1>1, <1>2, <1>3, OtherLineStep, Zenon

\* Nothing the invariant speaks of moves.
LEMMA ElsewhereStep ==
  ASSUME SessionInv, pool'.jobs = pool.jobs, DOMAIN pool' = DOMAIN pool,
         UNCHANGED <<up, shares, session, pending, bindings, leaves>>
  PROVE  SessionInv'
<1>1. SharesOK' /\ AnswersOK' /\ SubmitsAreSettled'
  BY DEF SessionInv, SharesOK, AnswersOK, IsAnswer, SubmitsAreSettled,
         AcceptedIsCommitted, BindingsArePending
<1>2. PICK known : Trails(known, up, session.jobs, pool.jobs, shares)
  BY DEF SessionInv, InStep
<1>3. Trails(known, up', session'.jobs, pool'.jobs, shares')
  BY <1>2
<1>4. QED
  BY <1>1, <1>3 DEF SessionInv, InStep

\* The first line in flight is read.
LEMMA Taken ==
  ASSUME \E S : up \in Seq(S), up # <<>>, up' = Tail(up)
  PROVE  /\ Len(up) \in Nat \ {0} /\ Len(up') = Len(up) - 1 /\ Head(up) = up[1]
         /\ \A k \in 1 .. Len(up) - 1 : up'[k] = up[k + 1]
         /\ \E S : up' \in Seq(S)
<1>1. PICK S : up \in Seq(S)
  OBVIOUS
<1>2. QED
  BY <1>1

\* The session reads a line: it knows what it was to know after it.
LEMMA SessionReads ==
  ASSUME SessionInv, up # <<>>, up' = Tail(up),
         session'.jobs = After(session.jobs, up[1]),
         UNCHANGED <<pool, shares>>
  PROVE  InStep'
<1> DEFINE n == Len(up)
<1>1. /\ n \in Nat \ {0} /\ Len(up') = n - 1
      /\ \A k \in 1 .. n - 1 : up'[k] = up[k + 1]
  BY Taken DEF SessionInv, SharesOK
<1>2. PICK known : Trails(known, up, session.jobs, pool.jobs, shares)
  BY DEF SessionInv, InStep
<1> DEFINE next == [k \in 0 .. n - 1 |-> known[k + 1]]
<1>3. /\ next[0] = known[1] /\ next[n - 1] = known[n]
      /\ \A k \in 1 .. n - 1 : next[k] = known[k + 1] /\ next[k - 1] = known[k]
  BY <1>1
<1> HIDE DEF next, n
<1>4. known[1] = After(known[0], up[1]) /\ known[0] = session.jobs /\ known[n] = pool.jobs
  BY <1>1, <1>2 DEF Trails, n
<1>5. \A k \in 1 .. n - 1 : next[k] = After(next[k - 1], up'[k])
  <2> TAKE k \in 1 .. n - 1
  <2>1. k + 1 \in 1 .. n /\ (k + 1) - 1 = k
    BY <1>1
  <2>2. known[k + 1] = After(known[k], up[k + 1])
    BY <1>2, <2>1 DEF Trails, n
  <2>3. QED
    BY <1>1, <1>3, <2>2
<1>6. \A k \in 1 .. n - 1, s \in DOMAIN shares :
         IsAnswer(up'[k], s) /\ shares[s].status = "granted" =>
             Contains(next[k], shares[s].job)
  <2> TAKE k \in 1 .. n - 1, s \in DOMAIN shares
  <2>1. k + 1 \in 1 .. n
    BY <1>1
  <2>2. IsAnswer(up[k + 1], s) /\ shares[s].status = "granted" =>
           Contains(known[k + 1], shares[s].job)
    BY <1>2, <2>1 DEF Trails, n
  <2>3. QED
    BY <1>1, <1>3, <2>2
<1>7. Trails(next, up', session'.jobs, pool'.jobs, shares')
  BY <1>1, <1>3, <1>4, <1>5, <1>6 DEF Trails
<1>8. QED
  BY <1>7 DEF InStep

\* A line that is no answer is passed on.
LEMMA PassedOn ==
  ASSUME SessionInv, up # <<>>, up' = Tail(up), up[1].kind # "submit",
         session'.jobs = After(session.jobs, up[1]),
         UNCHANGED <<pool, shares, pending, bindings, leaves>>
  PROVE  SessionInv'
<1> DEFINE n == Len(up)
<1>1. /\ n \in Nat \ {0} /\ Len(up') = n - 1
      /\ \A k \in 1 .. n - 1 : up'[k] = up[k + 1]
      /\ \E S : up' \in Seq(S)
  BY Taken DEF SessionInv, SharesOK
<1> HIDE DEF n
<1>2. SharesOK'
  BY <1>1 DEF SessionInv, SharesOK
<1>3. \A k \in 1 .. n - 1 : k + 1 \in 1 .. n
  BY <1>1
<1>4. AnswersOK'
  <2>1. \A s \in DOMAIN shares' :
           shares'[s].status \in {"sent", "accepted"} => s \in DOMAIN pending'
    BY DEF SessionInv, AnswersOK
  <2>2. ASSUME NEW k \in 1 .. n - 1, up'[k].kind = "submit"
        PROVE  LET s == up'[k].share IN
               /\ s \in DOMAIN pending
               /\ shares[s].status \notin {"sent", "accepted"}
               /\ shares[s].status = "granted" => up'[k].ok
    BY <1>1, <1>3, <2>2 DEF SessionInv, AnswersOK, n
  <2>3. ASSUME NEW j \in 1 .. n - 1, NEW k \in 1 .. n - 1,
               up'[j].kind = "submit", IsAnswer(up'[k], up'[j].share)
        PROVE  j = k
    <3>1. j + 1 = k + 1
      BY <1>1, <1>3, <2>3 DEF SessionInv, AnswersOK, n
    <3>2. QED
      BY <1>1, <3>1
  <2>4. QED
    BY <1>1, <2>1, <2>2, <2>3 DEF AnswersOK
<1>5. SubmitsAreSettled'
  BY DEF SessionInv, SubmitsAreSettled, AcceptedIsCommitted, BindingsArePending
<1>6. QED
  BY <1>2, <1>4, <1>5, SessionReads DEF SessionInv

\* The one answer to a pending share settles it.  If the share was granted in
\* time its job is known, so it becomes a leaf.
LEMMA AnswerRead ==
  ASSUME SessionInv, up # <<>>, up' = Tail(up), up[1].kind = "submit",
         NEW s, s = up[1].share, NEW leaf, leaf.share = s,
         session'.jobs = After(session.jobs, up[1]),
         DOMAIN pending' = DOMAIN pending \ {s},
         bindings' = bindings \ {s},
         leaves' = Append(leaves, leaf) \/ leaves' = leaves,
         shares[s].status = "granted" => leaves' = Append(leaves, leaf),
         UNCHANGED <<pool, shares>>
  PROVE  SessionInv'
<1> DEFINE n == Len(up)
<1>1. /\ n \in Nat \ {0} /\ Len(up') = n - 1
      /\ \A k \in 1 .. n - 1 : up'[k] = up[k + 1]
      /\ \E S : up' \in Seq(S)
  BY Taken DEF SessionInv, SharesOK
<1>2. s \in DOMAIN pending /\ shares[s].status \notin {"sent", "accepted"}
  BY <1>1 DEF SessionInv, AnswersOK
<1> HIDE DEF n
<1>3. /\ \E S : leaves' \in Seq(S)
      /\ \A i \in DOMAIN leaves : i \in DOMAIN leaves' /\ leaves'[i] = leaves[i]
      /\ leaves' = Append(leaves, leaf) =>
            \E i \in DOMAIN leaves' : leaves'[i].share = s
  <2>1. PICK S : leaves \in Seq(S)
    BY DEF SessionInv, SharesOK
  <2>2. leaves \in Seq(S \cup {leaf})
    BY <2>1
  <2>3. CASE leaves' = leaves
    BY <2>2, <2>3
  <2>4. CASE leaves' = Append(leaves, leaf)
    <3>1. /\ leaves' \in Seq(S \cup {leaf})
          /\ DOMAIN leaves = 1 .. Len(leaves) /\ Len(leaves) \in Nat
          /\ DOMAIN leaves' = 1 .. Len(leaves) + 1
          /\ leaves'[Len(leaves) + 1] = leaf
          /\ \A i \in 1 .. Len(leaves) : leaves'[i] = leaves[i]
      BY <2>2, <2>4
    <3>2. Len(leaves) + 1 \in DOMAIN leaves'
      BY <3>1
    <3>3. \A i \in DOMAIN leaves : i \in DOMAIN leaves' /\ leaves'[i] = leaves[i]
      BY <3>1
    <3>4. QED
      BY <3>1, <3>2, <3>3
  <2>5. QED
    BY <2>3, <2>4
<1>4. SharesOK'
  BY <1>1, <1>3 DEF SessionInv, SharesOK
<1>5. \A k \in 1 .. n - 1 : k + 1 \in 1 .. n /\ k + 1 # 1
  BY <1>1
<1>6. AnswersOK'
  <2>1. \A x \in DOMAIN shares' :
           shares'[x].status \in {"sent", "accepted"} => x \in DOMAIN pending'
    BY <1>2 DEF SessionInv, AnswersOK
  <2>2. ASSUME NEW k \in 1 .. n - 1, up'[k].kind = "submit"
        PROVE  LET x == up'[k].share IN
               /\ x \in DOMAIN pending'
               /\ shares[x].status \notin {"sent", "accepted"}
               /\ shares[x].status = "granted" => up'[k].ok
    <3>1. k + 1 \in 1 .. n /\ 1 \in 1 .. n /\ up'[k] = up[k + 1]
      BY <1>1, <1>5
    <3>2. up'[k].share # s
      BY <1>1, <1>5, <2>2, <3>1 DEF SessionInv, AnswersOK, IsAnswer, n
    <3>3. QED
      BY <2>2, <3>1, <3>2 DEF SessionInv, AnswersOK, n
  <2>3. ASSUME NEW j \in 1 .. n - 1, NEW k \in 1 .. n - 1,
               up'[j].kind = "submit", IsAnswer(up'[k], up'[j].share)
        PROVE  j = k
    <3>1. j + 1 = k + 1
      BY <1>1, <1>5, <2>3 DEF SessionInv, AnswersOK, n
    <3>2. QED
      BY <1>1, <3>1
  <2>4. QED
    BY <1>1, <2>1, <2>2, <2>3 DEF AnswersOK
<1>7. AcceptedIsCommitted'
  <2>1. SUFFICES ASSUME NEW x \in DOMAIN shares, shares[x].status = "granted",
                        x \notin DOMAIN pending'
                 PROVE  \E i \in DOMAIN leaves' : leaves'[i].share = x
    BY DEF AcceptedIsCommitted
  <2>2. CASE x = s
    BY <1>3, <2>1, <2>2
  <2>3. CASE x # s
    <3>1. \E i \in DOMAIN leaves : leaves[i].share = x
      BY <2>1, <2>3 DEF SessionInv, SubmitsAreSettled, AcceptedIsCommitted
    <3>2. QED
      BY <1>3, <3>1
  <2>4. QED
    BY <2>2, <2>3
<1>8. BindingsArePending'
  BY DEF SessionInv, SubmitsAreSettled, BindingsArePending
<1>9. QED
  BY <1>4, <1>6, <1>7, <1>8, SessionReads DEF SessionInv, SubmitsAreSettled

\* One line of the pool goes through update_session.
LEMMA ReadPoolStep ==
  ASSUME SessionInv, ReadPool
  PROVE  SessionInv'
<1> DEFINE line == up[1]
<1>1. /\ up # <<>> /\ up' = Tail(up)
      /\ UpdateSession(Head(up))
      /\ UNCHANGED <<pool, shares>>
  BY Zenon DEF ReadPool, poolVars
<1>2. Head(up) = line /\ 1 \in 1 .. Len(up)
  BY <1>1, Taken DEF SessionInv, SharesOK
<1> HIDE DEF line
<1>3. /\ session' = Ingested(line)
      /\ IF Settles(line)
         THEN /\ pending' = Forget(pending, line.share)
              /\ leaves' = IF BecomesLeaf(line) THEN Append(leaves, LeafOf(line.share)) ELSE leaves
              /\ bindings' = bindings \ {line.share}
         ELSE UNCHANGED <<pending, bindings, leaves>>
  BY <1>1, <1>2, Zenon DEF UpdateSession
<1>4. session'.jobs = After(session.jobs, line)
  BY <1>3 DEF Ingested, After
<1>5. CASE line.kind # "submit"
  <2>1. UNCHANGED <<pending, bindings, leaves>>
    BY <1>3, <1>5, Zenon DEF Settles
  <2>2. QED
    BY <1>1, <1>4, <1>5, <2>1, PassedOn, Zenon DEF line
<1>6. CASE line.kind = "submit"
  <2> DEFINE s == line.share
  <2>1. s \in DOMAIN pending /\ (shares[s].status = "granted" => line.ok)
    BY <1>2, <1>6 DEF SessionInv, AnswersOK, line
  <2>2. Settles(line)
    BY <1>6, <2>1, Zenon DEF Settles
  <2>3. /\ pending' = Forget(pending, s)
        /\ leaves' = IF BecomesLeaf(line) THEN Append(leaves, LeafOf(s)) ELSE leaves
        /\ bindings' = bindings \ {s}
    BY <1>3, <2>2, Zenon
  <2>4. DOMAIN pending' = DOMAIN pending \ {s}
    BY <2>3 DEF Forget
  <2>5. LeafOf(s).share = s
    BY DEF LeafOf
  <2>6. shares[s].status = "granted" => Contains(session.jobs, shares[s].job)
    <3>1. PICK known : Trails(known, up, session.jobs, pool.jobs, shares)
      BY DEF SessionInv, InStep
    <3>2. known[1] = session.jobs
      BY <1>2, <1>6, <3>1 DEF Trails, After, line
    <3>3. s \in DOMAIN shares /\ IsAnswer(up[1], s)
      BY <1>6, <2>1 DEF SessionInv, SharesOK, IsAnswer, line
    <3>4. QED
      BY <1>2, <3>1, <3>2, <3>3 DEF Trails
  <2>7. shares[s].status = "granted" => BecomesLeaf(line)
    BY <2>1, <2>6, Zenon DEF BecomesLeaf
  <2>8. /\ leaves' = Append(leaves, LeafOf(s)) \/ leaves' = leaves
        /\ shares[s].status = "granted" => leaves' = Append(leaves, LeafOf(s))
    BY <2>3, <2>7, Zenon
  <2>9. QED
    BY <1>1, <1>4, <1>6, <2>3, <2>4, <2>5, <2>8, AnswerRead, Zenon DEF line
<1>7. QED
  BY <1>5, <1>6

\* A share more: its number is new, and it is pending.
LEMMA ShareAdded ==
  ASSUME SessionInv, NEW job \in Jobs, NEW terms, NEW share,
         share = [job |-> job, terms |-> terms, status |-> "sent"],
         shares' = Append(shares, share),
         DOMAIN pending' = DOMAIN pending \cup {Len(shares) + 1},
         bindings' = bindings \cup {Len(shares) + 1},
         UNCHANGED <<up, pool, session, leaves>>
  PROVE  SessionInv'
<1> DEFINE s == Len(shares) + 1
<1>1. PICK T : shares \in Seq([job : Jobs, terms : T, status : Statuses])
  BY DEF SessionInv, SharesOK
<1>2. share \in [job : Jobs, terms : T \cup {terms}, status : Statuses]
  BY DEF Statuses
<1>3. shares \in Seq([job : Jobs, terms : T \cup {terms}, status : Statuses])
  <2>1. [job : Jobs, terms : T, status : Statuses]
           \subseteq [job : Jobs, terms : T \cup {terms}, status : Statuses]
    OBVIOUS
  <2>2. QED
    BY <1>1, <2>1, SeqMonotonic, Zenon
<1>4. /\ shares' \in Seq([job : Jobs, terms : T \cup {terms}, status : Statuses])
      /\ s \notin DOMAIN shares /\ DOMAIN shares' = DOMAIN shares \cup {s}
      /\ shares'[s] = share
      /\ \A x \in DOMAIN shares : shares'[x] = shares[x]
  BY <1>2, <1>3
<1>5. share.status = "sent"
  OBVIOUS
<1> HIDE DEF s
<1>6. /\ DOMAIN pending' = DOMAIN pending \cup {s} /\ bindings' = bindings \cup {s}
      /\ DOMAIN pending \subseteq DOMAIN shares
  BY DEF s, SessionInv, SharesOK
<1>7. SharesOK'
  <2>1. \E U : shares' \in Seq([job : Jobs, terms : U, status : Statuses])
    BY <1>4
  <2>2. QED
    BY <1>4, <1>6, <2>1 DEF SessionInv, SharesOK
<1>8. AnswersOK'
  <2>1. \A x \in DOMAIN shares' :
           shares'[x].status \in {"sent", "accepted"} => x \in DOMAIN pending'
    BY <1>4, <1>6 DEF SessionInv, AnswersOK
  <2>2. ASSUME NEW k \in 1 .. Len(up), up[k].kind = "submit"
        PROVE  LET x == up[k].share IN
               /\ x \in DOMAIN pending'
               /\ shares'[x].status \notin {"sent", "accepted"}
               /\ shares'[x].status = "granted" => up[k].ok
    BY <1>4, <1>6, <2>2 DEF SessionInv, AnswersOK
  <2>3. QED
    BY <2>1, <2>2 DEF SessionInv, AnswersOK, IsAnswer
<1>9. InStep'
  <2>1. PICK known : Trails(known, up, session.jobs, pool.jobs, shares)
    BY DEF SessionInv, InStep
  <2>2. Trails(known, up', session'.jobs, pool'.jobs, shares')
    BY <1>4, <1>5, <2>1 DEF Trails
  <2>3. QED
    BY <2>2 DEF InStep
<1>10. SubmitsAreSettled'
  BY <1>4, <1>6 DEF SessionInv, SubmitsAreSettled, AcceptedIsCommitted, BindingsArePending
<1>11. QED
  BY <1>7, <1>8, <1>9, <1>10 DEF SessionInv

\* Submit adds such a share.
LEMMA SubmitStep ==
  ASSUME SessionInv, NEW job \in Jobs, Submit(job)
  PROVE  SessionInv'
<1> DEFINE share == [job |-> job, terms |-> miner.work[job], status |-> "sent"]
<1>1. /\ shares' = Append(shares, share)
      /\ bindings' = bindings \cup {Len(shares) + 1}
      /\ UNCHANGED <<up, pool, session, leaves>>
  BY Zenon DEF Submit, poolVars
<1>2. DOMAIN pending' = DOMAIN pending \cup {Len(shares) + 1}
  BY DEF Submit
<1>3. share = [job |-> job, terms |-> miner.work[job], status |-> "sent"]
  OBVIOUS
<1> HIDE DEF share
<1>4. QED
  BY <1>1, <1>2, <1>3, ShareAdded, Zenon

\* Every step keeps the invariant.
LEMMA StepInv == SessionInv /\ [Next]_vars => SessionInv'
<1> SUFFICES ASSUME SessionInv, [Next]_vars PROVE SessionInv'
  OBVIOUS
<1>1. ASSUME NEW clean \in BOOLEAN, Notify(clean) PROVE SessionInv'
  BY <1>1, NotifyStep
<1>2. ASSUME NEW d \in Difficulties, SetDifficulty(d) PROVE SessionInv'
  <2> DEFINE line == [kind |-> "set_difficulty", diff |-> d]
  <2>1. line.kind \notin {"submit", "notify"} /\ Change(line)
    BY <1>2 DEF SetDifficulty
  <2> HIDE DEF line
  <2>2. QED
    BY <2>1, ChangeStep
<1>3. ASSUME NEW e \in Extranonces, SetExtranonce(e) PROVE SessionInv'
  <2> DEFINE line == [kind |-> "set_extranonce", en |-> e]
  <2>1. line.kind \notin {"submit", "notify"} /\ Change(line)
    BY <1>3 DEF SetExtranonce
  <2> HIDE DEF line
  <2>2. QED
    BY <2>1, ChangeStep
<1>4. CASE AnswerAuthorize
  BY <1>4, AnswerAuthorizeStep
<1>5. ASSUME NEW s \in DOMAIN shares, Accept(s) \/ AnswerSubmit(s) PROVE SessionInv'
  BY <1>5, AcceptStep, AnswerSubmitStep
<1>6. CASE ReadPool
  BY <1>6, ReadPoolStep
<1>7. CASE Authorize
  <2>1. /\ pool' = [pool EXCEPT !.asked = TRUE]
        /\ UNCHANGED <<up, shares, session, pending, bindings, leaves>>
    BY <1>7, Zenon DEF Authorize
  <2>2. pool'.jobs = pool.jobs /\ DOMAIN pool' = DOMAIN pool
    BY <2>1, Zenon DEF SessionInv, SharesOK
  <2>3. QED
    BY <2>1, <2>2, ElsewhereStep, Zenon
<1>8. ASSUME NEW job \in Jobs, Submit(job) PROVE SessionInv'
  BY <1>8, SubmitStep
<1>9. CASE ReadProxy
  <2>1. UNCHANGED <<pool, up, shares, session, pending, bindings, leaves>>
    BY <1>9, Zenon DEF ReadProxy, poolVars, proxyVars
  <2>2. QED
    BY <2>1, ElsewhereStep, Zenon
<1>10. CASE UNCHANGED vars
  <2>1. UNCHANGED <<pool, up, shares, session, pending, bindings, leaves>>
    BY <1>10, Zenon DEF vars, poolVars, proxyVars
  <2>2. QED
    BY <2>1, ElsewhereStep, Zenon
<1>11. QED
  BY <1>1, <1>2, <1>3, <1>4, <1>5, <1>6, <1>7, <1>8, <1>9, <1>10, Zenon DEF Next

-----------------------------------------------------------------------------
\* Every submit ends: its binding goes with the pool's answer, whatever the
\* answer is, and a share the pool granted while its job was valid has its
\* leaf (SessionState::accept_submit, forward and update_session).
THEOREM SubmitsAreSettledHolds == Spec => []SubmitsAreSettled
<1>1. SessionInv => SubmitsAreSettled
  BY DEF SessionInv
<1>2. QED
  BY <1>1, InitInv, StepInv, PTL DEF Spec

-----------------------------------------------------------------------------
\* The lines of one kind.

\* What a line is about.
Says(line) ==
    CASE line.kind = "notify" -> line.job
      [] line.kind = "set_difficulty" -> line.diff
      [] OTHER -> line.en

\* The last line of a kind says v; and there is none of that kind.
IsLast(lines, kind, v) ==
    \E k \in 1 .. Len(lines) :
        /\ lines[k].kind = kind /\ Says(lines[k]) = v
        /\ \A l \in k + 1 .. Len(lines) : lines[l].kind # kind
Lacks(lines, kind) == \A k \in 1 .. Len(lines) : lines[k].kind # kind

\* With one line more.
LEMMA LastAppend ==
    ASSUME NEW S, NEW lines \in Seq(S), NEW line, NEW kind
    PROVE  /\ Lacks(Append(lines, line), kind) <=> Lacks(lines, kind) /\ line.kind # kind
           /\ line.kind = kind => IsLast(Append(lines, line), kind, Says(line))
           /\ \A v : line.kind # kind /\ IsLast(lines, kind, v)
                       => IsLast(Append(lines, line), kind, v)
<1> DEFINE more == Append(lines, line)
<1>1. /\ Len(lines) \in Nat /\ Len(more) = Len(lines) + 1
      /\ \A k \in 1 .. Len(lines) : more[k] = lines[k]
      /\ more[Len(lines) + 1] = line
  <2>1. lines \in Seq(S \cup {line})
    OBVIOUS
  <2> QED BY <2>1
<1> HIDE DEF more
<1>2. Lacks(more, kind) <=> Lacks(lines, kind) /\ line.kind # kind
  BY <1>1 DEF Lacks
<1>3. line.kind = kind => IsLast(more, kind, Says(line))
  BY <1>1 DEF IsLast
<1>4. ASSUME NEW v, line.kind # kind, IsLast(lines, kind, v) PROVE IsLast(more, kind, v)
  <2>1. PICK k \in 1 .. Len(lines) :
           /\ lines[k].kind = kind /\ Says(lines[k]) = v
           /\ \A l \in k + 1 .. Len(lines) : lines[l].kind # kind
    BY <1>4 DEF IsLast
  <2>2. /\ k \in 1 .. Len(more) /\ more[k].kind = kind /\ Says(more[k]) = v
        /\ \A l \in k + 1 .. Len(more) : more[l].kind # kind
    BY <1>1, <1>4, <2>1
  <2> QED BY <2>2 DEF IsLast
<1> QED BY <1>2, <1>3, <1>4 DEF more

\* Two sequences of lines, one behind the other.
LEMMA LastConcat ==
    ASSUME NEW S, NEW x \in Seq(S), NEW y \in Seq(S), NEW kind
    PROVE  /\ Lacks(x \o y, kind) <=> Lacks(x, kind) /\ Lacks(y, kind)
           /\ \A v : IsLast(y, kind, v) => IsLast(x \o y, kind, v)
           /\ \A v : IsLast(x, kind, v) /\ Lacks(y, kind) => IsLast(x \o y, kind, v)
<1> DEFINE z == x \o y
           m == Len(x)
           n == Len(y)
<1>1. /\ m \in Nat /\ n \in Nat /\ Len(z) = m + n
      /\ \A k \in 1 .. m : z[k] = x[k]
      /\ \A k \in m + 1 .. m + n : z[k] = y[k - m]
      /\ \A k \in 1 .. n : z[k + m] = y[k]
  OBVIOUS
<1> HIDE DEF z
<1>2. Lacks(z, kind) <=> Lacks(x, kind) /\ Lacks(y, kind)
  <2>1. ASSUME Lacks(z, kind) PROVE Lacks(x, kind) /\ Lacks(y, kind)
    BY <1>1, <2>1 DEF Lacks
  <2>2. ASSUME Lacks(x, kind), Lacks(y, kind) PROVE Lacks(z, kind)
    <3>1. ASSUME NEW k \in m + 1 .. m + n PROVE z[k].kind # kind
      BY <1>1, <2>2 DEF Lacks
    <3> QED BY <1>1, <2>2, <3>1 DEF Lacks
  <2> QED BY <2>1, <2>2
<1>3. ASSUME NEW v, IsLast(y, kind, v) PROVE IsLast(z, kind, v)
  <2>1. PICK k \in 1 .. n :
           /\ y[k].kind = kind /\ Says(y[k]) = v
           /\ \A l \in k + 1 .. n : y[l].kind # kind
    BY <1>3 DEF IsLast
  <2>2. /\ k + m \in 1 .. Len(z) /\ z[k + m].kind = kind /\ Says(z[k + m]) = v
    BY <1>1, <2>1
  <2>3. ASSUME NEW l \in (k + m) + 1 .. Len(z) PROVE z[l].kind # kind
    <3>1. l - m \in k + 1 .. n /\ l \in m + 1 .. m + n
      BY <1>1, <2>1
    <3> QED BY <1>1, <2>1, <3>1
  <2> QED BY <2>2, <2>3 DEF IsLast
<1>4. ASSUME NEW v, IsLast(x, kind, v), Lacks(y, kind) PROVE IsLast(z, kind, v)
  <2>1. PICK k \in 1 .. m :
           /\ x[k].kind = kind /\ Says(x[k]) = v
           /\ \A l \in k + 1 .. m : x[l].kind # kind
    BY <1>4 DEF IsLast
  <2>2. ASSUME NEW l \in k + 1 .. Len(z) PROVE z[l].kind # kind
    <3>1. CASE l \in k + 1 .. m
      BY <1>1, <2>1, <3>1
    <3>2. CASE l \in m + 1 .. m + n
      <4>1. l - m \in 1 .. n /\ z[l] = y[l - m]
        BY <1>1, <3>2
      <4> QED BY <1>4, <4>1 DEF Lacks
    <3> QED BY <1>1, <2>1, <3>1, <3>2
  <2>3. k \in 1 .. Len(z) /\ z[k] = x[k]
    BY <1>1, <2>1
  <2> QED BY <2>1, <2>2, <2>3 DEF IsLast
<1> QED BY <1>2, <1>3, <1>4 DEF z

\* The line that is read next, and those behind it.
LEMMA LastTail ==
    ASSUME NEW S, NEW lines \in Seq(S), lines # <<>>, NEW kind
    PROVE  /\ Lacks(lines, kind) <=> Head(lines).kind # kind /\ Lacks(Tail(lines), kind)
           /\ \A v : IsLast(lines, kind, v) =>
                 \/ IsLast(Tail(lines), kind, v)
                 \/ /\ Lacks(Tail(lines), kind)
                    /\ Head(lines).kind = kind /\ Says(Head(lines)) = v
<1> DEFINE t == Tail(lines)
           h == Head(lines)
           n == Len(t)
<1>1. /\ n \in Nat /\ Len(lines) = n + 1 /\ h = lines[1]
      /\ \A k \in 1 .. n : t[k] = lines[k + 1]
      /\ \A k \in 2 .. n + 1 : lines[k] = t[k - 1]
  OBVIOUS
<1> HIDE DEF t, h
<1>2. Lacks(lines, kind) <=> h.kind # kind /\ Lacks(t, kind)
  <2>1. ASSUME Lacks(lines, kind) PROVE h.kind # kind /\ Lacks(t, kind)
    BY <1>1, <2>1 DEF Lacks
  <2>2. ASSUME h.kind # kind, Lacks(t, kind) PROVE Lacks(lines, kind)
    <3>1. ASSUME NEW k \in 2 .. n + 1 PROVE lines[k].kind # kind
      <4>1. k - 1 \in 1 .. n /\ lines[k] = t[k - 1]
        BY <1>1
      <4> QED BY <2>2, <4>1 DEF Lacks
    <3> QED BY <1>1, <2>2, <3>1 DEF Lacks
  <2> QED BY <2>1, <2>2
<1>3. ASSUME NEW v, IsLast(lines, kind, v)
      PROVE  IsLast(t, kind, v) \/ (Lacks(t, kind) /\ h.kind = kind /\ Says(h) = v)
  <2>1. PICK k \in 1 .. n + 1 :
           /\ lines[k].kind = kind /\ Says(lines[k]) = v
           /\ \A l \in k + 1 .. n + 1 : lines[l].kind # kind
    BY <1>1, <1>3 DEF IsLast
  <2>2. CASE k = 1
    <3>1. ASSUME NEW l \in 1 .. n PROVE t[l].kind # kind
      <4>1. l + 1 \in 2 .. n + 1 /\ t[l] = lines[l + 1]
        BY <1>1
      <4> QED BY <2>1, <2>2, <4>1
    <3> QED BY <1>1, <2>1, <2>2, <3>1 DEF Lacks
  <2>3. CASE k # 1
    <3>1. k - 1 \in 1 .. n /\ lines[k] = t[k - 1]
      BY <1>1, <2>1, <2>3
    <3>2. ASSUME NEW l \in (k - 1) + 1 .. n PROVE t[l].kind # kind
      <4>1. l + 1 \in k + 1 .. n + 1 /\ t[l] = lines[l + 1]
        BY <1>1, <2>1, <3>1
      <4> QED BY <2>1, <4>1
    <3> QED BY <2>1, <3>1, <3>2 DEF IsLast
  <2> QED BY <2>2, <2>3
<1> QED BY <1>2, <1>3 DEF t, h

-----------------------------------------------------------------------------
\* What the gate keeps of what it held.

Kinds == {"notify", "set_difficulty", "set_extranonce"}

\* What OfKind collects on its way to the n-th line.
Collects(u, lines, kind, n) ==
    u = [k \in 0 .. n |->
            IF k = 0 THEN <<>>
            ELSE IF lines[k].kind = kind THEN Append(u[k - 1], lines[k])
            ELSE u[k - 1]]

\* It is there for every n.
LEMMA CollectsExists ==
    ASSUME NEW lines, NEW kind, NEW n \in Nat
    PROVE  \E u : Collects(u, lines, kind, n)
<1> DEFINE C == {k \in Nat : \E u : Collects(u, lines, kind, k)}
           Step(u, k) == IF k = 0 THEN <<>>
                         ELSE IF lines[k].kind = kind THEN Append(u[k - 1], lines[k])
                         ELSE u[k - 1]
<1>1. 0 \in C
  <2> DEFINE u == [k \in 0 .. 0 |-> <<>>]
  <2>1. Collects(u, lines, kind, 0)
    <3>1. \A k \in 0 .. 0 : k = 0
      OBVIOUS
    <3> QED BY <3>1 DEF Collects
  <2> QED BY <2>1
<1>2. ASSUME NEW n0 \in Nat, n0 \in C PROVE n0 + 1 \in C
  <2>1. PICK u : Collects(u, lines, kind, n0)
    BY <1>2
  <2> DEFINE w == [k \in 0 .. n0 + 1 |-> IF k =< n0 THEN u[k] ELSE Step(u, k)]
             g == [k \in 0 .. n0 + 1 |-> Step(w, k)]
  <2>2. \A k \in 0 .. n0 : u[k] = Step(u, k)
    BY <2>1 DEF Collects
  <2>3. ASSUME NEW k \in 0 .. n0 + 1 PROVE Step(w, k) = Step(u, k)
    <3>1. CASE k = 0
      BY <3>1
    <3>2. CASE k # 0
      <4>1. k - 1 \in 0 .. n0 + 1 /\ k - 1 =< n0
        BY <3>2
      <4>2. w[k - 1] = u[k - 1]
        BY <4>1
      <4> HIDE DEF w
      <4> QED BY <4>2
    <3> QED BY <3>1, <3>2
  <2>4. ASSUME NEW k \in 0 .. n0 + 1 PROVE w[k] = g[k]
    <3>1. g[k] = Step(u, k)
      <4>1. g[k] = Step(w, k)
        OBVIOUS
      <4> HIDE DEF w, g, Step
      <4> QED BY <2>3, <4>1
    <3>2. CASE k =< n0
      <4>1. k \in 0 .. n0 /\ w[k] = u[k]
        BY <3>2
      <4> HIDE DEF w, g, Step
      <4> QED BY <2>2, <3>1, <4>1
    <3>3. CASE ~(k =< n0)
      <4>1. w[k] = Step(u, k)
        <5> HIDE DEF Step
        <5> QED BY <3>3
      <4> HIDE DEF w, g, Step
      <4> QED BY <3>1, <4>1
    <3> QED BY <3>2, <3>3
  <2>5. w = g
    <3> DEFINE D == 0 .. n0 + 1
    <3>1. w = [k \in D |-> w[k]] /\ g = [k \in D |-> g[k]]
      <4> HIDE DEF Step
      <4> QED OBVIOUS
    <3> HIDE DEF w, g
    <3> QED BY <2>4, <3>1
  <2>6. Collects(w, lines, kind, n0 + 1)
    <3> HIDE DEF w
    <3> QED BY <2>5 DEF Collects
  <2> HIDE DEF w
  <2> QED BY <2>6
<1> HIDE DEF C
<1>3. n \in C
  BY <1>1, <1>2, NumbersAre
<1> QED BY <1>3 DEF C

\* The lines of one kind are in order, and of that kind.
LEMMA OfKindFacts ==
    ASSUME NEW S, NEW lines \in Seq(S), NEW kind
    PROVE  /\ OfKind(lines, kind) \in Seq({l \in S : l.kind = kind})
           /\ Lacks(lines, kind) => OfKind(lines, kind) = <<>>
           /\ \A v : IsLast(lines, kind, v) =>
                 /\ OfKind(lines, kind) # <<>>
                 /\ Says(OfKind(lines, kind)[Len(OfKind(lines, kind))]) = v
<1> DEFINE n == Len(lines)
           T == {l \in S : l.kind = kind}
           u == CHOOSE w : Collects(w, lines, kind, n)
<1>1. n \in Nat /\ \A k \in 1 .. n : lines[k] \in S
  OBVIOUS
<1>2. Collects(u, lines, kind, n)
  BY <1>1, CollectsExists
<1>3. OfKind(lines, kind) = u[n]
  BY DEF OfKind, Collects
<1> HIDE DEF u
<1>4. u[0] = <<>>
  BY <1>1, <1>2 DEF Collects
<1>5. \A k \in 1 .. n :
          u[k] = IF lines[k].kind = kind THEN Append(u[k - 1], lines[k]) ELSE u[k - 1]
  <2>1. \A k \in 0 .. n : u[k] = IF k = 0 THEN <<>>
                                 ELSE IF lines[k].kind = kind THEN Append(u[k - 1], lines[k])
                                 ELSE u[k - 1]
    BY <1>2 DEF Collects
  <2>2. \A k \in 1 .. n : k \in 0 .. n /\ k # 0
    BY <1>1
  <2> HIDE DEF n
  <2> QED BY <2>1, <2>2
<1> DEFINE Good(k) ==
             /\ u[k] \in Seq(T)
             /\ (\A l \in 1 .. k : lines[l].kind # kind) => u[k] = <<>>
             /\ \A m \in 1 .. k :
                   lines[m].kind = kind /\ (\A l \in m + 1 .. k : lines[l].kind # kind) =>
                      u[k] # <<>> /\ u[k][Len(u[k])] = lines[m]
           C == {k \in Nat : k =< n => Good(k)}
<1>6. 0 \in C
  <2>1. <<>> \in Seq(T)
    OBVIOUS
  <2>2. \A k \in 1 .. 0 : FALSE
    OBVIOUS
  <2> HIDE DEF T
  <2>3. Good(0)
    BY <1>4, <2>1, <2>2
  <2> QED BY <2>3
<1>7. ASSUME NEW k \in Nat, k \in C PROVE k + 1 \in C
  <2>1. SUFFICES ASSUME k + 1 =< n PROVE Good(k + 1)
    OBVIOUS
  <2>2. Good(k) /\ k + 1 \in 1 .. n /\ (k + 1) - 1 = k
    BY <1>1, <1>7, <2>1
  <2>3. CASE lines[k + 1].kind = kind
    <3>1. u[k + 1] = Append(u[k], lines[k + 1]) /\ lines[k + 1] \in T
      BY <1>1, <1>5, <2>2, <2>3
    <3>2. u[k] \in Seq(T)
      BY <2>2
    <3>3. /\ u[k + 1] \in Seq(T) /\ u[k + 1] # <<>>
          /\ u[k + 1][Len(u[k + 1])] = lines[k + 1]
      <4> HIDE DEF T
      <4> QED BY <3>1, <3>2
    <3>4. ASSUME NEW m \in 1 .. k + 1, \A l \in m + 1 .. k + 1 : lines[l].kind # kind
          PROVE  m = k + 1
      <4>1. SUFFICES ASSUME m # k + 1 PROVE FALSE
        OBVIOUS
      <4>2. k + 1 \in m + 1 .. k + 1
        BY <4>1
      <4> QED BY <2>3, <3>4, <4>2
    <3>5. ~(\A l \in 1 .. k + 1 : lines[l].kind # kind)
      BY <2>3
    <3> HIDE DEF T
    <3> QED BY <3>3, <3>4, <3>5
  <2>4. CASE lines[k + 1].kind # kind
    <3>1. u[k + 1] = u[k]
      BY <1>5, <2>2, <2>4
    <3>2. u[k] \in Seq(T)
      BY <2>2
    <3>3. (\A l \in 1 .. k + 1 : lines[l].kind # kind) => u[k] = <<>>
      BY <2>2
    <3>4. ASSUME NEW m \in 1 .. k + 1, lines[m].kind = kind,
                 \A l \in m + 1 .. k + 1 : lines[l].kind # kind
          PROVE  u[k] # <<>> /\ u[k][Len(u[k])] = lines[m]
      <4>1. m \in 1 .. k
        BY <2>4, <3>4
      <4>2. \A l \in m + 1 .. k : lines[l].kind # kind
        BY <3>4
      <4> QED BY <2>2, <3>4, <4>1, <4>2
    <3> HIDE DEF T
    <3> QED BY <3>1, <3>2, <3>3, <3>4
  <2> HIDE DEF Good
  <2> QED BY <2>3, <2>4
<1> HIDE DEF C
<1>8. n \in C
  BY <1>1, <1>6, <1>7, NumbersAre
<1>9. Good(n)
  BY <1>1, <1>8 DEF C
<1>10. Lacks(lines, kind) => u[n] = <<>>
  BY <1>9 DEF Lacks
<1>11. ASSUME NEW v, IsLast(lines, kind, v) PROVE u[n] # <<>> /\ Says(u[n][Len(u[n])]) = v
  BY <1>9, <1>11 DEF IsLast
<1>12. u[n] \in Seq(T)
  BY <1>9
<1> QED BY <1>3, <1>10, <1>11, <1>12

\* Of two numbers the larger.
LEMMA MaxOfTwo ==
    ASSUME NEW i \in Int, NEW j \in Int
    PROVE  Max({i, j}) = IF i >= j THEN i ELSE j
<1> DEFINE m == IF i >= j THEN i ELSE j
<1>1. m \in {i, j} /\ \A y \in {i, j} : m >= y
  OBVIOUS
<1>2. \A x \in {i, j} : (\A y \in {i, j} : x >= y) => x = m
  OBVIOUS
<1> HIDE DEF m
<1>3. Max({i, j}) = m
  BY <1>1, <1>2 DEF Max
<1> QED BY <1>3 DEF m

\* The latest of a sequence is one or none.
LEMMA LastOneIs ==
    ASSUME NEW S, NEW s \in Seq(S)
    PROVE  /\ s = <<>> => LastN(s, 1) = <<>>
           /\ s # <<>> => LastN(s, 1) = <<s[Len(s)]>> /\ s[Len(s)] \in S
<1> DEFINE n == Len(s)
<1>1. n \in Nat /\ n - 1 + 1 = n
  OBVIOUS
<1>2. LastN(s, 1) = SubSeq(s, IF 1 >= n THEN 1 ELSE n, n)
  <2>1. Max({1, n}) = IF 1 >= n THEN 1 ELSE n
    <3> HIDE DEF n
    <3> QED BY <1>1, MaxOfTwo
  <2>2. LastN(s, 1) = SubSeq(s, Max({1, n - 1 + 1}), n)
    BY DEF LastN
  <2> HIDE DEF n
  <2> QED BY <1>1, <2>1, <2>2
<1>3. CASE s = <<>>
  <2>1. n = 0
    BY <1>3
  <2>2. (IF 1 >= n THEN 1 ELSE n) = 1 /\ n < 1 /\ n \in Int
    <3> HIDE DEF n
    <3> QED BY <2>1
  <2>3. LastN(s, 1) = SubSeq(s, 1, n)
    <3> HIDE DEF n
    <3> QED BY <1>2, <2>2, Zenon
  <2>4. SubSeq(s, 1, n) = <<>>
    <3> HIDE DEF n
    <3> QED BY <2>2, SubSeqEmpty
  <2> QED BY <1>3, <2>3, <2>4
<1>4. CASE s # <<>>
  <2>1. n >= 1
    BY <1>4
  <2>2. LastN(s, 1) = SubSeq(s, n, n)
    <3>1. (IF 1 >= n THEN 1 ELSE n) = n
      <4> HIDE DEF n
      <4> QED BY <1>1, <2>1
    <3> HIDE DEF n
    <3> QED BY <1>2, <3>1, Zenon
  <2>3. \A i \in n .. n : s[i] \in S
    BY <2>1
  <2> DEFINE t == SubSeq(s, n, n)
  <2>4. t \in Seq(S) /\ Len(t) = 1 /\ t[1] = s[n]
    <3>1. /\ t \in Seq(S)
          /\ Len(t) = IF n =< n THEN n - n + 1 ELSE 0
          /\ \A i \in 1 .. n - n + 1 : t[i] = s[n + i - 1]
      <4> HIDE DEF n
      <4> QED BY <1>1, <2>3, SubSeqProperties
    <3> HIDE DEF n, t
    <3> QED BY <1>1, <3>1
  <2>5. t = <<s[n]>>
    <3> HIDE DEF t, n
    <3> QED BY <2>4
  <2> QED BY <1>4, <2>1, <2>2, <2>3, <2>5
<1> QED BY <1>3, <1>4

\* The latest lines are of the kind of those they are taken from.
LEMMA LastNTyped ==
    ASSUME NEW S, NEW s \in Seq(S), NEW n \in Nat
    PROVE  LastN(s, n) \in Seq(S)
<1> DEFINE l == Len(s)
           m == IF 1 >= l - n + 1 THEN 1 ELSE l - n + 1
<1>1. l \in Nat /\ \A i \in 1 .. l : s[i] \in S
  OBVIOUS
<1>2. m \in Int /\ m >= 1
  <2> HIDE DEF l
  <2> QED BY <1>1
<1>3. Max({1, l - n + 1}) = m
  <2> HIDE DEF l
  <2>1. l - n + 1 \in Int
    BY <1>1
  <2> QED BY <2>1, MaxOfTwo
<1>4. LastN(s, n) = SubSeq(s, m, l)
  BY <1>3 DEF LastN
<1>5. \A i \in m .. l : s[i] \in S
  <2> HIDE DEF l, m
  <2> QED BY <1>1, <1>2
<1> HIDE DEF l, m
<1> QED BY <1>1, <1>2, <1>4, <1>5, SubSeqProperties

-----------------------------------------------------------------------------
\* The flush of the gate.

\* What is kept of the lines of a kind has the last of them.
Keeps(part, lines, kind) ==
    /\ Lacks(lines, kind) => Lacks(part, kind)
    /\ \A v : IsLast(lines, kind, v) => IsLast(part, kind, v)

\* A part of one kind has none of the others.
OnlyOf(part, kind) == \A k \in 1 .. Len(part) : part[k].kind = kind

\* The last line of a part of one kind is the last of its kind.
LEMMA LastOfAll ==
    ASSUME NEW S, NEW part \in Seq(S), NEW kind, OnlyOf(part, kind), part # <<>>
    PROVE  IsLast(part, kind, Says(part[Len(part)]))
<1>1. Len(part) \in 1 .. Len(part) /\ \A l \in Len(part) + 1 .. Len(part) : FALSE
  OBVIOUS
<1> QED BY <1>1 DEF IsLast, OnlyOf

\* The kinds of the elements of a sequence.
LEMMA AllOf ==
    ASSUME NEW S, NEW kind, NEW part \in Seq({l \in S : l.kind = kind})
    PROVE  OnlyOf(part, kind) /\ part \in Seq(S)
<1> DEFINE T == {l \in S : l.kind = kind}
<1>1. \A k \in 1 .. Len(part) : part[k] \in T
  OBVIOUS
<1>2. part \in Seq(S)
  <2>1. T \subseteq S
    OBVIOUS
  <2> HIDE DEF T
  <2> QED BY <2>1, SeqMonotonic
<1> QED BY <1>1, <1>2 DEF OnlyOf

\* All lines of a kind are kept.
LEMMA OfKindKeeps ==
    ASSUME NEW S, NEW lines \in Seq(S), NEW kind
    PROVE  /\ OfKind(lines, kind) \in Seq(S)
           /\ OnlyOf(OfKind(lines, kind), kind)
           /\ Keeps(OfKind(lines, kind), lines, kind)
<1> DEFINE p == OfKind(lines, kind)
<1>1. /\ p \in Seq({l \in S : l.kind = kind})
      /\ Lacks(lines, kind) => p = <<>>
      /\ \A v : IsLast(lines, kind, v) => p # <<>> /\ Says(p[Len(p)]) = v
  BY OfKindFacts
<1> HIDE DEF p
<1>2. p \in Seq(S) /\ OnlyOf(p, kind)
  BY <1>1, AllOf
<1>3. p = <<>> => Lacks(p, kind)
  BY DEF Lacks
<1>4. p # <<>> => IsLast(p, kind, Says(p[Len(p)]))
  BY <1>2, LastOfAll
<1> QED BY <1>1, <1>2, <1>3, <1>4 DEF Keeps, p

\* The latest line of a kind is kept.
LEMMA LatestKeeps ==
    ASSUME NEW S, NEW lines \in Seq(S), NEW kind
    PROVE  /\ LatestOf(lines, kind) \in Seq(S)
           /\ OnlyOf(LatestOf(lines, kind), kind)
           /\ Keeps(LatestOf(lines, kind), lines, kind)
           /\ \/ LatestOf(lines, kind) = <<>>
              \/ \E e \in S : LatestOf(lines, kind) = <<e>> /\ e.kind = kind
<1> DEFINE T == {l \in S : l.kind = kind}
           a == OfKind(lines, kind)
           p == LatestOf(lines, kind)
           e == a[Len(a)]
<1>1. /\ a \in Seq(T)
      /\ Lacks(lines, kind) => a = <<>>
      /\ \A v : IsLast(lines, kind, v) => a # <<>> /\ Says(e) = v
  BY OfKindFacts
<1>2. /\ a = <<>> => p = <<>>
      /\ a # <<>> => p = <<e>> /\ e \in T
  <2>1. p = LastN(a, 1)
    BY DEF LatestOf
  <2> HIDE DEF a, p, T
  <2> QED BY <1>1, <2>1, LastOneIs
<1>3. e \in T => e \in S /\ e.kind = kind
  OBVIOUS
<1> HIDE DEF a, p, T, e
<1>4. CASE a = <<>>
  <2>1. p = <<>>
    BY <1>2, <1>4
  <2>2. Lacks(p, kind) /\ OnlyOf(p, kind) /\ p \in Seq(S)
    BY <2>1 DEF Lacks, OnlyOf
  <2> QED BY <1>1, <1>4, <2>1, <2>2 DEF Keeps, p
<1>5. CASE a # <<>>
  <2>1. p = <<e>> /\ e \in S /\ e.kind = kind
    BY <1>2, <1>3, <1>5
  <2>2. p \in Seq(S) /\ Len(p) = 1 /\ p[1] = e /\ p # <<>>
    BY <2>1
  <2>3. OnlyOf(p, kind)
    BY <2>1, <2>2 DEF OnlyOf
  <2>4. IsLast(p, kind, Says(e))
    BY <2>2, <2>3, LastOfAll
  <2>5. ~Lacks(lines, kind) \/ Lacks(p, kind)
    <3>1. ASSUME Lacks(lines, kind) PROVE FALSE
      BY <1>1, <1>5, <3>1
    <3> QED BY <3>1
  <2> QED BY <1>1, <2>1, <2>2, <2>3, <2>4, <2>5 DEF Keeps, p
<1> QED BY <1>4, <1>5

\* A job that is made clean is the same job.
CleanOf(l) == IF l.kind = "notify" THEN [l EXCEPT !.clean = TRUE] ELSE l
MadeClean(lines) == [i \in DOMAIN lines |-> CleanOf(lines[i])]

\* It stays a notification.
LEMMA CleanIsTheJob ==
    ASSUME NEW l \in Notifications, l.kind = "notify"
    PROVE  /\ CleanOf(l) \in Notifications
           /\ CleanOf(l).kind = "notify" /\ Says(CleanOf(l)) = Says(l)
<1>1. l \in [kind : {"notify"}, job : Jobs, clean : BOOLEAN]
  BY DEF Notifications
<1>2. CleanOf(l) = [l EXCEPT !.clean = TRUE]
  BY DEF CleanOf
<1>3. /\ CleanOf(l) \in [kind : {"notify"}, job : Jobs, clean : BOOLEAN]
      /\ CleanOf(l).kind = "notify" /\ CleanOf(l).job = l.job
  BY <1>1, <1>2
<1> QED BY <1>3 DEF Notifications, Says

\* So the clean latest job is kept like the latest job.
LEMMA CleanKeeps ==
    ASSUME NEW lines \in Seq(Notifications)
    PROVE  LET p == MadeClean(LatestOf(lines, "notify")) IN
           p \in Seq(Notifications) /\ OnlyOf(p, "notify") /\ Keeps(p, lines, "notify")
<1> DEFINE a == LatestOf(lines, "notify")
           p == MadeClean(a)
<1>1. /\ Keeps(a, lines, "notify")
      /\ \/ a = <<>>
         \/ \E e \in Notifications : a = <<e>> /\ e.kind = "notify"
  BY LatestKeeps
<1> HIDE DEF a
<1>2. CASE a = <<>>
  <2>1. p = <<>>
    BY <1>2 DEF MadeClean
  <2>2. OnlyOf(p, "notify") /\ p \in Seq(Notifications)
    BY <2>1 DEF OnlyOf
  <2> HIDE DEF p
  <2> QED BY <1>1, <1>2, <2>1, <2>2 DEF p, a
<1>3. ASSUME NEW e \in Notifications, a = <<e>>, e.kind = "notify"
      PROVE  p \in Seq(Notifications) /\ OnlyOf(p, "notify") /\ Keeps(p, lines, "notify")
  <2> DEFINE c == CleanOf(e)
  <2>1. c \in Notifications /\ c.kind = "notify" /\ Says(c) = Says(e)
    BY <1>3, CleanIsTheJob
  <2>2. p = <<c>>
    <3>1. DOMAIN a = 1 .. 1 /\ a[1] = e
      BY <1>3
    <3>2. p = [i \in 1 .. 1 |-> c]
      <4> HIDE DEF c
      <4>1. \A i \in 1 .. 1 : CleanOf(a[i]) = c
        BY <3>1 DEF c
      <4> QED BY <3>1, <4>1 DEF MadeClean
    <3> HIDE DEF c, p
    <3> QED BY <3>2
  <2> HIDE DEF c, p
  <2>3. p \in Seq(Notifications) /\ Len(p) = 1 /\ p[1] = c /\ p # <<>>
    BY <2>1, <2>2
  <2>4. OnlyOf(p, "notify")
    BY <2>1, <2>3 DEF OnlyOf
  <2>5. IsLast(p, "notify", Says(c))
    BY <2>3, <2>4, LastOfAll
  <2>6. a # <<>> /\ Len(a) = 1 /\ a[1] = e
    BY <1>3
  <2>7. ASSUME NEW v, IsLast(lines, "notify", v) PROVE v = Says(c)
    <3>1. IsLast(a, "notify", v)
      BY <1>1, <2>7 DEF Keeps
    <3>2. Says(e) = v
      BY <2>6, <3>1 DEF IsLast
    <3> QED BY <2>1, <3>2
  <2>8. ~Lacks(lines, "notify")
    <3>1. ~Lacks(a, "notify")
      BY <1>3, <2>6 DEF Lacks
    <3> QED BY <1>1, <3>1 DEF Keeps
  <2> QED BY <2>3, <2>4, <2>5, <2>7, <2>8 DEF Keeps
<1> QED BY <1>1, <1>2, <1>3 DEF a

\* Parts of other kinds change nothing.
LEMMA OthersLack ==
    ASSUME NEW part, NEW kind, NEW other, kind # other, OnlyOf(part, kind)
    PROVE  Lacks(part, other)
  BY DEF OnlyOf, Lacks

\* open_and_flush keeps the latest of each kind, behind the line that opened.
LEMMA FlushKeeps ==
    ASSUME NEW first \in Seq(Lines), NEW lines \in Seq(Notifications)
    PROVE  /\ Flushed(first, lines) \in Seq(Lines)
           /\ first # <<>> =>
                 Flushed(first, lines) # <<>> /\ Flushed(first, lines)[1] = first[1]
           /\ \A kind \in Kinds :
                 Lacks(first, kind) => Keeps(Flushed(first, lines), lines, kind)
<1> DEFINE x == OfKind(lines, "set_extranonce")
           y == LatestOf(lines, "set_difficulty")
           z == MadeClean(LatestOf(lines, "notify"))
           f == Flushed(first, lines)
<1>1. Notifications \subseteq Lines
  BY DEF Lines
<1>2. /\ x \in Seq(Lines) /\ OnlyOf(x, "set_extranonce") /\ Keeps(x, lines, "set_extranonce")
      /\ y \in Seq(Lines) /\ OnlyOf(y, "set_difficulty") /\ Keeps(y, lines, "set_difficulty")
      /\ z \in Seq(Lines) /\ OnlyOf(z, "notify") /\ Keeps(z, lines, "notify")
  BY <1>1, OfKindKeeps, LatestKeeps, CleanKeeps, SeqMonotonic
<1>3. f = ((first \o x) \o y) \o z
  BY DEF Flushed, MadeClean, CleanOf
<1> HIDE DEF x, y, z, f
<1> DEFINE a == first \o x
           b == a \o y
<1>4. a \in Seq(Lines) /\ b \in Seq(Lines) /\ f \in Seq(Lines)
  <2>1. a \in Seq(Lines)
    BY <1>2
  <2> HIDE DEF a
  <2>2. b \in Seq(Lines)
    BY <1>2, <2>1
  <2> HIDE DEF b
  <2> QED BY <1>2, <1>3, <2>1, <2>2
<1>5. first # <<>> => f # <<>> /\ f[1] = first[1]
  <2> SUFFICES ASSUME first # <<>> PROVE f # <<>> /\ f[1] = first[1]
    OBVIOUS
  <2>1. a # <<>> /\ a[1] = first[1]
    BY <1>2
  <2> HIDE DEF a
  <2>2. b # <<>> /\ b[1] = first[1]
    BY <1>2, <1>4, <2>1
  <2> HIDE DEF b
  <2> QED BY <1>2, <1>3, <1>4, <2>2
<1>6. ASSUME NEW kind \in Kinds, Lacks(first, kind)
      PROVE  Keeps(f, lines, kind)
  <2>1. \/ kind = "notify" /\ Lacks(x, kind) /\ Lacks(y, kind)
        \/ kind = "set_difficulty" /\ Lacks(x, kind) /\ Lacks(z, kind)
        \/ kind = "set_extranonce" /\ Lacks(y, kind) /\ Lacks(z, kind)
    BY <1>2, OthersLack DEF Kinds
  <2>2. /\ Lacks(a, kind) <=> Lacks(first, kind) /\ Lacks(x, kind)
        /\ \A v : IsLast(x, kind, v) => IsLast(a, kind, v)
    BY <1>2, LastConcat
  <2>3. /\ Lacks(b, kind) <=> Lacks(a, kind) /\ Lacks(y, kind)
        /\ \A v : IsLast(y, kind, v) => IsLast(b, kind, v)
        /\ \A v : IsLast(a, kind, v) /\ Lacks(y, kind) => IsLast(b, kind, v)
    <3> HIDE DEF a
    <3> QED BY <1>2, <1>4, LastConcat
  <2>4. /\ Lacks(f, kind) <=> Lacks(b, kind) /\ Lacks(z, kind)
        /\ \A v : IsLast(z, kind, v) => IsLast(f, kind, v)
        /\ \A v : IsLast(b, kind, v) /\ Lacks(z, kind) => IsLast(f, kind, v)
    <3>1. f = b \o z
      BY <1>3
    <3> HIDE DEF b
    <3> QED BY <1>2, <1>4, <3>1, LastConcat
  <2> HIDE DEF a, b
  <2> QED BY <1>2, <1>6, <2>1, <2>2, <2>3, <2>4 DEF Keeps
<1> HIDE DEF a, b
<1> QED BY <1>4, <1>5, <1>6 DEF f

-----------------------------------------------------------------------------
\* The newest of what the pool said of terms or jobs.

\* The newest line of a kind says v, wherever it is on its way from the pool, in
\* u, over the gate, in h, to the miner, in d; or it is read, and v is in there.
Comes(kind, v, there, u, h, d) ==
    \/ IsLast(u, kind, v)
    \/ /\ Lacks(u, kind)
       /\ \/ IsLast(h, kind, v)
          \/ /\ Lacks(h, kind)
             /\ \/ IsLast(d, kind, v)
                \/ Lacks(d, kind) /\ v \in there

\* The pool says something newer, or something else.
LEMMA SentComes ==
    ASSUME NEW u \in Seq(Lines), NEW line, NEW kind, NEW there, NEW h, NEW d
    PROVE  /\ line.kind = kind => Comes(kind, Says(line), there, Append(u, line), h, d)
           /\ \A v : line.kind # kind /\ Comes(kind, v, there, u, h, d)
                       => Comes(kind, v, there, Append(u, line), h, d)
<1>1. /\ Lacks(Append(u, line), kind) <=> Lacks(u, kind) /\ line.kind # kind
      /\ line.kind = kind => IsLast(Append(u, line), kind, Says(line))
      /\ \A v : line.kind # kind /\ IsLast(u, kind, v) => IsLast(Append(u, line), kind, v)
  BY LastAppend
<1> DEFINE w == Append(u, line)
<1> HIDE DEF w
<1> QED BY <1>1 DEF Comes, w

\* A line is taken up: what it says is not in u any more.
LEMMA TakenComes ==
    ASSUME NEW u \in Seq(Lines), u # <<>>, NEW kind, NEW v, NEW there, NEW h, NEW d,
           Comes(kind, v, there, u, h, d)
    PROVE  \/ Head(u).kind # kind /\ Comes(kind, v, there, Tail(u), h, d)
           \/ Head(u).kind = kind /\ IsLast(Tail(u), kind, v)
           \/ Head(u).kind = kind /\ Lacks(Tail(u), kind) /\ Says(Head(u)) = v
<1>1. /\ Lacks(u, kind) <=> Head(u).kind # kind /\ Lacks(Tail(u), kind)
      /\ IsLast(u, kind, v) =>
            \/ IsLast(Tail(u), kind, v)
            \/ Lacks(Tail(u), kind) /\ Head(u).kind = kind /\ Says(Head(u)) = v
  BY LastTail
<1> DEFINE t == Tail(u)
           l == Head(u)
<1> HIDE DEF t, l
<1> QED BY <1>1 DEF Comes, t, l

\* It is held.
LEMMA HeldComes ==
    ASSUME NEW u \in Seq(Lines), u # <<>>, NEW kind, NEW v, NEW there,
           NEW h \in Seq(Notifications), NEW d,
           Comes(kind, v, there, u, h, d)
    PROVE  Comes(kind, v, there, Tail(u), Append(h, Head(u)), d)
<1>1. \/ Head(u).kind # kind /\ Comes(kind, v, there, Tail(u), h, d)
      \/ Head(u).kind = kind /\ IsLast(Tail(u), kind, v)
      \/ Head(u).kind = kind /\ Lacks(Tail(u), kind) /\ Says(Head(u)) = v
  BY TakenComes
<1>2. /\ Lacks(Append(h, Head(u)), kind) <=> Lacks(h, kind) /\ Head(u).kind # kind
      /\ Head(u).kind = kind => IsLast(Append(h, Head(u)), kind, Says(Head(u)))
      /\ Head(u).kind # kind /\ IsLast(h, kind, v) => IsLast(Append(h, Head(u)), kind, v)
  BY LastAppend
<1> DEFINE t == Tail(u)
           l == Head(u)
           g == Append(h, Head(u))
<1> HIDE DEF t, l, g
<1> QED BY <1>1, <1>2 DEF Comes, t, l, g

\* It is passed on, and no line of its kind is held.
LEMMA PassedComes ==
    ASSUME NEW u \in Seq(Lines), u # <<>>, NEW kind, NEW v, NEW there,
           NEW h, NEW d \in Seq(Lines),
           Head(u).kind = kind => Lacks(h, kind),
           Comes(kind, v, there, u, h, d)
    PROVE  Comes(kind, v, there, Tail(u), h, d \o <<Head(u)>>)
<1> DEFINE t == Tail(u)
           l == Head(u)
           e == d \o <<l>>
<1>1. \/ l.kind # kind /\ Comes(kind, v, there, t, h, d)
      \/ l.kind = kind /\ IsLast(t, kind, v)
      \/ l.kind = kind /\ Lacks(t, kind) /\ Says(l) = v
  BY TakenComes
<1>2. l \in Lines /\ e = Append(d, l)
  BY AppendIsConcat
<1> HIDE DEF t, l, e
<1>3. /\ Lacks(e, kind) <=> Lacks(d, kind) /\ l.kind # kind
      /\ l.kind = kind => IsLast(e, kind, Says(l))
      /\ l.kind # kind /\ IsLast(d, kind, v) => IsLast(e, kind, v)
  BY <1>2, LastAppend
<1>4. l.kind = kind => Lacks(h, kind)
  BY DEF l
<1>5. Comes(kind, v, there, t, h, e)
  BY <1>1, <1>3, <1>4 DEF Comes
<1> QED BY <1>5 DEF t, l, e

\* What is held is flushed.
LEMMA FlushedComes ==
    ASSUME NEW u, NEW kind \in Kinds, NEW v, NEW there,
           NEW h \in Seq(Notifications), NEW d \in Seq(Lines),
           NEW first \in Seq(Lines), Lacks(first, kind),
           Comes(kind, v, there, u, h, d)
    PROVE  Comes(kind, v, there, u, <<>>, d \o Flushed(first, h))
<1> DEFINE f == Flushed(first, h)
           e == d \o f
<1>1. f \in Seq(Lines) /\ Keeps(f, h, kind)
  BY FlushKeeps
<1> HIDE DEF f
<1>2. /\ Lacks(e, kind) <=> Lacks(d, kind) /\ Lacks(f, kind)
      /\ IsLast(f, kind, v) => IsLast(e, kind, v)
      /\ IsLast(d, kind, v) /\ Lacks(f, kind) => IsLast(e, kind, v)
  BY <1>1, LastConcat
<1> HIDE DEF e
<1>3. Lacks(<<>>, kind)
  BY DEF Lacks
<1>4. Comes(kind, v, there, u, <<>>, e)
  BY <1>1, <1>2, <1>3 DEF Comes, Keeps
<1> QED BY <1>4 DEF e, f

\* The miner reads a line.
LEMMA ReadComes ==
    ASSUME NEW u, NEW kind, NEW v, NEW there, NEW then, NEW h,
           NEW d \in Seq(Lines), d # <<>>,
           Head(d).kind = kind => Says(Head(d)) \in then,
           Head(d).kind # kind /\ v \in there => v \in then,
           Comes(kind, v, there, u, h, d)
    PROVE  Comes(kind, v, then, u, h, Tail(d))
<1>1. /\ Lacks(d, kind) <=> Head(d).kind # kind /\ Lacks(Tail(d), kind)
      /\ IsLast(d, kind, v) =>
            \/ IsLast(Tail(d), kind, v)
            \/ Lacks(Tail(d), kind) /\ Head(d).kind = kind /\ Says(Head(d)) = v
  BY LastTail
<1> DEFINE t == Tail(d)
           l == Head(d)
<1>2. /\ l.kind = kind => Says(l) \in then
      /\ l.kind # kind /\ v \in there => v \in then
  OBVIOUS
<1> HIDE DEF t, l
<1> QED BY <1>1, <1>2 DEF Comes, t, l

\* Once nothing is on its way, v has arrived.
LEMMA ComesArrived ==
    ASSUME NEW kind, NEW v, NEW there, Comes(kind, v, there, <<>>, <<>>, <<>>)
    PROVE  v \in there
  BY DEF Comes, IsLast

-----------------------------------------------------------------------------
\* The types, one actor after the other.

PoolTyped ==
    /\ pool \in [terms : Terms, jobs : Seq(Jobs), asked : BOOLEAN]
    /\ issued \in Seq(Terms)
    /\ changes \in 0 .. MaxChanges
SharesTyped ==
    /\ shares \in Seq([job : Jobs, terms : Terms, status : Statuses])
    /\ Len(shares) =< MaxShares
LinesTyped == up \in Seq(Lines) /\ down \in Seq(Lines)
SessionTyped ==
    /\ session \in [terms : Terms, jobs : Seq(Jobs)]
    /\ pending \in [DOMAIN pending -> Difficulties] /\ DOMAIN pending \subseteq DOMAIN shares
    /\ bindings \subseteq DOMAIN shares
    /\ leaves \in Seq([share : DOMAIN shares, en : Extranonces, diff : Difficulties])
GateTyped == gate \in [open : BOOLEAN, held : Seq(Notifications), authorizing : BOOLEAN]
MinerTyped ==
    /\ miner \in [terms : Terms, work : {miner.work}, asked : BOOLEAN, authorized : BOOLEAN]
    /\ miner.work \in [DOMAIN miner.work -> Terms]

Typed ==
    PoolTyped /\ SharesTyped /\ LinesTyped /\ SessionTyped /\ GateTyped /\ MinerTyped

\* What a line makes of the terms.
LEMMA AmendedIs ==
    ASSUME NEW terms \in Terms, NEW line \in Lines
    PROVE  /\ Amended(terms, line) \in Terms
           /\ Amended(terms, line).diff =
                 IF line.kind = "set_difficulty" THEN line.diff ELSE terms.diff
           /\ Amended(terms, line).en =
                 IF line.kind = "set_extranonce" THEN line.en ELSE terms.en
<1>1. CASE line.kind = "set_difficulty"
  <2>1. line.diff \in Difficulties
    BY <1>1 DEF Lines, Notifications, Responses
  <2> QED BY <1>1, <2>1 DEF Amended, Terms
<1>2. CASE line.kind = "set_extranonce"
  <2>1. line.en \in Extranonces
    BY <1>2 DEF Lines, Notifications, Responses
  <2> QED BY <1>2, <2>1 DEF Amended, Terms
<1>3. CASE line.kind \notin {"set_difficulty", "set_extranonce"}
  BY <1>3 DEF Amended, Terms
<1> QED BY <1>1, <1>2, <1>3

\* What a line of a kind says.
LEMMA LineIs ==
    ASSUME NEW line \in Lines
    PROVE  /\ line.kind = "notify" => line.job \in Jobs /\ line.clean \in BOOLEAN
           /\ line.kind = "set_difficulty" => line.diff \in Difficulties
           /\ line.kind = "set_extranonce" => line.en \in Extranonces
           /\ line.kind = "submit" => line.share \in 1 .. MaxShares /\ line.ok \in BOOLEAN
           /\ IsNotification(line) => line \in Notifications
           /\ line.kind \in Kinds \cup {"authorize", "submit"}
  BY DEF Lines, Notifications, Responses, IsNotification, Kinds

\* The lines that are sent.
LEMMA LinesAre ==
    /\ \A job \in Jobs, clean \in BOOLEAN :
          [kind |-> "notify", job |-> job, clean |-> clean] \in Lines
    /\ \A d \in Difficulties : [kind |-> "set_difficulty", diff |-> d] \in Lines
    /\ \A e \in Extranonces : [kind |-> "set_extranonce", en |-> e] \in Lines
    /\ [kind |-> "authorize"] \in Lines
    /\ \A s \in 1 .. MaxShares, ok \in BOOLEAN :
          [kind |-> "submit", share |-> s, ok |-> ok] \in Lines
  BY DEF Lines, Notifications, Responses

-----------------------------------------------------------------------------
\* The steps, as far as lines move in them.

\* The pool sends a line: a job of its own number, or other terms.
Sends(line) ==
    /\ line \in Lines
    /\ up' = Append(up, line)
    /\ issued' = IF line.kind = "notify" THEN Append(issued, pool.terms) ELSE issued
    /\ line.kind = "notify" => line.job = Len(issued) + 1
    /\ changes' = changes + (IF line.kind \in {"set_difficulty", "set_extranonce"}
                             THEN 1 ELSE 0)
    /\ pool'.terms = Amended(pool.terms, line)
    /\ UNCHANGED <<down, gate, miner>>

\* forward takes a line to the gate.
Moves ==
    /\ up # <<>> /\ up' = Tail(up)
    /\ PassGate(Head(up))
    /\ UNCHANGED <<pool, issued, changes, miner>>

\* The miner reads one.
Reads ==
    /\ ReadProxy
    /\ UNCHANGED <<pool, issued, changes, up, gate>>

\* No line moves.
Rests ==
    /\ pool'.terms = pool.terms
    /\ gate'.open = gate.open /\ gate'.held = gate.held
    /\ miner'.terms = miner.terms /\ miner'.work = miner.work
    /\ miner'.authorized = miner.authorized
    /\ UNCHANGED <<issued, changes, up, down>>

\* Every step is one of these.
LEMMA StepMoves ==
    ASSUME Typed, [Next]_vars
    PROVE  (\E line : Sends(line)) \/ Moves \/ Reads \/ Rests
<1>0. Len(issued) \in Nat /\ DOMAIN shares = 1 .. Len(shares) /\ Len(shares) \in Nat
      /\ Len(shares) =< MaxShares /\ MaxIssued \in Nat /\ MaxShares \in Nat
  BY SessionAssumption DEF Typed, PoolTyped, SharesTyped
<1>1. ASSUME NEW clean \in BOOLEAN, Notify(clean) PROVE \E line : Sends(line)
  <2> DEFINE job == Len(issued) + 1
             line == [kind |-> "notify", job |-> job, clean |-> clean]
  <2>1. job \in Jobs
    BY <1>0, <1>1 DEF Notify, Jobs
  <2>2. line \in Lines /\ line.kind = "notify" /\ line.job = job
    BY <2>1, LinesAre
  <2>3. pool'.terms = pool.terms
    BY <1>1 DEF Notify, Typed, PoolTyped
  <2>4. /\ up' = Append(up, line) /\ issued' = Append(issued, pool.terms)
        /\ UNCHANGED <<changes, down, gate, miner>>
    BY <1>1, Zenon DEF Notify, Send, proxyVars
  <2> HIDE DEF line, job
  <2>5. Amended(pool.terms, line) = pool.terms
    BY <2>2 DEF Amended
  <2>6. changes' = changes + 0
    BY <2>4 DEF Typed, PoolTyped
  <2> QED BY <2>2, <2>3, <2>4, <2>5, <2>6 DEF Sends, job
<1>2. ASSUME NEW line \in Lines, line.kind \in {"set_difficulty", "set_extranonce"}, Change(line)
      PROVE  Sends(line)
  <2>1. pool'.terms = Amended(pool.terms, line)
    BY <1>2 DEF Change, Typed, PoolTyped
  <2>2. /\ up' = Append(up, line) /\ changes' = changes + 1
        /\ UNCHANGED <<issued, down, gate, miner>>
    BY <1>2, Zenon DEF Change, Send, proxyVars
  <2> QED BY <1>2, <2>1, <2>2 DEF Sends
<1>3. ASSUME NEW line \in Lines, line.kind \in {"authorize", "submit"}, up' = Append(up, line),
             pool'.terms = pool.terms, UNCHANGED <<issued, changes, down, gate, miner>>
      PROVE  Sends(line)
  <2>1. Amended(pool.terms, line) = pool.terms
    BY <1>3 DEF Amended
  <2>2. changes' = changes + 0
    BY <1>3 DEF Typed, PoolTyped
  <2> QED BY <1>3, <2>1, <2>2 DEF Sends
<1>4. ASSUME NEW d \in Difficulties, SetDifficulty(d) PROVE \E line : Sends(line)
  <2> DEFINE line == [kind |-> "set_difficulty", diff |-> d]
  <2>1. line \in Lines /\ line.kind = "set_difficulty" /\ Change(line)
    BY <1>4, LinesAre DEF SetDifficulty
  <2> HIDE DEF line
  <2> QED BY <1>2, <2>1
<1>5. ASSUME NEW e \in Extranonces, SetExtranonce(e) PROVE \E line : Sends(line)
  <2> DEFINE line == [kind |-> "set_extranonce", en |-> e]
  <2>1. line \in Lines /\ line.kind = "set_extranonce" /\ Change(line)
    BY <1>5, LinesAre DEF SetExtranonce
  <2> HIDE DEF line
  <2> QED BY <1>2, <2>1
<1>6. ASSUME AnswerAuthorize PROVE \E line : Sends(line)
  <2> DEFINE line == [kind |-> "authorize"]
  <2>1. line \in Lines /\ line.kind = "authorize"
    BY LinesAre
  <2>2. pool'.terms = pool.terms
    BY <1>6 DEF AnswerAuthorize, Typed, PoolTyped
  <2>3. up' = Append(up, line) /\ UNCHANGED <<issued, changes, down, gate, miner>>
    BY <1>6, Zenon DEF AnswerAuthorize, Send, proxyVars
  <2> HIDE DEF line
  <2> QED BY <1>3, <2>1, <2>2, <2>3
<1>7. ASSUME NEW s \in DOMAIN shares, AnswerSubmit(s) PROVE \E line : Sends(line)
  <2> DEFINE line == [kind |-> "submit", share |-> s, ok |-> shares[s].status = "accepted"]
  <2>0. (shares[s].status = "accepted") \in BOOLEAN /\ s \in 1 .. MaxShares
    BY <1>0
  <2>1. line \in Lines /\ line.kind = "submit"
    BY <2>0, LinesAre, Zenon
  <2>2. up' = Append(up, line) /\ UNCHANGED <<pool, issued, changes, down, gate, miner>>
    BY <1>7, Zenon DEF AnswerSubmit, Send, proxyVars, poolVars
  <2> HIDE DEF line
  <2> QED BY <1>3, <2>1, <2>2
<1>8. CASE ReadPool
  BY <1>8, Zenon DEF ReadPool, Moves, poolVars
<1>9. CASE ReadProxy
  BY <1>9, Zenon DEF ReadProxy, Reads, poolVars, proxyVars
<1>10. ASSUME NEW s \in DOMAIN shares, Accept(s) PROVE Rests
  BY <1>10, Zenon DEF Accept, Rests, poolVars, proxyVars
<1>11. ASSUME NEW job \in Jobs, Submit(job) PROVE Rests
  BY <1>11, Zenon DEF Submit, Rests, poolVars
<1>12. CASE Authorize
  <2>1. /\ miner' = [miner EXCEPT !.asked = TRUE]
        /\ gate' = [gate EXCEPT !.authorizing = ~gate.open]
        /\ pool' = [pool EXCEPT !.asked = TRUE]
        /\ UNCHANGED <<issued, changes, up, down>>
    BY <1>12, Zenon DEF Authorize
  <2>2. pool'.terms = pool.terms
    BY <2>1 DEF Typed, PoolTyped
  <2>3. gate'.open = gate.open /\ gate'.held = gate.held
    BY <2>1 DEF Typed, GateTyped
  <2>4. miner'.terms = miner.terms /\ miner'.work = miner.work
        /\ miner'.authorized = miner.authorized
    BY <2>1 DEF Typed, MinerTyped
  <2> QED BY <2>1, <2>2, <2>3, <2>4, Zenon DEF Rests
<1>13. CASE UNCHANGED vars
  BY <1>13, Zenon DEF vars, Rests, poolVars, proxyVars
<1> QED
  BY <1>1, <1>4, <1>5, <1>6, <1>7, <1>8, <1>9, <1>10, <1>11, <1>12, <1>13, Zenon DEF Next

-----------------------------------------------------------------------------
\* The miner will be in step with the pool.

OpenHoldsNone == gate.open => gate.held = <<>>
DiffComes ==
    Comes("set_difficulty", pool.terms.diff, {miner.terms.diff}, up, gate.held, down)
EnComes ==
    Comes("set_extranonce", pool.terms.en, {miner.terms.en}, up, gate.held, down)
JobComes ==
    issued # <<>> => Comes("notify", Len(issued), DOMAIN miner.work, up, gate.held, down)

WorkComes == OpenHoldsNone /\ DiffComes /\ EnComes /\ JobComes

\* The gate passes a line on, holds it, or opens.
LEMMA GateCases ==
    ASSUME Typed, OpenHoldsNone, up # <<>>, PassGate(Head(up))
    PROVE  \/ /\ gate.open \/ Head(up).kind = "submit"
              /\ gate' = gate /\ down' = down \o <<Head(up)>>
           \/ /\ ~gate.open /\ IsNotification(Head(up)) /\ Len(gate.held) + 1 =< MAX_HELD
              /\ ~gate'.open /\ gate'.held = Append(gate.held, Head(up))
              /\ down' = down
           \/ /\ ~gate.open /\ IsNotification(Head(up)) /\ Len(gate.held) + 1 > MAX_HELD
              /\ gate'.open /\ gate'.held = <<>>
              /\ down' = down \o Flushed(<<>>, Append(gate.held, Head(up)))
           \/ /\ ~gate.open /\ Head(up).kind = "authorize"
              /\ gate'.open /\ gate'.held = <<>>
              /\ down' = down \o Flushed(<<Head(up)>>, gate.held)
<1> DEFINE line == Head(up)
<1>0. Len(gate.held) \in Nat /\ MAX_HELD \in Nat
  BY SessionAssumption DEF Typed, GateTyped
<1> HIDE DEF line
<1>1. ASSUME NEW first, NEW lines, OpenAndFlush(first, lines)
      PROVE  gate'.open /\ gate'.held = <<>> /\ down' = down \o Flushed(first, lines)
  BY <1>1 DEF OpenAndFlush, Write
<1>2. CASE (gate.open \/ line.kind = "submit") /\ Write(<<line>>) /\ UNCHANGED gate
  <2>1. gate' = gate /\ down' = down \o <<line>>
    BY <1>2, Zenon DEF Write
  <2> QED BY <1>2, <2>1, Zenon DEF line
<1>3. CASE ~gate.open /\ IsNotification(line) /\ Len(gate.held) + 1 > MAX_HELD
           /\ OpenAndFlush(<<>>, Append(gate.held, line))
  BY <1>1, <1>3, Zenon DEF line
<1>4. CASE ~gate.open /\ IsNotification(line) /\ ~(Len(gate.held) + 1 > MAX_HELD)
           /\ gate' = [gate EXCEPT !.held = Append(gate.held, line)] /\ UNCHANGED down
  <2>1. ~gate'.open /\ gate'.held = Append(gate.held, line)
    BY <1>4 DEF Typed, GateTyped
  <2>2. Len(gate.held) + 1 =< MAX_HELD
    BY <1>0, <1>4
  <2> QED BY <1>4, <2>1, <2>2, Zenon DEF line
<1>5. CASE ~gate.open /\ line.kind = "authorize" /\ OpenAndFlush(<<line>>, gate.held)
  BY <1>1, <1>5, Zenon DEF line
<1>6. PassGate(line)
  BY DEF line
<1> QED BY <1>2, <1>3, <1>4, <1>5, <1>6, Zenon DEF PassGate

\* Over the gate everything stays on its way.
LEMMA ComesOver ==
    ASSUME Typed, OpenHoldsNone, Moves, NEW kind \in Kinds, NEW v, NEW there,
           Comes(kind, v, there, up, gate.held, down)
    PROVE  Comes(kind, v, there, up', gate'.held, down')
<1>1. /\ up \in Seq(Lines) /\ down \in Seq(Lines) /\ gate.held \in Seq(Notifications)
      /\ up # <<>> /\ up' = Tail(up) /\ PassGate(Head(up)) /\ Head(up) \in Lines
  BY DEF Typed, LinesTyped, GateTyped, Moves
<1> DEFINE line == Head(up)
<1>2. Lacks(<<>>, kind) /\ kind \notin {"submit", "authorize"}
  BY DEF Lacks, Kinds
<1>3. CASE /\ gate.open \/ line.kind = "submit"
           /\ gate' = gate /\ down' = down \o <<line>>
  <2>1. line.kind = kind => Lacks(gate.held, kind)
    BY <1>2, <1>3 DEF OpenHoldsNone
  <2> QED BY <1>1, <1>3, <2>1, PassedComes
<1>4. CASE IsNotification(line) /\ gate'.held = Append(gate.held, line) /\ down' = down
  BY <1>1, <1>4, HeldComes
<1>5. CASE /\ IsNotification(line) /\ gate'.held = <<>>
           /\ down' = down \o Flushed(<<>>, Append(gate.held, line))
  <2>1. Append(gate.held, line) \in Seq(Notifications)
    BY <1>1, <1>5, LineIs
  <2>2. Comes(kind, v, there, Tail(up), Append(gate.held, line), down)
    BY <1>1, HeldComes
  <2>3. <<>> \in Seq(Lines)
    OBVIOUS
  <2> DEFINE h == Append(gate.held, line)
  <2> HIDE DEF h
  <2>4. Comes(kind, v, there, Tail(up), <<>>, down \o Flushed(<<>>, h))
    BY <1>1, <1>2, <2>1, <2>2, <2>3, FlushedComes DEF h
  <2> QED BY <1>1, <1>5, <2>4, Zenon DEF h
<1>6. CASE /\ line.kind = "authorize" /\ gate'.held = <<>>
           /\ down' = down \o Flushed(<<line>>, gate.held)
  <2>1. Comes(kind, v, there, Tail(up), gate.held, down)
    BY <1>1, <1>2, <1>6, TakenComes
  <2>2. <<line>> \in Seq(Lines) /\ Lacks(<<line>>, kind)
    <3> HIDE DEF line
    <3> QED BY <1>1, <1>2, <1>6 DEF Lacks, line
  <2>3. Comes(kind, v, there, Tail(up), <<>>, down \o Flushed(<<line>>, gate.held))
    <3> HIDE DEF line
    <3> QED BY <1>1, <2>1, <2>2, FlushedComes
  <2> QED BY <1>1, <1>6, <2>3, Zenon
<1> HIDE DEF line
<1> QED BY <1>1, <1>3, <1>4, <1>5, <1>6, GateCases, Zenon DEF line

\* What the miner has read.
LEMMA MinerReads ==
    ASSUME Typed, ReadProxy
    PROVE  LET line == Head(down) IN
           /\ down # <<>> /\ down' = Tail(down) /\ line \in Lines
           /\ miner'.terms = Amended(miner.terms, line)
           /\ miner'.authorized = (miner.authorized \/ line.kind = "authorize")
           /\ line.kind = "notify" => line.job \in DOMAIN miner'.work
           /\ line.kind # "notify" => DOMAIN miner'.work = DOMAIN miner.work
           /\ miner'.work \in [DOMAIN miner'.work -> Terms]
<1> DEFINE line == Head(down)
           kept == IF line.kind = "notify" /\ line.clean THEN {} ELSE DOMAIN miner.work
           jobs == IF line.kind = "notify" THEN kept \cup {line.job} ELSE kept
           work == [j \in jobs |-> IF j \in kept THEN miner.work[j] ELSE miner.terms]
<1>1. /\ down # <<>> /\ down' = Tail(down)
      /\ miner' = [terms |-> Amended(miner.terms, line), work |-> work, asked |-> miner.asked,
                   authorized |-> miner.authorized \/ line.kind = "authorize"]
  BY Zenon DEF ReadProxy
<1>2. line \in Lines
  BY <1>1 DEF Typed, LinesTyped
<1>3. /\ line.kind = "notify" => line.job \in DOMAIN work
      /\ line.kind # "notify" => DOMAIN work = DOMAIN miner.work
  OBVIOUS
<1>4. work \in [DOMAIN work -> Terms]
  <2>1. /\ kept \subseteq DOMAIN miner.work /\ miner.terms \in Terms
        /\ \A j \in DOMAIN miner.work : miner.work[j] \in Terms
    BY DEF Typed, MinerTyped
  <2> HIDE DEF kept, jobs
  <2> QED BY <2>1
<1> HIDE DEF work, line
<1>5. /\ miner'.terms = Amended(miner.terms, line) /\ miner'.work = work
      /\ miner'.authorized = (miner.authorized \/ line.kind = "authorize")
  BY <1>1, Zenon
<1> QED BY <1>1, <1>2, <1>3, <1>4, <1>5, Zenon DEF line

\* What the pool sends comes.
LEMMA SendsComes ==
    ASSUME Typed, WorkComes, NEW line, Sends(line)
    PROVE  WorkComes'
<1>1. /\ line \in Lines /\ up \in Seq(Lines) /\ up' = Append(up, line)
      /\ pool.terms \in Terms /\ pool'.terms = Amended(pool.terms, line)
      /\ gate' = gate /\ down' = down /\ miner' = miner
      /\ issued \in Seq(Terms) /\ Len(issued) \in Nat
  BY DEF Typed, LinesTyped, PoolTyped, Sends
<1>2. /\ pool'.terms.diff = IF line.kind = "set_difficulty" THEN line.diff ELSE pool.terms.diff
      /\ pool'.terms.en = IF line.kind = "set_extranonce" THEN line.en ELSE pool.terms.en
  BY <1>1, AmendedIs
<1>3. ASSUME NEW kind, NEW there
      PROVE  /\ line.kind = kind => Comes(kind, Says(line), there, up', gate.held, down)
             /\ \A v : line.kind # kind /\ Comes(kind, v, there, up, gate.held, down)
                         => Comes(kind, v, there, up', gate.held, down)
  BY <1>1, SentComes
<1>4. DiffComes'
  <2>1. Comes("set_difficulty", pool'.terms.diff, {miner.terms.diff}, up', gate.held, down)
    <3>1. CASE line.kind = "set_difficulty"
      <4>1. Says(line) = pool'.terms.diff
        BY <1>2, <3>1 DEF Says
      <4> QED BY <1>3, <3>1, <4>1
    <3>2. CASE line.kind # "set_difficulty"
      BY <1>2, <1>3, <3>2 DEF WorkComes, DiffComes
    <3> QED BY <3>1, <3>2
  <2> QED BY <1>1, <2>1, Zenon DEF DiffComes
<1>5. EnComes'
  <2>1. Comes("set_extranonce", pool'.terms.en, {miner.terms.en}, up', gate.held, down)
    <3>1. CASE line.kind = "set_extranonce"
      <4>1. Says(line) = pool'.terms.en
        BY <1>2, <3>1 DEF Says
      <4> QED BY <1>3, <3>1, <4>1
    <3>2. CASE line.kind # "set_extranonce"
      BY <1>2, <1>3, <3>2 DEF WorkComes, EnComes
    <3> QED BY <3>1, <3>2
  <2> QED BY <1>1, <2>1, Zenon DEF EnComes
<1>6. JobComes'
  <2>1. issued' # <<>> =>
           Comes("notify", Len(issued'), DOMAIN miner.work, up', gate.held, down)
    <3>1. CASE line.kind = "notify"
      <4>1. line.job = Len(issued) + 1 /\ issued' = Append(issued, pool.terms)
        BY <3>1 DEF Sends
      <4>2. Says(line) = Len(issued')
        BY <1>1, <3>1, <4>1 DEF Says
      <4> QED BY <1>3, <3>1, <4>2
    <3>2. CASE line.kind # "notify"
      <4>1. issued' = issued
        BY <3>2 DEF Sends
      <4> QED BY <1>3, <3>2, <4>1 DEF WorkComes, JobComes
    <3> QED BY <3>1, <3>2
  <2> QED BY <1>1, <2>1, Zenon DEF JobComes
<1>7. OpenHoldsNone'
  BY <1>1, Zenon DEF WorkComes, OpenHoldsNone
<1> QED BY <1>4, <1>5, <1>6, <1>7, Zenon DEF WorkComes

\* It is not lost on the gate.
LEMMA MovesComes ==
    ASSUME Typed, WorkComes, Moves
    PROVE  WorkComes'
<1>1. ASSUME NEW kind \in Kinds, NEW v, NEW there,
             Comes(kind, v, there, up, gate.held, down)
      PROVE  Comes(kind, v, there, up', gate'.held, down')
  BY <1>1, ComesOver, Zenon DEF WorkComes
<1>2. {"notify", "set_difficulty", "set_extranonce"} = Kinds
  BY DEF Kinds
<1>3. pool' = pool /\ issued' = issued /\ miner' = miner
  BY Zenon DEF Moves
<1>4. DiffComes'
  BY <1>1, <1>2, <1>3, Zenon DEF WorkComes, DiffComes
<1>5. EnComes'
  BY <1>1, <1>2, <1>3, Zenon DEF WorkComes, EnComes
<1>6. JobComes'
  BY <1>1, <1>2, <1>3, Zenon DEF WorkComes, JobComes
<1>7. OpenHoldsNone'
  BY GateCases, Zenon DEF WorkComes, OpenHoldsNone, Moves
<1> QED BY <1>4, <1>5, <1>6, <1>7, Zenon DEF WorkComes

\* The miner has what it has read.
LEMMA ReadsComes ==
    ASSUME Typed, WorkComes, Reads
    PROVE  WorkComes'
<1> DEFINE line == Head(down)
<1>1. /\ down # <<>> /\ down' = Tail(down) /\ line \in Lines
      /\ miner'.terms = Amended(miner.terms, line)
      /\ line.kind = "notify" => line.job \in DOMAIN miner'.work
      /\ line.kind # "notify" => DOMAIN miner'.work = DOMAIN miner.work
  BY MinerReads, Zenon DEF Reads
<1>2. /\ down \in Seq(Lines) /\ miner.terms \in Terms
  BY DEF Typed, LinesTyped, MinerTyped
<1>3. pool' = pool /\ issued' = issued /\ up' = up /\ gate' = gate
  BY Zenon DEF Reads
<1>4. /\ miner'.terms.diff = IF line.kind = "set_difficulty" THEN line.diff ELSE miner.terms.diff
      /\ miner'.terms.en = IF line.kind = "set_extranonce" THEN line.en ELSE miner.terms.en
  <2> HIDE DEF line
  <2> QED BY <1>1, <1>2, AmendedIs
<1>5. DiffComes'
  <2>1. /\ line.kind = "set_difficulty" => Says(line) \in {miner'.terms.diff}
        /\ \A v : line.kind # "set_difficulty" /\ v \in {miner.terms.diff}
                    => v \in {miner'.terms.diff}
    <3> HIDE DEF line
    <3> QED BY <1>4 DEF Says
  <2>2. Comes("set_difficulty", pool.terms.diff, {miner'.terms.diff}, up, gate.held, Tail(down))
    BY <1>1, <1>2, <2>1, ReadComes DEF WorkComes, DiffComes
  <2> QED BY <1>1, <1>3, <2>2, Zenon DEF DiffComes
<1>6. EnComes'
  <2>1. /\ line.kind = "set_extranonce" => Says(line) \in {miner'.terms.en}
        /\ \A v : line.kind # "set_extranonce" /\ v \in {miner.terms.en}
                    => v \in {miner'.terms.en}
    <3> HIDE DEF line
    <3> QED BY <1>4 DEF Says
  <2>2. Comes("set_extranonce", pool.terms.en, {miner'.terms.en}, up, gate.held, Tail(down))
    BY <1>1, <1>2, <2>1, ReadComes DEF WorkComes, EnComes
  <2> QED BY <1>1, <1>3, <2>2, Zenon DEF EnComes
<1>7. JobComes'
  <2>1. /\ line.kind = "notify" => Says(line) \in DOMAIN miner'.work
        /\ \A v : line.kind # "notify" /\ v \in DOMAIN miner.work => v \in DOMAIN miner'.work
    <3> HIDE DEF line
    <3> QED BY <1>1 DEF Says
  <2>2. issued # <<>> =>
           Comes("notify", Len(issued), DOMAIN miner'.work, up, gate.held, Tail(down))
    BY <1>1, <1>2, <2>1, ReadComes DEF WorkComes, JobComes
  <2> QED BY <1>1, <1>3, <2>2, Zenon DEF JobComes
<1>8. OpenHoldsNone'
  BY <1>3, Zenon DEF WorkComes, OpenHoldsNone
<1> QED BY <1>5, <1>6, <1>7, <1>8, Zenon DEF WorkComes

\* Nothing is on its way at first, and all that is comes.
LEMMA InitComes == ASSUME Init PROVE WorkComes
<1>1. /\ pool.terms = miner.terms /\ issued = <<>> /\ up = <<>> /\ down = <<>>
      /\ gate.open = FALSE /\ gate.held = <<>>
  BY DEF Init
<1>2. \A kind : Lacks(<<>>, kind)
  BY DEF Lacks
<1> QED BY <1>1, <1>2, Zenon DEF WorkComes, OpenHoldsNone, DiffComes, EnComes, JobComes, Comes

\* Every step lets it come.
LEMMA StepComes ==
    ASSUME Typed, WorkComes, [Next]_vars
    PROVE  WorkComes'
<1>1. ASSUME Rests PROVE WorkComes'
  BY <1>1, Zenon DEF Rests, WorkComes, OpenHoldsNone, DiffComes, EnComes, JobComes
<1> QED BY <1>1, StepMoves, SendsComes, MovesComes, ReadsComes, Zenon

-----------------------------------------------------------------------------
\* Who counts what the gate holds.

One(line) == IF IsNotification(line) THEN 1 ELSE 0

\* c[k] bounds the notifications the gate has held after k more lines.
Counts(c, h, u, n) ==
    /\ Len(h) =< c[0]
    /\ \A k \in 0 .. Len(u) : c[k] \in Nat /\ c[k] =< n
    /\ \A k \in 1 .. Len(u) : c[k - 1] + One(u[k]) =< c[k]

\* The pool sent no more of them than it issued jobs and changed terms.
HeldIsSent == \E c : Counts(c, gate.held, up, Len(issued) + changes)

\* One line more on the way.
LEMMA CountsMore ==
    ASSUME NEW u \in Seq(Lines), NEW line, NEW h, NEW c, NEW n \in Nat, NEW m \in Nat,
           m = n + One(line), Counts(c, h, u, n)
    PROVE  \E e : Counts(e, h, Append(u, line), m)
<1> DEFINE l == Len(u)
           w == Append(u, line)
           e == [k \in 0 .. l + 1 |-> IF k =< l THEN c[k] ELSE m]
<1>1. /\ l \in Nat /\ Len(w) = l + 1
      /\ \A k \in 1 .. l : w[k] = u[k]
      /\ w[l + 1] = line
  <2>1. u \in Seq(Lines \cup {line})
    OBVIOUS
  <2> QED BY <2>1
<1>2. One(line) \in {0, 1}
  BY DEF One
<1>3. \A k \in 0 .. l : c[k] \in Nat /\ c[k] =< n
  BY DEF Counts
<1>4. \A k \in 1 .. l : c[k - 1] + One(u[k]) =< c[k]
  BY DEF Counts
<1>5. Len(h) =< c[0]
  BY DEF Counts
<1> HIDE DEF l, w
<1>6. \A k \in 0 .. l : e[k] = c[k]
  BY <1>1
<1>7. e[l + 1] = m
  BY <1>1
<1> HIDE DEF e
<1>8. Len(h) =< e[0]
  BY <1>1, <1>5, <1>6
<1>9. ASSUME NEW k \in 0 .. l + 1 PROVE e[k] \in Nat /\ e[k] =< m
  BY <1>1, <1>2, <1>3, <1>6, <1>7
<1>10. ASSUME NEW k \in 1 .. l + 1 PROVE e[k - 1] + One(w[k]) =< e[k]
  <2>1. CASE k \in 1 .. l
    <3>1. k - 1 \in 0 .. l /\ k \in 0 .. l
      BY <1>1, <2>1
    <3> QED BY <1>1, <1>4, <1>6, <2>1, <3>1
  <2>2. CASE k = l + 1
    <3>1. k - 1 = l /\ l \in 0 .. l
      BY <1>1, <2>2
    <3>2. e[k - 1] = c[l] /\ c[l] \in Nat /\ c[l] =< n /\ w[k] = line /\ e[k] = m
      BY <1>1, <1>3, <1>6, <1>7, <2>2, <3>1
    <3> QED BY <1>2, <3>2
  <2> QED BY <1>1, <2>1, <2>2
<1>11. Counts(e, h, w, m)
  BY <1>1, <1>8, <1>9, <1>10 DEF Counts
<1> QED BY <1>11 DEF w

\* One line less, with what the gate holds then.
LEMMA CountsLess ==
    ASSUME NEW u \in Seq(Lines), u # <<>>, NEW h, NEW g, NEW c, NEW n \in Nat,
           Len(h) \in Nat, Len(g) \in Nat,
           Len(g) =< Len(h) + One(Head(u)), Counts(c, h, u, n)
    PROVE  /\ Len(h) + One(Head(u)) =< n
           /\ \E e : Counts(e, g, Tail(u), n)
<1> DEFINE l == Len(u)
           t == Tail(u)
           e == [k \in 0 .. l - 1 |-> c[k + 1]]
<1>1. /\ l \in Nat \ {0} /\ Len(t) = l - 1 /\ Head(u) = u[1]
      /\ \A k \in 1 .. l - 1 : t[k] = u[k + 1]
  OBVIOUS
<1>2. One(u[1]) \in {0, 1}
  BY DEF One
<1>3. \A k \in 0 .. l : c[k] \in Nat /\ c[k] =< n
  BY DEF Counts
<1>4. \A k \in 1 .. l : c[k - 1] + One(u[k]) =< c[k]
  BY DEF Counts
<1>5. Len(h) =< c[0]
  BY DEF Counts
<1> HIDE DEF l, t
<1>6. c[0] + One(u[1]) =< c[1] /\ c[0] \in Nat /\ c[1] \in Nat /\ c[1] =< n
  <2>1. 1 \in 1 .. l /\ 1 - 1 = 0 /\ 0 \in 0 .. l /\ 1 \in 0 .. l
    BY <1>1
  <2> QED BY <1>3, <1>4, <2>1
<1>7. Len(h) + One(u[1]) =< n /\ Len(g) =< c[1]
  BY <1>1, <1>2, <1>5, <1>6
<1>8. \A k \in 0 .. l - 1 : e[k] = c[k + 1]
  OBVIOUS
<1> HIDE DEF e
<1>9. Len(g) =< e[0]
  BY <1>1, <1>7, <1>8
<1>10. ASSUME NEW k \in 0 .. l - 1 PROVE e[k] \in Nat /\ e[k] =< n
  <2>1. k + 1 \in 0 .. l
    BY <1>1
  <2> QED BY <1>3, <1>8, <2>1
<1>11. ASSUME NEW k \in 1 .. l - 1 PROVE e[k - 1] + One(t[k]) =< e[k]
  <2>1. /\ k + 1 \in 1 .. l /\ (k + 1) - 1 = k /\ (k - 1) + 1 = k
        /\ k \in 0 .. l - 1 /\ k - 1 \in 0 .. l - 1
    BY <1>1
  <2>2. c[k] + One(u[k + 1]) =< c[k + 1]
    BY <1>4, <2>1
  <2> QED BY <1>1, <1>8, <2>1, <2>2
<1>12. Counts(e, g, t, n)
  BY <1>1, <1>9, <1>10, <1>11 DEF Counts
<1> QED BY <1>1, <1>7, <1>12 DEF t

\* The numbers in what the pool sent.
LEMMA SentIs ==
    ASSUME Typed
    PROVE  /\ Len(issued) \in Nat /\ changes \in Nat /\ Len(issued) + changes \in Nat
           /\ \A line : Sends(line) => Len(issued') \in Nat /\ changes' \in Nat
                 /\ Len(issued') + changes' = Len(issued) + changes + One(line)
<1>1. issued \in Seq(Terms) /\ pool.terms \in Terms /\ changes \in Nat /\ Len(issued) \in Nat
  BY SessionAssumption DEF Typed, PoolTyped
<1>2. ASSUME NEW line, Sends(line)
      PROVE  /\ Len(issued') \in Nat /\ changes' \in Nat
             /\ Len(issued') + changes' = Len(issued) + changes + One(line)
  <2> DEFINE i == Len(issued)
             j == Len(issued')
             term == IF line.kind \in {"set_difficulty", "set_extranonce"} THEN 1 ELSE 0
             job == IF line.kind = "notify" THEN 1 ELSE 0
  <2>1. j = i + job
    <3>1. issued' = IF line.kind = "notify" THEN Append(issued, pool.terms) ELSE issued
      BY <1>2, Zenon DEF Sends
    <3>2. Len(Append(issued, pool.terms)) = Len(issued) + 1
      BY <1>1
    <3> QED BY <1>1, <3>1, <3>2
  <2>2. changes' = changes + term
    BY <1>2, Zenon DEF Sends
  <2>3. One(line) = job + term /\ job \in {0, 1} /\ term \in {0, 1}
    BY DEF One, IsNotification
  <2> HIDE DEF i, j, job, term
  <2>4. i \in Nat
    BY <1>1 DEF i
  <2>5. j \in Nat /\ changes' \in Nat /\ j + changes' = i + changes + One(line)
    <3>1. PICK m \in Nat : m = changes'
      BY <1>1, <2>2, <2>3
    <3> QED BY <1>1, <2>1, <2>2, <2>3, <2>4, <3>1
  <2> QED BY <2>5 DEF i, j
<1> QED BY <1>1, <1>2

\* What is held was sent.
LEMMA SendsHeld ==
    ASSUME Typed, HeldIsSent, NEW line, Sends(line)
    PROVE  HeldIsSent'
<1>1. /\ up \in Seq(Lines) /\ up' = Append(up, line) /\ gate' = gate
  BY Zenon DEF Typed, LinesTyped, Sends
<1>2. PICK n \in Nat : n = Len(issued) + changes
  BY SentIs
<1>3. PICK m \in Nat : m = Len(issued') + changes'
  BY SentIs
<1>4. m = n + One(line)
  BY <1>2, <1>3, SentIs
<1>5. PICK c : Counts(c, gate.held, up, n)
  BY <1>2, Zenon DEF HeldIsSent
<1>6. \E e : Counts(e, gate.held, Append(up, line), m)
  BY <1>1, <1>4, <1>5, CountsMore
<1> QED BY <1>1, <1>3, <1>6, Zenon DEF HeldIsSent

\* Over the gate what is held grows by a notification at most.
LEMMA MovesHeld ==
    ASSUME Typed, OpenHoldsNone, HeldIsSent, Moves
    PROVE  /\ Len(gate.held) + One(Head(up)) =< Len(issued) + changes
           /\ HeldIsSent'
<1>1. /\ up \in Seq(Lines) /\ up # <<>> /\ up' = Tail(up)
      /\ gate.held \in Seq(Notifications) /\ Len(gate.held) \in Nat
  BY DEF Typed, LinesTyped, GateTyped, Moves
<1>2. issued' = issued /\ changes' = changes /\ PassGate(Head(up))
  BY Zenon DEF Moves
<1>3. PICK n \in Nat : n = Len(issued) + changes
  BY SentIs
<1>4. PICK c : Counts(c, gate.held, up, n)
  BY <1>3, Zenon DEF HeldIsSent
<1>5. Len(gate'.held) \in Nat /\ Len(gate'.held) =< Len(gate.held) + One(Head(up))
  <2>1. One(Head(up)) \in {0, 1}
    BY DEF One
  <2>2. CASE gate' = gate
    <3>1. gate'.held = gate.held
      BY <2>2, Zenon
    <3> QED BY <1>1, <2>1, <3>1
  <2>3. CASE IsNotification(Head(up)) /\ gate'.held = Append(gate.held, Head(up))
    <3>1. Len(Append(gate.held, Head(up))) = Len(gate.held) + 1
      <4>1. gate.held \in Seq(Notifications \cup {Head(up)})
        BY <1>1
      <4> QED BY <4>1
    <3> QED BY <1>1, <2>3, <3>1 DEF One
  <2>4. CASE gate'.held = <<>>
    BY <1>1, <2>1, <2>4
  <2> QED BY <1>1, <1>2, <2>2, <2>3, <2>4, GateCases, Zenon
<1>6. /\ Len(gate.held) + One(Head(up)) =< n
      /\ \E e : Counts(e, gate'.held, Tail(up), n)
  BY <1>1, <1>4, <1>5, CountsLess
<1>7. HeldIsSent'
  BY <1>1, <1>2, <1>3, <1>6, Zenon DEF HeldIsSent
<1> QED BY <1>3, <1>6, <1>7

\* Nothing is held at first.
LEMMA InitHeld == ASSUME Init PROVE HeldIsSent
<1>1. gate.held = <<>> /\ up = <<>> /\ issued = <<>> /\ changes = 0
  BY DEF Init
<1>2. Counts([k \in {0} |-> 0], <<>>, <<>>, 0)
  BY DEF Counts
<1>3. Len(<<>>) + 0 = 0
  OBVIOUS
<1> QED BY <1>1, <1>2, <1>3 DEF HeldIsSent

\* Every step holds what was sent.
LEMMA StepHeld ==
    ASSUME Typed, OpenHoldsNone, HeldIsSent, [Next]_vars
    PROVE  HeldIsSent'
<1>1. ASSUME Reads \/ Rests PROVE HeldIsSent'
  BY <1>1, Zenon DEF Rests, Reads, HeldIsSent
<1> QED BY <1>1, StepMoves, SendsHeld, MovesHeld, Zenon

-----------------------------------------------------------------------------
\* No work before the answer to authorize.

\* The pool has said no more than the gate may hold.
Few == Len(issued) + changes =< MAX_HELD

Answered(d, k) == \E j \in 1 .. k : d[j].kind = "authorize"
Guarded(d, a) == \A i \in 1 .. Len(d) : IsNotification(d[i]) => a \/ Answered(d, i - 1)

AnswerFirst ==
    /\ DOMAIN miner.work # {} => miner.authorized
    /\ Guarded(down, miner.authorized)
    /\ gate.open => miner.authorized \/ Answered(down, Len(down))

\* Behind lines that are guarded come others, or the answer.
LEMMA GuardedConcat ==
    ASSUME NEW d \in Seq(Lines), NEW f \in Seq(Lines), NEW a,
           Guarded(d, a),
           \/ \A i \in 1 .. Len(f) : ~IsNotification(f[i])
           \/ a \/ Answered(d, Len(d))
           \/ f # <<>> /\ f[1].kind = "authorize"
    PROVE  /\ Guarded(d \o f, a)
           /\ Answered(d, Len(d)) \/ (f # <<>> /\ f[1].kind = "authorize")
                => Answered(d \o f, Len(d \o f))
<1> DEFINE w == d \o f
           m == Len(d)
           n == Len(f)
<1>1. /\ m \in Nat /\ n \in Nat /\ Len(w) = m + n
      /\ \A k \in 1 .. m : w[k] = d[k]
      /\ \A k \in m + 1 .. m + n : w[k] = f[k - m]
      /\ f # <<>> => n >= 1 /\ w[m + 1] = f[1]
  OBVIOUS
<1> HIDE DEF w, m, n
<1>2. ASSUME NEW k \in 0 .. m, NEW l \in k .. m + n, Answered(d, k) PROVE Answered(w, l)
  <2>1. PICK j \in 1 .. k : d[j].kind = "authorize"
    BY <1>2 DEF Answered
  <2>2. j \in 1 .. l /\ w[j] = d[j]
    BY <1>1, <2>1
  <2> QED BY <2>1, <2>2 DEF Answered
<1>3. ASSUME NEW l \in m + 1 .. m + n, f # <<>>, f[1].kind = "authorize" PROVE Answered(w, l)
  <2>1. m + 1 \in 1 .. l /\ w[m + 1].kind = "authorize"
    BY <1>1, <1>3
  <2> QED BY <2>1 DEF Answered
<1>4. ASSUME NEW i \in 1 .. m + n, IsNotification(w[i]), ~a PROVE Answered(w, i - 1)
  <2>1. CASE i \in 1 .. m
    <3>1. Answered(d, i - 1)
      BY <1>1, <1>4, <2>1 DEF Guarded, m
    <3>2. i - 1 \in 0 .. m /\ i - 1 \in i - 1 .. m + n
      BY <1>1, <2>1
    <3> QED BY <1>2, <3>1, <3>2
  <2>2. CASE i \in m + 1 .. m + n
    <3>1. i - m \in 1 .. n /\ IsNotification(f[i - m])
      BY <1>1, <1>4, <2>2
    <3>2. CASE Answered(d, m)
      <4>1. m \in 0 .. m /\ i - 1 \in m .. m + n
        BY <1>1, <2>2
      <4> QED BY <1>2, <3>2, <4>1
    <3>3. CASE f # <<>> /\ f[1].kind = "authorize"
      <4>1. i # m + 1
        BY <1>1, <3>1, <3>3 DEF IsNotification
      <4>2. i - 1 \in m + 1 .. m + n
        BY <1>1, <2>2, <4>1
      <4> QED BY <1>3, <3>3, <4>2
    <3> QED BY <1>4, <3>1, <3>2, <3>3 DEF m, n
  <2> QED BY <1>1, <2>1, <2>2
<1>5. Guarded(w, a)
  BY <1>1, <1>4 DEF Guarded
<1>6. ASSUME Answered(d, m) \/ (f # <<>> /\ f[1].kind = "authorize")
      PROVE  Answered(w, m + n)
  <2>1. CASE Answered(d, m)
    <3>1. m \in 0 .. m /\ m + n \in m .. m + n
      BY <1>1
    <3> QED BY <1>2, <2>1, <3>1
  <2>2. CASE f # <<>> /\ f[1].kind = "authorize"
    <3>1. m + n \in m + 1 .. m + n
      BY <1>1, <2>2
    <3> QED BY <1>3, <2>2, <3>1
  <2> QED BY <1>6, <2>1, <2>2
<1> QED BY <1>1, <1>5, <1>6 DEF w, m, n

\* The miner reads the next of them.
LEMMA GuardedTail ==
    ASSUME NEW d \in Seq(Lines), d # <<>>, NEW a, NEW b,
           b <=> (a \/ Head(d).kind = "authorize"), Guarded(d, a)
    PROVE  /\ Guarded(Tail(d), b)
           /\ IsNotification(Head(d)) => a
           /\ a \/ Answered(d, Len(d)) => b \/ Answered(Tail(d), Len(Tail(d)))
<1> DEFINE t == Tail(d)
           n == Len(t)
           l == Head(d)
<1>1. /\ n \in Nat /\ Len(d) = n + 1 /\ l = d[1]
      /\ \A k \in 1 .. n : t[k] = d[k + 1]
      /\ \A k \in 2 .. n + 1 : d[k] = t[k - 1]
  OBVIOUS
<1> HIDE DEF t, l, n
<1>2. ASSUME NEW k \in 0 .. n, Answered(d, k + 1) PROVE b \/ Answered(t, k)
  <2>1. PICK j \in 1 .. k + 1 : d[j].kind = "authorize"
    BY <1>2 DEF Answered
  <2>2. CASE j = 1
    BY <1>1, <2>1, <2>2 DEF l
  <2>3. CASE j # 1
    <3>1. j - 1 \in 1 .. k /\ d[j] = t[j - 1]
      BY <1>1, <2>1, <2>3
    <3> QED BY <2>1, <3>1 DEF Answered
  <2> QED BY <2>2, <2>3
<1>3. ASSUME NEW i \in 1 .. n, IsNotification(t[i]) PROVE b \/ Answered(t, i - 1)
  <2>1. i + 1 \in 1 .. Len(d) /\ d[i + 1] = t[i] /\ (i + 1) - 1 = (i - 1) + 1
        /\ i - 1 \in 0 .. n
    BY <1>1
  <2>2. a \/ Answered(d, (i + 1) - 1)
    BY <1>3, <2>1 DEF Guarded
  <2> QED BY <1>2, <2>1, <2>2
<1>4. Guarded(t, b)
  BY <1>3 DEF Guarded, n
<1>5. IsNotification(l) => a
  <2>1. 1 \in 1 .. Len(d) /\ 1 - 1 = 0 /\ ~Answered(d, 0)
    BY <1>1 DEF Answered
  <2> QED BY <1>1, <2>1 DEF Guarded
<1>6. a \/ Answered(d, Len(d)) => b \/ Answered(t, n)
  BY <1>1, <1>2
<1> QED BY <1>4, <1>5, <1>6 DEF t, l, n

\* Nothing is on its way to the miner at first.
LEMMA InitAnswers == ASSUME Init PROVE AnswerFirst
<1>1. miner.work = <<>> /\ down = <<>> /\ gate.open = FALSE
  BY DEF Init
<1>2. DOMAIN miner.work = {} /\ Len(down) = 0
  BY <1>1
<1> QED BY <1>1, <1>2 DEF AnswerFirst, Guarded

\* The gate opens with the answer, unless it holds more than it may.
LEMMA MovesAnswers ==
    ASSUME Typed, OpenHoldsNone, HeldIsSent, Few, AnswerFirst, Moves
    PROVE  AnswerFirst'
<1> DEFINE line == Head(up)
<1>1. /\ down \in Seq(Lines) /\ gate.held \in Seq(Notifications) /\ line \in Lines
      /\ Len(gate.held) \in Nat /\ MAX_HELD \in Nat /\ Len(issued) + changes \in Nat
      /\ up # <<>> /\ PassGate(line)
  BY SentIs, SessionAssumption DEF Typed, LinesTyped, GateTyped, Moves
<1>2. miner' = miner
  BY Zenon DEF Moves
<1>3. /\ DOMAIN miner.work # {} => miner.authorized
      /\ Guarded(down, miner.authorized)
      /\ gate.open => miner.authorized \/ Answered(down, Len(down))
  BY DEF AnswerFirst
<1> HIDE DEF line
<1>4. CASE /\ gate.open \/ line.kind = "submit"
           /\ gate' = gate /\ down' = down \o <<line>>
  <2>1. <<line>> \in Seq(Lines) /\ Len(<<line>>) = 1 /\ <<line>>[1] = line
    BY <1>1
  <2>2. \/ \A i \in 1 .. Len(<<line>>) : ~IsNotification(<<line>>[i])
        \/ miner.authorized \/ Answered(down, Len(down))
    BY <1>3, <1>4, <2>1 DEF IsNotification
  <2> DEFINE f == <<line>>
  <2> HIDE DEF f
  <2>3. /\ Guarded(down \o f, miner.authorized)
        /\ Answered(down, Len(down)) => Answered(down \o f, Len(down \o f))
    BY <1>1, <1>3, <2>1, <2>2, GuardedConcat DEF f
  <2>4. down' = down \o f
    BY <1>4 DEF f
  <2>5. /\ Guarded(down', miner.authorized)
        /\ gate.open => miner.authorized \/ Answered(down', Len(down'))
    BY <1>3, <2>3, <2>4, Zenon
  <2> QED BY <1>2, <1>3, <1>4, <2>5, Zenon DEF AnswerFirst
<1>5. CASE ~gate'.open /\ down' = down
  BY <1>2, <1>3, <1>5, Zenon DEF AnswerFirst
<1>6. CASE IsNotification(line) /\ Len(gate.held) + 1 > MAX_HELD
  <2>1. One(line) = 1
    BY <1>6 DEF One
  <2>2. Len(gate.held) + One(line) =< Len(issued) + changes
    BY MovesHeld DEF line
  <2>3. PICK n \in Nat : n = Len(issued) + changes
    BY <1>1
  <2>4. n =< MAX_HELD /\ Len(gate.held) + 1 =< n
    BY <2>1, <2>2, <2>3 DEF Few
  <2> QED BY <1>1, <1>6, <2>4
<1>7. CASE /\ line.kind = "authorize" /\ gate'.open
           /\ down' = down \o Flushed(<<line>>, gate.held)
  <2> DEFINE f == Flushed(<<line>>, gate.held)
  <2>1. <<line>> \in Seq(Lines) /\ <<line>> # <<>> /\ <<line>>[1] = line
    BY <1>1
  <2>2. f \in Seq(Lines) /\ f # <<>> /\ f[1] = line
    BY <1>1, <2>1, FlushKeeps
  <2> HIDE DEF f
  <2>3. f # <<>> /\ f[1].kind = "authorize"
    BY <1>7, <2>2
  <2>4. /\ Guarded(down \o f, miner.authorized)
        /\ Answered(down \o f, Len(down \o f))
    BY <1>1, <1>3, <2>2, <2>3, GuardedConcat
  <2>5. down' = down \o f
    BY <1>7 DEF f
  <2>6. Guarded(down', miner.authorized) /\ Answered(down', Len(down'))
    BY <2>4, <2>5, Zenon
  <2> QED BY <1>2, <1>3, <2>6, Zenon DEF AnswerFirst
<1> QED BY <1>1, <1>4, <1>5, <1>6, <1>7, GateCases, Zenon DEF line

\* The miner reads the answer before work.
LEMMA ReadsAnswers ==
    ASSUME Typed, AnswerFirst, Reads
    PROVE  AnswerFirst'
<1> DEFINE line == Head(down)
           a == miner.authorized
           b == miner'.authorized
<1>1. /\ down # <<>> /\ down' = Tail(down) /\ line \in Lines
      /\ b = (a \/ line.kind = "authorize")
      /\ line.kind # "notify" => DOMAIN miner'.work = DOMAIN miner.work
  BY MinerReads, Zenon DEF Reads
<1>2. down \in Seq(Lines)
  BY DEF Typed, LinesTyped
<1>3. /\ DOMAIN miner.work # {} => a
      /\ Guarded(down, a)
      /\ gate.open => a \/ Answered(down, Len(down))
  BY DEF AnswerFirst
<1>4. gate' = gate
  BY Zenon DEF Reads
<1>5. b <=> (a \/ line.kind = "authorize")
  BY <1>1, Zenon
<1> HIDE DEF a, b
<1>6. /\ Guarded(Tail(down), b)
      /\ IsNotification(line) => a
      /\ a \/ Answered(down, Len(down)) => b \/ Answered(Tail(down), Len(Tail(down)))
  BY <1>1, <1>2, <1>3, <1>5, GuardedTail
<1> HIDE DEF line
<1>7. DOMAIN miner'.work # {} => b
  <2>1. line.kind = "notify" => IsNotification(line)
    BY DEF IsNotification
  <2> QED BY <1>1, <1>3, <1>5, <1>6, <2>1, Zenon
<1>8. Guarded(down', b) /\ (gate'.open => b \/ Answered(down', Len(down')))
  BY <1>1, <1>3, <1>4, <1>6, Zenon
<1> QED BY <1>7, <1>8, Zenon DEF AnswerFirst, b

\* Every step keeps the answer first.
LEMMA StepAnswers ==
    ASSUME Typed, OpenHoldsNone, HeldIsSent, Few => AnswerFirst, [Next]_vars
    PROVE  Few' => AnswerFirst'
<1>0. SUFFICES ASSUME Few' PROVE AnswerFirst'
  BY Zenon
<1>1. ASSUME NEW line, Sends(line) PROVE AnswerFirst'
  <2>1. PICK n \in Nat : n = Len(issued) + changes
    BY SentIs
  <2>2. PICK m \in Nat : m = Len(issued') + changes'
    BY <1>1, SentIs
  <2>3. m = n + One(line) /\ m =< MAX_HELD
    <3>1. m = n + One(line)
      BY <1>1, <2>1, <2>2, SentIs
    <3>2. m =< MAX_HELD
      BY <1>0, <2>2, Zenon DEF Few
    <3> QED BY <3>1, <3>2
  <2>4. n =< MAX_HELD
    BY <2>3, SessionAssumption DEF One
  <2>5. Few
    BY <2>1, <2>4, Zenon DEF Few
  <2> QED BY <1>1, <2>5, Zenon DEF Sends, AnswerFirst
<1>2. ASSUME Moves \/ Reads \/ Rests PROVE Few
  BY <1>0, <1>2, Zenon DEF Moves, Reads, Rests, Few
<1>3. ASSUME Rests PROVE AnswerFirst'
  BY <1>2, <1>3, Zenon DEF Rests, AnswerFirst
<1> QED BY <1>1, <1>2, <1>3, StepMoves, MovesAnswers, ReadsAnswers, Zenon

-----------------------------------------------------------------------------
\* Every step keeps the types.

\* The first state has the types.
LEMMA InitTyped == ASSUME Init PROVE Typed
<1>1. PICK terms \in Terms :
          /\ pool = [terms |-> terms, jobs |-> <<>>, asked |-> FALSE]
          /\ session = [terms |-> terms, jobs |-> <<>>]
          /\ miner = [terms |-> terms, work |-> <<>>, asked |-> FALSE, authorized |-> FALSE]
  BY DEF Init
<1>2. /\ issued = <<>> /\ changes = 0 /\ shares = <<>> /\ up = <<>> /\ down = <<>>
      /\ pending = <<>> /\ bindings = {} /\ leaves = <<>>
      /\ gate = [open |-> FALSE, held |-> <<>>, authorizing |-> FALSE]
  BY DEF Init
<1>3. PoolTyped
  BY <1>1, <1>2, SessionAssumption DEF PoolTyped
<1>4. SharesTyped /\ LinesTyped /\ GateTyped
  BY <1>2, SessionAssumption DEF SharesTyped, LinesTyped, GateTyped
<1>5. SessionTyped
  <2>1. DOMAIN pending = {} /\ DOMAIN shares = {}
    BY <1>2
  <2>2. pending \in [DOMAIN pending -> Difficulties]
    BY <1>2, <2>1
  <2>3. session \in [terms : Terms, jobs : Seq(Jobs)]
    BY <1>1
  <2> QED BY <1>2, <2>1, <2>2, <2>3 DEF SessionTyped
<1>6. MinerTyped
  <2>1. miner.work = <<>>
    BY <1>1
  <2>2. miner.work \in [DOMAIN miner.work -> Terms]
    BY <2>1
  <2> QED BY <1>1, <2>1, <2>2 DEF MinerTyped
<1> QED BY <1>3, <1>4, <1>5, <1>6 DEF Typed

\* The lines are lines of the protocol.
LEMMA StepLines ==
    ASSUME Typed, OpenHoldsNone, [Next]_vars
    PROVE  LinesTyped'
<1>0. up \in Seq(Lines) /\ down \in Seq(Lines) /\ gate.held \in Seq(Notifications)
  BY DEF Typed, LinesTyped, GateTyped
<1>1. ASSUME NEW line, Sends(line) PROVE LinesTyped'
  <2>1. line \in Lines /\ up' = Append(up, line) /\ down' = down
    BY <1>1, Zenon DEF Sends
  <2> QED BY <1>0, <2>1 DEF LinesTyped
<1>2. CASE Moves
  <2> DEFINE line == Head(up)
  <2>1. up # <<>> /\ up' = Tail(up) /\ line \in Lines /\ PassGate(line)
    BY <1>0, <1>2 DEF Moves
  <2>2. <<line>> \in Seq(Lines) /\ <<>> \in Seq(Lines)
    BY <2>1
  <2>3. IsNotification(line) => Append(gate.held, line) \in Seq(Notifications)
    BY <1>0, <2>1, LineIs
  <2>4. Flushed(<<line>>, gate.held) \in Seq(Lines)
    BY <1>0, <2>2, FlushKeeps
  <2> DEFINE h == Append(gate.held, line)
  <2>5. IsNotification(line) => Flushed(<<>>, h) \in Seq(Lines)
    <3> HIDE DEF h
    <3> QED BY <2>2, <2>3, FlushKeeps DEF h
  <2>6. down' \in Seq(Lines)
    <3>1. \/ down' = down
          \/ down' = down \o <<line>>
          \/ IsNotification(line) /\ down' = down \o Flushed(<<>>, h)
          \/ down' = down \o Flushed(<<line>>, gate.held)
      BY <2>1, GateCases, Zenon
    <3>2. \A lines \in Seq(Lines) : down \o lines \in Seq(Lines)
      BY <1>0
    <3> QED BY <1>0, <2>2, <2>4, <2>5, <3>1, <3>2, Zenon
  <2>7. up' \in Seq(Lines)
    BY <1>0, <2>1
  <2> QED BY <2>6, <2>7 DEF LinesTyped
<1>3. CASE Reads
  <2>1. down # <<>> /\ down' = Tail(down) /\ up' = up
    BY <1>3, MinerReads, Zenon DEF Reads
  <2> QED BY <1>0, <2>1 DEF LinesTyped
<1>4. CASE Rests
  BY <1>0, <1>4, Zenon DEF Rests, LinesTyped
<1> QED BY <1>1, <1>2, <1>3, <1>4, StepMoves, Zenon

\* The pool.
LEMMA StepPool ==
    ASSUME Typed, [Next]_vars
    PROVE  PoolTyped'
<1>0. /\ PoolTyped /\ pool \in [terms : Terms, jobs : Seq(Jobs), asked : BOOLEAN]
      /\ issued \in Seq(Terms) /\ changes \in 0 .. MaxChanges /\ Len(issued) \in Nat
      /\ MAX_JOBS \in Nat /\ MaxIssued \in Nat /\ MaxChanges \in Nat
  BY SessionAssumption DEF Typed, PoolTyped
<1>1. ASSUME UNCHANGED poolVars PROVE PoolTyped'
  BY <1>0, <1>1, Zenon DEF PoolTyped, poolVars
<1>2. ASSUME NEW clean \in BOOLEAN, Notify(clean) PROVE PoolTyped'
  <2> DEFINE job == Len(issued) + 1
             jobs == IF clean THEN <<job>> ELSE LastN(Append(pool.jobs, job), MAX_JOBS)
  <2>1. job \in Jobs
    BY <1>0, <1>2 DEF Notify, Jobs
  <2>2. /\ issued' = Append(issued, pool.terms) /\ pool' = [pool EXCEPT !.jobs = jobs]
        /\ changes' = changes
    BY <1>2, Zenon DEF Notify
  <2> HIDE DEF job
  <2>3. jobs \in Seq(Jobs)
    <3>1. Append(pool.jobs, job) \in Seq(Jobs) /\ <<job>> \in Seq(Jobs)
      BY <1>0, <2>1
    <3>2. LastN(Append(pool.jobs, job), MAX_JOBS) \in Seq(Jobs)
      BY <1>0, <3>1, LastNTyped
    <3> QED BY <3>1, <3>2, Zenon
  <2> HIDE DEF jobs
  <2>4. pool' \in [terms : Terms, jobs : Seq(Jobs), asked : BOOLEAN]
    BY <1>0, <2>2, <2>3
  <2>5. issued' \in Seq(Terms)
    BY <1>0, <2>2
  <2> QED BY <1>0, <2>2, <2>4, <2>5 DEF PoolTyped
<1>3. ASSUME NEW line \in Lines, Change(line) PROVE PoolTyped'
  <2> DEFINE terms == Amended(pool.terms, line)
  <2>1. /\ pool' = [pool EXCEPT !.terms = terms] /\ changes < MaxChanges
        /\ changes' = changes + 1 /\ issued' = issued
    BY <1>3, Zenon DEF Change
  <2>2. terms \in Terms
    BY <1>0, AmendedIs
  <2> HIDE DEF terms
  <2> QED BY <1>0, <2>1, <2>2 DEF PoolTyped
<1>4. ASSUME NEW asked \in BOOLEAN, pool' = [pool EXCEPT !.asked = asked],
             UNCHANGED <<issued, changes>>
      PROVE  PoolTyped'
  BY <1>0, <1>4 DEF PoolTyped
<1>5. ASSUME NEW clean \in BOOLEAN, Notify(clean) PROVE PoolTyped'
  BY <1>2, <1>5
<1>6. ASSUME NEW d \in Difficulties, SetDifficulty(d) PROVE PoolTyped'
  BY <1>3, <1>6, LinesAre, Zenon DEF SetDifficulty
<1>7. ASSUME NEW e \in Extranonces, SetExtranonce(e) PROVE PoolTyped'
  BY <1>3, <1>7, LinesAre, Zenon DEF SetExtranonce
<1>8. CASE AnswerAuthorize
  BY <1>4, <1>8, Zenon DEF AnswerAuthorize
<1>9. CASE Authorize
  BY <1>4, <1>9, Zenon DEF Authorize
<1>10. ASSUME NEW s \in DOMAIN shares, Accept(s) \/ AnswerSubmit(s) PROVE PoolTyped'
  BY <1>1, <1>10, Zenon DEF Accept, AnswerSubmit
<1>11. ASSUME NEW job \in Jobs, Submit(job) PROVE PoolTyped'
  BY <1>1, <1>11, Zenon DEF Submit
<1>12. CASE ReadPool \/ ReadProxy \/ UNCHANGED vars
  BY <1>1, <1>12, Zenon DEF ReadPool, ReadProxy, vars
<1> QED
  BY <1>5, <1>6, <1>7, <1>8, <1>9, <1>10, <1>11, <1>12, Zenon DEF Next

\* A share with another status.
LEMMA StatusTyped ==
    ASSUME SharesTyped, NEW s \in DOMAIN shares, NEW status \in Statuses,
           shares' = [shares EXCEPT ![s].status = status]
    PROVE  SharesTyped' /\ DOMAIN shares' = DOMAIN shares
<1> DEFINE S == [job : Jobs, terms : Terms, status : Statuses]
           share == [shares[s] EXCEPT !.status = status]
<1>1. shares \in Seq(S) /\ Len(shares) =< MaxShares
  BY Zenon DEF SharesTyped
<1>2. Replaced(shares, shares', s, share)
  BY Zenon DEF Replaced
<1>3. shares[s] \in S
  <2>1. DOMAIN shares = 1 .. Len(shares)
    BY <1>1
  <2> QED BY <1>1, <2>1, ElementOfSeq
<1>4. share \in S
  <2>1. \A old \in S : \A new : new = [old EXCEPT !.status = status] => new \in S
    BY StatusOfOne, Zenon
  <2> QED BY <1>3, <2>1, Zenon
<1> HIDE DEF S, share
<1>5. shares' \in Seq(S) /\ Len(shares') = Len(shares) /\ DOMAIN shares' = DOMAIN shares
  BY <1>1, <1>2, <1>4 DEF Replaced
<1>6. Len(shares') =< MaxShares
  BY <1>1, <1>5, Zenon
<1> QED BY <1>5, <1>6, Zenon DEF SharesTyped, S

\* The shares, of which there are never less.
LEMMA StepShares ==
    ASSUME Typed, [Next]_vars
    PROVE  SharesTyped' /\ DOMAIN shares \subseteq DOMAIN shares'
<1> DEFINE S == [job : Jobs, terms : Terms, status : Statuses]
<1>0. /\ SharesTyped /\ shares \in Seq(S) /\ Len(shares) \in Nat /\ Len(shares) =< MaxShares
      /\ DOMAIN shares = 1 .. Len(shares) /\ MaxShares \in Nat
  BY SessionAssumption DEF Typed, SharesTyped
<1>1. ASSUME shares' = shares PROVE SharesTyped' /\ DOMAIN shares \subseteq DOMAIN shares'
  BY <1>0, <1>1, Zenon DEF SharesTyped
<1>2. ASSUME NEW s \in DOMAIN shares, NEW status \in Statuses,
             shares' = [shares EXCEPT ![s].status = status]
      PROVE  SharesTyped' /\ DOMAIN shares \subseteq DOMAIN shares'
  BY <1>0, <1>2, StatusTyped, Zenon
<1>3. ASSUME NEW s \in DOMAIN shares, Accept(s)
      PROVE  SharesTyped' /\ DOMAIN shares \subseteq DOMAIN shares'
  <2>1. "accepted" \in Statuses
    BY DEF Statuses
  <2> QED BY <1>2, <1>3, <2>1, Zenon DEF Accept
<1>4. ASSUME NEW s \in DOMAIN shares, AnswerSubmit(s)
      PROVE  SharesTyped' /\ DOMAIN shares \subseteq DOMAIN shares'
  <2> DEFINE new == IF shares[s].status = "sent" THEN "refused"
                    ELSE IF Contains(pool.jobs, shares[s].job) THEN "granted"
                    ELSE "granted late"
  <2>1. new \in Statuses
    BY Zenon DEF Statuses
  <2>2. shares' = [shares EXCEPT ![s].status = new]
    BY <1>4, Zenon DEF AnswerSubmit
  <2> HIDE DEF new
  <2> QED BY <1>2, <2>1, <2>2
<1>5. ASSUME NEW job \in Jobs, Submit(job)
      PROVE  SharesTyped' /\ DOMAIN shares \subseteq DOMAIN shares'
  <2> DEFINE share == [job |-> job, terms |-> miner.work[job], status |-> "sent"]
  <2>1. /\ Len(shares) + 1 =< MaxShares /\ job \in DOMAIN miner.work
        /\ shares' = Append(shares, share)
    BY <1>5, Zenon DEF Submit
  <2>2. miner.work[job] \in Terms
    BY <2>1 DEF Typed, MinerTyped
  <2>3. share \in S
    BY <2>2 DEF Statuses
  <2> HIDE DEF share, S
  <2>4. shares' \in Seq(S) /\ Len(shares') = Len(shares) + 1
        /\ DOMAIN shares' = 1 .. Len(shares) + 1
    BY <1>0, <2>1, <2>3
  <2>5. Len(shares') =< MaxShares /\ DOMAIN shares \subseteq DOMAIN shares'
    BY <1>0, <2>1, <2>4
  <2> QED BY <2>4, <2>5 DEF SharesTyped, S
<1>6. ASSUME NEW clean \in BOOLEAN, Notify(clean) PROVE shares' = shares
  BY <1>6, Zenon DEF Notify
<1>7. ASSUME \/ \E d \in Difficulties : SetDifficulty(d)
             \/ \E e \in Extranonces : SetExtranonce(e)
      PROVE  shares' = shares
  BY <1>7, Zenon DEF SetDifficulty, SetExtranonce, Change
<1>8. ASSUME AnswerAuthorize \/ Authorize \/ ReadPool \/ ReadProxy \/ UNCHANGED vars
      PROVE  shares' = shares
  BY <1>8, Zenon DEF AnswerAuthorize, Authorize, ReadPool, ReadProxy, vars
<1> QED
  BY <1>1, <1>3, <1>4, <1>5, <1>6, <1>7, <1>8, Zenon DEF Next

\* The gate.
LEMMA StepGate ==
    ASSUME Typed, [Next]_vars
    PROVE  GateTyped'
<1>0. /\ GateTyped /\ gate.held \in Seq(Notifications) /\ gate.open \in BOOLEAN
      /\ gate.authorizing \in BOOLEAN
  BY DEF Typed, GateTyped
<1>1. ASSUME gate' = gate PROVE GateTyped'
  BY <1>0, <1>1, Zenon DEF GateTyped
<1>2. ASSUME NEW first, NEW lines, OpenAndFlush(first, lines) PROVE GateTyped'
  <2> DEFINE still == gate.authorizing /\ first = <<>>
  <2>1. gate' = [open |-> TRUE, held |-> <<>>, authorizing |-> still]
    BY <1>2, Zenon DEF OpenAndFlush
  <2>2. still \in BOOLEAN
    OBVIOUS
  <2> HIDE DEF still
  <2> QED BY <2>1, <2>2 DEF GateTyped
<1>3. ASSUME NEW line \in Notifications, gate' = [gate EXCEPT !.held = Append(gate.held, line)]
      PROVE  GateTyped'
  <2> DEFINE held == Append(gate.held, line)
  <2>1. held \in Seq(Notifications)
    BY <1>0
  <2>2. gate' = [gate EXCEPT !.held = held]
    BY <1>3
  <2> HIDE DEF held
  <2> QED BY <1>0, <2>1, <2>2 DEF GateTyped
<1>4. CASE ReadPool
  <2> DEFINE line == Head(up)
  <2>1. line \in Lines /\ PassGate(line)
    BY <1>4 DEF ReadPool, Typed, LinesTyped
  <2> HIDE DEF line
  <2>2. IsNotification(line) => line \in Notifications
    BY <2>1, LineIs
  <2> QED BY <1>1, <1>2, <1>3, <2>1, <2>2, Zenon DEF PassGate
<1>5. CASE Authorize
  <2> DEFINE asking == ~gate.open
  <2>1. gate' = [gate EXCEPT !.authorizing = asking] /\ asking \in BOOLEAN
    BY <1>5, Zenon DEF Authorize
  <2> HIDE DEF asking
  <2> QED BY <1>0, <2>1 DEF GateTyped
<1>6. ASSUME NEW clean \in BOOLEAN, Notify(clean) PROVE gate' = gate
  BY <1>6, Zenon DEF Notify, proxyVars
<1>7. ASSUME \/ \E d \in Difficulties : SetDifficulty(d)
             \/ \E e \in Extranonces : SetExtranonce(e)
      PROVE  gate' = gate
  BY <1>7, Zenon DEF SetDifficulty, SetExtranonce, Change, proxyVars
<1>8. ASSUME AnswerAuthorize \/ ReadProxy \/ UNCHANGED vars PROVE gate' = gate
  BY <1>8, Zenon DEF AnswerAuthorize, ReadProxy, vars, proxyVars
<1>9. ASSUME NEW s \in DOMAIN shares, Accept(s) \/ AnswerSubmit(s) PROVE gate' = gate
  BY <1>9, Zenon DEF Accept, AnswerSubmit, proxyVars
<1>10. ASSUME NEW job \in Jobs, Submit(job) PROVE gate' = gate
  BY <1>10, Zenon DEF Submit
<1> QED
  BY <1>1, <1>4, <1>5, <1>6, <1>7, <1>8, <1>9, <1>10, Zenon DEF Next

\* The miner.
LEMMA StepMiner ==
    ASSUME Typed, [Next]_vars
    PROVE  MinerTyped'
<1>0. /\ MinerTyped /\ miner.work \in [DOMAIN miner.work -> Terms]
      /\ miner \in [terms : Terms, work : {miner.work}, asked : BOOLEAN, authorized : BOOLEAN]
      /\ miner.terms \in Terms
  BY DEF Typed, MinerTyped
<1>1. ASSUME miner' = miner PROVE MinerTyped'
  BY <1>0, <1>1, Zenon DEF MinerTyped
<1>2. CASE Authorize
  <2>1. miner' = [miner EXCEPT !.asked = TRUE]
    BY <1>2, Zenon DEF Authorize
  <2>2. /\ miner'.work = miner.work
        /\ miner' \in [terms : Terms, work : {miner.work}, asked : BOOLEAN, authorized : BOOLEAN]
    BY <1>0, <2>1
  <2> QED BY <1>0, <2>2, Zenon DEF MinerTyped
<1>3. CASE ReadProxy
  <2> DEFINE line == Head(down)
             terms == Amended(miner.terms, line)
             kept == IF line.kind = "notify" /\ line.clean THEN {} ELSE DOMAIN miner.work
             jobs == IF line.kind = "notify" THEN kept \cup {line.job} ELSE kept
             work == [j \in jobs |-> IF j \in kept THEN miner.work[j] ELSE miner.terms]
             authorized == miner.authorized \/ line.kind = "authorize"
  <2>1. miner' = [terms |-> terms, work |-> work, asked |-> miner.asked,
                  authorized |-> authorized]
    BY <1>3, Zenon DEF ReadProxy
  <2>2. /\ line \in Lines /\ miner'.work \in [DOMAIN miner'.work -> Terms]
    BY <1>3, MinerReads, Zenon
  <2> HIDE DEF work, line
  <2>3. terms \in Terms
    BY <1>0, <2>2, AmendedIs
  <2>4. authorized \in BOOLEAN
    BY <1>0
  <2>5. miner.asked \in BOOLEAN
    BY <1>0
  <2> HIDE DEF terms, authorized
  <2>6. miner' \in [terms : Terms, work : {miner'.work}, asked : BOOLEAN, authorized : BOOLEAN]
    BY <2>1, <2>3, <2>4, <2>5
  <2> QED BY <2>2, <2>6, Zenon DEF MinerTyped
<1>4. ASSUME NEW clean \in BOOLEAN, Notify(clean) PROVE miner' = miner
  BY <1>4, Zenon DEF Notify
<1>5. ASSUME \/ \E d \in Difficulties : SetDifficulty(d)
             \/ \E e \in Extranonces : SetExtranonce(e)
      PROVE  miner' = miner
  BY <1>5, Zenon DEF SetDifficulty, SetExtranonce, Change
<1>6. ASSUME AnswerAuthorize \/ ReadPool \/ UNCHANGED vars PROVE miner' = miner
  BY <1>6, Zenon DEF AnswerAuthorize, ReadPool, vars
<1>7. ASSUME NEW s \in DOMAIN shares, Accept(s) \/ AnswerSubmit(s) PROVE miner' = miner
  BY <1>7, Zenon DEF Accept, AnswerSubmit
<1>8. ASSUME NEW job \in Jobs, Submit(job) PROVE miner' = miner
  BY <1>8, Zenon DEF Submit
<1> QED
  BY <1>1, <1>2, <1>3, <1>4, <1>5, <1>6, <1>7, <1>8, Zenon DEF Next

\* What the session will take a line for.
LEMMA IngestedTyped ==
    ASSUME Typed, NEW line \in Lines
    PROVE  Ingested(line) \in [terms : Terms, jobs : Seq(Jobs)]
<1> DEFINE terms == Amended(session.terms, line)
           jobs == IF line.kind # "notify" THEN session.jobs
                   ELSE InsertJob(IF line.clean THEN <<>> ELSE session.jobs, line.job)
<1>1. session.terms \in Terms /\ session.jobs \in Seq(Jobs)
  BY DEF Typed, SessionTyped
<1>2. terms \in Terms
  BY <1>1, AmendedIs
<1>3. jobs \in Seq(Jobs)
  <2>1. ASSUME NEW old \in Seq(Jobs), NEW job \in Jobs PROVE InsertJob(old, job) \in Seq(Jobs)
    <3>1. Append(old, job) \in Seq(Jobs) /\ MAX_JOBS \in Nat
      BY SessionAssumption
    <3> QED BY <3>1, LastNTyped DEF InsertJob
  <2>2. CASE line.kind = "notify"
    <3>1. line.job \in Jobs
      BY <2>2, LineIs
    <3>2. (IF line.clean THEN <<>> ELSE session.jobs) \in Seq(Jobs)
      BY <1>1
    <3> QED BY <2>1, <2>2, <3>1, <3>2, Zenon
  <2> QED BY <1>1, <2>2, Zenon
<1>4. Ingested(line) = [terms |-> terms, jobs |-> jobs]
  BY DEF Ingested
<1> HIDE DEF terms, jobs
<1> QED BY <1>2, <1>3, <1>4

\* The session.
LEMMA StepSession ==
    ASSUME Typed, [Next]_vars
    PROVE  SessionTyped'
<1> DEFINE L == [share : DOMAIN shares, en : Extranonces, diff : Difficulties]
           M == [share : DOMAIN shares', en : Extranonces, diff : Difficulties]
<1>0. /\ session \in [terms : Terms, jobs : Seq(Jobs)] /\ session.terms \in Terms
      /\ session.terms.en \in Extranonces /\ session.terms.diff \in Difficulties
      /\ pending \in [DOMAIN pending -> Difficulties] /\ DOMAIN pending \subseteq DOMAIN shares
      /\ bindings \subseteq DOMAIN shares /\ leaves \in Seq(L)
      /\ DOMAIN shares = 1 .. Len(shares) /\ Len(shares) \in Nat
  BY DEF Typed, SessionTyped, SharesTyped, Terms
<1>1. DOMAIN shares \subseteq DOMAIN shares'
  BY StepShares
<1>2. ASSUME NEW seq \in Seq(L) PROVE seq \in Seq(M)
  <2>1. L \subseteq M
    BY <1>1
  <2> HIDE DEF L, M
  <2> QED BY <2>1, SeqMonotonic
<1>3. ASSUME UNCHANGED <<session, pending, bindings, leaves>> PROVE SessionTyped'
  <2>1. leaves' \in Seq(M)
    BY <1>0, <1>2, <1>3
  <2> QED BY <1>0, <1>1, <1>3, <2>1 DEF SessionTyped
<1>4. CASE ReadPool
  <2> DEFINE line == Head(up)
             s == line.share
  <2>1. line \in Lines /\ UpdateSession(line) /\ shares' = shares
    BY <1>4 DEF ReadPool, Typed, LinesTyped
  <2>2. session' = Ingested(line) /\ Ingested(line) \in [terms : Terms, jobs : Seq(Jobs)]
    BY <2>1, IngestedTyped, Zenon DEF UpdateSession
  <2>3. CASE Settles(line)
    <3>1. /\ pending' = Forget(pending, s) /\ bindings' = bindings \ {s}
          /\ \/ leaves' = Append(leaves, LeafOf(s))
             \/ leaves' = leaves
      BY <2>1, <2>3, Zenon DEF UpdateSession
    <3>2. s \in DOMAIN pending
      BY <2>3, Zenon DEF Settles
    <3>3. LeafOf(s) \in L
      <4>1. s \in DOMAIN shares /\ pending[s] \in Difficulties
        BY <1>0, <3>2
      <4> HIDE DEF line, s
      <4> QED BY <1>0, <4>1 DEF LeafOf
    <3> HIDE DEF L, line, s
    <3>4. leaves' \in Seq(L)
      BY <1>0, <3>1, <3>3
    <3>5. /\ pending' \in [DOMAIN pending' -> Difficulties]
          /\ DOMAIN pending' \subseteq DOMAIN shares
      BY <1>0, <3>1 DEF Forget
    <3>6. bindings' \subseteq DOMAIN shares
      BY <1>0, <3>1
    <3> QED BY <2>1, <2>2, <3>4, <3>5, <3>6, Zenon DEF SessionTyped, L
  <2>4. CASE ~Settles(line)
    <3>1. UNCHANGED <<pending, bindings, leaves>>
      BY <2>1, <2>4, Zenon DEF UpdateSession
    <3> QED BY <1>0, <2>1, <2>2, <3>1, Zenon DEF SessionTyped
  <2> QED BY <2>3, <2>4
<1>5. ASSUME NEW job \in Jobs, Submit(job) PROVE SessionTyped'
  <2> DEFINE s == Len(shares) + 1
             share == [job |-> job, terms |-> miner.work[job], status |-> "sent"]
  <2>1. /\ shares' = Append(shares, share)
        /\ pending' = [x \in DOMAIN pending \cup {s} |->
                         IF x = s THEN session.terms.diff ELSE pending[x]]
        /\ bindings' = bindings \cup {s}
        /\ UNCHANGED <<session, leaves>>
    BY <1>5, Zenon DEF Submit
  <2>2. s \in DOMAIN shares'
    <3> HIDE DEF share
    <3>1. \E S : shares \in Seq(S)
      BY DEF Typed, SharesTyped
    <3>2. DOMAIN shares' = 1 .. Len(shares) + 1
      <4>1. PICK S : shares \in Seq(S)
        BY <3>1
      <4>2. shares \in Seq(S \cup {share})
        BY <4>1
      <4> QED BY <2>1, <4>2
    <3> QED BY <1>0, <3>2
  <2> HIDE DEF s, share
  <2>3. /\ pending' \in [DOMAIN pending' -> Difficulties]
        /\ DOMAIN pending' \subseteq DOMAIN shares'
    BY <1>0, <1>1, <2>1, <2>2
  <2>4. bindings' \subseteq DOMAIN shares'
    BY <1>0, <1>1, <2>1, <2>2
  <2>5. leaves' \in Seq(M) /\ session' = session
    BY <1>0, <1>2, <2>1
  <2> QED BY <1>0, <2>3, <2>4, <2>5, Zenon DEF SessionTyped
<1>6. ASSUME NEW clean \in BOOLEAN, Notify(clean)
      PROVE  UNCHANGED <<session, pending, bindings, leaves>>
  BY <1>6, Zenon DEF Notify, proxyVars
<1>7. ASSUME \/ \E d \in Difficulties : SetDifficulty(d)
             \/ \E e \in Extranonces : SetExtranonce(e)
      PROVE  UNCHANGED <<session, pending, bindings, leaves>>
  BY <1>7, Zenon DEF SetDifficulty, SetExtranonce, Change, proxyVars
<1>8. ASSUME AnswerAuthorize \/ Authorize \/ ReadProxy \/ UNCHANGED vars
      PROVE  UNCHANGED <<session, pending, bindings, leaves>>
  BY <1>8, Zenon DEF AnswerAuthorize, Authorize, ReadProxy, vars, proxyVars
<1>9. ASSUME NEW s \in DOMAIN shares, Accept(s) \/ AnswerSubmit(s)
      PROVE  UNCHANGED <<session, pending, bindings, leaves>>
  BY <1>9, Zenon DEF Accept, AnswerSubmit, proxyVars
<1> QED
  BY <1>3, <1>4, <1>5, <1>6, <1>7, <1>8, <1>9, Zenon DEF Next

\* The actors together.
LEMMA StepTyped ==
    ASSUME Typed, OpenHoldsNone, [Next]_vars
    PROVE  Typed'
  BY StepPool, StepShares, StepLines, StepSession, StepGate, StepMiner, Zenon DEF Typed

-----------------------------------------------------------------------------
\* The gate keeps the work.

GateInv ==
    /\ Typed /\ SessionInv
    /\ WorkComes
    /\ HeldIsSent
    /\ Few => AnswerFirst

\* What the invariant says of work and authorize.
LEMMA GateInvSays == ASSUME GateInv PROVE GateKeepsWork
<1>1. TypeOK
  BY DEF GateInv, Typed, PoolTyped, SharesTyped, LinesTyped, SessionTyped, GateTyped,
         MinerTyped, TypeOK
<1>2. NoWorkBeforeAuthorize
  <2>1. SUFFICES ASSUME Few PROVE
           /\ DOMAIN miner.work # {} => miner.authorized
           /\ \A i \in DOMAIN down : IsNotification(down[i]) =>
                 miner.authorized \/ \E j \in 1 .. i - 1 : down[j].kind = "authorize"
    BY DEF NoWorkBeforeAuthorize, Few
  <2>2. DOMAIN down = 1 .. Len(down)
    BY DEF GateInv, Typed, LinesTyped
  <2> QED BY <2>1, <2>2, Zenon DEF GateInv, AnswerFirst, Guarded, Answered
<1>3. MinerInStep
  <2> SUFFICES ASSUME gate.open, up = <<>>, down = <<>>
               PROVE  /\ miner.terms = pool.terms
                      /\ issued # <<>> => Len(issued) \in DOMAIN miner.work
                      /\ DOMAIN miner.work \cap Range(pool.jobs) \subseteq Range(session.jobs)
    BY DEF MinerInStep
  <2>1. gate.held = <<>>
    BY DEF GateInv, WorkComes, OpenHoldsNone
  <2>2. /\ pool.terms.diff \in {miner.terms.diff}
        /\ pool.terms.en \in {miner.terms.en}
        /\ issued # <<>> => Len(issued) \in DOMAIN miner.work
    BY <2>1, ComesArrived DEF GateInv, WorkComes, DiffComes, EnComes, JobComes
  <2>3. miner.terms = pool.terms
    <3>1. miner.terms \in Terms /\ pool.terms \in Terms
      BY DEF GateInv, Typed, PoolTyped, MinerTyped
    <3> QED BY <2>2, <3>1 DEF Terms
  <2>4. session.jobs = pool.jobs
    <3>1. PICK known : Trails(known, up, session.jobs, pool.jobs, shares)
      BY DEF GateInv, SessionInv, InStep
    <3>2. Len(up) = 0
      OBVIOUS
    <3> QED BY <3>1, <3>2 DEF Trails
  <2> QED BY <2>2, <2>3, <2>4
<1> QED BY <1>1, <1>2, <1>3 DEF GateKeepsWork

\* Work is delayed at the gate and not lost or changed there: no job or new
\* terms are passed on before the answer to mining.authorize unless there are
\* more of them than the gate may hold, and once every line has arrived the
\* miner works under the pool's terms and on its newest job, and the session
\* knows the jobs of both (JobGate::on_pool_line and open_and_flush, forward,
\* SessionState::ingest_p2m).
THEOREM GateKeepsWorkHolds == Spec => []GateKeepsWork
<1>1. Init => GateInv
  BY InitTyped, InitInv, InitComes, InitHeld, InitAnswers DEF GateInv
<1>2. GateInv /\ [Next]_vars => GateInv'
  <2> SUFFICES ASSUME GateInv, [Next]_vars PROVE GateInv'
    OBVIOUS
  <2>1. Typed /\ SessionInv /\ WorkComes /\ OpenHoldsNone /\ HeldIsSent /\ (Few => AnswerFirst)
    BY Zenon DEF GateInv, WorkComes
  <2>2. Typed' /\ SessionInv' /\ WorkComes' /\ HeldIsSent' /\ (Few' => AnswerFirst')
    BY <2>1, StepTyped, StepInv, StepComes, StepHeld, StepAnswers, Zenon
  <2> QED BY <2>2, Zenon DEF GateInv
<1>3. GateInv => GateKeepsWork
  BY GateInvSays
<1> QED
  BY <1>1, <1>2, <1>3, PTL DEF Spec
=============================================================================
