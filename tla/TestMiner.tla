------------------------------ MODULE TestMiner ------------------------------
(***************************************************************************)
(* The test miner (`hashu mine`, hashu-cli/src/mine.rs): a task that reads *)
(* the pool and keeps its latest state under a lock, a thread that hashes  *)
(* batches of nonces and looks at that state between two batches, and a    *)
(* task that writes the shares it finds, handed over in a bounded channel. *)
(***************************************************************************)
EXTENDS Naturals, Sequences, SequencesExt, FiniteSets

CONSTANTS
    Jobs, Diffs,
    None,
    MaxNonce,       \* u32::MAX
    Batch,          \* BATCH: nonces between two looks at the state
    MaxExtra,       \* the last value of extranonce2
    Room,           \* of the channel to the writer
    MaxMessages,    \* bound: messages of the pool
    MaxShares       \* bound: shares found

VARIABLES
    pool, generation,     \* MinerState: extranonce1, difficulty and job
    snap, current,        \* what the thread took of it, and of which generation
    extra, base,          \* extranonce2, nonce_base
    at, pos, end,         \* the thread: "looking", "hashing", "sending" or "over"
    channel,              \* submits on their way to the writer
    sent, answered,       \* submits the pool got, and how many it answered
    open,                 \* is the connection open?
    tried,                \* history: the work of this generation that was hashed
    messages, shares      \* bounds

state == <<pool, generation>>
thread == <<snap, current, extra, base, at, pos, end>>
submits == <<channel, sent, answered>>
bounds == <<messages, shares>>
vars == <<state, thread, submits, open, tried, bounds>>

Least(a, b) == IF a < b THEN a ELSE b

-----------------------------------------------------------------------------
\* reader_task.

\* Every change gets a new generation.
Change(new) ==
    /\ open
    /\ messages < MaxMessages
    /\ messages' = messages + 1
    /\ pool' = new
    /\ generation' = generation + 1
    /\ UNCHANGED <<thread, submits, open, tried, shares>>

Subscribed == Change([pool EXCEPT !.extranonce1 = @ + 1])
SetDifficulty(d) == Change([pool EXCEPT !.difficulty = d])
NewJob(j) == pool.job # j /\ Change([pool EXCEPT !.job = j])

\* Accepted or rejected, the answer is counted.
Answer ==
    /\ open
    /\ answered < Len(sent)
    /\ answered' = answered + 1
    /\ UNCHANGED <<state, thread, channel, sent, open, tried, bounds>>

\* The end of the reader ends the run, and with it the writer.
Close ==
    /\ open
    /\ open' = FALSE
    /\ channel' = <<>>
    /\ UNCHANGED <<state, thread, sent, answered, tried, bounds>>

\* writer_task.
WriteShare ==
    /\ open
    /\ channel # <<>>
    /\ sent' = Append(sent, Head(channel))
    /\ channel' = Tail(channel)
    /\ UNCHANGED <<state, thread, answered, open, tried, bounds>>

-----------------------------------------------------------------------------
\* mine_loop.

\* Mutant: the state is looked at when the nonces are used up.
LooksWhenSpent == base > MaxNonce \/ base = 0

\* A new generation is taken over before every batch.
Looks == TRUE

\* Only a new generation is a reason to start over.
Reload == generation # current

\* Without a job or an extranonce1 it sleeps and looks again.
Ready(s) == s.job # None /\ s.extranonce1 > 0

Look ==
    /\ at = "looking"
    /\ LET new == Looks /\ Reload
           s == IF new THEN pool ELSE snap
           from == IF new THEN 0 ELSE base IN
       /\ snap' = s
       /\ current' = IF new THEN generation ELSE current
       /\ extra' = IF new THEN 0 ELSE extra
       /\ base' = from
       /\ tried' = IF new THEN {} ELSE tried
       /\ IF Ready(s)
          THEN /\ at' = "hashing"
               /\ pos' = from
               /\ end' = Least(from + Batch, MaxNonce)
          ELSE UNCHANGED <<at, pos, end>>
    /\ UNCHANGED <<state, submits, open, bounds>>

Work == [job |-> snap.job, extra |-> extra, nonce |-> pos]

\* Most nonces meet no target.
HashMiss ==
    /\ at = "hashing"
    /\ pos < end
    /\ pos' = pos + 1
    /\ tried' = tried \cup {Work}
    /\ UNCHANGED <<state, snap, current, extra, base, at, end, submits, open, bounds>>

\* The nonce meets the target, and the thread hands its share over ...
HashShare ==
    /\ at = "hashing"
    /\ pos < end
    /\ shares < MaxShares
    /\ shares' = shares + 1
    /\ at' = "sending"
    /\ tried' = tried \cup {Work}
    /\ UNCHANGED <<state, snap, current, extra, base, pos, end, submits, open, messages>>

\* ... which waits for room in the channel; with the writer gone the thread ends.
SendShare ==
    /\ at = "sending"
    /\ IF open
       THEN /\ Len(channel) < Room
            /\ channel' = Append(channel, [work |-> Work, difficulty |-> snap.difficulty])
            /\ pos' = pos + 1
            /\ at' = "hashing"
       ELSE at' = "over" /\ UNCHANGED <<channel, pos>>
    /\ UNCHANGED <<state, snap, current, extra, base, end, sent, answered, open, tried, bounds>>

\* Mutant: the nonces start over with the same extranonce2.
AfterBatchSame == IF end = MaxNonce THEN <<0, extra>> ELSE <<end, extra>>

\* The sum saturates, so that it is never 0 and extranonce2 never rolled.
AfterBatch == IF end = 0 THEN <<0, (extra + 1) % (MaxExtra + 1)>> ELSE <<end, extra>>

BatchDone ==
    /\ at = "hashing"
    /\ pos = end
    /\ base' = AfterBatch[1]
    /\ extra' = AfterBatch[2]
    /\ at' = "looking"
    /\ UNCHANGED <<state, snap, current, pos, end, submits, open, tried, bounds>>

Init ==
    /\ pool = [extranonce1 |-> 0, difficulty |-> 0, job |-> None]
    /\ generation = 0
    /\ snap = pool /\ current = 0
    /\ extra = 0 /\ base = 0 /\ pos = 0 /\ end = 0
    /\ at = "looking"
    /\ channel = <<>> /\ sent = <<>> /\ answered = 0
    /\ open = TRUE
    /\ tried = {}
    /\ messages = 0 /\ shares = 0

Hash == Look \/ HashMiss \/ HashShare \/ SendShare \/ BatchDone

Next ==
    \/ Subscribed
    \/ \E d \in Diffs : SetDifficulty(d)
    \/ \E j \in Jobs : NewJob(j)
    \/ Answer \/ Close \/ WriteShare
    \/ Hash

\* The thread never waits but for the channel, which the writer empties.
Fairness == WF_vars(Hash) /\ WF_vars(WriteShare)

Spec == Init /\ [][Next]_vars /\ Fairness

-----------------------------------------------------------------------------

TypeOK ==
    /\ pool \in [extranonce1 : Nat, difficulty : Diffs \cup {0}, job : Jobs \cup {None}]
    /\ extra \in 0..MaxExtra /\ base \in 0..MaxNonce /\ pos \in 0..end /\ end \in 0..MaxNonce
    /\ at \in {"looking", "hashing", "sending", "over"}
    /\ Len(channel) <= Room

\* No work is hashed twice between two changes of the pool's state, so that a
\* share is submitted twice only where such a change came in between.
HashedOnce == at = "hashing" /\ pos < end => Work \notin tried

\* A change of the pool's state is taken up, however many shares the thread
\* finds and wherever it waits for the writer.
ChangesAreTakenUp == <>[](open => current = generation) \/ <>(at = "over")

=============================================================================
