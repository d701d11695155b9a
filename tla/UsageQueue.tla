----------------------------- MODULE UsageQueue ------------------------------
(***************************************************************************)
(* The CLIProxy usage exporter (cliproxy-exporter.py). Usage records wait  *)
(* in CLIProxy's queue in memory; the exporter pops them in batches, which *)
(* removes them there, and adds each batch to counters in a database in    *)
(* one transaction. /metrics shows a rendering of the counters that is     *)
(* made at start and after a poll that committed something.                *)
(*                                                                         *)
(* A record is the provider and model it counts for, or Malformed when     *)
(* parse_record refuses it. Each valid record adds one to its series in    *)
(* `requests` and `duration`, so one count per series stands for both; its *)
(* tokens and latency, the pauses between polls and what /metrics says of  *)
(* the poller itself are left out. A series is a pair, or Overflow for the *)
(* pairs beyond the cap.                                                   *)
(***************************************************************************)
EXTENDS Naturals, Sequences, FiniteSets, SequencesExt, FiniteSetsExt

CONSTANTS
  Pairs,        \* (provider, model)
  Malformed, Overflow,
  MaxPairs,     \* MAX_SERIES_PAIRS
  Batch,        \* BATCH_COUNT
  MaxBatches,   \* MAX_BATCHES_PER_POLL
  MaxRecords,   \* bound: records CLIProxy ever queues
  MaxStarts     \* bound: starts of the exporter

UsageSizes ==
  /\ {MaxPairs, Batch, MaxBatches} \subseteq Nat \ {0}
  /\ {MaxRecords, MaxStarts} \subseteq Nat
UsageSeries ==
  /\ IsFiniteSet(Pairs)
  /\ Malformed \notin Pairs /\ Overflow \notin Pairs \cup {Malformed}

Record == Pairs \cup {Malformed}
Series == Pairs \cup {Malformed, Overflow}
Zero   == [s \in Series |-> 0]

VARIABLES
  queue,     \* CLIProxy's queue
  counts,    \* the database
  pairs,     \* Store.pairs
  shown,     \* State.counters_text
  stage,     \* "down", "wait", "pop", "apply", "finish"
  hand,      \* records popped and not yet committed
  pops,      \* pops left in this poll
  committed, \* this poll committed a batch
  ok,        \* nothing of this poll failed
  stopping,  \* stop is set
  starts,
  born,      \* ghost: records CLIProxy queued
  gone       \* ghost: records lost, by reason

usageVars == <<queue, counts, pairs, shown, stage, hand, pops, committed, ok, stopping, starts, born, gone>>
poll == <<stage, hand, pops, committed, ok>>
db   == <<counts, pairs>>

Reasons == {"retired", "response", "rollback", "killed"}
Loses(n, reason) == gone' = [gone EXCEPT ![reason] = @ + n]

UsageInit ==
  /\ queue = <<>> /\ counts = Zero /\ pairs = {} /\ shown = Zero
  /\ stage = "down" /\ hand = <<>> /\ pops = 0 /\ committed = FALSE /\ ok = TRUE
  /\ stopping = FALSE /\ starts = 0
  /\ born = 0 /\ gone = [r \in Reasons |-> 0]

----------------------------------------------------------------------------
(* CLIProxy *)

Request(r) ==
  /\ born < MaxRecords /\ born' = born + 1
  /\ queue' = Append(queue, r)
  /\ UNCHANGED <<db, shown, poll, stopping, starts, gone>>

\* The queue keeps a record for a minute.
Retire ==
  /\ queue # <<>> /\ queue' = Tail(queue)
  /\ Loses(1, "retired")
  /\ UNCHANGED <<db, shown, poll, stopping, starts, born>>

----------------------------------------------------------------------------
(* Faulty variants, for mutation tests of the properties. *)

\* Pairs that are new in this batch do not count towards the cap.
FullBefore(new) == Cardinality(pairs) >= MaxPairs

\* A failed batch is applied without the transaction.
KeepsAll(add) == [s \in Series |-> counts[s] + add[s]]

----------------------------------------------------------------------------
(* Store *)

Full(new) == Cardinality(pairs) + Cardinality(new) >= MaxPairs

\* _pair: the series a valid record counts for.
SeriesOf(p, new) == IF p \in pairs \cup new \/ ~Full(new) THEN p ELSE Overflow

\* What a batch adds, record by record, and the pairs it is the first to have.
Tally(records) ==
  FoldLeft(LAMBDA acc, r :
             LET s == IF r = Malformed THEN r ELSE SeriesOf(r, acc.new)
             IN [new |-> IF s \in Pairs \ pairs THEN acc.new \cup {s} ELSE acc.new,
                 add |-> [acc.add EXCEPT ![s] = @ + 1]],
           [new |-> {}, add |-> Zero], records)

\* apply: all of the batch.
Commit ==
  /\ stage = "apply"
  /\ counts' = [s \in Series |-> counts[s] + Tally(hand).add[s]]
  /\ pairs' = pairs \cup Tally(hand).new
  /\ hand' = <<>> /\ committed' = TRUE
  /\ stage' = IF Len(hand) < Batch \/ pops = 0 THEN "finish" ELSE "pop"
  /\ UNCHANGED <<queue, shown, pops, ok, stopping, starts, born, gone>>

\* What a rolled-back batch leaves.
RolledBack(add) == counts

\* Or none of it: the database is locked, or full.
Rollback ==
  /\ stage = "apply"
  /\ counts' = RolledBack(Tally(hand).add)
  /\ Loses(Len(hand), "rollback")
  /\ hand' = <<>> /\ ok' = FALSE /\ stage' = "finish"
  /\ UNCHANGED <<queue, pairs, shown, pops, committed, stopping, starts, born>>

----------------------------------------------------------------------------
(* Poller *)

\* Up to BATCH_COUNT records, the oldest first.
Popped == SubSeq(queue, 1, Min({Batch, Len(queue)}))
Left   == SubSeq(queue, Len(Popped) + 1, Len(queue))

PollBegins ==
  /\ stage = "wait" /\ ~stopping
  /\ stage' = "pop" /\ pops' = MaxBatches /\ committed' = FALSE /\ ok' = TRUE
  /\ UNCHANGED <<queue, db, shown, hand, stopping, starts, born, gone>>

Pop ==
  /\ stage = "pop" /\ ~stopping
  /\ hand' = Popped /\ queue' = Left
  /\ pops' = pops - 1 /\ stage' = "apply"
  /\ UNCHANGED <<db, shown, committed, ok, stopping, starts, born, gone>>

\* FetchError: CLIProxy never saw the request, or its answer is late, cut off,
\* too long or not a list.
PopFails ==
  /\ stage = "pop" /\ ~stopping
  /\ \/ UNCHANGED <<queue, gone>>
     \/ queue' = Left /\ Loses(Len(Popped), "response")
  /\ ok' = FALSE /\ stage' = "finish"
  /\ UNCHANGED <<db, shown, hand, pops, committed, stopping, starts, born>>

\* SIGTERM between two pops.
BreakOff ==
  /\ stage = "pop" /\ stopping
  /\ stage' = "finish"
  /\ UNCHANGED <<queue, db, shown, hand, pops, committed, ok, stopping, starts, born, gone>>

Renders == committed

\* Store.snapshot in one read, and render_counters: every series, and its count.
Rendered == counts

\* _finish
Finish ==
  /\ stage = "finish" /\ stage' = "wait"
  /\ shown' = IF Renders THEN Rendered ELSE shown
  /\ UNCHANGED <<queue, db, hand, pops, committed, ok, stopping, starts, born, gone>>

----------------------------------------------------------------------------
(* main() *)

\* Store() reads the pairs back, the overflow pair among them, and Poller()
\* renders the counters.
Start ==
  /\ stage = "down"
  /\ starts < MaxStarts /\ starts' = starts + 1
  /\ pairs' = {s \in Pairs \cup {Overflow} : counts[s] > 0}
  /\ shown' = Rendered
  /\ stage' = "wait" /\ stopping' = FALSE
  /\ UNCHANGED <<queue, counts, hand, pops, committed, ok, born, gone>>

Terminate ==
  /\ stage # "down" /\ ~stopping /\ stopping' = TRUE
  /\ UNCHANGED <<queue, db, shown, poll, starts, born, gone>>

Exit ==
  /\ stage = "wait" /\ stopping
  /\ stage' = "down"
  /\ UNCHANGED <<queue, db, shown, hand, pops, committed, ok, stopping, starts, born, gone>>

Kill ==
  /\ stage # "down" /\ stage' = "down"
  /\ hand' = <<>> /\ Loses(Len(hand), "killed")
  /\ UNCHANGED <<queue, db, shown, pops, committed, ok, stopping, starts, born>>

UsageNext ==
  \/ \E r \in Record : Request(r)
  \/ Retire
  \/ Commit \/ Rollback
  \/ PollBegins \/ Pop \/ PopFails \/ BreakOff \/ Finish
  \/ Start \/ Terminate \/ Exit \/ Kill

UsageSpec == UsageInit /\ [][UsageNext]_usageVars

----------------------------------------------------------------------------
(* Properties *)

Total(f) == MapThenSumSet(LAMBDA x : f[x], DOMAIN f)

\* Counts, caches and stages keep their types.
UsageTypeOK ==
  /\ queue \in Seq(Record) /\ hand \in Seq(Record) /\ Len(hand) <= Batch
  /\ {counts, shown} \subseteq [Series -> 0 .. MaxRecords]
  /\ pairs \subseteq Pairs \cup {Overflow}
  /\ stage \in {"down", "wait", "pop", "apply", "finish"}
  /\ pops \in 0 .. MaxBatches
  /\ {committed, ok, stopping} \subseteq BOOLEAN
  /\ starts \in 0 .. MaxStarts /\ born \in 0 .. MaxRecords
  /\ gone \in [Reasons -> 0 .. MaxRecords]

\* "A crash between the HTTP response and the SQLite commit loses that batch;
\* that window is kept to one batch": no record is counted twice or in part,
\* whatever is rolled back, killed or lost on the way, each killed process takes
\* at most one batch with it, and one that is stopped takes none.
CountedOnce ==
  /\ born = Len(queue) + Len(hand) + Total(counts) + Total(gone)
  /\ gone["killed"] <= starts * Batch

\* /metrics is rendered from what was committed, and a poll that fails after it
\* committed something must not leave it behind; and the series stay within the
\* cap, across batches that bring several new pairs at once and across restarts,
\* which take the overflow series for a pair.
ShownAndCapped ==
  /\ stage = "wait" => shown = counts
  /\ Cardinality({p \in Pairs : counts[p] > 0}) <= MaxPairs
=============================================================================
