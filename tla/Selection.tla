----------------------------- MODULE Selection -----------------------------
(***************************************************************************)
(* Which candidates a run spends its budgets on (universe/selection.py):   *)
(* round robin over the scans for the fundamentals budget, round robin     *)
(* over the sectors in two passes for the enrichment budget.               *)
(*                                                                         *)
(* Buckets keep their order and a cursor counts what was taken of each, so *)
(* a state of the loops is the function of the cursors.                    *)
(***************************************************************************)
EXTENDS Ordering, SequencesExt

CONSTANTS
  Rank(_),           \* rotation_key on the trading date: any total order
  UnknownSector,     \* the bucket of candidates without a sector
  DefaultCap         \* max_per_sector was not given

Kept == "kept"       \* no exit_reason

Deferred(c, reason) == [c EXCEPT !.exit = reason]

Advanced(c, stage) == [c EXCEPT !.stage = stage]

InRotation(S) == InOrder(S, [x \in S |-> Rank(x)])

BucketOf(candidates, field, k) ==
  LET bucket == {c \in candidates : c[field] = k}
  IN InOrder(bucket, [c \in bucket |-> Rank(c.symbol)])

Taken(cursor) == SumFunctionOnSet(cursor, DOMAIN cursor)

\* One turn of a bucket.
Take(buckets, budget, cap, cursor, k) ==
  IF Taken(cursor) < budget /\ cursor[k] < cap /\ cursor[k] < Len(buckets[k])
  THEN [cursor EXCEPT ![k] = @ + 1] ELSE cursor

\* The while loop, turn by turn: a sweep that takes nothing changes nothing.
RoundRobin(buckets, order, budget, cap, start) ==
  LET turns == budget * Len(order)
      after[n \in 0..turns] ==
        IF n = 0 THEN start
        ELSE Take(buckets, budget, cap, after[n - 1], order[((n - 1) % Len(order)) + 1])
  IN after[turns]

Chosen(buckets, cursor) ==
  UNION {{buckets[k][i] : i \in 1..cursor[k]} : k \in DOMAIN cursor}

\* select_for_fundamentals.
SelectForFundamentals(candidates, budget) ==
  LET shards == {c.shard : c \in candidates}
      buckets == [k \in shards |-> BucketOf(candidates, "shard", k)]
      cursor == RoundRobin(buckets, InRotation(shards), budget, budget, [k \in shards |-> 0])
      picked == IF budget <= 0 THEN {} ELSE Chosen(buckets, cursor)
  IN [selected |-> {Advanced(c, "fundamentals_selected") : c \in picked},
      deferred |-> {Deferred(c, "fundamentals_budget") : c \in candidates \ picked}]

CapOf(budget, maxPerSector) ==
  IF maxPerSector # DefaultCap THEN maxPerSector
  ELSE IF (budget + 1) \div 2 > 1 THEN (budget + 1) \div 2 ELSE 1

\* Mutant: whatever budget is left goes to anyone.
SelectForEnrichment_BackfillAll(candidates, budget, maxPerSector) ==
  LET sectors == {c.sector : c \in candidates}
      buckets == [k \in sectors |-> BucketOf(candidates, "sector", k)]
      order == InRotation(sectors)
      first == RoundRobin(buckets, order, budget, CapOf(budget, maxPerSector), [k \in sectors |-> 0])
      picked == Chosen(buckets, RoundRobin(buckets, order, budget, budget, first))
  IN [selected |-> {Advanced(c, "selected") : c \in picked},
      deferred |-> {Deferred(c, "enrichment_budget") : c \in candidates \ picked}]

\* select_for_enrichment: every sector up to the cap, the unknown one last,
\* then the known sectors beyond it.
SelectForEnrichment(candidates, budget, maxPerSector) ==
  LET sectors == {c.sector : c \in candidates}
      buckets == [k \in sectors |-> BucketOf(candidates, "sector", k)]
      known == InRotation(sectors \ {UnknownSector})
      order == known \o InRotation(sectors \cap {UnknownSector})
      first == RoundRobin(buckets, order, budget, CapOf(budget, maxPerSector), [k \in sectors |-> 0])
      picked == IF budget <= 0 THEN {}
                ELSE Chosen(buckets, RoundRobin(buckets, known, budget, budget, first))
      reason == IF Cardinality(picked) >= budget THEN "enrichment_budget" ELSE "unknown_sector_limit"
  IN [selected |-> {Advanced(c, "selected") : c \in picked},
      deferred |-> {Deferred(c, reason) : c \in candidates \ picked}]
=============================================================================
