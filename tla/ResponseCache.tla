--------------------------- MODULE ResponseCache ---------------------------
(***************************************************************************)
(* The response cache of the lifecycle (responseCache.ts over lruCache.ts) *)
(* in both of its variants.  Values are not told apart; what counts is     *)
(* which keys are held and how old they are:                               *)
(*                                                                         *)
(*   lru    the held keys, most recently used first                        *)
(*   ttl    of a held key: its node in the LRU "lasts" for ever (the       *)
(*          stale-while-revalidate variant stores it so), "runs" or has    *)
(*          "passed"; a node past its ttl is removed when it is read       *)
(*   fresh  the keys whose real expiration, kept beside the LRU by the     *)
(*          stale-while-revalidate variant, lies in the future             *)
(***************************************************************************)
EXTENDS Integers, Sequences, SequencesExt

CONSTANTS Keys, MaxEntries, Swr

EmptyCache == [lru |-> <<>>, ttl |-> [k \in Keys |-> "lasts"], fresh |-> {}]

Held(c, k) == k \in Range(c.lru)

LruDelete(c, k) == [c EXCEPT !.lru = SelectSeq(@, LAMBDA h : h # k),
                             !.ttl[k] = "lasts"]

\* get: a hit moves to the head, a node past its ttl is removed.
LruGet(c, k) ==
  IF ~Held(c, k) THEN c
  ELSE IF c.ttl[k] = "passed" THEN LruDelete(c, k)
  ELSE [c EXCEPT !.lru = <<k>> \o SelectSeq(@, LAMBDA h : h # k)]

\* set: the least recently used key goes when there are too many.
LruSet(c, k, ttl) ==
  LET put == [c EXCEPT !.lru = <<k>> \o SelectSeq(@, LAMBDA h : h # k),
                       !.ttl[k] = ttl]
  IN  IF Len(put.lru) > MaxEntries THEN LruDelete(put, Last(put.lru)) ELSE put

\* What a request of key k finds.
Lookup(c, k) ==
  IF ~Held(c, k) \/ c.ttl[k] = "passed" THEN "miss"
  ELSE IF ~Swr \/ k \in c.fresh THEN "fresh" ELSE "stale"

\* A fetch after a miss, and a background revalidation: only the first writes
\* the expiration of the stale-while-revalidate variant.
StoreFetched(c, k) ==
  IF Swr THEN [LruSet(c, k, "lasts") EXCEPT !.fresh = @ \cup {k}]
         ELSE LruSet(c, k, "runs")
StoreRevalidated(c, k) == LruSet(c, k, "runs")

InvalidateKey(c, k) == [LruDelete(c, k) EXCEPT !.fresh = @ \ {k}]

\* Time passes: the node's ttl, or the expiration kept beside it.
Aged(c, k) == {d \in {[c EXCEPT !.fresh = @ \ {k}],
                      IF Held(c, k) /\ c.ttl[k] = "runs"
                      THEN [c EXCEPT !.ttl[k] = "passed"] ELSE c} : d # c}
=============================================================================
