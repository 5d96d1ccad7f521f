----------------------------- MODULE EventQuery -----------------------------
(***************************************************************************)
(* Event queries of src/utils/EventUtils.ts: a range of blocks is read     *)
(* page by page, pages start at multiples of the page size so that nodes   *)
(* see the same queries again, and what lies before the range is left out. *)
(* A definition X_Variant is a deliberately wrong form of X.               *)
(***************************************************************************)
EXTENDS Integers, SequencesExt

CONSTANT
  MaxBlockLookBack    \* eventSearchConfig.maxBlockLookBack; 0 is one query

ASSUME LookBackAssumption == MaxBlockLookBack \in Nat

(* getPaginatedBlockRanges.  A start before the first page's own counts.   *)
FlooredStart(from) == (from \div MaxBlockLookBack) * MaxBlockLookBack
Iterations(from, to) ==
  (to + 1 - FlooredStart(from) + MaxBlockLookBack - 1) \div MaxBlockLookBack
PageStart(from, i) == FlooredStart(from) + MaxBlockLookBack * (i - 1)
PageEnd(from, to, i) == Min({PageStart(from, i) + MaxBlockLookBack - 1, to})
Pages(from, to) == IF from > to THEN {} ELSE 1..Iterations(from, to)

(* filter(): the items of a list that are in a set, in their order.  This  *)
(* is SelectSeq, with a body that a proof can unfold.                      *)
Filter(list, items) ==
  LET kept[i \in 0..Len(list)] ==
        IF i = 0 THEN <<>>
        ELSE IF list[i] \in items THEN Append(kept[i - 1], list[i]) ELSE kept[i - 1]
  IN kept[Len(list)]

(* The events of a log at the positions ps, as the node lists them.        *)
Listed(events, ps, a, b) ==
  Filter([p \in DOMAIN events |-> p], {p \in ps : events[p].block \in a..b})

(* paginatedEventQuery.                                                    *)
WithinRange(events, list, from, to) ==
  Filter(list, {p \in DOMAIN events : from <= events[p].block /\ events[p].block <= to})
PaginatedEventQuery(events, ps, from, to) ==
  IF MaxBlockLookBack = 0 THEN Listed(events, ps, from, to)
  ELSE LET page(i) == Listed(events, ps, PageStart(from, i), PageEnd(from, to, i))
       IN WithinRange(events, FlattenSeq([i \in Pages(from, to) |-> page(i)]), from, to)

=============================================================================
