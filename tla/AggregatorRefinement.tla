------------------------ MODULE AggregatorRefinement ------------------------
(***************************************************************************)
(* The aggregator implements PriceFeed: the history is what was sent to    *)
(* the table, a row being sure when PersistRound acknowledged it, visible  *)
(* when the table has it.                                                  *)
(***************************************************************************)
EXTENDS AggregatorInvariant

AuditedRow(a, i) ==
    [median |-> db[a][i].median, at |-> db[a][i].at,
     sure |-> audit[a][i].acked, blind |-> audit[a][i].blind,
     visible |-> i \in landed[a]]

history == [a \in Assets |-> [i \in 1..Len(db[a]) |-> AuditedRow(a, i)]]

Promise == INSTANCE PriceFeed WITH InBand <- Accepts

\* With every asset listed once, each step of the aggregator is a step of
\* PriceFeed or leaves its state alone: the cache, the lost answers, the
\* crashes and the restarts never let a row in that PriceFeed would refuse,
\* and the bus announces the table in order.
ImplementsPriceFeed == Promise!Spec

=============================================================================
