-------------------------------- MODULE Paging --------------------------------
(***************************************************************************)
(* A client that walks a list page by page, each request carrying the      *)
(* token of the page before, while the list changes underneath.  A token   *)
(* is an offset into the rows or the last row that was read; 0 is none.    *)
(* Rows are numbers from 1 in whatever order the list is kept in.          *)
(***************************************************************************)
EXTENDS Deployment, FiniteSets, Sequences, SequencesExt

CONSTANT Limit  \* the page size

ASSUME LimitAssumption == Limit \in Nat \ {0}

VARIABLES
  walk,   \* the client
  watch   \* history: what happened to the list since the walk began

walkVars == <<walk, watch>>

WalkState(Rows, Queries) ==
  [pc : {"idle", "walking", "ended"}, query : Queries, token : Rows \cup {0},
   seen : Seq(Rows)]      \* the items of the pages so far

WatchState(Rows) ==
  [still : SUBSET Rows,   \* rows the client is looking for, there ever since
   left : BOOLEAN,        \* a row that pages are counted in went out ...
   entered : BOOLEAN,     \* ... or came in
   cut : BOOLEAN]         \* a read may not have returned the whole table

NothingWatched == [still |-> {}, left |-> FALSE, entered |-> FALSE, cut |-> FALSE]

PagingInit(query) ==
  /\ walk = [pc |-> "idle", query |-> query, token |-> 0, seen |-> <<>>]
  /\ watch = NothingWatched

-----------------------------------------------------------------------------
BeginWalk(query) ==
  /\ walk.pc = "idle"
  /\ walk' = [pc |-> "walking", query |-> query, token |-> 0, seen |-> <<>>]

\* A page is answered: its items, and a token unless it is the last one.
Turn(page) ==
  /\ walk.pc = "walking"
  /\ walk' = [walk EXCEPT !.seen = @ \o page.items, !.token = page.next,
                          !.pc = IF page.next = 0 THEN "ended" ELSE @]

EndWalk ==
  /\ walk.pc = "ended"
  /\ walk' = [walk EXCEPT !.pc = "idle", !.token = 0, !.seen = <<>>]

\* wanted: the rows a walk would show if it were one read, after a step; paged:
\* the rows its pages are cut from, before and after the step.
Observe(wanted, paged, pagedAfter, cut) ==
  watch' =
    CASE walk'.pc = "idle" -> NothingWatched
      [] walk.pc = "idle" /\ walk'.pc = "walking" ->
           [NothingWatched EXCEPT !.still = wanted, !.cut = cut]
      [] walk.pc = "walking" ->
           [still |-> watch.still \cap wanted,
            left |-> watch.left \/ ~(paged \subseteq pagedAfter),
            entered |-> watch.entered \/ ~(pagedAfter \subseteq paged),
            cut |-> watch.cut \/ cut]
      [] OTHER -> watch

\* The rows of S in the order of the list, a strict and total one: the i-th has
\* i - 1 rows before it.  A filter keeps that order: the rows of a page that pass
\* it are their set in the same order.
Rank(x, S, Before(_, _)) == Cardinality({y \in S : Before(y, x)})

Ordered(S, Before(_, _)) ==
  [i \in 1 .. Cardinality(S) |-> CHOOSE x \in S : Rank(x, S, Before) = i - 1]

Upto(s, n) == SubSeq(s, 1, IF n < Len(s) THEN n ELSE Len(s))
After(s, offset) == SubSeq(s, offset + 1, Len(s))

Seen == ToSet(walk.seen)

=============================================================================
