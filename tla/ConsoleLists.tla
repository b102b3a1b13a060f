---------------------------- MODULE ConsoleLists ----------------------------
(***************************************************************************)
(* The two long lists of the console, the events and the custom rules:     *)
(* filtered and cut into pages over data that every poll may replace, with *)
(* the dialog of one event on top, whose id is in the hash.                *)
(*                                                                         *)
(* A row is a number, in the order of the list; what a filter can tell of  *)
(* it is computed from the number.                                         *)
(***************************************************************************)
EXTENDS ConsoleSession, FiniteSets

CONSTANTS
  MaxRows,     \* bound: rows a list may have
  PageSize     \* 50 events, 10, 25 or 50 rules

ASSUME ListsAssumption == MaxRows \in Nat /\ PageSize \in Nat \ {0}

VARIABLES
  data,        \* the rows of each list in the payload on the page
  filter, page,
  opened       \* the event whose id the hash holds

lists == <<data, filter, page, opened>>
pager == <<filter, page>>

Lists == {"events", "rules"}
Items == 1 .. MaxRows
Facets == {"service", "category", "search"}
NoFilter == [f \in Facets |-> None]

\* Two services, two categories (kinds, of rules), and a search that finds the rows
\* of one client.
Value(i, f) ==
  CASE f = "service" -> i % 2
    [] f = "category" -> IF i = MaxRows THEN 1 ELSE 0
    [] f = "search" -> (i + 1) \div 2

ListsTypeOK ==
  /\ data \in [Lists -> SUBSET Items]
  /\ filter \in [Facets -> 0 .. MaxRows \cup {None}]
  /\ page \in 0 .. MaxRows
  /\ opened \in Items \cup {None}

ListsInit ==
  /\ data = [l \in Lists |-> Items]
  /\ filter = NoFilter /\ page = 0 /\ opened = None

\* Each view has its own filters and page, and starts anew.
ListsLeft(p) ==
  IF p = place THEN UNCHANGED <<pager, opened>>
  ELSE filter' = NoFilter /\ page' = 0 /\ opened' = None

ListShown == place \in Lists /\ (opened = None \/ opened \notin data[place])
Filtered == {i \in data[place] : \A f \in Facets : filter[f] \in {None, Value(i, f)}}
Least(a, b) == IF a < b THEN a ELSE b
Pages == IF Filtered = {} THEN 1 ELSE (Cardinality(Filtered) + PageSize - 1) \div PageSize

Clamped_Not == page
Clamped == Least(page, Pages - 1)

Rank(i) == Cardinality({j \in Filtered : j < i})
Visible == {i \in Filtered : Rank(i) \div PageSize = Clamped}

Filter(f, v) ==
  /\ ListShown /\ filter[f] # v /\ Ask
  /\ v = None \/ \E i \in data[place] : Value(i, f) = v
  /\ filter' = [filter EXCEPT ![f] = v] /\ page' = 0
  /\ UNCHANGED <<session, place, data, opened>>

ClearFilters ==
  /\ ListShown /\ filter # NoFilter /\ Ask
  /\ filter' = NoFilter /\ page' = 0
  /\ UNCHANGED <<session, place, data, opened>>

Turn(p) ==
  /\ ListShown /\ p \in {Clamped - 1, Clamped + 1} \cap 0 .. Pages - 1 /\ Ask
  /\ page' = p
  /\ UNCHANGED <<session, place, data, filter, opened>>

\* A poll, or a refresh after a change.
Refreshed(l, rows) ==
  /\ place = l /\ rows # data[l] /\ Ask
  /\ data' = [data EXCEPT ![l] = rows]
  /\ UNCHANGED <<session, place, pager, opened>>

\* The dialog shows an event that is still in the payload.
Open(i) ==
  /\ ListShown /\ place = "events" /\ i \in Visible
  /\ opened' = i
  /\ UNCHANGED <<session, asks, place, data, pager>>

Shows(i) == place = "events" /\ opened = i /\ i \in data["events"]

Close ==
  /\ opened # None
  /\ opened' = None
  /\ UNCHANGED <<session, asks, place, data, pager>>

\* "Same IP", "Same rule": the other filters give way, the dialog closes.
Pivot(i) ==
  /\ Shows(i) /\ Ask
  /\ filter' = [NoFilter EXCEPT !["search"] = Value(i, "search")] /\ page' = 0
  /\ opened' = None
  /\ UNCHANGED <<session, place, data>>

\* The palette goes to a view, a service or an event of the payload, from any view;
\* the filters of the view it is used in stay.
PaletteTo(v, i) ==
  /\ place \in Views /\ Ask
  /\ i # None => v = "events" /\ i \in data["events"]
  /\ place' = v /\ opened' = i
  /\ IF v = place THEN UNCHANGED pager ELSE filter' = NoFilter /\ page' = 0
  /\ UNCHANGED <<session, data>>

ListsNext ==
  \/ \E f \in Facets, v \in 0 .. MaxRows \cup {None} : Filter(f, v)
  \/ ClearFilters
  \/ \E p \in 0 .. MaxRows : Turn(p)
  \/ \E l \in Lists : \E rows \in SUBSET Items : Refreshed(l, rows)
  \/ \E i \in Items : Open(i) \/ Pivot(i)
  \/ Close

-----------------------------------------------------------------------------
\* While there are rows that pass the filters some of them are shown: a page that a
\* poll or a filter has emptied is never what the operator is left with (Events,
\* Rules: the page is clamped to the pages there are).
PageNeverEmpty == place \in Lists /\ Filtered # {} => Visible # {}
=============================================================================
