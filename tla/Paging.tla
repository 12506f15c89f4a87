------------------------------- MODULE Paging -------------------------------
(***************************************************************************)
(* A reader pages through a list while it changes: the links of an owner   *)
(* (ListByOwner) or the clicks of a link (ListByLink).  Both are the same  *)
(* keyset query, newest first, that asks for one row more than the page    *)
(* holds to learn whether another page follows.  Between two pages rows    *)
(* are added, leave the list or come back to it, and the click list's      *)
(* window moves on at midnight.                                            *)
(***************************************************************************)
EXTENDS Naturals, FiniteSets

CONSTANTS
  RowIds,          \* ids, ordered as numbers
  Stamps,          \* created_at or occurred_at, in microseconds
  Asked,           \* the page sizes a client asks for, 0 for none
  DefaultPage,     \* page size without a wish
  MaxPage,         \* the largest page size
  MaxListChanges   \* bound: changes of the list while it is read

ASSUME PagingAssumption ==
  /\ RowIds \subseteq Nat /\ IsFiniteSet(RowIds) /\ Stamps \subseteq Nat /\ Asked \subseteq Nat
  /\ DefaultPage \in Nat \ {0} /\ MaxPage \in Nat \ {0} /\ MaxListChanges \in Nat

VARIABLES
  list,       \* "links" or "clicks"
  table,      \* each row: in the list or not, and its time
  since,      \* start of the click list's window
  reading,    \* the reader: its cursor, and whether it has seen the last page
  got,        \* history: how often each row was shown
  kept,       \* history: rows that have been in the list from the first page on
  listChanges

pagingVars == <<list, table, since, reading, got, kept, listChanges>>

Matches(r) == table[r].listed /\ (list = "clicks" => table[r].at >= since)

\* (a, i) < (b, j), as PostgreSQL compares rows.
Before(x, y) == x.at < y.at \/ (x.at = y.at /\ x.id < y.id)

KeyOf(r) == [at |-> table[r].at, id |-> r]

-----------------------------------------------------------------------------
(* Cursors and page sizes. *)

NoCursor == [valid |-> FALSE, at |-> 0, id |-> 0]

\* A cursor that goes through its text form keeps its microseconds.
EncodeCursor_Seconds(key) == [valid |-> TRUE, at |-> (key.at \div 2) * 2, id |-> key.id]

EncodeCursor(key) == [valid |-> TRUE, at |-> key.at, id |-> key.id]

PageSize(asked) ==
  LET wish == IF asked <= 0 THEN DefaultPage ELSE asked
  IN  IF wish < MaxPage THEN wish ELSE MaxPage

-----------------------------------------------------------------------------
(* The query of one page. *)

Below(cursor) == {r \in RowIds : Matches(r) /\ (cursor.valid => Before(KeyOf(r), cursor))}

\* ORDER BY time DESC, id DESC LIMIT n.
Newest(rows, n) ==
  {r \in rows : Cardinality({q \in rows : Before(KeyOf(r), KeyOf(q))}) < n}

Oldest(rows) == CHOOSE r \in rows : \A q \in rows : ~Before(KeyOf(q), KeyOf(r))

Show(page) == got' = [r \in RowIds |-> IF r \in page THEN got[r] + 1 ELSE got[r]]

FetchPage(asked) ==
  LET size  == PageSize(asked)
      found == Newest(Below(reading.cursor), size + 1)
      page  == Newest(found, size)
  IN  /\ ~reading.done
      /\ Show(page)
      /\ reading' = IF Cardinality(found) > size
                    THEN [done |-> FALSE, cursor |-> EncodeCursor(KeyOf(Oldest(page)))]
                    ELSE [done |-> TRUE, cursor |-> NoCursor]
      /\ kept' = IF reading.cursor.valid THEN kept ELSE {r \in RowIds : Matches(r)}
      /\ UNCHANGED <<list, table, since, listChanges>>

-----------------------------------------------------------------------------
(* What happens to the list. *)

Change(r, row) ==
  /\ listChanges < MaxListChanges
  /\ listChanges' = listChanges + 1
  /\ table' = [table EXCEPT ![r] = row]
  /\ kept' = kept \ {r}
  /\ UNCHANGED <<list, since, reading, got>>

\* Commits come in any order of their times: a click is stored when its message
\* is consumed, a link's created_at is the start of its transaction.
Added(r) == ~table[r].exists /\ \E at \in Stamps : Change(r, [exists |-> TRUE, listed |-> TRUE, at |-> at])

\* Deleted, or changed so that the owner, tag or search no longer matches, or
\* again matches.
Moved(r) == table[r].exists /\ Change(r, [table[r] EXCEPT !.listed = ~@])

Midnight ==
  /\ listChanges < MaxListChanges
  /\ listChanges' = listChanges + 1
  /\ since' = since + 1
  /\ kept' = {r \in kept : list = "clicks" => table[r].at >= since'}
  /\ UNCHANGED <<list, table, reading, got>>

PagingInit ==
  /\ list \in {"links", "clicks"}
  /\ table \in [RowIds -> [exists : {TRUE}, listed : {TRUE}, at : Stamps]
                            \cup {[exists |-> FALSE, listed |-> FALSE, at |-> 0]}]
  /\ since = 0
  /\ reading = [done |-> FALSE, cursor |-> NoCursor]
  /\ got = [r \in RowIds |-> 0]
  /\ kept = {}
  /\ listChanges = 0

PagingNext ==
  \/ \E asked \in Asked : FetchPage(asked)
  \/ \E r \in RowIds : Added(r) \/ Moved(r)
  \/ Midnight

PagingSpec == PagingInit /\ [][PagingNext]_pagingVars

-----------------------------------------------------------------------------
(* Properties. *)

PagingTypeOK ==
  /\ list \in {"links", "clicks"}
  /\ table \in [RowIds -> [exists : BOOLEAN, listed : BOOLEAN, at : Nat]]
  /\ since \in Nat
  /\ reading.done \in BOOLEAN /\ reading.cursor \in [valid : BOOLEAN, at : Nat, id : Nat]
  /\ got \in [RowIds -> Nat] /\ kept \subseteq RowIds

\* Whatever is added, removed or brought back between two pages, and whatever
\* sizes are asked for, no row is shown on two pages.
NoRowTwice == \A r \in RowIds : got[r] <= 1

\* A reader that reaches the last page has seen every row that was in the list
\* all the while: equal times, a full last page or a changed page size hide none.
NoRowSkipped == reading.done => \A r \in kept : got[r] = 1

\* A list that is not over has rows left when the page is shown: no reader is
\* sent to an empty page unless the rest disappeared meanwhile.
NextPageIsThere ==
  reading.cursor.valid /\ listChanges = 0 => Below(reading.cursor) # {}

\* What a reader may rely on who follows next_cursor to its end.
PagingInv == PagingTypeOK /\ NoRowTwice /\ NoRowSkipped /\ NextPageIsThere

=============================================================================
