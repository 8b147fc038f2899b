----------------------------- MODULE InboxPages -----------------------------
(***************************************************************************)
(* Reading the feed page by page: list_opportunities and its cursor        *)
(* (apps/api/app/api/opportunities.py).  A page is asked for with filters  *)
(* and the cursor of the page before; with eligible_only the rows are      *)
(* scanned in batches and only those that qualify are shown, so a page may *)
(* be short, or empty, and yet have a cursor.  Between two pages decisions *)
(* about a row may change.                                                 *)
(***************************************************************************)
EXTENDS Integers, FiniteSetsExt

CONSTANTS
  Rows,       \* the number of rows, newest first
  Limit,      \* rows of a page
  BatchRows,  \* rows of a batch
  Batches     \* batches of one request

ASSUME InboxAssumption == {Rows, Limit, BatchRows, Batches} \subseteq Nat \ {0}

VARIABLES
  qualifies,   \* the rows that are eligible without warnings
  steady,      \* history: rows whose decision did not change since the first page
  feed,        \* what the reader has: filter, cursor and the rows seen
  pages        \* history: the pages of this reading, as sets of rows

inboxVars == <<qualifies, steady, feed, pages>>

(* A cursor is the last row of the page before and the fingerprint of the  *)
(* filters it belongs to.  Row 0 is before the first one.                  *)
NoCursor == [row |-> 0, filter |-> "none"]
Filters  == {"all", "eligible"}

InboxInit ==
  /\ qualifies \in SUBSET (1..Rows)
  /\ steady = 1..Rows
  /\ feed  = [filter |-> "none", cursor |-> NoCursor, at |-> "start"]
  /\ pages = {}

-----------------------------------------------------------------------------

(* decode_cursor: a cursor of other filters is refused.                    *)
AnyCursor(cursor, filter) == TRUE

Belongs(cursor, filter) == cursor = NoCursor \/ cursor.filter = filter

Shown(row, filter) == filter = "all" \/ row \in qualifies

(* The rows a request looks at: one more than a page, or all its batches.  *)
Scanned(start, filter) ==
  LET size == IF filter = "all" THEN Limit + 1 ELSE BatchRows * Batches
  IN  (start + 1)..Min({Rows, start + size})

Candidates(start, filter) == {r \in Scanned(start, filter) : Shown(r, filter)}

Page(start, filter) ==
  {r \in Candidates(start, filter) : Cardinality({q \in Candidates(start, filter) : q < r}) < Limit}

ContinueAtNextRow(start, filter) ==
  LET page == Page(start, filter)
  IN  IF Candidates(start, filter) # page THEN Max(page) + 1
      ELSE IF filter = "eligible" /\ Cardinality(Scanned(start, filter)) = BatchRows * Batches
        THEN start + BatchRows * Batches ELSE 0

(* Where the next page begins: after the last row of this one when another *)
(* row was found for it, after the last batch when every batch was full,   *)
(* nowhere (0) otherwise.                                                  *)
Continue(start, filter) ==
  LET page == Page(start, filter)
  IN  IF Candidates(start, filter) # page THEN Max(page)
      ELSE IF filter = "eligible" /\ Cardinality(Scanned(start, filter)) = BatchRows * Batches
        THEN start + BatchRows * Batches ELSE 0

Cursor(row, filter) == IF row = 0 THEN NoCursor ELSE [row |-> row, filter |-> filter]

(* A reader who changes the filters still has the cursor of the old ones.  *)
ReadFeed(filter) ==
  LET start == feed.cursor.row
  IN  /\ feed.at = "start" \/ feed.cursor # NoCursor
      /\ Belongs(feed.cursor, filter)
      /\ feed' = [filter |-> filter, cursor |-> Cursor(Continue(start, filter), filter), at |-> "reading"]
      /\ pages' = pages \cup {Page(start, filter)}
      /\ steady' = IF feed.at = "start" THEN 1..Rows ELSE steady
      /\ UNCHANGED qualifies

(* The reader begins again, with filters of their choice.                  *)
Restart ==
  /\ feed.at = "reading"
  /\ feed' = [filter |-> "none", cursor |-> NoCursor, at |-> "start"]
  /\ pages' = {}
  /\ UNCHANGED <<qualifies, steady>>

(* A profile or a row changes, and with it the decision about the row.     *)
Decide(row) ==
  /\ feed.at = "reading" /\ feed.cursor # NoCursor
  /\ qualifies' = (qualifies \ {row}) \cup ({row} \ qualifies)
  /\ steady' = steady \ {row}
  /\ UNCHANGED <<feed, pages>>

InboxNext ==
  \/ \E filter \in Filters : ReadFeed(filter)
  \/ Restart
  \/ \E row \in 1..Rows : Decide(row)

InboxSpec == InboxInit /\ [][InboxNext]_inboxVars

-----------------------------------------------------------------------------

(* The rows behind the reader: those before the cursor, or all of them     *)
(* once there is no further page.                                          *)
Behind == IF feed.at = "start" THEN {} ELSE IF feed.cursor = NoCursor THEN 1..Rows ELSE 1..feed.cursor.row

(* docs/api.md: pages follow each other by a stable order.  Whatever short *)
(* or empty pages a filtered feed has, whatever filters a reader tries on  *)
(* a cursor, and whatever changes between two pages, every row behind the  *)
(* reader that has qualified all along was on one page, and on one only.   *)
PagesCoverTheFeed ==
  /\ \A row \in Behind \cap steady : Shown(row, feed.filter) <=> row \in UNION pages
  /\ \A p, q \in pages : p = q \/ p \cap q = {}

=============================================================================
