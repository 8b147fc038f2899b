---------------------------- MODULE KonepsCursor ----------------------------
(***************************************************************************)
(* How the KONEPS adapter (apps/api/app/sources/koneps.py) walks a source   *)
(* that keeps growing: a window of time is listed twice, by registration   *)
(* and by change date, page by page, and the next window begins a little   *)
(* before the end of the last one.  The cursor is what IngestPipeline      *)
(* stores with each page; poll_source_pages of workers/jobs.py reads       *)
(* several pages in one run of its job.                                    *)
(*                                                                         *)
(* The service itself is external: it lists entries by their minute, and   *)
(* an entry may appear up to Lag minutes after the minute it carries.      *)
(* What was listed once is listed for ever: a notice whose change date     *)
(* moves on is out of scope here, and docs/source-contracts.md says that   *)
(* such moves between pages are not solved.                                *)
(***************************************************************************)
EXTENDS Integers, FiniteSetsExt

CONSTANTS
  Lookback,    \* koneps_lookback_days, the first window
  Overlap,     \* the hour that the next window goes back
  Day,         \* the longest window after the first
  Lag,         \* how late an entry may be listed
  PageSize,    \* numOfRows
  PageBudget,  \* koneps_pages_per_poll
  LastMinute,  \* bound on the clock
  MaxListed    \* bound on the entries of the service

ASSUME CursorAssumption ==
  /\ {Lookback, Overlap, Day, PageSize, PageBudget} \subseteq Nat \ {0}
  /\ Lag \in 0..Overlap /\ Overlap < Day
  /\ LastMinute \in Nat /\ MaxListed \in Nat

VARIABLES
  minute,   \* the wall clock, in Korean time
  listed,   \* what the service has listed so far
  position, \* cursor_after of the latest successful run
  since,    \* history: where the first window began
  found,    \* entries that a committed page contained
  budget    \* pages left to poll_source_pages

cursorVars == <<minute, listed, position, since, found, budget>>

(* inqryDiv: "1" lists by registration date, "3" by change date.           *)
Modes   == {"1", "3"}
Entries == [mode: Modes, at: 0..LastMinute]

(* No cursor: the source has never been polled.                            *)
Unset == [start |-> 0, end |-> 0, mode |-> "none", page |-> 1]

CursorInit ==
  /\ minute = Lookback
  /\ listed \in {{}, {[mode |-> "1", at |-> 0], [mode |-> "1", at |-> Lookback]}}
  /\ position = Unset /\ since = 0 /\ found = {} /\ budget = 0

-----------------------------------------------------------------------------
(* The service                                                             *)

Publish(e) ==
  /\ e.at \in (minute - Lag)..minute
  /\ e \notin listed /\ Cardinality(listed) < MaxListed
  /\ listed' = listed \cup {e}
  /\ UNCHANGED <<minute, position, since, found, budget>>

MinutePasses ==
  /\ minute < LastMinute
  /\ minute' = minute + 1
  /\ UNCHANGED <<listed, position, since, found, budget>>

Window(state) == {e \in listed : e.mode = state.mode /\ e.at \in state.start..state.end}

PageOf(e, state) == Cardinality({f \in Window(state) : f.at < e.at}) \div PageSize + 1

(* The page as it is, or cut short on the way; the count is that of the    *)
(* whole window.                                                           *)
Answers(state) ==
  LET page == {e \in Window(state) : PageOf(e, state) = state.page}
  IN  {[total |-> Cardinality(Window(state)), items |-> items] : items \in SUBSET page}

-----------------------------------------------------------------------------
(* The adapter                                                             *)

FollowsWithoutOverlap(end) ==
  [start |-> end, end |-> Min({minute, end + Day}), mode |-> "1", page |-> 1]

(* The window after one that ended at end.                                 *)
Follows(end) ==
  [start |-> end - Overlap, end |-> Min({minute, end - Overlap + Day}), mode |-> "1", page |-> 1]

(* What discover asks for.  A cursor within a window keeps its window.     *)
Asked ==
  CASE position = Unset        -> [start |-> minute - Lookback, end |-> minute, mode |-> "1", page |-> 1]
    [] position.mode = "done"  -> Follows(position.end)
    [] position.mode \in Modes -> position

(* _validate_page: a page that is not as full as the total says is refused. *)
Complete(answer, page) ==
  Cardinality(answer.items) = Min({PageSize, Max({0, answer.total - (page - 1) * PageSize})})

Advance(state, total) ==
  IF state.page * PageSize < total THEN [state EXCEPT !.page = @ + 1]
  ELSE IF state.mode = "1"         THEN [state EXCEPT !.mode = "3", !.page = 1]
                                   ELSE [state EXCEPT !.mode = "done", !.page = 1]

(* A run of the polling job begins.                                        *)
PollPages ==
  /\ budget = 0
  /\ budget' = PageBudget
  /\ UNCHANGED <<minute, listed, position, since, found>>

(* One page: its records and the cursor behind it are committed together.  *)
(* The run ends with its budget or with the cycle of the source.           *)
ReadPage ==
  /\ budget > 0
  /\ \E answer \in Answers(Asked) :
       /\ Complete(answer, Asked.page)
       /\ found'  = found \cup answer.items
       /\ position' = Advance(Asked, answer.total)
  /\ since'  = IF position = Unset THEN Asked.start ELSE since
  /\ budget' = IF position'.mode = "done" THEN 0 ELSE budget - 1
  /\ UNCHANGED <<minute, listed>>

(* A refused page, an application error and a transport error alike leave  *)
(* the cursor where it was and end the run.                                *)
PageRefused ==
  /\ budget > 0
  /\ budget' = 0
  /\ UNCHANGED <<minute, listed, position, since, found>>

CursorNext ==
  \/ \E e \in Entries : Publish(e)
  \/ MinutePasses
  \/ PollPages
  \/ ReadPage
  \/ PageRefused

CursorSpec == CursorInit /\ [][CursorNext]_cursorVars

-----------------------------------------------------------------------------

(* The sweep of the current window still has the entry before it.          *)
Ahead(e) ==
  /\ position.mode \in Modes
  /\ e.at \in position.start..position.end
  /\ \/ position.mode = "1" /\ e.mode = "3"
     \/ position.mode = e.mode /\ PageOf(e, position) >= position.page

(* docs/source-contracts.md puts completeness first ("누락 방지 우선").     *)
(* However entries come late, pages are cut short and the clock runs on    *)
(* between two polls, every listed entry since the first window has been   *)
(* stored, or lies ahead in the current sweep, or falls into the window    *)
(* that follows.                                                           *)
NothingIsSkipped ==
  position # Unset =>
    \A e \in listed : e.at >= since =>
      e \in found \/ Ahead(e) \/ e.at >= position.end - Overlap

=============================================================================
