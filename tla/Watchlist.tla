------------------------------ MODULE Watchlist ------------------------------
(***************************************************************************)
(* The watchlist of an executor: the refresher thread and the snapshot it  *)
(* swaps (domain/matching.py), and the client that pages through the       *)
(* active notes of the note-taking service (clients/watchlist_client.py).  *)
(*                                                                         *)
(* The snapshot is the list of entries it was built from; matching reads   *)
(* it in one step (EntryMatches in Domain, Poll in ExecutionService).      *)
(***************************************************************************)
EXTENDS Integers, Sequences

CONSTANTS
  NoteLists,  \* the lists of active notes the service may have
  PageSize,
  MaxPages,   \* _MAX_PAGES
  MaxDay,     \* bound: the days that are modelled
  Scheduled,  \* an open time is configured
  Fails       \* a fetch may fail

ASSUME WatchlistAssumption ==
  /\ PageSize \in Nat \ {0} /\ MaxPages \in Nat \ {0} /\ MaxDay \in Nat \ {0}
  /\ Scheduled \in BOOLEAN /\ Fails \in BOOLEAN

VARIABLES
  notes,      \* the active notes at the service, in the order it pages them
  store,      \* the snapshot that ticks are matched against
  pc,         \* where the refresher is
  startup,    \* its current or last load is the one at startup
  acc,        \* the entries of the pages fetched so far
  offset,
  pages,
  today,
  afterOpen,  \* the clock is at or past the open time
  lastRun,    \* _last_run, 0 for None
  \* history
  lateStart,  \* the process was started at or after the open of its day
  ready,      \* the day on which the startup load was over, 0 before
  begun,      \* the day on which the current or last load began, 0 before
  loadedOn,   \* the day on which the last successful load began, 0 for none
  failedOn,   \* the day on which the last load that failed began, 0 for none
  kept,       \* the notes that were active all through the current load
  quiet       \* no note was edited during the current load

fetch == <<startup, acc, offset, pages>>
load == <<begun, kept, quiet>>
clock == <<today, afterOpen>>
history == <<lateStart, ready, loadedOn, failedOn>>

vars == <<notes, store, pc, fetch, clock, lastRun, history, load>>

Members(s) == {s[i] : i \in DOMAIN s}

ASSUME NotesAssumption == \A s \in NoteLists : s \in Seq(Members(s))

Init ==
  /\ notes \in NoteLists
  /\ store = <<>>
  /\ pc = "startup" /\ startup = TRUE
  /\ acc = <<>> /\ offset = 0 /\ pages = 0
  /\ today = 1 /\ afterOpen \in BOOLEAN /\ lastRun = 0
  /\ lateStart = afterOpen /\ ready = 0 /\ loadedOn = 0 /\ failedOn = 0
  /\ begun = 0 /\ kept = {} /\ quiet = TRUE

-----------------------------------------------------------------------------
(* fetch_active                                                            *)

BeginFetch(first) ==
  /\ startup' = first
  /\ acc' = <<>> /\ offset' = 0 /\ pages' = 0
  /\ begun' = today /\ kept' = Members(notes) /\ quiet' = TRUE
  /\ pc' = "paging"

Load ==
  /\ pc = "startup"
  /\ BeginFetch(TRUE)
  /\ UNCHANGED <<notes, store, clock, lastRun, history>>

Page == SubSeq(notes, offset + 1,
               IF offset + PageSize < Len(notes) THEN offset + PageSize ELSE Len(notes))

\* Mutant: a full page is taken for the last one.
ShortPage == Len(Page) =< PageSize

\* An empty page, or one that is not full, is the last one.
LastPage == Len(Page) < PageSize

\* Mutant: the offset moves by the page size, not by what came.
GetPageByStride ==
  /\ pc = "paging"
  /\ acc' = acc \o Page /\ offset' = offset + PageSize /\ pages' = pages + 1
  /\ pc' = IF LastPage \/ pages + 1 = MaxPages THEN "swap" ELSE "paging"
  /\ UNCHANGED <<notes, store, startup, clock, lastRun, history, load>>

GetPage ==
  /\ pc = "paging"
  /\ acc' = acc \o Page /\ offset' = offset + Len(Page) /\ pages' = pages + 1
  /\ pc' = IF LastPage \/ pages + 1 = MaxPages THEN "swap" ELSE "paging"
  /\ UNCHANGED <<notes, store, startup, clock, lastRun, history, load>>

AfterLoad == pc' = IF startup THEN "mark" ELSE "loop"

\* WatchlistError, or a record that does not validate: the snapshot stays.
FetchFails ==
  /\ Fails
  /\ pc = "paging"
  /\ failedOn' = begun
  /\ AfterLoad
  /\ UNCHANGED <<notes, store, fetch, clock, lastRun, lateStart, ready, loadedOn, load>>

\* replace: the new snapshot takes the place of the old one at once.
Swap ==
  /\ pc = "swap"
  /\ store' = acc
  /\ loadedOn' = begun
  /\ AfterLoad
  /\ UNCHANGED <<notes, fetch, clock, lastRun, lateStart, ready, failedOn, load>>

-----------------------------------------------------------------------------
(* run_forever and maybe_refresh                                           *)

\* After the startup load: if it is past the open by now, today is taken care of.
Mark ==
  /\ pc = "mark"
  /\ lastRun' = IF Scheduled /\ afterOpen THEN today ELSE lastRun
  /\ ready' = today
  /\ pc' = "loop"
  /\ UNCHANGED <<notes, store, fetch, clock, lateStart, loadedOn, failedOn, load>>

\* Mutant: once per process instead of once per day.
ReloadOnce ==
  /\ pc = "loop"
  /\ Scheduled /\ afterOpen /\ lastRun = 0
  /\ lastRun' = today
  /\ BeginFetch(FALSE)
  /\ UNCHANGED <<notes, store, clock, history>>

\* _last_run is set before the load, whatever becomes of it.
Reload ==
  /\ pc = "loop"
  /\ Scheduled /\ afterOpen /\ lastRun # today
  /\ lastRun' = today
  /\ BeginFetch(FALSE)
  /\ UNCHANGED <<notes, store, clock, history>>

Refresher == Load \/ GetPage \/ FetchFails \/ Swap \/ Mark \/ Reload

-----------------------------------------------------------------------------
(* The service and the clock                                               *)

Edit ==
  /\ notes' \in NoteLists \ {notes}
  /\ kept' = kept \cap Members(notes') /\ quiet' = FALSE
  /\ UNCHANGED <<begun, store, pc, fetch, clock, lastRun, history>>

OpenReached ==
  /\ ~afterOpen
  /\ afterOpen' = TRUE
  /\ UNCHANGED <<notes, store, pc, fetch, today, lastRun, history, load>>

\* Bound: MaxDay.
NextDay ==
  /\ afterOpen /\ today < MaxDay
  /\ today' = today + 1 /\ afterOpen' = FALSE
  /\ UNCHANGED <<notes, store, pc, fetch, lastRun, history, load>>

Next == Refresher \/ Edit \/ OpenReached \/ NextDay

Spec == Init /\ [][Next]_vars

\* The refresher thread runs on; nobody has to edit notes.
FairSpec == Spec /\ WF_vars(Refresher)

-----------------------------------------------------------------------------
(* Properties                                                              *)

\* The variables have the values their declarations describe; no more than
\* MaxPages pages are asked for.
TypeOK ==
  /\ notes \in NoteLists
  /\ Members(store) \cup Members(acc) \subseteq UNION {Members(s) : s \in NoteLists}
  /\ pc \in {"startup", "paging", "swap", "mark", "loop"}
  /\ startup \in BOOLEAN
  /\ offset = Len(acc) /\ pages \in 0 .. MaxPages
  /\ today \in 1 .. MaxDay /\ afterOpen \in BOOLEAN /\ lastRun \in 0 .. MaxDay
  /\ lateStart \in BOOLEAN /\ quiet \in BOOLEAN
  /\ ready \in 0 .. MaxDay
  /\ begun \in 0 .. MaxDay /\ loadedOn \in 0 .. MaxDay /\ failedOn \in 0 .. MaxDay

\* Notes that do not change while they are paged through all arrive, each once and
\* in their order (fetch_active).
PagingIsExhaustive ==
  pc = "swap" /\ quiet /\ Len(notes) =< MaxPages * PageSize => acc = notes

\* From the day after the startup load on, once the open is passed a list is loaded
\* that was asked for on that day, so at or after its open: a load of the day before
\* that is still running, however long, does not stand for it, nor does its failure.
\* Excused are a failure of the day's own load and a day that ends first (matching.py:
\* reload once per day at open; _last_run is set before the load).
ReloadsEachSession ==
  \A d \in 2 .. MaxDay :
    today = d /\ afterOpen /\ ready \in 1 .. d - 1
      ~> loadedOn = d \/ failedOn = d \/ today # d

-----------------------------------------------------------------------------
(* Claims of documents and comments that the code does not keep            *)

\* WatchlistRefresher: a restart in the middle of a session is never left with an
\* empty watchlist: past the startup and after the open a list has been loaded.
NeverLeftEmpty == pc = "loop" /\ afterOpen => loadedOn # 0

\* run_forever: starting before the open leaves _last_run unset, so that the reload
\* at the open still fires: a process started before the open sets it in a reload.
OpenReloadFires ==
  [][lastRun' # lastRun => lateStart \/ pc = "loop"]_vars

\* fetch_active: all active entries are returned: a note that was active from the
\* first page to the last is among them.
NoActiveNoteMissed == pc = "swap" => kept \subseteq Members(acc)
=============================================================================
