---------------------------- MODULE WatchlistProofs ----------------------------
(***************************************************************************)
(* Proofs about the watchlist, for every set of note lists, page size and  *)
(* number of pages: the type invariant, and that a load during which nobody *)
(* edits a note brings all of them.                                        *)
(***************************************************************************)
EXTENDS Watchlist, SequenceTheorems, TLAPS

\* The notes that occur in some list.
AllNotes == UNION {Members(s) : s \in NoteLists}

\* The lists are sequences of notes, and another page is asked for only while there
\* are pages left.
ListsInv ==
  /\ notes \in Seq(AllNotes) /\ acc \in Seq(AllNotes) /\ store \in Seq(AllNotes)
  /\ pc = "paging" => pages < MaxPages

\* While nobody edits a note, what came so far is what the list begins with; only
\* full pages came while there is more to ask for; and the paging ends at the end of
\* the list or at the limit of pages.
PagingInv ==
  quiet =>
    /\ pc \in {"paging", "swap"} => offset =< Len(notes) /\ acc = SubSeq(notes, 1, offset)
    /\ pc = "paging" => offset = pages * PageSize
    /\ pc = "swap" => offset = Len(notes) \/ offset = MaxPages * PageSize

WatchInv == TypeOK /\ ListsInv /\ PagingInv

-----------------------------------------------------------------------------

\* A list of notes is a sequence of notes.
LEMMA ListsAreNotes ==
  ASSUME NEW s \in NoteLists
  PROVE  s \in Seq(AllNotes) /\ Members(s) \subseteq AllNotes
<1>1. Members(s) \subseteq AllNotes
  BY DEF AllNotes
<1>2. s \in Seq(Members(s))
  BY NotesAssumption
<1>3. /\ Len(s) \in Nat /\ DOMAIN s = 1 .. Len(s)
      /\ \A i \in 1 .. Len(s) : s[i] \in AllNotes
  BY <1>1, <1>2, LenProperties
<1> QED
  BY <1>1, <1>2, <1>3

\* The members of a sequence of notes are notes.
LEMMA MembersOfSeq ==
  ASSUME NEW s \in Seq(AllNotes)
  PROVE  Members(s) \subseteq AllNotes
  BY LenProperties DEF Members

\* What a page is: at most PageSize notes, from the offset on, and as many as that
\* unless the list ends before; and with it, one has what the list begins with.
LEMMA PageIs ==
  ASSUME notes \in Seq(AllNotes), offset \in Nat
  PROVE  /\ Page \in Seq(AllNotes) /\ Len(Page) \in 0 .. PageSize
         /\ offset =< Len(notes) =>
              /\ offset + Len(Page) =< Len(notes)
              /\ Len(Page) < PageSize => offset + Len(Page) = Len(notes)
              /\ SubSeq(notes, 1, offset) \o Page = SubSeq(notes, 1, offset + Len(Page))
<1> DEFINE end == IF offset + PageSize < Len(notes) THEN offset + PageSize ELSE Len(notes)
<1>1. /\ PageSize \in Nat \ {0} /\ Len(notes) \in Nat
      /\ \A i \in 1 .. Len(notes) : notes[i] \in AllNotes
  BY WatchlistAssumption, LenProperties
<1>2. end \in Nat /\ end =< Len(notes) /\ end =< offset + PageSize
  BY <1>1
<1>3. \A i \in offset + 1 .. end : notes[i] \in AllNotes
  BY <1>1, <1>2
<1>4. Page = SubSeq(notes, offset + 1, end)
  BY DEF Page
<1>5. /\ Page \in Seq(AllNotes)
      /\ Len(Page) = IF offset + 1 =< end THEN end - offset ELSE 0
  <2> HIDE DEF end
  <2>1. offset + 1 \in Int /\ end \in Int /\ end - (offset + 1) + 1 = end - offset
    BY <1>2
  <2> QED
    BY <1>3, <1>4, <2>1, SubSeqProperties
<1>6. ASSUME offset =< Len(notes)
      PROVE  /\ end \in offset .. Len(notes) /\ offset + Len(Page) = end
             /\ end - offset < PageSize => end = Len(notes)
  BY <1>1, <1>2, <1>5, <1>6
<1>7. ASSUME offset =< Len(notes)
      PROVE  SubSeq(notes, 1, offset) \o Page = SubSeq(notes, 1, end)
  <2> HIDE DEF end
  <2>1. /\ 1 \in 1 .. Len(notes) + 1 /\ offset \in 1 - 1 .. Len(notes)
        /\ end \in offset .. Len(notes)
    BY <1>1, <1>6, <1>7
  <2> QED
    BY <1>4, <2>1, ConcatAdjacentSubSeq
<1>8. Len(Page) \in 0 .. PageSize
  BY <1>1, <1>2, <1>5
<1> QED
  BY <1>1, <1>2, <1>5, <1>6, <1>7, <1>8

-----------------------------------------------------------------------------

\* The invariant holds at first.
LEMMA WatchInit == Init => WatchInv
<1> SUFFICES ASSUME Init PROVE WatchInv
  OBVIOUS
<1> USE WatchlistAssumption DEF Init
<1>1. notes \in Seq(AllNotes) /\ <<>> \in Seq(AllNotes) /\ Len(<<>>) = 0
  BY ListsAreNotes, EmptySeq
<1>2. Members(store) \subseteq AllNotes /\ Members(acc) \subseteq AllNotes
  BY <1>1, MembersOfSeq
<1>3. TypeOK
  BY <1>1, <1>2 DEF TypeOK, AllNotes
<1>4. ListsInv /\ PagingInv
  BY <1>1 DEF ListsInv, PagingInv
<1> QED
  BY <1>3, <1>4 DEF WatchInv

\* A load begins with nothing, before the first page.
LEMMA WatchBegin ==
  ASSUME WatchInv, NEW first \in BOOLEAN, BeginFetch(first), UNCHANGED <<notes, store>>
  PROVE  /\ acc' \in Seq(AllNotes) /\ Members(acc') \subseteq AllNotes
         /\ offset' = Len(acc') /\ pages' \in 0 .. MaxPages
         /\ ListsInv' /\ PagingInv'
<1> USE WatchlistAssumption DEF WatchInv, BeginFetch
<1>1. <<>> \in Seq(AllNotes) /\ Len(<<>>) = 0
  BY EmptySeq
<1>2. acc' \in Seq(AllNotes) /\ Members(acc') \subseteq AllNotes
  BY <1>1, MembersOfSeq
<1>3. ListsInv'
  BY <1>1 DEF ListsInv
<1>4. Len(notes') \in Nat /\ SubSeq(notes', 1, 0) = <<>>
  BY SubSeqEmpty, LenProperties DEF ListsInv
<1>5. PagingInv'
  BY <1>4 DEF PagingInv
<1> QED
  BY <1>1, <1>2, <1>3, <1>5

\* A page keeps the invariant.
LEMMA WatchPage == WatchInv /\ GetPage => WatchInv'
<1> SUFFICES ASSUME WatchInv, GetPage PROVE WatchInv'
  OBVIOUS
<1> USE WatchlistAssumption DEF WatchInv
<1>1. notes \in Seq(AllNotes) /\ acc \in Seq(AllNotes) /\ store \in Seq(AllNotes)
  BY DEF ListsInv
<1>2. Len(notes) \in Nat /\ Len(acc) \in Nat /\ offset = Len(acc)
  BY <1>1, LenProperties DEF TypeOK
<1>3. /\ pc = "paging" /\ pages \in 0 .. MaxPages /\ pages < MaxPages
      /\ pages + 1 \in 0 .. MaxPages
  BY DEF GetPage, ListsInv, TypeOK
<1>4. Page \in Seq(AllNotes) /\ Len(Page) \in 0 .. PageSize
  BY <1>1, <1>2, PageIs
<1>5. /\ acc' \in Seq(AllNotes) /\ Len(acc') = Len(acc) + Len(Page)
      /\ Members(acc') \subseteq AllNotes
  BY <1>1, <1>4, ConcatProperties, MembersOfSeq DEF GetPage
<1>6. TypeOK'
  BY <1>2, <1>3, <1>5 DEF TypeOK, GetPage, AllNotes, clock, history, load
<1>7. ListsInv'
  BY <1>1, <1>3, <1>5 DEF ListsInv, GetPage
<1>8. PagingInv'
  <2> SUFFICES ASSUME quiet'
               PROVE  /\ offset' =< Len(notes') /\ acc' = SubSeq(notes', 1, offset')
                      /\ pc' = "paging" => offset' = pages' * PageSize
                      /\ pc' = "swap" =>
                           offset' = Len(notes') \/ offset' = MaxPages * PageSize
    BY DEF PagingInv
  <2>1. /\ notes' = notes /\ quiet /\ acc' = acc \o Page
        /\ offset' = offset + Len(Page) /\ pages' = pages + 1
        /\ pc' = IF LastPage \/ pages + 1 = MaxPages THEN "swap" ELSE "paging"
    BY DEF GetPage, load
  <2>2. /\ offset =< Len(notes) /\ acc = SubSeq(notes, 1, offset)
        /\ offset = pages * PageSize
    BY <1>3, <2>1 DEF PagingInv
  <2>3. /\ offset' =< Len(notes) /\ acc' = SubSeq(notes, 1, offset')
        /\ LastPage => offset' = Len(notes)
    BY <1>1, <1>2, <2>1, <2>2, PageIs DEF LastPage
  <2>4. ~LastPage => offset' = pages * PageSize + PageSize
    BY <1>4, <2>1, <2>2 DEF LastPage
  <2>5. pages * PageSize + PageSize = (pages + 1) * PageSize
    BY <1>3
  <2> QED
    BY <2>1, <2>3, <2>4, <2>5
<1> QED
  BY <1>6, <1>7, <1>8

\* Every step keeps the invariant.
LEMMA WatchNext == WatchInv /\ [Next]_vars => WatchInv'
<1> SUFFICES ASSUME WatchInv, [Next]_vars PROVE WatchInv'
  OBVIOUS
<1> USE WatchlistAssumption DEF WatchInv
<1>1. notes \in Seq(AllNotes) /\ acc \in Seq(AllNotes) /\ store \in Seq(AllNotes)
  BY DEF ListsInv
<1>2. CASE Load
  <2>1. BeginFetch(TRUE) /\ UNCHANGED <<notes, store, clock, lastRun, history>>
    BY <1>2 DEF Load
  <2>2. /\ Members(acc') \subseteq AllNotes /\ offset' = Len(acc')
        /\ pages' \in 0 .. MaxPages /\ ListsInv' /\ PagingInv'
    BY <2>1, WatchBegin
  <2> QED
    BY <2>1, <2>2 DEF TypeOK, BeginFetch, AllNotes, clock, history
<1>3. CASE GetPage
  BY <1>3, WatchPage
<1>4. CASE FetchFails
  <2>1. TypeOK'
    BY <1>4 DEF TypeOK, FetchFails, AfterLoad, fetch, clock, load
  <2>2. ListsInv' /\ PagingInv'
    BY <1>4 DEF ListsInv, PagingInv, FetchFails, AfterLoad, fetch, clock, load
  <2> QED
    BY <2>1, <2>2
<1>5. CASE Swap
  <2>1. TypeOK'
    BY <1>5 DEF TypeOK, Swap, AfterLoad, fetch, clock, load
  <2>2. ListsInv' /\ PagingInv'
    BY <1>5 DEF ListsInv, PagingInv, Swap, AfterLoad, fetch, clock, load
  <2> QED
    BY <2>1, <2>2
<1>6. CASE Mark
  <2>1. TypeOK'
    BY <1>6 DEF TypeOK, Mark, fetch, clock, load
  <2>2. ListsInv' /\ PagingInv'
    BY <1>6 DEF ListsInv, PagingInv, Mark, fetch, clock, load
  <2> QED
    BY <2>1, <2>2
<1>7. CASE Reload
  <2>1. /\ BeginFetch(FALSE) /\ UNCHANGED <<notes, store, clock, history>>
        /\ lastRun' = today
    BY <1>7 DEF Reload
  <2>2. /\ Members(acc') \subseteq AllNotes /\ offset' = Len(acc')
        /\ pages' \in 0 .. MaxPages /\ ListsInv' /\ PagingInv'
    BY <2>1, WatchBegin
  <2>3. lastRun' \in 0 .. MaxDay /\ UNCHANGED clock /\ UNCHANGED history
    BY <2>1 DEF TypeOK
  <2>4. /\ pc' = "paging" /\ startup' = FALSE /\ quiet' = TRUE
        /\ begun' \in 0 .. MaxDay
    BY <2>1 DEF BeginFetch, TypeOK
  <2> QED
    BY <2>1, <2>2, <2>3, <2>4 DEF TypeOK, AllNotes, clock, history
<1>8. CASE Edit
  <2>1. notes' \in NoteLists /\ notes' \in Seq(AllNotes)
    BY <1>8, ListsAreNotes DEF Edit
  <2>2. TypeOK'
    BY <1>8, <2>1 DEF TypeOK, Edit, fetch, clock, history
  <2>3. ListsInv' /\ PagingInv'
    BY <1>8, <2>1 DEF ListsInv, PagingInv, Edit, fetch
  <2> QED
    BY <2>2, <2>3
<1>9. CASE OpenReached
  <2>1. TypeOK'
    BY <1>9 DEF TypeOK, OpenReached, fetch, history, load
  <2>2. ListsInv' /\ PagingInv'
    BY <1>9 DEF ListsInv, PagingInv, OpenReached, fetch, load
  <2> QED
    BY <2>1, <2>2
<1>10. CASE NextDay
  <2>0. today' \in 1 .. MaxDay
    BY <1>10 DEF TypeOK, NextDay
  <2>1. TypeOK'
    BY <1>10, <2>0 DEF TypeOK, NextDay, fetch, history, load
  <2>2. ListsInv' /\ PagingInv'
    BY <1>10 DEF ListsInv, PagingInv, NextDay, fetch, load
  <2> QED
    BY <2>1, <2>2
<1>11. CASE UNCHANGED vars
  <2>1. TypeOK'
    BY <1>11 DEF TypeOK, vars, fetch, clock, history, load
  <2>2. ListsInv' /\ PagingInv'
    BY <1>11 DEF ListsInv, PagingInv, vars, fetch, load
  <2> QED
    BY <2>1, <2>2
<1> QED
  BY <1>2, <1>3, <1>4, <1>5, <1>6, <1>7, <1>8, <1>9, <1>10, <1>11 DEF Next, Refresher

\* The invariant of the watchlist: its types, and what the pages that came so far are.
THEOREM WatchlistInductive == Spec => []WatchInv
<1> QED
  BY WatchInit, WatchNext, PTL DEF Spec

\* The variables keep their types, the offset is the number of notes that came, and
\* fetch_active asks for at most MaxPages pages.
THEOREM TypeCorrect == Spec => []TypeOK
<1>1. WatchInv => TypeOK
  BY DEF WatchInv
<1> QED
  BY <1>1, WatchlistInductive, PTL

\* fetch_active is exhaustive: notes that nobody edits while they are paged through all
\* arrive, each once and in their order, unless there are more than MaxPages full pages.
THEOREM AllPagesArrive == Spec => []PagingIsExhaustive
<1>1. WatchInv => PagingIsExhaustive
  <2> SUFFICES ASSUME WatchInv, pc = "swap", quiet, Len(notes) =< MaxPages * PageSize
               PROVE  acc = notes
    BY DEF PagingIsExhaustive
  <2>1. /\ notes \in Seq(AllNotes) /\ Len(notes) \in Nat
        /\ offset =< Len(notes) /\ acc = SubSeq(notes, 1, offset)
        /\ offset = Len(notes) \/ offset = MaxPages * PageSize
    BY LenProperties DEF WatchInv, ListsInv, PagingInv
  <2>2. MaxPages * PageSize \in Nat
    BY WatchlistAssumption
  <2>3. offset = Len(notes)
    BY <2>1, <2>2
  <2> QED
    BY <2>1, <2>3, SubSeqFull
<1> QED
  BY <1>1, WatchlistInductive, PTL
================================================================================
