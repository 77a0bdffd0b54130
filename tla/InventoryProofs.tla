--------------------------- MODULE InventoryProofs ---------------------------
(***************************************************************************)
(* Theorems about the inventory, for any candidates, groups of duplicates,  *)
(* writers, clock and number of events.                                     *)
(***************************************************************************)
EXTENDS Inventory, SequenceTheorems, TLAPS

Row == [state : ListingState, active : Submission]
Admissible == {c \in Submission : c.rights # "UNAUTHORIZED_SCRAPE"}
LoggedMove == (ListingState \cup {"NONE"}) \X ListingState
CallOf ==
  {[kind |-> "idle"]} \cup [kind : {"sweep"}, left : SUBSET Listing]
    \cup [kind : {"move"}, listing : Listing, from : ListingState, to : ListingState,
          left : SUBSET Listing]

Types ==
  /\ sources \in Seq(Admissible)
  /\ canonical \in [Listing -> {Absent} \cup Row]
  /\ lifecycle \in [Listing -> Seq(LoggedMove)]
  /\ trust \in [Publisher -> TrustScore \cup {0}]
  /\ call \in [Writer -> CallOf]
  /\ clock \in 0..MaxTime /\ overlapped \subseteq Listing

\* A writer that has read a listing moves it onward from the state on its row, and
\* alone, unless another writer came between.
MovesFit ==
  \A w \in Writer, l \in Listing : Moving(w, l) =>
    /\ Present(l)
    /\ l \notin overlapped =>
         /\ call[w].from = canonical[l].state
         /\ call[w].to \in Onward(call[w].from)
         /\ \A v \in Writer \ {w} : ~Moving(v, l)

IInv == Types /\ ActiveIsFreshest /\ MovesFit /\ LifecycleIsAPath

\* A state that another follows is one of a listing that is there, and so is the
\* one that follows.
LEMMA OnwardStates ==
  ASSUME NEW state, NEW to \in Onward(state)
  PROVE  state \in ListingState /\ to \in ListingState
BY DEF Onward, ListingState

LEMMA StatesAreNotAbsent == "ABSENT" \notin ListingState
BY DEF ListingState

\* What is there is a row.
LEMMA PresentIsRow ==
  ASSUME Types, NEW l \in Listing
  PROVE  Present(l) <=> canonical[l] \in Row
BY StatesAreNotAbsent DEF Types, Present, Absent, Row

LEMMA InitIInv == InventoryInit => IInv
<1> SUFFICES ASSUME InventoryInit PROVE IInv
  OBVIOUS
<1>1. Types
  BY InventoryAssumption, EmptySeq DEF InventoryInit, Types, CallOf
<1>2. \A l \in Listing : ~Present(l)
  BY DEF InventoryInit, Present, Absent
<1>3. \A l \in Listing : SourcesOf(l) = {}
  BY EmptySeq DEF InventoryInit, SourcesOf
<1>4. QED
  BY <1>1, <1>2, <1>3 DEF IInv, ActiveIsFreshest, MovesFit, LifecycleIsAPath, Moving, InventoryInit
-----------------------------------------------------------------------------
(* A source is added                                                       *)

\* A projection keeps the state and is never older than the row or the candidate.
LEMMA ProjectedRow ==
  ASSUME NEW row \in Row, NEW c \in Submission
  PROVE  /\ Projected(row, c) \in Row
         /\ Projected(row, c).state = row.state
         /\ Projected(row, c).active \in {row.active, c}
         /\ row.active.verified <= Projected(row, c).active.verified
         /\ c.verified <= Projected(row, c).active.verified
BY InventoryAssumption DEF Projected, Row

LEMMA AddSourceTypes ==
  ASSUME IInv, NEW c \in Submission, AddSource(c)
  PROVE  Types'
<1>. DEFINE l == c.listing
<1>1. c \in Admissible /\ l \in Listing /\ c.state \in ListingState
  BY InventoryAssumption DEF AddSource, AllowedRights, Admissible
<1>2. sources' \in Seq(Admissible)
  BY <1>1, AppendProperties DEF IInv, Types, AddSource
<1>3. CASE ~Present(l)
  <2>1. /\ canonical' = [canonical EXCEPT ![l] = [state |-> c.state, active |-> c]]
        /\ lifecycle' = [lifecycle EXCEPT ![l] = <<<<"NONE", c.state>>>>]
    BY <1>3 DEF AddSource
  <2>2. [state |-> c.state, active |-> c] \in Row /\ <<<<"NONE", c.state>>>> \in Seq(LoggedMove)
    BY <1>1 DEF Row, LoggedMove
  <2>3. canonical' \in [Listing -> {Absent} \cup Row] /\ lifecycle' \in [Listing -> Seq(LoggedMove)]
    BY <1>1, <2>1, <2>2 DEF IInv, Types
  <2>4. QED
    BY <1>2, <2>3 DEF IInv, Types, AddSource
<1>4. CASE Present(l)
  <2>1. canonical' = [canonical EXCEPT ![l] = Projected(@, c)] /\ UNCHANGED lifecycle
    BY <1>4 DEF AddSource
  <2>2. Projected(canonical[l], c) \in Row
    BY <1>1, <1>4, PresentIsRow, ProjectedRow DEF IInv
  <2>3. QED
    BY <1>1, <1>2, <2>1, <2>2 DEF IInv, Types, AddSource
<1>5. QED
  BY <1>3, <1>4

\* The new source is the last; it belongs to its listing and to no other.
LEMMA SourcesGrow ==
  ASSUME IInv, NEW c \in Submission, AddSource(c), NEW l \in Listing
  PROVE  /\ SourcesOf(l)' = IF c.listing = l THEN SourcesOf(l) \cup {Len(sources) + 1} ELSE SourcesOf(l)
         /\ \A i \in SourcesOf(l) : sources'[i] = sources[i] /\ sources[i].verified \in Int
         /\ sources'[Len(sources) + 1] = c
<1>1. sources \in Seq(Admissible) /\ sources' = Append(sources, c) /\ c \in Admissible
  BY DEF IInv, Types, AddSource, Admissible, AllowedRights
<1>2. /\ DOMAIN sources = 1..Len(sources) /\ DOMAIN sources' = 1..(Len(sources) + 1)
      /\ Len(sources) \in Nat
      /\ \A i \in 1..Len(sources) : sources'[i] = sources[i] /\ sources[i] \in Admissible
      /\ sources'[Len(sources) + 1] = c
  BY <1>1, AppendProperties, LenProperties, ElementOfSeq
<1>3. QED
  BY <1>2, InventoryAssumption DEF SourcesOf, Admissible

LEMMA AddSourceFreshest ==
  ASSUME IInv, NEW c \in Submission, AddSource(c)
  PROVE  ActiveIsFreshest'
<1>1. SUFFICES ASSUME NEW l \in Listing
      PROVE  /\ Present(l)' <=> SourcesOf(l)' # {}
             /\ Present(l)' => /\ \E i \in SourcesOf(l)' : sources'[i] = canonical'[l].active
                               /\ \A i \in SourcesOf(l)' : sources'[i].verified <= canonical'[l].active.verified
  BY DEF ActiveIsFreshest
<1>. DEFINE n == Len(sources) + 1
<1>2. /\ \A i \in SourcesOf(l) : sources'[i] = sources[i] /\ sources[i].verified \in Int
      /\ sources'[n] = c
  BY <1>1, SourcesGrow
<1>3. c.verified \in Int /\ c.listing \in Listing /\ c.state \in ListingState
  BY InventoryAssumption
<1>4. CASE c.listing # l
  <2>1. SourcesOf(l)' = SourcesOf(l)
    BY <1>1, <1>4, SourcesGrow
  <2>2. canonical'[l] = canonical[l]
    BY <1>1, <1>4 DEF AddSource, IInv, Types
  <2>3. QED
    BY <1>1, <1>2, <2>1, <2>2 DEF IInv, ActiveIsFreshest, Present
<1>5. CASE c.listing = l /\ ~Present(l)
  <2>1. SourcesOf(l)' = SourcesOf(l) \cup {n}
    BY <1>1, <1>5, SourcesGrow
  <2>2. SourcesOf(l)' = {n}
    BY <1>1, <1>5, <2>1 DEF IInv, ActiveIsFreshest
  <2>3. canonical'[l] = [state |-> c.state, active |-> c]
    BY <1>1, <1>5 DEF AddSource, IInv, Types
  <2>4. QED
    BY <1>2, <1>3, <2>2, <2>3, StatesAreNotAbsent DEF Present
<1>6. CASE c.listing = l /\ Present(l)
  <2>1. SourcesOf(l)' = SourcesOf(l) \cup {n}
    BY <1>1, <1>6, SourcesGrow
  <2>2. canonical'[l] = Projected(canonical[l], c)
    BY <1>1, <1>6 DEF AddSource, IInv, Types
  <2>3. canonical[l] \in Row
    BY <1>1, <1>6, PresentIsRow DEF IInv
  <2>. DEFINE old == canonical[l]  new == canonical'[l]
  <2>4. /\ new \in Row /\ new.active \in {old.active, c}
        /\ old.active.verified <= new.active.verified /\ c.verified <= new.active.verified
    BY <2>2, <2>3, ProjectedRow
  <2>5. old.active.verified \in Int /\ new.active.verified \in Int
    BY <2>3, <2>4, InventoryAssumption DEF Row
  <2>6. Present(l)'
    BY <2>4, StatesAreNotAbsent DEF Present, Row
  <2>7. \E i \in SourcesOf(l)' : sources'[i] = new.active
    BY <1>1, <1>2, <1>6, <2>1, <2>4 DEF IInv, ActiveIsFreshest
  <2>8. \A i \in SourcesOf(l)' : sources'[i].verified <= new.active.verified
    <3>1. \A i \in SourcesOf(l) : sources[i].verified <= old.active.verified
      BY <1>1, <1>6 DEF IInv, ActiveIsFreshest
    <3>2. \A i \in SourcesOf(l) : sources'[i].verified <= new.active.verified
      BY <1>2, <2>4, <2>5, <3>1
    <3>3. QED
      BY <1>2, <2>1, <2>4, <3>2
  <2>9. QED
    BY <2>1, <2>6, <2>7, <2>8
<1>7. QED
  BY <1>4, <1>5, <1>6

\* A new source changes nobody's state.
LEMMA AddSourceKeepsStates ==
  ASSUME IInv, NEW c \in Submission, AddSource(c), NEW l \in Listing, Present(l)
  PROVE  canonical'[l].state = canonical[l].state /\ Present(l)' /\ lifecycle'[l] = lifecycle[l]
<1>1. canonical[l] \in Row
  BY PresentIsRow DEF IInv
<1>2. CASE c.listing = l
  <2>1. canonical'[l] = Projected(canonical[l], c) /\ lifecycle' = lifecycle
    BY <1>2 DEF AddSource, IInv, Types
  <2>2. QED
    BY <1>1, <2>1, ProjectedRow DEF Present
<1>3. CASE c.listing # l
  BY <1>3, InventoryAssumption DEF AddSource, IInv, Types, Present
<1>4. QED
  BY <1>2, <1>3

LEMMA AddSourceKeeps ==
  ASSUME IInv, NEW c \in Submission, AddSource(c)
  PROVE  IInv'
<1>1. Types' /\ ActiveIsFreshest'
  BY AddSourceTypes, AddSourceFreshest
<1>2. UNCHANGED <<call, overlapped>>
  BY DEF AddSource
<1>3. MovesFit'
  BY <1>2, AddSourceKeepsStates DEF IInv, MovesFit, Moving
<1>4. LifecycleIsAPath'
  <2>1. SUFFICES ASSUME NEW l \in Listing, Present(l)', l \notin overlapped
        PROVE  /\ lifecycle'[l] # <<>> /\ lifecycle'[l][1][1] = "NONE"
               /\ lifecycle'[l][Len(lifecycle'[l])][2] = canonical'[l].state
               /\ \A i \in 2..Len(lifecycle'[l]) :
                    /\ lifecycle'[l][i][1] = lifecycle'[l][i - 1][2]
                    /\ lifecycle'[l][i][2] \in Onward(lifecycle'[l][i][1])
    BY <1>2 DEF LifecycleIsAPath
  <2>2. CASE Present(l)
    BY <2>1, <2>2, AddSourceKeepsStates DEF IInv, LifecycleIsAPath
  <2>3. CASE ~Present(l)
    <3>1. c.listing = l
      BY <2>1, <2>3, InventoryAssumption DEF AddSource, IInv, Types, Present
    <3>2. lifecycle'[l] = <<<<"NONE", c.state>>>> /\ canonical'[l].state = c.state
      BY <2>3, <3>1, InventoryAssumption DEF AddSource, IInv, Types
    <3>3. QED
      BY <3>2
  <2>4. QED
    BY <2>2, <2>3
<1>5. QED
  BY <1>1, <1>3, <1>4 DEF IInv
-----------------------------------------------------------------------------
(* A writer moves a listing                                                *)

\* What does not touch the rows keeps what is said about them.
LEMMA RowsRemain ==
  ASSUME IInv, UNCHANGED <<sources, canonical, lifecycle>>, overlapped \subseteq overlapped'
  PROVE  ActiveIsFreshest' /\ LifecycleIsAPath'
<1>1. ActiveIsFreshest'
  BY DEF IInv, ActiveIsFreshest, SourcesOf, Present
<1>2. LifecycleIsAPath'
  BY DEF IInv, LifecycleIsAPath, Present
<1>3. QED
  BY <1>1, <1>2

\* A writer reads a listing it is about to move.
LEMMA PrepareKeeps ==
  ASSUME IInv, NEW w \in Writer, NEW l \in Listing, NEW to \in Onward(canonical[l].state),
         NEW left \in SUBSET Listing, call[w].kind # "move",
         Prepare(w, l, to, left), UNCHANGED <<records, clock>>
  PROVE  IInv'
<1>. DEFINE m == [kind |-> "move", listing |-> l, from |-> canonical[l].state, to |-> to, left |-> left]
<1>1. call' = [call EXCEPT ![w] = m]
      /\ overlapped' = IF \E v \in Writer \ {w} : Moving(v, l) THEN overlapped \cup {l} ELSE overlapped
  BY DEF Prepare
<1>2. canonical[l].state \in ListingState /\ to \in ListingState
  BY OnwardStates
<1>3. Types'
  <2>1. m \in CallOf
    BY <1>2 DEF CallOf
  <2>2. QED
    BY <1>1, <2>1 DEF IInv, Types, records
<1>4. Present(l)
  BY <1>2, StatesAreNotAbsent DEF Present
<1>5. \A v \in Writer, k \in Listing :
        Moving(v, k)' <=> IF v = w THEN k = l ELSE Moving(v, k)
  BY <1>1 DEF IInv, Types, Moving
<1>6. MovesFit'
  <2>1. SUFFICES ASSUME NEW v \in Writer, NEW k \in Listing, Moving(v, k)'
        PROVE  /\ Present(k)
               /\ k \notin overlapped' =>
                    /\ call'[v].from = canonical[k].state
                    /\ call'[v].to \in Onward(call'[v].from)
                    /\ \A u \in Writer \ {v} : ~Moving(u, k)'
    BY DEF MovesFit, Present, records
  <2>2. CASE v = w
    <3>1. k = l /\ call'[v] = m
      BY <1>1, <1>5, <2>1, <2>2 DEF IInv, Types
    <3>2. l \notin overlapped' => \A u \in Writer \ {w} : ~Moving(u, l)'
      BY <1>1, <1>5
    <3>3. QED
      BY <1>4, <2>2, <3>1, <3>2
  <2>3. CASE v # w
    <3>1. Moving(v, k) /\ call'[v] = call[v]
      BY <1>1, <1>5, <2>1, <2>3 DEF IInv, Types
    <3>2. k \notin overlapped' => k # l /\ k \notin overlapped
      BY <1>1, <2>3, <3>1
    <3>3. k \notin overlapped' => \A u \in Writer \ {v} : ~Moving(u, k)'
      BY <1>5, <3>1, <3>2 DEF IInv, MovesFit
    <3>4. QED
      BY <3>1, <3>2, <3>3 DEF IInv, MovesFit
  <2>4. QED
    BY <2>2, <2>3
<1>7. QED
  BY <1>1, <1>3, <1>6, RowsRemain DEF IInv, records

\* A writer that ends up without a move disturbs none.
LEMMA RestKeeps ==
  ASSUME IInv, NEW w \in Writer, NEW c \in CallOf, c.kind # "move",
         call' = [call EXCEPT ![w] = c], UNCHANGED <<records, clock, overlapped>>
  PROVE  IInv'
<1>1. Types'
  BY DEF IInv, Types, records
<1>2. \A v \in Writer, k \in Listing : Moving(v, k)' => Moving(v, k) /\ call'[v] = call[v]
  BY DEF IInv, Types, Moving
<1>3. MovesFit'
  BY <1>2 DEF IInv, MovesFit, Present, records
<1>4. QED
  BY <1>1, <1>3, RowsRemain DEF IInv, records

LEMMA BeginTransitionKeeps ==
  ASSUME IInv, NEW w \in Writer, NEW l \in Listing, NEW to \in Target, BeginTransition(w, l, to)
  PROVE  IInv'
BY PrepareKeeps DEF BeginTransition

LEMMA BeginSweepKeeps ==
  ASSUME IInv, NEW w \in Writer, BeginSweep(w)
  PROVE  IInv'
<1>. DEFINE stale == {l \in Listing : /\ canonical[l].state \in {"ACTIVE", "UNDER_OFFER"}
                                      /\ Freshness(canonical[l].active, clock) = 0}
            c == [kind |-> "sweep", left |-> stale]
<1>1. call' = [call EXCEPT ![w] = c] /\ UNCHANGED <<records, clock, overlapped>>
  BY DEF BeginSweep
<1>2. c \in CallOf /\ c.kind # "move"
  <2>1. stale \in SUBSET Listing
    OBVIOUS
  <2>. HIDE DEF stale
  <2>2. QED
    BY <2>1 DEF CallOf
<1>. HIDE DEF c
<1>3. QED
  BY <1>1, <1>2, RestKeeps

LEMMA SweepOneKeeps ==
  ASSUME IInv, NEW w \in Writer, NEW l \in Listing, SweepOne(w, l)
  PROVE  IInv'
<1>. DEFINE left == call[w].left \ {l}
<1>1. call[w].kind = "sweep" /\ UNCHANGED <<records, clock>>
  BY DEF SweepOne
<1>2. left \in SUBSET Listing
  BY <1>1 DEF IInv, Types, CallOf
<1>3. CASE "EXPIRED" \in Onward(canonical[l].state) /\ Prepare(w, l, "EXPIRED", left)
  BY <1>1, <1>2, <1>3, PrepareKeeps
<1>4. ASSUME NEW c \in {Rest(left), [kind |-> "idle"]},
             call' = [call EXCEPT ![w] = c], UNCHANGED overlapped
      PROVE  IInv'
  <2>1. c \in CallOf /\ c.kind # "move"
    BY <1>2, <1>4 DEF CallOf, Rest
  <2>2. QED
    BY <1>1, <1>4, <2>1, RestKeeps
<1>5. QED
  BY <1>3, <1>4 DEF SweepOne

\* A legal path, whatever state it has come to.
IsPath(log) ==
  /\ log # <<>> /\ log[1][1] = "NONE"
  /\ \A i \in 2..Len(log) : log[i][1] = log[i - 1][2] /\ log[i][2] \in Onward(log[i][1])

LEMMA PathExtends ==
  ASSUME NEW log \in Seq(LoggedMove), IsPath(log), NEW from, NEW to \in Onward(from),
         log[Len(log)][2] = from, <<from, to>> \in LoggedMove
  PROVE  LET more == Append(log, <<from, to>>)
         IN  IsPath(more) /\ more[Len(more)][2] = to
<1>. DEFINE event == <<from, to>>  more == Append(log, event)  n == Len(log)
<1>1. event[1] = from /\ event[2] = to
  OBVIOUS
<1>2. n \in Nat \ {0} /\ n + 1 \in Nat
  BY EmptySeq, LenProperties DEF IsPath
<1>3. event \in LoggedMove
  OBVIOUS
<1>. HIDE DEF event
<1>4. /\ more # <<>> /\ Len(more) = n + 1 /\ more[n + 1] = event
      /\ \A i \in 1..n : more[i] = log[i]
  BY <1>3, AppendProperties
<1>. HIDE DEF more
<1>5. log[1][1] = "NONE" /\ log[n][2] = from
      /\ \A i \in 2..n : log[i][1] = log[i - 1][2] /\ log[i][2] \in Onward(log[i][1])
  BY DEF IsPath
<1>. HIDE DEF n
<1>6. more[1][1] = "NONE" /\ more[Len(more)][2] = to
  BY <1>1, <1>2, <1>4, <1>5
<1>7. ASSUME NEW i \in 2..(n + 1)
      PROVE  more[i][1] = more[i - 1][2] /\ more[i][2] \in Onward(more[i][1])
  <2>1. CASE i = n + 1
    <3>1. more[i] = event /\ i - 1 = n /\ n \in 1..n
      BY <1>2, <1>4, <2>1
    <3>2. more[i - 1] = log[n]
      BY <1>4, <3>1
    <3>3. QED
      BY <1>1, <1>5, <3>1, <3>2
  <2>2. CASE i # n + 1
    <3>1. i \in 2..n /\ i \in 1..n /\ i - 1 \in 1..n
      BY <1>2, <1>7, <2>2
    <3>2. more[i] = log[i] /\ more[i - 1] = log[i - 1]
      BY <1>4, <3>1
    <3>3. QED
      BY <1>5, <3>1, <3>2
  <2>3. QED
    BY <2>1, <2>2
<1>8. IsPath(more)
  BY <1>4, <1>6, <1>7 DEF IsPath
<1>9. QED
  BY <1>6, <1>8 DEF more, event

\* The transaction of a move: its listing gets the state and the event, and if
\* nobody came between, the event follows the last one.
LEMMA CommitTransitionKeeps ==
  ASSUME IInv, NEW w \in Writer, CommitTransition(w)
  PROVE  IInv'
<1>. DEFINE m == call[w]
            l == m.listing
            event == <<m.from, m.to>>
<1>1. m \in [kind : {"move"}, listing : Listing, from : ListingState, to : ListingState, left : SUBSET Listing]
  BY DEF IInv, Types, CallOf, CommitTransition
<1>2. l \in Listing /\ Moving(w, l) /\ Present(l)
  BY <1>1 DEF IInv, MovesFit, Moving
<1>3. canonical[l] \in Row
  BY <1>2, PresentIsRow DEF IInv
<1>4. /\ canonical' = [canonical EXCEPT ![l].state = m.to]
      /\ lifecycle' = [lifecycle EXCEPT ![l] = Append(@, event)]
      /\ call' = [call EXCEPT ![w] = Rest(m.left)]
      /\ UNCHANGED <<sources, trust, clock, overlapped>>
  BY DEF CommitTransition
<1>5. /\ canonical'[l] = [canonical[l] EXCEPT !.state = m.to]
      /\ \A k \in Listing \ {l} : canonical'[k] = canonical[k] /\ lifecycle'[k] = lifecycle[k]
      /\ lifecycle'[l] = Append(lifecycle[l], event)
  BY <1>2, <1>4 DEF IInv, Types
<1>6. canonical'[l] \in Row /\ canonical'[l].state = m.to /\ canonical'[l].active = canonical[l].active
  BY <1>1, <1>3, <1>5 DEF Row
<1>7. lifecycle[l] \in Seq(LoggedMove) /\ event \in LoggedMove
  BY <1>1, <1>2 DEF IInv, Types, LoggedMove
<1>8. Rest(m.left) \in CallOf /\ Rest(m.left).kind # "move"
  BY <1>1 DEF Rest, CallOf
<1>9. Types'
  <2>1. canonical' \in [Listing -> {Absent} \cup Row]
    BY <1>2, <1>4, <1>5, <1>6 DEF IInv, Types
  <2>2. lifecycle' \in [Listing -> Seq(LoggedMove)]
    BY <1>4, <1>7, AppendProperties DEF IInv, Types
  <2>3. call' \in [Writer -> CallOf]
    BY <1>4, <1>8 DEF IInv, Types
  <2>4. QED
    BY <1>4, <2>1, <2>2, <2>3 DEF IInv, Types
<1>10. \A k \in Listing : Present(k)' <=> Present(k)
  BY <1>2, <1>5, <1>6, StatesAreNotAbsent DEF Present, Row
<1>11. \A k \in Listing : Present(k) => canonical'[k].active = canonical[k].active
  BY <1>5, <1>6
<1>12. ActiveIsFreshest'
  BY <1>4, <1>10, <1>11 DEF IInv, ActiveIsFreshest, SourcesOf
<1>13. \A v \in Writer, k \in Listing : Moving(v, k)' => v # w /\ Moving(v, k) /\ call'[v] = call[v]
  BY <1>4, <1>8 DEF IInv, Types, Moving
<1>14. MovesFit'
  <2>1. SUFFICES ASSUME NEW v \in Writer, NEW k \in Listing, Moving(v, k)'
        PROVE  /\ Present(k)'
               /\ k \notin overlapped =>
                    /\ call'[v].from = canonical'[k].state
                    /\ call'[v].to \in Onward(call'[v].from)
                    /\ \A u \in Writer \ {v} : ~Moving(u, k)'
    BY <1>4 DEF MovesFit
  <2>2. v # w /\ Moving(v, k) /\ call'[v] = call[v]
    BY <1>13, <2>1
  <2>3. k \notin overlapped => k # l
    BY <1>2, <2>2 DEF IInv, MovesFit
  <2>4. k \notin overlapped => canonical'[k] = canonical[k]
    BY <1>5, <2>3
  <2>5. k \notin overlapped => \A u \in Writer \ {v} : ~Moving(u, k)'
    BY <1>13, <2>2 DEF IInv, MovesFit
  <2>6. QED
    BY <1>10, <2>2, <2>4, <2>5 DEF IInv, MovesFit
<1>15. LifecycleIsAPath'
  <2>1. SUFFICES ASSUME NEW k \in Listing, Present(k), k \notin overlapped
        PROVE  /\ lifecycle'[k] # <<>> /\ lifecycle'[k][1][1] = "NONE"
               /\ lifecycle'[k][Len(lifecycle'[k])][2] = canonical'[k].state
               /\ \A i \in 2..Len(lifecycle'[k]) :
                    /\ lifecycle'[k][i][1] = lifecycle'[k][i - 1][2]
                    /\ lifecycle'[k][i][2] \in Onward(lifecycle'[k][i][1])
    BY <1>4, <1>10 DEF LifecycleIsAPath
  <2>2. CASE k # l
    BY <1>5, <2>1, <2>2 DEF IInv, LifecycleIsAPath
  <2>3. CASE k = l
    <3>1. m.from = canonical[l].state /\ m.to \in Onward(m.from)
      BY <1>2, <2>1, <2>3 DEF IInv, MovesFit
    <3>2. IsPath(lifecycle[l]) /\ lifecycle[l][Len(lifecycle[l])][2] = m.from
      BY <2>1, <2>3, <3>1 DEF IInv, LifecycleIsAPath, IsPath
    <3>3. /\ IsPath(Append(lifecycle[l], event))
          /\ Append(lifecycle[l], event)[Len(Append(lifecycle[l], event))][2] = m.to
      BY <1>7, <3>1, <3>2, PathExtends
    <3>4. QED
      BY <1>5, <1>6, <2>3, <3>3 DEF IsPath
  <2>4. QED
    BY <2>2, <2>3
<1>16. QED
  BY <1>9, <1>12, <1>14, <1>15 DEF IInv

-----------------------------------------------------------------------------
\* Trust and time concern neither rows nor moves.
LEMMA AsideKeeps ==
  ASSUME IInv, Endorse \/ Tick
  PROVE  IInv'
<1>1. UNCHANGED <<sources, canonical, lifecycle, call, overlapped>>
  BY DEF Endorse, RecordTrust, Tick, records
<1>2. trust' \in [Publisher -> TrustScore \cup {0}] /\ clock' \in 0..MaxTime
  <2>1. CASE Endorse
    BY <2>1 DEF IInv, Types, Endorse, RecordTrust
  <2>2. CASE Tick
    BY <2>2, InventoryAssumption DEF IInv, Types, Tick, records
  <2>3. QED
    BY <2>1, <2>2
<1>3. Types'
  BY <1>1, <1>2 DEF IInv, Types
<1>4. MovesFit'
  BY <1>1 DEF IInv, MovesFit, Moving, Present
<1>5. QED
  BY <1>1, <1>3, <1>4, RowsRemain DEF IInv

LEMMA NextKeeps ==
  ASSUME IInv, [InventoryNext]_inventory
  PROVE  IInv'
<1>1. CASE UNCHANGED inventory
  BY <1>1, RowsRemain DEF IInv, inventory, Types, MovesFit, Moving, Present
<1>2. QED
  BY <1>1, AddSourceKeeps, AsideKeeps, BeginTransitionKeeps, CommitTransitionKeeps,
     BeginSweepKeeps, SweepOneKeeps DEF InventoryNext, Move

LEMMA TypesSuffice == IInv => InventoryTypeOK
<1> SUFFICES ASSUME IInv PROVE InventoryTypeOK
  OBVIOUS
<1>1. \A l \in Listing : \A i \in DOMAIN lifecycle[l] : lifecycle[l][i] \in LoggedMove
  BY LenProperties, ElementOfSeq DEF IInv, Types
<1>2. QED
  BY <1>1 DEF IInv, Types, InventoryTypeOK, Row, Admissible, LoggedMove

\* The inventory's rows are well typed and no scraped candidate is among its
\* sources (inventory.py, add_source; integrity.py, ensure_ingestion_is_authorized).
THEOREM TypeCorrect == InventorySpec => []InventoryTypeOK
BY InitIInv, NextKeeps, TypesSuffice, PTL DEF InventorySpec

\* A listing shows the latest verified of all its sources, in whatever order any
\* number of them arrived and whatever its writers did meanwhile (add_source).
THEOREM FreshestIsShown == InventorySpec => []ActiveIsFreshest
<1>1. IInv => ActiveIsFreshest
  BY DEF IInv
<1>2. QED
  BY InitIInv, NextKeeps, <1>1, PTL DEF InventorySpec

\* The events of a listing that no two writers moved at a time are a legal path to
\* the state on its row, for any number of writers and sweeps (transition,
\* expire_stale).
THEOREM EventsAreAPath == InventorySpec => []LifecycleIsAPath
<1>1. IInv => LifecycleIsAPath
  BY DEF IInv
<1>2. QED
  BY InitIInv, NextKeeps, <1>1, PTL DEF InventorySpec
=============================================================================
