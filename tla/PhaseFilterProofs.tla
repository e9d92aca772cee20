--------------------------- MODULE PhaseFilterProofs ---------------------------
(***************************************************************************)
(* Theorems about PhaseFilter, for every project: the memoised walk is the *)
(* one the phase now chosen gives, the rooms written are of one phase, what*)
(* the phase left out is reported, and an element's life goes on from phase*)
(* to phase.                                                               *)
(*                                                                         *)
(* The argument: the filter of a handle is determined by the phase it is   *)
(* at, whether it was named, and the project, however often phases were    *)
(* named and cleared; what it writes is determined by its effect.          *)
(***************************************************************************)
EXTENDS PhaseFilter, WellFoundedInduction, TLAPS

ProjectOK ==
  /\ order \in Orders /\ dates \in [Elements -> Dates]
  /\ copies \in [Rooms -> Copies]
  /\ placed \subseteq Ids /\ scans \in BOOLEAN

\* The filter is the one of its phase, whatever was chosen before.
FilterInv ==
  /\ filter.export \in Phases \cup {None} /\ filter.named \in BOOLEAN
  /\ filter = FilterFor(filter.export, filter.named, RoomFallback)
  /\ IF filter.named THEN In(filter.export) ELSE filter.export = Last

\* A report is of the walk it came with.
ReportInv == report # None => walk = Written(filter) /\ report = LeftOut(filter)

IInv == ProjectOK /\ FilterInv /\ MemoIsCurrent /\ ReportInv

--------------------------------------------------------------------------------
\* A project's phases are in its order once.
LEMMA OrderOK ==
  ASSUME ProjectOK
  PROVE  /\ order \in Seq(Phases) /\ Len(order) \in Nat
         /\ DOMAIN order = 1..Len(order)
         /\ \A k, n \in DOMAIN order : order[k] = order[n] => k = n
         /\ \A n \in DOMAIN order : order[n] \in Phases /\ order[n] # None
BY OrdersAssumption DEF ProjectOK

\* The place of a phase in the order.
LEMMA PosOf ==
  ASSUME ProjectOK, NEW n \in DOMAIN order
  PROVE  In(order[n]) /\ Pos(order[n]) = n
<1> DEFINE place(m) == order[m] = order[n] /\ \A k \in 1..(m-1) : order[k] # order[n]
<1>1. place(n)
  BY OrderOK
<1>2. \A m \in DOMAIN order : place(m) => m = n
  BY OrderOK
<1>3. Pos(order[n]) = CHOOSE m \in DOMAIN order : place(m)
  BY DEF Pos
<1> QED
  BY <1>1, <1>2, <1>3 DEF In

\* A phase of the project is at its place.
LEMMA AtPos ==
  ASSUME ProjectOK, NEW p, In(p)
  PROVE  /\ Pos(p) \in DOMAIN order /\ order[Pos(p)] = p
         /\ p \in Phases /\ p # None /\ Pos(p) \in Nat
<1>1. PICK n \in DOMAIN order : order[n] = p
  BY DEF In
<1>2. Pos(p) = n
  BY <1>1, PosOf
<1> QED
  BY <1>1, <1>2, OrderOK

\* The last phase is none exactly where there is no phase.
LEMMA LastOK ==
  ASSUME ProjectOK
  PROVE  /\ Last \in Phases \cup {None}
         /\ Last = None <=> order = <<>>
         /\ Last # None => In(Last) /\ Len(order) \in DOMAIN order
                             /\ Last = order[Len(order)]
         /\ \A p : In(p) => Last # None
<1>1. CASE order = <<>>
  BY <1>1 DEF Last, In
<1>2. CASE order # <<>>
  <2>1. Len(order) \in DOMAIN order
    BY <1>2, OrderOK
  <2> QED
    BY <1>2, <2>1, OrderOK DEF Last, In
<1> QED
  BY <1>1, <1>2

\* A nonempty set of places has a last one.
LEMMA LatestPlace ==
  ASSUME NEW m \in Nat, NEW S \in SUBSET (1..m), S # {}
  PROVE  \E n \in S : \A k \in S : k <= n
<1> DEFINE T == {m - n : n \in S}
<1>1. \A n \in S : n \in Nat /\ m - n \in Nat
  OBVIOUS
<1>2. T \subseteq Nat /\ T # {}
  BY <1>1
<1>3. PICK t \in T : \A y \in T : <<y, t>> \notin OpToRel(<, Nat)
  BY <1>2, NatLessThanWellFounded, WFMin
<1>4. \A y \in T : ~(y < t)
  BY <1>2, <1>3 DEF OpToRel
<1>5. PICK n \in S : t = m - n
  BY <1>3
<1>6. ASSUME NEW k \in S
      PROVE  k <= n
  <2>1. m - k \in T
    OBVIOUS
  <2> QED
    BY <1>4, <1>5, <2>1
<1> QED
  BY <1>5, <1>6

--------------------------------------------------------------------------------
\* What the project determines stays while the project does.
LEMMA SameProject ==
  ASSUME UNCHANGED project
  PROVE  /\ RoomFallback' = RoomFallback /\ Last' = Last
         /\ \A e : Exclusions(e)' = Exclusions(e)
         /\ \A f : Written(f)' = Written(f) /\ LeftOut(f)' = LeftOut(f)
         /\ \A p : In(p)' = In(p)
<1>1. Last' = Last
  BY DEF project, Last
<1>2. ASSUME NEW p
      PROVE  In(p)' = In(p) /\ Pos(p)' = Pos(p)
  BY DEF project, In, Pos
<1>3. ASSUME NEW e
      PROVE  Exclusions(e)' = Exclusions(e)
  BY <1>2 DEF project, Exclusions, Status
<1>4. RoomPhases' = RoomPhases /\ \A i : OwnPhase(i)' = OwnPhase(i)
  BY DEF project, RoomPhases, OwnPhase
<1>5. RoomFallback' = RoomFallback
  BY <1>1 DEF project, RoomFallback, Holds, RoomPhases, OwnPhase
<1>6. ASSUME NEW f
      PROVE  /\ \A i : RoomOutside(f, i)' = RoomOutside(f, i)
             /\ \A i : Excludes(f, i)' = Excludes(f, i)
  BY <1>2, <1>4 DEF RoomOutside, Excludes, RoomExportPhase
<1>7. ASSUME NEW f
      PROVE  Written(f)' = Written(f) /\ LeftOut(f)' = LeftOut(f)
  BY <1>6 DEF project, Written, LeftOut
<1> QED
  BY <1>1, <1>2, <1>3, <1>5, <1>7

\* What a filter writes is determined by its effect.
LEMMA EffectDecides ==
  ASSUME NEW f, NEW g,
         f.excluded = Exclusions(f.export), g.excluded = Exclusions(g.export),
         ~Differs(f, g)
  PROVE  Written(f) = Written(g)
<1>1. f.export = g.export /\ RoomExportPhase(f) = RoomExportPhase(g)
  BY DEF Differs, Effect
<1>2. \A i : RoomOutside(f, i) = RoomOutside(g, i)
  BY <1>1 DEF RoomOutside
<1> QED
  BY <1>1, <1>2 DEF Written, Excludes

--------------------------------------------------------------------------------
LEMMA InitIInv == Init => IInv
<1> SUFFICES ASSUME Init PROVE IInv
  OBVIOUS
<1>1. ProjectOK
  BY DEF Init, ProjectOK
<1>2. FilterInv
  BY <1>1, LastOK DEF Init, Computed, FilterFor, FilterInv
<1> QED
  BY <1>1, <1>2 DEF Init, IInv, MemoIsCurrent, ReportInv

\* A phase is named or cleared: the walk is kept where the effect is the same.
LEMMA ReplaceStep ==
  ASSUME IInv, NEW f, Replace(f),
         f.export \in Phases \cup {None}, f.named \in BOOLEAN,
         f = FilterFor(f.export, f.named, RoomFallback),
         IF f.named THEN In(f.export) ELSE f.export = Last
  PROVE  IInv'
<1> USE DEF Replace
<1>1. UNCHANGED project
  OBVIOUS
<1>2. ProjectOK'
  BY <1>1 DEF IInv, ProjectOK, project
<1>3. FilterInv'
  BY <1>1, SameProject DEF FilterInv, FilterFor
<1>4. MemoIsCurrent'
  <2>1. filter.excluded = Exclusions(filter.export) /\ f.excluded = Exclusions(f.export)
    BY DEF IInv, FilterInv, FilterFor
  <2>2. walk' # None => walk' = walk /\ walk = Written(filter) /\ ~Differs(filter, f)
    BY DEF IInv, MemoIsCurrent
  <2>3. walk' # None => walk' = Written(f)
    BY <2>1, <2>2, EffectDecides
  <2> QED
    BY <2>3, <1>1, SameProject DEF MemoIsCurrent
<1>5. ReportInv'
  BY DEF ReportInv
<1> QED
  BY <1>2, <1>3, <1>4, <1>5 DEF IInv

LEMMA ExportStep ==
  ASSUME IInv, Export
  PROVE  IInv'
<1>1. UNCHANGED project /\ filter' = filter
  BY DEF Export
<1>2. ProjectOK' /\ FilterInv'
  BY <1>1, SameProject DEF IInv, ProjectOK, FilterInv, FilterFor, project
<1>3. walk' = Written(filter) /\ report' = LeftOut(filter)
  BY DEF Export, IInv, MemoIsCurrent
<1>4. MemoIsCurrent' /\ ReportInv'
  BY <1>1, <1>3, SameProject DEF MemoIsCurrent, ReportInv
<1> QED
  BY <1>2, <1>4 DEF IInv

LEMMA NextIInv == IInv /\ [Next]_vars => IInv'
<1> SUFFICES ASSUME IInv, [Next]_vars PROVE IInv'
  OBVIOUS
<1>1. ASSUME NEW p \in Phases, SetExportPhase(p)
      PROVE  IInv'
  <2> DEFINE f == WithExportPhase(filter, p)
  <2>1. filter.fallback = RoomFallback
    BY DEF IInv, FilterInv, FilterFor
  <2>2. f = FilterFor(p, TRUE, RoomFallback) /\ In(p)
    BY <1>1, <2>1 DEF SetExportPhase, WithExportPhase
  <2>3. f.export = p /\ f.named = TRUE
    BY <2>2 DEF FilterFor
  <2>4. Replace(f)
    BY <1>1 DEF SetExportPhase
  <2> HIDE DEF f
  <2> QED
    BY <2>2, <2>3, <2>4, ReplaceStep
<1>2. ASSUME ClearExportPhase
      PROVE  IInv'
  <2> DEFINE f == WithDefaultExportPhase(filter)
  <2>1. filter.fallback = RoomFallback
    BY DEF IInv, FilterInv, FilterFor
  <2>2. f = FilterFor(Last, FALSE, RoomFallback)
    BY <2>1 DEF WithDefaultExportPhase
  <2>3. f.export = Last /\ f.named = FALSE
    BY <2>2 DEF FilterFor
  <2>4. Replace(f) /\ Last \in Phases \cup {None}
    BY <1>2, LastOK DEF ClearExportPhase, IInv
  <2> HIDE DEF f
  <2> QED
    BY <2>2, <2>3, <2>4, ReplaceStep
<1>3. ASSUME UNCHANGED vars
      PROVE  IInv'
  <2>1. UNCHANGED project /\ UNCHANGED <<filter, walk, report>>
    BY <1>3 DEF vars
  <2> QED
    BY <2>1, SameProject
    DEF IInv, ProjectOK, FilterInv, FilterFor, MemoIsCurrent, ReportInv, project
<1> QED
  BY <1>1, <1>2, <1>3, ExportStep DEF Next

--------------------------------------------------------------------------------
\* A placed room that says which phase of the project it is of.
Known(i) == i \in RoomPhases /\ i \in placed /\ In(OwnPhase(i))

\* The rooms' phase of a filter is a phase of the project, where it has one.
LEMMA RoomPhaseOK ==
  ASSUME IInv
  PROVE  /\ filter.fallback = RoomFallback
         /\ filter.excluded = Exclusions(filter.export)
         /\ order # <<>> => RoomExportPhase(filter) # None
<1>1. filter.fallback = RoomFallback /\ filter.excluded = Exclusions(filter.export)
  BY DEF IInv, FilterInv, FilterFor
<1>2. ASSUME order # <<>>
      PROVE  RoomExportPhase(filter) # None
  <2>1. filter.export # None
    BY <1>2, LastOK, AtPos DEF IInv, FilterInv
  <2> QED
    BY <2>1 DEF RoomExportPhase
<1> QED
  BY <1>1, <1>2

\* A room written that is of a phase of the project is of the rooms' phase.
LEMMA WrittenRoom ==
  ASSUME IInv, NEW i \in Written(filter), Known(i)
  PROVE  OwnPhase(i) = RoomExportPhase(filter)
<1>1. i \in Rooms /\ ~RoomOutside(filter, i)
  BY DEF Written, Excludes, Known, RoomPhases
<1>2. order # <<>>
  BY DEF Known, In
<1> QED
  BY <1>1, <1>2, RoomPhaseOK DEF RoomOutside, Known

\* The fallback is a phase of the project that holds a placed room, and there is
\* one where some phase does and the last does not.
LEMMA FallbackOK ==
  ASSUME ProjectOK
  PROVE  /\ RoomFallback # None => In(RoomFallback) /\ Holds(RoomFallback)
         /\ \A p : scans /\ In(p) /\ Holds(p) /\ ~Holds(Last) => RoomFallback # None
<1> DEFINE held == {n \in DOMAIN order : Holds(order[n])}
           best == CHOOSE n \in held : \A k \in held : k <= n
<1>1. ASSUME held # {}
      PROVE  best \in held
  <2>1. held \in SUBSET (1..Len(order)) /\ Len(order) \in Nat
    BY OrderOK
  <2> QED
    BY <1>1, <2>1, LatestPlace
<1>2. RoomFallback = IF ~scans \/ held = {} \/ Holds(Last) THEN None ELSE order[best]
  BY DEF RoomFallback
<1>3. held # {} => order[best] # None /\ In(order[best]) /\ Holds(order[best])
  BY <1>1, OrderOK, PosOf
<1>4. \A p : In(p) /\ Holds(p) => held # {}
  BY DEF In
<1> QED
  BY <1>2, <1>3, <1>4

\* By default the rooms' phase is of the project and holds a placed room, if any
\* of its phases does.
LEMMA DefaultHolds ==
  ASSUME IInv, ~filter.named, scans, NEW r \in Rooms, Known(r)
  PROVE  In(RoomExportPhase(filter)) /\ Holds(RoomExportPhase(filter))
<1>1. ProjectOK /\ filter.export = Last
  BY DEF IInv, FilterInv
<1>2. In(OwnPhase(r)) /\ Holds(OwnPhase(r))
  BY DEF Known, Holds
<1>3. In(Last)
  BY <1>1, <1>2, LastOK
<1>4. CASE RoomFallback # None
  BY <1>1, <1>4, FallbackOK, RoomPhaseOK DEF RoomExportPhase
<1>5. CASE RoomFallback = None
  <2>1. Holds(Last)
    BY <1>1, <1>2, <1>5, FallbackOK
  <2> QED
    BY <1>1, <1>3, <1>5, <2>1, RoomPhaseOK DEF RoomExportPhase
<1> QED
  BY <1>4, <1>5

LEMMA RoomsAreOfOnePhase == IInv => RoomsOfOnePhase
<1> SUFFICES ASSUME IInv PROVE RoomsOfOnePhase
  OBVIOUS
<1> DEFINE written == {i \in Written(filter) : Known(i)}
<1>1. ASSUME NEW i \in written, NEW k \in written
      PROVE  OwnPhase(i) = OwnPhase(k)
  BY WrittenRoom
<1>2. ASSUME ~filter.named, scans, NEW r \in Rooms, Known(r)
      PROVE  written # {}
  <2>1. PICK i \in RoomPhases : i \in placed /\ OwnPhase(i) = RoomExportPhase(filter)
    BY <1>2, DefaultHolds DEF Holds
  <2>2. i \in Written(filter)
    BY <2>1 DEF Written, Excludes, RoomOutside, RoomPhases
  <2> QED
    BY <1>2, <2>1, <2>2, DefaultHolds DEF Known
<1> QED
  BY <1>1, <1>2 DEF RoomsOfOnePhase, Known

LEMMA WellTyped == IInv => TypeOK
<1> SUFFICES ASSUME IInv PROVE TypeOK
  OBVIOUS
<1>1. RoomFallback \in Phases \cup {None}
  BY FallbackOK, AtPos DEF IInv
<1>2. \A f : Written(f) \in SUBSET Ids /\ LeftOut(f) \in SUBSET Ids
  BY DEF IInv, ProjectOK, Written, LeftOut
<1>3. filter \in [export : Phases \cup {None}, named : BOOLEAN,
                  excluded : SUBSET Elements, fallback : Phases \cup {None}]
  <2>1. Exclusions(filter.export) \in SUBSET Elements
    BY DEF Exclusions
  <2> QED
    BY <1>1, <2>1 DEF IInv, FilterInv, FilterFor
<1>4. walk \in (SUBSET Ids) \cup {None} /\ report \in (SUBSET Ids) \cup {None}
  BY <1>2 DEF IInv, MemoIsCurrent, ReportInv
<1> QED
  BY <1>3, <1>4 DEF TypeOK, IInv, ProjectOK

LEMMA ReportsAreWhole == IInv => NoneLostUnsaid
<1> SUFFICES ASSUME IInv, scans, report # None PROVE report = placed \ walk
  BY DEF NoneLostUnsaid
<1>1. walk = Written(filter) /\ report = LeftOut(filter)
  BY DEF IInv, ReportInv
<1>2. CASE filter.excluded = {} /\ ~\E i \in Rooms : RoomOutside(filter, i)
  <2>1. \A i : ~Excludes(filter, i)
    BY <1>2 DEF Excludes
  <2> QED
    BY <1>1, <1>2, <2>1 DEF LeftOut, Written
<1>3. CASE ~(filter.excluded = {} /\ ~\E i \in Rooms : RoomOutside(filter, i))
  BY <1>1, <1>3 DEF LeftOut, Written
<1> QED
  BY <1>2, <1>3

LEMMA LivesGoOn == ProjectOK => LifeGoesOn
<1> SUFFICES ASSUME ProjectOK, NEW i \in Elements
             PROVE  \A k, n \in DOMAIN order :
               /\ k <= n => Rank[Status(i, order[k])] <= Rank[Status(i, order[n])]
               /\ dates[i].created = dates[i].demolished /\ In(dates[i].created) =>
                    Status(i, order[n]) # "kept"
  BY DEF LifeGoesOn
<1> DEFINE c == dates[i].created
           d == dates[i].demolished
<1>1. \A n \in DOMAIN order : /\ Pos(order[n]) = n /\ order[n] # None
                              /\ n \in Nat
  BY PosOf, OrderOK
<1>2. In(c) => Pos(c) \in Nat /\ c # None
  BY AtPos
<1>3. In(d) => Pos(d) \in Nat
  BY AtPos
<1>4. \A n \in DOMAIN order :
        Status(i, order[n]) =
          IF ~In(c) THEN "kept"
          ELSE IF Pos(c) > n THEN "future"
          ELSE IF d = None \/ ~In(d) THEN "kept"
          ELSE IF Pos(d) <= n THEN "demolished" ELSE "kept"
  BY <1>1 DEF Status
<1>5. Rank["future"] = 1 /\ Rank["kept"] = 2 /\ Rank["demolished"] = 3
  BY DEF Rank
<1> HIDE DEF c, d
<1>6. ASSUME NEW k \in DOMAIN order, NEW n \in DOMAIN order, k <= n
      PROVE  Rank[Status(i, order[k])] <= Rank[Status(i, order[n])]
  <2>1. k \in Nat /\ n \in Nat
    BY <1>1
  <2>2. CASE ~In(c)
    BY <1>4, <1>5, <2>2
  <2>3. CASE In(c) /\ ~In(d)
    BY <1>2, <1>4, <1>5, <1>6, <2>1, <2>3
  <2>4. CASE In(c) /\ In(d)
    BY <1>2, <1>3, <1>4, <1>5, <1>6, <2>1, <2>4
  <2> QED
    BY <2>2, <2>3, <2>4
<1>7. ASSUME NEW n \in DOMAIN order, c = d, In(c)
      PROVE  Status(i, order[n]) # "kept"
  BY <1>1, <1>2, <1>4, <1>7
<1> QED
  BY <1>6, <1>7 DEF c, d

--------------------------------------------------------------------------------
\* The filter is the one of its phase, and the memoised walk and the report are
\* the filter's, in every reachable state.
THEOREM Invariance == Spec => []IInv
BY InitIInv, NextIInv, PTL DEF Spec

\* The variables keep their types.
THEOREM TypeCorrect == Spec => []TypeOK
BY Invariance, WellTyped, PTL

\* A memoised walk wrote what a walk at the phase now chosen would.
THEOREM MemoIsAlwaysCurrent == Spec => []MemoIsCurrent
<1>1. IInv => MemoIsCurrent
  BY DEF IInv
<1> QED
  BY <1>1, Invariance, PTL

\* The rooms written that are of a phase of the project are of one phase, and by
\* default none of that phase is missed.
THEOREM RoomsAlwaysOfOnePhase == Spec => []RoomsOfOnePhase
BY Invariance, RoomsAreOfOnePhase, PTL

\* An export that reports what was left out reports all of it, and nothing else.
THEOREM NoneEverLostUnsaid == Spec => []NoneLostUnsaid
BY Invariance, ReportsAreWhole, PTL

\* From phase to phase an element goes from not built to built to demolished.
THEOREM LifeAlwaysGoesOn == Spec => []LifeGoesOn
<1>1. IInv => LifeGoesOn
  BY LivesGoOn DEF IInv
<1> QED
  BY <1>1, Invariance, PTL
================================================================================
