------------------------- MODULE SavedParametersProofs -------------------------
(***************************************************************************)
(* Theorems about SavedParameters, for any number of loads, entities and   *)
(* readers and any size of the cache, where no load begins while another   *)
(* awaits its bytes: it keeps the load flow of ViewerLoad, it reads for one*)
(* element at a time, a group that loads has a read behind it, what is     *)
(* shown and kept is of the element and the file on the screen, none is    *)
(* read unasked after one ran out of memory, no group that loads has been  *)
(* forgotten, and a read has all it needs when it begins.                  *)
(*                                                                         *)
(* The argument: what is read, shown or kept is of the file that is open,  *)
(* because a load ends all three; and a group is filled by the reader the  *)
(* page holds alone, which is the target's.  That a panel is only shown    *)
(* with its model is the load flow's invariant, from ViewerLoadProofs.     *)
(***************************************************************************)
EXTENDS SavedParameters, SequenceTheorems, TLAPS

V == INSTANCE ViewerLoadProofs

\* A read is of the file that is open.
ReadsInv ==
  /\ ReadTypes /\ OneRead
  /\ target # None => file # None
  /\ reader # None => reads[reader].file = file

\* A group is shown with a model, and is of the read or of what was read.
BoxInv ==
  box # None =>
    /\ model # None
    /\ box.state = "loading" => target = box.id
    /\ box.state = "ready" => box.reading = Reading(box.id, file)

\* What is kept is of the file.
KeptInv ==
  /\ KeptTypes /\ AsksAfterRunningOut
  /\ \A e \in Entries(cache) : e.file = file

PanelInv == PanelTypes /\ BoxInv
IInv == V!IInv /\ PanelInv /\ ReadsInv /\ KeptInv /\ events \subseteq Events

--------------------------------------------------------------------------------
\* The load flow is ViewerLoad's, and its invariant says this of the panel.
LEMMA SameInit == L!Init => V!Init
BY Zenon DEF V!Init, L!Init, V!Loads, L!Loads

LEMMA SameTypes == V!TypeOK => L!TypeOK
BY Zenon DEF V!TypeOK, L!TypeOK, L!Loads, V!Loads, L!Stages, V!Stages,
  L!Notices, V!Notices, L!Infos, V!Infos

LEMMA SameNext == L!Next => V!Next
BY Zenon DEF L!Next, V!Next, L!Loads, V!Loads, L!Begins, V!Begins,
  L!Fetch, V!Fetch, L!FetchFails, V!FetchFails, L!Reads, V!Reads,
  L!Decodes, V!Decodes, L!Describe, V!Describe, L!Die, V!Die, L!Takes, V!Takes,
  L!ErrorFires, V!ErrorFires, L!Ask, V!Ask, L!Pick, V!Pick, L!Reopen, V!Reopen,
  L!Fetched, V!Fetched, L!Begin, V!Begin, L!Goto, V!Goto, L!Upcoming, V!Upcoming,
  L!Waiting, V!Waiting, L!EndIn, V!EndIn, L!Hold, V!Hold, L!StopWorker,
  V!StopWorker, L!FailLoad, V!FailLoad, L!BytesArrive, V!BytesArrive,
  L!BytesFail, V!BytesFail, L!Post, V!Post, L!Notice, V!Notice, L!Stage, V!Stage,
  L!Page, V!Page, L!choice, V!choice, L!decoders, V!decoders,
  L!Initialise, V!Initialise, L!Parse, V!Parse, L!Fail, V!Fail,
  L!Taken, V!Taken, L!Drop, V!Drop, L!TakeWasm, V!TakeWasm,
  L!TakeReady, V!TakeReady, L!TakeError, V!TakeError, L!TakeInfo, V!TakeInfo

\* Every step is one of the load flow's, or leaves it alone.
LEMMA LoadStep == [Next]_vars => [L!Next]_load
<1>1. \A l \in L!Loads : Open(l) \/ Show(l) \/ Aside(l) \/ TakePanel(l) => L!Next
  BY DEF Open, Show, Aside, TakePanel, L!Next, L!Takes
<1>2. \A i \in Indices : Select(i) => L!Next
  BY DEF Select, L!Next
<1>3. Export \/ Container \/ Escape \/ Press \/ TimerFires => UNCHANGED load
  BY DEF Export, Container, Escape, Press, TimerFires
<1>4. \A r \in Runs : TakeMessage(r) \/ StartupTimeout(r) \/ Start(r) \/ Answer(r)
                      \/ Vanish(r) \/ GrantLock(r) => UNCHANGED load
  BY DEF TakeMessage, StartupTimeout, Start, Answer, Vanish, GrantLock, Still, Unmoved
<1>5. \A e \in events : EventFires(e) => UNCHANGED load
  BY DEF EventFires, Still
<1> QED
  BY <1>1, <1>2, <1>3, <1>4, <1>5 DEF Next, vars

LEMMA LoadInv ==
  ASSUME ~Overlapping, V!IInv, [Next]_vars
  PROVE  V!IInv'
<1>1. V!LoadsAssumption /\ V!FlagsAssumption
  BY LoadAssumption DEF L!LoadsAssumption, L!FlagsAssumption, V!LoadsAssumption,
                        V!FlagsAssumption, L!Loads, V!Loads
<1>2. [V!Next]_(V!vars)
  BY LoadStep, SameNext DEF load, V!vars
<1> QED
  BY <1>1, <1>2, V!NextIInv

LEMMA Shown ==
  ASSUME V!IInv
  PROVE  /\ L!TypeOK /\ None \notin L!Loads
         /\ {file, model} \subseteq L!Loads \cup {None}
         /\ model # None => file # None /\ fileOf[model] = file
         /\ \A l \in L!Loads : L!Taken(l, "info") =>
              /\ Head(outbox[l]).index \in Indices /\ file # None
              /\ Head(outbox[l]).panel => model # None
<1>1. V!LoadsAssumption /\ V!FlagsAssumption /\ None \notin L!Loads
  BY LoadAssumption DEF L!LoadsAssumption, L!FlagsAssumption, V!LoadsAssumption,
                        V!FlagsAssumption, L!Loads, V!Loads
<1>2. L!TypeOK
  BY SameTypes DEF V!IInv
<1>3. model # None => file # None /\ fileOf[model] = file
  BY DEF V!IInv, V!ShownInv
<1>4. ASSUME NEW l \in L!Loads, L!Taken(l, "info")
      PROVE  /\ Head(outbox[l]).index \in Indices /\ file # None
             /\ Head(outbox[l]).panel => model # None
  <2>1. l \in V!Loads /\ V!Taken(l, "info") /\ outbox[l] # <<>>
    BY <1>4 DEF L!Taken, V!Taken, L!Loads, V!Loads
  <2>2. Head(outbox[l]).panel => model = l
    BY <1>1, <2>1, V!TakenInTurn
  <2>3. cur = l
    BY <1>1, <2>1, V!TakenOf
  <2>4. file # None
    BY <1>1, <2>3, <1>4 DEF V!IInv, V!ShownInv
  <2>5. Head(outbox[l]) \in L!Notices \cup L!Infos
    BY <1>2, <1>4, <2>1 DEF L!TypeOK
  <2>6. Head(outbox[l]).index \in Indices
    BY <1>4, <2>5 DEF L!Taken, L!Notices, L!Infos
  <2> QED
    BY <1>1, <1>4, <2>1, <2>2, <2>3, <2>4, <2>6
<1> QED
  BY <1>1, <1>2, <1>3, <1>4 DEF L!TypeOK

--------------------------------------------------------------------------------
\* The cache: what is put there is there, or what was.
LEMMA WithoutOf ==
  ASSUME NEW c \in Seq(Readings), NEW id
  PROVE  /\ Without(c, id) \in Seq(Readings) /\ Len(Without(c, id)) <= Len(c)
         /\ Entries(Without(c, id)) \subseteq Entries(c)
<1> DEFINE at == {n \in 1..Len(c) : c[n].id = id}
           n == CHOOSE m \in at : TRUE
           a == SubSeq(c, 1, n - 1)
           b == SubSeq(c, n + 1, Len(c))
<1>1. CASE at = {}
  <2>1. Without(c, id) = c
    BY <1>1 DEF Without
  <2> QED
    BY <2>1
<1>2. CASE at # {}
  <2>1. n \in 1..Len(c) /\ Len(c) \in Nat
    BY <1>2
  <2>2. Without(c, id) = a \o b
    BY <1>2 DEF Without
  <2> HIDE DEF n
  <2>3. /\ a \in Seq(Readings) /\ Len(a) = n - 1
        /\ \A m \in 1..Len(a) : a[m] = c[m]
    BY <2>1
  <2>4. /\ b \in Seq(Readings) /\ Len(b) = Len(c) - n
        /\ \A m \in 1..Len(b) : b[m] = c[n + m]
    BY <2>1
  <2> HIDE DEF a, b
  <2>5. /\ a \o b \in Seq(Readings) /\ Len(a \o b) = Len(c) - 1
        /\ \A m \in 1..Len(a \o b) :
             (a \o b)[m] = IF m <= Len(a) THEN a[m] ELSE b[m - Len(a)]
    <3>1. /\ a \o b \in Seq(Readings) /\ Len(a \o b) = Len(a) + Len(b)
          /\ \A m \in 1..(Len(a) + Len(b)) :
               (a \o b)[m] = IF m <= Len(a) THEN a[m] ELSE b[m - Len(a)]
      BY <2>3, <2>4, ConcatProperties
    <3>2. Len(a) + Len(b) = Len(c) - 1
      BY <2>1, <2>3, <2>4
    <3> QED
      BY <3>1, <3>2
  <2>6. ASSUME NEW m \in 1..Len(a \o b)
        PROVE  \E k \in 1..Len(c) : (a \o b)[m] = c[k]
    <3>1. CASE m <= Len(a)
      BY <3>1, <2>1, <2>3, <2>5
    <3>2. CASE ~(m <= Len(a))
      <4>1. m - Len(a) \in 1..Len(b) /\ n + (m - Len(a)) \in 1..Len(c)
        BY <3>2, <2>1, <2>3, <2>4, <2>5
      <4> QED
        BY <3>2, <4>1, <2>4, <2>5
    <3> QED
      BY <3>1, <3>2
  <2> DEFINE w == a \o b
  <2>7. w \in Seq(Readings) /\ Len(w) <= Len(c)
    BY <2>1, <2>5
  <2>8. \A m \in 1..Len(w) : \E k \in 1..Len(c) : w[m] = c[k]
    BY <2>6
  <2> HIDE DEF w
  <2>9. Entries(w) \subseteq Entries(c)
    BY <2>8 DEF Entries
  <2> QED
    BY <2>2, <2>7, <2>9 DEF w
<1> QED
  BY <1>1, <1>2

LEMMA PutOf ==
  ASSUME NEW c \in Seq(Readings), Len(c) <= Remembered, NEW e \in Readings
  PROVE  /\ Put(c, e) \in Seq(Readings) /\ Len(Put(c, e)) <= Remembered
         /\ Entries(Put(c, e)) \subseteq Entries(c) \cup {e}
<1> DEFINE w == Without(c, e.id)
           all == Append(w, e)
<1>1. /\ w \in Seq(Readings) /\ Len(w) <= Len(c) /\ Entries(w) \subseteq Entries(c)
      /\ Remembered \in Nat \ {0}
  BY WithoutOf, ReadsAssumption
<1> HIDE DEF w
<1>2. /\ all \in Seq(Readings) /\ Len(all) = Len(w) + 1
      /\ \A n \in 1..Len(w) : all[n] = w[n]
      /\ all[Len(w) + 1] = e
  BY <1>1
<1>3. Len(w) \in Nat /\ Len(c) \in Nat
  BY <1>1
<1> HIDE DEF all
<1>4. Entries(all) \subseteq Entries(c) \cup {e}
  <2> SUFFICES ASSUME NEW n \in 1..Len(all) PROVE all[n] \in Entries(c) \cup {e}
    BY DEF Entries
  <2>1. CASE n \in 1..Len(w)
    BY <2>1, <1>1, <1>2 DEF Entries
  <2>2. CASE n = Len(w) + 1
    BY <2>2, <1>2
  <2> QED
    BY <2>1, <2>2, <1>2, <1>3
<1>5. Put(c, e) = IF Len(all) > Remembered THEN Tail(all) ELSE all
  BY DEF Put, all, w
<1>6. CASE Len(all) > Remembered
  <2>1. all # <<>>
    BY <1>2, <1>3
  <2>2. /\ Tail(all) \in Seq(Readings) /\ Len(Tail(all)) = Len(all) - 1
        /\ \A n \in 1..Len(Tail(all)) : Tail(all)[n] = all[n + 1] /\ n + 1 \in 1..Len(all)
    BY <1>2, <2>1
  <2>3. Entries(Tail(all)) \subseteq Entries(all)
    BY <2>2 DEF Entries
  <2> QED
    BY <1>1, <1>2, <1>3, <1>4, <1>5, <1>6, <2>2, <2>3
<1>7. CASE ~(Len(all) > Remembered)
  BY <1>1, <1>2, <1>3, <1>4, <1>5, <1>7
<1> QED
  BY <1>6, <1>7

\* Turning from a read to nothing, to a delay or to a reader keeps them in hand.
LEMMA EndedOf ==
  ASSUME ReadTypes, OneRead
  PROVE  /\ Ended \in [Runs -> [id : Ids \cup {None}, file : L!Loads \cup {None},
                         state : {"none", "new", "started", "done", "gone", "ended"},
                         out : Seq({"started", "result", "error", "oom"})]]
         /\ \A r \in Runs : Ended[r].state \in {"none", "gone", "ended"}
<1>1. CASE reader = None
  <2>1. Ended = reads /\ None \notin Runs
    BY <1>1, ReadsAssumption DEF Ended
  <2> QED
    BY <1>1, <2>1 DEF ReadTypes, OneRead
<1>2. CASE reader # None
  <2>1. reader \in Runs
    BY <1>2 DEF ReadTypes
  <2>2. [Unread EXCEPT !.state = "ended"]
        = [id |-> None, file |-> None, state |-> "ended", out |-> <<>>]
    BY DEF Unread
  <2>3. Ended = [reads EXCEPT ![reader] =
                   [id |-> None, file |-> None, state |-> "ended", out |-> <<>>]]
    BY <1>2, <2>2 DEF Ended
  <2> QED
    BY <1>2, <2>1, <2>3 DEF ReadTypes, OneRead
<1> QED
  BY <1>1, <1>2

LEMMA StopStep ==
  ASSUME ReadTypes, OneRead, StopParametersRead
  PROVE  ReadsInv' /\ target' = None /\ timer' = None
BY EndedOf DEF StopParametersRead, ReadTypes, OneRead, ReadsInv

LEMMA DelayStep ==
  ASSUME ReadTypes, OneRead, NEW id \in Ids, Delay(id), file' # None
  PROVE  ReadsInv' /\ target' = id
BY EndedOf DEF Delay, ReadTypes, OneRead, ReadsInv, Ids

LEMMA ReadStep ==
  ASSUME ReadTypes, OneRead, NEW id \in Ids, ReadSavedParameters(id),
         file \in L!Loads, file # None, UNCHANGED file
  PROVE  ReadsInv' /\ target' = id /\ timer' = None
<1>1. PICK r \in Free : 
        /\ target' = id /\ timer' = None
        /\ startup' = r /\ watch' = None /\ reader' = r
        /\ reads' = [Ended EXCEPT ![r] = [id |-> id, file |-> file, state |-> "new",
                                          out |-> <<>>]]
  BY DEF ReadSavedParameters
<1>2. r \in Runs /\ r # None /\ id # None
  BY ReadsAssumption DEF Free, Ids
<1>3. ReadTypes'
  BY <1>1, <1>2, EndedOf DEF ReadTypes
<1>4. OneRead' /\ reads'[r].file = file
  BY <1>1, <1>2, EndedOf DEF OneRead
<1> QED
  BY <1>1, <1>3, <1>4 DEF ReadsInv

\* A read that ends, or a callback of another: the group is filled by its own
\* read alone.
LEMMA SettleStep ==
  ASSUME PanelInv, ReadsInv, KeptInv, file \in L!Loads \cup {None},
         NEW r \in Runs, NEW outcome, Settle(r, outcome),
         UNCHANGED <<tree, row, pending, large, file, model>>
  PROVE  PanelInv' /\ ReadsInv' /\ KeptInv'
<1>1. CASE reader # r
  <2>1. UNCHANGED <<box, target, timer, reader, startup, watch, reads, cache, ranOut>>
    BY <1>1 DEF Settle, timers
  <2> QED
    BY <2>1 DEF PanelInv, PanelTypes, BoxInv, ReadsInv, ReadTypes, OneRead,
                KeptInv, KeptTypes, AsksAfterRunningOut
<1>2. CASE reader = r
  <2> DEFINE id == reads[r].id
             f == reads[r].file
             e == Reading(id, f)
  <2>1. StopParametersRead /\ FinishRead(id, f, outcome)
    BY <1>2 DEF Settle
  <2>2. ReadsInv' /\ target' = None /\ timer' = None
    BY <2>1, StopStep DEF ReadsInv
  <2>3. /\ id = target /\ id \in Ids /\ f = file /\ f \in L!Loads
    BY <1>2, ReadsAssumption DEF ReadsInv, ReadTypes, OneRead
  <2>4. e \in Readings
    BY <2>3 DEF Reading, Readings
  <2> HIDE DEF id, f
  <2>5. PanelInv'
    <3>1. box = None \/ box.id # id => box' = box /\ (box # None => box.state # "loading")
      BY <2>1, <2>3 DEF FinishRead, PanelInv, BoxInv
    <3>2. box # None /\ box.id = id =>
            \/ box' = [id |-> id, state |-> "ready", reading |-> e]
            \/ box' = [id |-> id, state |-> "error", reading |-> None]
      BY <2>1 DEF FinishRead, Box
    <3>3. PanelTypes'
      BY <2>3, <2>4, <3>1, <3>2 DEF PanelInv, PanelTypes
    <3>4. BoxInv'
      BY <2>3, <3>1, <3>2 DEF PanelInv, BoxInv
    <3> QED
      BY <3>3, <3>4 DEF PanelInv
  <2>6. KeptInv'
    <3>1. cache' \in {cache, Put(cache, e)} /\ ranOut' \in BOOLEAN /\ large' = large
      BY <2>1 DEF FinishRead
    <3>2. /\ cache' \in Seq(Readings) /\ Len(cache') <= Remembered
          /\ Entries(cache') \subseteq Entries(cache) \cup {e}
      BY <2>4, <3>1, PutOf DEF KeptInv, KeptTypes
    <3>3. e.file = file
      BY <2>3 DEF Reading
    <3> QED
      BY <2>2, <3>1, <3>2, <3>3 DEF KeptInv, KeptTypes, AsksAfterRunningOut
  <2> QED
    BY <2>2, <2>5, <2>6
<1> QED
  BY <1>1, <1>2

\* The group of an element whose panel has come.
LEMMA GroupStep ==
  ASSUME PanelInv, ReadsInv, KeptInv, file \in L!Loads, file # None, model # None,
         NEW id \in Ids \cup {None}, Group(id),
         row' \in BOOLEAN, UNCHANGED <<tree, pending, file, model>>
  PROVE  PanelInv' /\ ReadsInv' /\ KeptInv'
<1> USE DEF ReadsInv
<1>1. CASE id = None /\ StopParametersRead /\ box' = None /\ UNCHANGED kept
  BY <1>1, StopStep DEF PanelInv, PanelTypes, BoxInv, kept, KeptInv, KeptTypes,
                        AsksAfterRunningOut
<1>2. CASE /\ Known(id) /\ StopParametersRead
           /\ cache' = Put(cache, Entry(id)) /\ box' = Box(id, "ready", Entry(id))
           /\ UNCHANGED <<large, ranOut>>
  <2>1. Entry(id) \in Entries(cache) /\ Entry(id).id = id
    BY <1>2 DEF Known, Entry
  <2>2. Entry(id) \in Readings /\ Entry(id).file = file
    BY <2>1 DEF Entries, KeptInv, KeptTypes
  <2>3. Entry(id) = Reading(id, file) /\ id \in Ids
    BY <2>1, <2>2 DEF Readings, Reading
  <2>4. /\ cache' \in Seq(Readings) /\ Len(cache') <= Remembered
        /\ \A e \in Entries(cache') : e.file = file
    BY <1>2, <2>2, PutOf DEF KeptInv, KeptTypes
  <2>5. ReadsInv' /\ timer' = None
    BY <1>2, StopStep
  <2>6. KeptInv'
    BY <1>2, <2>4, <2>5 DEF KeptInv, KeptTypes, AsksAfterRunningOut
  <2>7. box' = [id |-> id, state |-> "ready", reading |-> Entry(id)]
    BY <1>2 DEF Box
  <2>8. PanelInv'
    BY <2>2, <2>3, <2>7 DEF PanelInv, PanelTypes, BoxInv
  <2> QED
    BY <2>5, <2>6, <2>8
<1>3. CASE /\ id # None /\ target = id /\ box' = Box(id, "loading", None)
           /\ UNCHANGED <<target, timers, reads, kept>>
  <2>1. ReadsInv' /\ KeptInv'
    BY <1>3 DEF timers, kept, ReadTypes, OneRead, KeptInv, KeptTypes, AsksAfterRunningOut
  <2>2. PanelInv'
    BY <1>3 DEF Box, PanelInv, PanelTypes, BoxInv
  <2> QED
    BY <2>1, <2>2
<1>4. CASE /\ id # None /\ Automatically /\ Delay(id) /\ box' = Box(id, "loading", None)
           /\ UNCHANGED kept
  <2>1. ReadsInv' /\ target' = id
    BY <1>4, DelayStep
  <2>2. KeptInv'
    BY <1>4 DEF Automatically, kept, KeptInv, KeptTypes, AsksAfterRunningOut
  <2>3. PanelInv'
    BY <1>4, <2>1 DEF Box, PanelInv, PanelTypes, BoxInv
  <2> QED
    BY <2>1, <2>2, <2>3
<1>5. CASE /\ id # None /\ StopParametersRead /\ box' = Box(id, "on-request", None)
           /\ UNCHANGED kept
  <2>1. ReadsInv' /\ timer' = None
    BY <1>5, StopStep
  <2>2. KeptInv'
    BY <1>5, <2>1 DEF kept, KeptInv, KeptTypes, AsksAfterRunningOut
  <2>3. PanelInv'
    BY <1>5 DEF Box, PanelInv, PanelTypes, BoxInv
  <2> QED
    BY <2>1, <2>2, <2>3
<1> QED
  BY <1>1, <1>2, <1>3, <1>4, <1>5 DEF Group

--------------------------------------------------------------------------------
\* The reader's own steps: what it is of stays, and only the one held moves.
LEMMA Moved ==
  ASSUME ReadsInv, NEW r \in Runs,
         NEW s \in {"none", "new", "started", "done", "gone", "ended"},
         NEW o \in Seq({"started", "result", "error", "oom"}),
         Move(r, s, o), r = reader \/ s = reads[r].state,
         UNCHANGED <<target, timer, reader, file>>,
         {startup', watch'} \subseteq Runs \cup {None}
  PROVE  ReadsInv'
<1>1. reads[r].id \in Ids \cup {None} /\ reads[r].file \in L!Loads \cup {None}
  BY DEF ReadsInv, ReadTypes
<1>2. ReadTypes'
  BY <1>1 DEF ReadsInv, ReadTypes, Move
<1>3. \A q \in Runs : reads'[q].id = reads[q].id /\ reads'[q].file = reads[q].file
  BY DEF ReadsInv, ReadTypes, Move
<1>4. \A q \in Runs \ {reader} : reads'[q].state \in {"none", "gone", "ended"}
  BY DEF ReadsInv, ReadTypes, OneRead, Move
<1>5. OneRead'
  BY <1>2, <1>3, <1>4 DEF ReadsInv, ReadTypes, OneRead
<1> QED
  BY <1>2, <1>3, <1>5 DEF ReadsInv, ReadTypes

LEMMA ReaderStep ==
  ASSUME ReadsInv, NEW r \in Runs, Start(r) \/ Answer(r) \/ Vanish(r)
  PROVE  ReadsInv'
<1>1. UNCHANGED <<target, timer, reader, file, startup, watch>>
  BY DEF Start, Answer, Vanish, Unmoved, timers, load
<1>2. {startup', watch'} \subseteq Runs \cup {None}
  BY <1>1 DEF ReadsInv, ReadTypes
<1>3. r = reader
  BY DEF Start, Answer, Vanish, ReadsInv, ReadTypes, OneRead
<1>4. reads[r].out \in Seq({"started", "result", "error", "oom"})
  BY DEF ReadsInv, ReadTypes
<1>5. PICK s \in {"started", "done", "gone"},
           o \in Seq({"started", "result", "error", "oom"}) : Move(r, s, o)
  <2>1. /\ <<"started">> \in Seq({"started", "result", "error", "oom"})
        /\ \A m \in {"result", "error", "oom"} :
             Append(reads[r].out, m) \in Seq({"started", "result", "error", "oom"})
    BY <1>4
  <2> QED
    BY <1>4, <2>1 DEF Start, Answer, Vanish
<1> QED
  BY <1>1, <1>2, <1>3, <1>5, Moved

LEMMA MessageStep ==
  ASSUME PanelInv, ReadsInv, KeptInv, file \in L!Loads \cup {None},
         NEW r \in Runs, TakeMessage(r)
  PROVE  PanelInv' /\ ReadsInv' /\ KeptInv'
<1>1. /\ UNCHANGED <<file, model, tree, row, pending, large>>
      /\ reads[r].out # <<>>
  BY DEF TakeMessage, Still, load
<1>2. CASE Head(reads[r].out) = "started"
  <2>1. /\ startup' = None /\ watch' = r
        /\ Move(r, reads[r].state, Tail(reads[r].out))
        /\ UNCHANGED <<box, target, timer, reader, cache, ranOut>>
    BY <1>2 DEF TakeMessage
  <2>2. ReadsInv'
    <3>1. /\ Tail(reads[r].out) \in Seq({"started", "result", "error", "oom"})
          /\ reads[r].state \in {"none", "new", "started", "done", "gone", "ended"}
          /\ {startup', watch'} \subseteq Runs \cup {None}
      BY <1>1, <2>1 DEF ReadsInv, ReadTypes
    <3> QED
      BY <1>1, <2>1, <3>1, Moved
  <2>3. PanelInv' /\ KeptInv'
    BY <1>1, <2>1 DEF PanelInv, PanelTypes, BoxInv, KeptInv, KeptTypes, AsksAfterRunningOut
  <2> QED
    BY <2>2, <2>3
<1>3. CASE Head(reads[r].out) # "started"
  <2>1. Settle(r, Head(reads[r].out))
    BY <1>3 DEF TakeMessage
  <2> QED
    BY <1>1, <2>1, SettleStep
<1> QED
  BY <1>2, <1>3

--------------------------------------------------------------------------------
\* What leaves the reads and the panel alone, and the file and the model with them.
LEMMA Kept ==
  ASSUME PanelInv, ReadsInv, KeptInv, UNCHANGED <<file, model>>
  PROVE  /\ UNCHANGED <<tree, row, pending, box, target>> => PanelInv'
         /\ UNCHANGED <<target, timers, reads>> => ReadsInv'
         /\ UNCHANGED <<kept, timer>> => KeptInv'
BY DEF timers, kept, PanelInv, PanelTypes, BoxInv, ReadsInv, ReadTypes, OneRead,
       KeptInv, KeptTypes, AsksAfterRunningOut

LEMMA InitIInv == Init => IInv
<1> SUFFICES ASSUME Init PROVE IInv
  OBVIOUS
<1>1. V!IInv
  <2>1. V!LoadsAssumption /\ V!FlagsAssumption
    BY LoadAssumption DEF L!LoadsAssumption, L!FlagsAssumption, V!LoadsAssumption,
                          V!FlagsAssumption, L!Loads, V!Loads
  <2> QED
    BY <2>1, SameInit, V!InitIInv DEF Init
<1>2. PanelInv /\ events \subseteq Events
  BY DEF Init, PanelInv, PanelTypes, BoxInv
<1>3. ReadsInv
  <2>1. <<>> \in Seq({"started", "result", "error", "oom"})
    OBVIOUS
  <2> QED
    BY <2>1 DEF Init, Unread, ReadsInv, ReadTypes, OneRead
<1>4. KeptInv
  <2>1. cache = <<>> /\ cache \in Seq(Readings) /\ Len(cache) = 0 /\ Entries(cache) = {}
    BY DEF Init, Entries
  <2>2. KeptTypes
    <3>1. Len(cache) <= Remembered
      BY <2>1, ReadsAssumption
    <3>2. {large, ranOut} \subseteq BOOLEAN
      BY DEF Init
    <3> QED
      BY <2>1, <3>1, <3>2 DEF KeptTypes
  <2>3. AsksAfterRunningOut
    BY DEF Init, AsksAfterRunningOut
  <2>4. \A e \in Entries(cache) : e.file = file
    BY <2>1
  <2> QED
    BY <2>2, <2>3, <2>4 DEF KeptInv
<1> QED
  BY <1>1, <1>2, <1>3, <1>4 DEF IInv

LEMMA ResetStep ==
  ASSUME ReadsInv, ResetSavedParameters
  PROVE  ReadsInv' /\ KeptInv'
<1>1. ReadsInv' /\ timer' = None
  BY StopStep DEF ReadsInv, ResetSavedParameters
<1>2. cache' = <<>> /\ cache' \in Seq(Readings) /\ Len(cache') = 0 /\ Entries(cache') = {}
  BY DEF ResetSavedParameters, Entries
<1>3. KeptTypes'
  <2>1. Len(cache') <= Remembered
    BY <1>2, ReadsAssumption
  <2>2. {large', ranOut'} \subseteq BOOLEAN
    BY DEF ResetSavedParameters
  <2> QED
    BY <1>2, <2>1, <2>2 DEF KeptTypes
<1>4. AsksAfterRunningOut'
  BY DEF ResetSavedParameters, AsksAfterRunningOut
<1>5. \A e \in Entries(cache') : e.file = file'
  BY <1>2
<1> QED
  BY <1>1, <1>3, <1>4, <1>5 DEF KeptInv

\* The steps of a load.
LEMMA OpenStep ==
  ASSUME PanelInv, ReadsInv, KeptInv, NEW l \in L!Loads, Open(l)
  PROVE  PanelInv' /\ ReadsInv' /\ KeptInv'
<1>1. PanelInv'
  BY DEF Open, PanelInv, PanelTypes, BoxInv
<1> QED
  BY <1>1, ResetStep DEF Open

LEMMA ShowStep ==
  ASSUME PanelInv, ReadsInv, KeptInv, NEW l \in L!Loads, None \notin L!Loads, Show(l)
  PROVE  PanelInv' /\ ReadsInv' /\ KeptInv'
<1>1. model' # None /\ UNCHANGED file
  BY DEF Show, L!TakeReady
<1>2. /\ tree' \in BOOLEAN /\ row' \in BOOLEAN /\ large' \in BOOLEAN
      /\ UNCHANGED <<pending, box, target, timer, reader, startup, watch, reads, cache,
                     ranOut>>
  BY DEF Show, timers
<1> QED
  BY <1>1, <1>2 DEF PanelInv, PanelTypes, BoxInv, ReadsInv, ReadTypes, OneRead,
                    KeptInv, KeptTypes, AsksAfterRunningOut

LEMMA AsideStep ==
  ASSUME PanelInv, ReadsInv, KeptInv, NEW l \in L!Loads, Aside(l)
  PROVE  PanelInv' /\ ReadsInv' /\ KeptInv'
<1>1. UNCHANGED <<file, model>>
  BY DEF Aside, L!Fetch, L!FetchFails, L!Reads, L!BytesArrive, L!BytesFail,
         L!Decodes, L!Initialise, L!Parse, L!Fail, L!Describe, L!Die,
         L!TakeWasm, L!TakeError, L!ErrorFires, L!Page, L!choice
<1>2. UNCHANGED <<tree, row, pending, box, target>> /\ UNCHANGED <<target, timers, reads>>
      /\ UNCHANGED <<kept, timer>>
  BY DEF Aside, panel, timers, kept
<1> QED
  BY <1>1, <1>2, Kept

\* The steps of the panel.
LEMMA SelectStep ==
  ASSUME PanelInv, ReadsInv, KeptInv, NEW i \in Indices, Select(i)
  PROVE  PanelInv' /\ ReadsInv' /\ KeptInv'
<1>1. UNCHANGED <<file, model, tree, cache, large, ranOut>> /\ pending' = i /\ row' = TRUE
  BY DEF Select, L!Ask, L!Page, L!choice, kept
<1>2. \/ StopParametersRead
      \/ UNCHANGED <<target, timer, reader, startup, watch, reads>>
  BY DEF Select, timers
<1>3. ReadsInv' /\ timer' \in {timer, None}
  <2>1. CASE StopParametersRead
    BY <2>1, StopStep DEF ReadsInv
  <2>2. CASE UNCHANGED <<target, timer, reader, startup, watch, reads>>
    BY <1>1, <2>2, Kept DEF timers
  <2> QED
    BY <1>2, <2>1, <2>2
<1>4. box' = None
  BY DEF Select, PanelInv, BoxInv
<1>5. PanelInv'
  BY <1>1, <1>4 DEF PanelInv, PanelTypes, BoxInv
<1>6. KeptInv'
  BY <1>1, <1>3 DEF KeptInv, KeptTypes, AsksAfterRunningOut
<1> QED
  BY <1>3, <1>5, <1>6

LEMMA ContainerStep ==
  ASSUME PanelInv, ReadsInv, KeptInv, Container
  PROVE  PanelInv' /\ ReadsInv' /\ KeptInv'
<1>1. ReadsInv' /\ timer' = None
  BY StopStep DEF Container, ReadsInv
<1>2. PanelInv'
  BY DEF Container, PanelInv, PanelTypes, BoxInv
<1>3. KeptInv'
  BY <1>1 DEF Container, load, kept, KeptInv, KeptTypes, AsksAfterRunningOut
<1> QED
  BY <1>1, <1>2, <1>3

LEMMA EscapeStep ==
  ASSUME PanelInv, ReadsInv, KeptInv, Escape
  PROVE  PanelInv' /\ ReadsInv' /\ KeptInv'
<1>1. PanelInv'
  BY DEF Escape, PanelInv, PanelTypes, BoxInv
<1> QED
  BY <1>1, Kept DEF Escape, load, timers

LEMMA ExportStep ==
  ASSUME PanelInv, ReadsInv, KeptInv, Export
  PROVE  PanelInv' /\ ReadsInv' /\ KeptInv'
<1>1. KeptInv'
  BY DEF Export, load, timers, KeptInv, KeptTypes, AsksAfterRunningOut
<1> QED
  BY <1>1, Kept DEF Export, load, panel, timers

LEMMA PressStep ==
  ASSUME PanelInv, ReadsInv, KeptInv, Press,
         file \in L!Loads \cup {None}, model # None => file # None
  PROVE  PanelInv' /\ ReadsInv' /\ KeptInv'
<1>1. /\ box # None /\ box.id \in Ids /\ file \in L!Loads /\ file # None /\ model # None
  BY DEF Press, PanelInv, PanelTypes, BoxInv
<1>2. UNCHANGED <<file, model, tree, row, pending, cache, large, ranOut>>
  BY DEF Press, load, kept
<1>3. ReadsInv' /\ target' = box.id /\ timer' = None
  BY <1>1, <1>2, ReadStep DEF Press, ReadsInv
<1>4. box' = [id |-> box.id, state |-> "loading", reading |-> None]
  BY DEF Press, Box
<1>5. PanelInv'
  BY <1>1, <1>2, <1>3, <1>4 DEF PanelInv, PanelTypes, BoxInv
<1>6. KeptInv'
  BY <1>2, <1>3 DEF KeptInv, KeptTypes, AsksAfterRunningOut
<1> QED
  BY <1>3, <1>5, <1>6

LEMMA TimerStep ==
  ASSUME PanelInv, ReadsInv, KeptInv, TimerFires, file \in L!Loads \cup {None}
  PROVE  PanelInv' /\ ReadsInv' /\ KeptInv'
<1>1. timer \in Ids /\ target = timer /\ file \in L!Loads /\ file # None
  BY DEF TimerFires, ReadsInv, ReadTypes, OneRead
<1>2. UNCHANGED <<file, model, tree, row, pending, box, cache, large, ranOut>>
  BY DEF TimerFires, load, panel, kept
<1>3. ReadsInv' /\ target' = timer /\ timer' = None
  BY <1>1, <1>2, ReadStep DEF TimerFires, ReadsInv
<1>4. PanelInv'
  BY <1>1, <1>2, <1>3, Kept
<1>5. KeptInv'
  BY <1>2, <1>3 DEF KeptInv, KeptTypes, AsksAfterRunningOut
<1> QED
  BY <1>3, <1>4, <1>5

\* The decoder's answer: the group, if it is the panel waited for.
LEMMA PanelStep ==
  ASSUME PanelInv, ReadsInv, KeptInv, NEW l \in L!Loads, TakePanel(l),
         file \in L!Loads \cup {None}, file # None,
         Head(outbox[l]).index \in Indices,
         Head(outbox[l]).panel => model # None
  PROVE  PanelInv' /\ ReadsInv' /\ KeptInv'
<1> DEFINE m == Head(outbox[l])
<1>1. UNCHANGED <<file, model, tree, pending>>
  BY DEF TakePanel, L!TakeInfo, L!Page, L!choice
<1>2. CASE UNCHANGED <<row, box, target, timers, reads, kept>>
  <2>1. UNCHANGED timer
    BY <1>2 DEF timers
  <2> QED
    BY <1>1, <1>2, <2>1, Kept
<1>3. CASE m.panel /\ Group(PanelId(m.index)) /\ row' = (row \/ PanelId(m.index) # IdOf(m.index))
  <2>1. PanelId(m.index) \in Ids \cup {None}
    BY DEF Ids
  <2>2. row' \in BOOLEAN
    BY <1>3
  <2> QED
    BY <1>1, <1>3, <2>1, <2>2, GroupStep
<1>4. CASE StopParametersRead /\ box' = None /\ UNCHANGED <<row, kept>>
  <2>1. ReadsInv' /\ timer' = None
    BY <1>4, StopStep DEF ReadsInv
  <2>2. PanelInv'
    BY <1>1, <1>4 DEF PanelInv, PanelTypes, BoxInv
  <2>3. KeptInv'
    BY <1>1, <1>4, <2>1 DEF kept, KeptInv, KeptTypes, AsksAfterRunningOut
  <2> QED
    BY <2>1, <2>2, <2>3
<1> QED
  BY <1>2, <1>3, <1>4 DEF TakePanel

LEMMA EventsStep ==
  ASSUME events \subseteq Events, [Next]_vars
  PROVE  (events \subseteq Events)'
<1>1. \A r \in Runs : Vanish(r) \/ GrantLock(r) => (events \subseteq Events)'
  BY DEF Vanish, GrantLock, Event, Events
<1>2. \A r \in Runs : TakeMessage(r) \/ StartupTimeout(r) \/ Start(r) \/ Answer(r)
                      => UNCHANGED events
  BY DEF TakeMessage, StartupTimeout, Start, Answer
<1>3. \A e \in events : EventFires(e) => (events \subseteq Events)'
  BY DEF EventFires
<1>4. \A l \in L!Loads : Open(l) \/ Show(l) \/ Aside(l) \/ TakePanel(l)
                       => UNCHANGED events
  BY DEF Open, Show, Aside, TakePanel
<1>5. /\ \A i \in Indices : Select(i) => UNCHANGED events
      /\ Export \/ Container \/ Escape \/ Press \/ TimerFires => UNCHANGED events
  BY DEF Select, Export, Container, Escape, Press, TimerFires
<1> QED
  BY <1>1, <1>2, <1>3, <1>4, <1>5 DEF Next, vars

LEMMA NextIInv ==
  ASSUME ~Overlapping
  PROVE  IInv /\ [Next]_vars => IInv'
<1> SUFFICES ASSUME IInv, [Next]_vars PROVE IInv'
  OBVIOUS
<1> DEFINE Held == PanelInv /\ ReadsInv /\ KeptInv
<1>1. V!IInv' /\ (events \subseteq Events)'
  BY LoadInv, EventsStep DEF IInv
<1>2. /\ None \notin L!Loads /\ file \in L!Loads \cup {None}
      /\ model # None => file # None
      /\ \A l \in L!Loads : L!Taken(l, "info") =>
           /\ Head(outbox[l]).index \in Indices /\ file # None
           /\ Head(outbox[l]).panel => model # None
  BY Shown DEF IInv
<1>3. Held /\ events \subseteq Events
  BY DEF IInv
<1> SUFFICES Held'
  BY <1>1 DEF IInv
<1>4. ASSUME NEW l \in L!Loads, Open(l) \/ Show(l) \/ Aside(l) \/ TakePanel(l)
      PROVE  Held'
  <2>1. CASE Open(l)
    BY <2>1, <1>3, OpenStep
  <2>2. CASE Show(l)
    BY <2>2, <1>2, <1>3, ShowStep
  <2>3. CASE Aside(l)
    BY <2>3, <1>3, AsideStep
  <2>4. CASE TakePanel(l)
    <3>1. L!Taken(l, "info")
      BY <2>4 DEF TakePanel, L!TakeInfo
    <3> QED
      BY <2>4, <3>1, <1>2, <1>3, PanelStep
  <2> QED
    BY <1>4, <2>1, <2>2, <2>3, <2>4
<1>5. ASSUME NEW i \in Indices, Select(i) PROVE Held'
  BY <1>3, <1>5, SelectStep
<1>6. CASE Export
  BY <1>3, <1>6, ExportStep
<1>7. CASE Container
  BY <1>3, <1>7, ContainerStep
<1>8. CASE Escape
  BY <1>3, <1>8, EscapeStep
<1>9. CASE Press
  BY <1>2, <1>3, <1>9, PressStep
<1>10. CASE TimerFires
  BY <1>2, <1>3, <1>10, TimerStep
<1>11. ASSUME NEW r \in Runs, TakeMessage(r) PROVE Held'
  BY <1>2, <1>3, <1>11, MessageStep
<1>12. ASSUME NEW r \in Runs, StartupTimeout(r) PROVE Held'
  <2>1. Settle(r, "stopped") /\ UNCHANGED <<tree, row, pending, large, file, model>>
    BY <1>12 DEF StartupTimeout, Still, load
  <2> QED
    BY <1>2, <1>3, <2>1, SettleStep
<1>13. ASSUME NEW r \in Runs, Start(r) \/ Answer(r) \/ Vanish(r) PROVE Held'
  <2>1. UNCHANGED <<file, model, tree, row, pending, box, target, kept, timer>>
    BY <1>13 DEF Start, Answer, Vanish, Unmoved, load, panel, timers
  <2>2. ReadsInv'
    BY <1>3, <1>13, ReaderStep
  <2> QED
    BY <1>3, <2>1, <2>2, Kept
<1>14. ASSUME NEW r \in Runs, GrantLock(r) PROVE Held'
  BY <1>3, <1>14, Kept DEF GrantLock, Unmoved, load, panel, timers
<1>15. ASSUME NEW e \in events, EventFires(e) PROVE Held'
  <2>1. /\ e.reader \in Runs /\ Settle(e.reader, e.outcome)
        /\ UNCHANGED <<tree, row, pending, large, file, model>>
    BY <1>3, <1>15 DEF EventFires, Events, Still, load
  <2> QED
    BY <1>2, <1>3, <2>1, SettleStep
<1>16. CASE UNCHANGED vars
  BY <1>3, <1>16, Kept DEF vars, load, panel, timers
<1> HIDE DEF Held
<1> QED
  BY <1>4, <1>5, <1>6, <1>7, <1>8, <1>9, <1>10, <1>11, <1>12, <1>13, <1>14, <1>15,
     <1>16 DEF Next

--------------------------------------------------------------------------------
(* Why a group does not stay loading: the delay runs, or a reader of which the *)
(* page will hear.                                                             *)

\* A reader has posted something once it has taken its lock, and its outcome once
\* it is done; one that has not begun, or was ended, has posted nothing.
Told(r) ==
  /\ reads[r].state \in {"none", "new", "ended"} => reads[r].out = <<>>
  /\ reads[r].state = "done" =>
       \E n \in 1..Len(reads[r].out) : reads[r].out[n] # "started"

\* The start of the reader the page holds is timed; or it has started, and reads,
\* has posted its outcome, or has gone and left its lock to the page, which has
\* asked for it.
Heard(r) ==
  \/ startup = r
  \/ /\ watch = r
     /\ \/ reads[r].state = "started"
        \/ reads[r].state = "done" /\ reads[r].out # <<>>
        \/ reads[r].state = "gone"

\* A group that loads has a delay running or a reader that is heard of, whatever
\* messages are late and however the reader ends.  (readSavedParameters,
\* main.ts.)
LoadingIsHeard ==
  Loading =>
    timer = box.id \/ (reader # None /\ reads[reader].id = box.id /\ Heard(reader))

HeardInv ==
  /\ \A r \in Runs : Told(r)
  /\ \A r \in Runs \ {reader} : reads[r].state \in {"none", "ended"}
  /\ reader # None => Heard(reader)

Outs == Seq({"started", "result", "error", "oom"})

\* Ending a reader leaves the others as they were.
LEMMA EndedTold ==
  ASSUME ReadTypes, \A r \in Runs : Told(r)
  PROVE  \A r \in Runs : \/ r # reader /\ Ended[r] = reads[r]
                         \/ Ended[r].state = "ended" /\ Ended[r].out = <<>>
<1>1. CASE reader = None
  BY <1>1, ReadsAssumption DEF Ended
<1>2. CASE reader # None
  BY <1>2 DEF Ended, Unread, ReadTypes
<1> QED
  BY <1>1, <1>2

\* The page turns from its read to nothing, to a delay, or to a reader it times.
LEMMA TurnHeard ==
  ASSUME ReadTypes, OneRead, HeardInv, NEW id,
         StopParametersRead \/ Delay(id) \/ ReadSavedParameters(id)
  PROVE  HeardInv'
<1>1. \A r \in Runs : \/ r # reader /\ Ended[r] = reads[r]
                      \/ Ended[r].state = "ended" /\ Ended[r].out = <<>>
  BY EndedTold DEF HeardInv
<1>2. CASE StopParametersRead \/ Delay(id)
  <2>1. reader' = None /\ reads' = Ended
    BY <1>2 DEF StopParametersRead, Delay
  <2> QED
    BY <1>1, <2>1 DEF HeardInv, Told
<1>3. CASE ReadSavedParameters(id)
  <2>1. PICK r \in Free :
          /\ startup' = r /\ reader' = r
          /\ reads' = [Ended EXCEPT ![r] = [id |-> id, file |-> file, state |-> "new",
                                            out |-> <<>>]]
    BY <1>3 DEF ReadSavedParameters
  <2>2. \A q \in Runs : \/ q # r /\ reads'[q] = Ended[q]
                        \/ reads'[q].state = "new" /\ reads'[q].out = <<>> /\ q = r
    BY <2>1, EndedOf DEF Free
  <2>3. \A q \in Runs : Told(q)'
    BY <1>1, <2>2 DEF HeardInv, Told
  <2>4. \A q \in Runs \ {r} : reads'[q].state \in {"none", "ended"}
    BY <1>1, <2>2 DEF HeardInv
  <2> QED
    BY <2>1, <2>3, <2>4 DEF HeardInv, Heard
<1> QED
  BY <1>2, <1>3

LEMMA SameHeard ==
  ASSUME HeardInv, UNCHANGED <<timers, reads>>
  PROVE  HeardInv'
BY DEF timers, HeardInv, Told, Heard

LEMMA SettleHeard ==
  ASSUME ReadTypes, OneRead, HeardInv, NEW r, NEW outcome, Settle(r, outcome)
  PROVE  HeardInv'
<1>1. StopParametersRead \/ UNCHANGED <<timers, reads>>
  BY DEF Settle
<1> QED
  BY <1>1, TurnHeard, SameHeard

\* A message that a reader has started; then its lock is asked for.
LEMMA MessageHeard ==
  ASSUME ReadTypes, OneRead, HeardInv, NEW r \in Runs, TakeMessage(r)
  PROVE  HeardInv'
<1> DEFINE o == reads[r].out
<1>1. CASE Head(o) # "started"
  <2>1. Settle(r, Head(o))
    BY <1>1 DEF TakeMessage
  <2> QED
    BY <2>1, SettleHeard
<1>2. CASE Head(o) = "started"
  <2>1. /\ watch' = r /\ reader' = reader /\ o # <<>> /\ o \in Outs
        /\ reads' = [reads EXCEPT ![r] = [id |-> reads[r].id, file |-> reads[r].file,
                                          state |-> reads[r].state, out |-> Tail(o)]]
    BY <1>2 DEF TakeMessage, Move, ReadTypes, Outs
  <2>2. reads'[r].state = reads[r].state /\ reads'[r].out = Tail(o)
    BY <2>1 DEF ReadTypes
  <2>3. \A q \in Runs \ {r} : reads'[q] = reads[q]
    BY <2>1 DEF ReadTypes
  <2>4. /\ reads[r].state \in {"started", "done", "gone"}
        /\ Told(r)
    BY <2>1 DEF HeardInv, Told, ReadTypes
  <2>5. reads[r].state = "done" => Tail(o) # <<>>
                               /\ \E n \in 1..Len(Tail(o)) : Tail(o)[n] # "started"
    <3> SUFFICES ASSUME reads[r].state = "done"
                 PROVE  \E n \in 1..Len(Tail(o)) : Tail(o)[n] # "started"
      BY <2>1
    <3>1. PICK n \in 1..Len(o) : o[n] # "started"
      BY <2>4 DEF Told
    <3>2. Head(o) = o[1] /\ Len(Tail(o)) = Len(o) - 1
          /\ \A m \in 1..Len(Tail(o)) : Tail(o)[m] = o[m + 1]
      BY <2>1 DEF Outs
    <3>3. n - 1 \in 1..Len(Tail(o)) /\ Tail(o)[n - 1] = o[n]
      BY <1>2, <2>1, <3>1, <3>2 DEF Outs
    <3> QED
      BY <3>1, <3>3
  <2>6. ASSUME NEW q \in Runs PROVE Told(q)'
    <3>1. CASE q = r
      <4> DEFINE t == Tail(o)
      <4>1. reads'[r].state = reads[r].state /\ reads'[r].out = t
        BY <2>2
      <4>2. reads[r].state = "done" => \E n \in 1..Len(t) : t[n] # "started"
        BY <2>5
      <4> HIDE DEF t
      <4> QED
        BY <3>1, <4>1, <4>2, <2>4 DEF Told
    <3>2. CASE q # r
      BY <2>3, <3>2 DEF HeardInv, Told
    <3> QED
      BY <3>1, <3>2
  <2>7. reader = r
    BY <2>4 DEF HeardInv
  <2>8. \A q \in Runs \ {r} : reads'[q].state \in {"none", "ended"}
    BY <2>3, <2>7 DEF HeardInv
  <2> QED
    BY <2>1, <2>2, <2>4, <2>5, <2>6, <2>7, <2>8 DEF HeardInv, Heard
<1> QED
  BY <1>1, <1>2

\* The reader's own steps are those of the reader the page holds.
LEMMA ReaderHeard ==
  ASSUME ReadTypes, HeardInv, NEW r \in Runs, Start(r) \/ Answer(r) \/ Vanish(r)
  PROVE  HeardInv'
<1> DEFINE o == reads[r].out
<1>1. /\ reader = r /\ UNCHANGED <<reader, startup, watch>> /\ o \in Outs /\ Told(r)
      /\ Heard(r) /\ r # None
  BY ReadsAssumption DEF Start, Answer, Vanish, Unmoved, timers, HeardInv, ReadTypes, Outs
<1>2. ASSUME NEW s, NEW a, Move(r, s, a)
      PROVE  /\ reads'[r].state = s /\ reads'[r].out = a
             /\ \A q \in Runs \ {r} : reads'[q] = reads[q]
  BY <1>2 DEF Move, ReadTypes
<1>3. CASE Start(r)
  <2>1. Move(r, "started", <<"started">>) /\ reads[r].state = "new"
    BY <1>3 DEF Start
  <2>2. startup = r
    BY <1>1, <2>1 DEF Heard
  <2> QED
    BY <1>1, <1>2, <2>1, <2>2 DEF HeardInv, Told, Heard
<1>4. CASE Answer(r)
  <2>1. reads[r].state = "started"
    BY <1>4 DEF Answer
  <2>2. PICK m \in {"result", "error", "oom"} : Move(r, "done", Append(o, m))
    BY <1>4 DEF Answer
  <2> DEFINE a == Append(o, m)
  <2>3. a # <<>> /\ Len(o) + 1 \in 1..Len(a) /\ a[Len(o) + 1] = m /\ m # "started"
    BY <1>1 DEF Outs
  <2> HIDE DEF a
  <2>4. reads'[r].state = "done" /\ reads'[r].out = a
        /\ \A q \in Runs \ {r} : reads'[q] = reads[q]
    BY <1>2, <2>2 DEF a
  <2> QED
    BY <1>1, <2>3, <2>4 DEF HeardInv, Told, Heard
<1>5. CASE Vanish(r)
  <2>1. Move(r, "gone", o)
    BY <1>5 DEF Vanish
  <2> QED
    BY <1>1, <1>2, <2>1 DEF HeardInv, Told, Heard
<1> QED
  BY <1>3, <1>4, <1>5

LEMMA InitHeard == Init => HeardInv
BY DEF Init, Unread, HeardInv, Told

LEMMA NextHeard ==
  ASSUME ReadTypes, OneRead, HeardInv, [Next]_vars
  PROVE  HeardInv'
<1>1. ASSUME NEW l \in L!Loads, Open(l) \/ Show(l) \/ Aside(l) \/ TakePanel(l)
      PROVE  HeardInv'
  <2>1. \/ StopParametersRead \/ (\E id : Delay(id)) \/ UNCHANGED <<timers, reads>>
    BY <1>1 DEF Open, ResetSavedParameters, Show, Aside, TakePanel, Group
  <2> QED
    BY <2>1, TurnHeard, SameHeard
<1>2. ASSUME NEW i \in Indices, Select(i) PROVE HeardInv'
  <2>1. StopParametersRead \/ UNCHANGED <<timers, reads>>
    BY <1>2 DEF Select
  <2> QED
    BY <2>1, TurnHeard, SameHeard
<1>3. CASE Export \/ Escape
  BY <1>3, SameHeard DEF Export, Escape
<1>4. CASE Container \/ Press \/ TimerFires
  BY <1>4, TurnHeard DEF Container, Press, TimerFires
<1>5. ASSUME NEW r \in Runs, TakeMessage(r) \/ StartupTimeout(r) PROVE HeardInv'
  BY <1>5, MessageHeard, SettleHeard DEF StartupTimeout
<1>6. ASSUME NEW r \in Runs, Start(r) \/ Answer(r) \/ Vanish(r) \/ GrantLock(r)
      PROVE  HeardInv'
  BY <1>6, ReaderHeard, SameHeard DEF GrantLock, Unmoved
<1>7. ASSUME NEW e \in events, EventFires(e) PROVE HeardInv'
  BY <1>7, SettleHeard DEF EventFires
<1>8. CASE UNCHANGED vars
  BY <1>8, SameHeard DEF vars
<1> QED
  BY <1>1, <1>2, <1>3, <1>4, <1>5, <1>6, <1>7, <1>8 DEF Next

--------------------------------------------------------------------------------
(* What a read starts from.                                                    *)

\* The element being read for has the file open and the compiled wasm at hand: the
\* two errors readSavedParameters begins with, and the one of
\* savedParametersGroup, are never shown.  (main.ts.)
ReadIsReady == target # None => file # None /\ wasm

\* The wasm, once handed over, stays.
LEMMA WasmStays == [L!Next]_load /\ wasm => wasm'
BY DEF load, L!Next, L!Begins, L!Pick, L!Reopen, L!Fetched, L!Begin, L!Fetch, L!FetchFails,
       L!Reads, L!BytesArrive, L!BytesFail, L!Decodes, L!Initialise, L!Parse, L!Fail,
       L!Describe, L!Die, L!Takes, L!TakeWasm, L!TakeReady, L!TakeError, L!TakeInfo,
       L!ErrorFires, L!Ask, L!Page

LEMMA NextReady ==
  ASSUME IInv, target # None => wasm, [Next]_vars
  PROVE  (target # None => wasm)'
<1>1. wasm => wasm'
  BY LoadStep, WasmStays
<1>2. model # None => wasm
  BY DEF IInv, V!IInv, V!ModelHasWasm
<1> SUFFICES target' \in {target, None} \/ model # None
  BY <1>1, <1>2
<1>3. ASSUME NEW l \in L!Loads, Open(l) \/ Show(l) \/ Aside(l)
      PROVE  target' \in {target, None}
  BY <1>3 DEF Open, ResetSavedParameters, StopParametersRead, Show, Aside
<1>4. ASSUME NEW l \in L!Loads, TakePanel(l)
      PROVE  target' \in {target, None} \/ model # None
  <2>1. L!Taken(l, "info")
    BY <1>4 DEF TakePanel, L!TakeInfo
  <2>2. Head(outbox[l]).panel => model # None
    BY <2>1, Shown DEF IInv
  <2> QED
    BY <1>4, <2>2 DEF TakePanel, StopParametersRead
<1>5. ASSUME NEW i \in Indices, Select(i) PROVE target' \in {target, None}
  BY <1>5 DEF Select, StopParametersRead
<1>6. CASE Export \/ Container \/ Escape
  BY <1>6 DEF Export, Container, Escape, StopParametersRead
<1>7. CASE Press
  BY <1>7 DEF Press, IInv, PanelInv, BoxInv
<1>8. CASE TimerFires
  BY <1>8 DEF TimerFires, ReadSavedParameters, IInv, ReadsInv, OneRead
<1>9. ASSUME NEW r, NEW outcome, Settle(r, outcome) PROVE target' \in {target, None}
  BY <1>9 DEF Settle, StopParametersRead
<1>10. ASSUME NEW r \in Runs,
              TakeMessage(r) \/ StartupTimeout(r) \/ Start(r) \/ Answer(r) \/ Vanish(r)
              \/ GrantLock(r)
       PROVE  target' \in {target, None}
  BY <1>9, <1>10 DEF TakeMessage, StartupTimeout, Start, Answer, Vanish, GrantLock, Unmoved
<1>11. ASSUME NEW e \in events, EventFires(e) PROVE target' \in {target, None}
  BY <1>9, <1>11 DEF EventFires
<1>12. CASE UNCHANGED vars
  BY <1>12 DEF vars
<1> QED
  BY <1>3, <1>4, <1>5, <1>6, <1>7, <1>8, <1>10, <1>11, <1>12 DEF Next

--------------------------------------------------------------------------------
(* Which element a group is of.                                                *)

\* A group stays of its element until the panel is cleared or another panel comes,
\* which is of the element pending then.
LEMMA NextOfSelected ==
  ASSUME IInv, GroupIsOfSelected, [Next]_vars
  PROVE  GroupIsOfSelected'
<1> DEFINE Same == (box' # None => box # None /\ box'.id = box.id) /\ UNCHANGED pending
<1>1. Same \/ box' = None => GroupIsOfSelected'
  BY DEF GroupIsOfSelected
<1>2. ASSUME NEW l \in L!Loads, Open(l) \/ Show(l) \/ Aside(l)
      PROVE  Same \/ box' = None
  BY <1>2 DEF Open, Show, Aside, panel
<1>3. ASSUME NEW l \in L!Loads, TakePanel(l) PROVE GroupIsOfSelected'
  <2> DEFINE m == Head(outbox[l])
  <2>1. m.index \in Indices
    BY <1>3, Shown DEF TakePanel, L!TakeInfo, IInv
  <2>2. CASE Same \/ box' = None
    BY <1>1, <2>2
  <2>3. CASE m.index = pending /\ Group(PanelId(m.index)) /\ UNCHANGED pending
    <3>1. box' = None \/ box'.id = PanelId(m.index)
      BY <2>3 DEF Group, Box
    <3>2. m.index # None
      BY <2>1, ReadsAssumption
    <3> QED
      BY <2>3, <3>1, <3>2 DEF GroupIsOfSelected
  <2> QED
    BY <1>3, <2>2, <2>3 DEF TakePanel
<1>4. ASSUME NEW i \in Indices, Select(i) PROVE box' = None
  BY <1>4 DEF Select, IInv, PanelInv, BoxInv
<1>5. CASE Container \/ Escape
  BY <1>1, <1>5 DEF Container, Escape
<1>6. CASE Export \/ Press \/ TimerFires
  BY <1>1, <1>6 DEF Export, Press, TimerFires, Box, panel
<1>7. ASSUME NEW r, NEW outcome, Settle(r, outcome), UNCHANGED pending PROVE Same
  BY <1>7 DEF Settle, FinishRead, Box
<1>8. ASSUME NEW r \in Runs,
             TakeMessage(r) \/ StartupTimeout(r) \/ Start(r) \/ Answer(r) \/ Vanish(r)
             \/ GrantLock(r)
      PROVE  Same
  BY <1>7, <1>8 DEF TakeMessage, StartupTimeout, Start, Answer, Vanish, GrantLock,
                    Still, Unmoved, panel
<1>9. ASSUME NEW e \in events, EventFires(e) PROVE Same
  BY <1>7, <1>9 DEF EventFires, Still
<1>10. CASE UNCHANGED vars
  BY <1>1, <1>10 DEF vars, panel
<1> HIDE DEF Same
<1> QED
  BY <1>1, <1>2, <1>3, <1>4, <1>5, <1>6, <1>8, <1>9, <1>10 DEF Next

--------------------------------------------------------------------------------
\* With no load begun while another awaits its bytes, the invariant holds.
THEOREM Invariance == ASSUME ~Overlapping PROVE Spec => []IInv
<1>1. Init => IInv
  BY InitIInv
<1>2. IInv /\ [Next]_vars => IInv'
  BY NextIInv
<1> QED
  BY <1>1, <1>2, PTL DEF Spec

\* Every variable stays in its type (the state of main.ts' panel).
THEOREM TypeCorrect == ASSUME ~Overlapping PROVE Spec => []TypeOK
<1>1. IInv => TypeOK
  BY Shown DEF IInv, PanelInv, ReadsInv, KeptInv, TypeOK
<1> QED
  BY <1>1, Invariance, PTL

\* Whatever is selected, pressed or cancelled, the page reads for one element at
\* a time and leaves no reader behind (stopParametersRead).
THEOREM ReadsOneAtATime == ASSUME ~Overlapping PROVE Spec => []OneRead
<1>1. IInv => OneRead
  BY DEF IInv, ReadsInv
<1> QED
  BY <1>1, Invariance, PTL

\* A group that says it is loading has its read under way (savedParametersGroup,
\* finishRead).
THEOREM LoadingIsAlwaysRead == ASSUME ~Overlapping PROVE Spec => []LoadingIsRead
<1>1. IInv => LoadingIsRead
  BY DEF IInv, PanelInv, BoxInv, Loading, LoadingIsRead
<1> QED
  BY <1>1, Invariance, PTL

\* What a group shows is of its element and of the file on the screen, and so is
\* what is kept for the next one (savedParametersCache).
THEOREM ReadingIsAlwaysOfElement ==
  ASSUME ~Overlapping PROVE Spec => []ReadingIsOfElement
<1>1. IInv => ReadingIsOfElement
  BY Shown DEF IInv, PanelInv, BoxInv, KeptInv, ReadingIsOfElement
<1> QED
  BY <1>1, Invariance, PTL

\* The group in the panel is of the element selected, or of the one it is a piece
\* of (loadBytes, main.ts:1335-1336).
THEOREM GroupIsAlwaysOfSelected ==
  ASSUME ~Overlapping PROVE Spec => []GroupIsOfSelected
<1>1. Init => GroupIsOfSelected
  BY DEF Init, GroupIsOfSelected
<1>2. IInv /\ GroupIsOfSelected /\ [Next]_vars => GroupIsOfSelected'
  BY NextOfSelected
<1> QED
  BY <1>1, <1>2, Invariance, PTL DEF Spec

\* After a read of the open file ran out of memory none begins unasked
\* (parametersRanOutOfMemory).
THEOREM AlwaysAsksAfterRunningOut ==
  ASSUME ~Overlapping PROVE Spec => []AsksAfterRunningOut
<1>1. IInv => AsksAfterRunningOut
  BY DEF IInv, KeptInv
<1> QED
  BY <1>1, Invariance, PTL

\* A group that loads has a delay running, or a reader that answers, is timed, or
\* is found to have gone (readSavedParameters).
THEOREM LoadingIsAlwaysHeard == ASSUME ~Overlapping PROVE Spec => []LoadingIsHeard
<1>1. IInv /\ HeardInv /\ [Next]_vars => HeardInv'
  BY NextHeard DEF IInv, ReadsInv
<1>2. IInv /\ HeardInv => LoadingIsHeard
  BY ReadsAssumption
  DEF IInv, PanelInv, PanelTypes, BoxInv, ReadsInv, OneRead, HeardInv, Loading,
      LoadingIsHeard, Ids
<1> QED
  BY <1>1, <1>2, InitHeard, Invariance, PTL DEF Spec

\* An element is read for with its file open and the compiled wasm at hand
\* (readSavedParameters).
THEOREM ReadsAreReady == ASSUME ~Overlapping PROVE Spec => []ReadIsReady
<1> DEFINE HasWasm == target # None => wasm
<1>1. Init => HasWasm
  BY DEF Init
<1>2. IInv /\ HasWasm /\ [Next]_vars => HasWasm'
  BY NextReady
<1>3. IInv /\ HasWasm => ReadIsReady
  BY DEF IInv, ReadsInv, ReadIsReady
<1> HIDE DEF HasWasm
<1> QED
  BY <1>1, <1>2, <1>3, Invariance, PTL DEF Spec

\* The page with its element panel still loads files as ViewerLoad says: no step
\* of the panel disturbs a load (main.ts).
THEOREM LoadFlowIsKept == Spec => L!Init /\ [][L!Next]_load
<1>1. Init => L!Init
  BY DEF Init
<1>2. [Next]_vars => [L!Next]_load
  BY LoadStep
<1> QED
  BY <1>1, <1>2, PTL DEF Spec
================================================================================
