---------------------------- MODULE SavedParameters ----------------------------
(***************************************************************************)
(* The element panel of the viewer and the saved parameters it shows, over *)
(* the load flow of ViewerLoad: src/viewer/src/main.ts and                 *)
(* parameters-worker.ts.                                                   *)
(*                                                                         *)
(* A selection asks the decoder for the element's panel.  When it comes,   *)
(* the element's saved parameters are recalled, or read after a delay by a *)
(* worker of its own, the reader, which opens the file again and ends with *)
(* its answer.  A reader may be ended by the browser with no word: the page*)
(* finds out by a lock the reader holds, or because it never started.      *)
(*                                                                         *)
(* A reading is the element and the file it was read from.                 *)
(***************************************************************************)
EXTENDS Naturals, Sequences, FiniteSets

CONSTANTS
  MaxLoads, Indices, MaxAsks, Overlapping, Silent, Demos, Phased,
  None,        \* as in ViewerLoad
  IdOf(_),     \* the ElementId of an entity, or None
  PanelId(_),  \* the one of the element it is written as: a folded piece has
               \* its owner's
  Remembered,  \* PARAMETERS_REMEMBERED
  MaxReads     \* the readers of a behaviour (a bound)

Ids == {PanelId(i) : i \in Indices} \ {None}
Runs == 1..MaxReads

ASSUME ReadsAssumption ==
  /\ MaxReads \in Nat /\ Remembered \in Nat \ {0}
  /\ None \notin Runs \cup Indices
  /\ \A i \in Indices : IdOf(i) \in Ids \cup {None}

VARIABLES
  pc, cur, file, fileOf, phase, offered, asked, card, model, failed,
  wasm, worker, stage, inbox, outbox, errors,  \* as in ViewerLoad
  tree,     \* whether a model's rows are listed; they stay while another loads
  row,      \* whether a row is selected
  pending,  \* pendingInfoIndex
  box,      \* the panel's group of saved parameters, if it has one with an id
  target,   \* parametersTarget
  timer,    \* the element the delay will read
  reader,   \* parametersWorker
  reads,    \* reads[r]: a reader's element, file, state and messages
  startup,  \* the reader whose start is timed
  watch,    \* the reader whose lock is asked for
  events,   \* callbacks under way that ending a reader does not call off
  cache,    \* savedParametersCache, the least recently used first
  large,    \* whether the page holds more wasm memory than a read is made beside
  ranOut    \* parametersRanOutOfMemory

load == <<pc, cur, file, fileOf, phase, offered, asked, card, model, failed,
          wasm, worker, stage, inbox, outbox, errors>>
timers == <<timer, reader, startup, watch>>
kept == <<cache, large, ranOut>>
panel == <<tree, row, pending, box>>
vars == <<load, panel, target, timers, reads, events, kept>>

L == INSTANCE ViewerLoad

ASSUME LoadAssumption == L!LoadsAssumption /\ L!FlagsAssumption

Unread == [id |-> None, file |-> None, state |-> "none", out |-> <<>>]
Reading(id, f) == [id |-> id, file |-> f]
Box(id, state, reading) == [id |-> id, state |-> state, reading |-> reading]

Init ==
  /\ L!Init
  /\ tree = FALSE /\ row = FALSE /\ pending = None /\ box = None
  /\ target = None /\ timer = None /\ reader = None
  /\ startup = None /\ watch = None
  /\ reads = [r \in Runs |-> Unread] /\ events = {}
  /\ cache = <<>> /\ large = FALSE /\ ranOut = FALSE

--------------------------------------------------------------------------------
\* The cache: a map, in the order of use.
Entries(c) == {c[n] : n \in 1..Len(c)}
Known(id) == \E e \in Entries(cache) : e.id = id
Entry(id) == CHOOSE e \in Entries(cache) : e.id = id
Without(c, id) ==
  LET at == {n \in 1..Len(c) : c[n].id = id}
      n == CHOOSE m \in at : TRUE
  IN  IF at = {} THEN c ELSE SubSeq(c, 1, n - 1) \o SubSeq(c, n + 1, Len(c))

\* Mutant of Put: one more is kept.
PutMore(c, e) ==
  LET all == Append(Without(c, e.id), e)
  IN  IF Len(all) > Remembered + 1 THEN Tail(all) ELSE all

Put(c, e) ==
  LET all == Append(Without(c, e.id), e)
  IN  IF Len(all) > Remembered THEN Tail(all) ELSE all

\* Mutant of Ended: the reader is let go of and not ended.
EndedNot == reads

\* stopParametersRead, with what the page turns to: nothing, the delay before an
\* element is read, or a reader.
Ended == IF reader = None THEN reads
         ELSE [reads EXCEPT ![reader] = [Unread EXCEPT !.state = "ended"]]
StopParametersRead ==
  /\ target' = None /\ timer' = None
  /\ startup' = None /\ watch' = None
  /\ reader' = None /\ reads' = Ended
Delay(id) ==
  /\ target' = id /\ timer' = id
  /\ startup' = None /\ watch' = None
  /\ reader' = None /\ reads' = Ended
Free == {r \in Runs : reads[r].state = "none"}
ReadSavedParameters(id) ==
  \E r \in Free :
    /\ \A q \in Free : r <= q
    /\ target' = id /\ timer' = None
    /\ startup' = r /\ watch' = None
    /\ reader' = r
    /\ reads' = [Ended EXCEPT ![r] = [id |-> id, file |-> file, state |-> "new",
                                      out |-> <<>>]]

--------------------------------------------------------------------------------
\* Mutant of ResetSavedParameters: a read goes on.
ResetKept ==
  /\ cache' = <<>> /\ large' = FALSE /\ ranOut' = FALSE
  /\ UNCHANGED <<target, timers, reads>>

\* Loads.  A load clears the panel, the reads and what they kept; the tree keeps
\* its rows until the new model is there.
ResetSavedParameters ==
  /\ StopParametersRead
  /\ cache' = <<>> /\ large' = FALSE /\ ranOut' = FALSE
Open(l) ==
  /\ L!Begins(l)
  /\ ResetSavedParameters
  /\ pending' = None /\ box' = None
  /\ UNCHANGED <<tree, row, events>>
Show(l) ==
  /\ L!TakeReady(l)
  /\ tree' = TRUE /\ row' = FALSE
  /\ large' \in BOOLEAN
  /\ UNCHANGED <<pending, box, target, timers, reads, events, cache, ranOut>>

\* The steps of a load that leave the panel alone.
Aside(l) ==
  /\ \/ L!Fetch(l) \/ L!FetchFails(l) \/ L!Reads(l)
     \/ L!Decodes(l) \/ L!Describe(l) \/ L!Die(l)
     \/ L!TakeWasm(l) \/ L!TakeError(l) \/ L!ErrorFires(l)
  /\ UNCHANGED <<panel, target, timers, reads, events, kept>>

\* An export on the page's own thread grows the memory the page holds.
Export ==
  /\ model # None /\ ~large /\ large' = TRUE
  /\ UNCHANGED <<load, panel, target, timers, reads, events, cache, ranOut>>

--------------------------------------------------------------------------------
\* showElementInfo: a row or a drawn element is selected.  The page puts the name
\* and the type it knows in the panel's place: with a model, all its rows are of
\* that model and have both, and with none it knows neither and leaves the panel.
Select(i) ==
  /\ tree /\ L!Ask(i)
  /\ row' = TRUE /\ pending' = i
  /\ IF (IF model = None THEN None ELSE IdOf(i)) # target
     THEN StopParametersRead ELSE UNCHANGED <<target, timers, reads>>
  /\ box' = IF model = None THEN box ELSE None
  /\ UNCHANGED <<tree, events, kept>>

\* showContainerInfo: the row of a storey, a category or the project.
Container ==
  /\ tree /\ row' = TRUE
  /\ pending' = None /\ box' = None
  /\ StopParametersRead
  /\ UNCHANGED <<load, tree, events, kept>>

\* Escape clears the panel and leaves a read to its end.
Escape ==
  /\ row /\ row' = FALSE
  /\ pending' = None /\ box' = None
  /\ UNCHANGED <<load, tree, target, timers, reads, events, kept>>

\* Mutant of Automatically: only what the page holds is looked at.
AutomaticallyAgain == ~large

\* savedParametersGroup, for element id.
Automatically == ~ranOut /\ ~large
Group(id) ==
  \/ /\ id = None
     /\ StopParametersRead /\ box' = None
     /\ UNCHANGED kept
  \/ /\ Known(id)
     /\ StopParametersRead
     /\ cache' = Put(cache, Entry(id))
     /\ box' = Box(id, "ready", Entry(id))
     /\ UNCHANGED <<large, ranOut>>
  \/ /\ id # None /\ ~Known(id) /\ target = id
     /\ box' = Box(id, "loading", None)
     /\ UNCHANGED <<target, timers, reads, kept>>
  \/ /\ id # None /\ ~Known(id) /\ target # id
     /\ IF Automatically
        THEN Free # {} /\ Delay(id) /\ box' = Box(id, "loading", None)
        ELSE StopParametersRead /\ box' = Box(id, "on-request", None)
     /\ UNCHANGED kept

\* Mutant of TakePanel: the answer is not asked which element it is for.
TakePanelAny(l) ==
  LET m == Head(outbox[l]) IN
  /\ L!TakeInfo(l)
  /\ IF m.panel
     THEN Group(PanelId(m.index))
          /\ row' = (row \/ PanelId(m.index) # IdOf(m.index))
     ELSE StopParametersRead /\ box' = None /\ UNCHANGED <<row, kept>>
  /\ UNCHANGED <<tree, pending, events>>

\* The decoder's answer: stale, the panel of the element, or none, which leaves
\* renderScaffoldPanel.
TakePanel(l) ==
  LET m == Head(outbox[l]) IN
  /\ L!TakeInfo(l)
  /\ IF m.index # pending THEN UNCHANGED <<row, box, target, timers, reads, kept>>
     ELSE IF m.panel
     THEN Group(PanelId(m.index))
          /\ row' = (row \/ PanelId(m.index) # IdOf(m.index))
     ELSE StopParametersRead /\ box' = None /\ UNCHANGED <<row, kept>>
  /\ UNCHANGED <<tree, pending, events>>

\* readFromButton: "Read saved parameters" and "Try again".
Press ==
  /\ box # None /\ box.state \in {"on-request", "error"}
  /\ ReadSavedParameters(box.id)
  /\ box' = Box(box.id, "loading", None)
  /\ UNCHANGED <<load, tree, row, pending, events, kept>>

TimerFires ==
  /\ timer # None
  /\ ReadSavedParameters(timer)
  /\ UNCHANGED <<load, panel, events, kept>>

--------------------------------------------------------------------------------
\* finishRead, of a read that ended with a result, a failure, no memory or no
\* word.
FinishRead(id, f, outcome) ==
  /\ cache' = IF outcome = "result" THEN Put(cache, Reading(id, f)) ELSE cache
  /\ ranOut' = (ranOut \/ outcome \in {"oom", "stopped"})
  /\ box' = IF box = None \/ box.id # id THEN box
            ELSE IF outcome = "result" THEN Box(id, "ready", Reading(id, f))
            ELSE Box(id, "error", None)

\* Mutant of Settle: whichever reader it is of.
SettleAny(r, outcome) ==
  StopParametersRead /\ FinishRead(reads[r].id, reads[r].file, outcome)

\* settle: what is of a reader the page no longer holds is let go.
Settle(r, outcome) ==
  IF reader # r THEN UNCHANGED <<box, target, timers, reads, cache, ranOut>>
  ELSE StopParametersRead /\ FinishRead(reads[r].id, reads[r].file, outcome)
Still == <<load, tree, row, pending, large>>

\* Where reader r is now, and what it posted that the page has not taken.
Move(r, state, out) ==
  reads' = [reads EXCEPT ![r] = [id |-> reads[r].id, file |-> reads[r].file,
                                 state |-> state, out |-> out]]

\* The page takes a message of reader r, which has not been ended.
TakeMessage(r) ==
  /\ reads[r].out # <<>>
  /\ LET m == Head(reads[r].out) IN
     IF m = "started"
     THEN /\ startup' = None /\ watch' = r
          /\ Move(r, reads[r].state, Tail(reads[r].out))
          /\ UNCHANGED <<box, target, timer, reader, cache, ranOut>>
     ELSE Settle(r, m)
  /\ UNCHANGED <<Still, events>>
StartupTimeout(r) ==
  /\ startup = r /\ Settle(r, "stopped")
  /\ UNCHANGED <<Still, events>>
EventFires(e) ==
  /\ e \in events /\ events' = events \ {e}
  /\ Settle(e.reader, e.outcome)
  /\ UNCHANGED Still

\* The reader: it takes the lock and says so, reads, and answers; the browser
\* may end it at any point.
Event(r, outcome) == [reader |-> r, outcome |-> outcome]
Unmoved == <<load, panel, target, timers, kept>>
Start(r) ==
  /\ reads[r].state = "new"
  /\ Move(r, "started", <<"started">>)
  /\ UNCHANGED <<Unmoved, events>>
Answer(r) ==
  /\ reads[r].state = "started"
  /\ \E outcome \in {"result", "error", "oom"} :
       Move(r, "done", Append(reads[r].out, outcome))
  /\ UNCHANGED <<Unmoved, events>>
Vanish(r) ==
  /\ reads[r].state \in {"new", "started", "done"}
  /\ Move(r, "gone", reads[r].out)
  /\ events' \in {events, events \cup {Event(r, "error")}}
  /\ UNCHANGED Unmoved

\* Mutant of GrantLock: only a reader that says it has ended gives up its lock.
GrantLockOfDone(r) ==
  /\ watch = r /\ reads[r].state = "done"
  /\ Event(r, "stopped") \notin events
  /\ events' = events \cup {Event(r, "stopped")}
  /\ UNCHANGED <<Unmoved, reads>>

\* The lock of a reader that has gone is the page's.
GrantLock(r) ==
  /\ watch = r /\ reads[r].state = "gone"
  /\ Event(r, "stopped") \notin events
  /\ events' = events \cup {Event(r, "stopped")}
  /\ UNCHANGED <<Unmoved, reads>>

--------------------------------------------------------------------------------
Next ==
  \/ \E l \in L!Loads : Open(l) \/ Show(l) \/ Aside(l) \/ TakePanel(l)
  \/ \E i \in Indices : Select(i)
  \/ Export \/ Container \/ Escape \/ Press \/ TimerFires
  \/ \E r \in Runs :
       \/ TakeMessage(r) \/ StartupTimeout(r)
       \/ Start(r) \/ Answer(r) \/ Vanish(r) \/ GrantLock(r)
  \/ \E e \in events : EventFires(e)

\* The page's timers and events come.  A reader that has started answers or is
\* ended; one that has not need never start.
Fairness ==
  /\ WF_vars(TimerFires)
  /\ \A r \in Runs :
       /\ WF_vars(TakeMessage(r)) /\ WF_vars(StartupTimeout(r))
       /\ WF_vars(Answer(r) \/ (reads[r].state = "started" /\ Vanish(r)))
       /\ WF_vars(GrantLock(r))
       /\ WF_vars(\E e \in events : e.reader = r /\ EventFires(e))

Spec == Init /\ [][Next]_vars /\ Fairness

--------------------------------------------------------------------------------
Readings == [id : Ids, file : L!Loads]
PanelTypes ==
  /\ {tree, row} \subseteq BOOLEAN
  /\ pending \in Indices \cup {None}
  /\ box \in [id : Ids, state : {"loading", "ready", "error", "on-request"},
              reading : Readings \cup {None}] \cup {None}
ReadTypes ==
  /\ {target, timer} \subseteq Ids \cup {None}
  /\ {reader, startup, watch} \subseteq Runs \cup {None}
  /\ reads \in [Runs -> [id : Ids \cup {None}, file : L!Loads \cup {None},
                         state : {"none", "new", "started", "done", "gone", "ended"},
                         out : Seq({"started", "result", "error", "oom"})]]
KeptTypes ==
  /\ cache \in Seq(Readings) /\ Len(cache) <= Remembered
  /\ {large, ranOut} \subseteq BOOLEAN
Events == [reader : Runs, outcome : {"error", "stopped"}]
TypeOK == L!TypeOK /\ PanelTypes /\ ReadTypes /\ KeptTypes /\ events \subseteq Events

\* The page reads for one element at a time, by its delay or by one reader, and
\* a reader it has turned from is ended: selecting element after element leaves
\* no worker behind.
OneRead ==
  /\ IF target = None THEN timer = None /\ reader = None
     ELSE \/ timer = target /\ reader = None
          \/ timer = None /\ reader # None /\ reads[reader].id = target
  /\ \A r \in Runs \ {reader} : reads[r].state \in {"none", "gone", "ended"}

Loading == box # None /\ box.state = "loading"

\* A group that says it is loading has a read behind it, whatever was selected,
\* cancelled or answered late in between.
LoadingIsRead == Loading => target = box.id

\* A group is shown with a model only, though a row of the former one can be
\* selected while another file loads; and what it shows, or what is kept to be
\* shown, was read from the file on the screen, for the element the group is of.
ReadingIsOfElement ==
  /\ box # None => model # None
  /\ box # None /\ box.state = "ready" =>
       box.reading = Reading(box.id, fileOf[model])
  /\ \A e \in Entries(cache) : e.file = file

\* The group in the panel is of the element that is selected, or of the one it is a
\* piece of, though the panels of elements clicked past, left or deselected come
\* after the click.  (loadBytes, main.ts:1335-1336.)
GroupIsOfSelected ==
  box # None => pending # None /\ box.id = PanelId(pending)

\* After a read of the open file ran out of memory none begins unasked, and the
\* delay of none is running.
AsksAfterRunningOut == ranOut => timer = None

\* No group stays loading, and none takes over from another that is: a reader that
\* answers, fails, vanishes or never starts is found out.
LoadingEnds == Loading ~> ~Loading
================================================================================
