------------------------------- MODULE ViewerLoad -------------------------------
(***************************************************************************)
(* Opening a file in the browser viewer: loadBytes of                      *)
(* src/viewer/src/main.ts and the worker that decodes, worker.ts.          *)
(*                                                                         *)
(* The page takes one event at a time.  A load is one call of loadBytes: it*)
(* clears the page, awaits the file's bytes, and starts a decoder of its   *)
(* own, which answers by messages.  Another load may begin at any of those *)
(* points, and a decoder may be ended by the page or by the browser.       *)
(*                                                                         *)
(* A load is named by its number, a file by the number of the load it was  *)
(* first picked for, and a phase other than the last by the file it is of. *)
(***************************************************************************)
EXTENDS Naturals, Sequences, FiniteSets

CONSTANTS
  MaxLoads,     \* the loads of a behaviour (a bound)
  Indices,      \* entities of a model
  MaxAsks,      \* requests a decoder has not answered (a bound)
  Overlapping,  \* whether a load may begin while another awaits its bytes
  Silent,       \* whether the browser may end a decoder and raise no event
  Demos,        \* whether the gallery has demos to fetch
  Phased,       \* whether files have more than one phase
  None          \* no load, no file, the last phase

Loads == 1..MaxLoads

ASSUME LoadsAssumption == MaxLoads \in Nat /\ MaxAsks \in Nat /\ None \notin Loads
ASSUME FlagsAssumption == {Overlapping, Silent, Demos, Phased} \subseteq BOOLEAN

Notices == [type : {"wasm", "ready", "error"}]
Infos == [type : {"info"}, index : Indices, panel : BOOLEAN]
Stages == {"none", "init", "parsing", "open", "failed", "dead", "ended"}

VARIABLES
  pc,       \* pc[l]: idle, fetching, reading, begun or over
  cur,      \* the load that last set currentFile
  file,     \* currentFile
  fileOf,   \* fileOf[l]: the file load l was called with
  phase,    \* currentPhase
  offered,  \* the file whose phases the page lists
  asked,    \* asked[l]: the phase load l asks for
  card,     \* whether the loading card is up
  model,    \* the load whose model is shown
  failed,   \* the load whose failure is shown
  wasm,     \* whether decoderWasm is set
  worker,   \* the load whose decoder the page holds
  stage,    \* stage[l]: where the decoder of load l is
  inbox,    \* inbox[l]: the entities it has been asked for
  outbox,   \* outbox[l]: the messages it posted and the page has not taken
  errors    \* the loads whose decoder has an error event under way

vars == <<pc, cur, file, fileOf, phase, offered, asked, card, model, failed,
          wasm, worker, stage, inbox, outbox, errors>>
choice == <<cur, file, fileOf, phase, offered, asked>>
decoders == <<worker, stage, inbox, outbox>>

Init ==
  /\ pc = [l \in Loads |-> "idle"]
  /\ cur = None /\ file = None /\ fileOf = [l \in Loads |-> None]
  /\ phase = None /\ offered = None /\ asked = [l \in Loads |-> None]
  /\ card = FALSE /\ model = None /\ failed = None /\ wasm = FALSE
  /\ worker = None /\ stage = [l \in Loads |-> "none"]
  /\ inbox = [l \in Loads |-> <<>>] /\ outbox = [l \in Loads |-> <<>>]
  /\ errors = {}

Goto(l, step) == pc' = [pc EXCEPT ![l] = step]

\* The load to come, and whether one is awaited.
Upcoming(l) == pc[l] = "idle" /\ \A k \in Loads : k < l => pc[k] # "idle"
Waiting == \E k \in Loads : pc[k] \in {"fetching", "reading"}

\* Mutant of EndIn: the page lets go of the decoder and does not end it.
LetGo(f, v) == f

\* stopWorker and resetWorker: the decoder the page holds is ended, and what it
\* posted is not delivered; then load l's is started, if any.  Ending is also
\* what an error and a file that cannot be read do.
EndIn(f, v) == IF worker = None THEN f ELSE [f EXCEPT ![worker] = v]
Hold(l) ==
  /\ worker' = l
  /\ stage' = IF l = None THEN EndIn(stage, "ended")
              ELSE [EndIn(stage, "ended") EXCEPT ![l] = "init"]
  /\ inbox' = EndIn(inbox, <<>>) /\ outbox' = EndIn(outbox, <<>>)
StopWorker == Hold(None)

\* failLoad and showTooLarge, for load l.
FailLoad(l) == StopWorker /\ card' = FALSE /\ failed' = l

--------------------------------------------------------------------------------
\* Mutant of Begin: the phase stays, whatever file is next.
BeginAtPhase(l, f, p) ==
  /\ Goto(l, "reading")
  /\ cur' = l /\ file' = f /\ fileOf' = [fileOf EXCEPT ![l] = f]
  /\ phase' = p /\ offered' = offered
  /\ asked' = [asked EXCEPT ![l] = phase']
  /\ card' = TRUE /\ model' = None /\ failed' = None
  /\ StopWorker
  /\ UNCHANGED <<wasm, errors>>

\* What loadBytes does before its await: load l reads file f, with phase p of the
\* page's own unless f is another file than the one open.
Begin(l, f, p) ==
  /\ Goto(l, "reading")
  /\ cur' = l /\ file' = f /\ fileOf' = [fileOf EXCEPT ![l] = f]
  /\ phase' = IF f = file THEN p ELSE None
  /\ offered' = IF f = file THEN offered ELSE None
  /\ asked' = [asked EXCEPT ![l] = phase']
  /\ card' = TRUE /\ model' = None /\ failed' = None
  /\ StopWorker
  /\ UNCHANGED <<wasm, errors>>

\* A file is picked or dropped, whatever the page is doing.
Pick(l) == Upcoming(l) /\ (Overlapping \/ ~Waiting) /\ Begin(l, l, phase)

\* The open file is read again: with other limits or meshes, or at phase p.
Reopen(l, p) ==
  /\ Upcoming(l) /\ (Overlapping \/ ~Waiting)
  /\ file # None /\ ~card
  /\ p = phase \/ p = None \/ (p = offered /\ offered # None)
  /\ Begin(l, file, p)

\* loadDemoFile: the file is fetched first, and a fetch that fails takes the
\* card down.
Fetch(l) ==
  /\ Demos /\ Upcoming(l) /\ (Overlapping \/ ~(Waiting \/ card))
  /\ Goto(l, "fetching")
  /\ UNCHANGED <<choice, card, model, failed, wasm, decoders, errors>>
Fetched(l) == pc[l] = "fetching" /\ Begin(l, l, phase)
FetchFails(l) ==
  /\ pc[l] = "fetching" /\ Goto(l, "over")
  /\ card' = FALSE
  /\ UNCHANGED <<choice, model, failed, wasm, decoders, errors>>

\* The await ends: with the bytes, which a new decoder is given, or without.
BytesArrive(l) ==
  /\ pc[l] = "reading" /\ Goto(l, "begun")
  /\ Hold(l)
  /\ UNCHANGED <<choice, card, model, failed, wasm, errors>>
BytesFail(l) ==
  /\ pc[l] = "reading" /\ Goto(l, "over")
  /\ FailLoad(l)
  /\ UNCHANGED <<choice, model, wasm, errors>>

--------------------------------------------------------------------------------
\* The decoder's side.
Post(l, m) == outbox' = [outbox EXCEPT ![l] = Append(@, m)]
Notice(t) == [type |-> t]
Stage(l, s) == stage' = [stage EXCEPT ![l] = s]
Page == <<pc, choice, card, model, failed, wasm, worker>>

\* Mutant of Initialise: the first load alone hands the wasm over.
InitialiseFirst(l) ==
  /\ stage[l] = "init" /\ Stage(l, "parsing")
  /\ IF l > 1 THEN UNCHANGED outbox ELSE Post(l, Notice("wasm"))
  /\ UNCHANGED <<Page, inbox, errors>>

\* It starts the compiled wasm it was given, or compiles it and hands it over.
Initialise(l) ==
  /\ stage[l] = "init" /\ Stage(l, "parsing")
  /\ IF wasm THEN UNCHANGED outbox ELSE Post(l, Notice("wasm"))
  /\ UNCHANGED <<Page, inbox, errors>>

\* It ends with the model, or with an error.
Parse(l) ==
  /\ stage[l] = "parsing" /\ Stage(l, "open") /\ Post(l, Notice("ready"))
  /\ UNCHANGED <<Page, inbox, errors>>
Fail(l) ==
  /\ stage[l] \in {"init", "parsing"} /\ Stage(l, "failed")
  /\ Post(l, Notice("error"))
  /\ UNCHANGED <<Page, inbox, errors>>

\* It describes an entity, or says nothing of it: before there is a model (while
\* the wasm starts it takes messages), or for one it cannot describe.
Describe(l) ==
  /\ stage[l] \in {"init", "open", "failed"} /\ inbox[l] # <<>>
  /\ inbox' = [inbox EXCEPT ![l] = Tail(@)]
  /\ \E whole \in BOOLEAN :
       /\ whole => stage[l] = "open"
       /\ Post(l, [type |-> "info", index |-> Head(inbox[l]), panel |-> whole])
  /\ UNCHANGED <<Page, stage, errors>>

\* The browser ends it, and raises an event or none.
Die(l) ==
  /\ stage[l] \in {"init", "parsing", "open"} /\ Stage(l, "dead")
  /\ errors' = errors \cup {l} \/ (Silent /\ UNCHANGED errors)
  /\ UNCHANGED <<Page, inbox, outbox>>

--------------------------------------------------------------------------------
\* The page's side of the messages.  Those of a decoder it ended do not come.
Taken(l, t) == outbox[l] # <<>> /\ Head(outbox[l]).type = t
Drop(l) == outbox' = [outbox EXCEPT ![l] = Tail(@)]

TakeWasm(l) ==
  /\ Taken(l, "wasm") /\ Drop(l) /\ wasm' = TRUE
  /\ UNCHANGED <<pc, choice, card, model, failed, worker, stage, inbox, errors>>

\* The model is shown, and the phases of the file; a phase it has not is let go.
TakeReady(l) ==
  /\ Taken(l, "ready") /\ Drop(l)
  /\ model' = l /\ card' = FALSE
  /\ offered' = IF Phased THEN fileOf[l] ELSE None
  /\ phase' = IF phase = offered' THEN phase ELSE None
  /\ UNCHANGED <<pc, cur, file, fileOf, asked, failed, wasm, worker, stage, inbox,
                 errors>>

\* It failed, or its model cannot be received (messageerror).
TakeError(l) ==
  /\ Taken(l, "error") \/ Taken(l, "ready")
  /\ FailLoad(l)
  /\ UNCHANGED <<pc, choice, model, wasm, errors>>

\* Mutant of ErrorFires: whichever decoder the event is of.
ErrorOfAny(l) ==
  /\ l \in errors /\ errors' = errors \ {l} /\ FailLoad(l)
  /\ UNCHANGED <<pc, choice, model, wasm>>

\* Mutant of ErrorFires: nobody listens for it.
ErrorUnheard(l) ==
  /\ l \in errors /\ errors' = errors \ {l}
  /\ UNCHANGED <<decoders, card, failed, pc, choice, model, wasm>>

\* An error event of a decoder the page no longer holds is let go.
ErrorFires(l) ==
  /\ l \in errors /\ errors' = errors \ {l}
  /\ IF worker = l THEN FailLoad(l) ELSE UNCHANGED <<decoders, card, failed>>
  /\ UNCHANGED <<pc, choice, model, wasm>>

\* The page asks the decoder it holds, if any, for entity i, and has its answer.
Ask(i) ==
  /\ IF worker = None THEN UNCHANGED inbox
     ELSE /\ Len(inbox[worker]) + Len(outbox[worker]) < MaxAsks
          /\ inbox' = [inbox EXCEPT ![worker] = Append(@, i)]
  /\ UNCHANGED <<Page, stage, outbox, errors>>
TakeInfo(l) ==
  /\ Taken(l, "info") /\ Drop(l)
  /\ UNCHANGED <<Page, stage, inbox, errors>>

--------------------------------------------------------------------------------
Begins(l) == Pick(l) \/ Fetched(l) \/ \E p \in Loads \cup {None} : Reopen(l, p)
Reads(l) == BytesArrive(l) \/ BytesFail(l)
Decodes(l) == Initialise(l) \/ Parse(l) \/ Fail(l)
Takes(l) == TakeWasm(l) \/ TakeReady(l) \/ TakeError(l) \/ TakeInfo(l)

Next ==
  \/ \E l \in Loads :
       \/ Begins(l) \/ Fetch(l) \/ FetchFails(l) \/ Reads(l)
       \/ Decodes(l) \/ Describe(l) \/ Die(l)
       \/ Takes(l) \/ ErrorFires(l)
  \/ \E i \in Indices : Ask(i)

\* An await ends, a decode ends, and the page's event loop goes on.  A user need
\* do nothing.
Fairness ==
  \A l \in Loads :
    /\ WF_vars(Reads(l)) /\ WF_vars(Decodes(l))
    /\ WF_vars(Takes(l)) /\ WF_vars(ErrorFires(l))

Spec == Init /\ [][Next]_vars /\ Fairness

--------------------------------------------------------------------------------
TypeOK ==
  /\ pc \in [Loads -> {"idle", "fetching", "reading", "begun", "over"}]
  /\ {cur, file, phase, offered, model, failed, worker} \subseteq Loads \cup {None}
  /\ fileOf \in [Loads -> Loads \cup {None}]
  /\ asked \in [Loads -> Loads \cup {None}]
  /\ card \in BOOLEAN /\ wasm \in BOOLEAN
  /\ stage \in [Loads -> Stages]
  /\ inbox \in [Loads -> Seq(Indices)]
  /\ outbox \in [Loads -> Seq(Notices \cup Infos)]
  /\ errors \subseteq Loads

\* The model shown is of the file the page keeps as the open one: what it reads
\* again, or reads an element's parameters from, is the file on the screen
\* (currentFile and model, main.ts).
ModelIsOfFile == model # None => fileOf[model] = file

\* A file's bytes are read with no decoder beside them: its memory is what the
\* read may need (stopWorker at the start of loadBytes).
ReadsAlone ==
  \A k, l \in Loads :
    pc[k] = "reading" => stage[l] \in {"none", "dead", "ended"}

\* The loading card is up exactly while the file last opened has neither its
\* model nor its failure on the screen, however its decoder ends and whatever a
\* former one says (startLoadOverlay, stopLoadOverlay).
CardIsTrue == card = (cur # None /\ cur \notin {model, failed})

\* A load asks for a phase of the file it reads or for the last one, never for a
\* phase of a file open before (currentPhase).
PhaseIsOfFile == \A l \in Loads : asked[l] # None => asked[l] = fileOf[l]

\* With a model shown the page has the compiled wasm, whichever load had to
\* compile it and whether that load was replaced: a read of saved parameters
\* always has it (decoderWasm).
ModelHasWasm == model # None => wasm

\* Every load ends: its card goes down, or another load takes its place.
LoadEnds == \A l \in Loads : (card /\ cur = l) ~> (~card \/ cur # l)
================================================================================
