---------------------------- MODULE ViewerLoadProofs ----------------------------
(***************************************************************************)
(* Theorems about ViewerLoad, for any number of loads, entities and        *)
(* requests, where no load begins while another awaits its bytes: what is  *)
(* shown is of the file the page keeps, a file is read with no decoder     *)
(* beside it, the card says what is so, a phase asked for is one of the    *)
(* file, the page has the compiled wasm, and, if the browser is not silent,*)
(* what takes the card down is under way while it is up.                   *)
(*                                                                         *)
(* The argument: only the decoder of the load that came last lives or has  *)
(* messages under way, and there is none while bytes are awaited; so every *)
(* answer and every failure that reaches the page is of the current load.  *)
(***************************************************************************)
EXTENDS ViewerLoad, SequenceTheorems, TLAPS

Awaits(l) == pc[l] \in {"fetching", "reading"}
Active == {"init", "parsing", "open", "failed"}

\* One load awaits at a time, and nothing is shown or decoded while it reads.
AwaitInv ==
  /\ \A k, l \in Loads : Awaits(k) /\ Awaits(l) => k = l
  /\ \A l \in Loads : pc[l] = "reading" =>
       cur = l /\ worker = None /\ model = None /\ failed = None
  /\ \A l \in Loads : pc[l] = "fetching" => ~card

\* What the page shows and keeps is of the current load.
ShownInv ==
  /\ file = IF cur = None THEN None ELSE fileOf[cur]
  /\ cur # None => file # None
  /\ {model, failed} \subseteq {None, cur}
  /\ {phase, offered} \subseteq {None, file}

\* So is the decoder, the only one that lives or has messages under way.
DecoderInv ==
  /\ worker \in {None, cur}
  /\ \A l \in Loads : stage[l] \in Active \/ outbox[l] # <<>> => worker = l

Messages == Notices \cup Infos
Readies == {Notice("ready")}
Panels == {m \in Infos : m.panel}

\* A message of type t is under way, and one comes before every message of M.
Carries(s, t) == \E m \in 1..Len(s) : s[m].type = t
Preceded(s, M, t) ==
  \A n \in 1..Len(s) : s[n] \in M => \E m \in 1..(n-1) : s[m].type = t

\* A model comes after the wasm, unless the page has that already, and a panel
\* after its model.
WasmInv ==
  \A l \in Loads : wasm \/ /\ stage[l] = "parsing" => Carries(outbox[l], "wasm")
                           /\ Preceded(outbox[l], Readies, "wasm")
PanelInv ==
  \A l \in Loads : model = l \/ /\ stage[l] = "open" => Carries(outbox[l], "ready")
                                /\ Preceded(outbox[l], Panels, "ready")

IInv == /\ TypeOK /\ AwaitInv /\ ShownInv /\ DecoderInv /\ WasmInv /\ PanelInv
        /\ CardIsTrue /\ PhaseIsOfFile /\ ModelHasWasm

--------------------------------------------------------------------------------
\* Messages: one more is posted, or the first is taken.
LEMMA Posted ==
  ASSUME NEW s \in Seq(Messages), NEW m \in Messages
  PROVE  /\ Append(s, m) \in Seq(Messages)
         /\ \A t : Carries(s, t) \/ m.type = t => Carries(Append(s, m), t)
         /\ \A M, t : Preceded(s, M, t) /\ (m \in M => Carries(s, t)) =>
                        Preceded(Append(s, m), M, t)
<1> DEFINE a == Append(s, m)
<1>1. /\ a \in Seq(Messages) /\ Len(a) = Len(s) + 1 /\ Len(s) \in Nat
      /\ \A n \in 1..Len(s) : a[n] = s[n]
      /\ a[Len(s) + 1] = m
  OBVIOUS
<1> HIDE DEF a
<1>2. ASSUME NEW t, Carries(s, t) \/ m.type = t
      PROVE  Carries(a, t)
  BY <1>1, <1>2 DEF Carries
<1>3. ASSUME NEW M, NEW t, Preceded(s, M, t), m \in M => Carries(s, t)
      PROVE  Preceded(a, M, t)
  BY <1>1, <1>3 DEF Carries, Preceded
<1> QED
  BY <1>1, <1>2, <1>3 DEF a

LEMMA TakenFirst ==
  ASSUME NEW s \in Seq(Messages), s # <<>>
  PROVE  /\ Tail(s) \in Seq(Messages) /\ Head(s) \in Messages
         /\ \A M, t : Preceded(s, M, t) => Head(s) \notin M
         /\ \A t : Head(s).type # t /\ Carries(s, t) => Carries(Tail(s), t)
         /\ \A M, t : Head(s).type # t /\ Preceded(s, M, t) => Preceded(Tail(s), M, t)
<1> DEFINE a == Tail(s)
<1>1. /\ a \in Seq(Messages) /\ Head(s) \in Messages /\ Head(s) = s[1]
      /\ Len(s) \in Nat /\ Len(s) > 0 /\ Len(a) = Len(s) - 1
      /\ \A n \in 1..Len(a) : a[n] = s[n + 1]
  OBVIOUS
<1> HIDE DEF a
<1>2. \A M, t : Preceded(s, M, t) => Head(s) \notin M
  BY <1>1 DEF Preceded
<1>3. ASSUME NEW t, s[1].type # t, Carries(s, t)
      PROVE  Carries(a, t)
  <2>1. PICK m \in 1..Len(s) : s[m].type = t
    BY <1>3 DEF Carries
  <2>2. m - 1 \in 1..Len(a) /\ a[m - 1] = s[m]
    BY <1>1, <1>3, <2>1
  <2> QED
    BY <2>1, <2>2 DEF Carries
<1>4. ASSUME NEW M, NEW t, s[1].type # t, Preceded(s, M, t)
      PROVE  Preceded(a, M, t)
  <2> SUFFICES ASSUME NEW n \in 1..Len(a), a[n] \in M
               PROVE  \E m \in 1..(n-1) : a[m].type = t
    BY DEF Preceded
  <2>1. n + 1 \in 1..Len(s) /\ s[n + 1] \in M
    BY <1>1
  <2>2. PICK m \in 1..n : s[m].type = t
    BY <1>4, <2>1 DEF Preceded
  <2>3. m - 1 \in 1..(n-1) /\ m - 1 \in 1..Len(a) /\ a[m - 1] = s[m]
    BY <1>1, <1>4, <2>2
  <2> QED
    BY <2>2, <2>3
<1> QED
  BY <1>1, <1>2, <1>3, <1>4 DEF a

\* The decoder the page holds is ended: none is active and no message is under
\* way.
LEMMA Stopped ==
  ASSUME IInv, StopWorker
  PROVE  /\ worker' = None
         /\ stage' \in [Loads -> Stages] /\ inbox' \in [Loads -> Seq(Indices)]
         /\ outbox' \in [Loads -> Seq(Messages)]
         /\ \A l \in Loads : stage'[l] \notin Active /\ outbox'[l] = <<>>
<1>1. CASE worker = None
  <2>1. worker' = None /\ UNCHANGED <<stage, inbox, outbox>>
    BY <1>1 DEF StopWorker, Hold, EndIn
  <2> QED
    BY <1>1, <2>1, LoadsAssumption DEF IInv, TypeOK, DecoderInv, Messages
<1>2. CASE worker # None
  <2>1. worker \in Loads
    BY <1>2 DEF IInv, TypeOK
  <2>2. /\ stage' = [stage EXCEPT ![worker] = "ended"]
        /\ inbox' = [inbox EXCEPT ![worker] = <<>>]
        /\ outbox' = [outbox EXCEPT ![worker] = <<>>]
        /\ worker' = None
    BY <1>2 DEF StopWorker, Hold, EndIn
  <2> QED
    BY <2>1, <2>2 DEF IInv, TypeOK, DecoderInv, Stages, Active, Messages
<1> QED
  BY <1>1, <1>2

--------------------------------------------------------------------------------
LEMMA InitIInv == Init => IInv
<1> SUFFICES ASSUME Init PROVE IInv
  OBVIOUS
<1> USE DEF Init
<1>1. TypeOK
  <2>1. <<>> \in Seq(Indices) /\ <<>> \in Seq(Notices \cup Infos)
    OBVIOUS
  <2>2. /\ stage \in [Loads -> Stages] /\ inbox \in [Loads -> Seq(Indices)]
        /\ outbox \in [Loads -> Seq(Notices \cup Infos)]
    BY <2>1 DEF Stages
  <2> QED
    BY <2>2 DEF TypeOK
<1>2. AwaitInv
  BY DEF AwaitInv, Awaits
<1>3. ShownInv /\ DecoderInv
  BY DEF ShownInv, DecoderInv, Active
<1>4. WasmInv /\ PanelInv
  BY DEF WasmInv, PanelInv, Preceded
<1>5. CardIsTrue /\ PhaseIsOfFile /\ ModelHasWasm
  BY DEF CardIsTrue, PhaseIsOfFile, ModelHasWasm
<1> QED
  BY <1>1, <1>2, <1>3, <1>4, <1>5 DEF IInv

\* A load begins, where none other awaits.
LEMMA BeginStep ==
  ASSUME IInv, NEW l \in Loads, NEW f \in Loads, NEW p \in {None, file},
         \A k \in Loads \ {l} : ~Awaits(k),
         Begin(l, f, p)
  PROVE  IInv'
<1> USE LoadsAssumption
<1>1. StopWorker
  BY DEF Begin
<1>2. /\ worker' = None
      /\ stage' \in [Loads -> Stages] /\ inbox' \in [Loads -> Seq(Indices)]
      /\ outbox' \in [Loads -> Seq(Messages)]
      /\ \A k \in Loads : stage'[k] \notin Active /\ outbox'[k] = <<>>
  BY <1>1, Stopped
<1>3. /\ pc' = [pc EXCEPT ![l] = "reading"] /\ cur' = l /\ file' = f
      /\ fileOf' = [fileOf EXCEPT ![l] = f] /\ phase' \in {None, f}
      /\ offered' \in {None, f} /\ asked' = [asked EXCEPT ![l] = phase']
      /\ card' = TRUE /\ model' = None /\ failed' = None /\ wasm' = wasm
      /\ errors' = errors
  BY DEF Begin, Goto, IInv, ShownInv
<1>4. TypeOK'
  BY <1>2, <1>3 DEF IInv, TypeOK, Messages
<1>5. AwaitInv'
  BY <1>2, <1>3 DEF IInv, TypeOK, AwaitInv, Awaits
<1>6. ShownInv' /\ PhaseIsOfFile'
  BY <1>3 DEF IInv, TypeOK, ShownInv, PhaseIsOfFile
<1>7. DecoderInv'
  BY <1>2 DEF DecoderInv
<1>8. WasmInv' /\ PanelInv'
  BY <1>2 DEF WasmInv, PanelInv, Preceded, Active
<1>9. CardIsTrue' /\ ModelHasWasm'
  BY <1>3 DEF CardIsTrue, ModelHasWasm
<1> QED
  BY <1>4, <1>5, <1>6, <1>7, <1>8, <1>9 DEF IInv

\* The current load fails.
LEMMA FailStep ==
  ASSUME IInv, NEW l \in Loads, cur = l, FailLoad(l),
         \/ worker = l /\ UNCHANGED pc
         \/ pc[l] = "reading" /\ Goto(l, "over"),
         UNCHANGED <<choice, model, wasm>>,
         errors' \subseteq errors
  PROVE  IInv'
<1> USE LoadsAssumption
<1>1. StopWorker /\ card' = FALSE /\ failed' = l
  BY DEF FailLoad
<1>2. /\ worker' = None
      /\ stage' \in [Loads -> Stages] /\ inbox' \in [Loads -> Seq(Indices)]
      /\ outbox' \in [Loads -> Seq(Messages)]
      /\ \A k \in Loads : stage'[k] \notin Active /\ outbox'[k] = <<>>
  BY <1>1, Stopped
<1>3. /\ cur' = cur /\ file' = file /\ fileOf' = fileOf /\ phase' = phase
      /\ offered' = offered /\ asked' = asked /\ model' = model /\ wasm' = wasm
      /\ errors' \subseteq errors
  BY DEF choice
<1>4. /\ pc' \in [Loads -> {"idle", "fetching", "reading", "begun", "over"}]
      /\ \A k \in Loads : pc'[k] = pc[k] \/ pc'[k] = "over"
      /\ \A k \in Loads : pc'[k] # "reading"
  <2>1. CASE worker = l /\ UNCHANGED pc
    BY <2>1 DEF IInv, TypeOK, AwaitInv
  <2>2. CASE pc[l] = "reading" /\ Goto(l, "over")
    BY <2>2 DEF IInv, TypeOK, AwaitInv, Awaits, Goto
  <2> QED
    BY <2>1, <2>2
<1>5. TypeOK'
  <2>1. {cur', file', phase', offered', model', failed', worker'} \subseteq Loads \cup {None}
    BY <1>1, <1>2, <1>3 DEF IInv, TypeOK
  <2>2. errors' \subseteq Loads /\ card' \in BOOLEAN /\ wasm' \in BOOLEAN
    BY <1>1, <1>3 DEF IInv, TypeOK
  <2> QED
    BY <1>2, <1>3, <1>4, <2>1, <2>2 DEF IInv, TypeOK, Messages
<1>6. AwaitInv'
  BY <1>1, <1>4 DEF IInv, AwaitInv, Awaits
<1>7. ShownInv' /\ PhaseIsOfFile'
  BY <1>1, <1>3 DEF IInv, ShownInv, PhaseIsOfFile
<1>8. DecoderInv'
  BY <1>2 DEF DecoderInv
<1>9. WasmInv' /\ PanelInv'
  BY <1>2 DEF WasmInv, PanelInv, Preceded, Active
<1>10. CardIsTrue' /\ ModelHasWasm'
  <2>1. ModelHasWasm'
    BY <1>3 DEF IInv, ModelHasWasm
  <2>2. cur' \in {model', failed'}
    BY <1>1, <1>3
  <2> QED
    BY <1>1, <2>1, <2>2 DEF CardIsTrue
<1> QED
  BY <1>5, <1>6, <1>7, <1>8, <1>9, <1>10 DEF IInv

\* What neither begins a load nor ends one keeps these.
LEMMA Kept ==
  ASSUME IInv, UNCHANGED <<pc, choice, card, model, failed, worker>>
  PROVE  /\ AwaitInv' /\ ShownInv' /\ CardIsTrue' /\ PhaseIsOfFile'
         /\ worker' \in {None, cur'}
         /\ wasm' \in {wasm, TRUE} => ModelHasWasm'
BY DEF choice, IInv, AwaitInv, Awaits, ShownInv, CardIsTrue, PhaseIsOfFile,
       DecoderInv, ModelHasWasm

\* A decoder that is active goes to a stage and posts a message or none.
LEMMA DecoderStep ==
  ASSUME IInv, NEW l \in Loads, stage[l] \in Active,
         NEW s \in Stages, stage' = [stage EXCEPT ![l] = s],
         inbox' \in [Loads -> Seq(Indices)],
         NEW o \in Seq(Messages), outbox' = [outbox EXCEPT ![l] = o],
         wasm \/ /\ s = "parsing" => Carries(o, "wasm")
                 /\ Preceded(o, Readies, "wasm"),
         model = l \/ /\ s = "open" => Carries(o, "ready")
                      /\ Preceded(o, Panels, "ready"),
         errors' \subseteq Loads,
         UNCHANGED Page
  PROVE  IInv'
<1> USE LoadsAssumption
<1>1. /\ UNCHANGED <<pc, choice, card, model, failed, worker>> /\ wasm' = wasm
  BY DEF Page
<1>2. TypeOK'
  BY DEF Page, choice, IInv, TypeOK, Messages
<1>3. /\ AwaitInv' /\ ShownInv' /\ CardIsTrue' /\ PhaseIsOfFile' /\ ModelHasWasm'
      /\ worker' \in {None, cur'}
  BY <1>1, Kept
<1>4. DecoderInv'
  BY <1>1, <1>3 DEF IInv, TypeOK, DecoderInv
<1>5. WasmInv' /\ PanelInv'
  BY <1>1 DEF IInv, TypeOK, WasmInv, PanelInv
<1> QED
  BY <1>2, <1>3, <1>4, <1>5 DEF IInv

--------------------------------------------------------------------------------
\* The actions, one by one.
LEMMA BeginsStep ==
  ASSUME IInv, ~Overlapping, NEW l \in Loads, Begins(l)
  PROVE  IInv'
<1>1. {phase, None} \subseteq {None, file} /\ offered \in {None, file}
  BY DEF IInv, ShownInv
<1>2. CASE Pick(l)
  <2>1. \A k \in Loads \ {l} : ~Awaits(k)
    BY <1>2 DEF Pick, Waiting, Awaits
  <2> QED
    BY <1>1, <1>2, <2>1, BeginStep DEF Pick
<1>3. CASE Fetched(l)
  <2>1. \A k \in Loads \ {l} : ~Awaits(k)
    BY <1>3 DEF Fetched, Awaits, IInv, AwaitInv
  <2> QED
    BY <1>1, <1>3, <2>1, BeginStep DEF Fetched
<1>4. ASSUME NEW p \in Loads \cup {None}, Reopen(l, p)
      PROVE  IInv'
  <2>1. \A k \in Loads \ {l} : ~Awaits(k)
    BY <1>4 DEF Reopen, Waiting, Awaits
  <2>2. p \in {None, file} /\ file \in Loads /\ Begin(l, file, p)
    BY <1>1, <1>4 DEF Reopen, IInv, TypeOK
  <2> QED
    BY <2>1, <2>2, BeginStep
<1> QED
  BY <1>2, <1>3, <1>4 DEF Begins

LEMMA FetchStep ==
  ASSUME IInv, ~Overlapping, NEW l \in Loads, Fetch(l) \/ FetchFails(l)
  PROVE  IInv'
<1>1. /\ UNCHANGED <<cur, file, fileOf, phase, offered, asked, model, failed,
                     wasm, worker, stage, inbox, outbox, errors>>
      /\ card' = card
  <2>1. FetchFails(l) => card = FALSE
    BY DEF FetchFails, IInv, TypeOK, AwaitInv
  <2> QED
    BY <2>1 DEF Fetch, FetchFails, choice, decoders
<1>2. TypeOK'
  <2>1. pc' \in [Loads -> {"idle", "fetching", "reading", "begun", "over"}]
    BY DEF Fetch, FetchFails, Goto, IInv, TypeOK
  <2> QED
    BY <1>1, <2>1 DEF IInv, TypeOK
<1>3. AwaitInv'
  <2>1. CASE Fetch(l)
    BY <1>1, <2>1 DEF Fetch, Goto, Waiting, IInv, TypeOK, AwaitInv, Awaits
  <2>2. CASE FetchFails(l)
    BY <1>1, <2>2 DEF FetchFails, Goto, IInv, TypeOK, AwaitInv, Awaits
  <2> QED
    BY <2>1, <2>2
<1>4. /\ ShownInv' /\ DecoderInv' /\ WasmInv' /\ PanelInv' /\ PhaseIsOfFile'
      /\ ModelHasWasm'
  BY <1>1 DEF IInv, ShownInv, DecoderInv, WasmInv, PanelInv, PhaseIsOfFile,
              ModelHasWasm
<1>5. CardIsTrue'
  BY <1>1 DEF IInv, CardIsTrue
<1> QED
  BY <1>2, <1>3, <1>4, <1>5 DEF IInv

LEMMA BytesArriveStep ==
  ASSUME IInv, NEW l \in Loads, BytesArrive(l)
  PROVE  IInv'
<1> USE LoadsAssumption
<1>1. /\ cur = l /\ worker = None /\ model = None /\ failed = None
      /\ \A k \in Loads : stage[k] \notin Active /\ outbox[k] = <<>>
  BY DEF BytesArrive, IInv, AwaitInv, DecoderInv
<1>2. /\ worker' = l /\ stage' = [stage EXCEPT ![l] = "init"]
      /\ inbox' = inbox /\ outbox' = outbox
  BY <1>1 DEF BytesArrive, Hold, EndIn
<1>3. /\ UNCHANGED <<cur, file, fileOf, phase, offered, asked, model, failed,
                     wasm, errors>>
      /\ card' = card
      /\ pc' = [pc EXCEPT ![l] = "begun"]
  BY DEF BytesArrive, choice, Goto
<1>4. TypeOK'
  BY <1>2, <1>3 DEF IInv, TypeOK, Stages
<1>5. AwaitInv'
  BY <1>3 DEF BytesArrive, IInv, TypeOK, AwaitInv, Awaits
<1>6. ShownInv' /\ PhaseIsOfFile' /\ ModelHasWasm'
  BY <1>3 DEF IInv, ShownInv, PhaseIsOfFile, ModelHasWasm
<1>7. DecoderInv' /\ WasmInv' /\ PanelInv'
  BY <1>1, <1>2, <1>3
  DEF IInv, TypeOK, DecoderInv, WasmInv, PanelInv, Preceded, Active
<1>8. CardIsTrue'
  BY <1>3 DEF IInv, CardIsTrue
<1> QED
  BY <1>4, <1>5, <1>6, <1>7, <1>8 DEF IInv

LEMMA BytesFailStep ==
  ASSUME IInv, NEW l \in Loads, BytesFail(l)
  PROVE  IInv'
<1>1. cur = l /\ pc[l] = "reading"
  BY DEF BytesFail, IInv, AwaitInv
<1> QED
  BY <1>1, FailStep DEF BytesFail

\* What a decoder may post.
LEMMA Postable ==
  /\ \A t \in {"wasm", "ready", "error"} :
       /\ Notice(t) \in Messages /\ Notice(t).type = t
       /\ Notice(t) \notin Panels /\ (Notice(t) \in Readies => t = "ready")
  /\ \A i \in Indices, whole \in BOOLEAN :
       LET m == [type |-> "info", index |-> i, panel |-> whole]
       IN  /\ m \in Messages /\ m \notin Readies /\ (m \in Panels => whole)
BY DEF Messages, Notices, Infos, Notice, Readies, Panels

\* What is under way from a decoder.
LEMMA UnderWay ==
  ASSUME IInv, NEW l \in Loads
  PROVE  /\ outbox \in [Loads -> Seq(Messages)] /\ outbox[l] \in Seq(Messages)
         /\ wasm \/ /\ stage[l] = "parsing" => Carries(outbox[l], "wasm")
                    /\ Preceded(outbox[l], Readies, "wasm")
         /\ model = l \/ /\ stage[l] = "open" => Carries(outbox[l], "ready")
                         /\ Preceded(outbox[l], Panels, "ready")
BY DEF IInv, TypeOK, WasmInv, PanelInv, Messages

LEMMA DecodesStep ==
  ASSUME IInv, NEW l \in Loads, Decodes(l)
  PROVE  IInv'
<1> DEFINE o == outbox[l]
<1>1. stage[l] \in Active /\ stage[l] # "open"
  BY DEF Decodes, Initialise, Parse, Fail, Active
<1>2. UNCHANGED <<Page, inbox, errors>>
  BY DEF Decodes, Initialise, Parse, Fail
<1>3. inbox' \in [Loads -> Seq(Indices)] /\ errors' \subseteq Loads
  BY <1>2 DEF IInv, TypeOK
<1>4. CASE Initialise(l)
  <2>1. stage' = [stage EXCEPT ![l] = "parsing"] /\ "parsing" \in Stages
    BY <1>4 DEF Initialise, Stage, Stages
  <2>2. CASE wasm
    <3>1. outbox' = [outbox EXCEPT ![l] = o]
      BY <1>4, <2>2, UnderWay DEF Initialise
    <3> QED
      BY <1>1, <1>2, <1>3, <2>1, <2>2, <3>1, UnderWay, DecoderStep
  <2>3. CASE ~wasm
    <3> DEFINE a == Append(o, Notice("wasm"))
    <3>1. outbox' = [outbox EXCEPT ![l] = a]
      BY <1>4, <2>3 DEF Initialise, Post
    <3>2. /\ a \in Seq(Messages) /\ Carries(a, "wasm")
          /\ Preceded(a, Readies, "wasm")
          /\ model = l \/ Preceded(a, Panels, "ready")
      BY <2>3, UnderWay, Posted, Postable
    <3> HIDE DEF a
    <3> QED
      BY <1>1, <1>2, <1>3, <2>1, <3>1, <3>2, DecoderStep
  <2> QED
    BY <2>2, <2>3
<1>5. ASSUME NEW s \in {"open", "failed"}, NEW t \in {"ready", "error"},
             Stage(l, s), Post(l, Notice(t)),
             t = "ready" <=> s = "open", t = "ready" => stage[l] = "parsing"
      PROVE  IInv'
  <2> DEFINE a == Append(o, Notice(t))
  <2>1. /\ stage' = [stage EXCEPT ![l] = s] /\ s \in Stages /\ s # "parsing"
        /\ outbox' = [outbox EXCEPT ![l] = a]
    BY <1>5 DEF Stage, Post, Stages
  <2>2. a \in Seq(Messages) /\ (s = "open" => Carries(a, "ready"))
    BY <1>5, UnderWay, Posted, Postable
  <2>3. wasm \/ Preceded(a, Readies, "wasm")
    BY <1>5, UnderWay, Posted, Postable
  <2>4. model = l \/ Preceded(a, Panels, "ready")
    BY <1>5, UnderWay, Posted, Postable
  <2> HIDE DEF a
  <2> QED
    BY <1>1, <1>2, <1>3, <2>1, <2>2, <2>3, <2>4, DecoderStep
<1> QED
  BY <1>4, <1>5 DEF Decodes, Parse, Fail

LEMMA DescribeStep ==
  ASSUME IInv, NEW l \in Loads, Describe(l)
  PROVE  IInv'
<1> DEFINE o == outbox[l]
<1>1. /\ stage[l] \in Active /\ stage[l] # "parsing" /\ stage[l] \in Stages
      /\ stage \in [Loads -> Stages] /\ errors \subseteq Loads
  BY DEF Describe, IInv, TypeOK, Active
<1>2. PICK whole \in BOOLEAN :
        /\ whole => stage[l] = "open"
        /\ Post(l, [type |-> "info", index |-> Head(inbox[l]), panel |-> whole])
  BY DEF Describe
<1> DEFINE m == [type |-> "info", index |-> Head(inbox[l]), panel |-> whole]
           a == Append(o, m)
<1>3. inbox[l] \in Seq(Indices) /\ inbox[l] # <<>>
  BY DEF Describe, IInv, TypeOK
<1>4. Head(inbox[l]) \in Indices /\ Tail(inbox[l]) \in Seq(Indices)
  BY <1>3
<1>5. inbox' \in [Loads -> Seq(Indices)]
  BY <1>4 DEF Describe, IInv, TypeOK
<1>6. m \in Messages /\ m \notin Readies /\ (m \in Panels => stage[l] = "open")
  BY <1>2, <1>4, Postable
<1>7. /\ outbox' = [outbox EXCEPT ![l] = a]
      /\ stage' = [stage EXCEPT ![l] = stage[l]]
      /\ UNCHANGED <<Page, errors>>
  BY <1>1, <1>2 DEF Describe, Post
<1> HIDE DEF m
<1>8. /\ a \in Seq(Messages)
      /\ wasm \/ Preceded(a, Readies, "wasm")
      /\ model = l \/ /\ stage[l] = "open" => Carries(a, "ready")
                      /\ Preceded(a, Panels, "ready")
  BY <1>6, UnderWay, Posted
<1> HIDE DEF a
<1> QED
  BY <1>1, <1>5, <1>7, <1>8, DecoderStep

LEMMA DieStep ==
  ASSUME IInv, NEW l \in Loads, Die(l)
  PROVE  IInv'
<1>1. stage[l] \in Active /\ "dead" \in Stages
  BY DEF Die, Active, Stages
<1>2. /\ stage' = [stage EXCEPT ![l] = "dead"] /\ outbox' = [outbox EXCEPT ![l] = outbox[l]]
      /\ inbox' \in [Loads -> Seq(Indices)] /\ errors' \subseteq Loads
      /\ UNCHANGED Page
  BY UnderWay DEF Die, Stage, IInv, TypeOK
<1> QED
  BY <1>1, <1>2, UnderWay, DecoderStep

--------------------------------------------------------------------------------
\* The page takes the first message of a decoder: it is of the current load.
LEMMA TakenOf ==
  ASSUME IInv, NEW l \in Loads, outbox[l] # <<>>
  PROVE  /\ worker = l /\ cur = l /\ \A k \in Loads : pc[k] # "reading"
         /\ file = fileOf[l]
BY LoadsAssumption DEF IInv, DecoderInv, ShownInv, AwaitInv

\* A model taken is taken with the wasm there, and a panel with its model.
LEMMA TakenInTurn ==
  ASSUME IInv, NEW l \in Loads, outbox[l] # <<>>
  PROVE  /\ Taken(l, "ready") => wasm
         /\ Taken(l, "info") /\ Head(outbox[l]).panel => model = l
<1>1. /\ Head(outbox[l]) \in Messages
      /\ wasm \/ Head(outbox[l]) \notin Readies
      /\ model = l \/ Head(outbox[l]) \notin Panels
  BY UnderWay, TakenFirst
<1>2. Taken(l, "ready") => Head(outbox[l]) \in Readies
  BY <1>1 DEF Taken, Messages, Notices, Infos, Notice, Readies
<1>3. Taken(l, "info") /\ Head(outbox[l]).panel => Head(outbox[l]) \in Panels
  BY <1>1 DEF Taken, Messages, Notices, Infos, Panels
<1> QED
  BY <1>1, <1>2, <1>3

\* What taking a message changes of the decoders.
LEMMA Dropped ==
  ASSUME IInv, NEW l \in Loads, outbox[l] # <<>>, Drop(l),
         UNCHANGED <<pc, cur, worker, stage, inbox, errors>>,
         wasm' \/ (~Taken(l, "wasm") /\ wasm' = wasm),
         model' = l \/ (~Taken(l, "ready") /\ model' = model)
  PROVE  /\ DecoderInv' /\ WasmInv' /\ PanelInv'
         /\ stage' \in [Loads -> Stages] /\ inbox' \in [Loads -> Seq(Indices)]
         /\ outbox' \in [Loads -> Seq(Messages)] /\ errors' \subseteq Loads
<1> DEFINE t == Tail(outbox[l])
<1>1. outbox' = [outbox EXCEPT ![l] = t] /\ outbox \in [Loads -> Seq(Messages)]
  BY UnderWay DEF Drop
<1>2. /\ t \in Seq(Messages) /\ worker = l
      /\ Taken(l, "wasm") \/ wasm \/ /\ stage[l] = "parsing" => Carries(t, "wasm")
                                     /\ Preceded(t, Readies, "wasm")
      /\ Taken(l, "ready") \/ model = l \/ /\ stage[l] = "open" => Carries(t, "ready")
                                           /\ Preceded(t, Panels, "ready")
  BY UnderWay, TakenFirst, TakenOf DEF Taken
<1> HIDE DEF t
<1>3. DecoderInv'
  BY <1>1, <1>2 DEF IInv, DecoderInv
<1>4. WasmInv'
  BY <1>1, <1>2 DEF IInv, WasmInv
<1>5. PanelInv'
  <2>1. \A k \in Loads \ {l} : stage[k] # "open" /\ outbox[k] = <<>>
    BY <1>2 DEF IInv, DecoderInv, Active
  <2>2. \A k \in Loads \ {l} : outbox'[k] = <<>> /\ stage'[k] # "open"
    BY <1>1, <2>1
  <2>3. model' = l \/ /\ stage'[l] = "open" => Carries(outbox'[l], "ready")
                      /\ Preceded(outbox'[l], Panels, "ready")
    BY <1>1, <1>2
  <2> QED
    BY <2>2, <2>3 DEF PanelInv, Preceded
<1> QED
  BY <1>1, <1>2, <1>3, <1>4, <1>5 DEF IInv, TypeOK

LEMMA TakeWasmStep ==
  ASSUME IInv, NEW l \in Loads, TakeWasm(l)
  PROVE  IInv'
<1>1. /\ outbox[l] # <<>> /\ Drop(l) /\ wasm' = TRUE /\ ~Taken(l, "ready")
      /\ UNCHANGED <<pc, choice, card, model, failed, worker, stage, inbox, errors>>
  BY DEF TakeWasm, Taken
<1>2. /\ AwaitInv' /\ ShownInv' /\ CardIsTrue' /\ PhaseIsOfFile' /\ ModelHasWasm'
  BY <1>1, Kept
<1>3. /\ DecoderInv' /\ WasmInv' /\ PanelInv' /\ outbox' \in [Loads -> Seq(Messages)]
  BY <1>1, Dropped DEF choice
<1>4. TypeOK'
  BY <1>1, <1>3 DEF choice, IInv, TypeOK, Messages
<1> QED
  BY <1>2, <1>3, <1>4 DEF IInv

LEMMA TakeInfoStep ==
  ASSUME IInv, NEW l \in Loads, TakeInfo(l)
  PROVE  IInv'
<1>1. /\ outbox[l] # <<>> /\ Drop(l) /\ wasm' = wasm /\ ~Taken(l, "wasm")
      /\ ~Taken(l, "ready")
      /\ UNCHANGED <<pc, choice, card, model, failed, worker, stage, inbox, errors>>
  BY DEF TakeInfo, Taken, Page
<1>2. /\ AwaitInv' /\ ShownInv' /\ CardIsTrue' /\ PhaseIsOfFile' /\ ModelHasWasm'
  BY <1>1, Kept
<1>3. /\ DecoderInv' /\ WasmInv' /\ PanelInv' /\ outbox' \in [Loads -> Seq(Messages)]
  BY <1>1, Dropped DEF choice
<1>4. TypeOK'
  BY <1>1, <1>3 DEF choice, IInv, TypeOK, Messages
<1> QED
  BY <1>2, <1>3, <1>4 DEF IInv

LEMMA TakeReadyStep ==
  ASSUME IInv, NEW l \in Loads, TakeReady(l)
  PROVE  IInv'
<1> USE LoadsAssumption
<1>1. /\ outbox[l] # <<>> /\ Drop(l) /\ wasm' = wasm /\ ~Taken(l, "wasm")
      /\ model' = l /\ card' = FALSE
      /\ offered' \in {None, fileOf[l]} /\ phase' \in {None, offered'}
      /\ UNCHANGED <<pc, cur, file, fileOf, asked, failed, worker, stage, inbox,
                     errors>>
  BY DEF TakeReady, Taken
<1>2. /\ cur = l /\ file = fileOf[l] /\ wasm /\ \A k \in Loads : pc[k] # "reading"
  BY <1>1, TakenOf, TakenInTurn DEF TakeReady
<1>3. /\ DecoderInv' /\ WasmInv' /\ PanelInv' /\ outbox' \in [Loads -> Seq(Messages)]
  BY <1>1, Dropped
<1>4. TypeOK'
  <2>1. {cur', file', phase', offered', model', failed', worker'} \subseteq Loads \cup {None}
    BY <1>1 DEF IInv, TypeOK
  <2>2. card' \in BOOLEAN /\ wasm' \in BOOLEAN
    BY <1>1 DEF IInv, TypeOK
  <2>3. /\ pc' = pc /\ fileOf' = fileOf /\ asked' = asked /\ stage' = stage
        /\ inbox' = inbox /\ errors' = errors
    BY <1>1
  <2> QED
    BY <1>3, <2>1, <2>2, <2>3 DEF IInv, TypeOK, Messages
<1>5. AwaitInv'
  BY <1>1, <1>2 DEF IInv, AwaitInv, Awaits
<1>6. ShownInv' /\ PhaseIsOfFile' /\ ModelHasWasm'
  BY <1>1, <1>2 DEF IInv, ShownInv, PhaseIsOfFile, ModelHasWasm
<1>7. CardIsTrue'
  BY <1>1, <1>2 DEF CardIsTrue
<1> QED
  BY <1>3, <1>4, <1>5, <1>6, <1>7 DEF IInv

LEMMA TakeErrorStep ==
  ASSUME IInv, NEW l \in Loads, TakeError(l)
  PROVE  IInv'
<1>1. worker = l /\ cur = l
  BY TakenOf DEF TakeError, Taken
<1>2. FailLoad(l) /\ UNCHANGED <<choice, model, wasm>> /\ UNCHANGED pc /\ errors' = errors
  BY DEF TakeError
<1> QED
  BY <1>1, <1>2, FailStep

LEMMA ErrorFiresStep ==
  ASSUME IInv, NEW l \in Loads, ErrorFires(l)
  PROVE  IInv'
<1>1. errors' \subseteq errors /\ UNCHANGED <<choice, model, wasm>> /\ UNCHANGED pc
  BY DEF ErrorFires
<1>2. CASE worker = l
  <2>1. FailLoad(l) /\ cur = l
    BY <1>2, LoadsAssumption DEF ErrorFires, IInv, DecoderInv
  <2> QED
    BY <1>1, <1>2, <2>1, FailStep
<1>3. CASE worker # l
  <2>1. UNCHANGED <<choice, pc, decoders, card, model, failed, wasm>>
    BY <1>1, <1>3 DEF ErrorFires
  <2>2. /\ AwaitInv' /\ ShownInv' /\ CardIsTrue' /\ PhaseIsOfFile' /\ ModelHasWasm'
    BY <2>1, Kept DEF decoders
  <2>3. TypeOK'
    BY <1>1, <2>1 DEF choice, decoders, IInv, TypeOK
  <2>4. DecoderInv' /\ WasmInv' /\ PanelInv'
    BY <2>1 DEF choice, decoders, IInv, DecoderInv, WasmInv, PanelInv
  <2> QED
    BY <2>2, <2>3, <2>4 DEF IInv
<1> QED
  BY <1>2, <1>3

LEMMA AskStep ==
  ASSUME IInv, NEW i \in Indices, Ask(i)
  PROVE  IInv'
<1>1. /\ UNCHANGED <<pc, choice, card, model, failed, worker>>
      /\ UNCHANGED <<wasm, stage, outbox, errors>>
  BY DEF Ask, Page
<1>2. inbox' \in [Loads -> Seq(Indices)]
  <2>1. CASE worker = None
    BY <2>1 DEF Ask, IInv, TypeOK
  <2>2. CASE worker # None
    <3>1. worker \in Loads /\ inbox[worker] \in Seq(Indices)
      BY <2>2 DEF IInv, TypeOK
    <3>2. inbox' = [inbox EXCEPT ![worker] = Append(inbox[worker], i)]
      BY <2>2 DEF Ask
    <3>3. Append(inbox[worker], i) \in Seq(Indices)
      BY <3>1
    <3> QED
      BY <3>1, <3>2, <3>3 DEF IInv, TypeOK
  <2> QED
    BY <2>1, <2>2
<1>3. /\ AwaitInv' /\ ShownInv' /\ CardIsTrue' /\ PhaseIsOfFile' /\ ModelHasWasm'
  BY <1>1, Kept
<1>4. TypeOK' /\ DecoderInv' /\ WasmInv' /\ PanelInv'
  BY <1>1, <1>2 DEF choice, IInv, TypeOK, DecoderInv, WasmInv, PanelInv
<1> QED
  BY <1>3, <1>4 DEF IInv

LEMMA NextIInv == ASSUME ~Overlapping PROVE IInv /\ [Next]_vars => IInv'
<1> SUFFICES ASSUME IInv, [Next]_vars PROVE IInv'
  OBVIOUS
<1>1. ASSUME NEW l \in Loads,
             \/ Begins(l) \/ Fetch(l) \/ FetchFails(l) \/ Reads(l)
             \/ Decodes(l) \/ Describe(l) \/ Die(l)
             \/ Takes(l) \/ ErrorFires(l)
      PROVE  IInv'
  BY <1>1, BeginsStep, FetchStep, BytesArriveStep, BytesFailStep, DecodesStep,
     DescribeStep, DieStep, TakeWasmStep, TakeReadyStep, TakeErrorStep,
     TakeInfoStep, ErrorFiresStep DEF Reads, Takes
<1>2. ASSUME UNCHANGED vars
      PROVE  IInv'
  <2>1. UNCHANGED <<pc, choice, card, model, failed, worker>> /\ UNCHANGED wasm
    BY <1>2 DEF vars, choice
  <2>2. AwaitInv' /\ ShownInv' /\ CardIsTrue' /\ PhaseIsOfFile' /\ ModelHasWasm'
    BY <2>1, Kept
  <2>3. TypeOK' /\ DecoderInv' /\ WasmInv' /\ PanelInv'
    BY <1>2 DEF vars, IInv, TypeOK, DecoderInv, WasmInv, PanelInv
  <2> QED
    BY <2>2, <2>3 DEF IInv
<1> QED
  BY <1>1, <1>2, AskStep DEF Next

--------------------------------------------------------------------------------
(* Why a load that shows its card ends: what ends it is still to come.          *)

\* Load l reads its bytes, or the decoder the page holds is l's and has not come
\* to an end, or the message or the event that says how it ended is under way.
UnderWayFor(l) ==
  \/ pc[l] = "reading"
  \/ /\ worker = l
     /\ \/ stage[l] \in {"init", "parsing"}
        \/ Carries(outbox[l], "ready") \/ Carries(outbox[l], "error")
        \/ l \in errors

\* The card is up only while what takes it down is to come, if the browser says
\* of every decoder it ends that it has.  (main.ts, onerror and onmessage of the
\* decoder; worker.ts.)
CardComesDown == card => cur # None /\ UnderWayFor(cur)

\* The decoder of the load whose card is up is the page's own.
LEMMA DecoderIsCurrent ==
  ASSUME IInv, NEW l \in Loads, stage[l] \in Active \/ outbox[l] # <<>>
  PROVE  worker = l /\ cur = l /\ \A k \in Loads : pc[k] # "reading"
BY LoadsAssumption DEF IInv, DecoderInv, AwaitInv

LEMMA DecodesOn ==
  ASSUME IInv, CardComesDown, ~Silent, NEW l \in Loads,
         Decodes(l) \/ Describe(l) \/ Die(l)
  PROVE  CardComesDown'
<1> DEFINE o == outbox[l]
<1>1. stage[l] \in Active
  BY DEF Decodes, Initialise, Parse, Fail, Describe, Die, Active
<1>2. /\ worker = l /\ cur = l /\ pc[l] # "reading"
      /\ stage \in [Loads -> Stages] /\ outbox \in [Loads -> Seq(Messages)]
      /\ o \in Seq(Messages)
  BY <1>1, DecoderIsCurrent, UnderWay DEF IInv, TypeOK
<1>3. UNCHANGED <<pc, cur, card, worker>>
  BY DEF Decodes, Initialise, Parse, Fail, Describe, Die, Page, choice
<1> SUFFICES ASSUME card PROVE UnderWayFor(l)'
  BY <1>2, <1>3, LoadsAssumption DEF CardComesDown
<1>4. \/ stage[l] \in {"init", "parsing"} \/ l \in errors
      \/ Carries(o, "ready") \/ Carries(o, "error")
  BY <1>2 DEF CardComesDown, UnderWayFor
<1>5. CASE Initialise(l)
  BY <1>2, <1>3, <1>5 DEF Initialise, Stage, UnderWayFor
<1>6. ASSUME NEW t \in {"ready", "error"}, Post(l, Notice(t))
      PROVE  UnderWayFor(l)'
  <2> DEFINE a == Append(o, Notice(t))
  <2>1. outbox' = [outbox EXCEPT ![l] = a]
    BY <1>6 DEF Post
  <2>2. Carries(a, t)
    BY <1>2, Posted, Postable
  <2> HIDE DEF a
  <2>3. outbox'[l] = a
    BY <1>2, <2>1
  <2> QED
    BY <1>2, <1>3, <2>2, <2>3 DEF UnderWayFor
<1>7. CASE Parse(l) \/ Fail(l)
  BY <1>6, <1>7 DEF Parse, Fail
<1>8. CASE Describe(l)
  <2>1. PICK whole \in BOOLEAN :
          Post(l, [type |-> "info", index |-> Head(inbox[l]), panel |-> whole])
    BY <1>8 DEF Describe
  <2> DEFINE m == [type |-> "info", index |-> Head(inbox[l]), panel |-> whole]
             a == Append(o, m)
  <2>2. Head(inbox[l]) \in Indices
    <3>1. inbox[l] \in Seq(Indices) /\ inbox[l] # <<>>
      BY <1>8 DEF Describe, IInv, TypeOK
    <3> QED
      BY <3>1
  <2>3. m \in Messages
    BY <2>2, Postable
  <2>4. outbox' = [outbox EXCEPT ![l] = a] /\ UNCHANGED <<stage, errors>>
    BY <1>8, <2>1 DEF Describe, Post
  <2> HIDE DEF m
  <2>5. \A t : Carries(o, t) => Carries(a, t)
    BY <1>2, <2>3, Posted
  <2> HIDE DEF a
  <2>6. outbox'[l] = a
    BY <1>2, <2>4
  <2> QED
    BY <1>2, <1>3, <1>4, <2>4, <2>5, <2>6 DEF UnderWayFor
<1>9. CASE Die(l)
  <2>1. l \in errors'
    BY <1>9 DEF Die
  <2> QED
    BY <1>2, <1>3, <2>1 DEF UnderWayFor
<1> QED
  BY <1>5, <1>7, <1>8, <1>9, Zenon DEF Decodes

LEMMA MessageOn ==
  ASSUME IInv, CardComesDown, NEW l \in Loads, TakeWasm(l) \/ TakeInfo(l)
  PROVE  CardComesDown'
<1> DEFINE o == outbox[l]
           t == Tail(o)
<1>1. o # <<>> /\ Head(o).type \notin {"ready", "error"}
  BY DEF TakeWasm, TakeInfo, Taken
<1>2. /\ worker = l /\ cur = l /\ pc[l] # "reading"
      /\ outbox \in [Loads -> Seq(Messages)] /\ o \in Seq(Messages)
  BY <1>1, DecoderIsCurrent, UnderWay
<1>3. UNCHANGED <<pc, cur, card, worker, stage, errors>>
  BY DEF TakeWasm, TakeInfo, Page, choice
<1>4. outbox' = [outbox EXCEPT ![l] = t]
  BY DEF TakeWasm, TakeInfo, Drop
<1>5. /\ Carries(o, "ready") => Carries(t, "ready")
      /\ Carries(o, "error") => Carries(t, "error")
  BY <1>1, <1>2, TakenFirst
<1> HIDE DEF t
<1>6. outbox'[l] = t
  BY <1>2, <1>4
<1> QED
  BY <1>2, <1>3, <1>5, <1>6, LoadsAssumption DEF CardComesDown, UnderWayFor

LEMMA LoadOn ==
  ASSUME IInv, CardComesDown, NEW l \in Loads,
         Begins(l) \/ Fetch(l) \/ FetchFails(l) \/ Reads(l)
  PROVE  CardComesDown'
<1>1. CASE Begins(l)
  <2>1. PICK f, p : Begin(l, f, p)
    BY <1>1 DEF Begins, Pick, Fetched, Reopen
  <2>2. pc'[l] = "reading" /\ cur' = l
    BY <2>1 DEF Begin, Goto, IInv, TypeOK
  <2> QED
    BY <2>2, LoadsAssumption DEF CardComesDown, UnderWayFor
<1>2. CASE Fetch(l)
  <2>1. UNCHANGED <<cur, card, worker, stage, outbox, errors>>
    BY <1>2 DEF Fetch, choice, decoders
  <2>2. pc[l] = "idle" /\ pc' = [pc EXCEPT ![l] = "fetching"]
    BY <1>2 DEF Fetch, Upcoming, Goto
  <2>3. card => pc'[cur] = "reading" <=> pc[cur] = "reading"
    BY <2>2 DEF CardComesDown, IInv, TypeOK
  <2> QED
    BY <2>1, <2>3 DEF CardComesDown, UnderWayFor
<1>3. CASE FetchFails(l) \/ BytesFail(l)
  BY <1>3 DEF FetchFails, BytesFail, FailLoad, CardComesDown
<1>4. CASE BytesArrive(l)
  <2>1. cur = l /\ UNCHANGED cur
    BY <1>4 DEF BytesArrive, choice, IInv, AwaitInv
  <2>2. worker' = l /\ stage'[l] = "init"
    <3>1. EndIn(stage, "ended") \in [Loads -> Stages]
      BY DEF EndIn, IInv, TypeOK, Stages
    <3> QED
      BY <1>4, <3>1, LoadsAssumption DEF BytesArrive, Hold
  <2> QED
    BY <2>1, <2>2, LoadsAssumption DEF CardComesDown, UnderWayFor
<1> QED
  BY <1>1, <1>2, <1>3, <1>4 DEF Reads

LEMMA NextCardComesDown ==
  ASSUME ~Silent, IInv, CardComesDown, [Next]_vars
  PROVE  CardComesDown'
<1>1. ASSUME NEW l \in Loads, TakeReady(l) \/ TakeError(l) PROVE CardComesDown'
  BY <1>1 DEF TakeReady, TakeError, FailLoad, CardComesDown
<1>2. ASSUME NEW l \in Loads, ErrorFires(l) PROVE CardComesDown'
  <2>1. CASE worker = l
    BY <1>2, <2>1 DEF ErrorFires, FailLoad, CardComesDown
  <2>2. CASE worker # l
    <3>1. UNCHANGED <<pc, cur, card, worker, stage, outbox>> /\ errors' = errors \ {l}
      BY <1>2, <2>2 DEF ErrorFires, choice, decoders
    <3> QED
      BY <2>2, <3>1 DEF CardComesDown, UnderWayFor
  <2> QED
    BY <2>1, <2>2
<1>3. ASSUME NEW i \in Indices, Ask(i) PROVE CardComesDown'
  BY <1>3 DEF Ask, Page, choice, CardComesDown, UnderWayFor
<1>4. CASE UNCHANGED vars
  BY <1>4 DEF vars, CardComesDown, UnderWayFor
<1> QED
  BY <1>1, <1>2, <1>3, <1>4, DecodesOn, MessageOn, LoadOn DEF Next, Takes

--------------------------------------------------------------------------------
\* Every answer and failure that reaches the page is of the load that came last.
THEOREM Invariance ==
  ASSUME ~Overlapping
  PROVE  Spec => []IInv
<1>1. IInv /\ [Next]_vars => IInv'
  BY NextIInv
<1> QED
  BY <1>1, InitIInv, PTL DEF Spec

\* The variables keep their types.
THEOREM TypeCorrect ==
  ASSUME ~Overlapping
  PROVE  Spec => []TypeOK
<1>1. IInv => TypeOK
  BY DEF IInv
<1> QED
  BY <1>1, Invariance, PTL

\* The model shown is of the file the page keeps as the open one.
THEOREM ModelIsAlwaysOfFile ==
  ASSUME ~Overlapping
  PROVE  Spec => []ModelIsOfFile
<1>1. IInv => ModelIsOfFile
  BY DEF IInv, ShownInv, ModelIsOfFile
<1> QED
  BY <1>1, Invariance, PTL

\* A file's bytes are read with no decoder beside them.
THEOREM FilesAreReadAlone ==
  ASSUME ~Overlapping
  PROVE  Spec => []ReadsAlone
<1>1. IInv => ReadsAlone
  BY LoadsAssumption
  DEF IInv, TypeOK, AwaitInv, DecoderInv, Active, Stages, ReadsAlone
<1> QED
  BY <1>1, Invariance, PTL

\* The card is up while the file last opened has neither model nor failure.
THEOREM CardIsAlwaysTrue ==
  ASSUME ~Overlapping
  PROVE  Spec => []CardIsTrue
<1>1. IInv => CardIsTrue
  BY DEF IInv
<1> QED
  BY <1>1, Invariance, PTL

\* A load asks for a phase of the file it reads, or for the last.
THEOREM PhaseIsAlwaysOfFile ==
  ASSUME ~Overlapping
  PROVE  Spec => []PhaseIsOfFile
<1>1. IInv => PhaseIsOfFile
  BY DEF IInv
<1> QED
  BY <1>1, Invariance, PTL

\* With a model shown the page has the compiled wasm.
THEOREM ModelAlwaysHasWasm ==
  ASSUME ~Overlapping
  PROVE  Spec => []ModelHasWasm
<1>1. IInv => ModelHasWasm
  BY DEF IInv
<1> QED
  BY <1>1, Invariance, PTL

\* Where no load begins while another awaits its bytes and the browser is not
\* silent: with the card up, its load reads, decodes, or has its end under way.
THEOREM CardAlwaysComesDown ==
  ASSUME ~Overlapping, ~Silent
  PROVE  Spec => []CardComesDown
<1>1. Init => CardComesDown
  BY DEF Init, CardComesDown
<1>2. IInv /\ CardComesDown /\ [Next]_vars => CardComesDown'
  BY NextCardComesDown
<1> QED
  BY <1>1, <1>2, Invariance, PTL DEF Spec
================================================================================
