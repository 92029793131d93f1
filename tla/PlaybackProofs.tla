------------------------------ MODULE PlaybackProofs ------------------------------
(***********************************************************************************)
(* Theorems about the transport, for any rates, lengths and any order of pumps,    *)
(* audio cycles, inputs and edits.                                                 *)
(*                                                                                 *)
(* The picture at rest is the playhead's (AtRest) because every call that leaves   *)
(* the transport not playing sets both or says that it failed or ended; the sound  *)
(* is the drag's (Hears) because whoever ends the drag or forbids it also stops    *)
(* the sound.                                                                      *)
(***********************************************************************************)
EXTENDS Playback, SequenceLemmas

-----------------------------------------------------------------------------------

Transports ==
  [state : {"Stopped", "Playing", "Paused"}, playhead : Nat, frame : Nat, interval : Rates,
   late : Int, shown : Nat \cup {None}, failed : BOOLEAN, ended : BOOLEAN]
Turns   == [pumping : BOOLEAN, audio : Nat \cup {None}, steps : 0 .. MaxFramesPerPump]
Engines == {en \in [running : BOOLEAN, mixed : Nat, played : Nat] : en.played <= en.mixed}
Scrubs  == [dragging : BOOLEAN, sounding : BOOLEAN, resume : BOOLEAN, enabled : BOOLEAN, output : BOOLEAN]

(* The picture of a transport at rest is the one of its playhead.                  *)
AtRest(tr) ==
  tr.state # "Playing" /\ ~tr.failed /\ ~tr.ended /\ tr.shown # None => tr.shown = tr.playhead

Hears(sc, en) == sc.sounding => sc.dragging /\ sc.enabled /\ sc.output /\ en.running

PlaybackInv ==
  /\ project \in Projects /\ transport \in Transports /\ AtRest(transport)
  /\ timer \in BOOLEAN /\ due \subseteq Timers /\ turn \in Turns
  /\ engine \in Engines /\ scrub \in Scrubs /\ Hears(scrub, engine)
  /\ inputs \in 0..MaxInputs

-----------------------------------------------------------------------------------
LEMMA RatesAre ==
  /\ \A r \in Rates : r \in Nat /\ r > 0
  /\ \A n \in Nat, r \in Rates : n * r \in Nat /\ n \div r \in Nat
<1>1. \A r \in Rates : r \in Nat /\ r > 0
  BY PlaybackAssumption
<1>2. ASSUME NEW n \in Nat, NEW r \in Nat, r > 0 PROVE n * r \in Nat /\ n \div r \in Nat
  BY <1>2
<1>3. QED
  BY <1>1, <1>2

LEMMA GreatestOf ==
  ASSUME NEW T, NEW n \in Nat, T \subseteq 0..n, T # {}
  PROVE  \E m \in T : \A k \in T : k <= m
<1> DEFINE U == {n - k : k \in T}
<1>1. U \in SUBSET Nat /\ U # {}
  <2>1. \A k \in T : k \in 0..n
    OBVIOUS
  <2>2. \A k \in 0..n : n - k \in Nat
    OBVIOUS
  <2>3. \A k \in T : n - k \in Nat
    BY <2>1, <2>2
  <2>4. QED
    BY <2>3
<1>2. PICK u \in U : \A v \in U : u <= v
  <2> HIDE DEF U
  <2>1. QED
    BY <1>1, LeastOf
<1>3. PICK m \in T : u = n - m
  BY <1>2
<1>4. ASSUME NEW k \in T PROVE k <= m
  <2>1. n - k \in U
    OBVIOUS
  <2> HIDE DEF U
  <2>2. n - m <= n - k
    BY <1>2, <1>3, <2>1
  <2>3. k \in 0..n /\ m \in 0..n
    OBVIOUS
  <2>4. QED
    BY <2>2, <2>3
<1>5. QED
  BY <1>4

(* A field at a time, the record of the transport stays one.                       *)
LEMMA Fields ==
  ASSUME NEW tr \in Transports
  PROVE  /\ \A s \in {"Stopped", "Playing", "Paused"} : [tr EXCEPT !.state = s] \in Transports
         /\ \A n \in Nat : [tr EXCEPT !.playhead = n] \in Transports
         /\ \A n \in Nat : [tr EXCEPT !.frame = n] \in Transports
         /\ \A l \in Int : [tr EXCEPT !.late = l] \in Transports
         /\ \A b \in BOOLEAN : [tr EXCEPT !.ended = b] \in Transports
BY DEF Transports

(* What one call of the transport makes of its record.                             *)
LEMMA PresentKeeps ==
  ASSUME NEW tr \in Transports, NEW position \in Nat, NEW ok \in BOOLEAN
  PROVE  /\ PresentAt(tr, position, ok) \in Transports /\ AtRest(PresentAt(tr, position, ok))
         /\ PresentAt(tr, position, ok).state = tr.state
BY DEF PresentAt, Transports, AtRest

LEMMA AdoptKeeps ==
  ASSUME PlaybackInv, NEW tr \in Transports
  PROVE  AdoptRate(tr) \in Transports /\ AdoptRate(tr).interval \in Rates
         /\ AdoptRate(tr).playhead = tr.playhead
BY DEF PlaybackInv, AdoptRate, Projects, Transports

LEMMA PlayKeeps ==
  ASSUME PlaybackInv, NEW tr \in Transports, AtRest(tr)
  PROVE  Play(tr) \in Transports /\ AtRest(Play(tr))
<1> DEFINE adopted == AdoptRate(tr)
           fresh == [adopted EXCEPT !.frame = adopted.playhead \div adopted.interval, !.ended = FALSE]
           started == IF tr.state = "Stopped" THEN fresh ELSE adopted
           playing == [started EXCEPT !.state = "Playing", !.late = 0]
<1>1. adopted \in Transports /\ adopted.playhead \in Nat /\ adopted.interval \in Rates
  BY AdoptKeeps DEF Transports
<1>2. adopted.playhead \div adopted.interval \in Nat
  BY <1>1, RatesAre
<1> HIDE DEF adopted
<1>3. fresh \in Transports
  BY <1>1, <1>2 DEF Transports
<1> HIDE DEF fresh
<1>4. started \in Transports
  BY <1>1, <1>3
<1> HIDE DEF started
<1>5. playing \in Transports /\ AtRest(playing)
  <2>1. [started EXCEPT !.state = "Playing"] \in Transports
    BY <1>4, Fields
  <2>2. playing \in Transports
    BY <2>1, Fields, 0 \in Int
  <2>3. playing.state = "Playing"
    BY <1>4 DEF Transports
  <2>4. QED
    BY <2>2, <2>3 DEF AtRest
<1>6. Play(tr) = IF tr.state = "Playing" THEN tr ELSE playing
  BY DEF Play, playing, started, fresh, adopted
<1>7. QED
  BY <1>5, <1>6

LEMMA PauseKeeps ==
  ASSUME NEW tr \in Transports, AtRest(tr), NEW ok \in BOOLEAN
  PROVE  Pause(tr, ok) \in Transports /\ AtRest(Pause(tr, ok)) /\ Pause(tr, ok).playhead \in Nat
<1> DEFINE held == IF tr.shown = None THEN tr.playhead ELSE tr.shown
           still == [tr EXCEPT !.state = "Paused", !.playhead = held]
<1>1. held \in Nat
  BY DEF Transports, None
<1>2. still \in Transports
  BY <1>1 DEF Transports
<1>3. Pause(tr, ok) = IF tr.state # "Playing" THEN tr ELSE PresentAt(still, held, ok)
  BY DEF Pause
<1>4. PresentAt(still, held, ok) \in Transports /\ AtRest(PresentAt(still, held, ok))
  BY <1>1, <1>2, PresentKeeps
<1> HIDE DEF still, held
<1>5. Pause(tr, ok) \in Transports /\ AtRest(Pause(tr, ok))
  BY <1>3, <1>4
<1>6. \A t \in Transports : t.playhead \in Nat
  BY DEF Transports
<1>7. QED
  BY <1>5, <1>6

LEMMA StopKeeps ==
  ASSUME PlaybackInv, NEW tr \in Transports, NEW ok \in BOOLEAN
  PROVE  Stop(tr, ok) \in Transports /\ AtRest(Stop(tr, ok))
<1> DEFINE adopted == AdoptRate(tr)
           still == [adopted EXCEPT !.state = "Stopped", !.playhead = 0,
                                    !.frame = 0, !.late = 0, !.ended = FALSE]
<1>1. adopted \in Transports
  BY AdoptKeeps
<1> HIDE DEF adopted
<1>2. still \in Transports
  <2>1. [adopted EXCEPT !.state = "Stopped"] \in Transports
    BY <1>1, Fields
  <2>2. [adopted EXCEPT !.state = "Stopped", !.playhead = 0] \in Transports
    BY <2>1, Fields
  <2>3. [adopted EXCEPT !.state = "Stopped", !.playhead = 0, !.frame = 0] \in Transports
    BY <2>2, Fields
  <2>4. [adopted EXCEPT !.state = "Stopped", !.playhead = 0, !.frame = 0, !.late = 0] \in Transports
    BY <2>3, Fields, 0 \in Int
  <2>5. QED
    BY <2>4, Fields
<1>3. Stop(tr, ok) = PresentAt(still, 0, ok)
  BY DEF Stop, adopted
<1> HIDE DEF still
<1>4. QED
  BY <1>2, <1>3, PresentKeeps

LEMMA SeekKeeps ==
  ASSUME PlaybackInv, NEW tr \in Transports, NEW position \in Nat, NEW ok \in BOOLEAN
  PROVE  Seek(tr, position, ok) \in Transports /\ AtRest(Seek(tr, position, ok))
<1> DEFINE clamped == Lesser(position, project.total)
           adopted == AdoptRate(tr)
           moved == [adopted EXCEPT !.playhead = clamped, !.late = 0, !.ended = FALSE,
                                    !.frame = clamped \div project.interval]
<1>1. project.total \in Nat /\ project.interval \in Rates
  BY PlaybackAssumption DEF PlaybackInv, Projects
<1>2. clamped \in Nat /\ adopted \in Transports
  BY <1>1, AdoptKeeps DEF Lesser
<1>3. clamped \div project.interval \in Nat
  BY <1>1, <1>2, RatesAre
<1> HIDE DEF adopted, clamped
<1>4. moved \in Transports
  <2>1. [adopted EXCEPT !.playhead = clamped] \in Transports
    BY <1>2, Fields
  <2>2. [adopted EXCEPT !.playhead = clamped, !.late = 0] \in Transports
    BY <2>1, Fields, 0 \in Int
  <2>3. [adopted EXCEPT !.playhead = clamped, !.late = 0, !.ended = FALSE] \in Transports
    BY <2>2, Fields
  <2>4. QED
    BY <1>3, <2>3, Fields
<1>5. Seek(tr, position, ok) = PresentAt(moved, clamped, ok)
  BY DEF Seek, adopted, clamped
<1> HIDE DEF moved
<1>6. QED
  BY <1>2, <1>4, <1>5, PresentKeeps

-----------------------------------------------------------------------------------
(* The engine, the clock of the sound.                                             *)
LEMMA EnginesMove ==
  ASSUME NEW en \in Engines, NEW ticks \in Nat
  PROVE  /\ Played(en, ticks) \in Engines /\ Played(en, ticks).running = en.running
         /\ Halted(en) \in Engines
         /\ [en EXCEPT !.mixed = @ + ticks] \in Engines
         /\ [en EXCEPT !.mixed = @ + ticks].running = en.running
         /\ StartedAt(ticks) \in Engines /\ StartedAt(ticks).running = TRUE
<1>1. en \in [running : BOOLEAN, mixed : Nat, played : Nat] /\ en.played <= en.mixed
  BY DEF Engines
<1> DEFINE on == Lesser(en.mixed, en.played + ticks)
<1>2. on \in Nat /\ on <= en.mixed
  BY <1>1 DEF Lesser
<1>3. Played(en, ticks) = IF en.running THEN [en EXCEPT !.played = on] ELSE en
  BY DEF Played
<1> HIDE DEF on
<1>4. Played(en, ticks) \in Engines /\ Played(en, ticks).running = en.running
  BY <1>1, <1>2, <1>3 DEF Engines
<1>5. Halted(en) \in Engines
  BY <1>1 DEF Halted, Engines
<1>6. [en EXCEPT !.mixed = @ + ticks] \in Engines
      /\ [en EXCEPT !.mixed = @ + ticks].running = en.running
  BY <1>1 DEF Engines
<1>7. StartedAt(ticks) \in Engines /\ StartedAt(ticks).running = TRUE
  BY DEF StartedAt, Engines
<1>8. QED
  BY <1>4, <1>5, <1>6, <1>7

LEMMA TransportsMove ==
  ASSUME NEW tr \in Transports, NEW ticks \in Nat
  PROVE  /\ Later(tr, ticks) \in Transports /\ (AtRest(tr) => AtRest(Later(tr, ticks)))
         /\ Skipped(tr, ticks) \in Transports /\ (AtRest(tr) => AtRest(Skipped(tr, ticks)))
         /\ Later(tr, ticks).interval = tr.interval
<1>1. tr.interval \in Nat
  BY RatesAre DEF Transports
<1>2. ticks * tr.interval \in Int
  BY <1>1
<1> DEFINE back == ticks * tr.interval
<1>3. back \in Int
  BY <1>2
<1>4. Skipped(tr, ticks) = [tr EXCEPT !.frame = @ + ticks, !.late = @ - back]
  BY DEF Skipped
<1> HIDE DEF back
<1>5. Skipped(tr, ticks) \in Transports /\ (AtRest(tr) => AtRest(Skipped(tr, ticks)))
  <2>1. tr.frame + ticks \in Nat /\ tr.late - back \in Int
    BY <1>3 DEF Transports
  <2>2. [tr EXCEPT !.frame = tr.frame + ticks] \in Transports
    BY <2>1, Fields
  <2>3. [tr EXCEPT !.frame = tr.frame + ticks, !.late = tr.late - back] \in Transports
    BY <2>1, <2>2, Fields
  <2>4. Skipped(tr, ticks) = [tr EXCEPT !.frame = tr.frame + ticks, !.late = tr.late - back]
    BY <1>4
  <2>5. AtRest(tr) => AtRest(Skipped(tr, ticks))
    BY <2>4 DEF Transports, AtRest
  <2>6. QED
    BY <2>3, <2>4, <2>5
<1>6. Later(tr, ticks) \in Transports /\ (AtRest(tr) => AtRest(Later(tr, ticks)))
      /\ Later(tr, ticks).interval = tr.interval
  BY PlaybackAssumption DEF Later, Lesser, Transports, AtRest
<1>7. QED
  BY <1>5, <1>6

(* A slow composite skips no more slots than the pump has steps left.              *)
LEMMA OverrunIs ==
  ASSUME PlaybackInv, Considered, NEW cost \in Costs
  PROVE  Overrun(cost) \in Nat /\ turn.steps + 1 + Overrun(cost) <= MaxFramesPerPump
<1> DEFINE next == transport.frame + 1
           slots == IF cost = 0 THEN 0 ELSE (cost - 1) \div transport.interval
           left == {n \in 0 .. slots :
                     /\ turn.steps + 1 + n <= MaxFramesPerPump
                     /\ \A k \in 0 .. n - 1 : (next + k) * transport.interval < project.total}
<1>1. cost \in Nat /\ transport.interval \in Rates
  BY PlaybackAssumption DEF PlaybackInv, Transports
<1>2. slots \in Nat
  <2>1. CASE cost = 0
    BY <2>1
  <2>2. CASE cost # 0
    <3>1. cost - 1 \in Nat
      BY <1>1, <2>2
    <3>2. QED
      BY <1>1, <2>2, <3>1, RatesAre
  <2>3. QED
    BY <2>1, <2>2
<1>3. turn.steps \in Nat /\ turn.steps < MaxFramesPerPump /\ MaxFramesPerPump \in Nat
  BY PlaybackAssumption DEF PlaybackInv, Turns, Considered
<1> HIDE DEF slots, next
<1>4. 0 \in left
  BY <1>2, <1>3
<1>5. left \subseteq 0..slots /\ \A n \in left : turn.steps + 1 + n <= MaxFramesPerPump
  OBVIOUS
<1>6. Overrun(cost) = IF turn.audio # None THEN 0 ELSE CHOOSE n \in left : \A m \in left : m <= n
  BY DEF Overrun, left, slots, next
<1> HIDE DEF left
<1>7. \E n \in left : \A m \in left : m <= n
  BY <1>2, <1>4, <1>5, GreatestOf
<1>8. (CHOOSE n \in left : \A m \in left : m <= n) \in left
  BY <1>7
<1>9. CASE turn.audio # None
  BY <1>3, <1>6, <1>9
<1>10. CASE turn.audio = None
  <2>1. Overrun(cost) \in left
    BY <1>6, <1>8, <1>10
  <2>2. Overrun(cost) \in 0..slots /\ turn.steps + 1 + Overrun(cost) <= MaxFramesPerPump
    BY <1>5, <2>1
  <2>3. QED
    BY <1>2, <2>2
<1>11. QED
  BY <1>9, <1>10

-----------------------------------------------------------------------------------
LEMMA PlaybackStarts == Init => PlaybackInv
<1> SUFFICES ASSUME Init PROVE PlaybackInv
  OBVIOUS
<1>1. project.interval \in Rates
  BY DEF Init, Projects
<1>2. transport \in Transports /\ AtRest(transport)
  BY <1>1 DEF Init, Transports, AtRest, None
<1>3. turn \in Turns /\ inputs \in 0..MaxInputs
  <2>1. 0 \in 0..MaxFramesPerPump /\ 0 \in 0..MaxInputs
    BY PlaybackAssumption
  <2>2. QED
    BY <2>1 DEF Init, Turns, NoTurn
<1>4. engine \in Engines
  BY DEF Init, Engines
<1>5. scrub \in Scrubs /\ scrub.sounding = FALSE
  BY DEF Init, Scrubs
<1>6. due \subseteq Timers /\ timer \in BOOLEAN /\ project \in Projects
  BY DEF Init
<1>7. QED
  BY <1>2, <1>3, <1>4, <1>5, <1>6 DEF PlaybackInv, Hears

LEMMA DriverKeeps ==
  ASSUME PlaybackInv, NEW delivered \in Delivered, DriverTick(delivered) PROVE PlaybackInv'
<1> DEFINE ticks == delivered * Quantum
           next == Decision.engine
<1>1. ticks \in Nat
  <2>1. delivered \in Nat /\ Quantum \in Nat
    BY PlaybackAssumption DEF Delivered
  <2>2. QED
    BY <2>1
<1>2. next \in Engines /\ (scrub.sounding => next = engine)
  <2>1. engine \in Engines /\ transport.playhead \in Nat
    BY DEF PlaybackInv, Transports
  <2>2. Halted(engine) \in Engines /\ StartedAt(transport.playhead) \in Engines
    BY <2>1, EnginesMove
  <2>3. \/ next = engine
        \/ ~scrub.sounding /\ (next = Halted(engine) \/ next = StartedAt(transport.playhead))
    BY DEF Decision
  <2>4. QED
    BY <2>1, <2>2, <2>3
<1>3. engine' = [next EXCEPT !.mixed = @ + ticks]
      /\ UNCHANGED <<project, transport, timer, turn, scrub, inputs>> /\ due' \subseteq due
  BY DEF DriverTick
<1> HIDE DEF ticks, next
<1>4. engine' \in Engines /\ engine'.running = next.running
  BY <1>1, <1>2, <1>3, EnginesMove
<1>5. Hears(scrub, engine)'
  BY <1>2, <1>3, <1>4 DEF PlaybackInv, Hears
<1>6. QED
  BY <1>3, <1>4, <1>5 DEF PlaybackInv, AtRest, Transports

LEMMA PassKeeps == ASSUME PlaybackInv, Pass PROVE PlaybackInv'
<1>1. engine' \in Engines /\ engine'.running = engine.running
  BY EnginesMove DEF Pass, PlaybackInv
<1>2. transport' \in Transports /\ AtRest(transport')
  BY TransportsMove DEF Pass, PlaybackInv
<1>3. Hears(scrub, engine)'
  BY <1>1 DEF Pass, PlaybackInv, Hears
<1>4. QED
  BY <1>1, <1>2, <1>3 DEF Pass, PlaybackInv, AtRest

LEMMA TurnsEnd ==
  ASSUME PlaybackInv, NEW state, EndTurn(state) PROVE turn' \in Turns /\ timer' \in BOOLEAN
BY PlaybackAssumption DEF EndTurn, NoTurn, Turns

LEMMA TimerKeeps == ASSUME PlaybackInv, TimerFires PROVE PlaybackInv'
<1>1. turn' \in Turns /\ timer' \in BOOLEAN
  <2>1. AudioClock \in Nat \cup {None}
    BY DEF PlaybackInv, Engines, AudioClock
  <2>2. [pumping |-> TRUE, audio |-> AudioClock, steps |-> 0] \in Turns
    BY <2>1, PlaybackAssumption DEF Turns
  <2>3. QED
    BY <2>2 DEF TimerFires, PlaybackInv
<1>2. due' \subseteq due /\ UNCHANGED <<project, transport, engine, scrub, inputs>>
  BY DEF TimerFires
<1>3. QED
  BY <1>1, <1>2 DEF PlaybackInv, AtRest, Hears

LEMMA PumpKeeps == ASSUME PlaybackInv, Pump PROVE PlaybackInv'
<1>1. UNCHANGED <<project, scrub, inputs, due>>
  BY DEF Pump, PumpWaits, PumpEnds, PumpDrops, PumpFails, PumpPresents
<1>2. ASSUME transport' \in Transports, AtRest(transport'), turn' \in Turns, timer' \in BOOLEAN,
             engine' \in Engines, engine'.running = engine.running
      PROVE  PlaybackInv'
  BY <1>1, <1>2 DEF PlaybackInv, AtRest, Hears
<1>3. CASE PumpWaits
  BY <1>2, <1>3, TurnsEnd DEF PumpWaits, PlaybackInv
<1>4. CASE PumpEnds
  <2>1. transport' \in Transports /\ AtRest(transport')
    <3>1. project.total \in Nat
      BY PlaybackAssumption DEF PlaybackInv, Projects
    <3>2. QED
      BY <1>4, <3>1 DEF PumpEnds, PlaybackInv, Transports, AtRest
  <2>2. QED
    BY <1>2, <1>4, <2>1, TurnsEnd DEF PumpEnds, PlaybackInv
<1>5. CASE PumpFails
  <2>1. transport' \in Transports /\ AtRest(transport')
    BY <1>5 DEF PumpFails, PlaybackInv, Transports, AtRest
  <2>2. QED
    BY <1>2, <1>5, <2>1, TurnsEnd DEF PumpFails, PlaybackInv
<1>6. CASE PumpDrops
  <2>1. transport' \in Transports /\ AtRest(transport')
    BY <1>6, TransportsMove DEF PumpDrops, PlaybackInv
  <2>2. turn' \in Turns
    <3>1. turn \in Turns /\ turn.steps \in 0..MaxFramesPerPump
      BY DEF PlaybackInv, Turns
    <3>2. turn.steps + 1 \in 0..MaxFramesPerPump
      BY <1>6, <3>1, PlaybackAssumption DEF PumpDrops, Considered
    <3>3. turn' = [turn EXCEPT !.steps = turn.steps + 1]
      BY <1>6 DEF PumpDrops
    <3>4. QED
      BY <3>1, <3>2, <3>3 DEF Turns
  <2>3. QED
    BY <1>2, <1>6, <2>1, <2>2 DEF PumpDrops, PlaybackInv
<1>7. ASSUME NEW cost \in Costs, PumpPresents(cost) PROVE PlaybackInv'
  <2> DEFINE position == PositionFor(transport)
             later == Later(transport, cost)
             drawn == PresentAt(later, position, TRUE)
             over == Overrun(cost)
  <2>1. Considered
    BY <1>7 DEF PumpPresents
  <2>2. over \in Nat /\ turn.steps + 1 + over <= MaxFramesPerPump /\ cost \in Nat
    BY <2>1, OverrunIs, PlaybackAssumption
  <2>3. position \in Nat
    BY RatesAre DEF PlaybackInv, Transports, PositionFor
  <2>4. later \in Transports
    BY <2>2, TransportsMove DEF PlaybackInv
  <2>5. drawn \in Transports /\ AtRest(drawn)
    BY <2>3, <2>4, PresentKeeps
  <2>6. /\ transport' = Skipped(drawn, 1 + over)
        /\ turn' = [turn EXCEPT !.steps = @ + 1 + over]
        /\ engine' = Played(engine, cost) /\ UNCHANGED timer
    BY <1>7 DEF PumpPresents
  <2> HIDE DEF over, drawn, later, position
  <2>7. transport' \in Transports /\ AtRest(transport')
    <3>1. 1 + over \in Nat
      BY <2>2
    <3>2. QED
      BY <2>5, <2>6, <3>1, TransportsMove
  <2>8. turn' \in Turns
    BY <2>2, <2>6, PlaybackAssumption DEF PlaybackInv, Turns
  <2>9. engine' \in Engines /\ engine'.running = engine.running
    BY <2>2, <2>6, EnginesMove DEF PlaybackInv
  <2>10. QED
    BY <1>2, <2>6, <2>7, <2>8, <2>9 DEF PlaybackInv
<1>8. QED
  BY <1>3, <1>4, <1>5, <1>6, <1>7 DEF Pump

-----------------------------------------------------------------------------------
(* What the user does leaves the sound with who has it.                            *)
LEMMA InputKeeps ==
  ASSUME PlaybackInv, UNCHANGED <<due, turn>>, timer' \in BOOLEAN, project' \in Projects,
         inputs' \in 0..MaxInputs, transport' \in Transports, AtRest(transport'),
         engine' \in Engines, scrub' \in Scrubs, Hears(scrub', engine')
  PROVE  PlaybackInv'
BY DEF PlaybackInv, AtRest, Hears

LEMMA InputsCounted == ASSUME PlaybackInv, Input PROVE inputs' \in 0..MaxInputs
BY PlaybackAssumption DEF PlaybackInv, Input

LEMMA ButtonsKeep ==
  ASSUME PlaybackInv, ViewInput \/ PanelPlay \/ EditProject \/ \E ok \in BOOLEAN : PanelPause(ok) \/ PanelStop(ok)
  PROVE  PlaybackInv'
<1>1. Input /\ UNCHANGED <<engine, scrub, due, turn>> /\ timer' \in BOOLEAN /\ project' \in Projects
  BY DEF PlaybackInv, ViewInput, ViewPlay, ViewPause, ViewStop, PanelPlay, PanelPause, PanelStop, EditProject
<1>2. transport \in Transports /\ AtRest(transport)
  BY DEF PlaybackInv
<1>3. \/ transport' = transport \/ transport' = Play(transport)
      \/ \E ok \in BOOLEAN : transport' = Pause(transport, ok) \/ transport' = Stop(transport, ok)
  BY DEF ViewInput, ViewPlay, ViewPause, ViewStop, PanelPlay, PanelPause, PanelStop, EditProject
<1>4. transport' \in Transports /\ AtRest(transport')
  BY <1>2, <1>3, PlayKeeps, PauseKeeps, StopKeeps
<1>5. engine' \in Engines /\ scrub' \in Scrubs /\ Hears(scrub', engine')
  BY <1>1 DEF PlaybackInv
<1>6. QED
  BY <1>1, <1>4, <1>5, InputsCounted, InputKeeps

LEMMA DragKeeps ==
  ASSUME PlaybackInv,
         \/ EndDrag \/ (\E ok \in BOOLEAN : BeginDrag(ok)) \/ (\E on \in BOOLEAN : SetScrubEnabled(on))
         \/ \E ok, dropped \in BOOLEAN : \E position \in Positions : MovePlayhead(position, ok, dropped)
  PROVE  PlaybackInv'
<1>1. transport \in Transports /\ AtRest(transport) /\ engine \in Engines /\ scrub \in Scrubs
      /\ Hears(scrub, engine) /\ timer \in BOOLEAN /\ project \in Projects /\ inputs \in 0..MaxInputs
  BY DEF PlaybackInv
<1>2. Halted(engine) \in Engines
  BY <1>1, EnginesMove
<1>3. CASE EndDrag
  <2>1. transport' \in Transports /\ AtRest(transport')
    BY <1>1, <1>3, PlayKeeps DEF EndDrag
  <2>2. scrub' \in Scrubs /\ Hears(scrub', engine')
    BY <1>1, <1>3 DEF EndDrag, Scrubs, Hears
  <2>3. QED
    BY <1>1, <1>2, <1>3, <2>1, <2>2, InputKeeps DEF EndDrag
<1>4. ASSUME NEW ok \in BOOLEAN, BeginDrag(ok) PROVE PlaybackInv'
  <2>1. transport' = Pause(transport, ok) /\ UNCHANGED <<project, timer, turn, due>> /\ Input
        /\ scrub' = [scrub EXCEPT !.dragging = TRUE, !.sounding = ~Suppressed,
                                  !.resume = (transport.state = "Playing")]
        /\ engine' = IF Suppressed THEN engine ELSE StartedAt(Pause(transport, ok).playhead)
    BY <1>4 DEF BeginDrag
  <2>2. transport' \in Transports /\ AtRest(transport') /\ Pause(transport, ok).playhead \in Nat
    BY <1>1, <2>1, PauseKeeps
  <2>3. StartedAt(Pause(transport, ok).playhead) \in Engines
        /\ StartedAt(Pause(transport, ok).playhead).running = TRUE
    BY <1>1, <2>2, EnginesMove
  <2>4. engine' \in Engines /\ (~Suppressed => engine'.running = TRUE)
    BY <1>1, <2>1, <2>3
  <2>5. Suppressed \in BOOLEAN /\ (transport.state = "Playing") \in BOOLEAN
    BY DEF Suppressed
  <2>6. scrub' \in Scrubs
    BY <1>1, <2>1, <2>5 DEF Scrubs
  <2>7. scrub'.sounding = ~Suppressed /\ scrub'.dragging = TRUE /\ scrub'.enabled = scrub.enabled
        /\ scrub'.output = scrub.output
    BY <1>1, <2>1 DEF Scrubs
  <2>8. Hears(scrub', engine')
    BY <2>4, <2>7 DEF Hears, Suppressed
  <2>9. QED
    BY <1>1, <2>1, <2>2, <2>4, <2>6, <2>8, InputsCounted, InputKeeps
<1>5. ASSUME NEW on \in BOOLEAN, SetScrubEnabled(on) PROVE PlaybackInv'
  <2>1. UNCHANGED <<project, transport, timer, turn, due>> /\ Input /\ on # scrub.enabled
        /\ scrub' = [scrub EXCEPT !.enabled = on, !.sounding = @ /\ on]
        /\ engine' = IF scrub.sounding /\ ~on THEN Halted(engine) ELSE engine
    BY <1>5 DEF SetScrubEnabled
  <2>2. scrub' \in Scrubs /\ engine' \in Engines
    BY <1>1, <1>2, <2>1 DEF Scrubs
  <2>3. scrub'.sounding = (scrub.sounding /\ on) /\ scrub'.dragging = scrub.dragging
        /\ scrub'.enabled = on /\ scrub'.output = scrub.output
    BY <1>1, <2>1 DEF Scrubs
  <2>4. Hears(scrub', engine')
    BY <1>1, <2>1, <2>3 DEF Hears
  <2>5. QED
    BY <1>1, <2>1, <2>2, <2>4, InputsCounted, InputKeeps
<1>6. ASSUME NEW ok \in BOOLEAN, NEW dropped \in BOOLEAN, NEW position \in Positions,
             MovePlayhead(position, ok, dropped)
      PROVE  PlaybackInv'
  <2> DEFINE heard == scrub.dragging /\ ~Suppressed /\ ~dropped
  <2>1. UNCHANGED <<project, timer, turn, due>> /\ Input
        /\ transport' = Seek(transport, position, ok)
        /\ scrub' = [scrub EXCEPT !.sounding = @ \/ heard]
        /\ engine' = IF heard THEN StartedAt(position) ELSE engine
    BY <1>6 DEF MovePlayhead
  <2>2. position \in Nat
    BY PlaybackAssumption
  <2>3. transport' \in Transports /\ AtRest(transport')
    BY <1>1, <2>1, <2>2, SeekKeeps
  <2>4. StartedAt(position) \in Engines /\ StartedAt(position).running = TRUE
    BY <1>1, <2>2, EnginesMove
  <2>5. heard \in BOOLEAN /\ scrub' \in Scrubs /\ engine' \in Engines
    BY <1>1, <2>1, <2>4 DEF Scrubs
  <2>6. scrub'.sounding = (scrub.sounding \/ heard) /\ scrub'.dragging = scrub.dragging
        /\ scrub'.enabled = scrub.enabled /\ scrub'.output = scrub.output
    BY <1>1, <2>1 DEF Scrubs
  <2>7. Hears(scrub', engine')
    BY <1>1, <2>1, <2>4, <2>6 DEF Hears, Suppressed
  <2>8. QED
    BY <1>1, <2>1, <2>3, <2>5, <2>7, InputsCounted, InputKeeps
<1>7. QED
  BY <1>3, <1>4, <1>5, <1>6

LEMMA PlaybackStep == PlaybackInv /\ [Next]_vars => PlaybackInv'
<1> SUFFICES ASSUME PlaybackInv, [Next]_vars PROVE PlaybackInv'
  OBVIOUS
<1>1. CASE UNCHANGED vars
  BY <1>1 DEF vars, PlaybackInv, AtRest, Hears
<1>2. QED
  BY <1>1, DriverKeeps, PassKeeps, TimerKeeps, PumpKeeps, ButtonsKeep, DragKeeps DEF Next, PanelInput

LEMMA PlaybackInvSound == PlaybackInv => TransportSound
BY DEF PlaybackInv, TransportSound, PlaybackTypeOK, PictureAtPlayhead, ScrubOwnsTheEngine, Transports,
       Turns, Engines, Scrubs, AtRest, Hears, Suppressed

(* Whatever the rates, the lengths and the order of pumps, cycles, inputs and edits: *)
(* the picture at rest is the one of the playhead, and scrub audio holds the engine *)
(* only in a drag that may be heard.                                               *)
THEOREM TransportIsSound == Spec => []TransportSound
<1>1. QED
  BY PlaybackStarts, PlaybackStep, PlaybackInvSound, PTL DEF Spec
===================================================================================
