---------------------------- MODULE GatewayProofs ----------------------------
(***************************************************************************)
(* The trigger gateway: types, one poll loop per trigger, and no update    *)
(* confirmed before it was handled, for any number of updates, any number  *)
(* of adapters and any faults.                                             *)
(***************************************************************************)
EXTENDS TriggerGateway, Integers, TLAPS

\* The sync loop stops an adapter it has, and starts one only when it has none.
SyncInv ==
    /\ gateway.pc \in {"stop", "wait"} => adapter # NoLoop
    /\ gateway.pc = "build" => adapter = NoLoop

\* A poll loop that runs is the adapter of the trigger.
LoopInv == \A l \in Loops : loop[l].type = "telegram" /\ Running(l) => adapter = l

\* How far a loop is in its batch.
OffsetInv == \A l \in Loops :
    /\ loop[l].offset - 1 <= arrived
    /\ loop[l].upTo <= arrived
    /\ Telegram(l, "handle") => loop[l].offset > 1

GatewayInv == GatewayTypeOK /\ SyncInv /\ LoopInv /\ OffsetInv

\* What lies before the offset of a poll loop that goes on was handled, but for
\* the update it is handling.
BehindOffset(l) ==
    loop[l].type = "telegram" /\ ~loop[l].cancelled =>
        \A u \in 1..loop[l].offset - 1 :
            Updates[u] = "wanted" => u \in served \/ (loop[l].pc = "handle" /\ u = loop[l].offset - 1)

HandledInv == ConfirmedWasHandled /\ \A l \in Loops : BehindOffset(l)

-----------------------------------------------------------------------------
(* Types *)

\* The number of updates is one.
LEMMA UpdatesLength == Len(Updates) \in Nat
BY GatewayAssumption

\* The record of a loop that has not started.
LEMMA NotStartedType == NotStarted \in LoopState
BY UpdatesLength DEF NotStarted, LoopState

\* One loop goes to pc, offset and upTo; the others stay where they are.
Moves(l, pc, offset, upTo) ==
    /\ loop' \in [Loops -> LoopState]
    /\ \A m \in Loops \ {l} : loop'[m] = loop[m]
    /\ loop'[l].type = loop[l].type /\ loop'[l].cancelled = loop[l].cancelled
    /\ loop'[l].pc = pc /\ loop'[l].offset = offset /\ loop'[l].upTo = upTo

\* One loop ends.
Ends(l) ==
    /\ loop' \in [Loops -> LoopState]
    /\ \A m \in Loops \ {l} : loop'[m] = loop[m]
    /\ loop'[l].pc \in {"none", "ended"} /\ loop'[l].offset = 1 /\ loop'[l].upTo = 0

GoesTo == {"poll", "polling", "backoff", "batch", "handle", "tick", "serve", "ended", "lost"}

\* Becomes moves the pc only.
LEMMA BecomesMoves ==
    ASSUME GatewayTypeOK, NEW l \in Loops, NEW pc \in GoesTo, Becomes(l, pc)
    PROVE  Moves(l, pc, loop[l].offset, loop[l].upTo)
BY UpdatesLength DEF GatewayTypeOK, LoopState, Becomes, Moves, GoesTo

\* LoopEnds ends the loop.
LEMMA LoopEndsEnds ==
    ASSUME GatewayTypeOK, NEW l \in Loops, LoopEnds(l)
    PROVE  Ends(l)
<1> DEFINE ended == [NotStarted EXCEPT !.type = loop[l].type, !.pc = "ended"]
<1>1. ended \in LoopState /\ ended.pc = "ended" /\ ended.offset = 1 /\ ended.upTo = 0
  BY NotStartedType DEF NotStarted, LoopState, GatewayTypeOK
<1>2. NotStarted.pc = "none" /\ NotStarted.offset = 1 /\ NotStarted.upTo = 0
  BY DEF NotStarted
<1>3. loop' = [loop EXCEPT ![l] = ended] \/ loop' = [loop EXCEPT ![l] = NotStarted]
  BY DEF LoopEnds
<1> HIDE DEF ended
<1> QED BY <1>1, <1>2, <1>3, NotStartedType DEF Ends, GatewayTypeOK

\* A loop whose record is replaced by one of the same type and context moves.
LEMMA RecordMoves ==
    ASSUME GatewayTypeOK, NEW l \in Loops, NEW s \in LoopState, loop' = [loop EXCEPT ![l] = s],
           s.type = loop[l].type, s.cancelled = loop[l].cancelled
    PROVE  Moves(l, s.pc, s.offset, s.upTo)
BY DEF GatewayTypeOK, Moves

\* A batch is received.
LEMMA BatchMoves ==
    ASSUME GatewayTypeOK, NEW l \in Loops,
           NEW first \in 1..Len(Updates) + 1, NEW upTo \in 0..Len(Updates),
           loop' = [loop EXCEPT ![l].pc = "batch", ![l].offset = first, ![l].upTo = upTo]
    PROVE  Moves(l, "batch", first, upTo)
<1>1. PICK s : s = [[[loop[l] EXCEPT !.pc = "batch"] EXCEPT !.offset = first] EXCEPT !.upTo = upTo]
  OBVIOUS
<1>2. loop[l] \in LoopState
  BY DEF GatewayTypeOK
<1>3. s \in LoopState
  BY <1>1, <1>2, UpdatesLength DEF LoopState
<1>4. loop' = [loop EXCEPT ![l] = s]
  BY <1>1 DEF GatewayTypeOK
<1>5. /\ s.type = loop[l].type /\ s.cancelled = loop[l].cancelled
      /\ s.pc = "batch" /\ s.offset = first /\ s.upTo = upTo
  BY <1>1, <1>2 DEF LoopState
<1>6. Moves(l, s.pc, s.offset, s.upTo)
  BY <1>3, <1>4, <1>5, RecordMoves
<1> QED BY <1>5, <1>6

\* A batch is done with.
LEMMA BatchDoneMoves ==
    ASSUME GatewayTypeOK, NEW l \in Loops, NEW upTo \in 0..Len(Updates),
           loop' = [loop EXCEPT ![l].pc = "poll", ![l].upTo = upTo]
    PROVE  Moves(l, "poll", loop[l].offset, upTo)
BY UpdatesLength DEF GatewayTypeOK, LoopState, Moves

\* An update is skipped.
LEMMA SkipMoves ==
    ASSUME GatewayTypeOK, NEW l \in Loops, loop[l].offset <= Len(Updates),
           loop' = [loop EXCEPT ![l].offset = @ + 1]
    PROVE  Moves(l, loop[l].pc, loop[l].offset + 1, loop[l].upTo)
<1>1. PICK next \in 1..Len(Updates) + 1 : next = loop[l].offset + 1
  BY UpdatesLength DEF GatewayTypeOK, LoopState
<1>2. PICK s : s = [loop[l] EXCEPT !.offset = next]
  OBVIOUS
<1>3. loop[l] \in LoopState
  BY DEF GatewayTypeOK
<1>4. s \in LoopState
  BY <1>2, <1>3, UpdatesLength DEF LoopState
<1>5. loop' = [loop EXCEPT ![l] = s]
  BY <1>1, <1>2 DEF GatewayTypeOK
<1>6. /\ s.type = loop[l].type /\ s.cancelled = loop[l].cancelled
      /\ s.pc = loop[l].pc /\ s.offset = next /\ s.upTo = loop[l].upTo
  BY <1>2, <1>3 DEF LoopState
<1>7. Moves(l, s.pc, s.offset, s.upTo)
  BY <1>4, <1>5, <1>6, RecordMoves
<1> QED BY <1>1, <1>6, <1>7

\* An update is handed to the handler.
LEMMA HandleMoves ==
    ASSUME GatewayTypeOK, NEW l \in Loops, loop[l].offset <= Len(Updates),
           loop' = [loop EXCEPT ![l].offset = @ + 1, ![l].pc = "handle"]
    PROVE  Moves(l, "handle", loop[l].offset + 1, loop[l].upTo)
<1>1. PICK next \in 1..Len(Updates) + 1 : next = loop[l].offset + 1
  BY UpdatesLength DEF GatewayTypeOK, LoopState
<1>2. PICK s : s = [[loop[l] EXCEPT !.offset = next] EXCEPT !.pc = "handle"]
  OBVIOUS
<1>3. loop[l] \in LoopState
  BY DEF GatewayTypeOK
<1>4. s \in LoopState
  BY <1>2, <1>3, UpdatesLength DEF LoopState
<1>5. loop' = [loop EXCEPT ![l] = s]
  BY <1>1, <1>2 DEF GatewayTypeOK
<1>6. /\ s.type = loop[l].type /\ s.cancelled = loop[l].cancelled
      /\ s.pc = "handle" /\ s.offset = next /\ s.upTo = loop[l].upTo
  BY <1>2, <1>3 DEF LoopState
<1>7. Moves(l, s.pc, s.offset, s.upTo)
  BY <1>4, <1>5, <1>6, RecordMoves
<1> QED BY <1>1, <1>6, <1>7

\* Cancelling keeps the types.
LEMMA CancelType ==
    ASSUME GatewayTypeOK, NEW S \in SUBSET Loops, Cancel(S)
    PROVE  loop' \in [Loops -> LoopState]
<1>1. ASSUME NEW l \in Loops
      PROVE  [loop[l] EXCEPT !.cancelled = @ \/ (l \in S /\ Running(l))] \in LoopState
  BY DEF GatewayTypeOK, LoopState
<1> QED BY <1>1 DEF Cancel

\* So does a call that begins, is answered, collected or abandoned.
LEMMA CallType ==
    ASSUME GatewayTypeOK, NEW l \in Loops, Begin(l) \/ Answer(l) \/ Collect(l) \/ Abandon
    PROVE  call' \in [Loops -> CallStates]
BY DEF GatewayTypeOK, Begin, Answer, Collect, Abandon, CallStates, Loops

\* So does a change of the trigger.
LEMMA LifeType ==
    ASSUME GatewayTypeOK, LifeNext
    PROVE  offered' \in Offers
<1>1. Nothing \in Offers
  BY DEF Nothing, Offers
<1>2. ASSUME NEW spec \in Specs PROVE [offered EXCEPT !.spec = spec] \in Offers
  BY DEF GatewayTypeOK, Offers
<1>3. ASSUME NEW a \in BOOLEAN PROVE [offered EXCEPT !.active = a] \in Offers
  BY DEF GatewayTypeOK, Offers
<1> QED BY <1>1, <1>2, <1>3 DEF LifeNext, Write, Approve, Reject, Remove

\* So does every assignment to the sync loop's state.
LEMMA GatewayStateType ==
    ASSUME GatewayTypeOK
    PROVE  /\ \A pc \in {"down", "idle", "list", "build", "stop", "wait"}, spec \in Specs \cup {"none"} :
                /\ [gateway EXCEPT !.pc = pc] \in GatewayState
                /\ [gateway EXCEPT !.pc = pc, !.spec = spec] \in GatewayState
                /\ [Down EXCEPT !.pc = pc] \in GatewayState
           /\ [gateway EXCEPT !.terminating = TRUE] \in GatewayState
           /\ Down \in GatewayState
BY DEF GatewayTypeOK, GatewayState, Down

-----------------------------------------------------------------------------
(* The steps of an adapter. *)

\* What every step of a loop keeps to.
LoopStep(l) ==
    /\ UNCHANGED <<gateway, adapter, offered, arrived>>
    /\ loop' \in [Loops -> LoopState]
    /\ \A m \in Loops \ {l} : loop'[m] = loop[m]
    /\ Running(l)' => Running(l) /\ loop'[l].type = loop[l].type
    /\ loop'[l].offset - 1 <= arrived /\ loop'[l].upTo <= arrived
    /\ Telegram(l, "handle")' => loop'[l].offset > 1
    /\ call' \in [Loops -> CallStates]
    /\ confirmed' \in 0..arrived
    /\ served \subseteq served' /\ served' \subseteq 1..arrived
    /\ HandledInv => ConfirmedWasHandled' /\ BehindOffset(l)'

\* A step that keeps to it preserves the invariants.
LEMMA LoopStepInv ==
    ASSUME GatewayInv, NEW l \in Loops, LoopStep(l)
    PROVE  GatewayInv' /\ (HandledInv => HandledInv')
<1>1. GatewayTypeOK'
  BY DEF LoopStep, GatewayInv, GatewayTypeOK
<1>2. SyncInv'
  BY DEF LoopStep, GatewayInv, SyncInv
<1>3. LoopInv'
  BY DEF LoopStep, GatewayInv, LoopInv, Running
<1>4. OffsetInv'
  BY DEF LoopStep, GatewayInv, OffsetInv, Telegram
<1>5. ASSUME HandledInv, NEW m \in Loops
      PROVE  BehindOffset(m)'
  <2>1. CASE m = l
    BY <1>5, <2>1 DEF LoopStep
  <2>2. CASE m # l
    BY <1>5, <2>2 DEF LoopStep, HandledInv, BehindOffset
  <2> QED BY <2>1, <2>2
<1>6. HandledInv => HandledInv'
  BY <1>5 DEF LoopStep, HandledInv
<1> QED BY <1>1, <1>2, <1>3, <1>4, <1>6 DEF GatewayInv

\* What the invariants say of a loop.
LEMMA LoopFacts ==
    ASSUME GatewayInv, NEW l \in Loops
    PROVE  /\ loop[l] \in LoopState /\ loop[l].offset \in Nat \ {0} /\ loop[l].upTo \in Nat
           /\ arrived \in Nat /\ arrived <= Len(Updates)
           /\ confirmed \in Nat /\ confirmed <= arrived
           /\ loop[l].offset - 1 <= arrived /\ loop[l].upTo <= arrived
           /\ GatewayTypeOK
BY UpdatesLength DEF GatewayInv, GatewayTypeOK, OffsetInv, LoopState

\* A loop that ends.
LEMMA EndsStep ==
    ASSUME GatewayInv, NEW l \in Loops, LoopEnds(l),
           UNCHANGED <<gateway, adapter, call, offered, telegramVars>>
    PROVE  LoopStep(l)
<1>1. Ends(l)
  BY LoopEndsEnds DEF GatewayInv
<1>2. BehindOffset(l)'
  BY <1>1 DEF Ends, BehindOffset
<1>3. HandledInv => ConfirmedWasHandled'
  BY DEF HandledInv, ConfirmedWasHandled, telegramVars
<1> QED
  BY <1>1, <1>2, <1>3, LoopFacts
  DEF LoopStep, Ends, Running, Telegram, telegramVars, GatewayInv, GatewayTypeOK

\* A loop that goes on without its offset moving, or Telegram hearing of it.
LEMMA BecomesStep ==
    ASSUME GatewayInv, NEW l \in Loops, NEW pc \in GoesTo, Becomes(l, pc), Running(l),
           loop[l].type = "telegram" => "handle" \notin {loop[l].pc, pc},
           UNCHANGED <<gateway, adapter, offered, telegramVars>>, call' \in [Loops -> CallStates]
    PROVE  LoopStep(l)
<1>1. Moves(l, pc, loop[l].offset, loop[l].upTo)
  BY BecomesMoves DEF GatewayInv
<1>2. HandledInv => BehindOffset(l)'
  BY <1>1 DEF Moves, BehindOffset, HandledInv, telegramVars
<1>3. HandledInv => ConfirmedWasHandled'
  BY DEF HandledInv, ConfirmedWasHandled, telegramVars
<1> QED
  BY <1>1, <1>2, <1>3, LoopFacts
  DEF LoopStep, Moves, Running, Telegram, telegramVars, GatewayInv, GatewayTypeOK, GoesTo

\* getUpdates confirms what lies before the offset, which has been handled.
LEMMA PollStep ==
    ASSUME GatewayInv, NEW l \in Loops, Poll(l)
    PROVE  LoopStep(l)
<1>1. Moves(l, "polling", loop[l].offset, loop[l].upTo)
  BY BecomesMoves DEF GatewayInv, Poll, GoesTo
<1>2. HandledInv => BehindOffset(l)'
  BY <1>1 DEF Moves, BehindOffset, HandledInv, Poll, Telegram
<1>3. ASSUME HandledInv
      PROVE  ConfirmedWasHandled'
  <2>1. \A u \in 1..confirmed : Updates[u] = "wanted" => u \in served
    BY <1>3 DEF HandledInv, ConfirmedWasHandled
  <2>2. \A u \in 1..loop[l].offset - 1 : Updates[u] = "wanted" => u \in served
    BY <1>3 DEF HandledInv, BehindOffset, Poll, Telegram
  <2>3. confirmed' = confirmed \/ confirmed' = loop[l].offset - 1
    BY DEF Poll
  <2> QED BY <2>1, <2>2, <2>3 DEF ConfirmedWasHandled, Poll
<1>4. confirmed' \in 0..arrived
  BY LoopFacts DEF Poll
<1> QED
  BY <1>1, <1>2, <1>3, <1>4, LoopFacts
  DEF LoopStep, Moves, Running, Telegram, Poll, GatewayInv, GatewayTypeOK

\* The batch received begins where the loop was or after what is confirmed.
LEMMA ReceiveStep ==
    ASSUME GatewayInv, NEW l \in Loops, ReceiveUpdates(l)
    PROVE  LoopStep(l)
<1> DEFINE first == IF loop[l].offset > confirmed THEN loop[l].offset ELSE confirmed + 1
<1>1. /\ Telegram(l, "polling") /\ Running(l)
      /\ UNCHANGED <<gateway, adapter, call, offered, telegramVars>>
  BY DEF ReceiveUpdates, Telegram, Running
<1>2. CASE first <= arrived
  <2>1. first \in 1..Len(Updates) + 1 /\ first - 1 <= arrived /\ arrived \in 0..Len(Updates)
    BY <1>2, LoopFacts, UpdatesLength
  <2>2. loop' = [loop EXCEPT ![l].pc = "batch", ![l].offset = first, ![l].upTo = arrived]
    BY <1>2 DEF ReceiveUpdates
  <2>3. ASSUME HandledInv
        PROVE  \A u \in 1..first - 1 : loop[l].cancelled \/ (Updates[u] = "wanted" => u \in served)
    <3>1. \A u \in 1..confirmed : Updates[u] = "wanted" => u \in served
      BY <2>3 DEF HandledInv, ConfirmedWasHandled
    <3>2. ~loop[l].cancelled =>
              \A u \in 1..loop[l].offset - 1 : Updates[u] = "wanted" => u \in served
      BY <1>1, <2>3 DEF HandledInv, BehindOffset, Telegram
    <3>3. first - 1 = confirmed \/ first - 1 = loop[l].offset - 1
      BY LoopFacts
    <3> QED BY <3>1, <3>2, <3>3
  <2> HIDE DEF first
  <2>4. Moves(l, "batch", first, arrived)
    BY <2>1, <2>2, BatchMoves DEF GatewayInv
  <2>5. HandledInv => ConfirmedWasHandled' /\ BehindOffset(l)'
    BY <1>1, <2>3, <2>4
    DEF Moves, BehindOffset, HandledInv, ConfirmedWasHandled, telegramVars
  <2> QED
    BY <1>1, <2>1, <2>4, <2>5, LoopFacts
    DEF LoopStep, Moves, Running, Telegram, telegramVars, GatewayInv, GatewayTypeOK
<1>3. CASE ~(first <= arrived)
  <2>1. Becomes(l, "poll")
    BY <1>3 DEF ReceiveUpdates
  <2> QED
    BY <1>1, <2>1, BecomesStep DEF GoesTo, Telegram, telegramVars, GatewayInv, GatewayTypeOK
<1> QED BY <1>2, <1>3

\* A batch is done with, and the loop is where it was.
LEMMA BatchDoneStep ==
    ASSUME GatewayInv, NEW l \in Loops, BatchDone(l)
    PROVE  LoopStep(l)
<1>1. Moves(l, "poll", loop[l].offset, 0)
  <2>1. 0 \in 0..Len(Updates)
    BY UpdatesLength
  <2>2. loop' = [loop EXCEPT ![l].pc = "poll", ![l].upTo = 0]
    BY DEF BatchDone
  <2> QED BY <2>1, <2>2, BatchDoneMoves DEF GatewayInv
<1>2. HandledInv => ConfirmedWasHandled' /\ BehindOffset(l)'
  BY <1>1
  DEF Moves, BehindOffset, HandledInv, ConfirmedWasHandled, BatchDone, Telegram, telegramVars
<1> QED
  BY <1>1, <1>2, LoopFacts
  DEF LoopStep, Moves, Running, Telegram, telegramVars, BatchDone, GatewayInv, GatewayTypeOK

\* The update a loop steps over is not of a type it asks for.
LEMMA SkipStep ==
    ASSUME GatewayInv, NEW l \in Loops, SkipUpdate(l)
    PROVE  LoopStep(l)
<1>1. loop[l].offset <= Len(Updates) /\ loop[l].offset <= arrived
  BY LoopFacts, UpdatesLength DEF SkipUpdate
<1>2. Moves(l, loop[l].pc, loop[l].offset + 1, loop[l].upTo)
  BY <1>1, SkipMoves DEF GatewayInv, SkipUpdate
<1>3. ASSUME HandledInv
      PROVE  BehindOffset(l)'
  <2>1. /\ loop[l].type = "telegram" /\ loop[l].pc = "batch"
        /\ UNCHANGED <<served, confirmed>>
    BY DEF SkipUpdate, Telegram, telegramVars
  <2>2. ASSUME ~loop[l].cancelled, NEW u \in 1..loop[l].offset - 1, Updates[u] = "wanted"
        PROVE  u \in served
    BY <1>3, <2>1, <2>2 DEF HandledInv, BehindOffset
  <2>3. \A u \in 1..loop'[l].offset - 1 : u = loop[l].offset \/ u \in 1..loop[l].offset - 1
    BY <1>2, LoopFacts DEF Moves
  <2>4. Updates[loop[l].offset] # "wanted"
    BY DEF SkipUpdate
  <2> QED BY <1>2, <2>1, <2>2, <2>3, <2>4 DEF Moves, BehindOffset
<1>4. HandledInv => ConfirmedWasHandled'
  BY DEF HandledInv, ConfirmedWasHandled, SkipUpdate, telegramVars
<1> QED
  BY <1>1, <1>2, <1>3, <1>4, LoopFacts
  DEF LoopStep, Moves, Running, Telegram, telegramVars, SkipUpdate, GatewayInv, GatewayTypeOK

\* The update a loop hands over is the one it is handling.
LEMMA HandleStep ==
    ASSUME GatewayInv, NEW l \in Loops, HandleUpdate(l)
    PROVE  LoopStep(l)
<1>1. loop[l].offset <= Len(Updates) /\ loop[l].offset <= arrived
  BY LoopFacts, UpdatesLength DEF HandleUpdate
<1>2. Moves(l, "handle", loop[l].offset + 1, loop[l].upTo)
  BY <1>1, HandleMoves DEF GatewayInv, HandleUpdate
<1>3. ASSUME HandledInv
      PROVE  BehindOffset(l)'
  <2>1. /\ loop[l].type = "telegram" /\ loop[l].pc = "batch"
        /\ UNCHANGED <<served, confirmed>>
    BY DEF HandleUpdate, Telegram, telegramVars
  <2>2. ASSUME ~loop[l].cancelled, NEW u \in 1..loop[l].offset - 1, Updates[u] = "wanted"
        PROVE  u \in served
    BY <1>3, <2>1, <2>2 DEF HandledInv, BehindOffset
  <2>3. \A u \in 1..loop'[l].offset - 1 : u = loop[l].offset \/ u \in 1..loop[l].offset - 1
    BY <1>2, LoopFacts DEF Moves
  <2>4. loop'[l].pc = "handle" /\ loop[l].offset = loop'[l].offset - 1
    BY <1>2, LoopFacts DEF Moves
  <2> QED BY <1>2, <2>1, <2>2, <2>3, <2>4 DEF Moves, BehindOffset
<1>4. HandledInv => ConfirmedWasHandled'
  BY DEF HandledInv, ConfirmedWasHandled, HandleUpdate, telegramVars
<1>5. call' \in [Loops -> CallStates]
  BY CallType DEF HandleUpdate, GatewayInv
<1> QED
  BY <1>1, <1>2, <1>3, <1>4, <1>5, LoopFacts
  DEF LoopStep, Moves, Running, Telegram, telegramVars, HandleUpdate, GatewayInv, GatewayTypeOK

\* An update whose handler has run is served, unless the loop was told to stop.
LEMMA ReplyStep ==
    ASSUME GatewayInv, NEW l \in Loops, Reply(l)
    PROVE  LoopStep(l)
<1>1. Moves(l, "batch", loop[l].offset, loop[l].upTo)
  BY BecomesMoves DEF GatewayInv, Reply, GoesTo
<1>2. loop[l].offset - 1 \in 1..arrived
  BY LoopFacts DEF Reply, GatewayInv, OffsetInv
<1>3. served \subseteq served' /\ served' \subseteq 1..arrived
  BY <1>2 DEF Reply, GatewayInv, GatewayTypeOK
<1>4. HandledInv => BehindOffset(l)'
  BY <1>1, <1>3 DEF Moves, BehindOffset, HandledInv, Reply, Telegram
<1>5. HandledInv => ConfirmedWasHandled'
  BY <1>3 DEF HandledInv, ConfirmedWasHandled, Reply
<1>6. call' \in [Loops -> CallStates]
  BY CallType DEF Reply, GatewayInv
<1> QED
  BY <1>1, <1>3, <1>4, <1>5, <1>6, LoopFacts
  DEF LoopStep, Moves, Running, Telegram, Reply, GatewayInv, GatewayTypeOK

\* Every step of an adapter, or of what it serves, keeps to it.
LEMMA AdapterSteps ==
    ASSUME GatewayInv, NEW l \in Loops,
           AdapterStep(l) \/ HandlerAnswers(l) \/ Request(l) \/ CronFires(l)
    PROVE  LoopStep(l)
<1>0. \A pc \in {"poll", "polling", "backoff", "batch", "tick", "serve", "ended", "lost", "handle"} :
          pc \in GoesTo
  BY DEF GoesTo
<1>1. ASSUME UNCHANGED call
      PROVE  call' \in [Loops -> CallStates]
  BY <1>1 DEF GatewayInv, GatewayTypeOK
<1>2. CASE ConnectTelegram(l)
  <2>1. /\ Running(l) /\ loop[l].pc = "start"
        /\ UNCHANGED <<gateway, adapter, call, offered, telegramVars>>
    BY <1>2 DEF ConnectTelegram, Telegram, Running
  <2>2. Becomes(l, "poll") \/ LoopEnds(l) \/ Becomes(l, "lost")
    BY <1>2 DEF ConnectTelegram
  <2> QED BY <1>0, <1>1, <2>1, <2>2, BecomesStep, EndsStep
<1>3. CASE PollFails(l) \/ BackoffOver(l)
  <2>1. /\ Running(l) /\ loop[l].pc # "handle"
        /\ UNCHANGED <<gateway, adapter, call, offered, telegramVars>>
        /\ Becomes(l, "backoff") \/ Becomes(l, "poll")
    BY <1>3 DEF PollFails, BackoffOver, Telegram, Running
  <2> QED BY <1>0, <1>1, <2>1, BecomesStep
<1>4. CASE PollLoopExits(l) \/ CronExits(l)
  BY <1>4, EndsStep DEF PollLoopExits, CronExits
<1>5. CASE Listen(l) \/ StartTicker(l)
  <2>1. /\ Running(l) /\ loop[l].pc = "start"
        /\ UNCHANGED <<gateway, adapter, call, offered, telegramVars>>
        /\ Becomes(l, "serve") \/ Becomes(l, "tick") \/ LoopEnds(l)
    BY <1>5 DEF Listen, StartTicker, Webhook, Cron, Running
  <2> QED BY <1>0, <1>1, <2>1, BecomesStep, EndsStep
<1>6. CASE Request(l) \/ Respond(l) \/ HandlerAnswers(l)
  <2>1. call' \in [Loops -> CallStates] /\ UNCHANGED <<gateway, adapter, loop, offered, telegramVars>>
    BY <1>6, CallType DEF Request, Respond, HandlerAnswers, GatewayInv
  <2>2. HandledInv => ConfirmedWasHandled' /\ BehindOffset(l)'
    BY <2>1 DEF HandledInv, ConfirmedWasHandled, BehindOffset, telegramVars
  <2> QED
    BY <2>1, <2>2
    DEF LoopStep, Running, Telegram, telegramVars, GatewayInv, GatewayTypeOK, OffsetInv
<1>7. CASE ShutDown(l)
  <2>1. /\ Running(l) /\ loop[l].type = "webhook" /\ Becomes(l, "ended")
        /\ UNCHANGED <<gateway, adapter, call, offered, telegramVars>>
    BY <1>7 DEF ShutDown, Webhook, Running
  <2> QED BY <1>0, <1>1, <2>1, BecomesStep
<1>8. CASE CronGoesOn(l) \/ CronFires(l)
  <2>1. /\ Running(l) /\ loop[l].type = "cron"
        /\ Becomes(l, "tick") \/ Becomes(l, "handle")
        /\ UNCHANGED <<gateway, adapter, offered, telegramVars>>
        /\ Begin(l) \/ Collect(l)
    BY <1>8 DEF CronGoesOn, CronFires, Cron, Running
  <2>2. call' \in [Loops -> CallStates]
    BY <2>1, CallType DEF GatewayInv
  <2>3. loop[l].type # "telegram"
    BY <2>1
  <2> QED BY <1>0, <2>1, <2>2, <2>3, BecomesStep
<1> QED
  BY <1>2, <1>3, <1>4, <1>5, <1>6, <1>7, <1>8, PollStep, ReceiveStep, BatchDoneStep, SkipStep,
     HandleStep, ReplyStep
  DEF AdapterStep

-----------------------------------------------------------------------------
(* The steps of the sync loop and of the world. *)

\* A loop is put back to its start, or goes on where it was, perhaps cancelled.
Keeps(l) ==
    \/ loop'[l].offset = 1 /\ loop'[l].upTo = 0 /\ loop'[l].pc # "handle"
    \/ /\ loop'[l].type = loop[l].type /\ loop'[l].pc = loop[l].pc
       /\ loop'[l].offset = loop[l].offset /\ loop'[l].upTo = loop[l].upTo
       /\ loop[l].cancelled => loop'[l].cancelled

\* What every step of the sync loop and of the world keeps to.
SyncStep ==
    /\ arrived' \in 0..Len(Updates) /\ arrived <= arrived'
    /\ UNCHANGED <<confirmed, served>>
    /\ gateway' \in GatewayState /\ adapter' \in Loops \cup {NoLoop}
    /\ loop' \in [Loops -> LoopState]
    /\ call' \in [Loops -> CallStates] /\ offered' \in Offers
    /\ \A l \in Loops : Keeps(l)
    /\ SyncInv' /\ LoopInv'

\* A step that keeps to it preserves the invariants.
LEMMA SyncStepInv ==
    ASSUME GatewayInv, SyncStep
    PROVE  GatewayInv' /\ (HandledInv => HandledInv')
<1>1. arrived \in Nat /\ arrived' \in Nat /\ arrived <= arrived'
  BY UpdatesLength DEF SyncStep, GatewayInv, GatewayTypeOK
<1>2. GatewayTypeOK'
  <2>1. confirmed' \in 0..arrived' /\ served' \subseteq 1..arrived'
    BY <1>1 DEF SyncStep, GatewayInv, GatewayTypeOK
  <2> QED BY <2>1 DEF SyncStep, GatewayTypeOK
<1>3. ASSUME NEW l \in Loops
      PROVE  /\ loop'[l].offset - 1 <= arrived' /\ loop'[l].upTo <= arrived'
             /\ Telegram(l, "handle")' => loop'[l].offset > 1
  BY <1>1, LoopFacts DEF SyncStep, Keeps, GatewayInv, OffsetInv, Telegram
<1>4. OffsetInv'
  BY <1>3 DEF OffsetInv
<1>5. ASSUME HandledInv, NEW l \in Loops
      PROVE  BehindOffset(l)'
  BY <1>5 DEF SyncStep, Keeps, HandledInv, BehindOffset
<1>6. HandledInv => HandledInv'
  BY <1>5 DEF SyncStep, HandledInv, ConfirmedWasHandled
<1> QED BY <1>2, <1>4, <1>6 DEF SyncStep, GatewayInv

\* Cancelling leaves every loop where it is.
LEMMA CancelKeeps ==
    ASSUME GatewayInv, NEW S \in SUBSET Loops, Cancel(S)
    PROVE  /\ loop' \in [Loops -> LoopState]
           /\ \A l \in Loops : Keeps(l) /\ loop'[l].type = loop[l].type /\ loop'[l].pc = loop[l].pc
<1>1. loop' \in [Loops -> LoopState]
  BY CancelType DEF GatewayInv
<1>2. ASSUME NEW l \in Loops
      PROVE  Keeps(l) /\ loop'[l].type = loop[l].type /\ loop'[l].pc = loop[l].pc
  <2>1. PICK r : r = [loop[l] EXCEPT !.cancelled = @ \/ (l \in S /\ Running(l))]
    OBVIOUS
  <2>2. loop'[l] = r
    BY <2>1 DEF Cancel
  <2>3. loop[l] \in LoopState
    BY DEF GatewayInv, GatewayTypeOK
  <2>4. /\ r.type = loop[l].type /\ r.pc = loop[l].pc
        /\ r.offset = loop[l].offset /\ r.upTo = loop[l].upTo
        /\ r.cancelled = (loop[l].cancelled \/ (l \in S /\ Running(l)))
    BY <2>1, <2>3 DEF LoopState
  <2> QED BY <2>2, <2>4 DEF Keeps
<1> QED BY <1>1, <1>2

\* A step that touches neither the loops nor their calls.
LEMMA LoopsUntouched ==
    ASSUME GatewayInv, UNCHANGED <<adapter, loop, call, confirmed, served>>,
           gateway' \in GatewayState, offered' \in Offers,
           arrived' \in 0..Len(Updates), arrived <= arrived', SyncInv'
    PROVE  SyncStep
BY DEF SyncStep, Keeps, GatewayInv, GatewayTypeOK, LoopInv, Running

\* The sync loop moves to another pc.
LEMMA GatewayMoves ==
    ASSUME GatewayInv, UNCHANGED <<adapter, loop, call, offered, telegramVars>>,
           gateway' \in GatewayState, SyncInv'
    PROVE  SyncStep
BY LoopsUntouched, UpdatesLength DEF GatewayInv, GatewayTypeOK, telegramVars

\* The process ends.
LEMMA GoneStep ==
    ASSUME GatewayInv, ProcessGone
    PROVE  SyncStep
<1>1. Down \in GatewayState
  BY GatewayStateType DEF GatewayInv
<1>2. SyncInv'
  BY DEF ProcessGone, Down, SyncInv
<1>3. \A l \in Loops : loop'[l] = NotStarted
  BY DEF ProcessGone
<1>4. LoopInv' /\ \A l \in Loops : Keeps(l)
  BY <1>3 DEF LoopInv, Keeps, NotStarted, Running
<1>5. loop' \in [Loops -> LoopState]
  BY NotStartedType DEF ProcessGone
<1>6. call' \in [Loops -> CallStates]
  BY CallType DEF ProcessGone, GatewayInv, Abandon, CallStates, Loops
<1> QED
  BY <1>1, <1>2, <1>4, <1>5, <1>6, UpdatesLength
  DEF SyncStep, ProcessGone, GatewayInv, GatewayTypeOK, telegramVars

\* An adapter is started: the trigger had none, so no poll loop runs.
LEMMA StartStep ==
    ASSUME GatewayInv, NEW l \in Loops, StartAdapter(l)
    PROVE  SyncStep
<1> DEFINE new == [NotStarted EXCEPT !.type = gateway.spec, !.pc = "start",
                                     !.cancelled = gateway.terminating]
<1>1. new \in LoopState /\ new.offset = 1 /\ new.upTo = 0 /\ new.pc = "start"
  BY UpdatesLength DEF NotStarted, LoopState, StartAdapter, GatewayInv, GatewayTypeOK, GatewayState
<1>2. loop' = [loop EXCEPT ![l] = new]
  BY DEF StartAdapter
<1> HIDE DEF new
<1>3. /\ loop' \in [Loops -> LoopState] /\ loop'[l] = new
      /\ \A m \in Loops \ {l} : loop'[m] = loop[m]
  BY <1>1, <1>2 DEF GatewayInv, GatewayTypeOK
<1>4. \A m \in Loops : Keeps(m)
  BY <1>1, <1>3 DEF Keeps
<1>5. adapter = NoLoop /\ adapter' = l
  BY DEF StartAdapter, GatewayInv, SyncInv
<1>6. \A m \in Loops : loop[m].type = "telegram" => ~Running(m)
  BY <1>5, GatewayAssumption DEF GatewayInv, LoopInv
<1>7. LoopInv'
  BY <1>3, <1>5, <1>6 DEF LoopInv, Running
<1>8. gateway' \in GatewayState
  BY GatewayStateType DEF StartAdapter, GatewayInv
<1>9. SyncInv'
  BY DEF StartAdapter, SyncInv, GatewayInv, GatewayTypeOK, GatewayState
<1> QED
  BY <1>3, <1>4, <1>5, <1>7, <1>8, <1>9, UpdatesLength
  DEF SyncStep, StartAdapter, GatewayInv, GatewayTypeOK, telegramVars

\* Stop has returned: a poll loop has ended by then.
LEMMA StoppedStep ==
    ASSUME GatewayInv, Stopped
    PROVE  SyncStep
<1>1. adapter \in Loops
  BY DEF Stopped, GatewayInv, GatewayTypeOK, SyncInv
<1>2. loop[adapter].type = "telegram" => ~Running(adapter)
  BY <1>1 DEF Stopped, StopReturns, Running
<1>3. /\ loop' \in [Loops -> LoopState]
      /\ \A m \in Loops : loop'[m] = loop[m] \/ loop'[m] = NotStarted
  BY NotStartedType DEF Stopped, GatewayInv, GatewayTypeOK
<1>4. \A m \in Loops : Keeps(m)
  BY <1>3 DEF Keeps, NotStarted
<1>5. \A m \in Loops : loop[m].type = "telegram" => ~Running(m)
  BY <1>1, <1>2 DEF GatewayInv, LoopInv
<1>6. LoopInv'
  BY <1>3, <1>5 DEF LoopInv, Running, NotStarted
<1>7. gateway' \in GatewayState
  BY GatewayStateType DEF Stopped, GatewayInv
<1>8. SyncInv'
  BY DEF Stopped, SyncInv, GatewayInv, GatewayTypeOK, GatewayState
<1> QED
  BY <1>3, <1>4, <1>6, <1>7, <1>8, UpdatesLength
  DEF SyncStep, Stopped, GatewayInv, GatewayTypeOK, telegramVars

\* Contexts are cancelled.
LEMMA CancelStep ==
    ASSUME GatewayInv, NEW S \in SUBSET Loops, Cancel(S),
           UNCHANGED <<adapter, call, offered, telegramVars>>, gateway' \in GatewayState, SyncInv'
    PROVE  SyncStep
<1>1. LoopInv'
  BY CancelKeeps DEF LoopInv, Running, GatewayInv
<1> QED
  BY <1>1, CancelKeeps, UpdatesLength DEF SyncStep, GatewayInv, GatewayTypeOK, telegramVars

\* Every step of the sync loop and of the world keeps to it.
LEMMA SyncSteps ==
    ASSUME GatewayInv, Sync \/ TriggerChanges \/ UpdateArrives \/ Boot \/ Sigterm \/ Crash
    PROVE  SyncStep
<1>0. /\ arrived \in Nat /\ arrived <= arrived /\ arrived \in 0..Len(Updates)
      /\ gateway \in GatewayState /\ offered \in Offers /\ GatewayTypeOK /\ SyncInv
  BY UpdatesLength DEF GatewayInv, GatewayTypeOK
<1>1. CASE Tick \/ ListFails \/ BuildFails \/ Boot
  <2>1. gateway' \in GatewayState
    <3>1. gateway' \in {[gateway EXCEPT !.pc = "list"], [gateway EXCEPT !.pc = "idle"],
                         [gateway EXCEPT !.pc = "idle", !.spec = "none"], [Down EXCEPT !.pc = "list"]}
      BY <1>1 DEF Tick, ListFails, BuildFails, Boot
    <3>2. \A pc \in {"list", "idle"} :
             /\ [gateway EXCEPT !.pc = pc] \in GatewayState
             /\ [gateway EXCEPT !.pc = pc, !.spec = "none"] \in GatewayState
             /\ [Down EXCEPT !.pc = pc] \in GatewayState
      BY <1>0, GatewayStateType
    <3> QED BY <3>1, <3>2
  <2>2. gateway'.pc \in {"list", "idle"}
    BY <1>0, <1>1 DEF Tick, ListFails, BuildFails, Boot, GatewayState, Down
  <2>3. UNCHANGED <<adapter, loop, call, offered, telegramVars>>
    BY <1>1 DEF Tick, ListFails, BuildFails, Boot
  <2> QED BY <2>1, <2>2, <2>3, GatewayMoves DEF SyncInv
<1>2. CASE ListTriggers
  <2>1. gateway' \in GatewayState
    <3>1. PICK pc \in {"build", "idle", "stop"}, spec \in Specs \cup {"none"} :
              gateway' = [gateway EXCEPT !.pc = pc, !.spec = spec]
      BY <1>0, <1>2 DEF ListTriggers, Offers
    <3> QED BY <1>0, <3>1, GatewayStateType
  <2>2. (gateway'.pc = "stop" => adapter # NoLoop) /\ (gateway'.pc = "build" => adapter = NoLoop)
        /\ gateway'.pc # "wait"
    BY <1>0, <1>2 DEF ListTriggers, GatewayState, Offers
  <2>3. UNCHANGED <<adapter, loop, call, offered, telegramVars>>
    BY <1>2 DEF ListTriggers
  <2> QED BY <2>1, <2>2, <2>3, GatewayMoves DEF SyncInv
<1>3. CASE StopAll
  <2>1. gateway' \in GatewayState
    BY <1>0, <1>3, GatewayStateType DEF StopAll
  <2>2. gateway'.pc = "stop" /\ adapter # NoLoop
    BY <1>0, <1>3 DEF StopAll, GatewayState
  <2>3. UNCHANGED <<adapter, loop, call, offered, telegramVars>>
    BY <1>3 DEF StopAll
  <2> QED BY <2>1, <2>2, <2>3, GatewayMoves DEF SyncInv
<1>4. CASE StopAdapter
  <2>1. adapter \in Loops
    BY <1>0, <1>4 DEF StopAdapter, SyncInv, GatewayTypeOK
  <2>2. gateway' \in GatewayState
    BY <1>0, <1>4, GatewayStateType DEF StopAdapter
  <2>3. gateway'.pc = "wait"
    BY <1>0, <1>4 DEF StopAdapter, GatewayState
  <2>4. SyncInv'
    BY <1>0, <1>4, <2>1, <2>3, GatewayAssumption DEF StopAdapter, SyncInv
  <2> QED BY <1>4, <2>1, <2>2, <2>4, CancelStep DEF StopAdapter
<1>5. CASE Sigterm
  <2>1. gateway' \in GatewayState
    BY <1>0, <1>5, GatewayStateType DEF Sigterm
  <2>2. gateway'.pc = gateway.pc
    BY <1>0, <1>5 DEF Sigterm, GatewayState
  <2>3. SyncInv'
    BY <1>0, <1>5, <2>2 DEF Sigterm, SyncInv
  <2> QED BY <1>5, <2>1, <2>3, CancelStep DEF Sigterm
<1>6. CASE TriggerChanges
  <2>1. offered' \in Offers
    BY <1>0, <1>6, LifeType DEF TriggerChanges
  <2> QED
    BY <1>0, <1>6, <2>1, LoopsUntouched DEF TriggerChanges, SyncInv, telegramVars
<1>7. CASE UpdateArrives
  <2>1. arrived' \in 0..Len(Updates) /\ arrived <= arrived'
    BY <1>0, <1>7, UpdatesLength DEF UpdateArrives
  <2> QED BY <1>0, <1>7, <2>1, LoopsUntouched DEF UpdateArrives, SyncInv
<1> QED
  BY <1>1, <1>2, <1>3, <1>4, <1>5, <1>6, <1>7, GoneStep, StartStep, StoppedStep
  DEF Sync, Exit, Crash

-----------------------------------------------------------------------------
(* Adapters that are told to stop. *)

\* A goroutine has a call under way only while it waits for one, or serves
\* requests, or has been told to stop while it did.
CallFits(l) == call[l] # "idle" =>
    \/ loop[l].type \in {"telegram", "cron"} /\ loop[l].pc = "handle"
    \/ loop[l].type = "webhook" /\ (loop[l].pc = "serve" \/ (loop[l].pc = "ended" /\ loop[l].cancelled))

\* A poll loop is at one of its own steps, and no further than one past its batch.
BatchFits(l) == loop[l].type = "telegram" =>
    /\ loop[l].pc \notin {"tick", "serve"}
    /\ loop[l].pc \in {"batch", "handle"} => loop[l].offset <= loop[l].upTo + 1

StoppingInv == StrayLoopsAreStopped /\ \A l \in Loops : CallFits(l) /\ BatchFits(l)

\* StoppedLoopsWindDown, of one loop.
WindsDown(l) ==
    loop[l].type = "telegram" /\ Running(l) /\ loop[l].cancelled /\ loop'[l] # loop[l]
        => StepsLeft(l)' \in 0..StepsLeft(l) - 1

\* What a step of one loop, or of its call, keeps to.
OwnStep(l) ==
    /\ UNCHANGED <<gateway, adapter>>
    /\ \A m \in Loops \ {l} : loop'[m] = loop[m] /\ call'[m] = call[m]
    /\ Running(l)' => Running(l) /\ loop'[l].cancelled = loop[l].cancelled
    /\ CallFits(l)' /\ BatchFits(l)' /\ WindsDown(l)

\* A step that keeps to it preserves the invariant.
LEMMA OwnStepInv ==
    ASSUME StoppingInv, NEW l \in Loops, OwnStep(l)
    PROVE  StoppingInv' /\ \A m \in Loops : WindsDown(m)
<1>1. ASSUME NEW m \in Loops
      PROVE  CallFits(m)' /\ BatchFits(m)' /\ WindsDown(m)
  <2>1. CASE m = l
    BY <2>1 DEF OwnStep
  <2>2. CASE m # l
    <3>1. loop'[m] = loop[m] /\ call'[m] = call[m]
      BY <2>2 DEF OwnStep
    <3> QED BY <3>1 DEF StoppingInv, CallFits, BatchFits, WindsDown
  <2> QED BY <2>1, <2>2
<1>2. ASSUME NEW m \in Loops, Running(m)', ~loop'[m].cancelled
      PROVE  Running(m) /\ ~loop[m].cancelled
  <2>1. CASE m = l
    BY <1>2, <2>1 DEF OwnStep
  <2>2. CASE m # l
    BY <1>2, <2>2 DEF OwnStep, Running
  <2> QED BY <2>1, <2>2
<1>3. StrayLoopsAreStopped'
  BY <1>2 DEF StoppingInv, StrayLoopsAreStopped, OwnStep
<1> QED BY <1>1, <1>3 DEF StoppingInv

\* What the invariants say of a loop and its call.
LEMMA StoppingFacts ==
    ASSUME GatewayInv, StoppingInv, NEW l \in Loops
    PROVE  /\ CallFits(l) /\ BatchFits(l)
           /\ Len(Updates) \in Nat /\ loop[l].offset \in Nat /\ loop[l].upTo \in Nat
           /\ arrived \in Nat /\ arrived <= Len(Updates) /\ loop[l].upTo <= Len(Updates)
BY LoopFacts, UpdatesLength DEF StoppingInv

\* A call that begins, is answered or collected is that of its loop alone.
LEMMA CallOfOne ==
    ASSUME GatewayTypeOK, NEW l \in Loops, Begin(l) \/ Answer(l) \/ Collect(l)
    PROVE  /\ \A m \in Loops \ {l} : call'[m] = call[m]
           /\ Answer(l) => call[l] # "idle"
           /\ Collect(l) => call[l] # "idle" /\ call'[l] = "idle"
BY DEF GatewayTypeOK, Begin, Answer, Collect, Loops

\* A poll loop that runs has a step left.
LEMMA RunningHasSteps ==
    ASSUME GatewayInv, StoppingInv, NEW l \in Loops, loop[l].type = "telegram", Running(l)
    PROVE  StepsLeft(l) \in Nat \ {0}
<1>1. PICK offset \in Nat, upTo \in Nat : offset = loop[l].offset /\ upTo = loop[l].upTo
  BY StoppingFacts
<1>2. loop[l].pc \in {"start", "poll", "polling", "backoff", "batch", "handle"}
  BY StoppingFacts DEF BatchFits, Running, GatewayInv, GatewayTypeOK, LoopState
<1>3. CASE loop[l].pc \in {"batch", "handle"}
  <2>1. offset <= upTo + 1
    BY <1>1, <1>3, StoppingFacts DEF BatchFits
  <2>2. PICK steps \in Nat : steps = 2 * (upTo + 1 - offset)
    BY <2>1
  <2>3. StepsLeft(l) \in {steps + 2, steps + 3}
    BY <1>1, <1>3, <2>2 DEF StepsLeft
  <2> QED BY <2>2, <2>3
<1>4. CASE loop[l].pc \in {"start", "poll", "polling", "backoff"}
  BY <1>4, UpdatesLength DEF StepsLeft
<1> QED BY <1>2, <1>3, <1>4

\* A loop that ends has no call, and no step left.
LEMMA EndsOwn ==
    ASSUME GatewayInv, StoppingInv, NEW l \in Loops, LoopEnds(l),
           loop[l].pc \in {"start", "poll", "polling", "backoff", "tick"},
           UNCHANGED <<gateway, adapter, call>>
    PROVE  OwnStep(l)
<1>1. Ends(l)
  BY LoopEndsEnds DEF GatewayInv
<1>2. call[l] = "idle"
  BY StoppingFacts DEF CallFits
<1>3. CallFits(l)' /\ BatchFits(l)'
  BY <1>1, <1>2 DEF Ends, CallFits, BatchFits
<1>4. ~Running(l)' /\ StepsLeft(l)' = 0
  BY <1>1 DEF Ends, Running, StepsLeft
<1>5. WindsDown(l)
  BY <1>4, RunningHasSteps DEF WindsDown
<1> QED BY <1>1, <1>3, <1>4, <1>5 DEF OwnStep, Ends

\* A poll loop between batches: when it has been told to stop it does not poll.
LEMMA BetweenBatches ==
    ASSUME GatewayInv, StoppingInv, NEW l \in Loops,
           NEW pc \in {"poll", "polling", "backoff", "lost"}, Becomes(l, pc),
           loop[l].type = "telegram", loop[l].pc \in {"start", "poll", "polling", "backoff"},
           loop[l].cancelled => loop[l].pc \in {"start", "polling"} /\ pc # "polling",
           UNCHANGED <<gateway, adapter, call>>
    PROVE  OwnStep(l)
<1>1. Moves(l, pc, loop[l].offset, loop[l].upTo)
  BY BecomesMoves DEF GatewayInv, GoesTo
<1>2. call[l] = "idle"
  BY StoppingFacts DEF CallFits
<1>3. CallFits(l)' /\ BatchFits(l)'
  BY <1>1, <1>2 DEF Moves, CallFits, BatchFits
<1>4. loop[l].cancelled => StepsLeft(l)' \in 0..1 /\ StepsLeft(l) \in Nat /\ StepsLeft(l) > 1
  BY <1>1, StoppingFacts DEF Moves, StepsLeft
<1>5. WindsDown(l)
  BY <1>4 DEF WindsDown
<1> QED BY <1>1, <1>3, <1>5 DEF OwnStep, Moves, Running

\* A poll loop gets, works off and finishes its batch.
LEMMA WithinBatch ==
    ASSUME GatewayInv, StoppingInv, NEW l \in Loops,
           ReceiveUpdates(l) \/ BatchDone(l) \/ SkipUpdate(l) \/ HandleUpdate(l) \/ Reply(l)
    PROVE  OwnStep(l)
<1>0. GatewayTypeOK /\ UNCHANGED <<gateway, adapter>> /\ loop[l].type = "telegram"
  BY DEF GatewayInv, ReceiveUpdates, BatchDone, SkipUpdate, HandleUpdate, Reply, Telegram
<1>f. PICK offset \in Nat, upTo \in Nat, steps \in Int :
          /\ offset = loop[l].offset /\ upTo = loop[l].upTo
          /\ steps = 2 * (upTo + 1 - offset)
  BY StoppingFacts
<1>g. /\ CallFits(l) /\ Len(Updates) \in Nat
      /\ loop[l].pc \in {"batch", "handle"} => offset <= upTo + 1 /\ steps \in Nat
  <2>1. CallFits(l) /\ BatchFits(l) /\ Len(Updates) \in Nat
    BY StoppingFacts
  <2>2. loop[l].pc \in {"batch", "handle"} => offset <= upTo + 1
    BY <1>0, <1>f, <2>1 DEF BatchFits
  <2>3. offset <= upTo + 1 => steps \in Nat
    BY <1>f
  <2> QED BY <2>1, <2>2, <2>3
<1>1. CASE ReceiveUpdates(l)
  <2> DEFINE first == IF loop[l].offset > confirmed THEN loop[l].offset ELSE confirmed + 1
  <2>1. loop[l].pc = "polling" /\ UNCHANGED call
    BY <1>1 DEF ReceiveUpdates, Telegram
  <2>2. CASE first <= arrived
    <3>1. first \in 1..Len(Updates) + 1 /\ arrived \in 0..Len(Updates) /\ first \in Nat \ {0}
      BY <2>2, LoopFacts, UpdatesLength
    <3>2. loop' = [loop EXCEPT ![l].pc = "batch", ![l].offset = first, ![l].upTo = arrived]
      BY <1>1, <2>2 DEF ReceiveUpdates
    <3> HIDE DEF first
    <3>3. Moves(l, "batch", first, arrived)
      BY <1>0, <3>1, <3>2, BatchMoves
    <3>4. CallFits(l)' /\ BatchFits(l)'
      BY <1>g, <2>1, <2>2, <3>1, <3>3 DEF Moves, CallFits, BatchFits
    <3>5. StepsLeft(l)' = 2 * (arrived + 1 - first) + 2 /\ StepsLeft(l) = 2 * Len(Updates) + 3
      BY <2>1, <3>3 DEF Moves, StepsLeft
    <3>6. WindsDown(l)
      BY <2>2, <3>1, <3>5, StoppingFacts DEF WindsDown
    <3> QED BY <1>0, <2>1, <3>3, <3>4, <3>6 DEF OwnStep, Moves, Running
  <2>3. CASE ~(first <= arrived)
    <3>1. Becomes(l, "poll")
      BY <1>1, <2>3 DEF ReceiveUpdates
    <3> QED BY <1>0, <2>1, <3>1, BetweenBatches
  <2> QED BY <2>2, <2>3
<1>2. CASE BatchDone(l)
  <2>1. loop[l].pc = "batch" /\ UNCHANGED call /\ loop[l].offset > loop[l].upTo
        /\ loop' = [loop EXCEPT ![l].pc = "poll", ![l].upTo = 0]
    BY <1>2 DEF BatchDone, Telegram
  <2>2. Moves(l, "poll", loop[l].offset, 0)
    <3>1. 0 \in 0..Len(Updates)
      BY UpdatesLength
    <3> QED BY <1>0, <2>1, <3>1, BatchDoneMoves
  <2>3. CallFits(l)' /\ BatchFits(l)'
    BY <1>0, <1>g, <2>1, <2>2 DEF Moves, CallFits, BatchFits
  <2>4. steps = 0
    <3>1. offset <= upTo + 1
      BY <1>g, <2>1
    <3>2. offset > upTo
      BY <1>f, <2>1
    <3> QED BY <1>f, <3>1, <3>2
  <2>5. StepsLeft(l)' = 1 /\ StepsLeft(l) = 2
    BY <1>f, <2>1, <2>2, <2>4 DEF Moves, StepsLeft
  <2>6. WindsDown(l)
    BY <2>5 DEF WindsDown
  <2> QED BY <1>0, <2>1, <2>2, <2>3, <2>6 DEF OwnStep, Moves, Running
<1>3. CASE SkipUpdate(l) \/ HandleUpdate(l)
  <2>1. loop[l].pc = "batch" /\ loop[l].offset <= loop[l].upTo
    BY <1>3 DEF SkipUpdate, HandleUpdate, Telegram
  <2>2. loop[l].offset <= Len(Updates)
    BY <2>1, StoppingFacts
  <2>3. StepsLeft(l) = steps + 2 /\ steps >= 2
    BY <1>f, <2>1 DEF StepsLeft
  <2>4. CASE SkipUpdate(l)
    <3>1. Moves(l, "batch", loop[l].offset + 1, loop[l].upTo) /\ UNCHANGED call
      BY <1>0, <2>1, <2>2, <2>4, SkipMoves DEF SkipUpdate
    <3>2. CallFits(l)'
      BY <1>0, <1>g, <2>1, <3>1 DEF Moves, CallFits
    <3>3. loop'[l].pc = "batch" /\ loop'[l].offset = offset + 1 /\ loop'[l].upTo = upTo
      BY <1>f, <3>1 DEF Moves
    <3>4. BatchFits(l)'
      BY <1>f, <2>1, <3>3 DEF BatchFits
    <3>5. StepsLeft(l)' = steps
      BY <1>f, <3>3 DEF StepsLeft
    <3>6. WindsDown(l)
      BY <2>3, <3>5 DEF WindsDown
    <3> QED BY <1>0, <2>1, <3>1, <3>2, <3>4, <3>6 DEF OwnStep, Moves, Running
  <2>5. CASE HandleUpdate(l)
    <3>1. Moves(l, "handle", loop[l].offset + 1, loop[l].upTo)
      BY <1>0, <2>2, <2>5, HandleMoves DEF HandleUpdate
    <3>2. \A m \in Loops \ {l} : call'[m] = call[m]
      BY <1>0, <2>5, CallOfOne DEF HandleUpdate
    <3>3. CallFits(l)'
      BY <1>0, <3>1 DEF Moves, CallFits
    <3>4. loop'[l].pc = "handle" /\ loop'[l].offset = offset + 1 /\ loop'[l].upTo = upTo
      BY <1>f, <3>1 DEF Moves
    <3>5. BatchFits(l)'
      BY <1>f, <2>1, <3>4 DEF BatchFits
    <3>6. StepsLeft(l)' = steps + 1
      BY <1>f, <3>4 DEF StepsLeft
    <3>7. WindsDown(l)
      BY <2>3, <3>6 DEF WindsDown
    <3> QED BY <1>0, <2>1, <3>1, <3>2, <3>3, <3>5, <3>7 DEF OwnStep, Moves, Running
  <2> QED BY <1>3, <2>4, <2>5
<1>4. CASE Reply(l)
  <2>1. loop[l].pc = "handle" /\ Collect(l) /\ Becomes(l, "batch")
    BY <1>4 DEF Reply, Telegram
  <2>2. Moves(l, "batch", loop[l].offset, loop[l].upTo)
    BY <1>0, <2>1, BecomesMoves DEF GoesTo
  <2>3. call'[l] = "idle" /\ \A m \in Loops \ {l} : call'[m] = call[m]
    BY <1>0, <2>1, CallOfOne
  <2>4. CallFits(l)'
    BY <2>3 DEF CallFits
  <2>5. loop'[l].pc = "batch" /\ loop'[l].offset = offset /\ loop'[l].upTo = upTo
    BY <1>f, <2>2 DEF Moves
  <2>6. BatchFits(l)'
    BY <1>g, <2>1, <2>5 DEF BatchFits
  <2>7. StepsLeft(l)' = steps + 2 /\ StepsLeft(l) = steps + 3
    BY <1>f, <2>1, <2>5 DEF StepsLeft
  <2>8. WindsDown(l)
    BY <1>g, <2>1, <2>7 DEF WindsDown
  <2> QED BY <1>0, <2>1, <2>2, <2>3, <2>4, <2>6, <2>8 DEF OwnStep, Moves, Running
<1> QED BY <1>1, <1>2, <1>3, <1>4

\* A webhook or cron loop.
LEMMA OtherLoops ==
    ASSUME GatewayInv, StoppingInv, NEW l \in Loops,
           \/ Listen(l) \/ ShutDown(l) \/ Request(l) \/ Respond(l)
           \/ StartTicker(l) \/ CronFires(l) \/ CronGoesOn(l) \/ CronExits(l)
    PROVE  OwnStep(l)
<1>0. /\ GatewayTypeOK /\ UNCHANGED <<gateway, adapter>>
      /\ loop[l].type \in {"webhook", "cron"}
  BY DEF GatewayInv, Listen, ShutDown, Request, Respond, StartTicker, CronFires, CronGoesOn,
         CronExits, Webhook, Cron
<1>1. WindsDown(l)
  BY <1>0 DEF WindsDown
<1>2. ASSUME NEW pc \in {"serve", "tick", "handle", "ended"}, Becomes(l, pc), Running(l), CallFits(l)',
             \A m \in Loops \ {l} : call'[m] = call[m]
      PROVE  OwnStep(l)
  <2>1. Moves(l, pc, loop[l].offset, loop[l].upTo)
    BY <1>0, <1>2, BecomesMoves DEF GoesTo
  <2>2. BatchFits(l)'
    BY <1>0, <2>1 DEF Moves, BatchFits
  <2> QED BY <1>0, <1>1, <1>2, <2>1, <2>2 DEF OwnStep, Moves, Running
<1>3. CASE Listen(l) \/ StartTicker(l) \/ CronExits(l)
  <2>1. /\ loop[l].pc \in {"start", "tick"} /\ Running(l) /\ UNCHANGED call
        /\ Becomes(l, "serve") \/ Becomes(l, "tick") \/ LoopEnds(l)
    BY <1>3 DEF Listen, StartTicker, CronExits, Webhook, Cron, Running
  <2>2. CallFits(l)'
    BY <2>1, StoppingFacts DEF CallFits
  <2>3. CASE LoopEnds(l)
    BY <1>0, <2>1, <2>3, EndsOwn
  <2> QED BY <1>2, <2>1, <2>2, <2>3
<1>4. CASE ShutDown(l)
  <2>1. /\ loop[l].pc = "serve" /\ loop[l].type = "webhook" /\ loop[l].cancelled
        /\ Becomes(l, "ended") /\ UNCHANGED call
    BY <1>4 DEF ShutDown, Webhook
  <2>2. Moves(l, "ended", loop[l].offset, loop[l].upTo)
    BY <1>0, <2>1, BecomesMoves DEF GoesTo
  <2>3. CallFits(l)'
    BY <2>1, <2>2 DEF Moves, CallFits
  <2> QED BY <1>2, <2>1, <2>3 DEF Running
<1>5. CASE CronFires(l) \/ CronGoesOn(l)
  <2>1. /\ loop[l].type = "cron" /\ Running(l)
        /\ \/ Begin(l) /\ Becomes(l, "handle")
           \/ Collect(l) /\ Becomes(l, "tick")
    BY <1>5 DEF CronFires, CronGoesOn, Cron, Running
  <2>2. /\ \A m \in Loops \ {l} : call'[m] = call[m]
        /\ Collect(l) => call'[l] = "idle"
    BY <1>0, <2>1, CallOfOne
  <2>3. CASE Begin(l) /\ Becomes(l, "handle")
    <3>1. Moves(l, "handle", loop[l].offset, loop[l].upTo)
      BY <1>0, <2>3, BecomesMoves DEF GoesTo
    <3>2. CallFits(l)'
      BY <2>1, <3>1 DEF Moves, CallFits
    <3> QED BY <1>2, <2>1, <2>2, <2>3, <3>2
  <2>4. CASE Collect(l) /\ Becomes(l, "tick")
    <3>1. CallFits(l)'
      BY <2>2, <2>4 DEF CallFits
    <3> QED BY <1>2, <2>1, <2>2, <2>4, <3>1
  <2> QED BY <2>1, <2>3, <2>4
<1>6. CASE Request(l) \/ Respond(l)
  <2>1. /\ loop[l].type = "webhook" /\ UNCHANGED loop
        /\ (Begin(l) /\ loop[l].pc = "serve") \/ Collect(l)
    BY <1>6 DEF Request, Respond, Webhook
  <2>2. /\ \A m \in Loops \ {l} : call'[m] = call[m]
        /\ Collect(l) => call'[l] = "idle"
    BY <1>0, <2>1, CallOfOne
  <2>3. CallFits(l)' /\ BatchFits(l)'
    BY <2>1, <2>2 DEF CallFits, BatchFits
  <2> QED BY <1>0, <1>1, <2>1, <2>2, <2>3 DEF OwnStep, Running
<1> QED BY <1>3, <1>4, <1>5, <1>6

\* Every step of an adapter, or of what it serves, keeps to it.
LEMMA OwnSteps ==
    ASSUME GatewayInv, StoppingInv, NEW l \in Loops,
           AdapterStep(l) \/ HandlerAnswers(l) \/ Request(l) \/ CronFires(l)
    PROVE  OwnStep(l)
<1>1. CASE ConnectTelegram(l) \/ Poll(l) \/ PollFails(l) \/ BackoffOver(l)
  <2>1. /\ loop[l].type = "telegram" /\ UNCHANGED <<gateway, adapter, call>>
        /\ loop[l].pc \in {"start", "poll", "polling", "backoff"}
        /\ \/ LoopEnds(l)
           \/ Becomes(l, "polling") /\ ~loop[l].cancelled
           \/ Becomes(l, "poll") /\ ~loop[l].cancelled
           \/ Becomes(l, "lost") /\ loop[l].pc = "start"
           \/ Becomes(l, "backoff") /\ loop[l].pc = "polling"
    BY <1>1 DEF ConnectTelegram, Poll, PollFails, BackoffOver, Telegram
  <2> QED BY <2>1, EndsOwn, BetweenBatches
<1>2. CASE PollLoopExits(l)
  BY <1>2, EndsOwn DEF PollLoopExits
<1>3. CASE HandlerAnswers(l)
  <2>1. Answer(l) /\ UNCHANGED <<gateway, adapter, loop>>
    BY <1>3 DEF HandlerAnswers
  <2>2. call[l] # "idle" /\ \A m \in Loops \ {l} : call'[m] = call[m]
    BY <2>1, CallOfOne DEF GatewayInv
  <2>3. CallFits(l)' /\ BatchFits(l)' /\ WindsDown(l)
    BY <2>1, <2>2, StoppingFacts DEF CallFits, BatchFits, WindsDown
  <2> QED BY <2>1, <2>2, <2>3 DEF OwnStep, Running
<1> QED BY <1>1, <1>2, <1>3, WithinBatch, OtherLoops DEF AdapterStep

\* A step that touches neither loops nor calls, waits for no Stop it did not wait
\* for, and hears of no SIGTERM.
LEMMA NothingStops ==
    ASSUME StoppingInv, UNCHANGED <<adapter, loop, call>>,
           gateway'.pc = "wait" => gateway.pc = "wait",
           gateway'.terminating => gateway.terminating
    PROVE  StoppingInv' /\ \A l \in Loops : WindsDown(l)
<1>1. StrayLoopsAreStopped'
  BY DEF StoppingInv, StrayLoopsAreStopped, Running
<1>2. ASSUME NEW l \in Loops
      PROVE  CallFits(l)' /\ BatchFits(l)' /\ WindsDown(l)
  BY DEF StoppingInv, CallFits, BatchFits, WindsDown
<1> QED BY <1>1, <1>2 DEF StoppingInv

\* Contexts are cancelled: which, for every loop.
LEMMA CancelCancels ==
    ASSUME GatewayInv, NEW S \in SUBSET Loops, Cancel(S), NEW l \in Loops
    PROVE  /\ loop'[l].type = loop[l].type /\ loop'[l].pc = loop[l].pc
           /\ loop'[l].offset = loop[l].offset /\ loop'[l].upTo = loop[l].upTo
           /\ loop'[l].cancelled = (loop[l].cancelled \/ (l \in S /\ Running(l)))
           /\ loop[l].cancelled => loop'[l] = loop[l]
<1>1. loop[l] \in LoopState
  BY DEF GatewayInv, GatewayTypeOK
<1>2. PICK c \in BOOLEAN : c = (loop[l].cancelled \/ (l \in S /\ Running(l)))
  BY <1>1 DEF LoopState
<1>3. loop'[l] = [loop[l] EXCEPT !.cancelled = c]
  BY <1>2 DEF Cancel
<1>4. /\ loop'[l].type = loop[l].type /\ loop'[l].pc = loop[l].pc
      /\ loop'[l].offset = loop[l].offset /\ loop'[l].upTo = loop[l].upTo
      /\ loop'[l].cancelled = c
  BY <1>1, <1>3 DEF LoopState
<1>5. c = loop[l].cancelled => loop'[l] = loop[l]
  BY <1>1, <1>3 DEF LoopState
<1>6. loop[l].cancelled => c = loop[l].cancelled
  BY <1>1, <1>2 DEF LoopState
<1> QED BY <1>2, <1>4, <1>5, <1>6

\* Whoever is told, their calls and batches are as they were.
LEMMA CancelFits ==
    ASSUME GatewayInv, StoppingInv, NEW S \in SUBSET Loops, Cancel(S), UNCHANGED call,
           NEW l \in Loops
    PROVE  CallFits(l)' /\ BatchFits(l)' /\ WindsDown(l)
<1>1. CallFits(l) /\ BatchFits(l)
  BY DEF StoppingInv
<1> QED BY <1>1, CancelCancels DEF CallFits, BatchFits, WindsDown

\* Loops that have not started, or are made anew, have no call and no batch.
LEMMA FreshFits ==
    ASSUME NEW l \in Loops, loop'[l].pc \in {"none", "start"},
           call'[l] = "idle", ~Running(l)
    PROVE  CallFits(l)' /\ BatchFits(l)' /\ WindsDown(l)
BY DEF CallFits, BatchFits, WindsDown

\* Loops that are left alone fit as before.
LEMMA SameFits ==
    ASSUME StoppingInv, NEW l \in Loops, loop'[l] = loop[l], call'[l] = call[l]
    PROVE  CallFits(l)' /\ BatchFits(l)' /\ WindsDown(l)
BY DEF StoppingInv, CallFits, BatchFits, WindsDown

\* Every step of the sync loop and of the world preserves the invariant.
LEMMA StoppingSteps ==
    ASSUME GatewayInv, StoppingInv, Sync \/ TriggerChanges \/ UpdateArrives \/ Boot \/ Sigterm \/ Crash
    PROVE  StoppingInv' /\ \A l \in Loops : WindsDown(l)
<1>0. gateway \in GatewayState /\ loop \in [Loops -> LoopState] /\ GatewayTypeOK
  BY DEF GatewayInv, GatewayTypeOK
<1>1. CASE Tick \/ ListTriggers \/ ListFails \/ BuildFails \/ StopAll \/ Boot
  <2>1. UNCHANGED <<adapter, loop, call>>
    BY <1>1 DEF Tick, ListTriggers, ListFails, BuildFails, StopAll, Boot
  <2>2. gateway'.pc # "wait" /\ (gateway'.terminating => gateway.terminating)
    <3>1. CASE ListTriggers
      <4>1. PICK pc \in {"build", "idle", "stop"}, spec \in Specs \cup {"none"} :
                gateway' = [gateway EXCEPT !.pc = pc, !.spec = spec]
        BY <1>0, <3>1 DEF ListTriggers, Offers, GatewayTypeOK
      <4> QED BY <1>0, <4>1 DEF GatewayState
    <3>2. CASE Tick \/ ListFails \/ BuildFails \/ StopAll \/ Boot
      BY <1>0, <3>2 DEF Tick, ListFails, BuildFails, StopAll, Boot, Down, GatewayState
    <3> QED BY <1>1, <3>1, <3>2
  <2> QED BY <2>1, <2>2, NothingStops
<1>2. CASE TriggerChanges \/ UpdateArrives
  BY <1>2, NothingStops DEF TriggerChanges, UpdateArrives, telegramVars
<1>3. CASE StopAdapter
  <2>1. adapter \in Loops /\ Cancel({adapter}) /\ UNCHANGED <<adapter, call>>
    BY <1>0, <1>3 DEF StopAdapter, GatewayInv, SyncInv, GatewayTypeOK
  <2>2. gateway'.terminating = gateway.terminating
    BY <1>0, <1>3 DEF StopAdapter, GatewayState
  <2>3. ASSUME NEW l \in Loops, Running(l)', ~loop'[l].cancelled
        PROVE  FALSE
    <3>1. Running(l) /\ ~loop[l].cancelled /\ l # adapter
      BY <2>1, <2>3, CancelCancels DEF Running
    <3> QED BY <3>1 DEF StoppingInv, StrayLoopsAreStopped
  <2> QED BY <2>1, <2>3, CancelFits DEF StoppingInv, StrayLoopsAreStopped
<1>4. CASE Sigterm
  <2>1. Cancel(Loops) /\ UNCHANGED call
    BY <1>4 DEF Sigterm
  <2>2. ASSUME NEW l \in Loops, Running(l)', ~loop'[l].cancelled
        PROVE  FALSE
    BY <2>1, <2>2, CancelCancels DEF Running
  <2> QED BY <2>1, <2>2, CancelFits DEF StoppingInv, StrayLoopsAreStopped
<1>5. CASE ProcessGone
  <2>1. \A l \in Loops : loop'[l] = NotStarted /\ call'[l] = "idle"
    BY <1>5 DEF ProcessGone, Abandon, Loops
  <2>2. \A l \in Loops : ~Running(l)' /\ StepsLeft(l)' = 0
    BY <2>1 DEF NotStarted, Running, StepsLeft
  <2>3. ASSUME NEW l \in Loops
        PROVE  CallFits(l)' /\ BatchFits(l)' /\ WindsDown(l)
    <3>1. CallFits(l)' /\ BatchFits(l)'
      BY <2>1 DEF NotStarted, CallFits, BatchFits
    <3>2. WindsDown(l)
      BY <2>2, RunningHasSteps DEF WindsDown
    <3> QED BY <3>1, <3>2
  <2> QED BY <2>2, <2>3 DEF StoppingInv, StrayLoopsAreStopped
<1>6. ASSUME NEW l \in Loops, StartAdapter(l)
      PROVE  StoppingInv' /\ \A m \in Loops : WindsDown(m)
  <2> DEFINE new == [NotStarted EXCEPT !.type = gateway.spec, !.pc = "start",
                                       !.cancelled = gateway.terminating]
  <2>1. new.pc = "start" /\ new.cancelled = gateway.terminating
    BY DEF NotStarted
  <2>2. loop' = [loop EXCEPT ![l] = new]
    BY <1>6 DEF StartAdapter
  <2> HIDE DEF new
  <2>3. /\ loop'[l] = new /\ \A m \in Loops \ {l} : loop'[m] = loop[m]
        /\ call' = call /\ call[l] = "idle" /\ loop[l] = NotStarted
    BY <1>0, <1>6, <2>2 DEF StartAdapter
  <2>4. /\ adapter = NoLoop /\ adapter' = l
        /\ gateway'.pc = "idle" /\ gateway'.terminating = gateway.terminating
    BY <1>0, <1>6 DEF StartAdapter, GatewayInv, SyncInv, GatewayState
  <2>5. ASSUME NEW m \in Loops, m # l, Running(m)
        PROVE  loop[m].cancelled
    BY <2>4, <2>5, GatewayAssumption DEF StoppingInv, StrayLoopsAreStopped
  <2>6. StrayLoopsAreStopped'
    BY <2>1, <2>3, <2>4, <2>5 DEF StrayLoopsAreStopped, Running
  <2>7. ASSUME NEW m \in Loops
        PROVE  CallFits(m)' /\ BatchFits(m)' /\ WindsDown(m)
    <3>1. CASE m = l
      BY <2>1, <2>3, <3>1, FreshFits DEF NotStarted, Running
    <3>2. CASE m # l
      BY <2>3, <3>2, SameFits
    <3> QED BY <3>1, <3>2
  <2> QED BY <2>6, <2>7 DEF StoppingInv
<1>7. CASE Stopped
  <2>1. adapter \in Loops /\ gateway.pc = "wait" /\ UNCHANGED call
    BY <1>0, <1>7 DEF Stopped, GatewayInv, SyncInv, GatewayTypeOK
  <2>2. /\ \A m \in Loops \ {adapter} : loop'[m] = loop[m]
        /\ loop'[adapter] = IF Running(adapter) THEN loop[adapter] ELSE NotStarted
    BY <1>0, <1>7, <2>1 DEF Stopped
  <2>3. \A m \in Loops : Running(m) => loop[m].cancelled
    BY <2>1 DEF StoppingInv, StrayLoopsAreStopped
  <2>4. \A m \in Loops : Running(m)' => loop'[m] = loop[m] /\ Running(m)
    BY <2>1, <2>2 DEF Running, NotStarted
  <2>5. StrayLoopsAreStopped'
    BY <2>3, <2>4 DEF StrayLoopsAreStopped
  <2>6. ASSUME NEW m \in Loops
        PROVE  CallFits(m)' /\ BatchFits(m)' /\ WindsDown(m)
    <3>1. CASE m = adapter /\ ~Running(m)
      <4>1. call[m] = "idle"
        BY <1>7, <2>1, <3>1, StoppingFacts DEF Stopped, StopReturns, CallFits, Running
      <4> QED BY <2>1, <2>2, <3>1, <4>1, FreshFits DEF NotStarted
    <3>2. CASE ~(m = adapter /\ ~Running(m))
      BY <2>1, <2>2, <3>2, SameFits
    <3> QED BY <3>1, <3>2
  <2> QED BY <2>5, <2>6 DEF StoppingInv
<1> QED
  BY <1>1, <1>2, <1>3, <1>4, <1>5, <1>6, <1>7 DEF Sync, Exit, Crash

\* Every step of the gateway preserves it, and winds down what it touches.
LEMMA StoppingStepInv ==
    ASSUME GatewayInv, StoppingInv, [GatewayNext]_gatewayVars
    PROVE  StoppingInv' /\ \A l \in Loops : WindsDown(l)
<1>1. CASE Sync \/ TriggerChanges \/ UpdateArrives \/ Boot \/ Sigterm \/ Crash
  BY <1>1, StoppingSteps
<1>2. ASSUME NEW l \in Loops, AdapterStep(l) \/ HandlerAnswers(l) \/ Request(l) \/ CronFires(l)
      PROVE  StoppingInv' /\ \A m \in Loops : WindsDown(m)
  BY <1>2, OwnSteps, OwnStepInv
<1>3. CASE UNCHANGED gatewayVars
  BY <1>3, NothingStops DEF gatewayVars
<1> QED BY <1>1, <1>2, <1>3 DEF GatewayNext, World

\* Nothing runs in the beginning.
LEMMA StoppingInit == GatewayInit => StoppingInv
<1> SUFFICES ASSUME GatewayInit PROVE StoppingInv
  OBVIOUS
<1>1. \A l \in Loops : loop[l] = NotStarted /\ call[l] = "idle"
  BY DEF GatewayInit, CallsInit, Loops
<1> QED
  BY <1>1
  DEF StoppingInv, StrayLoopsAreStopped, CallFits, BatchFits, NotStarted, Running

-----------------------------------------------------------------------------
(* The theorems. *)

\* Every step of the gateway preserves both invariants.
LEMMA GatewayStepInv ==
    ASSUME GatewayInv, [GatewayNext]_gatewayVars
    PROVE  GatewayInv' /\ (HandledInv => HandledInv')
<1>1. CASE Sync \/ TriggerChanges \/ UpdateArrives \/ Boot \/ Sigterm \/ Crash
  BY <1>1, SyncSteps, SyncStepInv
<1>2. ASSUME NEW l \in Loops, AdapterStep(l) \/ HandlerAnswers(l) \/ Request(l) \/ CronFires(l)
      PROVE  GatewayInv' /\ (HandledInv => HandledInv')
  BY <1>2, AdapterSteps, LoopStepInv
<1>3. CASE UNCHANGED gatewayVars
  BY <1>3
  DEF gatewayVars, telegramVars, GatewayInv, GatewayTypeOK, SyncInv, LoopInv, OffsetInv, Running,
      Telegram, HandledInv, ConfirmedWasHandled, BehindOffset
<1> QED BY <1>1, <1>2, <1>3 DEF GatewayNext, World

\* The initial state satisfies both.
LEMMA GatewayInitInv == GatewayInit => GatewayInv /\ HandledInv
<1> SUFFICES ASSUME GatewayInit PROVE GatewayInv /\ HandledInv
  OBVIOUS
<1>1. \A l \in Loops : loop[l] = NotStarted
  BY DEF GatewayInit
<1>2. GatewayTypeOK
  <2>1. gateway \in GatewayState /\ offered \in Offers
    BY DEF GatewayInit, Down, GatewayState, LifeInit, Nothing, Offers
  <2>2. call \in [Loops -> CallStates] /\ loop \in [Loops -> LoopState]
    BY NotStartedType DEF GatewayInit, CallsInit, CallStates, Loops
  <2> QED BY <2>1, <2>2, UpdatesLength DEF GatewayInit, GatewayTypeOK
<1>3. SyncInv /\ LoopInv /\ OffsetInv
  BY <1>1
  DEF GatewayInit, Down, SyncInv, LoopInv, OffsetInv, NotStarted, Running, Telegram
<1>4. HandledInv
  BY <1>1 DEF GatewayInit, HandledInv, ConfirmedWasHandled, BehindOffset, NotStarted
<1> QED BY <1>2, <1>3, <1>4 DEF GatewayInv

\* The invariants hold throughout.
LEMMA GatewayInvariants == GatewaySpec => [](GatewayInv /\ HandledInv)
<1>1. (GatewayInv /\ HandledInv) /\ [GatewayNext]_gatewayVars => (GatewayInv /\ HandledInv)'
  BY GatewayStepInv
<1> QED BY <1>1, GatewayInitInv, PTL DEF GatewaySpec

\* The gateway's variables have their types, whatever happens.
THEOREM GatewayTypeCorrect == GatewaySpec => []GatewayTypeOK
<1>1. GatewayInv /\ HandledInv => GatewayTypeOK
  BY DEF GatewayInv
<1> QED BY <1>1, GatewayInvariants, PTL

\* Two poll loops of one trigger never run at a time (syncOnce, Stop of the
\* Telegram adapter).
THEOREM OneLoop == GatewaySpec => []OneLoopPerTrigger
<1>1. GatewayInv /\ HandledInv => OneLoopPerTrigger
  BY DEF GatewayInv, LoopInv, OneLoopPerTrigger
<1> QED BY <1>1, GatewayInvariants, PTL

\* No update is confirmed before the handler has had it with a live context (the
\* offset of pollLoop).
THEOREM ConfirmedHandled == GatewaySpec => []ConfirmedWasHandled
<1>1. GatewayInv /\ HandledInv => ConfirmedWasHandled
  BY DEF HandledInv
<1> QED BY <1>1, GatewayInvariants, PTL

\* The second invariant holds throughout as well.
LEMMA StoppingInvariants == GatewaySpec => [](GatewayInv /\ StoppingInv)
<1>1. (GatewayInv /\ StoppingInv) /\ [GatewayNext]_gatewayVars => (GatewayInv /\ StoppingInv)'
  BY GatewayStepInv, StoppingStepInv
<1> QED BY <1>1, GatewayInitInv, StoppingInit, PTL DEF GatewaySpec

\* A goroutine nobody will stop any more has been told to stop (syncOnce, stopAll
\* and the context of every adapter).
THEOREM StraysAreStopped == GatewaySpec => []StrayLoopsAreStopped
<1>1. GatewayInv /\ StoppingInv => StrayLoopsAreStopped
  BY DEF StoppingInv
<1> QED BY <1>1, StoppingInvariants, PTL

\* Calls end before their adapter is taken from the table, or were told to (Stop
\* of the three adapters).
THEOREM CallsAreOwned == GatewaySpec => []CallsHaveOwners
<1>1. ASSUME GatewayInv, StoppingInv, NEW l \in Loops, call[l] # "idle", adapter # l
      PROVE  loop[l].type # "telegram" /\ loop[l].cancelled
  <2>1. CallFits(l)
    BY <1>1 DEF StoppingInv
  <2>2. loop[l].type = "telegram" => ~Running(l)
    BY <1>1 DEF GatewayInv, LoopInv
  <2>3. Running(l) => loop[l].cancelled
    BY <1>1 DEF StoppingInv, StrayLoopsAreStopped
  <2> QED BY <1>1, <2>1, <2>2, <2>3 DEF CallFits, Running
<1>2. GatewayInv /\ StoppingInv => CallsHaveOwners
  BY <1>1 DEF CallsHaveOwners
<1> QED BY <1>2, StoppingInvariants, PTL

\* A poll loop that has been told to stop ends within the batch it has (pollLoop
\* looks at its context before every poll).
THEOREM StoppedWindDown == GatewaySpec => StoppedLoopsWindDown
<1>1. (GatewayInv /\ StoppingInv) /\ [GatewayNext]_gatewayVars =>
          [\A l \in Loops :
              /\ loop[l].type = "telegram" /\ Running(l) /\ loop[l].cancelled
              /\ loop'[l] # loop[l]
              => StepsLeft(l)' \in 0..StepsLeft(l) - 1]_gatewayVars
  BY StoppingStepInv DEF WindsDown
<1> QED BY <1>1, StoppingInvariants, PTL DEF GatewaySpec, StoppedLoopsWindDown
=============================================================================
