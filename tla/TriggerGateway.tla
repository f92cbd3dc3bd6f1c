---------------------------- MODULE TriggerGateway ----------------------------
(***************************************************************************)
(* The trigger gateway for one trigger name: the sync loop that starts and *)
(* stops adapters, the adapters (Telegram, webhook, cron) with their       *)
(* goroutines, and the calls of the event pipeline they make.  A loop is   *)
(* one adapter that was started; its id is also that of the call it makes. *)
(*                                                                         *)
(* Abstractions.  The pipeline is what it promises (EventCalls).  Updates  *)
(* are numbered from 1 as they arrive; Telegram keeps those after the last *)
(* one confirmed.  A webhook serves one request at a time.  What a reply   *)
(* says, and whether it arrives, is left out.                              *)
(***************************************************************************)
EXTENDS EventCalls, TriggerLife, Naturals, Sequences, FiniteSets

CONSTANTS
    NoLoop,
    Updates,        \* the updates that will arrive: "wanted", or of an "other"
                    \* type than those the adapter asks for
    BotTokens,      \* what the bot-token Secret may hold: "good", "empty"
    GatewayFaults   \* a subset of {"crash", "getMeFails", "listenFails",
                    \* "listFails", "zeroInterval"}

Loops == Handlers

ASSUME GatewayAssumption ==
    /\ NoLoop \notin Loops
    /\ Updates \in Seq({"wanted", "other"})
    /\ BotTokens \subseteq {"good", "empty"}
    /\ GatewayFaults \subseteq
           {"crash", "getMeFails", "listenFails", "listFails", "zeroInterval"}

VARIABLES
    gateway,        \* the sync loop, and whether SIGTERM has arrived
    adapter,        \* gateway.adapters: the loop of the trigger, or NoLoop
    loop,           \* the adapters' goroutines
    arrived,        \* updates that have reached Telegram
    confirmed,      \* updates Telegram has been told to forget
    served          \* history: updates whose handler ran to its end undisturbed

telegramVars == <<arrived, confirmed, served>>
gatewayVars  == <<gateway, adapter, loop, call, offered, telegramVars>>

GatewayState == [pc: {"down", "idle", "list", "build", "stop", "wait"}, spec: Specs \cup {"none"},
                 terminating: BOOLEAN]
Down == [pc |-> "down", spec |-> "none", terminating |-> FALSE]

LoopState == [type: AdapterTypes \cup {"none"},
              pc: {"none", "start", "poll", "polling", "backoff", "batch", "handle",
                   "tick", "serve", "ended", "lost"},
              cancelled: BOOLEAN, offset: 1..Len(Updates) + 1, upTo: 0..Len(Updates)]
NotStarted == [type |-> "none", pc |-> "none", cancelled |-> FALSE, offset |-> 1, upTo |-> 0]

GatewayTypeOK ==
    /\ call \in [Loops -> CallStates]
    /\ offered \in Offers
    /\ gateway \in GatewayState
    /\ adapter \in Loops \cup {NoLoop}
    /\ loop \in [Loops -> LoopState]
    /\ arrived \in 0..Len(Updates) /\ confirmed \in 0..arrived
    /\ served \subseteq 1..arrived

GatewayInit ==
    /\ CallsInit /\ LifeInit
    /\ gateway = Down
    /\ adapter = NoLoop
    /\ loop = [l \in Loops |-> NotStarted]
    /\ arrived = 0 /\ confirmed = 0 /\ served = {}

Running(l) == loop[l].pc \notin {"none", "ended", "lost"}
Becomes(l, pc) == loop' = [loop EXCEPT ![l].pc = pc]

\* The context of every loop in S is cancelled, and with it that of its calls,
\* but for a webhook's, whose requests have their own.
Cancel(S) == loop' = [l \in Loops |-> [loop[l] EXCEPT !.cancelled = @ \/ (l \in S /\ Running(l))]]

-----------------------------------------------------------------------------
(* Sync and syncOnce *)

Boot ==
    /\ gateway.pc = "down"
    /\ gateway' = [Down EXCEPT !.pc = "list"]
    /\ UNCHANGED <<adapter, loop, call, offered, telegramVars>>

Tick ==
    /\ gateway.pc = "idle"
    /\ ~gateway.terminating
    /\ gateway' = [gateway EXCEPT !.pc = "list"]
    /\ UNCHANGED <<adapter, loop, call, offered, telegramVars>>

\* A trigger that is Active and has an adapter is skipped, whatever its spec says
\* by now.
ListTriggers ==
    /\ gateway.pc = "list"
    /\ ~gateway.terminating
    /\ gateway' = [gateway EXCEPT
           !.pc = CASE offered.active /\ adapter = NoLoop -> "build"
                    [] offered.active = (adapter # NoLoop) -> "idle"
                    [] ~offered.active /\ adapter # NoLoop -> "stop",
           !.spec = IF offered.active /\ adapter = NoLoop THEN offered.spec ELSE "none"]
    /\ UNCHANGED <<adapter, loop, call, offered, telegramVars>>

ListFails ==
    /\ gateway.pc = "list"
    /\ gateway.terminating \/ "listFails" \in GatewayFaults
    /\ gateway' = [gateway EXCEPT !.pc = "idle"]
    /\ UNCHANGED <<adapter, loop, call, offered, telegramVars>>

\* A bot token that is empty is found out when the adapter starts, not here.
StartAdapter(l) ==
    /\ gateway.pc = "build"
    /\ gateway.spec \in AdapterTypes
    /\ loop[l] = NotStarted
    /\ call[l] = "idle"
    /\ adapter' = l
    /\ loop' = [loop EXCEPT ![l] =
           [NotStarted EXCEPT !.type = gateway.spec, !.pc = "start",
                              !.cancelled = gateway.terminating]]
    /\ gateway' = [gateway EXCEPT !.pc = "idle", !.spec = "none"]
    /\ UNCHANGED <<call, offered, telegramVars>>

\* buildAdapter: a type without an adapter, an interval that is none, a Secret
\* that cannot be read.
BuildFails ==
    /\ gateway.pc = "build"
    /\ gateway' = [gateway EXCEPT !.pc = "idle", !.spec = "none"]
    /\ UNCHANGED <<adapter, loop, call, offered, telegramVars>>

\* Mutant: the adapter is told to stop by Stop alone, which for a cron adapter
\* that runs on the gateway's context does nothing.
StopAdapterKeepsContext ==
    /\ gateway.pc = "stop"
    /\ IF loop[adapter].type = "cron" THEN UNCHANGED loop ELSE Cancel({adapter})
    /\ gateway' = [gateway EXCEPT !.pc = "wait"]
    /\ UNCHANGED <<adapter, call, offered, telegramVars>>

StopAdapter ==
    /\ gateway.pc = "stop"
    /\ Cancel({adapter})
    /\ gateway' = [gateway EXCEPT !.pc = "wait"]
    /\ UNCHANGED <<adapter, call, offered, telegramVars>>

\* Mutant: Stop cancels the poll loop and returns.
StopReturnsAtOnce(l) == TRUE

\* Telegram's Stop waits for the poll loop to exit, a webhook's for the requests
\* being served, a cron's for nothing.
StopReturns(l) ==
    CASE loop[l].type = "telegram" -> loop[l].pc = "ended"
      [] loop[l].type = "webhook"  -> loop[l].pc # "serve" /\ call[l] = "idle"
      [] loop[l].type = "cron"     -> TRUE

\* A goroutine that is still at work is left to itself.
Stopped ==
    /\ gateway.pc = "wait"
    /\ StopReturns(adapter)
    /\ adapter' = NoLoop
    /\ loop' = [loop EXCEPT ![adapter] = IF Running(adapter) THEN @ ELSE NotStarted]
    /\ gateway' = [gateway EXCEPT !.pc = "idle"]
    /\ UNCHANGED <<call, offered, telegramVars>>

-----------------------------------------------------------------------------
(* The end of the process. *)

Sigterm ==
    /\ gateway.pc # "down"
    /\ ~gateway.terminating
    /\ gateway' = [gateway EXCEPT !.terminating = TRUE]
    /\ Cancel(Loops)
    /\ UNCHANGED <<adapter, call, offered, telegramVars>>

\* stopAll
StopAll ==
    /\ gateway.pc = "idle"
    /\ gateway.terminating
    /\ adapter # NoLoop
    /\ gateway' = [gateway EXCEPT !.pc = "stop"]
    /\ UNCHANGED <<adapter, loop, call, offered, telegramVars>>

\* The process ends, and with it everything in it.
ProcessGone ==
    /\ gateway' = Down
    /\ adapter' = NoLoop
    /\ loop' = [l \in Loops |-> NotStarted]
    /\ Abandon
    /\ UNCHANGED <<offered, telegramVars>>

Exit ==
    /\ gateway.pc = "idle"
    /\ gateway.terminating
    /\ adapter = NoLoop
    /\ ProcessGone

Crash ==
    /\ "crash" \in GatewayFaults
    /\ gateway.pc # "down"
    /\ ProcessGone

-----------------------------------------------------------------------------
(* Goroutines: what they have in common. *)

\* Start returns.  A loop nobody waits for is forgotten.
LoopEnds(l) ==
    loop' = [loop EXCEPT ![l] =
        IF adapter = l THEN [NotStarted EXCEPT !.type = loop[l].type, !.pc = "ended"] ELSE NotStarted]

-----------------------------------------------------------------------------
(* The Telegram adapter. *)

Telegram(l, pc) == loop[l].type = "telegram" /\ loop[l].pc = pc

\* Start: the token is parsed again, getMe verifies it.  An error in the first
\* returns before the function that closes doneCh is deferred.
ConnectTelegram(l) ==
    /\ Telegram(l, "start")
    /\ \/ "good" \in BotTokens /\ ~loop[l].cancelled /\ Becomes(l, "poll")
       \/ /\ "good" \in BotTokens
          /\ loop[l].cancelled \/ "getMeFails" \in GatewayFaults
          /\ LoopEnds(l)
       \/ "empty" \in BotTokens /\ Becomes(l, "lost")
    /\ UNCHANGED <<gateway, adapter, call, offered, telegramVars>>

\* Mutant: the poll asks for the updates after the offset.
PollAfterOffset(l) ==
    /\ Telegram(l, "poll")
    /\ ~loop[l].cancelled
    /\ confirmed' = IF loop[l].offset > confirmed THEN loop[l].offset ELSE confirmed
    /\ Becomes(l, "polling")
    /\ UNCHANGED <<gateway, adapter, call, offered, arrived, served>>

\* Mutant: the context is looked at after a failed poll and in the backoff only.
PollWhateverTheContext(l) ==
    /\ Telegram(l, "poll")
    /\ confirmed' = IF loop[l].offset > confirmed THEN loop[l].offset - 1 ELSE confirmed
    /\ Becomes(l, "polling")
    /\ UNCHANGED <<gateway, adapter, call, offered, arrived, served>>

\* getUpdates tells Telegram to forget everything before the offset.
Poll(l) ==
    /\ Telegram(l, "poll")
    /\ ~loop[l].cancelled
    /\ confirmed' = IF loop[l].offset > confirmed THEN loop[l].offset - 1 ELSE confirmed
    /\ Becomes(l, "polling")
    /\ UNCHANGED <<gateway, adapter, call, offered, arrived, served>>

\* Mutant: a batch is acknowledged when it is received, so that nothing comes twice.
ReceiveUpdatesOnce(l) ==
    /\ Telegram(l, "polling")
    /\ IF confirmed < arrived
         THEN loop' = [loop EXCEPT ![l].pc = "batch", ![l].offset = confirmed + 1,
                                   ![l].upTo = arrived]
         ELSE Becomes(l, "poll")
    /\ confirmed' = arrived
    /\ UNCHANGED <<gateway, adapter, call, offered, arrived, served>>

\* The answer: everything since the offset that is not forgotten, or, after the
\* poll timeout, nothing.
ReceiveUpdates(l) ==
    LET first == IF loop[l].offset > confirmed THEN loop[l].offset ELSE confirmed + 1
    IN  /\ Telegram(l, "polling")
        /\ IF first <= arrived
             THEN loop' = [loop EXCEPT ![l].pc = "batch", ![l].offset = first, ![l].upTo = arrived]
             ELSE Becomes(l, "poll")
        /\ UNCHANGED <<gateway, adapter, call, offered, telegramVars>>

PollFails(l) ==
    /\ Telegram(l, "polling")
    /\ Becomes(l, "backoff")
    /\ UNCHANGED <<gateway, adapter, call, offered, telegramVars>>

BackoffOver(l) ==
    /\ Telegram(l, "backoff")
    /\ ~loop[l].cancelled
    /\ Becomes(l, "poll")
    /\ UNCHANGED <<gateway, adapter, call, offered, telegramVars>>

\* Mutant: the context is looked at before a poll only.
PollLoopExitsBeforePoll(l) ==
    /\ Telegram(l, "poll")
    /\ loop[l].cancelled
    /\ LoopEnds(l)
    /\ UNCHANGED <<gateway, adapter, call, offered, telegramVars>>

\* The context is looked at before a poll, after a failed one and in the backoff.
PollLoopExits(l) ==
    /\ loop[l].type = "telegram"
    /\ loop[l].pc \in {"poll", "polling", "backoff"}
    /\ loop[l].cancelled
    /\ LoopEnds(l)
    /\ UNCHANGED <<gateway, adapter, call, offered, telegramVars>>

BatchDone(l) ==
    /\ Telegram(l, "batch")
    /\ loop[l].offset > loop[l].upTo
    /\ loop' = [loop EXCEPT ![l].pc = "poll", ![l].upTo = 0]
    /\ UNCHANGED <<gateway, adapter, call, offered, telegramVars>>

SkipUpdate(l) ==
    /\ Telegram(l, "batch")
    /\ loop[l].offset <= loop[l].upTo
    /\ Updates[loop[l].offset] = "other"
    /\ loop' = [loop EXCEPT ![l].offset = @ + 1]
    /\ UNCHANGED <<gateway, adapter, call, offered, telegramVars>>

HandleUpdate(l) ==
    /\ Telegram(l, "batch")
    /\ loop[l].offset <= loop[l].upTo
    /\ Updates[loop[l].offset] # "other"
    /\ Begin(l)
    /\ loop' = [loop EXCEPT ![l].offset = @ + 1, ![l].pc = "handle"]
    /\ UNCHANGED <<gateway, adapter, offered, telegramVars>>

\* The answer, or a generic text, is sent to the chat.
Reply(l) ==
    /\ Telegram(l, "handle")
    /\ Collect(l)
    /\ Becomes(l, "batch")
    /\ served' = IF loop[l].cancelled THEN served ELSE served \cup {loop[l].offset - 1}
    /\ UNCHANGED <<gateway, adapter, offered, arrived, confirmed>>

UpdateArrives ==
    /\ arrived < Len(Updates)
    /\ arrived' = arrived + 1
    /\ UNCHANGED <<gateway, adapter, loop, call, offered, confirmed, served>>

-----------------------------------------------------------------------------
(* The webhook adapter. *)

Webhook(l, pc) == loop[l].type = "webhook" /\ loop[l].pc = pc

Listen(l) ==
    /\ Webhook(l, "start")
    /\ \/ Becomes(l, "serve")
       \/ "listenFails" \in GatewayFaults /\ LoopEnds(l)
    /\ UNCHANGED <<gateway, adapter, call, offered, telegramVars>>

Request(l) ==
    /\ Webhook(l, "serve")
    /\ Begin(l)
    /\ UNCHANGED <<gateway, adapter, loop, offered, telegramVars>>

Respond(l) ==
    /\ loop[l].type = "webhook"
    /\ Collect(l)
    /\ UNCHANGED <<gateway, adapter, loop, offered, telegramVars>>

\* Shutdown: no new requests; Start returns while old ones are being served.
ShutDown(l) ==
    /\ Webhook(l, "serve")
    /\ loop[l].cancelled
    /\ Becomes(l, "ended")
    /\ UNCHANGED <<gateway, adapter, call, offered, telegramVars>>

-----------------------------------------------------------------------------
(* The cron adapter. *)

Cron(l, pc) == loop[l].type = "cron" /\ loop[l].pc = pc

StartTicker(l) ==
    /\ Cron(l, "start")
    /\ \/ Becomes(l, "tick")
       \/ "zeroInterval" \in GatewayFaults /\ LoopEnds(l)
    /\ UNCHANGED <<gateway, adapter, call, offered, telegramVars>>

CronFires(l) ==
    /\ Cron(l, "tick")
    /\ Begin(l)
    /\ Becomes(l, "handle")
    /\ UNCHANGED <<gateway, adapter, offered, telegramVars>>

CronGoesOn(l) ==
    /\ Cron(l, "handle")
    /\ Collect(l)
    /\ Becomes(l, "tick")
    /\ UNCHANGED <<gateway, adapter, offered, telegramVars>>

CronExits(l) ==
    /\ Cron(l, "tick")
    /\ loop[l].cancelled
    /\ LoopEnds(l)
    /\ UNCHANGED <<gateway, adapter, call, offered, telegramVars>>

-----------------------------------------------------------------------------
Sync ==
    \/ Tick \/ ListTriggers \/ ListFails \/ BuildFails \/ StopAdapter \/ Stopped
    \/ StopAll \/ Exit
    \/ \E l \in Loops : StartAdapter(l)

AdapterStep(l) ==
    \/ ConnectTelegram(l) \/ Poll(l) \/ ReceiveUpdates(l) \/ PollFails(l) \/ BackoffOver(l)
    \/ PollLoopExits(l) \/ BatchDone(l) \/ SkipUpdate(l) \/ HandleUpdate(l) \/ Reply(l)
    \/ Listen(l) \/ Respond(l) \/ ShutDown(l)
    \/ StartTicker(l) \/ CronGoesOn(l) \/ CronExits(l)

HandlerAnswers(l) ==
    /\ Answer(l)
    /\ UNCHANGED <<gateway, adapter, loop, offered, telegramVars>>

TriggerChanges ==
    /\ LifeNext
    /\ UNCHANGED <<gateway, adapter, loop, call, telegramVars>>

World ==
    \/ TriggerChanges \/ UpdateArrives \/ Boot \/ Sigterm \/ Crash
    \/ \E l \in Loops : Request(l) \/ CronFires(l)

GatewayNext ==
    \/ Sync \/ World
    \/ \E l \in Loops : AdapterStep(l) \/ HandlerAnswers(l)

GatewaySpec == GatewayInit /\ [][GatewayNext]_gatewayVars

\* The sync loop and the adapters go on as long as they have something to do, a
\* list succeeds now and then, a select takes every case that stays ready now
\* and then, and calls are answered.  Nobody has to do anything to a trigger,
\* and nothing has to arrive.
GatewayFairness ==
    /\ WF_gatewayVars(Sync /\ ~ListTriggers)
    /\ SF_gatewayVars(ListTriggers)
    /\ \A l \in Loops :
        /\ WF_gatewayVars(AdapterStep(l))
        /\ SF_gatewayVars(ShutDown(l) \/ CronExits(l))
        /\ WF_gatewayVars(HandlerAnswers(l))

GatewayFairSpec == GatewaySpec /\ GatewayFairness

-----------------------------------------------------------------------------
(* Safety *)

\* There are never two poll loops of one trigger, which would take each other's
\* updates: Stop waits for doneCh before the adapter leaves gateway.adapters.
OneLoopPerTrigger ==
    \A l, m \in Loops :
        l # m /\ loop[l].type = "telegram" /\ loop[m].type = "telegram"
            => ~Running(l) \/ ~Running(m)

\* An update Telegram is told to forget has been through the handler with a
\* context that was still alive: the offset is sent only with the next poll, and
\* a loop that is stopped in the middle of a batch does not poll again.
ConfirmedWasHandled ==
    \A u \in 1..confirmed : Updates[u] = "wanted" => u \in served

\* A goroutine that has left gateway.adapters, whose Stop is waited for, or whose
\* process is ending has been told to stop: `cancel` comes before Stop and before
\* the delete, SIGTERM reaches every context, and one that is made after it is
\* born cancelled.
StrayLoopsAreStopped ==
    \A l \in Loops : Running(l) /\ ~loop[l].cancelled =>
        adapter = l /\ gateway.pc # "wait" /\ ~gateway.terminating

\* No call of the event pipeline outlives the entry of its adapter in
\* gateway.adapters (Stop waits for doneCh, Shutdown for the requests), but for
\* those of a cron or of a webhook stopped before it listened, which were told.
CallsHaveOwners ==
    \A l \in Loops : call[l] # "idle" =>
        adapter = l \/ (loop[l].type # "telegram" /\ loop[l].cancelled)

\* The steps a poll loop that has been told to stop may still take: those of the
\* batch it has, or is about to get, two for each update, and its exit.
StepsLeft(l) ==
    CASE loop[l].pc \in {"start", "polling"} -> 2 * Len(Updates) + 3
      [] loop[l].pc = "handle"              -> 2 * (loop[l].upTo + 1 - loop[l].offset) + 3
      [] loop[l].pc = "batch"               -> 2 * (loop[l].upTo + 1 - loop[l].offset) + 2
      [] loop[l].pc \in {"poll", "backoff"}  -> 1
      [] OTHER                              -> 0

\* A poll loop that has been told to stop comes nearer to its end with every step,
\* however many updates arrive meanwhile: Stop waits for one batch at most.
StoppedLoopsWindDown ==
    [][\A l \in Loops :
        /\ loop[l].type = "telegram" /\ Running(l) /\ loop[l].cancelled
        /\ loop'[l] # loop[l]
        => StepsLeft(l)' \in 0..StepsLeft(l) - 1]_gatewayVars

-----------------------------------------------------------------------------
(* Liveness *)

SomeLoopRuns == \E l \in Loops : Running(l)

\* A trigger that is no longer Active falls silent, unless it becomes Active
\* again (the second loop of syncOnce).
TriggerFallsSilent == ~offered.active ~> offered.active \/ ~SomeLoopRuns

\* SIGTERM ends the process: "Sync ... blocks until ctx is cancelled".
SyncReturns == gateway.terminating ~> ~gateway.terminating

\* It does, whatever the adapters are doing, unless one of them was given an
\* empty bot token: stopAll waits for poll loops and requests, these for calls.
ShutdownEnds ==
    gateway.terminating ~> ~gateway.terminating \/ \E l \in Loops : loop[l].pc = "lost"

\* An Active trigger has an adapter at work, or is no longer Active.
ActiveTriggerRuns == offered.active ~> ~offered.active \/ SomeLoopRuns
=============================================================================
