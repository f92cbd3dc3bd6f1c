------------------------------- MODULE Watchers -------------------------------
(***************************************************************************)
(* The WebSocket handler of the API: two goroutines watch Pods and claims, *)
(* turn what they see into events and put these into a bounded channel;    *)
(* the handler takes them out and writes them to the dashboard; a fourth   *)
(* goroutine finds out that the dashboard has gone.                        *)
(*                                                                         *)
(* Abstractions.  One Pod name and one claim name.  A Pod is what its      *)
(* pool-status label says, a claim its phase, as far as the watchers tell  *)
(* the values apart; "absent" when there is none.                          *)
(* A watch delivers every change in order, the present state first.        *)
(***************************************************************************)
EXTENDS Naturals, Sequences

CONSTANTS
    EventBuffer,    \* capacity of the events channel
    MaxPodChanges, MaxClaimChanges  \* bounds

ASSUME WatchersAssumption ==
    /\ EventBuffer \in Nat \ {0}
    /\ MaxPodChanges \in Nat /\ MaxClaimChanges \in Nat

Kinds == {"pod", "claim"}
Marks == [pod   |-> {"absent", "ready", "other"},
          claim |-> {"absent", "Active", "Released", "other"}]

EventTypes == {"instance.state", "pool.instance.ready", "tenant.claimed", "tenant.released"}

VARIABLES
    object,         \* the Pod and the claim
    changes,        \* how often each has changed
    stream,         \* the watches: changes not yet received, and are they open
    watcher,        \* the goroutines watchPods and watchClaims
    events,         \* the channel
    socket,         \* the handler, and whether the dashboard is connected
    dashboard       \* history: the last tenant event it was sent

watchVars == <<object, changes, stream, watcher, events, socket, dashboard>>

\* prev: the status remembered in poolStatus or claimPhase; out: events it has
\* still to send.
WatcherState == [pc: {"none", "receive", "ended"}, prev: Marks.pod \cup Marks.claim,
                 out: Seq(EventTypes)]

WatchersTypeOK ==
    /\ \A k \in Kinds : object[k] \in Marks[k]
    /\ changes \in [Kinds -> Nat]
    /\ stream \in [Kinds -> [queue: Seq(Marks.pod \cup Marks.claim), open: BOOLEAN]]
    /\ watcher \in [Kinds -> WatcherState]
    /\ events \in Seq(EventTypes) /\ Len(events) <= EventBuffer
    /\ socket \in [pc: {"none", "serve", "ended"}, connected: BOOLEAN, cancelled: BOOLEAN]
    /\ dashboard \in {"none", "tenant.claimed", "tenant.released"}

NoStream  == [queue |-> <<>>, open |-> FALSE]
NoWatcher == [pc |-> "none", prev |-> "absent", out |-> <<>>]

WatchersInit ==
    /\ object = [k \in Kinds |-> "absent"]
    /\ changes = [k \in Kinds |-> 0]
    /\ stream = [k \in Kinds |-> NoStream]
    /\ watcher = [k \in Kinds |-> NoWatcher]
    /\ events = <<>>
    /\ socket = [pc |-> "none", connected |-> FALSE, cancelled |-> FALSE]
    /\ dashboard = "none"

-----------------------------------------------------------------------------
(* The cluster and the dashboard. *)

MaxChanges == [pod |-> MaxPodChanges, claim |-> MaxClaimChanges]

ObjectChanges(k, mark) ==
    /\ mark # object[k]
    /\ changes[k] < MaxChanges[k]
    /\ object' = [object EXCEPT ![k] = mark]
    /\ changes' = [changes EXCEPT ![k] = @ + 1]
    /\ stream' = IF stream[k].open THEN [stream EXCEPT ![k].queue = Append(@, mark)] ELSE stream
    /\ UNCHANGED <<watcher, events, socket, dashboard>>

\* The API server ends a watch after a while.
WatchCloses(k) ==
    /\ stream[k].open
    /\ stream' = [stream EXCEPT ![k].open = FALSE]
    /\ UNCHANGED <<object, changes, watcher, events, socket, dashboard>>

DashboardConnects ==
    /\ socket.pc = "none"
    /\ socket' = [pc |-> "serve", connected |-> TRUE, cancelled |-> FALSE]
    /\ watcher' = [k \in Kinds |-> [NoWatcher EXCEPT !.pc = "receive"]]
    /\ stream' = [k \in Kinds |->
           [open |-> TRUE, queue |-> IF object[k] = "absent" THEN <<>> ELSE <<object[k]>>]]
    /\ UNCHANGED <<object, changes, events, dashboard>>

DashboardLeaves ==
    /\ socket.connected
    /\ socket' = [socket EXCEPT !.connected = FALSE]
    /\ UNCHANGED <<object, changes, stream, watcher, events, dashboard>>

-----------------------------------------------------------------------------
(* watchPods and watchClaims *)

PodEvents(prev, now) ==
    <<"instance.state">> \o (IF now = "ready" /\ prev # "ready" THEN <<"pool.instance.ready">> ELSE <<>>)

ClaimEvents(prev, now) ==
    IF now = "absent" THEN <<"tenant.released">>
    ELSE (IF now = "Active" /\ prev # "Active" THEN <<"tenant.claimed">> ELSE <<>>)
         \o (IF now = "Released" /\ prev # "Released" THEN <<"tenant.released">> ELSE <<>>)

EventsOf(k, prev, now) == IF k = "pod" THEN PodEvents(prev, now) ELSE ClaimEvents(prev, now)

\* Mutant: a deleted object is not forgotten.
RememberAlways(prev, now) == IF now = "absent" THEN prev ELSE now

Remember(prev, now) == now

Receive(k) ==
    /\ watcher[k].pc = "receive"
    /\ watcher[k].out = <<>>
    /\ stream[k].queue # <<>>
    /\ LET now == Head(stream[k].queue)
       IN  watcher' = [watcher EXCEPT ![k].out  = EventsOf(k, watcher[k].prev, now),
                                      ![k].prev = Remember(watcher[k].prev, now)]
    /\ stream' = [stream EXCEPT ![k].queue = Tail(@)]
    /\ UNCHANGED <<object, changes, events, socket, dashboard>>

\* The channel may be full; the context is not looked at meanwhile.
Send(k) ==
    /\ watcher[k].out # <<>>
    /\ Len(events) < EventBuffer
    /\ events' = Append(events, Head(watcher[k].out))
    /\ watcher' = [watcher EXCEPT ![k].out = Tail(@)]
    /\ UNCHANGED <<object, changes, stream, socket, dashboard>>

\* The context is cancelled, or the watch is over: it is not begun again.
WatcherEnds(k) ==
    /\ watcher[k].pc = "receive"
    /\ watcher[k].out = <<>>
    /\ socket.cancelled \/ (~stream[k].open /\ stream[k].queue = <<>>)
    /\ watcher' = [watcher EXCEPT ![k] = [NoWatcher EXCEPT !.pc = "ended"]]
    /\ stream' = [stream EXCEPT ![k] = NoStream]
    /\ UNCHANGED <<object, changes, events, socket, dashboard>>

-----------------------------------------------------------------------------
(* handleWebSocket *)

\* Mutant: nobody reads from the connection.
NobodyReads == socket.pc = "none" /\ UNCHANGED watchVars

\* The reader's next read fails.
NoticeDeparture ==
    /\ socket.pc = "serve"
    /\ ~socket.connected
    /\ ~socket.cancelled
    /\ socket' = [socket EXCEPT !.cancelled = TRUE]
    /\ UNCHANGED <<object, changes, stream, watcher, events, dashboard>>

WriteEvent ==
    /\ socket.pc = "serve"
    /\ events # <<>>
    /\ events' = Tail(events)
    /\ \/ /\ socket.connected
          /\ dashboard' = IF Head(events) \in {"tenant.claimed", "tenant.released"}
                            THEN Head(events) ELSE dashboard
          /\ UNCHANGED socket
       \* The write fails, or takes longer than 10 s.
       \/ /\ socket' = [socket EXCEPT !.pc = "ended", !.cancelled = TRUE]
          /\ UNCHANGED dashboard
    /\ UNCHANGED <<object, changes, stream, watcher>>

HandlerEnds ==
    /\ socket.pc = "serve"
    /\ socket.cancelled
    /\ socket' = [socket EXCEPT !.pc = "ended"]
    /\ UNCHANGED <<object, changes, stream, watcher, events, dashboard>>

-----------------------------------------------------------------------------
Handler == NoticeDeparture \/ WriteEvent \/ HandlerEnds

WatcherStep(k) == Receive(k) \/ Send(k) \/ WatcherEnds(k)

WatchNext ==
    \/ Handler \/ DashboardConnects \/ DashboardLeaves
    \/ \E k \in Kinds :
        WatcherStep(k) \/ WatchCloses(k) \/ \E mark \in Marks[k] : ObjectChanges(k, mark)

\* The handler goes on; the API server and the dashboard need not.
WatchSpec == WatchersInit /\ [][WatchNext]_watchVars /\ WF_watchVars(Handler)

-----------------------------------------------------------------------------
\* What the dashboard has been told of a tenant is true whenever nothing is on
\* its way: it heard last of the claim's activation if the claim is Active, and
\* not if the claim is Released or gone, however often a claim of that name was
\* made anew.  This holds as long as the watch lasts.
DashboardIsRight ==
    socket.pc = "serve" /\ socket.connected /\ stream["claim"] = [queue |-> <<>>, open |-> TRUE]
    /\ watcher["claim"].out = <<>> /\ events = <<>> =>
        /\ object["claim"] = "Active" => dashboard = "tenant.claimed"
        /\ object["claim"] \in {"Released", "absent"} => dashboard # "tenant.claimed"

\* The handler of a dashboard that has left returns, though there may be nothing
\* to write to it: it has a reader, which cancels the context.
HandlerReturns == socket.pc = "serve" /\ ~socket.connected ~> socket.pc = "ended"

\* The goroutines of a connection end with it.
WatchersEnd == socket.pc = "ended" ~> \A k \in Kinds : watcher[k].pc = "ended"
===============================================================================
