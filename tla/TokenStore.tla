------------------------------ MODULE TokenStore ------------------------------
(***************************************************************************)
(* The API's copy of the token Secrets: a map from tokens to what they     *)
(* allow, kept by the handlers of an informer, filled by lookups that miss *)
(* it, and consulted by every request.                                     *)
(*                                                                         *)
(* Abstractions.  The Secret of one claim: coldBoot makes one with a fresh *)
(* token, a release or the garbage collector deletes it.  A token stands   *)
(* for its hash and its AuthContext.  The informer's copy and its event    *)
(* handlers are two steps: the copy moves on first.                        *)
(***************************************************************************)
EXTENDS Naturals, Sequences

CONSTANTS
    Requests,       \* requests that may be under way at a time
    MaxTokens       \* bound: tokens that are ever made

ASSUME TokenAssumption == MaxTokens \in Nat

Tokens  == 1..MaxTokens
NoToken == 0
Held    == Tokens \cup {NoToken}

VARIABLES
    secret,         \* the token in the claim's Secret, or NoToken
    made,           \* tokens made so far
    expired,        \* tokens whose expires-at has passed
    feed,           \* what the Secret became, not yet seen by the informer
    informer,       \* the informer's copy of the Secret
    notices,        \* what the event handlers have still to be told
    entries,        \* TokenStore.entries
    leftBehind,     \* history: tokens stored, or kept, against the informer's word
    request         \* the requests, in authMiddleware

storeVars == <<feed, informer, notices, entries, leftBehind>>
tokenVars == <<secret, made, expired, storeVars, request>>

\* A Secret that was there and is gone by the time the informer lists again is
\* reported with the last copy, wrapped in a tombstone.
Notice == [kind: {"stored", "deleted", "tombstone"}, token: Tokens]

RequestState == [pc: {"idle", "lookup", "scan", "store", "accepted", "refused"}, token: Held]
NoRequest    == [pc |-> "idle", token |-> NoToken]

TokenTypeOK ==
    /\ secret \in Held /\ informer \in Held
    /\ made \in 0..MaxTokens /\ expired \subseteq 1..made
    /\ feed \in Seq(Held) /\ notices \in Seq(Notice)
    /\ entries \subseteq 1..made /\ leftBehind \subseteq 1..made
    /\ request \in [Requests -> RequestState]

TokenInit ==
    /\ secret = NoToken /\ informer = NoToken
    /\ made = 0
    /\ expired = {} /\ entries = {} /\ leftBehind = {}
    /\ feed = <<>> /\ notices = <<>>
    /\ request = [r \in Requests |-> NoRequest]

-----------------------------------------------------------------------------
(* The Secret and the clock. *)

ProvisionToken ==
    /\ secret = NoToken
    /\ made < MaxTokens
    /\ made' = made + 1
    /\ secret' = made + 1
    /\ feed' = Append(feed, made + 1)
    /\ UNCHANGED <<expired, informer, notices, entries, leftBehind, request>>

DeleteToken ==
    /\ secret # NoToken
    /\ secret' = NoToken
    /\ feed' = Append(feed, NoToken)
    /\ UNCHANGED <<made, expired, informer, notices, entries, leftBehind, request>>

\* TokenTTL after it was made.
TokenExpires(t) ==
    /\ t \in 1..made \ expired
    /\ expired' = expired \cup {t}
    /\ UNCHANGED <<secret, made, storeVars, request>>

-----------------------------------------------------------------------------
(* The informer. *)

\* What the handlers are told when the copy changes from `old` to `new`.  An
\* update names the new Secret only, be it another one of the same name.
Told(old, new, how) ==
    IF new # NoToken THEN <<[kind |-> "stored", token |-> new]>>
    ELSE IF old # NoToken THEN <<[kind |-> how, token |-> old]>> ELSE <<>>

InformerSees ==
    /\ feed # <<>>
    /\ informer' = Head(feed)
    /\ feed' = Tail(feed)
    /\ notices' = notices \o Told(informer, Head(feed), "deleted")
    /\ UNCHANGED <<secret, made, expired, entries, leftBehind, request>>

\* The watch breaks; the informer lists again and misses what was in between.
InformerRelists ==
    /\ feed # <<>>
    /\ informer' = secret
    /\ feed' = <<>>
    /\ notices' = notices \o Told(informer, secret, "tombstone")
    /\ leftBehind' = IF secret = NoToken THEN leftBehind
                     ELSE leftBehind \cup ({informer} \ {secret, NoToken})
    /\ UNCHANGED <<secret, made, expired, entries, request>>

\* Mutant: a tombstone is no Secret.
OnDeleteSecretsOnly(n) == IF n.kind = "deleted" THEN entries \ {n.token} ELSE entries

OnDelete(n) == entries \ {n.token}

OnAddOrUpdate(n) == entries \cup {n.token}

HandleNotice ==
    /\ notices # <<>>
    /\ entries' = IF Head(notices).kind = "stored" THEN OnAddOrUpdate(Head(notices))
                                                   ELSE OnDelete(Head(notices))
    /\ notices' = Tail(notices)
    /\ UNCHANGED <<secret, made, expired, feed, informer, leftBehind, request>>

-----------------------------------------------------------------------------
(* A request with a bearer token that is not the admin key. *)

PresentToken(r, t) ==
    /\ request[r] = NoRequest
    /\ t \in 1..made
    /\ request' = [request EXCEPT ![r] = [pc |-> "lookup", token |-> t]]
    /\ UNCHANGED <<secret, made, expired, storeVars>>

Decide(r, pc) == request' = [request EXCEPT ![r].pc = pc]

Fresh(t) == t \notin expired

\* Mutant: what is in the map is good.
HitWhateverItsAge(t) == t \in entries

\* The map has the token, and it has not expired.
HitFresh(t) == t \in entries /\ Fresh(t)

Hit(r) ==
    /\ request[r].pc = "lookup"
    /\ request[r].token \in entries
    /\ Decide(r, IF HitFresh(request[r].token) THEN "accepted" ELSE "refused")
    /\ UNCHANGED <<secret, made, expired, storeVars>>

Miss(r) ==
    /\ request[r].pc = "lookup"
    /\ request[r].token \notin entries
    /\ Decide(r, "scan")
    /\ UNCHANGED <<secret, made, expired, storeVars>>

\* coldLookup lists the informer's copy, then stores what it found.
ScanFinds(t) == informer = t /\ Fresh(t)

Scan(r) ==
    /\ request[r].pc = "scan"
    /\ Decide(r, IF ScanFinds(request[r].token) THEN "store" ELSE "refused")
    /\ UNCHANGED <<secret, made, expired, storeVars>>

StoreEntry(r) ==
    /\ request[r].pc = "store"
    /\ entries' = entries \cup {request[r].token}
    /\ leftBehind' = leftBehind \cup ({request[r].token} \ {informer})
    /\ Decide(r, "accepted")
    /\ UNCHANGED <<secret, made, expired, feed, informer, notices>>

Finish(r) ==
    /\ request[r].pc \in {"accepted", "refused"}
    /\ request' = [request EXCEPT ![r] = NoRequest]
    /\ UNCHANGED <<secret, made, expired, storeVars>>

\* The process restarts; Start waits until the informer has listed the Secrets.
ServerRestarts ==
    /\ informer' = secret
    /\ feed' = <<>>
    /\ notices' = Told(NoToken, secret, "deleted")
    /\ entries' = {} /\ leftBehind' = {}
    /\ request' = [r \in Requests |-> NoRequest]
    /\ UNCHANGED <<secret, made, expired>>

-----------------------------------------------------------------------------
RequestStep(r) == Hit(r) \/ Miss(r) \/ Scan(r) \/ StoreEntry(r) \/ Finish(r)

TokenNext ==
    \/ ProvisionToken \/ DeleteToken
    \/ InformerSees \/ InformerRelists \/ HandleNotice \/ ServerRestarts
    \/ \E t \in Tokens : TokenExpires(t)
    \/ \E r \in Requests : RequestStep(r) \/ \E t \in Tokens : PresentToken(r, t)

\* Time passes; nobody has to list or to watch.
TokenFairness == \A t \in Tokens : WF_tokenVars(TokenExpires(t))

TokenSpec == TokenInit /\ [][TokenNext]_tokenVars /\ TokenFairness

-----------------------------------------------------------------------------
CaughtUp == feed = <<>> /\ notices = <<>>

\* Once the informer and its handlers have caught up, the map holds the Secret's
\* token and no other, whatever was missed while the watch was down.  Two cases
\* are excepted by name: a coldLookup that stores what the informer has dropped
\* since, and a Secret found replaced by another one when the informer lists.
MapFollowsSecret ==
    CaughtUp => entries \ leftBehind \subseteq {secret} /\ {secret} \ {NoToken} \subseteq entries

Accepts(t) == HitFresh(t) \/ ScanFinds(t)

\* Even those are accepted for TokenTTL at most: a token whose Secret is gone is
\* refused in the end, from the map and from the list alike.
DeletedTokensAreRefused ==
    \A t \in Tokens : (t <= made /\ secret # t) ~> ~Accepts(t)
===============================================================================
