----------------------------- MODULE ServerProofs -----------------------------
(***************************************************************************)
(* Two things the API server tells the world, for any number of tokens,    *)
(* requests and changes and any capacity of the events channel: the map of *)
(* tokens agrees with the Secret once the informer has caught up, and the  *)
(* dashboard has been told the truth once the channel is empty.            *)
(* Both proofs look through a queue at what will be there once it has been *)
(* worked off; the lemmas say what happens to that when a queue grows at   *)
(* one end and shrinks at the other.                                       *)
(***************************************************************************)
EXTENDS TokenStore, Watchers, SequenceTheorems, TLAPS

-----------------------------------------------------------------------------
(* Notices: what the map will hold. *)

\* The last notice on a token decides; without one, what the map holds now.
Holds(map, told, t) ==
    \/ \E i \in 1..Len(told) : /\ told[i].token = t /\ told[i].kind = "stored"
                               /\ \A j \in i+1..Len(told) : told[j].token # t
    \/ t \in map /\ \A i \in 1..Len(told) : told[i].token # t

\* The handlers have been told everything.
LEMMA HoldsNow == ASSUME NEW map, NEW t PROVE Holds(map, <<>>, t) <=> t \in map
BY DEF Holds

\* A new notice is the last one on its token.
LEMMA HoldsNext ==
    ASSUME NEW map, NEW t, NEW told \in Seq(Notice), NEW n \in Notice
    PROVE  /\ n.token = t /\ n.kind = "stored" => Holds(map, Append(told, n), t)
           /\ n.token = t /\ Holds(map, Append(told, n), t) => n.kind = "stored"
           /\ n.token # t => (Holds(map, Append(told, n), t) <=> Holds(map, told, t))
<1> DEFINE s == Append(told, n)
<1>1. /\ Len(told) \in Nat /\ Len(s) = Len(told) + 1 /\ s[Len(told) + 1] = n
      /\ \A i \in 1..Len(told) : s[i] = told[i]
  OBVIOUS
<1> HIDE DEF s
<1>2. CASE n.token = t
  BY <1>1, <1>2 DEF Holds
<1>3. CASE n.token # t
  <2>0. /\ \A i \in 1..Len(s) : s[i].token = t => i \in 1..Len(told) /\ s[i] = told[i]
        /\ \A i \in 1..Len(told) : i \in 1..Len(s) /\ s[i] = told[i]
    BY <1>1, <1>3
  <2>1. Holds(map, told, t) => Holds(map, s, t)
    BY <1>1, <2>0 DEF Holds
  <2>2. Holds(map, s, t) => Holds(map, told, t)
    BY <1>1, <2>0 DEF Holds
  <2>3. Holds(map, s, t) <=> Holds(map, told, t)
    BY <2>1, <2>2
  <2>4. QED
    BY <1>3, <2>3 DEF s
<1>4. QED
  BY <1>2, <1>3 DEF s

\* What a handler does to the map is what its notice said it would.
LEMMA HoldsHandled ==
    ASSUME NEW map, NEW t, NEW told \in Seq(Notice), told # <<>>
    PROVE  Holds(IF Head(told).kind = "stored" THEN map \cup {Head(told).token}
                                               ELSE map \ {Head(told).token}, Tail(told), t)
               <=> Holds(map, told, t)
<1> DEFINE s == Tail(told)
           m == IF Head(told).kind = "stored" THEN map \cup {Head(told).token}
                                              ELSE map \ {Head(told).token}
<1>1. /\ Len(s) \in Nat /\ Len(told) = Len(s) + 1 /\ Head(told) = told[1]
      /\ \A i \in 1..Len(s) : s[i] = told[i + 1]
  OBVIOUS
<1>2. /\ told[1].token # t => (t \in m <=> t \in map)
      /\ told[1].token = t => (t \in m <=> told[1].kind = "stored")
  BY <1>1
<1> HIDE DEF s, m
<1>3. \A i \in 2..Len(told) : i - 1 \in 1..Len(s) /\ told[i] = s[i - 1]
  BY <1>1
<1>4. Holds(m, s, t) => Holds(map, told, t)
  <2>1. ASSUME NEW i \in 1..Len(s), s[i].token = t, s[i].kind = "stored",
               \A j \in i+1..Len(s) : s[j].token # t
        PROVE  Holds(map, told, t)
    <3>1. i + 1 \in 1..Len(told) /\ told[i + 1] = s[i]
      BY <1>1
    <3>2. \A j \in (i + 1) + 1..Len(told) : told[j].token # t
      BY <1>1, <1>3, <2>1
    <3>3. QED
      BY <2>1, <3>1, <3>2 DEF Holds
  <2>2. ASSUME t \in m, \A i \in 1..Len(s) : s[i].token # t
        PROVE  Holds(map, told, t)
    <3>1. \A i \in 2..Len(told) : told[i].token # t
      BY <1>3, <2>2
    <3>2. 1 \in 1..Len(told)
      BY <1>1
    <3>3. QED
      BY <1>1, <1>2, <2>2, <3>1, <3>2 DEF Holds
  <2>3. QED
    BY <2>1, <2>2 DEF Holds
<1>5. Holds(map, told, t) => Holds(m, s, t)
  <2>1. ASSUME NEW i \in 1..Len(told), told[i].token = t, told[i].kind = "stored",
               \A j \in i+1..Len(told) : told[j].token # t
        PROVE  Holds(m, s, t)
    <3>1. CASE i = 1
      <4>1. \A j \in 1..Len(s) : s[j].token # t
        BY <1>1, <2>1, <3>1
      <4>2. QED
        BY <1>2, <2>1, <3>1, <4>1 DEF Holds
    <3>2. CASE i # 1
      <4>1. i - 1 \in 1..Len(s) /\ s[i - 1] = told[i]
        BY <1>3, <3>2, <1>1
      <4>2. \A j \in (i - 1) + 1..Len(s) : s[j].token # t
        BY <1>1, <2>1
      <4>3. QED
        BY <2>1, <4>1, <4>2 DEF Holds
    <3>3. QED
      BY <3>1, <3>2
  <2>2. ASSUME t \in map, \A i \in 1..Len(told) : told[i].token # t
        PROVE  Holds(m, s, t)
    <3>1. told[1].token # t /\ \A i \in 1..Len(s) : s[i].token # t
      BY <1>1, <2>2
    <3>2. QED
      BY <1>2, <2>2, <3>1 DEF Holds
  <2>3. QED
    BY <2>1, <2>2 DEF Holds
<1>6. QED
  BY <1>4, <1>5 DEF s, m

\* An entry that is stored in between is the only one to change.
LEMMA HoldsMore ==
    ASSUME NEW map, NEW told, NEW t, NEW u
    PROVE  /\ Holds(map, told, t) => Holds(map \cup {u}, told, t)
           /\ Holds(map \cup {u}, told, t) => Holds(map, told, t) \/ t = u
BY DEF Holds

-----------------------------------------------------------------------------
(* The map of tokens: the invariant. *)

\* Nothing is known of a token that was never made.
OnlyMadeTokens ==
    /\ secret <= made /\ informer <= made
    /\ \A i \in 1..Len(feed) : feed[i] <= made
    /\ \A i \in 1..Len(notices) : notices[i].token <= made
    /\ \A r \in Requests : request[r].token <= made
    /\ \A r \in Requests : request[r].pc # "idle" => request[r].token # NoToken

\* The informer is behind the Secret, by what the feed holds.
FeedEndsInSecret ==
    /\ feed = <<>> => informer = secret
    /\ feed # <<>> => feed[Len(feed)] = secret

\* A Secret is deleted before the next one is made, and the watch says so.
DeletedInBetween ==
    /\ informer # NoToken /\ feed # <<>> => feed[1] = NoToken
    /\ \A i \in 1..Len(feed) - 1 : feed[i] # NoToken => feed[i + 1] = NoToken

\* Once all notices are handled the map will hold the informer's token, and of
\* others only those left behind.
NoticesTellAll ==
    /\ \A t \in Tokens : t # informer /\ Holds(entries, notices, t) => t \in leftBehind
    /\ informer # NoToken => Holds(entries, notices, informer)

TokenInv ==
    TokenTypeOK /\ OnlyMadeTokens /\ FeedEndsInSecret /\ DeletedInBetween /\ NoticesTellAll

\* Numbers that are tokens.
LEMMA TokenNumbers ==
    /\ MaxTokens \in Nat /\ Tokens \subseteq Nat /\ Held \subseteq Nat
    /\ \A t : t \in Held <=> t \in 0..MaxTokens
    /\ \A t : t \in Tokens <=> t \in Held /\ t # NoToken
BY TokenAssumption DEF TokenAssumption, Tokens, Held, NoToken

\* The invariant is true of the beginning.
LEMMA TokenInvInit == TokenInit => TokenInv
<1> SUFFICES ASSUME TokenInit PROVE TokenInv
  OBVIOUS
<1>1. NoRequest \in RequestState /\ NoRequest.token = NoToken /\ NoRequest.pc = "idle"
  BY DEF NoRequest, RequestState, Held, NoToken
<1>2. TokenTypeOK
  BY <1>1, TokenNumbers DEF TokenInit, TokenTypeOK, NoToken
<1>3. OnlyMadeTokens
  BY <1>1 DEF TokenInit, OnlyMadeTokens, NoToken
<1>4. FeedEndsInSecret /\ DeletedInBetween
  BY DEF TokenInit, FeedEndsInSecret, DeletedInBetween
<1>5. NoticesTellAll
  BY HoldsNow DEF TokenInit, NoticesTellAll
<1>6. QED
  BY <1>2, <1>3, <1>4, <1>5 DEF TokenInv

-----------------------------------------------------------------------------
(* The map of tokens: the steps. *)

\* A new token is greater than all that are known.
LEMMA ProvisionKeeps == TokenInv /\ ProvisionToken => TokenInv'
<1> SUFFICES ASSUME TokenInv, ProvisionToken PROVE TokenInv'
  OBVIOUS
<1>0. TokenTypeOK /\ made \in Nat /\ made + 1 \in 0..MaxTokens /\ made + 1 \in Held /\ made + 1 # NoToken
  <2>1. TokenTypeOK /\ made \in 0..MaxTokens /\ made < MaxTokens
    BY DEF TokenInv, TokenTypeOK, ProvisionToken
  <2>2. made \in Nat /\ made + 1 \in 0..MaxTokens /\ made + 1 # NoToken
    BY <2>1, TokenNumbers DEF NoToken
  <2>3. QED
    BY <2>1, <2>2, TokenNumbers
<1>1. /\ made' = made + 1 /\ secret' = made + 1 /\ feed' = Append(feed, made + 1)
      /\ secret = NoToken
      /\ UNCHANGED <<expired, informer, notices, entries, leftBehind, request>>
  BY DEF ProvisionToken
<1>2. /\ feed \in Seq(Held) /\ feed' \in Seq(Held)
      /\ Len(feed) \in Nat /\ Len(feed') = Len(feed) + 1 /\ feed'[Len(feed) + 1] = made + 1
      /\ \A i \in 1..Len(feed) : feed'[i] = feed[i] /\ feed[i] \in Held
  BY <1>0, <1>1 DEF TokenTypeOK
<1>3. TokenTypeOK'
  BY <1>0, <1>1, <1>2 DEF TokenTypeOK
<1>4. OnlyMadeTokens'
  <2>1. \A i \in 1..Len(feed') : feed'[i] <= made'
    BY <1>0, <1>1, <1>2, TokenNumbers DEF TokenInv, OnlyMadeTokens
  <2>2. \A i \in 1..Len(notices) : notices[i].token \in Nat
    <3>1. \A i \in 1..Len(notices) : notices[i] \in Notice
      BY <1>0 DEF TokenTypeOK
    <3>2. QED
      BY <3>1, TokenNumbers DEF Notice
  <2>3. \A r \in Requests : request[r].token \in Nat
    BY <1>0, TokenNumbers DEF TokenTypeOK, RequestState
  <2>4. informer \in Nat
    BY <1>0, TokenNumbers DEF TokenTypeOK
  <2>5. QED
    BY <1>0, <1>1, <2>1, <2>2, <2>3, <2>4 DEF TokenInv, OnlyMadeTokens
<1>5. FeedEndsInSecret'
  BY <1>1, <1>2 DEF FeedEndsInSecret
<1>6. DeletedInBetween'
  <2>1. feed = <<>> => informer = NoToken
    BY <1>1 DEF TokenInv, FeedEndsInSecret
  <2>2. feed # <<>> => feed[Len(feed)] = NoToken /\ feed'[1] = feed[1] /\ Len(feed) \in 1..Len(feed)
    BY <1>1, <1>2 DEF TokenInv, FeedEndsInSecret
  <2>3. informer' # NoToken /\ feed' # <<>> => feed'[1] = NoToken
    BY <1>1, <2>1, <2>2 DEF TokenInv, DeletedInBetween
  <2>4. ASSUME NEW i \in 1..Len(feed') - 1, feed'[i] # NoToken
        PROVE  feed'[i + 1] = NoToken
    <3>1. i \in 1..Len(feed) /\ feed[i] # NoToken
      BY <1>2, <2>4
    <3>2. i # Len(feed)
      BY <3>1, <2>2, <1>2
    <3>3. i \in 1..Len(feed) - 1 /\ i + 1 \in 1..Len(feed)
      BY <1>2, <3>1, <3>2
    <3>4. QED
      BY <1>2, <3>1, <3>3 DEF TokenInv, DeletedInBetween
  <2>5. QED
    BY <2>3, <2>4 DEF DeletedInBetween
<1>7. NoticesTellAll'
  BY <1>1 DEF TokenInv, NoticesTellAll
<1>8. QED
  BY <1>3, <1>4, <1>5, <1>6, <1>7 DEF TokenInv

\* The Secret goes; the map is told when the informer sees it.
LEMMA DeleteTokenKeeps == TokenInv /\ DeleteToken => TokenInv'
<1> SUFFICES ASSUME TokenInv, DeleteToken PROVE TokenInv'
  OBVIOUS
<1>0. TokenTypeOK /\ made \in Nat /\ NoToken \in Held /\ NoToken = 0
  BY TokenNumbers DEF TokenInv, TokenTypeOK, Held, NoToken
<1>1. /\ secret' = NoToken /\ feed' = Append(feed, NoToken)
      /\ UNCHANGED <<made, expired, informer, notices, entries, leftBehind, request>>
  BY DEF DeleteToken
<1>2. /\ feed \in Seq(Held) /\ feed' \in Seq(Held)
      /\ Len(feed) \in Nat /\ Len(feed') = Len(feed) + 1 /\ feed'[Len(feed) + 1] = NoToken
      /\ \A i \in 1..Len(feed) : feed'[i] = feed[i] /\ feed[i] \in Held
  BY <1>0, <1>1 DEF TokenTypeOK
<1>3. TokenTypeOK'
  BY <1>0, <1>1, <1>2 DEF TokenTypeOK
<1>4. OnlyMadeTokens'
  BY <1>0, <1>1, <1>2 DEF TokenInv, OnlyMadeTokens
<1>5. FeedEndsInSecret'
  BY <1>1, <1>2 DEF FeedEndsInSecret
<1>6. DeletedInBetween'
  <2>1. feed'[1] = NoToken \/ (feed # <<>> /\ feed'[1] = feed[1])
    <3>1. CASE feed = <<>>
      BY <1>2, <3>1
    <3>2. CASE feed # <<>>
      <4>1. 1 \in 1..Len(feed)
        BY <1>2, <3>2
      <4>2. QED
        BY <1>2, <3>2, <4>1
    <3>3. QED
      BY <3>1, <3>2
  <2>2. informer' # NoToken /\ feed' # <<>> => feed'[1] = NoToken
    BY <1>1, <2>1 DEF TokenInv, DeletedInBetween
  <2>3. ASSUME NEW i \in 1..Len(feed') - 1, feed'[i] # NoToken
        PROVE  feed'[i + 1] = NoToken
    <3>1. CASE i = Len(feed)
      BY <1>2, <3>1
    <3>2. CASE i # Len(feed)
      <4>1. i \in 1..Len(feed) - 1 /\ i \in 1..Len(feed) /\ i + 1 \in 1..Len(feed)
        BY <1>2, <3>2
      <4>2. QED
        BY <1>2, <2>3, <4>1 DEF TokenInv, DeletedInBetween
    <3>3. QED
      BY <3>1, <3>2
  <2>4. QED
    BY <2>2, <2>3 DEF DeletedInBetween
<1>7. NoticesTellAll'
  BY <1>1 DEF TokenInv, NoticesTellAll
<1>8. QED
  BY <1>3, <1>4, <1>5, <1>6, <1>7 DEF TokenInv

\* How the handlers learn that a Secret is gone.
Endings == {"deleted", "tombstone"}

\* What the handlers are told of a change makes the map follow the copy; a token
\* that gives way to another one without a word is left behind.
LEMMA ToldKeeps ==
    ASSUME TokenTypeOK, OnlyMadeTokens, NoticesTellAll,
           NEW how \in Endings,
           informer' \in Held, informer' <= made,
           notices' = notices \o Told(informer, informer', how),
           entries' = entries, leftBehind \subseteq leftBehind',
           informer # NoToken /\ informer' # NoToken /\ informer # informer' => informer \in leftBehind'
    PROVE  /\ notices' \in Seq(Notice) /\ NoticesTellAll'
           /\ \A i \in 1..Len(notices') : notices'[i].token <= made
<1>0. /\ notices \in Seq(Notice) /\ informer \in Held
      /\ \A i \in 1..Len(notices) : notices[i].token <= made /\ informer <= made
  BY DEF TokenTypeOK, OnlyMadeTokens
<1>1. ASSUME NEW n \in Notice, n.token <= made, notices' = notices \o <<n>>
      PROVE  /\ notices' = Append(notices, n) /\ notices' \in Seq(Notice)
             /\ \A i \in 1..Len(notices') : notices'[i].token <= made
  <2>1. notices' = Append(notices, n) /\ notices' \in Seq(Notice)
    BY <1>0, <1>1
  <2>2. /\ Len(notices) \in Nat /\ Len(notices') = Len(notices) + 1 /\ notices'[Len(notices) + 1] = n
        /\ \A i \in 1..Len(notices) : notices'[i] = notices[i]
    BY <1>0, <2>1
  <2>3. QED
    BY <1>0, <1>1, <2>1, <2>2
<1>2. CASE informer' # NoToken
  <2>1. PICK n : n = [kind |-> "stored", token |-> informer']
    OBVIOUS
  <2>2. n \in Notice /\ n.kind = "stored" /\ n.token = informer' /\ n.token <= made
    BY <1>2, <2>1, TokenNumbers DEF Notice
  <2>3. notices' = notices \o <<n>>
    BY <1>2, <2>1 DEF Told
  <2>4. notices' = Append(notices, n)
    BY <1>1, <2>2, <2>3
  <2>5. \A t \in Tokens : t # informer' =>
            (Holds(entries', notices', t) <=> Holds(entries, notices, t))
    BY <1>0, <2>2, <2>4, HoldsNext
  <2>6. Holds(entries', notices', informer')
    BY <1>0, <2>2, <2>4, HoldsNext
  <2>7. ASSUME NEW t \in Tokens, t # informer', Holds(entries', notices', t)
        PROVE  t \in leftBehind'
    <3>1. Holds(entries, notices, t) /\ t # NoToken
      BY <2>5, <2>7, TokenNumbers
    <3>2. CASE t = informer
      BY <1>2, <2>7, <3>1, <3>2
    <3>3. CASE t # informer
      BY <3>1, <3>3 DEF NoticesTellAll
    <3>4. QED
      BY <3>2, <3>3
  <2>8. QED
    BY <1>1, <2>2, <2>3, <2>6, <2>7 DEF NoticesTellAll
<1>3. CASE informer' = NoToken /\ informer # NoToken
  <2>1. PICK n : n = [kind |-> how, token |-> informer]
    OBVIOUS
  <2>2. n \in Notice /\ n.kind # "stored" /\ n.token = informer
    BY <1>0, <1>3, <2>1, TokenNumbers DEF Notice, Endings
  <2>3. n.token <= made
    BY <2>2 DEF OnlyMadeTokens
  <2>4. notices' = notices \o <<n>>
    BY <1>3, <2>1 DEF Told
  <2>5. notices' = Append(notices, n)
    BY <1>1, <2>2, <2>3, <2>4
  <2>6. \A t \in Tokens : t # informer =>
            (Holds(entries', notices', t) <=> Holds(entries, notices, t))
    BY <1>0, <2>2, <2>5, HoldsNext
  <2>7. Holds(entries', notices', informer) => FALSE
    <3>1. notices \in Seq(Notice) /\ n \in Notice /\ n.token = informer
      BY <1>0, <2>2
    <3>2. ASSUME Holds(entries, Append(notices, n), informer) PROVE n.kind = "stored"
      BY <3>1, <3>2, HoldsNext
    <3>3. QED
      BY <2>2, <2>5, <3>2
  <2>8. ASSUME NEW t \in Tokens, Holds(entries', notices', t)
        PROVE  t \in leftBehind'
    BY <2>6, <2>7, <2>8 DEF NoticesTellAll
  <2>9. QED
    BY <1>1, <1>3, <2>2, <2>3, <2>4, <2>8 DEF NoticesTellAll
<1>4. CASE informer' = NoToken /\ informer = NoToken
  <2>1. notices' = notices \o <<>>
    BY <1>4 DEF Told
  <2>2. notices' = notices
    BY <1>0, <2>1
  <2>3. QED
    BY <1>0, <1>4, <2>2 DEF NoticesTellAll
<1>5. QED
  BY <1>2, <1>3, <1>4

\* The informer takes one change off the feed.
LEMMA InformerSeesKeeps == TokenInv /\ InformerSees => TokenInv'
<1> SUFFICES ASSUME TokenInv, InformerSees PROVE TokenInv'
  OBVIOUS
<1>0. /\ TokenTypeOK /\ feed \in Seq(Held) /\ feed # <<>>
      /\ OnlyMadeTokens /\ NoticesTellAll
      /\ informer' = Head(feed) /\ feed' = Tail(feed)
      /\ notices' = notices \o Told(informer, Head(feed), "deleted")
      /\ UNCHANGED <<secret, made, expired, entries, leftBehind, request>>
  BY DEF TokenInv, TokenTypeOK, InformerSees
<1>1. /\ feed' \in Seq(Held) /\ Len(feed') \in Nat /\ Len(feed) = Len(feed') + 1
      /\ informer' = feed[1]
      /\ \A i \in 1..Len(feed') : feed'[i] = feed[i + 1] /\ i + 1 \in 1..Len(feed)
      /\ feed' = <<>> <=> Len(feed') = 0
  <2>1. feed' \in Seq(Held)
    BY <1>0
  <2>2. Len(feed') \in Nat /\ Len(feed) = Len(feed') + 1 /\ informer' = feed[1]
    BY <1>0
  <2>3. \A i \in 1..Len(feed') : feed'[i] = feed[i + 1] /\ i + 1 \in 1..Len(feed)
    BY <1>0
  <2>4. feed' = <<>> <=> Len(feed') = 0
    BY <2>1
  <2>5. QED
    BY <2>1, <2>2, <2>3, <2>4
<1>2. 1 \in 1..Len(feed) /\ informer' \in Held /\ informer' <= made
  BY <1>0, <1>1 DEF OnlyMadeTokens
<1>3. informer # NoToken => informer' = NoToken
  BY <1>0, <1>1 DEF TokenInv, DeletedInBetween
<1>4. /\ notices' \in Seq(Notice) /\ NoticesTellAll'
      /\ \A i \in 1..Len(notices') : notices'[i].token <= made
  BY <1>0, <1>2, <1>3, ToldKeeps DEF Endings
<1>5. TokenTypeOK'
  BY <1>0, <1>1, <1>2, <1>4 DEF TokenTypeOK
<1>6. OnlyMadeTokens'
  BY <1>0, <1>1, <1>2, <1>4 DEF OnlyMadeTokens
<1>7. FeedEndsInSecret'
  <2>1. feed[Len(feed)] = secret
    BY <1>0 DEF TokenInv, FeedEndsInSecret
  <2>2. CASE Len(feed') = 0
    BY <1>0, <1>1, <2>1, <2>2 DEF FeedEndsInSecret
  <2>3. CASE Len(feed') # 0
    <3>1. Len(feed') \in 1..Len(feed')
      BY <1>1, <2>3
    <3>2. feed'[Len(feed')] = feed[Len(feed)]
      BY <1>1, <3>1
    <3>3. QED
      BY <1>0, <1>1, <2>1, <2>3, <3>2 DEF FeedEndsInSecret
  <2>4. QED
    BY <2>2, <2>3
<1>8. DeletedInBetween'
  <2>1. ASSUME NEW i \in 1..Len(feed) - 1, feed[i] # NoToken PROVE feed[i + 1] = NoToken
    BY <2>1 DEF TokenInv, DeletedInBetween
  <2>2. informer' # NoToken /\ feed' # <<>> => feed'[1] = NoToken
    <3>1. ASSUME informer' # NoToken, feed' # <<>> PROVE feed'[1] = NoToken
      <4>1. 1 \in 1..Len(feed') /\ 1 \in 1..Len(feed) - 1
        BY <1>1, <3>1
      <4>2. feed'[1] = feed[2]
        BY <1>1, <4>1
      <4>3. feed[2] = NoToken
        BY <1>1, <2>1, <3>1, <4>1
      <4>4. QED
        BY <4>2, <4>3
    <3>2. QED
      BY <3>1
  <2>3. ASSUME NEW i \in 1..Len(feed') - 1, feed'[i] # NoToken PROVE feed'[i + 1] = NoToken
    <3>1. i \in 1..Len(feed') /\ i + 1 \in 1..Len(feed') /\ i + 1 \in 1..Len(feed) - 1
      BY <1>1
    <3>2. feed'[i] = feed[i + 1] /\ feed'[i + 1] = feed[(i + 1) + 1]
      BY <1>1, <3>1
    <3>3. QED
      BY <2>1, <2>3, <3>1, <3>2
  <2>4. QED
    BY <2>2, <2>3 DEF DeletedInBetween
<1>9. QED
  BY <1>4, <1>5, <1>6, <1>7, <1>8 DEF TokenInv

\* The informer lists: it skips the feed.
LEMMA InformerRelistsKeeps == TokenInv /\ InformerRelists => TokenInv'
<1> SUFFICES ASSUME TokenInv, InformerRelists PROVE TokenInv'
  OBVIOUS
<1>0. /\ TokenTypeOK /\ OnlyMadeTokens /\ NoticesTellAll
      /\ informer' = secret /\ feed' = <<>>
      /\ notices' = notices \o Told(informer, secret, "tombstone")
      /\ leftBehind' = IF secret = NoToken THEN leftBehind
                       ELSE leftBehind \cup ({informer} \ {secret, NoToken})
      /\ UNCHANGED <<secret, made, expired, entries, request>>
  BY DEF TokenInv, InformerRelists
<1>1. informer' \in Held /\ informer' <= made /\ feed' \in Seq(Held) /\ Len(feed') = 0
  BY <1>0 DEF TokenTypeOK, OnlyMadeTokens
<1>2. /\ leftBehind \subseteq leftBehind'
      /\ informer # NoToken /\ informer' # NoToken /\ informer # informer' => informer \in leftBehind'
  BY <1>0
<1>3. /\ notices' \in Seq(Notice) /\ NoticesTellAll'
      /\ \A i \in 1..Len(notices') : notices'[i].token <= made
  BY <1>0, <1>1, <1>2, ToldKeeps DEF Endings
<1>4. informer \in Nat /\ informer <= made /\ made \in Nat /\ leftBehind \subseteq 1..made
  BY <1>0, TokenNumbers DEF TokenTypeOK, OnlyMadeTokens
<1>5. leftBehind' \subseteq 1..made
  <2>1. {informer} \ {secret, NoToken} \subseteq 1..made
    BY <1>4 DEF NoToken
  <2>2. CASE secret = NoToken
    BY <1>0, <1>4, <2>2
  <2>3. CASE secret # NoToken
    BY <1>0, <1>4, <2>1, <2>3
  <2>4. QED
    BY <2>2, <2>3
<1>6. TokenTypeOK'
  BY <1>0, <1>1, <1>3, <1>5 DEF TokenTypeOK
<1>7. OnlyMadeTokens'
  BY <1>0, <1>1, <1>3 DEF OnlyMadeTokens
<1>8. FeedEndsInSecret' /\ DeletedInBetween'
  BY <1>0, <1>1 DEF FeedEndsInSecret, DeletedInBetween
<1>9. QED
  BY <1>3, <1>6, <1>7, <1>8 DEF TokenInv

\* The handlers do what they are told.
LEMMA HandleNoticeKeeps == TokenInv /\ HandleNotice => TokenInv'
<1> SUFFICES ASSUME TokenInv, HandleNotice PROVE TokenInv'
  OBVIOUS
<1>0. /\ TokenTypeOK /\ OnlyMadeTokens /\ notices \in Seq(Notice) /\ notices # <<>>
      /\ entries' = IF Head(notices).kind = "stored" THEN entries \cup {Head(notices).token}
                                                     ELSE entries \ {Head(notices).token}
      /\ notices' = Tail(notices)
      /\ UNCHANGED <<secret, made, expired, feed, informer, leftBehind, request>>
  BY DEF TokenInv, TokenTypeOK, HandleNotice, OnAddOrUpdate, OnDelete
<1>1. /\ notices' \in Seq(Notice) /\ Len(notices') \in Nat
      /\ Head(notices) = notices[1] /\ 1 \in 1..Len(notices) /\ Head(notices) \in Notice
      /\ \A i \in 1..Len(notices') : notices'[i] = notices[i + 1] /\ i + 1 \in 1..Len(notices)
  BY <1>0
<1>2. Head(notices).token <= made /\ Head(notices).token \in Tokens
  BY <1>0, <1>1 DEF OnlyMadeTokens, Notice
<1>3. entries' \subseteq 1..made
  <2>1. Head(notices).token \in 1..made
    BY <1>0, <1>2, TokenNumbers DEF Tokens, TokenTypeOK
  <2>2. QED
    BY <1>0, <2>1 DEF TokenTypeOK
<1>4. TokenTypeOK'
  BY <1>0, <1>1, <1>3 DEF TokenTypeOK
<1>5. OnlyMadeTokens'
  BY <1>0, <1>1 DEF OnlyMadeTokens
<1>6. \A t : Holds(entries', notices', t) <=> Holds(entries, notices, t)
  BY <1>0, HoldsHandled
<1>7. NoticesTellAll'
  BY <1>0, <1>6 DEF TokenInv, NoticesTellAll
<1>8. FeedEndsInSecret' /\ DeletedInBetween'
  BY <1>0 DEF TokenInv, FeedEndsInSecret, DeletedInBetween
<1>9. QED
  BY <1>4, <1>5, <1>7, <1>8 DEF TokenInv

\* What the requests are about changes only by PresentToken.
LEMMA DecideShape ==
    ASSUME TokenTypeOK, OnlyMadeTokens, NEW r \in Requests, request[r].pc # "idle",
           NEW pc \in {"scan", "store", "accepted", "refused"}, Decide(r, pc)
    PROVE  /\ request' \in [Requests -> RequestState]
           /\ \A q \in Requests : /\ request'[q].token = request[q].token
                                  /\ request'[q].pc # "idle" => request'[q].token # NoToken
<1>1. PICK q : q = [request[r] EXCEPT !.pc = pc]
  OBVIOUS
<1>2. q \in RequestState /\ q.pc = pc /\ q.token = request[r].token
  BY <1>1 DEF TokenTypeOK, RequestState
<1>3. request' = [request EXCEPT ![r] = q]
  BY <1>1 DEF Decide
<1>4. request' \in [Requests -> RequestState]
  BY <1>2, <1>3 DEF TokenTypeOK
<1>5. request[r].token # NoToken
  BY DEF OnlyMadeTokens
<1>6. ASSUME NEW p \in Requests
      PROVE  /\ request'[p].token = request[p].token
             /\ request'[p].pc # "idle" => request'[p].token # NoToken
  <2>1. CASE p = r
    BY <1>2, <1>3, <1>5, <2>1 DEF TokenTypeOK
  <2>2. CASE p # r
    BY <1>3, <2>2 DEF TokenTypeOK, OnlyMadeTokens
  <2>3. QED
    BY <2>1, <2>2
<1>7. QED
  BY <1>4, <1>6

\* A step that leaves the map and the informer alone.
LEMMA RestKeeps ==
    ASSUME TokenInv, UNCHANGED <<secret, made, storeVars>>,
           expired' \subseteq 1..made,
           request' \in [Requests -> RequestState],
           \A r \in Requests : /\ request'[r].token <= made
                               /\ request'[r].pc # "idle" => request'[r].token # NoToken
    PROVE  TokenInv'
<1>1. /\ UNCHANGED <<secret, made, feed, informer, notices, entries, leftBehind>>
  BY DEF storeVars
<1>2. TokenTypeOK'
  BY <1>1 DEF TokenInv, TokenTypeOK
<1>3. OnlyMadeTokens'
  BY <1>1 DEF TokenInv, OnlyMadeTokens
<1>4. FeedEndsInSecret' /\ DeletedInBetween' /\ NoticesTellAll'
  BY <1>1 DEF TokenInv, FeedEndsInSecret, DeletedInBetween, NoticesTellAll
<1>5. QED
  BY <1>2, <1>3, <1>4 DEF TokenInv

\* A request is looked up and answered; the map is not touched.
LEMMA LookupKeeps ==
    ASSUME TokenInv, NEW r \in Requests, Hit(r) \/ Miss(r) \/ Scan(r)
    PROVE  TokenInv'
<1>0. TokenTypeOK /\ OnlyMadeTokens /\ request[r].pc # "idle" /\ UNCHANGED <<secret, made, expired, storeVars>>
  BY DEF TokenInv, Hit, Miss, Scan
<1>1. PICK pc \in {"scan", "store", "accepted", "refused"} : Decide(r, pc)
  BY DEF Hit, Miss, Scan
<1>2. /\ request' \in [Requests -> RequestState]
      /\ \A q \in Requests : /\ request'[q].token = request[q].token
                             /\ request'[q].pc # "idle" => request'[q].token # NoToken
  BY <1>0, <1>1, DecideShape
<1>3. \A q \in Requests : request'[q].token <= made
  BY <1>0, <1>2 DEF OnlyMadeTokens
<1>4. expired' \subseteq 1..made
  BY <1>0 DEF TokenTypeOK
<1>5. QED
  BY <1>0, <1>2, <1>3, <1>4, RestKeeps

\* A request begins and ends.
LEMMA BeginEndKeeps ==
    ASSUME TokenInv, NEW r \in Requests, Finish(r) \/ \E t \in Tokens : PresentToken(r, t)
    PROVE  TokenInv'
<1>0. /\ TokenTypeOK /\ OnlyMadeTokens /\ UNCHANGED <<secret, made, expired, storeVars>>
      /\ made \in Nat /\ made <= MaxTokens
  BY TokenNumbers DEF TokenInv, TokenTypeOK, PresentToken, Finish
<1>1. PICK q \in RequestState : /\ request' = [request EXCEPT ![r] = q]
                                /\ q.token <= made /\ (q.pc # "idle" => q.token # NoToken)
  <2>1. CASE Finish(r)
    <3>1. /\ NoRequest \in RequestState /\ NoRequest.pc = "idle"
          /\ NoRequest.token = NoToken
      BY DEF NoRequest, RequestState, Held
    <3>2. NoRequest.token <= made
      BY <1>0, <3>1 DEF NoToken
    <3>3. request' = [request EXCEPT ![r] = NoRequest]
      BY <2>1 DEF Finish
    <3>4. QED
      BY <3>1, <3>2, <3>3
  <2>2. CASE \E t \in Tokens : PresentToken(r, t)
    <3>1. PICK t \in 1..made : request' = [request EXCEPT ![r] = [pc |-> "lookup", token |-> t]]
      BY <2>2 DEF PresentToken
    <3>2. PICK q : q = [pc |-> "lookup", token |-> t]
      OBVIOUS
    <3>3. t \in Held /\ t # NoToken
      BY <1>0, <3>1, TokenNumbers DEF NoToken
    <3>4. q \in RequestState /\ q.token = t
      BY <3>2, <3>3 DEF RequestState
    <3>5. q.token <= made /\ (q.pc # "idle" => q.token # NoToken)
      BY <1>0, <3>1, <3>3, <3>4
    <3>6. request' = [request EXCEPT ![r] = q]
      BY <3>1, <3>2
    <3>7. QED
      BY <3>4, <3>5, <3>6
  <2>3. QED
    BY <2>1, <2>2
<1>2. request' \in [Requests -> RequestState]
  BY <1>0, <1>1 DEF TokenTypeOK
<1>3. ASSUME NEW p \in Requests
      PROVE  /\ request'[p].token <= made
             /\ request'[p].pc # "idle" => request'[p].token # NoToken
  <2>1. request'[p] = IF p = r THEN q ELSE request[p]
    BY <1>0, <1>1 DEF TokenTypeOK
  <2>2. CASE p = r
    BY <1>1, <2>1, <2>2
  <2>3. CASE p # r
    BY <1>0, <2>1, <2>3 DEF OnlyMadeTokens
  <2>4. QED
    BY <2>2, <2>3
<1>4. expired' \subseteq 1..made
  BY <1>0 DEF TokenTypeOK
<1>5. QED
  BY <1>0, <1>2, <1>3, <1>4, RestKeeps

\* coldLookup stores what it has found, and says so if the informer has dropped it.
LEMMA StoreEntryKeeps ==
    ASSUME TokenInv, NEW r \in Requests, StoreEntry(r)
    PROVE  TokenInv'
<1>0. /\ TokenTypeOK /\ OnlyMadeTokens /\ NoticesTellAll
      /\ request[r].pc = "store" /\ request[r].pc # "idle"
      /\ entries' = entries \cup {request[r].token}
      /\ leftBehind' = leftBehind \cup ({request[r].token} \ {informer})
      /\ Decide(r, "accepted")
      /\ UNCHANGED <<secret, made, expired, feed, informer, notices>>
  BY DEF TokenInv, StoreEntry
<1>1. /\ request' \in [Requests -> RequestState]
      /\ \A q \in Requests : /\ request'[q].token = request[q].token
                             /\ request'[q].pc # "idle" => request'[q].token # NoToken
  BY <1>0, DecideShape
<1>2. request[r].token \in 1..made
  <2>1. request[r].token \in Held
    BY <1>0 DEF TokenTypeOK, RequestState
  <2>2. request[r].token # NoToken /\ request[r].token <= made
    BY <1>0 DEF OnlyMadeTokens
  <2>3. QED
    BY <2>1, <2>2, <1>0, TokenNumbers DEF NoToken, TokenTypeOK
<1>3. TokenTypeOK'
  BY <1>0, <1>1, <1>2 DEF TokenTypeOK
<1>4. OnlyMadeTokens'
  BY <1>0, <1>1 DEF OnlyMadeTokens
<1>5. NoticesTellAll'
  <2>1. ASSUME NEW t \in Tokens, t # informer, Holds(entries', notices, t) PROVE t \in leftBehind'
    <3>1. Holds(entries, notices, t) \/ t = request[r].token
      BY <1>0, <2>1, HoldsMore
    <3>2. QED
      BY <1>0, <2>1, <3>1 DEF NoticesTellAll
  <2>2. ASSUME informer # NoToken PROVE Holds(entries', notices, informer)
    <3>1. Holds(entries, notices, informer)
      BY <1>0, <2>2 DEF NoticesTellAll
    <3>2. QED
      BY <1>0, <3>1, HoldsMore
  <2>3. QED
    BY <1>0, <2>1, <2>2 DEF NoticesTellAll
<1>6. FeedEndsInSecret' /\ DeletedInBetween'
  BY <1>0 DEF TokenInv, FeedEndsInSecret, DeletedInBetween
<1>7. QED
  BY <1>3, <1>4, <1>5, <1>6 DEF TokenInv

\* After a restart the map is filled from the list.
LEMMA ServerRestartsKeeps == TokenInv /\ ServerRestarts => TokenInv'
<1> SUFFICES ASSUME TokenInv, ServerRestarts PROVE TokenInv'
  OBVIOUS
<1>0. /\ TokenTypeOK /\ OnlyMadeTokens /\ made \in Nat
      /\ informer' = secret /\ feed' = <<>> /\ entries' = {} /\ leftBehind' = {}
      /\ notices' = Told(NoToken, secret, "deleted")
      /\ request' = [r \in Requests |-> NoRequest]
      /\ UNCHANGED <<secret, made, expired>>
  BY DEF TokenInv, TokenTypeOK, ServerRestarts
<1>1. /\ NoRequest \in RequestState /\ NoRequest.pc = "idle" /\ NoRequest.token = NoToken
  BY DEF NoRequest, RequestState, Held
<1>2. NoRequest.token <= made
  BY <1>0, <1>1 DEF NoToken
<1>3. /\ notices' \in Seq(Notice) /\ NoticesTellAll'
      /\ \A i \in 1..Len(notices') : notices'[i].token <= made
  <2>1. CASE secret = NoToken
    <3>1. notices' = <<>>
      BY <1>0, <2>1 DEF Told
    <3>2. ASSUME NEW t, Holds(entries', notices', t) PROVE FALSE
      <4>1. t \in entries'
        BY <3>1, <3>2, HoldsNow
      <4>2. QED
        BY <1>0, <4>1
    <3>3. NoticesTellAll'
      BY <1>0, <2>1, <3>2 DEF NoticesTellAll
    <3>4. notices' \in Seq(Notice) /\ \A i \in 1..Len(notices') : notices'[i].token <= made
      BY <3>1
    <3>5. QED
      BY <3>3, <3>4
  <2>2. CASE secret # NoToken
    <3>1. PICK n : n = [kind |-> "stored", token |-> secret]
      OBVIOUS
    <3>2. n \in Notice /\ n.kind = "stored" /\ n.token = secret
      BY <1>0, <2>2, <3>1, TokenNumbers DEF Notice, TokenTypeOK
    <3>3. n.token <= made
      BY <1>0, <3>2 DEF OnlyMadeTokens
    <3>4. notices' = Append(<<>>, n) /\ <<>> \in Seq(Notice)
      BY <1>0, <2>2, <3>1 DEF Told
    <3>5. notices' \in Seq(Notice) /\ Len(notices') = 1 /\ notices'[1] = n
      BY <3>2, <3>4
    <3>6. Holds(entries', notices', secret)
      BY <3>2, <3>4, HoldsNext
    <3>7. ASSUME NEW t \in Tokens, t # secret, Holds(entries', notices', t) PROVE FALSE
      <4>1. Holds(entries', <<>>, t)
        BY <3>2, <3>4, <3>7, HoldsNext
      <4>2. t \in entries'
        BY <4>1, HoldsNow
      <4>3. QED
        BY <1>0, <4>2
    <3>8. NoticesTellAll'
      BY <1>0, <3>6, <3>7 DEF NoticesTellAll
    <3>9. \A i \in 1..Len(notices') : notices'[i].token <= made
      BY <3>3, <3>5
    <3>10. QED
      BY <3>5, <3>8, <3>9
  <2>3. QED
    BY <2>1, <2>2
<1>4. TokenTypeOK'
  <2>1. request' \in [Requests -> RequestState]
    BY <1>0, <1>1
  <2>2. QED
    BY <1>0, <1>3, <2>1 DEF TokenTypeOK
<1>5. OnlyMadeTokens'
  <2>1. \A r \in Requests : request'[r] = NoRequest
    BY <1>0
  <2>2. \A i \in 1..Len(feed') : feed'[i] <= made'
    BY <1>0
  <2>3. QED
    BY <1>0, <1>1, <1>2, <1>3, <2>1, <2>2 DEF OnlyMadeTokens
<1>6. FeedEndsInSecret' /\ DeletedInBetween'
  BY <1>0 DEF FeedEndsInSecret, DeletedInBetween
<1>7. QED
  BY <1>3, <1>4, <1>5, <1>6 DEF TokenInv

\* Every step keeps the invariant.
LEMMA TokenInvStep == TokenInv /\ [TokenNext]_tokenVars => TokenInv'
<1> SUFFICES ASSUME TokenInv, [TokenNext]_tokenVars PROVE TokenInv'
  OBVIOUS
<1>1. CASE ProvisionToken \/ DeleteToken
  BY <1>1, ProvisionKeeps, DeleteTokenKeeps
<1>2. CASE InformerSees \/ InformerRelists \/ HandleNotice \/ ServerRestarts
  BY <1>2, InformerSeesKeeps, InformerRelistsKeeps, HandleNoticeKeeps, ServerRestartsKeeps
<1>3. ASSUME NEW t \in Tokens, TokenExpires(t) PROVE TokenInv'
  <2>1. expired' \subseteq 1..made /\ UNCHANGED <<secret, made, storeVars, request>>
    BY <1>3 DEF TokenExpires, TokenInv, TokenTypeOK
  <2>2. request' \in [Requests -> RequestState]
    BY <2>1 DEF TokenInv, TokenTypeOK
  <2>3. \A r \in Requests : /\ request'[r].token <= made
                            /\ request'[r].pc # "idle" => request'[r].token # NoToken
    BY <2>1 DEF TokenInv, OnlyMadeTokens
  <2>4. QED
    BY <2>1, <2>2, <2>3, RestKeeps
<1>4. ASSUME NEW r \in Requests, RequestStep(r) \/ \E t \in Tokens : PresentToken(r, t)
      PROVE  TokenInv'
  <2>1. CASE Hit(r) \/ Miss(r) \/ Scan(r)
    BY <2>1, LookupKeeps
  <2>2. CASE StoreEntry(r)
    BY <2>2, StoreEntryKeeps
  <2>3. CASE Finish(r) \/ \E t \in Tokens : PresentToken(r, t)
    BY <2>3, BeginEndKeeps
  <2>4. QED
    BY <1>4, <2>1, <2>2, <2>3 DEF RequestStep
<1>5. CASE UNCHANGED tokenVars
  BY <1>5 DEF tokenVars, storeVars, TokenInv, TokenTypeOK, OnlyMadeTokens, FeedEndsInSecret,
     DeletedInBetween, NoticesTellAll
<1>6. QED
  BY <1>1, <1>2, <1>3, <1>4, <1>5 DEF TokenNext

\* Once everybody has caught up the map is what the notices have made of it.
LEMMA TokenInvImplies == TokenInv => MapFollowsSecret
<1> SUFFICES ASSUME TokenInv, CaughtUp
             PROVE  entries \ leftBehind \subseteq {secret} /\ {secret} \ {NoToken} \subseteq entries
  BY DEF MapFollowsSecret
<1>1. informer = secret /\ notices = <<>>
  BY DEF TokenInv, CaughtUp, FeedEndsInSecret
<1>2. \A t : Holds(entries, notices, t) <=> t \in entries
  BY <1>1, HoldsNow
<1>3. entries \subseteq Tokens
  BY TokenNumbers DEF TokenInv, TokenTypeOK, Tokens
<1>4. QED
  BY <1>1, <1>2, <1>3 DEF TokenInv, NoticesTellAll

\* What the informer missed while its watch was down is made up for when it lists
\* again: the map of tokens follows the Secret (TokenStore.onAddOrUpdate, onDelete
\* and coldLookup).
THEOREM TheMapFollows == TokenSpec => []MapFollowsSecret
<1>1. QED
  BY TokenInvInit, TokenInvStep, TokenInvImplies, PTL DEF TokenSpec

-----------------------------------------------------------------------------
(* Events: what the dashboard will have been told. *)

TenantEvents == {"tenant.claimed", "tenant.released"}

\* The dashboard, told d so far, hears e last of the tenant when told is written.
HearsLast(d, told, e) ==
    \/ \E i \in 1..Len(told) : /\ told[i] = e /\ e \in TenantEvents
                               /\ \A j \in i+1..Len(told) : told[j] \notin TenantEvents
    \/ e = d /\ \A i \in 1..Len(told) : told[i] \notin TenantEvents

\* Nothing is on its way.
LEMMA HearsNow == ASSUME NEW d, NEW e PROVE HearsLast(d, <<>>, e) <=> e = d
BY DEF HearsLast

\* Of what is put into the channel only events of tenants make a difference.
LEMMA HearsNext ==
    ASSUME NEW d, NEW e, NEW told \in Seq(EventTypes), NEW n \in EventTypes
    PROVE  /\ n \in TenantEvents => HearsLast(d, Append(told, n), n)
           /\ n \in TenantEvents /\ HearsLast(d, Append(told, n), e) => e = n
           /\ n \notin TenantEvents => (HearsLast(d, Append(told, n), e) <=> HearsLast(d, told, e))
<1> DEFINE s == Append(told, n)
<1>1. /\ Len(told) \in Nat /\ Len(s) = Len(told) + 1 /\ s[Len(told) + 1] = n
      /\ \A i \in 1..Len(told) : s[i] = told[i]
  OBVIOUS
<1> HIDE DEF s
<1>2. ASSUME n \in TenantEvents PROVE HearsLast(d, s, n)
  <2>1. Len(s) \in 1..Len(s) /\ s[Len(s)] = n /\ \A j \in Len(s)+1..Len(s) : s[j] \notin TenantEvents
    BY <1>1
  <2>2. QED
    BY <1>2, <2>1 DEF HearsLast
<1>3. ASSUME n \in TenantEvents, HearsLast(d, s, e) PROVE e = n
  <2>1. Len(s) \in 1..Len(s) /\ s[Len(s)] = n
    BY <1>1
  <2>2. PICK i \in 1..Len(s) : s[i] = e /\ \A j \in i+1..Len(s) : s[j] \notin TenantEvents
    BY <1>3, <2>1 DEF HearsLast
  <2>3. i = Len(s)
    BY <1>1, <1>3, <2>1, <2>2
  <2>4. QED
    BY <2>1, <2>2, <2>3
<1>4. ASSUME n \notin TenantEvents PROVE HearsLast(d, s, e) <=> HearsLast(d, told, e)
  <2>1. HearsLast(d, told, e) => HearsLast(d, s, e)
    BY <1>1, <1>4 DEF HearsLast
  <2>2. HearsLast(d, s, e) => HearsLast(d, told, e)
    BY <1>1, <1>4 DEF HearsLast
  <2>3. QED
    BY <2>1, <2>2
<1>5. QED
  BY <1>2, <1>3, <1>4 DEF s

\* Writing an event changes nothing in what will have been heard in the end.
LEMMA HearsWritten ==
    ASSUME NEW d, NEW e, NEW told \in Seq(EventTypes), told # <<>>, NEW now,
           now = IF Head(told) \in TenantEvents THEN Head(told) ELSE d
    PROVE  HearsLast(now, Tail(told), e) <=> HearsLast(d, told, e)
<1> DEFINE s == Tail(told)
<1>1. /\ Len(s) \in Nat /\ Len(told) = Len(s) + 1 /\ Head(told) = told[1]
      /\ \A i \in 1..Len(s) : s[i] = told[i + 1]
  OBVIOUS
<1>2. /\ told[1] \in TenantEvents => now = told[1]
      /\ told[1] \notin TenantEvents => now = d
  BY <1>1
<1> HIDE DEF s
<1>3. \A i \in 2..Len(told) : i - 1 \in 1..Len(s) /\ told[i] = s[i - 1]
  BY <1>1
<1>4. HearsLast(now, s, e) => HearsLast(d, told, e)
  <2>1. ASSUME NEW i \in 1..Len(s), s[i] = e, e \in TenantEvents,
               \A j \in i+1..Len(s) : s[j] \notin TenantEvents
        PROVE  HearsLast(d, told, e)
    <3>1. i + 1 \in 1..Len(told) /\ told[i + 1] = s[i]
      BY <1>1
    <3>2. ASSUME NEW j \in (i + 1) + 1..Len(told) PROVE told[j] \notin TenantEvents
      <4>1. j - 1 \in i+1..Len(s) /\ j \in 2..Len(told)
        BY <1>1
      <4>2. QED
        BY <1>3, <2>1, <4>1
    <3>3. QED
      BY <2>1, <3>1, <3>2 DEF HearsLast
  <2>2. ASSUME e = now, \A i \in 1..Len(s) : s[i] \notin TenantEvents
        PROVE  HearsLast(d, told, e)
    <3>1. \A i \in 2..Len(told) : told[i] \notin TenantEvents
      BY <1>3, <2>2
    <3>2. 1 \in 1..Len(told)
      BY <1>1
    <3>3. QED
      BY <1>1, <1>2, <2>2, <3>1, <3>2 DEF HearsLast
  <2>3. QED
    BY <2>1, <2>2 DEF HearsLast
<1>5. HearsLast(d, told, e) => HearsLast(now, s, e)
  <2>1. ASSUME NEW i \in 1..Len(told), told[i] = e, e \in TenantEvents,
               \A j \in i+1..Len(told) : told[j] \notin TenantEvents
        PROVE  HearsLast(now, s, e)
    <3>1. CASE i = 1
      <4>1. \A j \in 1..Len(s) : s[j] \notin TenantEvents
        BY <1>1, <2>1, <3>1
      <4>2. QED
        BY <1>2, <2>1, <3>1, <4>1 DEF HearsLast
    <3>2. CASE i # 1
      <4>1. i - 1 \in 1..Len(s) /\ s[i - 1] = told[i]
        BY <1>3, <3>2, <1>1
      <4>2. \A j \in (i - 1) + 1..Len(s) : s[j] \notin TenantEvents
        BY <1>1, <2>1
      <4>3. QED
        BY <2>1, <4>1, <4>2 DEF HearsLast
    <3>3. QED
      BY <3>1, <3>2
  <2>2. ASSUME e = d, \A i \in 1..Len(told) : told[i] \notin TenantEvents
        PROVE  HearsLast(now, s, e)
    <3>1. told[1] \notin TenantEvents /\ \A i \in 1..Len(s) : s[i] \notin TenantEvents
      BY <1>1, <2>2
    <3>2. QED
      BY <1>2, <2>2, <3>1 DEF HearsLast
  <2>3. QED
    BY <2>1, <2>2 DEF HearsLast
<1>6. QED
  BY <1>4, <1>5 DEF s

-----------------------------------------------------------------------------
(* Events: the invariant. *)

WatchTypes == WatchersTypeOK /\ object \in [Kinds -> Marks.pod \cup Marks.claim]

ClaimWatched == socket.pc = "serve" /\ stream["claim"].open

\* The last thing the dashboard hears of the tenant, when all that is in the
\* hands of the watcher or in the channel is written, is that it was claimed.
HearsOfClaim ==
    \/ watcher["claim"].out # <<>> /\ watcher["claim"].out[1] = "tenant.claimed"
    \/ watcher["claim"].out = <<>> /\ HearsLast(dashboard, events, "tenant.claimed")

NotYetConnected ==
    socket.pc = "none" =>
        /\ events = <<>> /\ dashboard = "none"
        /\ \A k \in Kinds : watcher[k].out = <<>> /\ watcher[k].pc = "none"

\* A watcher of claims has one event at a time to send, and only it has any of
\* tenants.
OutsAreRight ==
    /\ watcher["claim"].out # <<>> =>
         Len(watcher["claim"].out) = 1 /\ watcher["claim"].out[1] \in TenantEvents
    /\ \A i \in 1..Len(watcher["pod"].out) : watcher["pod"].out[i] \notin TenantEvents

\* The watcher remembers what it has seen last, and the watch makes up the rest.
QueueEndsInObject ==
    ClaimWatched =>
        /\ stream["claim"].queue = <<>> => watcher["claim"].prev = object["claim"]
        /\ stream["claim"].queue # <<>> =>
             stream["claim"].queue[Len(stream["claim"].queue)] = object["claim"]

\* Of what the watcher has seen the dashboard has been told, or will be.
HeardOfWhatWasSeen ==
    ClaimWatched =>
        /\ watcher["claim"].prev = "Active" => HearsOfClaim
        /\ HearsOfClaim => watcher["claim"].prev \notin {"Released", "absent"}

WatchInv ==
    /\ WatchTypes /\ NotYetConnected /\ OutsAreRight
    /\ QueueEndsInObject /\ HeardOfWhatWasSeen

\* The kinds, and what is known of each from the types.
LEMMA WatchFields ==
    ASSUME WatchTypes, NEW k \in Kinds
    PROVE  /\ stream[k].queue \in Seq(Marks.pod \cup Marks.claim)
           /\ stream[k] \in [queue: Seq(Marks.pod \cup Marks.claim), open: BOOLEAN]
           /\ watcher[k] \in WatcherState /\ watcher[k].out \in Seq(EventTypes)
           /\ object[k] \in Marks[k] /\ Marks[k] \subseteq Marks.pod \cup Marks.claim
BY DEF WatchTypes, WatchersTypeOK, WatcherState, Kinds, Marks

\* The blank watcher and stream.
LEMMA BlankWatch ==
    /\ NoWatcher \in WatcherState
    /\ NoWatcher.out = <<>> /\ NoWatcher.prev = "absent" /\ NoWatcher.pc = "none"
    /\ NoStream \in [queue: Seq(Marks.pod \cup Marks.claim), open: BOOLEAN]
    /\ ~NoStream.open
<1>1. /\ NoWatcher \in WatcherState
      /\ NoWatcher.out = <<>> /\ NoWatcher.prev = "absent" /\ NoWatcher.pc = "none"
  BY DEF NoWatcher, WatcherState, Marks
<1>2. PICK no \in BOOLEAN : no = FALSE
  OBVIOUS
<1>3. NoStream = [queue |-> <<>>, open |-> no]
  BY <1>2 DEF NoStream
<1>4. QED
  BY <1>1, <1>2, <1>3

\* The invariant is true of the beginning.
LEMMA WatchInvInit == WatchersInit => WatchInv
<1> SUFFICES ASSUME WatchersInit PROVE WatchInv
  OBVIOUS
<1>1. PICK no \in BOOLEAN : no = FALSE
  OBVIOUS
<1>2. socket = [pc |-> "none", connected |-> no, cancelled |-> no]
  BY <1>1 DEF WatchersInit
<1>3. socket \in [pc: {"none", "serve", "ended"}, connected: BOOLEAN, cancelled: BOOLEAN]
  BY <1>1, <1>2
<1>4. socket.pc = "none"
  BY <1>2
<1>5. \A k \in Kinds : object[k] \in Marks[k]
  BY DEF WatchersInit, Kinds, Marks
<1>6. WatchTypes
  BY <1>3, <1>5, BlankWatch, WatchersAssumption DEF Marks, WatchersInit, WatchTypes, WatchersTypeOK, WatchersAssumption
<1>7. NotYetConnected /\ OutsAreRight
  BY BlankWatch DEF WatchersInit, NotYetConnected, OutsAreRight, Kinds
<1>8. QueueEndsInObject /\ HeardOfWhatWasSeen
  BY <1>4 DEF QueueEndsInObject, HeardOfWhatWasSeen, ClaimWatched
<1>9. QED
  BY <1>6, <1>7, <1>8 DEF WatchInv

\* A step that means nothing for the claim.
LEMMA ClaimUntouched ==
    ASSUME WatchInv, WatchTypes', NotYetConnected', OutsAreRight',
           ClaimWatched' => ClaimWatched,
           ClaimWatched' => /\ UNCHANGED <<object["claim"], stream["claim"].queue, watcher["claim"].prev>>
                            /\ HearsOfClaim' <=> HearsOfClaim
    PROVE  WatchInv'
<1>1. ASSUME ClaimWatched' PROVE QueueEndsInObject' /\ HeardOfWhatWasSeen'
  <2>1. /\ ClaimWatched
        /\ HearsOfClaim' <=> HearsOfClaim
        /\ object'["claim"] = object["claim"]
        /\ stream'["claim"].queue = stream["claim"].queue
        /\ watcher'["claim"].prev = watcher["claim"].prev
    BY <1>1
  <2>2. QueueEndsInObject'
    BY <2>1 DEF WatchInv, QueueEndsInObject
  <2>3. HeardOfWhatWasSeen'
    BY <2>1 DEF WatchInv, HeardOfWhatWasSeen
  <2>4. QED
    BY <2>2, <2>3
<1>2. ~ClaimWatched' => QueueEndsInObject' /\ HeardOfWhatWasSeen'
  BY DEF QueueEndsInObject, HeardOfWhatWasSeen
<1>3. QED
  BY <1>1, <1>2 DEF WatchInv

-----------------------------------------------------------------------------
(* Events: the steps of the cluster. *)

\* What an object becomes is at the end of its watch.
LEMMA ObjectChangesKeeps ==
    ASSUME WatchInv, NEW k \in Kinds, NEW mark \in Marks[k], ObjectChanges(k, mark)
    PROVE  WatchInv'
<1>0. /\ WatchTypes /\ NotYetConnected /\ OutsAreRight
      /\ UNCHANGED <<watcher, events, socket, dashboard>>
      /\ object' = [object EXCEPT ![k] = mark] /\ changes' = [changes EXCEPT ![k] = @ + 1]
      /\ stream[k].open => stream' = [stream EXCEPT ![k].queue = Append(@, mark)]
      /\ ~stream[k].open => stream' = stream
  BY DEF WatchInv, ObjectChanges
<1>1. PICK q : q = Append(stream[k].queue, mark)
  OBVIOUS
<1>2. /\ q \in Seq(Marks.pod \cup Marks.claim) /\ q # <<>> /\ q[Len(q)] = mark
  <2>1. stream[k].queue \in Seq(Marks.pod \cup Marks.claim) /\ mark \in Marks.pod \cup Marks.claim
    BY <1>0, WatchFields
  <2>2. QED
    BY <1>1, <2>1
<1>3. PICK st : st = [stream[k] EXCEPT !.queue = q]
  OBVIOUS
<1>4. /\ st \in [queue: Seq(Marks.pod \cup Marks.claim), open: BOOLEAN]
      /\ st.queue = q /\ st.open = stream[k].open
  <2>1. stream[k] \in [queue: Seq(Marks.pod \cup Marks.claim), open: BOOLEAN]
    BY <1>0, WatchFields
  <2>2. QED
    BY <1>2, <1>3, <2>1
<1>5. stream[k].open => stream' = [stream EXCEPT ![k] = st]
  BY <1>0, <1>1, <1>3
<1>6. /\ stream' \in [Kinds -> [queue: Seq(Marks.pod \cup Marks.claim), open: BOOLEAN]]
      /\ stream[k].open => stream'[k].queue = q /\ stream'[k].open = stream[k].open
      /\ ~stream[k].open => stream'[k] = stream[k]
      /\ \A j \in Kinds : j # k => stream'[j] = stream[j]
  <2>1. stream \in [Kinds -> [queue: Seq(Marks.pod \cup Marks.claim), open: BOOLEAN]]
    BY <1>0 DEF WatchTypes, WatchersTypeOK
  <2>2. CASE stream[k].open
    <3>1. stream' = [stream EXCEPT ![k] = st]
      BY <1>5, <2>2
    <3>2. stream'[k] = st /\ \A j \in Kinds : j # k => stream'[j] = stream[j]
      BY <2>1, <3>1
    <3>3. stream' \in [Kinds -> [queue: Seq(Marks.pod \cup Marks.claim), open: BOOLEAN]]
      BY <1>4, <2>1, <3>1
    <3>4. QED
      BY <1>4, <2>2, <3>2, <3>3
  <2>3. CASE ~stream[k].open
    BY <1>0, <2>1, <2>3
  <2>4. QED
    BY <2>2, <2>3
<1>7. /\ object'[k] = mark
      /\ \A j \in Kinds : j # k => object'[j] = object[j]
  BY <1>0 DEF WatchTypes
<1>8. WatchTypes'
  <2>1. object' \in [Kinds -> Marks.pod \cup Marks.claim]
    BY <1>0, WatchFields DEF WatchTypes
  <2>2. \A j \in Kinds : object'[j] \in Marks[j]
    BY <1>0, <1>7 DEF WatchTypes, WatchersTypeOK
  <2>3. changes' \in [Kinds -> Nat]
    BY <1>0 DEF WatchTypes, WatchersTypeOK
  <2>4. QED
    BY <1>0, <1>6, <2>1, <2>2, <2>3 DEF WatchTypes, WatchersTypeOK
<1>9. NotYetConnected' /\ OutsAreRight'
  BY <1>0 DEF NotYetConnected, OutsAreRight
<1>10. CASE k = "claim"
  <2>1. ClaimWatched' => ClaimWatched /\ stream["claim"].open
    BY <1>0, <1>6, <1>10 DEF ClaimWatched
  <2>2. QueueEndsInObject'
    BY <1>2, <1>6, <1>7, <1>10, <2>1 DEF QueueEndsInObject
  <2>3. HeardOfWhatWasSeen'
    BY <1>0, <2>1 DEF WatchInv, HeardOfWhatWasSeen, HearsOfClaim
  <2>4. QED
    BY <1>8, <1>9, <2>2, <2>3 DEF WatchInv
<1>11. CASE k # "claim"
  <2>1. "claim" \in Kinds
    BY DEF Kinds
  <2>2. UNCHANGED <<object["claim"], stream["claim"]>>
    BY <1>6, <1>7, <1>11, <2>1
  <2>3. HearsOfClaim' <=> HearsOfClaim
    BY <1>0 DEF HearsOfClaim
  <2>4. ClaimWatched' => ClaimWatched
    BY <1>0, <2>2 DEF ClaimWatched
  <2>5. QED
    BY <1>0, <1>8, <1>9, <2>2, <2>3, <2>4, ClaimUntouched
<1>12. QED
  BY <1>10, <1>11

\* A watch that is over promises nothing.
LEMMA WatchClosesKeeps ==
    ASSUME WatchInv, NEW k \in Kinds, WatchCloses(k)
    PROVE  WatchInv'
<1>0. /\ WatchTypes /\ NotYetConnected /\ OutsAreRight
      /\ UNCHANGED <<object, changes, watcher, events, socket, dashboard>>
  BY DEF WatchInv, WatchCloses
<1>1. PICK no \in BOOLEAN : no = FALSE
  OBVIOUS
<1>2. PICK st : st = [stream[k] EXCEPT !.open = no]
  OBVIOUS
<1>3. /\ st \in [queue: Seq(Marks.pod \cup Marks.claim), open: BOOLEAN]
      /\ st.queue = stream[k].queue /\ st.open = no
  <2>1. stream[k] \in [queue: Seq(Marks.pod \cup Marks.claim), open: BOOLEAN]
    BY <1>0, WatchFields
  <2>2. QED
    BY <1>1, <1>2, <2>1
<1>4. stream' = [stream EXCEPT ![k] = st]
  BY <1>1, <1>2 DEF WatchCloses
<1>5. /\ stream' \in [Kinds -> [queue: Seq(Marks.pod \cup Marks.claim), open: BOOLEAN]]
      /\ stream'[k] = st
      /\ \A j \in Kinds : j # k => stream'[j] = stream[j]
  BY <1>0, <1>3, <1>4 DEF WatchTypes, WatchersTypeOK
<1>6. WatchTypes'
  BY <1>0, <1>5 DEF WatchTypes, WatchersTypeOK
<1>7. NotYetConnected' /\ OutsAreRight'
  BY <1>0 DEF NotYetConnected, OutsAreRight
<1>8. ClaimWatched' => ClaimWatched /\ UNCHANGED stream["claim"]
  <2>1. "claim" \in Kinds
    BY DEF Kinds
  <2>2. CASE k = "claim"
    BY <1>1, <1>3, <1>5, <2>2 DEF ClaimWatched
  <2>3. CASE k # "claim"
    <3>1. stream'["claim"] = stream["claim"]
      BY <1>5, <2>1, <2>3
    <3>2. QED
      BY <1>0, <3>1 DEF ClaimWatched
  <2>4. QED
    BY <2>2, <2>3
<1>9. HearsOfClaim' <=> HearsOfClaim
  BY <1>0 DEF HearsOfClaim
<1>10. QED
  BY <1>0, <1>6, <1>7, <1>8, <1>9, ClaimUntouched

\* The watch begins with the claim as it is.
LEMMA DashboardConnectsKeeps == WatchInv /\ DashboardConnects => WatchInv'
<1> SUFFICES ASSUME WatchInv, DashboardConnects PROVE WatchInv'
  OBVIOUS
<1>0. /\ WatchTypes /\ NotYetConnected /\ socket.pc = "none"
      /\ watcher' = [k \in Kinds |-> [NoWatcher EXCEPT !.pc = "receive"]]
      /\ UNCHANGED <<object, changes, events, dashboard>>
  BY DEF WatchInv, DashboardConnects
<1>1. PICK yes \in BOOLEAN, no \in BOOLEAN : yes = TRUE /\ no = FALSE
  OBVIOUS
<1>2. /\ socket' = [pc |-> "serve", connected |-> yes, cancelled |-> no]
      /\ stream' = [k \in Kinds |->
             [open |-> yes, queue |-> IF object[k] = "absent" THEN <<>> ELSE <<object[k]>>]]
  BY <1>1 DEF DashboardConnects
<1>3. socket'.pc = "serve" /\ socket' \in [pc: {"none", "serve", "ended"}, connected: BOOLEAN, cancelled: BOOLEAN]
  BY <1>2
<1>4. PICK w : w = [NoWatcher EXCEPT !.pc = "receive"]
  OBVIOUS
<1>5. w \in WatcherState /\ w.out = <<>> /\ w.prev = "absent"
  BY <1>4, BlankWatch DEF WatcherState
<1>6. watcher' \in [Kinds -> WatcherState] /\ \A k \in Kinds : watcher'[k] = w
  BY <1>0, <1>4, <1>5
<1>7. \A k \in Kinds :
        /\ object[k] = "absent" => stream'[k].queue = <<>>
        /\ object[k] # "absent" => stream'[k].queue = <<object[k]>>
        /\ stream'[k].queue \in Seq(Marks.pod \cup Marks.claim) /\ stream'[k].open = yes
        /\ stream'[k] \in [queue: Seq(Marks.pod \cup Marks.claim), open: BOOLEAN]
  <2> TAKE k \in Kinds
  <2>1. PICK q : q = IF object[k] = "absent" THEN <<>> ELSE <<object[k]>>
    OBVIOUS
  <2>2. stream'[k] = [open |-> yes, queue |-> q]
    BY <1>2, <2>1
  <2>3. object[k] \in Marks.pod \cup Marks.claim
    BY <1>0, WatchFields
  <2>4. q \in Seq(Marks.pod \cup Marks.claim)
    <3>1. <<>> \in Seq(Marks.pod \cup Marks.claim) /\ <<object[k]>> \in Seq(Marks.pod \cup Marks.claim)
      BY <2>3
    <3>2. QED
      BY <2>1, <3>1
  <2>5. stream'[k].queue = q /\ stream'[k].open = yes
    BY <2>2
  <2>6. stream'[k] \in [queue: Seq(Marks.pod \cup Marks.claim), open: BOOLEAN]
    BY <2>2, <2>4
  <2>7. QED
    BY <2>1, <2>4, <2>5, <2>6
<1>8. stream' \in [Kinds -> [queue: Seq(Marks.pod \cup Marks.claim), open: BOOLEAN]]
  BY <1>2, <1>7
<1>9. WatchTypes'
  BY <1>0, <1>3, <1>6, <1>8 DEF WatchTypes, WatchersTypeOK
<1>10. /\ events' = <<>> /\ dashboard' = "none"
       /\ "claim" \in Kinds /\ "pod" \in Kinds
  BY <1>0 DEF NotYetConnected, Kinds
<1>11. NotYetConnected' /\ OutsAreRight'
  BY <1>3, <1>5, <1>6, <1>10 DEF NotYetConnected, OutsAreRight
<1>12. QueueEndsInObject'
  <2>1. CASE object["claim"] = "absent"
    BY <1>0, <1>5, <1>6, <1>7, <1>10, <2>1 DEF QueueEndsInObject
  <2>2. CASE object["claim"] # "absent"
    <3>1. stream'["claim"].queue = <<object["claim"]>>
      BY <1>7, <1>10, <2>2
    <3>2. stream'["claim"].queue # <<>> /\ stream'["claim"].queue[Len(stream'["claim"].queue)] = object["claim"]
      BY <3>1
    <3>3. QED
      BY <1>0, <3>2 DEF QueueEndsInObject
  <2>3. QED
    BY <2>1, <2>2
<1>13. HeardOfWhatWasSeen'
  <2>1. HearsOfClaim' => FALSE
    <3>1. watcher'["claim"].out = <<>>
      BY <1>5, <1>6, <1>10
    <3>2. HearsOfClaim' => HearsLast("none", <<>>, "tenant.claimed")
      BY <1>10, <3>1 DEF HearsOfClaim
    <3>3. HearsLast("none", <<>>, "tenant.claimed") => "tenant.claimed" = "none"
      BY HearsNow
    <3>4. QED
      BY <3>2, <3>3
  <2>2. watcher'["claim"].prev # "Active"
    BY <1>5, <1>6, <1>10
  <2>3. QED
    BY <2>1, <2>2 DEF HeardOfWhatWasSeen
<1>14. QED
  BY <1>9, <1>11, <1>12, <1>13 DEF WatchInv

\* The handler and the reader tell the watchers nothing about the claim.
LEMMA SocketKeeps ==
    ASSUME WatchInv, DashboardLeaves \/ NoticeDeparture \/ HandlerEnds
    PROVE  WatchInv'
<1>0. /\ WatchTypes /\ NotYetConnected /\ OutsAreRight
      /\ UNCHANGED <<object, changes, stream, watcher, events, dashboard>>
      /\ socket \in [pc: {"none", "serve", "ended"}, connected: BOOLEAN, cancelled: BOOLEAN]
  BY DEF WatchInv, DashboardLeaves, NoticeDeparture, HandlerEnds, WatchTypes, WatchersTypeOK
<1>1. /\ socket' \in [pc: {"none", "serve", "ended"}, connected: BOOLEAN, cancelled: BOOLEAN]
      /\ socket'.pc = socket.pc \/ socket'.pc = "ended"
  <2>1. CASE DashboardLeaves
    <3>1. PICK no \in BOOLEAN : no = FALSE
      OBVIOUS
    <3>2. socket' = [socket EXCEPT !.connected = no]
      BY <2>1, <3>1 DEF DashboardLeaves
    <3>3. QED
      BY <1>0, <3>2
  <2>2. CASE NoticeDeparture
    <3>1. PICK yes \in BOOLEAN : yes = TRUE
      OBVIOUS
    <3>2. socket' = [socket EXCEPT !.cancelled = yes]
      BY <2>2, <3>1 DEF NoticeDeparture
    <3>3. QED
      BY <1>0, <3>2
  <2>3. CASE HandlerEnds
    <3>1. socket' = [socket EXCEPT !.pc = "ended"]
      BY <2>3 DEF HandlerEnds
    <3>2. QED
      BY <1>0, <3>1
  <2>4. QED
    BY <2>1, <2>2, <2>3
<1>2. WatchTypes'
  BY <1>0, <1>1 DEF WatchTypes, WatchersTypeOK
<1>3. NotYetConnected' /\ OutsAreRight'
  BY <1>0, <1>1 DEF NotYetConnected, OutsAreRight
<1>4. ClaimWatched' => ClaimWatched
  BY <1>0, <1>1 DEF ClaimWatched
<1>5. HearsOfClaim' <=> HearsOfClaim
  BY <1>0 DEF HearsOfClaim
<1>6. QED
  BY <1>0, <1>2, <1>3, <1>4, <1>5, ClaimUntouched

\* What is written is what would have been heard; when the write fails there is
\* no dashboard any more.
LEMMA WriteEventKeeps == WatchInv /\ WriteEvent => WatchInv'
<1> SUFFICES ASSUME WatchInv, WriteEvent PROVE WatchInv'
  OBVIOUS
<1>0. /\ WatchTypes /\ NotYetConnected /\ OutsAreRight /\ socket.pc = "serve"
      /\ events \in Seq(EventTypes) /\ events # <<>> /\ events' = Tail(events)
      /\ UNCHANGED <<object, changes, stream, watcher>>
      /\ socket \in [pc: {"none", "serve", "ended"}, connected: BOOLEAN, cancelled: BOOLEAN]
  BY DEF WatchInv, WriteEvent, WatchTypes, WatchersTypeOK
<1>1. Len(events) <= EventBuffer
  BY <1>0 DEF WatchTypes, WatchersTypeOK
<1>2. events' \in Seq(EventTypes) /\ Len(events') <= EventBuffer
  BY <1>0, <1>1, WatchersAssumption DEF WatchersAssumption
<1>3. CASE /\ dashboard' = IF Head(events) \in {"tenant.claimed", "tenant.released"}
                             THEN Head(events) ELSE dashboard
           /\ UNCHANGED socket
  <2>1. WatchTypes'
    <3>1. dashboard' \in {"none", "tenant.claimed", "tenant.released"}
      BY <1>0, <1>3 DEF WatchTypes, WatchersTypeOK
    <3>2. QED
      BY <1>0, <1>2, <1>3, <3>1 DEF WatchTypes, WatchersTypeOK
  <2>2. NotYetConnected' /\ OutsAreRight'
    BY <1>0, <1>3 DEF NotYetConnected, OutsAreRight
  <2>3. dashboard' = IF Head(events) \in TenantEvents THEN Head(events) ELSE dashboard
    BY <1>3 DEF TenantEvents
  <2>4. HearsLast(dashboard', events', "tenant.claimed") <=> HearsLast(dashboard, events, "tenant.claimed")
    BY <1>0, <2>3, HearsWritten
  <2>5. HearsOfClaim' <=> HearsOfClaim
    BY <1>0, <2>4 DEF HearsOfClaim
  <2>6. ClaimWatched' => ClaimWatched
    BY <1>0, <1>3 DEF ClaimWatched
  <2>7. QED
    BY <1>0, <2>1, <2>2, <2>5, <2>6, ClaimUntouched
<1>4. CASE socket' = [socket EXCEPT !.pc = "ended", !.cancelled = TRUE] /\ UNCHANGED dashboard
  <2>1. PICK yes \in BOOLEAN : yes = TRUE
    OBVIOUS
  <2>2. socket' = [socket EXCEPT !.pc = "ended", !.cancelled = yes]
    BY <1>4, <2>1
  <2>3. /\ socket' \in [pc: {"none", "serve", "ended"}, connected: BOOLEAN, cancelled: BOOLEAN]
        /\ socket'.pc = "ended"
    BY <1>0, <2>2
  <2>4. WatchTypes'
    BY <1>0, <1>2, <1>4, <2>3 DEF WatchTypes, WatchersTypeOK
  <2>5. NotYetConnected' /\ OutsAreRight'
    BY <1>0, <2>3 DEF NotYetConnected, OutsAreRight
  <2>6. ~ClaimWatched'
    BY <2>3 DEF ClaimWatched
  <2>7. QED
    BY <2>4, <2>5, <2>6 DEF WatchInv, QueueEndsInObject, HeardOfWhatWasSeen
<1>5. QED
  BY <1>3, <1>4 DEF WriteEvent

-----------------------------------------------------------------------------
(* Events: the steps of the watchers. *)

\* What watchClaims makes of a change.
LEMMA ClaimEventsAre ==
    ASSUME NEW prev, NEW now
    PROVE  /\ ClaimEvents(prev, now) \in {<<>>, <<"tenant.claimed">>, <<"tenant.released">>}
           /\ now = "Active" /\ prev # "Active" => ClaimEvents(prev, now) = <<"tenant.claimed">>
           /\ now = "Active" /\ prev = "Active" => ClaimEvents(prev, now) = <<>>
           /\ now = "absent" => ClaimEvents(prev, now) = <<"tenant.released">>
           /\ now = "Released" /\ prev # "Released" => ClaimEvents(prev, now) = <<"tenant.released">>
           /\ now = "Released" /\ prev = "Released" => ClaimEvents(prev, now) = <<>>
<1>1. /\ <<"tenant.claimed">> \o <<>> = <<"tenant.claimed">>
      /\ <<>> \o <<"tenant.released">> = <<"tenant.released">>
      /\ <<>> \o <<>> = <<>>
  <2>1. <<"tenant.claimed">> \in Seq(EventTypes) /\ <<"tenant.released">> \in Seq(EventTypes)
        /\ <<>> \in Seq(EventTypes)
    BY DEF EventTypes
  <2>2. QED
    BY <2>1, ConcatEmptySeq
<1>2. CASE now = "absent"
  BY <1>2 DEF ClaimEvents
<1>3. CASE now = "Active"
  BY <1>1, <1>3 DEF ClaimEvents
<1>4. CASE now = "Released"
  BY <1>1, <1>4 DEF ClaimEvents
<1>5. CASE now \notin {"absent", "Active", "Released"}
  BY <1>1, <1>5 DEF ClaimEvents
<1>6. QED
  BY <1>2, <1>3, <1>4, <1>5

\* Nothing that watchPods says is about a tenant.
LEMMA PodEventsAre ==
    ASSUME NEW prev, NEW now
    PROVE  /\ PodEvents(prev, now) \in Seq(EventTypes)
           /\ \A i \in 1..Len(PodEvents(prev, now)) : PodEvents(prev, now)[i] \notin TenantEvents
<1>1. PICK head, tail : /\ PodEvents(prev, now) = head \o tail
                       /\ head = <<"instance.state">> /\ tail \in {<<>>, <<"pool.instance.ready">>}
  BY DEF PodEvents
<1>2. /\ head \in Seq(EventTypes) /\ tail \in Seq(EventTypes)
      /\ \A i \in 1..Len(head) : head[i] \notin TenantEvents
      /\ \A i \in 1..Len(tail) : tail[i] \notin TenantEvents
  <2>1. head \in Seq(EventTypes) /\ tail \in Seq(EventTypes)
    <3>1. /\ <<"instance.state">> \in Seq(EventTypes)
          /\ <<>> \in Seq(EventTypes) /\ <<"pool.instance.ready">> \in Seq(EventTypes)
      BY DEF EventTypes
    <3>2. QED
      BY <1>1, <3>1
  <2>2. "instance.state" \notin TenantEvents /\ "pool.instance.ready" \notin TenantEvents
    BY DEF TenantEvents
  <2>3. \A i \in 1..Len(head) : head[i] = "instance.state"
    BY <1>1
  <2>4. \A i \in 1..Len(tail) : tail[i] = "pool.instance.ready"
    BY <1>1
  <2>5. QED
    BY <2>1, <2>2, <2>3, <2>4
<1>3. PICK s : s = head \o tail
  OBVIOUS
<1>4. /\ s \in Seq(EventTypes) /\ Len(s) = Len(head) + Len(tail)
      /\ \A i \in 1..Len(head) + Len(tail) : s[i] = IF i <= Len(head) THEN head[i] ELSE tail[i - Len(head)]
  BY <1>2, <1>3, ConcatProperties
<1>5. ASSUME NEW i \in 1..Len(s) PROVE s[i] \notin TenantEvents
  <2>1. Len(head) \in Nat /\ Len(tail) \in Nat
    BY <1>2
  <2>2. CASE i <= Len(head)
    BY <1>2, <1>4, <2>1, <2>2
  <2>3. CASE ~(i <= Len(head))
    <3>1. i - Len(head) \in 1..Len(tail) /\ s[i] = tail[i - Len(head)]
      BY <1>4, <2>1, <2>3
    <3>2. QED
      BY <1>2, <3>1
  <2>4. QED
    BY <2>2, <2>3
<1>6. QED
  BY <1>1, <1>3, <1>4, <1>5

\* A step of one watcher, in what it changes: its own state and its own watch.
LEMMA OneWatcher ==
    ASSUME WatchTypes, NEW k \in Kinds, NEW w \in WatcherState,
           NEW st \in [queue: Seq(Marks.pod \cup Marks.claim), open: BOOLEAN],
           watcher' = [watcher EXCEPT ![k] = w], stream' = [stream EXCEPT ![k] = st],
           events' \in Seq(EventTypes), Len(events') <= EventBuffer,
           UNCHANGED <<object, changes, socket, dashboard>>
    PROVE  /\ WatchTypes' /\ watcher'[k] = w /\ stream'[k] = st
           /\ \A j \in Kinds : j # k => watcher'[j] = watcher[j] /\ stream'[j] = stream[j]
<1>1. watcher' \in [Kinds -> WatcherState] /\ watcher'[k] = w /\ \A j \in Kinds : j # k => watcher'[j] = watcher[j]
  BY DEF WatchTypes, WatchersTypeOK
<1>2. /\ stream' \in [Kinds -> [queue: Seq(Marks.pod \cup Marks.claim), open: BOOLEAN]]
      /\ stream'[k] = st /\ \A j \in Kinds : j # k => stream'[j] = stream[j]
  BY DEF WatchTypes, WatchersTypeOK
<1>3. WatchTypes'
  BY <1>1, <1>2 DEF WatchTypes, WatchersTypeOK
<1>4. QED
  BY <1>1, <1>2, <1>3

\* What the watcher of claims sees it tells, unless the dashboard has heard it.
LEMMA ReceiveKeeps ==
    ASSUME WatchInv, NEW k \in Kinds, Receive(k)
    PROVE  WatchInv'
<1>0. /\ WatchTypes /\ NotYetConnected /\ OutsAreRight
      /\ watcher[k].pc = "receive" /\ watcher[k].out = <<>>
      /\ stream[k].queue # <<>> /\ stream[k].queue \in Seq(Marks.pod \cup Marks.claim)
      /\ UNCHANGED <<object, changes, events, socket, dashboard>>
  BY WatchFields DEF WatchInv, Receive
<1>1. PICK now : now = Head(stream[k].queue)
  OBVIOUS
<1>2. PICK q : q = Tail(stream[k].queue)
  OBVIOUS
<1>3. /\ now \in Marks.pod \cup Marks.claim /\ q \in Seq(Marks.pod \cup Marks.claim)
      /\ q = <<>> => now = stream[k].queue[Len(stream[k].queue)]
      /\ q # <<>> => q[Len(q)] = stream[k].queue[Len(stream[k].queue)]
  <2>1. now \in Marks.pod \cup Marks.claim /\ q \in Seq(Marks.pod \cup Marks.claim)
    BY <1>0, <1>1, <1>2
  <2>2. /\ Len(q) \in Nat /\ Len(stream[k].queue) = Len(q) + 1 /\ now = stream[k].queue[1]
        /\ \A i \in 1..Len(q) : q[i] = stream[k].queue[i + 1]
    BY <1>0, <1>1, <1>2
  <2>3. q = <<>> <=> Len(q) = 0
    BY <2>1
  <2>4. q = <<>> => now = stream[k].queue[Len(stream[k].queue)]
    BY <2>2, <2>3
  <2>5. q # <<>> => q[Len(q)] = stream[k].queue[Len(stream[k].queue)]
    BY <2>2, <2>3
  <2>6. QED
    BY <2>1, <2>4, <2>5
<1>4. PICK out : out = EventsOf(k, watcher[k].prev, now)
  OBVIOUS
<1>5. out \in Seq(EventTypes)
  <2>1. {<<>>, <<"tenant.claimed">>, <<"tenant.released">>} \subseteq Seq(EventTypes)
    BY DEF EventTypes
  <2>2. CASE k = "pod"
    BY <1>4, <2>2, PodEventsAre DEF EventsOf
  <2>3. CASE k # "pod"
    BY <1>4, <2>1, <2>3, ClaimEventsAre DEF EventsOf
  <2>4. QED
    BY <2>2, <2>3
<1>6. PICK w : w = [watcher[k] EXCEPT !.out = out, !.prev = now]
  OBVIOUS
<1>7. w \in WatcherState /\ w.out = out /\ w.prev = now
  <2>1. watcher[k] \in WatcherState
    BY <1>0, WatchFields
  <2>2. QED
    BY <1>3, <1>5, <1>6, <2>1 DEF WatcherState
<1>8. PICK st : st = [stream[k] EXCEPT !.queue = q]
  OBVIOUS
<1>9. /\ st \in [queue: Seq(Marks.pod \cup Marks.claim), open: BOOLEAN]
      /\ st.queue = q /\ st.open = stream[k].open
  <2>1. stream[k] \in [queue: Seq(Marks.pod \cup Marks.claim), open: BOOLEAN]
    BY <1>0, WatchFields
  <2>2. QED
    BY <1>3, <1>8, <2>1
<1>10. watcher' = [watcher EXCEPT ![k] = w] /\ stream' = [stream EXCEPT ![k] = st]
  BY <1>0, <1>1, <1>2, <1>4, <1>6, <1>8 DEF Receive, Remember, WatchTypes, WatchersTypeOK
<1>11. /\ WatchTypes' /\ watcher'[k] = w /\ stream'[k] = st
       /\ \A j \in Kinds : j # k => watcher'[j] = watcher[j] /\ stream'[j] = stream[j]
  <2>1. events' \in Seq(EventTypes) /\ Len(events') <= EventBuffer
    BY <1>0 DEF WatchTypes, WatchersTypeOK
  <2>2. QED
    BY <1>0, <1>7, <1>9, <1>10, <2>1, OneWatcher
<1>12. "claim" \in Kinds /\ "pod" \in Kinds /\ "claim" # "pod" /\ (k = "claim" \/ k = "pod")
  BY DEF Kinds
<1>13. NotYetConnected'
  BY <1>0 DEF NotYetConnected
<1>14. CASE k = "pod"
  <2>1. watcher'["claim"] = watcher["claim"] /\ stream'["claim"] = stream["claim"]
    BY <1>11, <1>12, <1>14
  <2>2. OutsAreRight'
    BY <1>0, <1>4, <1>7, <1>11, <1>14, <2>1, PodEventsAre DEF OutsAreRight, EventsOf
  <2>3. HearsOfClaim' <=> HearsOfClaim
    BY <1>0, <2>1 DEF HearsOfClaim
  <2>4. ClaimWatched' => ClaimWatched
    BY <1>0, <2>1 DEF ClaimWatched
  <2>5. QED
    BY <1>0, <1>11, <1>13, <2>1, <2>2, <2>3, <2>4, ClaimUntouched
<1>15. CASE k = "claim"
  <2>1. /\ watcher'["pod"] = watcher["pod"]
        /\ watcher'["claim"].out = out /\ watcher'["claim"].prev = now
        /\ stream'["claim"].queue = q /\ stream'["claim"].open = stream["claim"].open
    BY <1>7, <1>9, <1>11, <1>12, <1>15
  <2>2. out = ClaimEvents(watcher["claim"].prev, now)
    BY <1>4, <1>12, <1>15 DEF EventsOf
  <2>3. out \in {<<>>, <<"tenant.claimed">>, <<"tenant.released">>}
    BY <2>2, ClaimEventsAre
  <2>4. OutsAreRight'
    <3>1. out # <<>> => Len(out) = 1 /\ out[1] \in TenantEvents
      BY <2>3 DEF TenantEvents
    <3>2. QED
      BY <1>0, <2>1, <3>1 DEF OutsAreRight
  <2>5. QueueEndsInObject'
    BY <1>0, <1>3, <1>15, <2>1 DEF WatchInv, QueueEndsInObject, ClaimWatched
  <2>6. HeardOfWhatWasSeen'
    <3>1. ASSUME ClaimWatched', now = "Active" PROVE HearsOfClaim'
      <4>1. CASE watcher["claim"].prev = "Active"
        <5>1. HearsOfClaim
          BY <1>0, <2>1, <3>1, <4>1 DEF WatchInv, HeardOfWhatWasSeen, ClaimWatched
        <5>2. out = <<>>
          BY <2>2, <3>1, <4>1, ClaimEventsAre
        <5>3. QED
          BY <1>0, <1>15, <2>1, <5>1, <5>2 DEF HearsOfClaim
      <4>2. CASE watcher["claim"].prev # "Active"
        <5>1. out = <<"tenant.claimed">>
          BY <2>2, <3>1, <4>2, ClaimEventsAre
        <5>2. out # <<>> /\ out[1] = "tenant.claimed"
          BY <5>1
        <5>3. QED
          BY <2>1, <5>2 DEF HearsOfClaim
      <4>3. QED
        BY <4>1, <4>2
    <3>2. ASSUME ClaimWatched', now \in {"Released", "absent"}, HearsOfClaim' PROVE FALSE
      <4>1. CASE now = "Released" /\ watcher["claim"].prev = "Released"
        <5>1. out = <<>>
          BY <2>2, <4>1, ClaimEventsAre
        <5>2. HearsOfClaim
          BY <1>0, <1>15, <2>1, <3>2, <5>1 DEF HearsOfClaim
        <5>3. QED
          BY <1>0, <2>1, <3>2, <4>1, <5>2 DEF WatchInv, HeardOfWhatWasSeen, ClaimWatched
      <4>2. CASE ~(now = "Released" /\ watcher["claim"].prev = "Released")
        <5>1. out = <<"tenant.released">>
          BY <2>2, <3>2, <4>2, ClaimEventsAre
        <5>2. out # <<>> /\ out[1] # "tenant.claimed"
          BY <5>1
        <5>3. QED
          BY <2>1, <3>2, <5>2 DEF HearsOfClaim
      <4>3. QED
        BY <4>1, <4>2
    <3>3. QED
      BY <2>1, <3>1, <3>2 DEF HeardOfWhatWasSeen
  <2>7. QED
    BY <1>11, <1>13, <2>4, <2>5, <2>6 DEF WatchInv
<1>16. QED
  BY <1>12, <1>14, <1>15

\* What the watcher hands over is the last thing in the channel.
LEMMA SendKeeps ==
    ASSUME WatchInv, NEW k \in Kinds, Send(k)
    PROVE  WatchInv'
<1>0. /\ WatchTypes /\ NotYetConnected /\ OutsAreRight
      /\ watcher[k].out # <<>> /\ watcher[k].out \in Seq(EventTypes)
      /\ events \in Seq(EventTypes) /\ Len(events) < EventBuffer
      /\ UNCHANGED <<object, changes, stream, socket, dashboard>>
  BY WatchFields DEF WatchInv, Send, WatchTypes, WatchersTypeOK
<1>1. PICK n : n = Head(watcher[k].out)
  OBVIOUS
<1>2. PICK out : out = Tail(watcher[k].out)
  OBVIOUS
<1>3. /\ n \in EventTypes /\ n = watcher[k].out[1] /\ 1 \in 1..Len(watcher[k].out)
      /\ out \in Seq(EventTypes) /\ Len(out) \in Nat /\ Len(watcher[k].out) = Len(out) + 1
      /\ \A i \in 1..Len(out) : out[i] = watcher[k].out[i + 1] /\ i + 1 \in 1..Len(watcher[k].out)
  BY <1>0, <1>1, <1>2
<1>4. /\ events' = Append(events, n)
      /\ events' \in Seq(EventTypes) /\ Len(events') <= EventBuffer
  <2>1. events' = Append(events, n)
    BY <1>1 DEF Send
  <2>2. QED
    BY <1>0, <1>3, <2>1, WatchersAssumption DEF WatchersAssumption
<1>5. PICK w : w = [watcher[k] EXCEPT !.out = out]
  OBVIOUS
<1>6. w \in WatcherState /\ w.out = out /\ w.prev = watcher[k].prev
  <2>1. watcher[k] \in WatcherState
    BY <1>0, WatchFields
  <2>2. QED
    BY <1>3, <1>5, <2>1 DEF WatcherState
<1>7. PICK st \in [queue: Seq(Marks.pod \cup Marks.claim), open: BOOLEAN] : st = stream[k]
  BY <1>0, WatchFields
<1>8. watcher' = [watcher EXCEPT ![k] = w] /\ stream' = [stream EXCEPT ![k] = st]
  BY <1>0, <1>2, <1>5, <1>7 DEF Send, WatchTypes, WatchersTypeOK
<1>9. /\ WatchTypes' /\ watcher'[k] = w
      /\ \A j \in Kinds : j # k => watcher'[j] = watcher[j]
  <2>1. WatchTypes /\ w \in WatcherState /\ events' \in Seq(EventTypes) /\ Len(events') <= EventBuffer
    BY <1>0, <1>4, <1>6
  <2>2. UNCHANGED <<object, changes, socket, dashboard>>
    BY <1>0
  <2>3. QED
    BY <1>8, <2>1, <2>2, OneWatcher
<1>10. "claim" \in Kinds /\ "pod" \in Kinds /\ "claim" # "pod" /\ (k = "claim" \/ k = "pod")
  BY DEF Kinds
<1>11. NotYetConnected'
  BY <1>0 DEF NotYetConnected
<1>12. ClaimWatched' => ClaimWatched
  BY <1>0 DEF ClaimWatched
<1>13. CASE k = "pod"
  <2>1. watcher'["claim"] = watcher["claim"] /\ watcher'["pod"].out = out
    BY <1>6, <1>9, <1>10, <1>13
  <2>2. OutsAreRight'
    BY <1>0, <1>3, <1>13, <2>1 DEF OutsAreRight
  <2>3. n \notin TenantEvents
    BY <1>0, <1>3, <1>13 DEF OutsAreRight
  <2>4. HearsLast(dashboard, events', "tenant.claimed") <=> HearsLast(dashboard, events, "tenant.claimed")
    BY <1>0, <1>3, <1>4, <2>3, HearsNext
  <2>5. HearsOfClaim' <=> HearsOfClaim
    BY <1>0, <2>1, <2>4 DEF HearsOfClaim
  <2>6. QED
    BY <1>0, <1>9, <1>11, <1>12, <2>1, <2>2, <2>5, ClaimUntouched
<1>14. CASE k = "claim"
  <2>1. n \in TenantEvents /\ Len(out) = 0
    BY <1>0, <1>3, <1>14 DEF OutsAreRight
  <2>2. out = <<>>
    BY <1>3, <2>1
  <2>3. /\ watcher'["pod"] = watcher["pod"] /\ watcher'["claim"].out = <<>>
        /\ watcher'["claim"].prev = watcher["claim"].prev
    BY <1>6, <1>9, <1>10, <1>14, <2>2
  <2>4. OutsAreRight'
    BY <1>0, <2>3 DEF OutsAreRight
  <2>5. n = "tenant.claimed" => HearsLast(dashboard, events', "tenant.claimed")
    <3>1. events \in Seq(EventTypes) /\ n \in EventTypes /\ n \in TenantEvents
      BY <1>0, <1>3, <2>1
    <3>2. HearsLast(dashboard, Append(events, n), n)
      BY <3>1, HearsNext
    <3>3. QED
      BY <1>4, <3>2
  <2>6. HearsLast(dashboard, events', "tenant.claimed") => n = "tenant.claimed"
    <3>1. events \in Seq(EventTypes) /\ n \in EventTypes /\ n \in TenantEvents
      BY <1>0, <1>3, <2>1
    <3>2. ASSUME NEW e, HearsLast(dashboard, Append(events, n), e) PROVE e = n
      BY <3>1, <3>2, HearsNext
    <3>3. QED
      BY <1>4, <3>2
  <2>7. HearsOfClaim <=> n = "tenant.claimed"
    BY <1>0, <1>3, <1>14 DEF HearsOfClaim
  <2>8. HearsOfClaim' <=> n = "tenant.claimed"
    BY <1>0, <2>3, <2>5, <2>6 DEF HearsOfClaim
  <2>9. HearsOfClaim' <=> HearsOfClaim
    BY <2>7, <2>8
  <2>10. QED
    BY <1>0, <1>9, <1>11, <1>12, <2>3, <2>4, <2>9, ClaimUntouched
<1>15. QED
  BY <1>10, <1>13, <1>14

\* A watcher that has ended has closed its watch.
LEMMA WatcherEndsKeeps ==
    ASSUME WatchInv, NEW k \in Kinds, WatcherEnds(k)
    PROVE  WatchInv'
<1>0. /\ WatchTypes /\ NotYetConnected /\ OutsAreRight
      /\ watcher[k].pc = "receive" /\ watcher[k].out = <<>>
      /\ UNCHANGED <<object, changes, events, socket, dashboard>>
      /\ stream' = [stream EXCEPT ![k] = NoStream]
  BY DEF WatchInv, WatcherEnds
<1>1. PICK w : w = [NoWatcher EXCEPT !.pc = "ended"]
  OBVIOUS
<1>2. w \in WatcherState /\ w.out = <<>>
  BY <1>1, BlankWatch DEF WatcherState
<1>3. watcher' = [watcher EXCEPT ![k] = w]
  BY <1>1 DEF WatcherEnds
<1>4. /\ WatchTypes' /\ watcher'[k] = w /\ stream'[k] = NoStream
      /\ \A j \in Kinds : j # k => watcher'[j] = watcher[j] /\ stream'[j] = stream[j]
  <2>1. events' \in Seq(EventTypes) /\ Len(events') <= EventBuffer
    BY <1>0 DEF WatchTypes, WatchersTypeOK
  <2>2. QED
    BY <1>0, <1>2, <1>3, <2>1, BlankWatch, OneWatcher
<1>5. "claim" \in Kinds /\ "pod" \in Kinds /\ "claim" # "pod" /\ (k = "claim" \/ k = "pod")
  BY DEF Kinds
<1>6. NotYetConnected'
  BY <1>0 DEF NotYetConnected
<1>7. OutsAreRight'
  <2>1. \A j \in Kinds : watcher'[j].out = watcher[j].out
    BY <1>0, <1>2, <1>4
  <2>2. QED
    BY <1>0, <1>5, <2>1 DEF OutsAreRight
<1>8. CASE k = "pod"
  <2>1. watcher'["claim"] = watcher["claim"] /\ stream'["claim"] = stream["claim"]
    BY <1>4, <1>5, <1>8
  <2>2. HearsOfClaim' <=> HearsOfClaim
    BY <1>0, <2>1 DEF HearsOfClaim
  <2>3. ClaimWatched' => ClaimWatched
    BY <1>0, <2>1 DEF ClaimWatched
  <2>4. QED
    BY <1>0, <1>4, <1>6, <1>7, <2>1, <2>2, <2>3, ClaimUntouched
<1>9. CASE k = "claim"
  <2>1. ~ClaimWatched'
    BY <1>4, <1>9, BlankWatch DEF ClaimWatched
  <2>2. QED
    BY <1>4, <1>6, <1>7, <2>1 DEF WatchInv, QueueEndsInObject, HeardOfWhatWasSeen
<1>10. QED
  BY <1>5, <1>8, <1>9

\* Every step keeps the invariant.
LEMMA WatchInvStep == WatchInv /\ [WatchNext]_watchVars => WatchInv'
<1> SUFFICES ASSUME WatchInv, [WatchNext]_watchVars PROVE WatchInv'
  OBVIOUS
<1>1. CASE Handler \/ DashboardLeaves
  BY <1>1, SocketKeeps, WriteEventKeeps DEF Handler
<1>2. CASE DashboardConnects
  BY <1>2, DashboardConnectsKeeps
<1>3. ASSUME NEW k \in Kinds, WatcherStep(k) PROVE WatchInv'
  BY <1>3, ReceiveKeeps, SendKeeps, WatcherEndsKeeps DEF WatcherStep
<1>4. ASSUME NEW k \in Kinds, WatchCloses(k) PROVE WatchInv'
  BY <1>4, WatchClosesKeeps
<1>5. ASSUME NEW k \in Kinds, NEW mark \in Marks[k], ObjectChanges(k, mark) PROVE WatchInv'
  BY <1>5, ObjectChangesKeeps
<1>6. CASE UNCHANGED watchVars
  BY <1>6 DEF watchVars, WatchInv, WatchTypes, WatchersTypeOK, NotYetConnected, OutsAreRight,
     QueueEndsInObject, HeardOfWhatWasSeen, ClaimWatched, HearsOfClaim
<1>7. QED
  BY <1>1, <1>2, <1>3, <1>4, <1>5, <1>6 DEF WatchNext

\* When nothing is on its way the dashboard has heard what the watcher has seen,
\* and the watcher has seen the claim as it is.
LEMMA WatchInvImplies == WatchInv => DashboardIsRight
<1> SUFFICES ASSUME WatchInv, socket.pc = "serve", stream["claim"] = [queue |-> <<>>, open |-> TRUE],
                    watcher["claim"].out = <<>>, events = <<>>
             PROVE  /\ object["claim"] = "Active" => dashboard = "tenant.claimed"
                    /\ object["claim"] \in {"Released", "absent"} => dashboard # "tenant.claimed"
  BY DEF DashboardIsRight
<1>1. stream["claim"].queue = <<>> /\ stream["claim"].open
  OBVIOUS
<1>2. ClaimWatched
  BY <1>1 DEF ClaimWatched
<1>3. watcher["claim"].prev = object["claim"]
  BY <1>1, <1>2 DEF WatchInv, QueueEndsInObject
<1>4. HearsLast(dashboard, events, "tenant.claimed") <=> "tenant.claimed" = dashboard
  BY HearsNow
<1>5. HearsOfClaim <=> dashboard = "tenant.claimed"
  BY <1>4 DEF HearsOfClaim
<1>6. QED
  BY <1>2, <1>3, <1>5 DEF WatchInv, HeardOfWhatWasSeen

\* What the dashboard has been told of a tenant is true once nothing is on its
\* way, whatever the size of the channel and however its two watchers interleave
\* (handleWebSocket, watchClaims and watchPods).
THEOREM TheDashboardIsRight == WatchSpec => []DashboardIsRight
<1>1. QED
  BY WatchInvInit, WatchInvStep, WatchInvImplies, PTL DEF WatchSpec
===============================================================================
