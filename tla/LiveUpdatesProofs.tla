-------------------------- MODULE LiveUpdatesProofs --------------------------
(* Proofs about LiveUpdates, for every value of its constants. *)
EXTENDS LiveUpdates, TLAPS

-----------------------------------------------------------------------------
(* Type correctness *)

LEMMA InitType == Init => TypeOK
BY ConstantsAssumption DEF Init, TypeOK, Handlers, PCs

(* An update of a function at any point keeps its type. *)
LEMMA ChannelUpdate ==
    ASSUME NEW S, NEW T, NEW f \in [S -> T], NEW x, NEW v \in T
    PROVE  [f EXCEPT ![x] = v] \in [S -> T]
OBVIOUS

LEMMA StepType == TypeOK /\ [Next]_vars => TypeOK'
<1> SUFFICES ASSUME TypeOK, [Next]_vars PROVE TypeOK'
  OBVIOUS
<1> USE ConstantsAssumption DEF TypeOK, Goto, PCs, Handlers, client, pub
<1>1. ASSUME NEW p \in Publishers, Rebuild(p) PROVE TypeOK'
  <2>1. version + 1 \in 1..MaxVersion
    BY <1>1 DEF Rebuild
  <2>2. QED
    BY <1>1, <2>1 DEF Rebuild, Enter
<1>2. ASSUME NEW p \in Publishers, SetSyncStatus(p) PROVE TypeOK'
  BY <1>2 DEF SetSyncStatus, Enter
<1>3. ASSUME NEW p \in Publishers, GetSnapshot(p) PROVE TypeOK'
  BY <1>3 DEF GetSnapshot
<1>4. ASSUME NEW p \in Publishers, Broadcast(p) PROVE TypeOK'
  BY <1>4 DEF Broadcast
<1>5. ASSUME NEW p \in Publishers, Offer(p) PROVE TypeOK'
  <2>1. PICK c \in left[p] :
          \/ chan' = [chan EXCEPT ![c] = patch[p]] /\ Served(p, c)
          \/ cur' = [cur EXCEPT ![p] = c] /\ Goto(p, "drain") /\ UNCHANGED <<chan, left>>
    BY <1>5 DEF Offer
  <2>2. c \in Clients
    OBVIOUS
  <2>3. /\ pc[p] = "push"
        /\ UNCHANGED <<version, refreshMu, subscribersMu, subscribers, closed, client, patch>>
    BY <1>5 DEF Offer
  <2>4. CASE chan' = [chan EXCEPT ![c] = patch[p]] /\ Served(p, c)
    BY <2>2, <2>3, <2>4 DEF Served
  <2>5. CASE cur' = [cur EXCEPT ![p] = c] /\ Goto(p, "drain") /\ UNCHANGED <<chan, left>>
    BY <2>2, <2>3, <2>5
  <2>6. QED
    BY <2>1, <2>4, <2>5
<1>6. ASSUME NEW p \in Publishers, Drain(p) PROVE TypeOK'
  <2>1. chan' \in [Clients -> 0..MaxVersion]
    BY <1>6, ChannelUpdate, 0 \in 0..MaxVersion DEF Drain
  <2>2. pc[p] = "drain" /\ pc' = [pc EXCEPT ![p] = "retry"]
        /\ UNCHANGED <<version, refreshMu, subscribersMu, subscribers, closed, client, patch,
                       left, cur>>
    BY <1>6 DEF Drain
  <2>3. QED
    BY <2>1, <2>2
<1>7. ASSUME NEW p \in Publishers, Retry(p) PROVE TypeOK'
  <2>1. chan' \in [Clients -> 0..MaxVersion]
    BY <1>7 DEF Retry
  <2>2. /\ pc' = [pc EXCEPT ![p] = "push"] /\ pc[p] = "retry"
        /\ left' = [left EXCEPT ![p] = @ \ {cur[p]}] /\ cur' = [cur EXCEPT ![p] = Nobody]
        /\ UNCHANGED <<version, refreshMu, subscribersMu, subscribers, closed, client, patch>>
    BY <1>7 DEF Retry, Served
  <2>3. QED
    BY <2>1, <2>2
<1>8. ASSUME NEW p \in Publishers, EndBroadcast(p) PROVE TypeOK'
  BY <1>8 DEF EndBroadcast
<1>9. ASSUME NEW c \in Clients, Subscribe(c) PROVE TypeOK'
  BY <1>9 DEF Subscribe
<1>10. ASSUME NEW c \in Clients, ReadSnapshot(c) \/ WriteInitial(c) PROVE TypeOK'
  BY <1>10 DEF ReadSnapshot, WriteInitial
<1>11. ASSUME NEW c \in Clients, Receive(c) PROVE TypeOK'
  BY <1>11 DEF Receive
<1>12. ASSUME NEW c \in Clients, Disconnect(c) \/ Unsubscribe(c) PROVE TypeOK'
  BY <1>12 DEF Disconnect, Unsubscribe
<1>13. CloseSubscribers => TypeOK'
  BY DEF CloseSubscribers
<1>14. UNCHANGED vars => TypeOK'
  BY DEF vars
<1> HIDE DEF TypeOK, Goto, PCs, Handlers, client, pub
<1>15. QED
  BY <1>1, <1>2, <1>3, <1>4, <1>5, <1>6, <1>7, <1>8, <1>9, <1>10, <1>11, <1>12, <1>13,
     <1>14 DEF Next, Publish, Stream

(* The snapshot, the channels and the streams keep their types.            *)
THEOREM TypeCorrect == Spec => []TypeOK
BY InitType, StepType, PTL DEF Spec

-----------------------------------------------------------------------------
(* No send on a closed channel *)

LEMMA BroadcastInit == Init => BroadcastInv /\ ChannelInv
BY ConstantsAssumption DEF Init, BroadcastInv, ChannelInv, Sending

(* Nobody is sending while subscribersMu is free. *)
LEMMA Quiet ==
    ASSUME BroadcastInv, subscribersMu = Nobody, NEW p \in Publishers
    PROVE  pc[p] \notin Sending /\ left[p] = {}
BY ConstantsAssumption DEF BroadcastInv

(* Steps that leave the subscribers and what has to be sent to them alone. *)
LEMMA BroadcastKept ==
    ASSUME BroadcastInv, ChannelInv,
           UNCHANGED <<subscribersMu, subscribers, closed, left, cur>>,
           \A p \in Publishers :
              pc'[p] # pc[p] => pc[p] \notin Sending /\ pc'[p] \notin Sending
    PROVE  BroadcastInv' /\ ChannelInv'
<1>1. BroadcastInv'
  BY DEF BroadcastInv, Sending
<1>2. QED
  BY <1>1 DEF ChannelInv

LEMMA BroadcastStep == TypeOK /\ BroadcastInv /\ ChannelInv /\ [Next]_vars
                          => BroadcastInv' /\ ChannelInv'
<1> SUFFICES ASSUME TypeOK, BroadcastInv, ChannelInv, [Next]_vars
             PROVE  BroadcastInv' /\ ChannelInv'
  OBVIOUS
<1>1. ASSUME NEW p \in Publishers, Rebuild(p) \/ SetSyncStatus(p) \/ GetSnapshot(p)
      PROVE  BroadcastInv' /\ ChannelInv'
  <2>1. /\ UNCHANGED <<subscribersMu, subscribers, closed, left, cur>>
        /\ pc[p] \notin Sending /\ pc'[p] \notin Sending
        /\ \A q \in Publishers \ {p} : pc'[q] = pc[q]
    BY <1>1 DEF Rebuild, SetSyncStatus, GetSnapshot, Enter, Goto, TypeOK, Sending
  <2>2. QED
    BY <2>1, BroadcastKept
<1>2. ASSUME NEW p \in Publishers, Broadcast(p) PROVE BroadcastInv' /\ ChannelInv'
  <2>1. /\ UNCHANGED <<subscribers, closed, cur>> /\ subscribersMu' = p
        /\ left' = [left EXCEPT ![p] = subscribers] /\ pc' = [pc EXCEPT ![p] = "push"]
    BY <1>2 DEF Broadcast, Goto
  <2>2. \A q \in Publishers : pc[q] \notin Sending /\ left[q] = {}
    BY <1>2, Quiet DEF Broadcast
  <2>3. BroadcastInv'
    BY <2>1, <2>2 DEF BroadcastInv, TypeOK, Sending
  <2>4. QED
    BY <2>1, <2>3 DEF ChannelInv
<1>3. ASSUME NEW p \in Publishers, Offer(p) \/ Drain(p) \/ Retry(p)
      PROVE  BroadcastInv' /\ ChannelInv'
  <2>1. UNCHANGED <<subscribersMu, subscribers, closed>>
    BY <1>3 DEF Offer, Drain, Retry
  <2>2. /\ pc[p] \in Sending /\ pc'[p] \in Sending
        /\ \A q \in Publishers \ {p} : pc'[q] = pc[q] /\ left'[q] = left[q] /\ cur'[q] = cur[q]
        /\ left'[p] \subseteq left[p]
        /\ pc'[p] \in {"drain", "retry"} => cur'[p] \in left'[p]
    BY <1>3 DEF Offer, Drain, Retry, Served, Goto, TypeOK, Sending, BroadcastInv
  <2>3. BroadcastInv'
    BY <2>1, <2>2 DEF BroadcastInv, Sending
  <2>4. QED
    BY <2>1, <2>3 DEF ChannelInv
<1>4. ASSUME NEW p \in Publishers, EndBroadcast(p) PROVE BroadcastInv' /\ ChannelInv'
  <2>1. /\ UNCHANGED <<subscribers, closed, left, cur>> /\ subscribersMu' = Nobody
        /\ left[p] = {} /\ pc[p] = "push" /\ pc' = [pc EXCEPT ![p] = "idle"]
    BY <1>4 DEF EndBroadcast, Goto
  <2>2. BroadcastInv'
    BY <2>1, ConstantsAssumption DEF BroadcastInv, TypeOK, Sending
  <2>3. QED
    BY <2>1, <2>2 DEF ChannelInv
<1>5. ASSUME NEW c \in Clients, Subscribe(c) \/ Unsubscribe(c) PROVE BroadcastInv' /\ ChannelInv'
  <2>1. /\ UNCHANGED <<subscribersMu, pc, left, cur>> /\ subscribersMu = Nobody
    BY <1>5 DEF Subscribe, Unsubscribe, pub
  <2>2. ChannelInv'
    BY <1>5 DEF Subscribe, Unsubscribe, ChannelInv
  <2>3. BroadcastInv'
    BY <2>1, Quiet DEF BroadcastInv, Sending
  <2>4. QED
    BY <2>2, <2>3
<1>6. ASSUME NEW c \in Clients,
             ReadSnapshot(c) \/ WriteInitial(c) \/ Receive(c) \/ Disconnect(c)
      PROVE  BroadcastInv' /\ ChannelInv'
  BY <1>6, BroadcastKept DEF ReadSnapshot, WriteInitial, Receive, Disconnect, pub
<1>7. ASSUME CloseSubscribers PROVE BroadcastInv' /\ ChannelInv'
  <2>1. /\ UNCHANGED <<subscribersMu, pc, left, cur>> /\ subscribersMu = Nobody
        /\ subscribers' = {}
    BY <1>7 DEF CloseSubscribers, pub
  <2>2. BroadcastInv'
    BY <2>1, Quiet DEF BroadcastInv, Sending
  <2>3. QED
    BY <2>1, <2>2 DEF ChannelInv
<1>8. UNCHANGED vars => BroadcastInv' /\ ChannelInv'
  BY BroadcastKept DEF vars, pub
<1>9. QED
  BY <1>1, <1>2, <1>3, <1>4, <1>5, <1>6, <1>7, <1>8 DEF Next, Publish, Stream

LEMMA BroadcastAlways == Spec => [](BroadcastInv /\ ChannelInv)
BY BroadcastInit, BroadcastStep, TypeCorrect, PTL DEF Spec

(* However streams end and whenever the server closes, broadcast has only  *)
(* open channels left to serve, with or without status tickers.            *)
THEOREM NoSendPanics == Spec => []NoSendOnClosedChannel
<1>1. BroadcastInv /\ ChannelInv => NoSendOnClosedChannel
  BY DEF BroadcastInv, ChannelInv, NoSendOnClosedChannel
<1>2. QED
  BY <1>1, BroadcastAlways, PTL
-----------------------------------------------------------------------------
(* Idle pages are current *)

LEMMA RefreshInit == Init => RefreshInv
BY ConstantsAssumption DEF Init, RefreshInv, Publishers

LEMMA RefreshStep == TypeOK /\ RefreshInv /\ [Next]_vars => RefreshInv'
<1> SUFFICES ASSUME TypeOK, RefreshInv, [Next]_vars PROVE RefreshInv'
  OBVIOUS
<1>1. ASSUME NEW p \in Publishers, Rebuild(p) \/ SetSyncStatus(p) PROVE RefreshInv'
  <2>1. /\ p \in Syncs => refreshMu = Nobody /\ refreshMu' = p
        /\ p \notin Syncs => refreshMu' = refreshMu
        /\ pc'[p] # "idle" /\ \A q \in Publishers \ {p} : pc'[q] = pc[q]
    BY <1>1 DEF Rebuild, SetSyncStatus, Enter, Goto, TypeOK
  <2>2. QED
    BY <2>1, ConstantsAssumption DEF RefreshInv, Publishers
<1>2. ASSUME NEW p \in Publishers,
             GetSnapshot(p) \/ Broadcast(p) \/ Offer(p) \/ Drain(p) \/ Retry(p)
      PROVE  RefreshInv'
  <2>1. /\ pc[p] # "idle" /\ pc'[p] # "idle" /\ refreshMu' = refreshMu
        /\ \A q \in Publishers \ {p} : pc'[q] = pc[q]
    BY <1>2 DEF GetSnapshot, Broadcast, Offer, Drain, Retry, Served, Goto, TypeOK
  <2>2. QED
    BY <2>1 DEF RefreshInv, Publishers
<1>3. ASSUME NEW p \in Publishers, EndBroadcast(p) PROVE RefreshInv'
  <2>1. /\ pc[p] # "idle" /\ pc'[p] = "idle"
        /\ refreshMu' = IF refreshMu = p THEN Nobody ELSE refreshMu
        /\ \A q \in Publishers \ {p} : pc'[q] = pc[q]
    BY <1>3 DEF EndBroadcast, Goto, TypeOK
  <2>2. QED
    BY <2>1, ConstantsAssumption DEF RefreshInv, Publishers
<1>4. ASSUME NEW c \in Clients, Subscribe(c) \/ Disconnect(c) \/ Stream(c) PROVE RefreshInv'
  BY <1>4 DEF Subscribe, Disconnect, Stream, ReadSnapshot, WriteInitial, Receive, Unsubscribe,
     pub, RefreshInv
<1>5. CloseSubscribers \/ UNCHANGED vars => RefreshInv'
  BY DEF CloseSubscribers, vars, pub, RefreshInv
<1>6. QED
  BY <1>1, <1>2, <1>3, <1>4, <1>5 DEF Next, Publish

LEMMA RefreshAlways == Spec => []RefreshInv
BY RefreshInit, RefreshStep, TypeCorrect, PTL DEF Spec

(* refreshMu lets one publisher in. *)
LEMMA Single ==
    ASSUME RefreshInv, NEW p \in Syncs, NEW q \in Syncs, pc[p] # "idle", pc[q] # "idle"
    PROVE  p = q
BY DEF RefreshInv

LEMMA DeliveringIsBusy ==
    ASSUME BroadcastInv, NEW p \in Syncs, NEW c, Delivering(p, c)
    PROVE  pc[p] # "idle"
BY DEF BroadcastInv, Delivering, Sending, Publishers

LEMMA DeliveryInit == Init => PatchInv /\ DeliveryInv
BY DEF Init, PatchInv, DeliveryInv, Sending, Publishers

LEMMA DeliveryPublish ==
    ASSUME Tickers = {}, TypeOK, BroadcastInv, RefreshInv, PatchInv, DeliveryInv,
           NEW p \in Syncs, Rebuild(p) \/ SetSyncStatus(p) \/ Publish(p)
    PROVE  PatchInv' /\ DeliveryInv'
<1>p. p \in Publishers
  BY DEF Publishers
<1>1. CASE Rebuild(p) \/ SetSyncStatus(p)
  <2>1. /\ \A q \in Syncs \ {p} : pc'[q] = "idle"
        /\ pc'[p] = "get" \/ (pc'[p] = "built" /\ patch'[p] = version')
    BY <1>1, <1>p, ConstantsAssumption
       DEF Rebuild, SetSyncStatus, Enter, Goto, TypeOK, RefreshInv, Publishers
  <2>2. PatchInv'
    BY <2>1 DEF PatchInv, Sending
  <2>3. DeliveryInv'
    BY <2>1 DEF DeliveryInv, Delivering
  <2>4. QED
    BY <2>2, <2>3
<1> SUFFICES ASSUME Publish(p) PROVE PatchInv' /\ DeliveryInv'
  BY <1>1
<1>2. /\ pc[p] # "idle" /\ version' = version /\ UNCHANGED <<subscribers, client>>
      /\ \A q \in Syncs \ {p} : pc'[q] = pc[q]
  BY <1>p DEF Publish, GetSnapshot, Broadcast, Offer, Drain, Retry, Served, EndBroadcast,
     Goto, TypeOK, Publishers
<1>3. \A q \in Syncs \ {p} : pc[q] = "idle"
  BY <1>2, Single
<1>4. \A c \in subscribers : UpToDate(c) \/ Delivering(p, c)
  BY <1>3, DeliveringIsBusy DEF DeliveryInv
<1>5. CASE GetSnapshot(p) \/ Broadcast(p)
  <2>1. /\ chan' = chan /\ \A c \in subscribers : Delivering(p, c)'
        /\ pc'[p] \in {"built", "push"} /\ patch'[p] = version
    BY <1>2, <1>p, <1>5 DEF GetSnapshot, Broadcast, Goto, TypeOK, PatchInv, Delivering, Publishers
  <2>2. PatchInv'
    BY <1>2, <1>3, <2>1 DEF PatchInv, Sending
  <2>3. DeliveryInv'
    BY <1>2, <2>1 DEF DeliveryInv
  <2>4. QED
    BY <2>2, <2>3
<1>6. CASE Offer(p) \/ Drain(p) \/ Retry(p)
  <2>1. PICK c \in left[p] :
          /\ pc'[p] \in Sending /\ pc[p] \in Sending /\ patch' = patch
          /\ \/ chan' = [chan EXCEPT ![c] = patch[p]] /\ left'[p] = left[p] \ {c}
                /\ pc'[p] = "push"
             \/ chan' = [chan EXCEPT ![c] = 0] /\ left'[p] = left[p]
                /\ pc'[p] = "retry" /\ cur'[p] = c
             \/ chan' = chan /\ left'[p] = left[p] /\ pc'[p] = "drain"
    <3>1. CASE Offer(p)
      BY <1>p, <3>1 DEF Offer, Served, Goto, TypeOK, Sending
    <3>2. CASE Drain(p)
      BY <1>p, <3>2 DEF Drain, Goto, TypeOK, Sending, BroadcastInv
    <3>3. CASE Retry(p)
      <4>1. cur[p] \in left[p] /\ chan[cur[p]] = 0
        BY <1>p, <3>3 DEF Retry, BroadcastInv, PatchInv
      <4>2. QED
        BY <1>p, <3>3, <4>1 DEF Retry, Served, Goto, TypeOK, Sending
    <3>4. QED
      BY <1>6, <3>1, <3>2, <3>3
  <2>2. c \in Clients /\ patch[p] = version
    BY <1>p, <2>1 DEF TypeOK, PatchInv
  <2>3. PatchInv'
    BY <1>2, <1>3, <2>1, <2>2 DEF PatchInv, Sending, TypeOK
  <2>4. ASSUME NEW d \in subscribers PROVE UpToDate(d)' \/ Delivering(p, d)'
    <3>1. CASE d = c
      BY <1>2, <2>1, <2>2, <3>1 DEF UpToDate, Delivering, TypeOK
    <3>2. CASE d # c
      <4>1. chan'[d] = chan[d] /\ (d \in left[p] <=> d \in left'[p])
        BY <2>1, <2>2, <3>2 DEF TypeOK
      <4>2. UpToDate(d) => UpToDate(d)'
        BY <1>2, <4>1 DEF UpToDate, client
      <4>3. Delivering(p, d) => Delivering(p, d)'
        BY <2>1, <4>1 DEF Delivering, Sending
      <4>4. QED
        BY <1>4, <4>2, <4>3
    <3>3. QED
      BY <3>1, <3>2
  <2>5. QED
    BY <1>2, <2>3, <2>4 DEF DeliveryInv
<1>7. CASE EndBroadcast(p)
  <2>1. /\ pc[p] = "push" /\ left[p] = {} /\ chan' = chan /\ pc'[p] = "idle"
    BY <1>p, <1>7 DEF EndBroadcast, Goto, TypeOK
  <2>2. PatchInv'
    BY <1>2, <1>3, <2>1 DEF PatchInv, Sending
  <2>3. \A c \in subscribers : UpToDate(c)
    BY <1>4, <2>1 DEF Delivering
  <2>4. DeliveryInv'
    BY <1>2, <2>1, <2>3 DEF DeliveryInv, UpToDate, client
  <2>5. QED
    BY <2>2, <2>4
<1>8. QED
  BY <1>5, <1>6, <1>7 DEF Publish

LEMMA DeliveryStream ==
    ASSUME TypeOK, BroadcastInv, ChannelInv, PatchInv, DeliveryInv,
           NEW c \in Clients, Subscribe(c) \/ Disconnect(c) \/ Stream(c)
    PROVE  PatchInv' /\ DeliveryInv'
<1>1. UNCHANGED <<version, pub>> /\ subscribers' \subseteq subscribers \cup {c}
  BY DEF Subscribe, Disconnect, Stream, ReadSnapshot, WriteInitial, Receive, Unsubscribe
<1>2. /\ \A d \in Clients \ {c} : /\ chan'[d] = chan[d] /\ stream'[d] = stream[d]
                                  /\ held'[d] = held[d] /\ page'[d] = page[d]
      /\ chan'[c] \in {chan[c], 0}
  BY DEF Subscribe, Disconnect, Stream, ReadSnapshot, WriteInitial, Receive, Unsubscribe, TypeOK
<1>3. PatchInv'
  <2>1. ASSUME NEW p \in Syncs, pc[p] = "retry" PROVE chan'[cur[p]] = 0
    <3>1. cur[p] \in Clients /\ chan[cur[p]] = 0
      BY <2>1 DEF BroadcastInv, PatchInv, TypeOK, Publishers
    <3>2. QED
      BY <1>2, <3>1
  <2>2. QED
    BY <1>1, <2>1 DEF PatchInv, pub
<1>4. ASSUME NEW d \in subscribers', d # c
      PROVE  d \in subscribers /\ (UpToDate(d) => UpToDate(d)')
  <2>1. d \in subscribers /\ d \in Clients
    BY <1>1, <1>4 DEF TypeOK
  <2>2. QED
    BY <1>1, <1>2, <1>4, <2>1 DEF UpToDate
<1>5. ASSUME c \in subscribers'
      PROVE  Subscribe(c) \/ c \in subscribers
  BY <1>5 DEF Subscribe, Disconnect, Stream, ReadSnapshot, WriteInitial, Receive, Unsubscribe
<1>6. Subscribe(c) => UpToDate(c)'
  BY DEF Subscribe, UpToDate, TypeOK
<1>7. ASSUME c \in subscribers', c \in subscribers, UpToDate(c) PROVE UpToDate(c)'
  <2>1. CASE Subscribe(c)
    BY <1>6, <2>1
  <2>2. CASE ReadSnapshot(c)
    BY <1>7, <2>2 DEF ReadSnapshot, UpToDate, TypeOK
  <2>3. CASE WriteInitial(c)
    BY <1>7, <2>3 DEF WriteInitial, UpToDate, TypeOK
  <2>4. CASE Receive(c)
    <3>1. c \notin closed
      BY <1>7 DEF ChannelInv
    <3>2. /\ stream[c] = "loop" /\ chan[c] # 0 /\ page'[c] = chan[c] /\ chan'[c] = 0
          /\ stream'[c] = "loop" /\ version' = version
      BY <2>4, <3>1 DEF Receive, TypeOK
    <3>3. QED
      BY <1>7, <3>2 DEF UpToDate
  <2>5. CASE Disconnect(c)
    BY <1>7, <2>5 DEF Disconnect, UpToDate, TypeOK
  <2>6. CASE Unsubscribe(c)
    BY <1>7, <2>6 DEF Unsubscribe
  <2>7. QED
    BY <2>1, <2>2, <2>3, <2>4, <2>5, <2>6 DEF Stream
<1>8. \A p \in Syncs : \A d \in Clients : Delivering(p, d) => Delivering(p, d)'
  BY <1>1 DEF Delivering, pub
<1>9. \A d \in subscribers' : UpToDate(d)' \/ \E p \in Syncs : Delivering(p, d)'
  <2> SUFFICES ASSUME NEW d \in subscribers'
               PROVE  UpToDate(d)' \/ \E p \in Syncs : Delivering(p, d)'
    OBVIOUS
  <2>1. CASE d # c
    BY <1>4, <1>8, <2>1 DEF DeliveryInv, TypeOK
  <2>2. CASE d = c
    BY <1>5, <1>6, <1>7, <1>8, <2>2 DEF DeliveryInv
  <2>3. QED
    BY <2>1, <2>2
<1>10. QED
  BY <1>3, <1>9 DEF DeliveryInv

LEMMA LiveStep ==
    ASSUME Tickers = {}
    PROVE  TypeOK /\ LiveInv /\ [Next]_vars => PatchInv' /\ DeliveryInv'
<1> SUFFICES ASSUME TypeOK, LiveInv, [Next]_vars PROVE PatchInv' /\ DeliveryInv'
  OBVIOUS
<1>i. BroadcastInv /\ ChannelInv /\ RefreshInv /\ PatchInv /\ DeliveryInv
  BY DEF LiveInv
<1>1. ASSUME NEW p \in Publishers, Rebuild(p) \/ SetSyncStatus(p) \/ Publish(p)
      PROVE  PatchInv' /\ DeliveryInv'
  BY <1>i, <1>1, DeliveryPublish DEF Publishers
<1>2. ASSUME NEW c \in Clients, Subscribe(c) \/ Disconnect(c) \/ Stream(c)
      PROVE  PatchInv' /\ DeliveryInv'
  BY <1>i, <1>2, DeliveryStream
<1>3. CloseSubscribers => PatchInv' /\ DeliveryInv'
  BY <1>i DEF CloseSubscribers, PatchInv, DeliveryInv, pub
<1>4. UNCHANGED vars => PatchInv' /\ DeliveryInv'
  BY <1>i DEF vars, pub, client, PatchInv, DeliveryInv, UpToDate, Delivering
<1>5. QED
  BY <1>1, <1>2, <1>3, <1>4 DEF Next

(* The newest patch is never the one that is dropped: it is in the stream's*)
(* channel, or still to be delivered, or already on the page.              *)
THEOREM PatchesAreDelivered == ASSUME Tickers = {} PROVE Spec => []LiveInv
<1>1. Init => LiveInv
  BY BroadcastInit, RefreshInit, DeliveryInit DEF LiveInv
<1>2. TypeOK /\ LiveInv /\ [Next]_vars => LiveInv'
  BY BroadcastStep, RefreshStep, LiveStep DEF LiveInv
<1>3. QED
  BY <1>1, <1>2, TypeCorrect, PTL DEF Spec

(* Without status tickers, an open page with nothing left to receive shows *)
(* the current snapshot whenever nobody is publishing.                     *)
THEOREM IdleIsCurrent == ASSUME Tickers = {} PROVE Spec => []IdlePagesAreCurrent
<1>1. LiveInv /\ TypeOK => IdlePagesAreCurrent
  <2> SUFFICES ASSUME LiveInv, TypeOK, \A p \in Publishers : pc[p] = "idle",
                      NEW c \in subscribers, stream[c] = "loop", chan[c] = 0
               PROVE  page[c] = version
    BY DEF IdlePagesAreCurrent
  <2>1. UpToDate(c)
    BY DeliveringIsBusy DEF LiveInv, DeliveryInv, Publishers
  <2>2. QED
    BY <2>1 DEF UpToDate, TypeOK
<1>2. QED
  BY <1>1, PatchesAreDelivered, TypeCorrect, PTL
=============================================================================
