---------------------------- MODULE LiveUpdates ----------------------------
(***************************************************************************)
(* How a new snapshot reaches the open pages: setSyncStatus,               *)
(* rebuildSnapshot and broadcast (go/web_mode.go) on one side, the         *)
(* GET /events handler (go/internal/http/dashboard_mux.go) on the other,   *)
(* with a channel of capacity one per open stream between them.            *)
(*                                                                         *)
(* Abstractions.  The snapshot with its sync statuses is a version number, *)
(* and so is a patch rendered from it; 0 is an empty channel.  Heartbeats  *)
(* and the indicator patches carry no snapshot and are left out, as is the *)
(* quiet status change, which is not broadcast.  A sync action publishes   *)
(* several times under one hold of refreshMu; each time is a hold here.    *)
(***************************************************************************)
EXTENDS Integers

CONSTANTS
    Clients,     \* pages, each with at most one /events stream
    Syncs,       \* goroutines that publish while they hold refreshMu
    Tickers,     \* status tickers of the streaming modes: without refreshMu
    MaxVersion,  \* bound on the versions
    Nobody

Publishers == Syncs \cup Tickers

ASSUME ConstantsAssumption ==
    /\ Syncs \cap Tickers = {}
    /\ Nobody \notin Publishers \cup Clients
    /\ MaxVersion \in Nat \ {0}

VARIABLES
    version,       \* the snapshot
    refreshMu,     \* its holder, or Nobody
    subscribersMu, \* its holder, or Nobody
    subscribers,   \* the clients whose channel is in the map
    chan,          \* chan[c]: the patch in c's channel, 0 for none
    closed,        \* the clients whose channel is closed
    stream,        \* where the handler of each client's stream is
    held,          \* the snapshot a handler has read for its first patch
    page,          \* what each page shows
    pc,            \* where each publisher is
    patch,         \* the patch it broadcasts,
    left,          \* the subscribers it has still to serve, and
    cur            \* the one that it is serving

pub    == <<pc, patch, left, cur>>
client == <<stream, held, page>>
vars   == <<version, refreshMu, subscribersMu, subscribers, chan, closed,
            client, pub>>

Handlers == {"away", "attached", "initial", "loop", "leaving"}
PCs      == {"idle", "get", "built", "push", "drain", "retry"}

Init ==
    /\ version = 1
    /\ refreshMu = Nobody /\ subscribersMu = Nobody
    /\ subscribers = {} /\ closed = {}
    /\ chan = [c \in Clients |-> 0]
    /\ stream = [c \in Clients |-> "away"]
    /\ held = [c \in Clients |-> 0]
    /\ page = [c \in Clients |-> 0]
    /\ pc = [p \in Publishers |-> "idle"]
    /\ patch = [p \in Publishers |-> 0]
    /\ left = [p \in Publishers |-> {}]
    /\ cur = [p \in Publishers |-> Nobody]

Goto(p, label) == pc' = [pc EXCEPT ![p] = label]

-----------------------------------------------------------------------------
(* Publishing *)

(* The lock a publisher needs: a sync's refreshMu, a ticker's none. *)
Enter(p) ==
    /\ pc[p] = "idle"
    /\ p \in Syncs => refreshMu = Nobody
    /\ refreshMu' = IF p \in Syncs THEN p ELSE refreshMu

(* rebuildSnapshot: the snapshot is replaced, and its patch is rendered    *)
(* from the very payload.                                                  *)
Rebuild(p) ==
    /\ p \in Syncs
    /\ Enter(p)
    /\ version < MaxVersion
    /\ version' = version + 1
    /\ patch' = [patch EXCEPT ![p] = version + 1]
    /\ Goto(p, "built")
    /\ UNCHANGED <<subscribersMu, subscribers, chan, closed, client, left, cur>>

(* setSyncStatus: the status, which may be what it was, is stored in the   *)
(* snapshot; then the snapshot is fetched again to be rendered.            *)
SetSyncStatus(p) ==
    /\ Enter(p)
    /\ version' \in {version, version + 1} \cap (1..MaxVersion)
    /\ Goto(p, "get")
    /\ UNCHANGED <<subscribersMu, subscribers, chan, closed, client, patch, left, cur>>

GetSnapshot(p) ==
    /\ pc[p] = "get"
    /\ patch' = [patch EXCEPT ![p] = version]
    /\ Goto(p, "built")
    /\ UNCHANGED <<version, refreshMu, subscribersMu, subscribers, chan, closed, client, left, cur>>

(* Mutant: the subscribers are copied, and served without the lock. *)
Broadcast_Copy(p) ==
    /\ pc[p] = "built"
    /\ subscribersMu = Nobody
    /\ left' = [left EXCEPT ![p] = subscribers]
    /\ Goto(p, "push")
    /\ UNCHANGED <<version, refreshMu, subscribersMu, subscribers, chan, closed, client, patch, cur>>

Broadcast(p) ==
    /\ pc[p] = "built"
    /\ subscribersMu = Nobody
    /\ subscribersMu' = p
    /\ left' = [left EXCEPT ![p] = subscribers]
    /\ Goto(p, "push")
    /\ UNCHANGED <<version, refreshMu, subscribers, chan, closed, client, patch, cur>>

Served(p, c) ==
    /\ left' = [left EXCEPT ![p] = @ \ {c}]
    /\ cur' = [cur EXCEPT ![p] = Nobody]
    /\ Goto(p, "push")

(* Mutant: a full channel keeps what it has. *)
Offer_KeepOld(p) ==
    /\ pc[p] = "push"
    /\ \E c \in left[p] :
          /\ Served(p, c)
          /\ chan' = [chan EXCEPT ![c] = IF @ = 0 THEN patch[p] ELSE @]
    /\ UNCHANGED <<version, refreshMu, subscribersMu, subscribers, closed, client, patch>>

(* pushLatestUpdate, while the handler may be receiving: a send that does  *)
(* not block ...                                                           *)
Offer(p) ==
    /\ pc[p] = "push"
    /\ \E c \in left[p] :
          \/ /\ chan[c] = 0
             /\ chan' = [chan EXCEPT ![c] = patch[p]]
             /\ Served(p, c)
          \/ /\ chan[c] # 0
             /\ cur' = [cur EXCEPT ![p] = c]
             /\ Goto(p, "drain")
             /\ UNCHANGED <<chan, left>>
    /\ UNCHANGED <<version, refreshMu, subscribersMu, subscribers, closed, client, patch>>

(* ... else the old patch is taken out, unless it is gone by now ...       *)
Drain(p) ==
    /\ pc[p] = "drain"
    /\ chan' = [chan EXCEPT ![cur[p]] = 0]
    /\ Goto(p, "retry")
    /\ UNCHANGED <<version, refreshMu, subscribersMu, subscribers, closed, client, patch, left, cur>>

(* ... and the send is tried again, or given up. *)
Retry(p) ==
    /\ pc[p] = "retry"
    /\ chan' = [chan EXCEPT ![cur[p]] = IF @ = 0 THEN patch[p] ELSE @]
    /\ Served(p, cur[p])
    /\ UNCHANGED <<version, refreshMu, subscribersMu, subscribers, closed, client, patch>>

(* Mutant: subscribersMu is kept. *)
EndBroadcast_NoUnlock(p) ==
    /\ pc[p] = "push"
    /\ left[p] = {}
    /\ refreshMu' = IF refreshMu = p THEN Nobody ELSE refreshMu
    /\ Goto(p, "idle")
    /\ UNCHANGED <<version, subscribersMu, subscribers, chan, closed, client, patch, left, cur>>

EndBroadcast(p) ==
    /\ pc[p] = "push"
    /\ left[p] = {}
    /\ subscribersMu' = Nobody
    /\ refreshMu' = IF refreshMu = p THEN Nobody ELSE refreshMu
    /\ Goto(p, "idle")
    /\ patch' = [patch EXCEPT ![p] = 0]
    /\ UNCHANGED <<version, subscribers, chan, closed, client, left, cur>>

-----------------------------------------------------------------------------
(* GET /events *)

(* subscribe: a new channel; the page still shows what it showed.          *)
Subscribe(c) ==
    /\ stream[c] = "away"
    /\ subscribersMu = Nobody
    /\ subscribers' = subscribers \cup {c}
    /\ closed' = closed \ {c}
    /\ chan' = [chan EXCEPT ![c] = 0]
    /\ stream' = [stream EXCEPT ![c] = "attached"]
    /\ UNCHANGED <<version, refreshMu, subscribersMu, held, page, pub>>

(* The stream starts with the current snapshot, read here ... *)
ReadSnapshot(c) ==
    /\ stream[c] = "attached"
    /\ held' = [held EXCEPT ![c] = version]
    /\ stream' = [stream EXCEPT ![c] = "initial"]
    /\ UNCHANGED <<version, refreshMu, subscribersMu, subscribers, chan, closed, page, pub>>

(* ... and written here. *)
WriteInitial(c) ==
    /\ stream[c] = "initial"
    /\ page' = [page EXCEPT ![c] = held[c]]
    /\ held' = [held EXCEPT ![c] = 0]
    /\ stream' = [stream EXCEPT ![c] = "loop"]
    /\ UNCHANGED <<version, refreshMu, subscribersMu, subscribers, chan, closed, pub>>

(* A patch is received and written; a closed, empty channel ends the stream. *)
Receive(c) ==
    /\ stream[c] = "loop"
    /\ \/ /\ chan[c] # 0
          /\ page' = [page EXCEPT ![c] = chan[c]]
          /\ chan' = [chan EXCEPT ![c] = 0]
          /\ UNCHANGED stream
       \/ /\ chan[c] = 0 /\ c \in closed
          /\ stream' = [stream EXCEPT ![c] = "leaving"]
          /\ UNCHANGED <<chan, page>>
    /\ UNCHANGED <<version, refreshMu, subscribersMu, subscribers, closed, held, pub>>

(* The page goes away, or a write to it fails. *)
Disconnect(c) ==
    /\ stream[c] \in {"attached", "initial", "loop"}
    /\ stream' = [stream EXCEPT ![c] = "leaving"]
    /\ held' = [held EXCEPT ![c] = 0]
    /\ UNCHANGED <<version, refreshMu, subscribersMu, subscribers, chan, closed, page, pub>>

(* The deferred unsubscribe closes the channel, unless closeSubscribers    *)
(* has.                                                                    *)
Unsubscribe(c) ==
    /\ stream[c] = "leaving"
    /\ subscribersMu = Nobody
    /\ subscribers' = subscribers \ {c}
    /\ closed' = closed \cup {c}
    /\ stream' = [stream EXCEPT ![c] = "away"]
    /\ UNCHANGED <<version, refreshMu, subscribersMu, chan, held, page, pub>>

(* close() ends every stream; goroutines under way may publish after it.   *)
CloseSubscribers ==
    /\ subscribers # {}
    /\ subscribersMu = Nobody
    /\ closed' = closed \cup subscribers
    /\ subscribers' = {}
    /\ UNCHANGED <<version, refreshMu, subscribersMu, chan, client, pub>>

-----------------------------------------------------------------------------
Publish(p) ==
    \/ GetSnapshot(p) \/ Broadcast(p) \/ Offer(p) \/ Drain(p) \/ Retry(p)
    \/ EndBroadcast(p)

Stream(c) == ReadSnapshot(c) \/ WriteInitial(c) \/ Receive(c) \/ Unsubscribe(c)

Next ==
    \/ \E p \in Publishers : Rebuild(p) \/ SetSyncStatus(p) \/ Publish(p)
    \/ \E c \in Clients : Subscribe(c) \/ Disconnect(c) \/ Stream(c)
    \/ CloseSubscribers

Spec == Init /\ [][Next]_vars

(* Goroutines go on, a mutex is granted in the end, and the status tickers *)
(* tick.  No sync has to happen, and no page has to connect or to stay.    *)
Fairness ==
    /\ \A p \in Publishers : SF_vars(Publish(p))
    /\ \A p \in Tickers : WF_vars(SetSyncStatus(p))
    /\ \A c \in Clients : SF_vars(Stream(c))

FairSpec == Spec /\ Fairness
-----------------------------------------------------------------------------
(* Properties *)

(* The values the state of the live updates may have. *)
TypeOK ==
    /\ version \in 1..MaxVersion
    /\ refreshMu \in Syncs \cup {Nobody}
    /\ subscribersMu \in Publishers \cup {Nobody}
    /\ subscribers \in SUBSET Clients
    /\ closed \in SUBSET Clients
    /\ chan \in [Clients -> 0..MaxVersion]
    /\ stream \in [Clients -> Handlers]
    /\ held \in [Clients -> 0..MaxVersion]
    /\ page \in [Clients -> 0..MaxVersion]
    /\ pc \in [Publishers -> PCs]
    /\ patch \in [Publishers -> 0..MaxVersion]
    /\ \A p \in Publishers : pc[p] \notin {"idle", "get"} => patch[p] # 0
    /\ left \in [Publishers -> SUBSET Clients]
    /\ cur \in [Publishers -> Clients \cup {Nobody}]

(* broadcast never sends on a closed channel, which would be a panic,      *)
(* although streams end and the server closes while it iterates.           *)
NoSendOnClosedChannel ==
    \A p \in Publishers : left[p] \cap closed = {}

(* When nobody is publishing and a stream has nothing to receive, its page *)
(* shows the current snapshot: whenever it connected, and however slow it  *)
(* was to read, the newest patch was not the one dropped.                  *)
IdlePagesAreCurrent ==
    (\A p \in Publishers : pc[p] = "idle") =>
        \A c \in subscribers :
            stream[c] = "loop" /\ chan[c] = 0 => page[c] = version

(* With a status ticker, which publishes outside refreshMu and can put an  *)
(* older patch over a newer one, no page stays behind for ever.            *)
PagesCatchUp ==
    \A c \in Clients : []<>(stream[c] = "loop" => page[c] = version)
-----------------------------------------------------------------------------
(* The inductive invariants behind NoSendOnClosedChannel and, when there   *)
(* are no tickers, IdlePagesAreCurrent.                                    *)

Sending == {"push", "drain", "retry"}    \* holding subscribersMu

BroadcastInv ==
    \A p \in Publishers :
        /\ pc[p] \in Sending <=> subscribersMu = p
        /\ left[p] \subseteq subscribers
        /\ pc[p] \notin Sending => left[p] = {}
        /\ pc[p] \in {"drain", "retry"} => cur[p] \in left[p]

ChannelInv == subscribers \cap closed = {}

RefreshInv == \A p \in Syncs : pc[p] # "idle" <=> refreshMu = p

(* Under refreshMu the patch stays the current one until it is sent, and   *)
(* nobody else fills the channel that has been drained.                    *)
PatchInv ==
    \A p \in Syncs :
        /\ pc[p] \in Sending \cup {"built"} => patch[p] = version
        /\ pc[p] = "retry" => chan[cur[p]] = 0

(* What a stream has received, or has still to receive or to read.         *)
UpToDate(c) ==
    \/ chan[c] = version
    \/ /\ chan[c] = 0
       /\ stream[c] = "initial" => held[c] = version
       /\ stream[c] = "loop" => page[c] = version

Delivering(p, c) == pc[p] \in {"get", "built"} \/ c \in left[p]

DeliveryInv ==
    \A c \in subscribers : UpToDate(c) \/ \E p \in Syncs : Delivering(p, c)

LiveInv == BroadcastInv /\ ChannelInv /\ RefreshInv /\ PatchInv /\ DeliveryInv
=============================================================================
