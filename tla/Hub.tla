-------------------------------- MODULE Hub --------------------------------
(***************************************************************************)
(* The WebSocket hub, src/orchestrator/websocket/hub.go, for one scan.     *)
(* Each client has a buffered channel and two goroutines, its pumps.  The  *)
(* handlers and goroutines that report progress call Broadcast, which      *)
(* ranges over the scan's map of clients after it gave up the lock.        *)
(*                                                                         *)
(* A panic in a pump or in a goroutine of the program ends the process; in *)
(* a request handler chi's Recoverer catches it and only the handler ends. *)
(* The unlocked range is a data race with every change of the map: the     *)
(* runtime may notice, which ends the process, or go on.                   *)
(***************************************************************************)
EXTENDS Integers, Sequences

CONSTANTS
  Client,     \* the connections that will be made
  Handler,    \* callers of Broadcast that are request handlers
  Goroutine,  \* callers of Broadcast that are not: StartScan's dispatch
  Capacity,   \* of a client's channel: 256 in the code
  MaxCasts    \* how many calls they make in all: a bound of the model

ASSUME HubAssumption ==
  /\ Capacity \in Nat \ {0}
  /\ MaxCasts \in Nat
  /\ Handler \cap Goroutine = {}

Caster == Handler \cup Goroutine

VARIABLES
  members,  \* h.clients[scanID]; the key is absent when it is empty
  epoch,    \* which map that is: an empty one is deleted, not refilled
  send,     \* send[c]: the channel's buffer, oldest first
  closed,   \* closed[c]: the channel is closed
  conn,     \* conn[c]: the connection; "gone" when the peer has left
  writer,   \* writer[c]: the write pump
  reader,   \* reader[c]: the read pump
  cast,     \* cast[b]: the Broadcast that b is in
  calls,    \* calls[b]: how many it has made
  made,     \* and all callers together
  down,     \* the process has ended by a panic
  sent      \* sent[c]: what was put in the channel; a history variable

clientVars == <<members, epoch, closed, conn, writer, reader>>
vars == <<members, epoch, send, closed, conn, writer, reader, cast, calls, made, down, sent>>

Event == Caster \X (1..MaxCasts)
Idle == [pc |-> "idle"]

(* Where a Broadcast is in its range: which map it got, whom it has dealt  *)
(* with, and who was a client when it began.                               *)
CastState == {Idle} \cup
  [pc : {"range"}, epoch : Nat, seen : SUBSET Client, to : SUBSET Client] \cup
  [pc : {"send", "drop"}, epoch : Nat, seen : SUBSET Client, to : SUBSET Client, client : Client]

TypeOK ==
  /\ members \subseteq Client
  /\ epoch \in Nat
  /\ send \in [Client -> Seq(Event)]
  /\ \A c \in Client : Len(send[c]) <= Capacity
  /\ closed \in [Client -> BOOLEAN]
  /\ conn \in [Client -> {"new", "open", "gone", "closed"}]
  /\ writer \in [Client -> {"off", "receive", "leave", "done"}]
  /\ reader \in [Client -> {"off", "read", "leave", "done"}]
  /\ cast \in [Caster -> CastState]
  /\ calls \in [Caster -> 0..MaxCasts]
  /\ made \in 0..MaxCasts
  /\ down \in BOOLEAN
  /\ sent \in [Client -> Seq(Event)]

Init ==
  /\ members = {}
  /\ epoch = 0
  /\ send = [c \in Client |-> <<>>]
  /\ closed = [c \in Client |-> FALSE]
  /\ conn = [c \in Client |-> "new"]
  /\ writer = [c \in Client |-> "off"]
  /\ reader = [c \in Client |-> "off"]
  /\ cast = [b \in Caster |-> Idle]
  /\ calls = [b \in Caster |-> 0]
  /\ made = 0
  /\ down = FALSE
  /\ sent = [c \in Client |-> <<>>]

(* b ranges over the map the scan has now: not over one that was emptied   *)
(* since, nor over the nil map of a scan that had no client.               *)
InThisMap(b) == cast[b].epoch = epoch /\ cast[b].to # {}

(* A change of the map by `by`: the runtime may find another goroutine in  *)
(* its range.                                                              *)
MapWritten(by) ==
  down' \in {FALSE} \cup {TRUE : b \in {b \in Caster \ by : cast[b].pc = "range" /\ InThisMap(b)}}

(* close(c.send) panics when somebody else unregistered c and the scan has *)
(* clients left.                                                           *)
Panics(c) == members # {} /\ closed[c]
-----------------------------------------------------------------------------
(* A defective unregister that leaves the client in the map.               *)
UnregisterForgets(c, by) ==
  /\ closed' = [closed EXCEPT ![c] = TRUE]
  /\ conn' = [conn EXCEPT ![c] = "closed"]
  /\ UNCHANGED <<members, epoch, down>>

(* unregister, which does not panic.                                       *)
Unregister(c, by) ==
  /\ ~Panics(c)
  /\ IF members = {}
     THEN UNCHANGED <<members, epoch, closed, down>>
     ELSE /\ members' = members \ {c}
          /\ epoch' = IF members \subseteq {c} THEN epoch + 1 ELSE epoch
          /\ closed' = [closed EXCEPT ![c] = TRUE]
          /\ MapWritten(by)
  /\ conn' = [conn EXCEPT ![c] = "closed"]

(* Upgrade: register, under the lock, and the two pumps.                   *)
Upgrade(c) ==
  /\ conn[c] = "new"
  /\ conn' = [conn EXCEPT ![c] = "open"]
  /\ members' = members \cup {c}
  /\ MapWritten({})
  /\ writer' = [writer EXCEPT ![c] = "receive"]
  /\ reader' = [reader EXCEPT ![c] = "read"]
  /\ UNCHANGED <<epoch, send, closed, cast, calls, made, sent>>

(* The peer closes the connection, or the network does.                    *)
PeerLeaves(c) ==
  /\ conn[c] = "open"
  /\ conn' = [conn EXCEPT ![c] = "gone"]
  /\ UNCHANGED <<members, epoch, send, closed, writer, reader, cast, calls, made, down, sent>>

(* writePump takes a message and writes it; to a peer that has left the    *)
(* write may still succeed.                                                *)
Write(c) ==
  /\ writer[c] = "receive"
  /\ send[c] # <<>>
  /\ send' = [send EXCEPT ![c] = Tail(@)]
  /\ \/ conn[c] # "closed" /\ UNCHANGED writer
     \/ conn[c] # "open" /\ writer' = [writer EXCEPT ![c] = "leave"]
  /\ UNCHANGED <<members, epoch, closed, conn, reader, cast, calls, made, down, sent>>

(* Its range over the channel ends when that is closed and drained.        *)
WriteEnds(c) ==
  /\ writer[c] = "receive"
  /\ send[c] = <<>> /\ closed[c]
  /\ writer' = [writer EXCEPT ![c] = "leave"]
  /\ UNCHANGED <<members, epoch, send, closed, conn, reader, cast, calls, made, down, sent>>

(* ReadMessage returns an error.                                           *)
ReadFails(c) ==
  /\ reader[c] = "read"
  /\ conn[c] \in {"gone", "closed"}
  /\ reader' = [reader EXCEPT ![c] = "leave"]
  /\ UNCHANGED <<members, epoch, send, closed, conn, writer, cast, calls, made, down, sent>>

(* A pump's deferred unregister.                                           *)
WriterLeaves(c) ==
  /\ writer[c] = "leave"
  /\ Unregister(c, {})
  /\ writer' = [writer EXCEPT ![c] = "done"]
  /\ UNCHANGED <<send, reader, cast, calls, made, sent>>

(* A defective read pump that returns without unregistering.               *)
ReaderLeavesSilently(c) ==
  /\ reader[c] = "leave"
  /\ reader' = [reader EXCEPT ![c] = "done"]
  /\ UNCHANGED <<members, epoch, send, closed, conn, writer, cast, calls, made, down, sent>>

ReaderLeaves(c) ==
  /\ reader[c] = "leave"
  /\ Unregister(c, {})
  /\ reader' = [reader EXCEPT ![c] = "done"]
  /\ UNCHANGED <<send, writer, cast, calls, made, sent>>

(* The second pump to leave closes the channel again: nobody recovers.     *)
PumpPanics(c) ==
  /\ writer[c] = "leave" \/ reader[c] = "leave"
  /\ Panics(c)
  /\ down' = TRUE
  /\ UNCHANGED <<clientVars, send, cast, calls, made, sent>>
-----------------------------------------------------------------------------
(* Broadcast: the map is read under the read lock.                         *)
CastBegins(b) ==
  /\ cast[b] = Idle
  /\ made < MaxCasts
  /\ made' = made + 1
  /\ calls' = [calls EXCEPT ![b] = @ + 1]
  /\ cast' = [cast EXCEPT ![b] =
       [pc |-> "range", epoch |-> epoch, seen |-> {}, to |-> members]]
  /\ UNCHANGED <<clientVars, send, down, sent>>

(* The clients the range can still produce: those in the map it got.       *)
InRange(b) == IF InThisMap(b) THEN members \ cast[b].seen ELSE {}

CastPicks(b) ==
  /\ cast[b].pc = "range"
  /\ \E c \in InRange(b) :
       cast' = [cast EXCEPT ![b] = [pc |-> "send", epoch |-> @.epoch, seen |-> @.seen,
                                    to |-> @.to, client |-> c]]
  /\ UNCHANGED <<clientVars, send, calls, made, down, sent>>

(* A defective range that may come back to a client.                       *)
NextInRangeAgain(b) ==
  cast' = [cast EXCEPT ![b] =
    [pc |-> "range", epoch |-> @.epoch, seen |-> @.seen, to |-> @.to]]

(* The next step of the range, with the client dealt with.                 *)
NextInRange(b) ==
  cast' = [cast EXCEPT ![b] =
    [pc |-> "range", epoch |-> @.epoch, seen |-> @.seen \cup {@.client}, to |-> @.to]]

(* A defective send that does not wait for room in the channel.            *)
CastSendsUnbounded(b) ==
  /\ cast[b].pc = "send"
  /\ LET c == cast[b].client  event == <<b, calls[b]>> IN
       /\ ~closed[c]
       /\ send' = [send EXCEPT ![c] = Append(@, event)]
       /\ sent' = [sent EXCEPT ![c] = Append(@, event)]
  /\ NextInRange(b)
  /\ UNCHANGED <<clientVars, calls, made, down>>

CastSends(b) ==
  /\ cast[b].pc = "send"
  /\ LET c == cast[b].client  event == <<b, calls[b]>> IN
       /\ ~closed[c]
       /\ Len(send[c]) < Capacity
       /\ send' = [send EXCEPT ![c] = Append(@, event)]
       /\ sent' = [sent EXCEPT ![c] = Append(@, event)]
  /\ NextInRange(b)
  /\ UNCHANGED <<clientVars, calls, made, down>>

(* A defective default branch that skips a client whose channel is full.   *)
CastSkips(b) ==
  /\ cast[b].pc = "send"
  /\ ~closed[cast[b].client]
  /\ Len(send[cast[b].client]) = Capacity
  /\ NextInRange(b)
  /\ UNCHANGED <<clientVars, send, calls, made, down, sent>>

(* The default branch: the channel is full.                                *)
CastFindsFull(b) ==
  /\ cast[b].pc = "send"
  /\ ~closed[cast[b].client]
  /\ Len(send[cast[b].client]) = Capacity
  /\ cast' = [cast EXCEPT ![b].pc = "drop"]
  /\ UNCHANGED <<clientVars, send, calls, made, down, sent>>

CastDrops(b) ==
  /\ cast[b].pc = "drop"
  /\ Unregister(cast[b].client, {b})
  /\ NextInRange(b)
  /\ UNCHANGED <<send, writer, reader, calls, made, sent>>

(* The range is over when it has produced every client that was in the map *)
(* all along; one that came later may be left out.                         *)
CastReturns(b) ==
  /\ cast[b].pc = "range"
  /\ InRange(b) \cap cast[b].to = {}
  /\ cast' = [cast EXCEPT ![b] = Idle]
  /\ UNCHANGED <<clientVars, send, calls, made, down, sent>>

(* Sending on a closed channel, or closing it again.                       *)
CastPanics(b) ==
  /\ \/ cast[b].pc = "send" /\ closed[cast[b].client]
     \/ cast[b].pc = "drop" /\ Panics(cast[b].client)
  /\ cast' = [cast EXCEPT ![b] = Idle]
  /\ down' = (b \in Goroutine)
  /\ UNCHANGED <<clientVars, send, calls, made, sent>>
-----------------------------------------------------------------------------
PumpStep(c) ==
  \/ Write(c) \/ WriteEnds(c) \/ ReadFails(c)
  \/ WriterLeaves(c) \/ ReaderLeaves(c) \/ PumpPanics(c)

CastStep(b) ==
  \/ CastBegins(b) \/ CastPicks(b) \/ CastSends(b) \/ CastFindsFull(b)
  \/ CastDrops(b) \/ CastReturns(b) \/ CastPanics(b)

(* Nothing is left to do, or nobody to do it.                              *)
Rest ==
  /\ \/ down
     \/ /\ \A c \in Client : conn[c] = "closed" /\ writer[c] = "done" /\ reader[c] = "done"
        /\ \A b \in Caster : cast[b] = Idle
        /\ made = MaxCasts
  /\ UNCHANGED vars

Next ==
  \/ ~down /\ \E c \in Client : Upgrade(c) \/ PeerLeaves(c) \/ PumpStep(c)
  \/ ~down /\ \E b \in Caster : CastStep(b)
  \/ Rest

Spec == Init /\ [][Next]_vars

(* The pumps of a connection that has ended go on: its reads and writes    *)
(* return.  Clients come and leave by chance, a peer that stays may read   *)
(* nothing for ever (writes have no deadline), and callers may be slow.    *)
FairSpec == Spec /\ \A c \in Client : WF_vars(~down /\ conn[c] # "open" /\ PumpStep(c))
-----------------------------------------------------------------------------
(* Whoever finds a client in the map finds its channel open: only a        *)
(* reference taken before unregister leads to a closed one.                *)
MembersOpen == \A c \in members : ~closed[c] /\ conn[c] \in {"open", "gone"}

(* What b broadcasts has been put into the channel of each client that was *)
(* there from the beginning and still is.                                  *)
Reached(b) ==
  \A c \in cast[b].to \cap members : \E i \in DOMAIN sent[c] : sent[c][i] = <<b, calls[b]>>

(* A broadcast that returns has reached them all, whoever came, left or    *)
(* was dropped meanwhile.                                                  *)
NoneSkipped == [][\A b \in Caster : CastReturns(b) => Reached(b)]_vars

(* No client is sent an event twice, and the events of one caller reach it *)
(* in the order of the calls.                                              *)
InCallOrder ==
  \A c \in Client : \A i, j \in DOMAIN sent[c] :
    i < j /\ sent[c][i][1] = sent[c][j][1] => sent[c][i][2] < sent[c][j][2]

(* A peer that leaves is forgotten, with both its pumps.                   *)
LeaversForgotten ==
  \A c \in Client :
    (conn[c] = "gone") ~>
      (down \/ (c \notin members /\ writer[c] = "done" /\ reader[c] = "done"))

(* hub.go:57 "Broadcast sends an event to all clients subscribed to a      *)
(* scan."                                                                  *)
BroadcastReachesAll ==
  [][\A b \in Caster : CastReturns(b) \/ CastPanics(b) => Reached(b)]_vars
=============================================================================
