----------------------------- MODULE Hub_proofs -----------------------------
(***************************************************************************)
(* MembersOpen, InCallOrder, NoneSkipped and the types for any clients,    *)
(* callers, capacity and number of calls.  What carries them: a connection *)
(* is new only once, so a client that has left never comes back; a range   *)
(* marks whom it has dealt with; and a map keeps its identity for as long  *)
(* as it has a client.                                                     *)
(***************************************************************************)
EXTENDS Hub, TLAPS

Sending == {"send", "drop"}
Pump == {"off", "receive", "read", "leave", "done"}

Shapes ==
  /\ members \subseteq Client
  /\ epoch \in Nat
  /\ closed \in [Client -> BOOLEAN]
  /\ conn \in [Client -> {"new", "open", "gone", "closed"}]
  /\ writer \in [Client -> Pump] /\ reader \in [Client -> Pump]
  /\ cast \in [Caster -> CastState]
  /\ calls \in [Caster -> Nat]
  /\ sent \in [Client -> Seq(Caster \X Nat)]

(* Nobody has had to do with a connection that is still to be made.        *)
Untouched ==
  \A c \in Client : conn[c] = "new" =>
    /\ ~closed[c] /\ writer[c] = "off" /\ reader[c] = "off"
    /\ \A b \in Caster : /\ cast[b].pc # "idle" => c \notin cast[b].to
                         /\ cast[b].pc \in Sending => c # cast[b].client

(* Events are numbered by call, and who has been sent the one of the call  *)
(* under way has been dealt with.                                          *)
Numbered ==
  /\ \A c \in Client : \A i \in DOMAIN sent[c] :
       LET b == sent[c][i][1] IN
       /\ sent[c][i][2] <= calls[b]
       /\ sent[c][i][2] = calls[b] /\ cast[b].pc # "idle" => c \in cast[b].seen
  /\ \A b \in Caster : cast[b].pc \in Sending => cast[b].client \notin cast[b].seen

(* For a client that was there when a broadcast began and still is, the    *)
(* map is the one it ranges over; once dealt with, it has the event.       *)
Reaching ==
  \A b \in Caster : cast[b].pc # "idle" =>
    \A c \in cast[b].to \cap members :
      /\ cast[b].epoch = epoch
      /\ c \in cast[b].seen => \E i \in DOMAIN sent[c] : sent[c][i] = <<b, calls[b]>>

HubInv == Shapes /\ MembersOpen /\ Untouched /\ Numbered /\ InCallOrder /\ Reaching

---------------------------------------------------------------------------
(* Initially there are no clients, no broadcasts and no events.            *)
LEMMA HubInvInit ==
  ASSUME Init
  PROVE  HubInv
  <1>1. Shapes
    BY DEF Init, Shapes, CastState, Idle, Pump
  <1>2. MembersOpen /\ Untouched /\ Numbered /\ InCallOrder /\ Reaching
    BY DEF Init, MembersOpen, Untouched, Numbered, InCallOrder, Reaching, Idle, Sending
  <1> QED
    BY <1>1, <1>2 DEF HubInv

(* A step of clients: broadcasts and events stay, nobody becomes new, and  *)
(* a map that had one of the members left is still the same.               *)
LEMMA ClientFrame ==
  ASSUME HubInv, UNCHANGED <<cast, calls, sent>>,
         members' \subseteq Client, epoch' \in Nat,
         closed' \in [Client -> BOOLEAN],
         conn' \in [Client -> {"new", "open", "gone", "closed"}],
         writer' \in [Client -> Pump], reader' \in [Client -> Pump],
         MembersOpen',
         \A c \in Client : conn[c]' = "new" =>
           conn[c] = "new" /\ ~closed[c]' /\ writer[c]' = "off" /\ reader[c]' = "off",
         \A c \in members' : (c \in members /\ epoch' = epoch) \/ conn[c] = "new"
  PROVE  HubInv'
  <1>1. Shapes'
    BY DEF HubInv, Shapes
  <1>2. Untouched'
    BY DEF HubInv, Untouched
  <1>3. Numbered' /\ InCallOrder'
    BY DEF HubInv, Numbered, InCallOrder
  <1>4. Reaching'
    <2> SUFFICES ASSUME NEW b \in Caster, cast[b].pc # "idle", NEW c \in cast[b].to \cap members'
                 PROVE  /\ cast[b].epoch = epoch'
                        /\ c \in cast[b].seen =>
                             \E i \in DOMAIN sent[c] : sent[c][i] = <<b, calls[b]>>
      BY DEF Reaching
    <2>1. c \in members /\ epoch' = epoch
      BY DEF HubInv, Untouched
    <2> QED
      BY <2>1 DEF HubInv, Reaching
  <1> QED
    BY <1>1, <1>2, <1>3, <1>4 DEF HubInv

(* unregister takes the client out before it closes the channel, and only  *)
(* an empty map is replaced.                                               *)
LEMMA UnregisterKeeps ==
  ASSUME HubInv, NEW c \in Client, NEW by, Unregister(c, by), conn[c] # "new"
  PROVE  /\ members' \subseteq members /\ epoch' \in Nat
         /\ closed' \in [Client -> BOOLEAN]
         /\ conn' \in [Client -> {"new", "open", "gone", "closed"}]
         /\ MembersOpen'
         /\ c \notin members'
         /\ \A d \in members' : epoch' = epoch
         /\ \A d \in Client : conn[d]' = "new" => conn[d] = "new" /\ closed[d]' = closed[d]
  <1>1. /\ members \subseteq Client /\ epoch \in Nat /\ closed \in [Client -> BOOLEAN]
        /\ conn \in [Client -> {"new", "open", "gone", "closed"}] /\ MembersOpen
    BY DEF HubInv, Shapes
  <1>2. conn' = [conn EXCEPT ![c] = "closed"]
    BY DEF Unregister
  <1>3. CASE members = {}
    <2>1. UNCHANGED <<members, epoch, closed>>
      BY <1>3 DEF Unregister
    <2> QED
      BY <1>1, <1>2, <1>3, <2>1 DEF MembersOpen
  <1>4. CASE members # {}
    <2>1. /\ members' = members \ {c}
          /\ epoch' = IF members \subseteq {c} THEN epoch + 1 ELSE epoch
          /\ closed' = [closed EXCEPT ![c] = TRUE]
      BY <1>4 DEF Unregister
    <2>2. MembersOpen'
      BY <1>1, <1>2, <2>1 DEF MembersOpen
    <2>3. epoch' \in Nat /\ \A d \in members' : epoch' = epoch
      BY <1>1, <2>1
    <2>4. \A d \in Client : conn[d]' = "new" => conn[d] = "new" /\ closed[d]' = closed[d]
      BY <1>1, <1>2, <2>1
    <2> QED
      BY <1>1, <1>2, <2>1, <2>2, <2>3, <2>4
  <1> QED
    BY <1>3, <1>4

(* The steps of clients and their pumps.                                   *)
LEMMA ClientStep ==
  ASSUME HubInv, NEW c \in Client, Upgrade(c) \/ PeerLeaves(c) \/ PumpStep(c)
  PROVE  HubInv'
  <1>1. /\ members \subseteq Client /\ epoch \in Nat
        /\ closed \in [Client -> BOOLEAN]
        /\ conn \in [Client -> {"new", "open", "gone", "closed"}]
        /\ writer \in [Client -> Pump] /\ reader \in [Client -> Pump]
    BY DEF HubInv, Shapes
  <1>2. /\ MembersOpen
        /\ \A d \in Client : conn[d] = "new" =>
             ~closed[d] /\ writer[d] = "off" /\ reader[d] = "off"
    BY DEF HubInv, Untouched
  <1>3. CASE Upgrade(c)
    <2>1. /\ conn[c] = "new" /\ conn' = [conn EXCEPT ![c] = "open"]
          /\ members' = members \cup {c}
          /\ writer' = [writer EXCEPT ![c] = "receive"] /\ reader' = [reader EXCEPT ![c] = "read"]
          /\ UNCHANGED <<epoch, closed, cast, calls, sent>>
      BY <1>3 DEF Upgrade
    <2>2. MembersOpen'
      BY <1>1, <1>2, <2>1 DEF MembersOpen
    <2> QED
      BY <1>1, <1>2, <2>1, <2>2, ClientFrame DEF Pump
  <1>4. CASE PeerLeaves(c)
    <2>1. /\ conn[c] = "open" /\ conn' = [conn EXCEPT ![c] = "gone"]
          /\ UNCHANGED <<members, epoch, closed, writer, reader, cast, calls, sent>>
      BY <1>4 DEF PeerLeaves
    <2>2. MembersOpen'
      BY <1>1, <1>2, <2>1 DEF MembersOpen
    <2> QED
      BY <1>1, <1>2, <2>1, <2>2, ClientFrame
  <1>5. CASE Write(c) \/ WriteEnds(c) \/ ReadFails(c)
    <2>1. /\ writer' \in {writer, [writer EXCEPT ![c] = "leave"]}
          /\ reader' \in {reader, [reader EXCEPT ![c] = "leave"]}
          /\ UNCHANGED <<members, epoch, closed, conn, cast, calls, sent>>
          /\ conn[c] # "new"
      BY <1>1, <1>2, <1>5 DEF Write, WriteEnds, ReadFails
    <2>2. MembersOpen'
      BY <1>2, <2>1 DEF MembersOpen
    <2> QED
      BY <1>1, <1>2, <2>1, <2>2, ClientFrame DEF Pump
  <1>6. CASE WriterLeaves(c) \/ ReaderLeaves(c)
    <2>1. /\ Unregister(c, {}) /\ conn[c] # "new"
          /\ writer' \in {writer, [writer EXCEPT ![c] = "done"]}
          /\ reader' \in {reader, [reader EXCEPT ![c] = "done"]}
          /\ UNCHANGED <<cast, calls, sent>>
      BY <1>2, <1>6 DEF WriterLeaves, ReaderLeaves
    <2>2. conn'[c] # "new"
      BY <1>1, <2>1 DEF Unregister
    <2>3. \A d \in Client : conn[d]' = "new" => writer[d]' = "off" /\ reader[d]' = "off"
      BY <1>1, <1>2, <2>1, <2>2, UnregisterKeeps
    <2>4. writer' \in [Client -> Pump] /\ reader' \in [Client -> Pump]
      BY <1>1, <2>1 DEF Pump
    <2> QED
      BY <1>1, <1>2, <2>1, <2>3, <2>4, UnregisterKeeps, ClientFrame
  <1>7. CASE PumpPanics(c)
    <2>1. UNCHANGED <<members, epoch, closed, conn, writer, reader, cast, calls, sent>>
      BY <1>7 DEF PumpPanics, clientVars
    <2>2. MembersOpen'
      BY <1>2, <2>1 DEF MembersOpen
    <2> QED
      BY <1>1, <1>2, <2>1, <2>2, ClientFrame
  <1> QED
    BY <1>3, <1>4, <1>5, <1>6, <1>7 DEF PumpStep

---------------------------------------------------------------------------
(* A step of one broadcast that makes no call, sends nothing and leaves    *)
(* the clients alone: what matters is where it is.                         *)
LEMMA CastFrame ==
  ASSUME HubInv, NEW b \in Caster, NEW new \in CastState,
         UNCHANGED <<members, epoch, closed, conn, writer, reader, calls, sent>>,
         cast' = [cast EXCEPT ![b] = new],
         cast[b].pc # "idle",
         new.pc = "idle" \/ (new.to = cast[b].to /\ new.epoch = cast[b].epoch
                             /\ new.seen = cast[b].seen),
         new.pc \in Sending => conn[new.client] # "new" /\ new.client \notin new.seen
  PROVE  HubInv'
  <1>1. cast \in [Caster -> CastState]
    BY DEF HubInv, Shapes
  <1>2. \A d \in Caster : d # b => cast'[d] = cast[d]
    BY <1>1
  <1>3. cast'[b] = new
    BY <1>1
  <1>4. Shapes' /\ MembersOpen' /\ InCallOrder'
    BY <1>1 DEF HubInv, Shapes, MembersOpen, InCallOrder
  <1>5. Untouched'
    BY <1>2, <1>3 DEF HubInv, Untouched
  <1>6. Numbered'
    <2>1. \A c \in Client : \A i \in DOMAIN sent[c] : sent[c][i][1] \in Caster
      BY DEF HubInv, Shapes
    <2> QED
      BY <1>2, <1>3, <2>1 DEF HubInv, Numbered
  <1>7. Reaching'
    <2> SUFFICES ASSUME NEW d \in Caster, cast'[d].pc # "idle",
                        NEW c \in cast'[d].to \cap members
                 PROVE  /\ cast'[d].epoch = epoch
                        /\ c \in cast'[d].seen =>
                             \E i \in DOMAIN sent[c] : sent[c][i] = <<d, calls[d]>>
      BY DEF Reaching
    <2>1. /\ cast[d].pc # "idle" /\ cast'[d].to = cast[d].to
          /\ cast'[d].epoch = cast[d].epoch /\ cast'[d].seen = cast[d].seen
      BY <1>2, <1>3
    <2> QED
      BY <2>1 DEF HubInv, Reaching
  <1> QED
    BY <1>4, <1>5, <1>6, <1>7 DEF HubInv

(* The states of the range that a step may lead to.                        *)
LEMMA RangeStates ==
  ASSUME NEW was \in CastState, was.pc # "idle"
  PROVE  /\ was.epoch \in Nat /\ was.seen \subseteq Client /\ was.to \subseteq Client
         /\ was.pc \in {"range", "send", "drop"}
         /\ was.pc \in Sending => was.client \in Client
  BY DEF CastState, Idle, Sending

(* Going on to a client, finding its channel full, and the end.            *)
LEMMA CastMoves ==
  ASSUME HubInv, NEW b \in Caster,
         CastPicks(b) \/ CastFindsFull(b) \/ CastReturns(b) \/ CastPanics(b)
  PROVE  HubInv'
  <1>1. cast \in [Caster -> CastState] /\ members \subseteq Client
    BY DEF HubInv, Shapes
  <1>2. UNCHANGED <<members, epoch, closed, conn, writer, reader, calls, sent>>
    BY DEF CastPicks, CastFindsFull, CastReturns, CastPanics, clientVars
  <1>3. cast[b] \in CastState /\ cast[b].pc # "idle"
    BY <1>1 DEF CastPicks, CastFindsFull, CastReturns, CastPanics
  <1>4. /\ cast[b].epoch \in Nat /\ cast[b].seen \subseteq Client /\ cast[b].to \subseteq Client
        /\ cast[b].pc \in Sending => cast[b].client \in Client
    BY <1>3, RangeStates
  <1>5. CASE CastPicks(b)
    <2>1. PICK c \in InRange(b) :
            cast' = [cast EXCEPT ![b] = [pc |-> "send", epoch |-> @.epoch, seen |-> @.seen,
                                         to |-> @.to, client |-> c]]
      BY <1>5 DEF CastPicks
    <2>2. c \in members /\ c \notin cast[b].seen
      BY DEF InRange
    <2>3. conn[c] # "new"
      BY <2>2 DEF HubInv, MembersOpen
    <2> DEFINE new == [pc |-> "send", epoch |-> cast[b].epoch, seen |-> cast[b].seen,
                       to |-> cast[b].to, client |-> c]
    <2>4. new \in CastState
      BY <1>1, <1>4, <2>2 DEF CastState
    <2>5. cast' = [cast EXCEPT ![b] = new]
      BY <1>1, <2>1
    <2> QED
      BY <1>2, <1>3, <2>2, <2>3, <2>4, <2>5, CastFrame
  <1>6. CASE CastFindsFull(b)
    <2> DEFINE new == [pc |-> "drop", epoch |-> cast[b].epoch, seen |-> cast[b].seen,
                       to |-> cast[b].to, client |-> cast[b].client]
    <2>1. cast[b].pc = "send" /\ cast' = [cast EXCEPT ![b].pc = "drop"]
      BY <1>6 DEF CastFindsFull
    <2>2. cast[b] \in [pc : Sending, epoch : Nat, seen : SUBSET Client, to : SUBSET Client,
                       client : Client]
      BY <1>3, <2>1 DEF CastState, Sending, Idle
    <2>3. [cast[b] EXCEPT !.pc = "drop"] = new
      BY <2>2
    <2>4. new \in CastState
      BY <1>4, <2>1 DEF CastState, Sending
    <2>5. cast' = [cast EXCEPT ![b] = new]
      BY <1>1, <2>1, <2>3
    <2>6. conn[new.client] # "new" /\ new.client \notin new.seen
      BY <1>4, <2>1 DEF HubInv, Untouched, Numbered, Sending
    <2> QED
      BY <1>2, <1>3, <2>4, <2>5, <2>6, CastFrame
  <1>7. CASE CastReturns(b) \/ CastPanics(b)
    <2>1. cast' = [cast EXCEPT ![b] = Idle]
      BY <1>7 DEF CastReturns, CastPanics
    <2>2. Idle \in CastState /\ Idle.pc = "idle" /\ "idle" \notin Sending
      BY DEF CastState, Idle, Sending
    <2> QED
      BY <1>2, <1>3, <2>1, <2>2, CastFrame
  <1> QED
    BY <1>5, <1>6, <1>7

(* A broadcast begins with everybody still to be dealt with, and with a    *)
(* call that no event has the number of.                                   *)
LEMMA BeginStep ==
  ASSUME HubInv, NEW b \in Caster, CastBegins(b)
  PROVE  HubInv'
  <1> DEFINE new == [pc |-> "range", epoch |-> epoch, seen |-> {}, to |-> members]
  <1>1. /\ cast \in [Caster -> CastState] /\ calls \in [Caster -> Nat]
        /\ members \subseteq Client /\ epoch \in Nat
        /\ \A c \in Client : \A i \in DOMAIN sent[c] : sent[c][i][1] \in Caster
                                                    /\ sent[c][i][2] \in Nat
    BY DEF HubInv, Shapes
  <1>2. /\ cast' = [cast EXCEPT ![b] = new] /\ calls' = [calls EXCEPT ![b] = @ + 1]
        /\ UNCHANGED <<members, epoch, closed, conn, writer, reader, sent>>
    BY DEF CastBegins, clientVars
  <1>3. new \in CastState
    BY <1>1 DEF CastState
  <1>4. /\ cast'[b] = new /\ calls'[b] = calls[b] + 1
        /\ \A d \in Caster : d # b => cast'[d] = cast[d] /\ calls'[d] = calls[d]
    BY <1>1, <1>2
  <1>5. Shapes' /\ MembersOpen' /\ InCallOrder'
    <2>1. cast' \in [Caster -> CastState] /\ calls' \in [Caster -> Nat]
      BY <1>1, <1>2, <1>3
    <2> QED
      BY <1>2, <2>1 DEF HubInv, Shapes, MembersOpen, InCallOrder
  <1>6. Untouched'
    <2>1. \A c \in Client : conn[c] = "new" => c \notin members
      BY DEF HubInv, MembersOpen
    <2> QED
      BY <1>2, <1>4, <2>1 DEF HubInv, Untouched, Sending
  <1>7. Numbered'
    <2>1. \A c \in Client : \A i \in DOMAIN sent[c] :
            sent[c][i][1] = b => sent[c][i][2] < calls'[b]
      BY <1>1, <1>4 DEF HubInv, Numbered
    <2> QED
      BY <1>1, <1>2, <1>4, <2>1 DEF HubInv, Numbered, Sending
  <1>8. Reaching'
    <2> SUFFICES ASSUME NEW d \in Caster, cast'[d].pc # "idle",
                        NEW c \in cast'[d].to \cap members
                 PROVE  /\ cast'[d].epoch = epoch
                        /\ c \in cast'[d].seen =>
                             \E i \in DOMAIN sent[c] : sent[c][i] = <<d, calls'[d]>>
      BY <1>2 DEF Reaching
    <2>1. CASE d = b
      BY <1>4, <2>1
    <2>2. CASE d # b
      BY <1>4, <2>2 DEF HubInv, Reaching
    <2> QED
      BY <2>1, <2>2
  <1> QED
    BY <1>5, <1>6, <1>7, <1>8 DEF HubInv

(* The range with the client dealt with.                                   *)
LEMMA NextRange ==
  ASSUME HubInv, NEW b \in Caster, cast[b].pc \in Sending, NextInRange(b)
  PROVE  /\ cast' \in [Caster -> CastState]
         /\ cast'[b].pc = "range" /\ cast'[b].epoch = cast[b].epoch /\ cast'[b].to = cast[b].to
         /\ cast'[b].seen = cast[b].seen \cup {cast[b].client}
         /\ \A d \in Caster : d # b => cast'[d] = cast[d]
         /\ cast[b].client \in Client
  <1> DEFINE new == [pc |-> "range", epoch |-> cast[b].epoch,
                     seen |-> cast[b].seen \cup {cast[b].client}, to |-> cast[b].to]
  <1>1. cast \in [Caster -> CastState] /\ cast[b] \in CastState
    BY DEF HubInv, Shapes
  <1>2. cast' = [cast EXCEPT ![b] = new]
    BY <1>1 DEF NextInRange
  <1>3. /\ cast[b].epoch \in Nat /\ cast[b].seen \subseteq Client /\ cast[b].to \subseteq Client
        /\ cast[b].client \in Client
    BY <1>1, RangeStates DEF Sending
  <1>4. new \in CastState
    BY <1>3 DEF CastState
  <1> QED
    BY <1>1, <1>2, <1>3, <1>4

(* The client had not been sent this event, and gets it after all of its   *)
(* caller's earlier ones.                                                  *)
LEMMA SendStep ==
  ASSUME HubInv, NEW b \in Caster, CastSends(b)
  PROVE  HubInv'
  <1> DEFINE c == cast[b].client
             event == <<b, calls[b]>>
  <1>1. /\ cast \in [Caster -> CastState] /\ calls \in [Caster -> Nat]
        /\ sent \in [Client -> Seq(Caster \X Nat)] /\ members \subseteq Client
    BY DEF HubInv, Shapes
  <1>2. /\ cast[b].pc = "send" /\ cast[b].pc \in Sending /\ NextInRange(b)
        /\ sent' = [sent EXCEPT ![c] = Append(@, event)]
        /\ UNCHANGED <<members, epoch, closed, conn, writer, reader, calls>>
    BY DEF CastSends, clientVars, Sending
  <1>3. /\ cast' \in [Caster -> CastState] /\ c \in Client
        /\ cast'[b].pc = "range" /\ cast'[b].epoch = cast[b].epoch /\ cast'[b].to = cast[b].to
        /\ cast'[b].seen = cast[b].seen \cup {c}
        /\ \A d \in Caster : d # b => cast'[d] = cast[d]
    BY <1>2, NextRange
  <1> HIDE DEF c
  <1>4. /\ sent'[c] = Append(sent[c], event)
        /\ \A d \in Client : d # c => sent'[d] = sent[d]
        /\ sent[c] \in Seq(Caster \X Nat) /\ event \in Caster \X Nat
    BY <1>1, <1>2, <1>3
  <1>5. /\ DOMAIN sent'[c] = 1..(Len(sent[c]) + 1) /\ DOMAIN sent[c] = 1..Len(sent[c])
        /\ Len(sent[c]) \in Nat
        /\ sent'[c][Len(sent[c]) + 1] = event
        /\ \A i \in DOMAIN sent[c] : sent'[c][i] = sent[c][i] /\ sent[c][i] \in Caster \X Nat
    BY <1>4
  <1>6. Shapes'
    <2>1. sent' \in [Client -> Seq(Caster \X Nat)]
      BY <1>1, <1>2, <1>4
    <2> QED
      BY <1>2, <1>3, <2>1 DEF HubInv, Shapes
  <1>7. MembersOpen'
    BY <1>2 DEF HubInv, MembersOpen
  <1>8. Untouched'
    BY <1>2, <1>3 DEF HubInv, Untouched, Sending
  <1>9. Numbered'
    <2>1. ASSUME NEW d \in Client, NEW i \in DOMAIN sent[d]
          PROVE  /\ sent[d][i][1] \in Caster /\ sent[d][i][2] <= calls[sent[d][i][1]]
                 /\ sent[d][i][2] = calls[sent[d][i][1]] /\ cast'[sent[d][i][1]].pc # "idle"
                      => d \in cast'[sent[d][i][1]].seen
      <3>1. sent[d][i][1] \in Caster
        BY <1>1
      <3> QED
        BY <1>2, <1>3, <3>1 DEF HubInv, Numbered, Sending
    <2>2. ASSUME NEW d \in Client, NEW i \in DOMAIN sent'[d]
          PROVE  /\ sent'[d][i][2] <= calls[sent'[d][i][1]]
                 /\ sent'[d][i][2] = calls[sent'[d][i][1]] /\ cast'[sent'[d][i][1]].pc # "idle"
                      => d \in cast'[sent'[d][i][1]].seen
      <3>1. CASE d # c
        BY <1>4, <2>1, <3>1
      <3>2. CASE d = c /\ i \in DOMAIN sent[c]
        BY <1>5, <2>1, <3>2
      <3>3. CASE d = c /\ i = Len(sent[c]) + 1
        BY <1>1, <1>3, <1>5, <3>3
      <3> QED
        BY <1>5, <2>2, <3>1, <3>2, <3>3
    <2>3. \A d \in Caster : cast'[d].pc \in Sending => cast'[d].client \notin cast'[d].seen
      BY <1>3 DEF HubInv, Numbered, Sending
    <2> QED
      BY <1>2, <2>2, <2>3 DEF Numbered
  <1>10. InCallOrder'
    <2>1. \A i \in DOMAIN sent[c] : sent[c][i][1] = b => sent[c][i][2] < calls[b]
      <3>1. c \notin cast[b].seen /\ cast[b].pc # "idle"
        BY <1>2 DEF HubInv, Numbered, c
      <3> SUFFICES ASSUME NEW i \in DOMAIN sent[c], sent[c][i][1] = b
                   PROVE  sent[c][i][2] < calls[b]
        OBVIOUS
      <3>2. sent[c][i][2] <= calls[b] /\ sent[c][i][2] # calls[b]
        BY <1>3, <3>1 DEF HubInv, Numbered
      <3> QED
        BY <1>1, <1>5, <3>2
    <2> SUFFICES ASSUME NEW d \in Client, NEW i \in DOMAIN sent'[d], NEW j \in DOMAIN sent'[d],
                        i < j, sent'[d][i][1] = sent'[d][j][1]
                 PROVE  sent'[d][i][2] < sent'[d][j][2]
      BY DEF InCallOrder
    <2>2. CASE d # c
      BY <1>4, <2>2 DEF HubInv, InCallOrder
    <2>3. CASE d = c /\ j \in DOMAIN sent[c]
      <3>1. i \in DOMAIN sent[c]
        BY <1>5, <2>3
      <3> QED
        BY <1>3, <1>5, <2>3, <3>1 DEF HubInv, InCallOrder
    <2>4. CASE d = c /\ j = Len(sent[c]) + 1
      <3>1. i \in DOMAIN sent[c]
        BY <1>5, <2>4
      <3> QED
        BY <1>5, <2>1, <2>4, <3>1
    <2> QED
      BY <1>5, <2>2, <2>3, <2>4
  <1>11. Reaching'
    <2> SUFFICES ASSUME NEW d \in Caster, cast'[d].pc # "idle",
                        NEW e \in cast'[d].to \cap members'
                 PROVE  /\ cast'[d].epoch = epoch'
                        /\ e \in cast'[d].seen =>
                             \E i \in DOMAIN sent'[e] : sent'[e][i] = <<d, calls'[d]>>
      BY DEF Reaching
    <2>1. /\ cast[d].pc # "idle" /\ cast'[d].to = cast[d].to /\ cast'[d].epoch = cast[d].epoch
          /\ e \in cast'[d].seen => e \in cast[d].seen \/ (d = b /\ e = c)
      BY <1>2, <1>3 DEF Sending
    <2>2. e \in members /\ e \in Client /\ cast[d].epoch = epoch
      BY <1>1, <1>2, <2>1 DEF HubInv, Reaching
    <2>3. CASE e \in cast[d].seen
      <3>1. PICK i \in DOMAIN sent[e] : sent[e][i] = <<d, calls[d]>>
        BY <2>1, <2>2, <2>3 DEF HubInv, Reaching
      <3>2. i \in DOMAIN sent'[e] /\ sent'[e][i] = sent[e][i]
        <4>1. CASE e = c
          BY <1>5, <3>1, <4>1
        <4>2. CASE e # c
          BY <1>4, <2>2, <3>1, <4>2
        <4> QED
          BY <4>1, <4>2
      <3> QED
        BY <1>2, <2>1, <2>2, <3>1, <3>2
    <2>4. CASE d = b /\ e = c
      BY <1>2, <1>5, <2>1, <2>2, <2>4
    <2> QED
      BY <1>2, <2>1, <2>2, <2>3, <2>4
  <1> QED
    BY <1>6, <1>7, <1>8, <1>9, <1>10, <1>11 DEF HubInv

(* Whoever is dropped is no member any more.                               *)
LEMMA DropStep ==
  ASSUME HubInv, NEW b \in Caster, CastDrops(b)
  PROVE  HubInv'
  <1> DEFINE c == cast[b].client
  <1>1. /\ calls \in [Caster -> Nat] /\ sent \in [Client -> Seq(Caster \X Nat)]
        /\ members \subseteq Client
    BY DEF HubInv, Shapes
  <1>2. /\ cast[b].pc = "drop" /\ cast[b].pc \in Sending /\ NextInRange(b)
        /\ Unregister(c, {b})
        /\ UNCHANGED <<writer, reader, calls, sent>>
    BY DEF CastDrops, Sending
  <1>3. /\ cast' \in [Caster -> CastState] /\ c \in Client
        /\ cast'[b].pc = "range" /\ cast'[b].epoch = cast[b].epoch /\ cast'[b].to = cast[b].to
        /\ cast'[b].seen = cast[b].seen \cup {c}
        /\ \A d \in Caster : d # b => cast'[d] = cast[d]
    BY <1>2, NextRange
  <1>4. conn[c] # "new"
    BY <1>2, <1>3 DEF HubInv, Untouched
  <1>5. /\ members' \subseteq members /\ epoch' \in Nat
        /\ closed' \in [Client -> BOOLEAN]
        /\ conn' \in [Client -> {"new", "open", "gone", "closed"}]
        /\ MembersOpen'
        /\ c \notin members'
        /\ \A d \in members' : epoch' = epoch
        /\ \A d \in Client : conn[d]' = "new" => conn[d] = "new" /\ closed[d]' = closed[d]
    BY <1>2, <1>3, <1>4, UnregisterKeeps
  <1> HIDE DEF c
  <1>6. Shapes' /\ InCallOrder'
    BY <1>1, <1>2, <1>3, <1>5 DEF HubInv, Shapes, InCallOrder
  <1>7. Untouched'
    BY <1>2, <1>3, <1>5 DEF HubInv, Untouched, Sending
  <1>8. Numbered'
    <2>1. ASSUME NEW d \in Client, NEW i \in DOMAIN sent[d]
          PROVE  /\ sent[d][i][2] <= calls[sent[d][i][1]]
                 /\ sent[d][i][2] = calls[sent[d][i][1]] /\ cast'[sent[d][i][1]].pc # "idle"
                      => d \in cast'[sent[d][i][1]].seen
      <3>1. sent[d][i][1] \in Caster
        BY <1>1
      <3> QED
        BY <1>2, <1>3, <3>1 DEF HubInv, Numbered, Sending
    <2>2. \A d \in Caster : cast'[d].pc \in Sending => cast'[d].client \notin cast'[d].seen
      BY <1>3 DEF HubInv, Numbered, Sending
    <2> QED
      BY <1>2, <2>1, <2>2 DEF Numbered
  <1>9. Reaching'
    <2> SUFFICES ASSUME NEW d \in Caster, cast'[d].pc # "idle",
                        NEW e \in cast'[d].to \cap members'
                 PROVE  /\ cast'[d].epoch = epoch'
                        /\ e \in cast'[d].seen =>
                             \E i \in DOMAIN sent[e] : sent[e][i] = <<d, calls[d]>>
      BY <1>2 DEF Reaching
    <2>1. /\ cast[d].pc # "idle" /\ cast'[d].to = cast[d].to /\ cast'[d].epoch = cast[d].epoch
          /\ e \in cast'[d].seen => e \in cast[d].seen
          /\ e \in members /\ epoch' = epoch
      BY <1>2, <1>3, <1>5
    <2> QED
      BY <2>1 DEF HubInv, Reaching
  <1> QED
    BY <1>5, <1>6, <1>7, <1>8, <1>9 DEF HubInv

---------------------------------------------------------------------------
(* Every step keeps the invariant.                                         *)
LEMMA HubInvNext ==
  ASSUME HubInv, [Next]_vars
  PROVE  HubInv'
  <1>1. CASE UNCHANGED vars
    <2>1. UNCHANGED <<members, epoch, closed, conn, writer, reader, cast, calls, sent>>
      BY <1>1 DEF vars, clientVars
    <2>2. MembersOpen'
      BY <2>1 DEF HubInv, MembersOpen
    <2> QED
      BY <2>1, <2>2, ClientFrame DEF HubInv, Shapes, Untouched
  <1>2. CASE \E c \in Client : Upgrade(c) \/ PeerLeaves(c) \/ PumpStep(c)
    BY <1>2, ClientStep
  <1>3. CASE \E b \in Caster : CastStep(b)
    BY <1>3, BeginStep, CastMoves, SendStep, DropStep DEF CastStep
  <1> QED
    BY <1>1, <1>2, <1>3 DEF Next, Rest

LEMMA HubInvHolds == Spec => []HubInv
  <1> QED
    BY HubInvInit, HubInvNext, PTL DEF Spec

(* Whoever finds a client in the map finds its channel open, however       *)
(* callers drop clients and pumps leave (hub.go:108).                      *)
THEOREM MembersStayOpen == Spec => []MembersOpen
  <1>1. HubInv => MembersOpen
    BY DEF HubInv
  <1> QED
    BY <1>1, HubInvHolds, PTL

(* No client is sent an event twice, nor a caller's events out of order,   *)
(* although the range is over a map that others change (hub.go:69).        *)
THEOREM EventsInOrder == Spec => []InCallOrder
  <1>1. HubInv => InCallOrder
    BY DEF HubInv
  <1> QED
    BY <1>1, HubInvHolds, PTL

(* A broadcast that returns has reached every client that was there when   *)
(* it began and still is (hub.go:57).                                      *)
THEOREM NobodySkipped == Spec => NoneSkipped
  <1>1. HubInv => \A b \in Caster : CastReturns(b) => Reached(b)
    <2> SUFFICES ASSUME HubInv, NEW b \in Caster, CastReturns(b),
                        NEW c \in cast[b].to \cap members
                 PROVE  \E i \in DOMAIN sent[c] : sent[c][i] = <<b, calls[b]>>
      BY DEF Reached
    <2>1. cast[b].pc # "idle" /\ c \notin InRange(b)
      BY DEF CastReturns
    <2>2. cast[b].epoch = epoch
      BY <2>1 DEF HubInv, Reaching
    <2>3. c \in cast[b].seen
      BY <2>1, <2>2 DEF InRange, InThisMap
    <2> QED
      BY <2>1, <2>3 DEF HubInv, Reaching
  <1> QED
    BY <1>1, HubInvHolds, PTL DEF NoneSkipped

---------------------------------------------------------------------------
(* Types                                                                   *)

(* What HubInv leaves open: the channels, the pumps and the counts.        *)
ChannelInv ==
  /\ send \in [Client -> Seq(Event)]
  /\ \A c \in Client : Len(send[c]) <= Capacity
  /\ sent \in [Client -> Seq(Event)]
  /\ writer \in [Client -> {"off", "receive", "leave", "done"}]
  /\ reader \in [Client -> {"off", "read", "leave", "done"}]
  /\ made \in 0..MaxCasts
  /\ \A b \in Caster : calls[b] <= made /\ (cast[b].pc # "idle" => calls[b] >= 1)
  /\ down \in BOOLEAN

LEMMA ChannelInvInit ==
  ASSUME Init
  PROVE  ChannelInv
  <1>1. <<>> \in Seq(Event) /\ Len(<<>>) = 0 /\ Capacity \in Nat /\ MaxCasts \in Nat
    BY HubAssumption
  <1>2. /\ send \in [Client -> Seq(Event)] /\ sent \in [Client -> Seq(Event)]
        /\ \A c \in Client : Len(send[c]) <= Capacity
    <2>1. send = [c \in Client |-> <<>>] /\ sent = [c \in Client |-> <<>>]
      BY DEF Init
    <2>2. \A c \in Client : send[c] = <<>>
      BY <2>1
    <2> QED
      BY <1>1, <2>1, <2>2
  <1>3. /\ writer \in [Client -> {"off", "receive", "leave", "done"}]
        /\ reader \in [Client -> {"off", "read", "leave", "done"}]
        /\ down \in BOOLEAN
    BY DEF Init
  <1>4. made = 0 /\ made \in 0..MaxCasts
    BY <1>1 DEF Init
  <1>5. ASSUME NEW b \in Caster
        PROVE  calls[b] = 0 /\ cast[b].pc = "idle"
    BY DEF Init, Idle
  <1>6. \A b \in Caster : calls[b] <= made /\ (cast[b].pc # "idle" => calls[b] >= 1)
    BY <1>4, <1>5
  <1> QED
    BY <1>2, <1>3, <1>4, <1>6 DEF ChannelInv

LEMMA UnregisterDown ==
  ASSUME NEW c, NEW by, Unregister(c, by), down \in BOOLEAN
  PROVE  down' \in BOOLEAN
  BY DEF Unregister, MapWritten

(* A client that sends or receives.                                        *)
LEMMA ChannelClientStep ==
  ASSUME HubInv, ChannelInv, NEW c \in Client, Upgrade(c) \/ PeerLeaves(c) \/ PumpStep(c)
  PROVE  ChannelInv'
  <1>1. CASE Upgrade(c)
    <2>1. down' \in BOOLEAN
      BY <1>1 DEF Upgrade, MapWritten
    <2> QED
      BY <1>1, <2>1 DEF Upgrade, ChannelInv
  <1>2. CASE PeerLeaves(c)
    BY <1>2 DEF PeerLeaves, ChannelInv
  <1>3. CASE Write(c)
    <2>1. /\ send' = [send EXCEPT ![c] = Tail(send[c])]
          /\ send[c] \in Seq(Event) /\ send[c] # <<>> /\ Len(send[c]) <= Capacity
      BY <1>3 DEF Write, ChannelInv
    <2>2. Tail(send[c]) \in Seq(Event) /\ Len(Tail(send[c])) <= Capacity
      <3>1. Capacity \in Nat
        BY HubAssumption
      <3>2. Tail(send[c]) \in Seq(Event) /\ Len(Tail(send[c])) = Len(send[c]) - 1
        BY <2>1
      <3>3. Len(send[c]) \in Nat
        BY <2>1
      <3> QED
        BY <2>1, <3>1, <3>2, <3>3
    <2>3. send' \in [Client -> Seq(Event)] /\ \A d \in Client : Len(send'[d]) <= Capacity
      BY <2>1, <2>2 DEF ChannelInv
    <2>4. writer' \in [Client -> {"off", "receive", "leave", "done"}]
      BY <1>3 DEF Write, ChannelInv
    <2> QED
      BY <1>3, <2>3, <2>4 DEF Write, ChannelInv
  <1>4. CASE WriteEnds(c) \/ ReadFails(c)
    BY <1>4 DEF WriteEnds, ReadFails, ChannelInv
  <1>5. CASE WriterLeaves(c) \/ ReaderLeaves(c)
    <2>1. down' \in BOOLEAN
      BY <1>5, UnregisterDown DEF WriterLeaves, ReaderLeaves, ChannelInv
    <2> QED
      BY <1>5, <2>1 DEF WriterLeaves, ReaderLeaves, ChannelInv
  <1>6. CASE PumpPanics(c)
    BY <1>6 DEF PumpPanics, clientVars, ChannelInv
  <1> QED
    BY <1>1, <1>2, <1>3, <1>4, <1>5, <1>6 DEF PumpStep

(* What a Broadcast does to its own entry.                                 *)
LEMMA CastCounts ==
  ASSUME ChannelInv, NEW b \in Caster, cast[b].pc # "idle", UNCHANGED <<calls, made>>,
         \A d \in Caster : d # b => cast'[d] = cast[d]
  PROVE  /\ made' \in 0..MaxCasts
         /\ \A d \in Caster : calls'[d] <= made' /\ (cast'[d].pc # "idle" => calls'[d] >= 1)
  BY DEF ChannelInv

LEMMA ChannelCastStep ==
  ASSUME HubInv, ChannelInv, NEW b \in Caster, CastStep(b)
  PROVE  ChannelInv'
  <1>1. /\ cast \in [Caster -> CastState] /\ calls \in [Caster -> Nat]
        /\ sent \in [Client -> Seq(Caster \X Nat)]
    BY DEF HubInv, Shapes
  <1>2. Capacity \in Nat /\ MaxCasts \in Nat
    BY HubAssumption
  <1>3. CASE CastBegins(b)
    <2>1. /\ made < MaxCasts /\ made' = made + 1 /\ calls' = [calls EXCEPT ![b] = calls[b] + 1]
          /\ UNCHANGED <<writer, reader, send, down, sent>>
      BY <1>3 DEF CastBegins, clientVars
    <2>2. \A d \in Caster : d # b => cast'[d] = cast[d]
      BY <1>1, <1>3 DEF CastBegins
    <2>3. made' \in 0..MaxCasts /\ made <= made'
      BY <1>2, <2>1 DEF ChannelInv
    <2>4. ASSUME NEW d \in Caster
          PROVE  calls'[d] <= made' /\ (cast'[d].pc # "idle" => calls'[d] >= 1)
      <3>1. calls[d] \in Nat /\ calls[d] <= made /\ made \in Nat
        BY <1>1, <1>2 DEF ChannelInv
      <3>2. CASE d = b
        <4>1. calls'[d] = calls[d] + 1
          BY <1>1, <2>1, <3>2
        <4> QED
          BY <2>1, <3>1, <4>1
      <3>3. CASE d # b
        <4>1. calls'[d] = calls[d] /\ cast'[d] = cast[d]
          BY <1>1, <2>1, <2>2, <3>3
        <4>2. calls'[d] <= made'
          BY <2>1, <3>1, <4>1
        <4> QED
          BY <4>1, <4>2 DEF ChannelInv
      <3> QED
        BY <3>2, <3>3
    <2> QED
      BY <2>1, <2>3, <2>4 DEF ChannelInv
  <1>4. CASE CastPicks(b) \/ CastFindsFull(b) \/ CastReturns(b) \/ CastPanics(b)
    <2>1. cast[b].pc # "idle"
      BY <1>4 DEF CastPicks, CastFindsFull, CastReturns, CastPanics
    <2>2. UNCHANGED <<calls, made, writer, reader, send, sent>>
      BY <1>4 DEF CastPicks, CastFindsFull, CastReturns, CastPanics, clientVars
    <2>3. down' \in BOOLEAN
      <3>1. CASE CastPanics(b)
        BY <3>1 DEF CastPanics
      <3>2. CASE ~CastPanics(b)
        <4>1. down' = down
          BY <1>4, <3>2 DEF CastPicks, CastFindsFull, CastReturns
        <4> QED
          BY <4>1 DEF ChannelInv
      <3> QED
        BY <3>1, <3>2
    <2>4. \A d \in Caster : d # b => cast'[d] = cast[d]
      <3>1. CASE CastPicks(b)
        BY <1>1, <3>1 DEF CastPicks
      <3>2. CASE CastFindsFull(b)
        BY <1>1, <3>2 DEF CastFindsFull
      <3>3. CASE CastReturns(b)
        BY <1>1, <3>3 DEF CastReturns
      <3>4. CASE CastPanics(b)
        BY <1>1, <3>4 DEF CastPanics
      <3> QED
        BY <1>4, <3>1, <3>2, <3>3, <3>4
    <2> QED
      BY <2>1, <2>2, <2>3, <2>4, CastCounts DEF ChannelInv
  <1>5. CASE CastSends(b)
    <2> DEFINE c == cast[b].client
               event == <<b, calls[b]>>
    <2>1. /\ cast[b].pc = "send" /\ cast[b].pc \in Sending /\ NextInRange(b)
          /\ Len(send[c]) < Capacity
          /\ send' = [send EXCEPT ![c] = Append(send[c], event)]
          /\ sent' = [sent EXCEPT ![c] = Append(sent[c], event)]
          /\ UNCHANGED <<calls, made, writer, reader, down>>
      BY <1>5 DEF CastSends, clientVars, Sending
    <2>2. c \in Client /\ \A d \in Caster : d # b => cast'[d] = cast[d]
      BY <2>1, NextRange
    <2>3. event \in Event
      <3>1. calls[b] \in Nat /\ calls[b] >= 1 /\ calls[b] <= made /\ made <= MaxCasts
            /\ made \in Nat
        BY <1>1, <1>2, <2>1 DEF ChannelInv
      <3>2. calls[b] \in 1..MaxCasts
        BY <1>2, <3>1
      <3> QED
        BY <3>2 DEF Event
    <2> HIDE DEF c, event
    <2>4. /\ send[c] \in Seq(Event) /\ sent[c] \in Seq(Event)
          /\ Append(send[c], event) \in Seq(Event) /\ Append(sent[c], event) \in Seq(Event)
          /\ Len(Append(send[c], event)) = Len(send[c]) + 1 /\ Len(send[c]) \in Nat
      <3>1. send[c] \in Seq(Event) /\ sent[c] \in Seq(Event)
        BY <2>2 DEF ChannelInv
      <3> HIDE DEF ChannelInv
      <3> QED
        BY <2>3, <3>1
    <2>5. Len(Append(send[c], event)) <= Capacity
      BY <1>2, <2>1, <2>4
    <2>6. send' \in [Client -> Seq(Event)] /\ \A d \in Client : Len(send'[d]) <= Capacity
      BY <2>1, <2>2, <2>4, <2>5 DEF ChannelInv
    <2>7. sent' \in [Client -> Seq(Event)]
      BY <2>1, <2>2, <2>4 DEF ChannelInv
    <2>8. cast[b].pc # "idle"
      BY <2>1
    <2> QED
      BY <2>1, <2>2, <2>6, <2>7, <2>8, CastCounts DEF ChannelInv
  <1>6. CASE CastDrops(b)
    <2>1. /\ cast[b].pc = "drop" /\ cast[b].pc \in Sending /\ NextInRange(b)
          /\ UNCHANGED <<send, writer, reader, calls, made, sent>>
          /\ Unregister(cast[b].client, {b})
      BY <1>6 DEF CastDrops, Sending
    <2>2. \A d \in Caster : d # b => cast'[d] = cast[d]
      BY <2>1, NextRange
    <2>3. down' \in BOOLEAN
      BY <2>1, UnregisterDown DEF ChannelInv
    <2>4. cast[b].pc # "idle"
      BY <2>1
    <2> QED
      BY <2>1, <2>2, <2>3, <2>4, CastCounts DEF ChannelInv
  <1> QED
    BY <1>3, <1>4, <1>5, <1>6 DEF CastStep

LEMMA ChannelInvNext ==
  ASSUME HubInv, ChannelInv, [Next]_vars
  PROVE  ChannelInv'
  <1>1. CASE UNCHANGED vars
    BY <1>1 DEF vars, ChannelInv
  <1>2. CASE \E c \in Client : Upgrade(c) \/ PeerLeaves(c) \/ PumpStep(c)
    BY <1>2, ChannelClientStep
  <1>3. CASE \E b \in Caster : CastStep(b)
    BY <1>3, ChannelCastStep
  <1> QED
    BY <1>1, <1>2, <1>3 DEF Next, Rest

(* The hub's types, and that no channel holds more than its capacity,      *)
(* whoever sends (hub.go:73).                                              *)
THEOREM ChannelsTyped == Spec => []TypeOK
  <1>1. HubInv /\ ChannelInv => TypeOK
    <2> SUFFICES ASSUME HubInv, ChannelInv
                 PROVE  TypeOK
      OBVIOUS
    <2>1. calls \in [Caster -> 0..MaxCasts]
      <3>1. MaxCasts \in Nat /\ made \in 0..MaxCasts
        BY HubAssumption DEF ChannelInv
      <3>2. calls \in [Caster -> Nat] /\ \A b \in Caster : calls[b] <= made
        BY DEF HubInv, Shapes, ChannelInv
      <3> QED
        BY <3>1, <3>2
    <2> QED
      BY <2>1 DEF HubInv, Shapes, ChannelInv, TypeOK
  <1>2. Init => ChannelInv
    BY ChannelInvInit
  <1>3. HubInv /\ ChannelInv /\ [Next]_vars => ChannelInv'
    BY ChannelInvNext
  <1> QED
    BY <1>1, <1>2, <1>3, HubInvHolds, PTL DEF Spec
=============================================================================
