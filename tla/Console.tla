------------------------------ MODULE Console ------------------------------
(***************************************************************************)
(* The logs tab of the debug console, src/frontend/src/pages/Console.tsx,  *)
(* and the handler that answers it, src/orchestrator/api/handlers/debug.go.*)
(* The page polls every two seconds with the id of the last entry it has,  *)
(* and does not wait for the poll before.                                  *)
(***************************************************************************)
EXTENDS LogBuffer

CONSTANTS
  Limit,     \* the entries an answer has at most: 500
  UiCap,     \* the entries the page keeps: UI_LOG_CAP
  Request,   \* polls that can be under way at a time
  MaxLines,  \* bound: lines logged by one run of the orchestrator
  MaxBoots   \* bound: runs of the orchestrator

ASSUME ConsoleAssumption == {Limit, UiCap} \subseteq Nat \ {0} /\ {MaxLines, MaxBoots} \subseteq Nat

VARIABLES
  filter,    \* the level the user has chosen, or "all"
  cursor,    \* lastIdRef
  shown,     \* the entries on the page
  request,   \* the polls
  boots,     \* runs of the orchestrator so far
  calm,      \* one poll at a time, of one filter and one run; a history variable
  behind     \* an answer has left entries out; a history variable

consoleVars == <<logVars, filter, cursor, shown, request, boots, calm, behind>>
feed == <<filter, cursor, shown, behind>>

NoRequest == [pc |-> "idle", filter |-> "all", since |-> 0, reply |-> <<>>, cut |-> FALSE]

ConsoleInit ==
  /\ LogInit
  /\ filter = "all"
  /\ cursor = 0
  /\ shown = <<>>
  /\ request = [q \in Request |-> NoRequest]
  /\ boots = 1
  /\ calm = TRUE
  /\ behind = FALSE

Idle == \A q \in Request : request[q].pc = "idle"

(* Lines of at most two levels, one or two to a write.                     *)
Log ==
  /\ \/ \E t \in {"info", "error"} : WritePiece(t)
     \/ \E t \in {"info", "error", "blank"}, more \in {<<>>, <<"error">>} :
          WriteLines(t, more, "blank")
  /\ nextID' <= MaxLines
  /\ UNCHANGED <<feed, request, boots, calm>>

PollLogs(q) ==
  /\ request[q].pc = "idle"
  /\ request' = [request EXCEPT ![q] = [NoRequest EXCEPT !.pc = "sent", !.filter = filter,
                                                          !.since = cursor]]
  /\ calm' = (calm /\ Idle)
  /\ UNCHANGED <<logVars, feed, boots>>

(* The entries are read under the buffer's lock; the sources and counts    *)
(* that go with them, for the filters, are read later.                     *)
Logs(q) ==
  /\ request[q].pc = "sent"
  /\ LET Answer(limit) == Query(request[q].filter, request[q].since, limit) IN
     request' = [request EXCEPT ![q].pc = "answered", ![q].reply = Answer(Limit),
                                ![q].cut = Answer(Limit) # Answer(Capacity)]
  /\ UNCHANGED <<logVars, feed, boots, calm>>

(* A failed poll keeps what is there.                                      *)
PollFails(q) ==
  /\ request[q].pc \in {"sent", "answered"}
  /\ request' = [request EXCEPT ![q] = NoRequest]
  /\ UNCHANGED <<logVars, feed, boots, calm>>

(* Whatever the filter and the cursor are by now.                          *)
Incoming(q) ==
  /\ request[q].pc = "answered"
  /\ LET reply == request[q].reply IN
     /\ cursor' = IF reply = <<>> THEN cursor ELSE reply[Len(reply)].id
     /\ shown' = Newest(shown \o reply, UiCap)
     /\ behind' = (behind \/ (request[q].cut /\ request[q].since > 0))
  /\ request' = [request EXCEPT ![q] = NoRequest]
  /\ UNCHANGED <<logVars, filter, boots, calm>>

(* What the page has is thrown away; a poll may be under way.              *)
StartAnew ==
  /\ cursor' = 0
  /\ shown' = <<>>
  /\ behind' = FALSE
  /\ calm' = Idle
  /\ UNCHANGED <<logVars, request, boots>>

ChooseFilter == filter' \in {"all", "error"} \ {filter} /\ StartAnew
Clear == UNCHANGED filter /\ StartAnew

(* The buffer is empty again and its ids start anew; the page stays.       *)
Reboot ==
  /\ boots < MaxBoots
  /\ boots' = boots + 1
  /\ entries' = <<>> /\ nextID' = 0 /\ partial' = "blank"
  /\ request' = [q \in Request |-> IF request[q].pc = "sent" THEN NoRequest ELSE request[q]]
  /\ calm' = FALSE
  /\ UNCHANGED feed

ConsoleNext ==
  \/ Log \/ ChooseFilter \/ Clear \/ Reboot
  \/ \E q \in Request : PollLogs(q) \/ Logs(q) \/ PollFails(q) \/ Incoming(q)

ConsoleSpec == ConsoleInit /\ [][ConsoleNext]_consoleVars

---------------------------------------------------------------------------
(* Properties                                                              *)

(* As long as a poll has ended before the next one starts, since the page  *)
(* was last emptied and with one orchestrator, it shows the entries of its *)
(* filter, each once and in order, up to the cursor; and none is left out  *)
(* that the buffer still has, unless an answer had more to say than its    *)
(* limit.                                                                  *)
FeedFaithful ==
  calm =>
    /\ \A i, j \in DOMAIN shown : i < j => shown[i].id < shown[j].id
    /\ \A i \in DOMAIN shown : Passes(shown[i], filter)
    /\ shown # <<>> => cursor = shown[Len(shown)].id
    /\ ~behind /\ shown # <<>> =>
         \A i \in DOMAIN entries :
           Passes(entries[i], filter) /\ entries[i].id \in shown[1].id..cursor
             => \E j \in DOMAIN shown : shown[j] = entries[i]
=============================================================================
