----------------------------- MODULE LogBuffer -----------------------------
(***************************************************************************)
(* The orchestrator's log, kept in memory for the debug console:           *)
(* src/orchestrator/logbuffer/logbuffer.go.  A line is its level; what     *)
(* else is said in it is left out.                                         *)
(***************************************************************************)
EXTENDS Integers, Sequences, FiniteSets

CONSTANT Capacity    \* how many entries are kept

ASSUME CapacityAssumption == Capacity \in Nat \ {0}

VARIABLES
  entries,   \* the entries kept, from old to new
  nextID,    \* the id of the last one
  partial    \* the line that has not ended yet: its level, "blank" for none

logVars == <<entries, nextID, partial>>

Level == {"info", "warn", "error"}
Text == Level \cup {"blank"}

LogInit ==
  /\ entries = <<>>
  /\ nextID = 0
  /\ partial = "blank"

(* The level of a line made of two pieces of text.                         *)
Classify(s, t) ==
  CASE "error" \in {s, t} -> "error"
    [] "warn" \in {s, t} -> "warn"
    [] "info" \in {s, t} -> "info"
    [] OTHER -> "blank"

NewestOneMore(s, n) == IF Len(s) <= n THEN s ELSE SubSeq(s, Len(s) - n, Len(s))    \* mutant

(* The last n elements of a sequence.                                      *)
Newest(s, n) == IF Len(s) <= n THEN s ELSE SubSeq(s, Len(s) - n + 1, Len(s))

(* What an entry of every line makes of the buffer: the oldest go.         *)
AppendLocked(lines) ==
  /\ entries' = Newest(entries \o [i \in 1..Len(lines) |-> [id |-> nextID + i,
                                                            level |-> lines[i]]], Capacity)
  /\ nextID' = nextID + Len(lines)

(* A write that does not end a line.                                       *)
WritePiece(text) ==
  /\ partial' = Classify(partial, text)
  /\ UNCHANGED <<entries, nextID>>

(* A write that ends a line, and holds more of them, without the lock      *)
(* being released in between; rest is begun.  Blank lines are no entries.  *)
WriteLines(text, more, rest) ==
  LET first == Classify(partial, text) IN
  /\ AppendLocked((IF first = "blank" THEN <<>> ELSE <<first>>) \o more)
  /\ partial' = rest

(* A filter is a level, or "all".  The newest of the entries that pass,    *)
(* after the cursor, which is 0 for the start.                             *)
Passes(e, filter) == filter \in {"all", e.level}

(* The elements of a sequence at the positions I, in order.                *)
Picked(s, I) ==
  LET p == CHOOSE p \in [1..Cardinality(I) -> I] :
             \A a, b \in 1..Cardinality(I) : a < b => p[a] < p[b]
  IN  [k \in 1..Cardinality(I) |-> s[p[k]]]

(* Mutant: the cursor's own entry once more.                               *)
QueryFrom(filter, since, limit) ==
  Newest(Picked(entries, {i \in 1..Len(entries) : /\ entries[i].id >= since
                                                  /\ Passes(entries[i], filter)}), limit)

Query(filter, since, limit) ==
  Newest(Picked(entries, {i \in 1..Len(entries) : /\ entries[i].id > since
                                                  /\ Passes(entries[i], filter)}), limit)

---------------------------------------------------------------------------

LogNext ==
  \/ \E t \in Text : WritePiece(t)
  \/ \E t, rest \in Text, more \in Seq(Level) : WriteLines(t, more, rest)

LogSpec == LogInit /\ [][LogNext]_logVars

(* The entries are the last ones written, in the order of their ids and    *)
(* without a hole, however many lines a write brings and however long a    *)
(* line has been in coming: what the console's cursor relies on.           *)
EntriesAreNewest ==
  /\ Len(entries) <= Capacity
  /\ Len(entries) <= nextID
  /\ \A i \in 1..Len(entries) : entries[i].id = nextID - Len(entries) + i
  /\ nextID > Len(entries) => Len(entries) = Capacity
=============================================================================
