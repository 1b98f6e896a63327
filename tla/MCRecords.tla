----------------------------- MODULE MCRecords -----------------------------
(***************************************************************************)
(* The console and the inventory share neither state nor locks: a step of  *)
(* the one can change nothing for the other, so they are checked side by   *)
(* side, one of them moving in a behaviour.                                *)
(***************************************************************************)
EXTENDS Console, Inventory, TLC

VARIABLE moves

RecordsVars == <<consoleVars, inventoryVars, moves>>

RecordsInit == ConsoleInit /\ InventoryInit /\ moves \in {"console", "inventory"}

RecordsNext ==
  /\ \/ moves = "console" /\ ConsoleNext /\ UNCHANGED inventoryVars
     \/ moves = "inventory" /\ InventoryNext /\ UNCHANGED consoleVars
  /\ UNCHANGED moves

RecordsSpec == RecordsInit /\ [][RecordsNext]_RecordsVars

Interchangeable == Permutations(Request) \cup Permutations(Ip) \cup Permutations(Edit)
=============================================================================
