---------------------------- MODULE CrashStore ----------------------------
(***************************************************************************)
(* What the save files promise, with no file in sight: a history of        *)
(* recorded deltas and a floor below which a crash never falls.            *)
(*                                                                         *)
(*  - Record appends one delta to the history;                             *)
(*  - Save raises the floor to a later prefix of the history (a snapshot   *)
(*    reached its final name);                                             *)
(*  - Restart loses a suffix of the history, never the floor, and leaves   *)
(*    no gap in what remains.                                              *)
(*                                                                         *)
(* Deltas are numbered in the order they were recorded; a number is never  *)
(* used twice, so a set of numbers is a history.                           *)
(***************************************************************************)
EXTENDS Naturals

CONSTANT MaxRecords   \* bound on the deltas ever recorded

Ids == 1 .. MaxRecords

VARIABLES
  hist,    \* the deltas the running world reflects
  floor    \* the deltas no crash can take away any more

storeVars == <<hist, floor>>

(* p is what remains of h when everything after some point is cut off. *)
IsPrefixOf(p, h) ==
  /\ p \subseteq h
  /\ \A i \in h, j \in p : i <= j => i \in p

StoreInit == hist = {} /\ floor = {}

Record ==
  /\ \E r \in Ids : /\ \A i \in hist : i < r
                    /\ hist' = hist \cup {r}
  /\ UNCHANGED floor

Save ==
  /\ floor' \in SUBSET hist
  /\ floor \subseteq floor'
  /\ IsPrefixOf(floor', hist)
  /\ UNCHANGED hist

Restart ==
  /\ hist' \in SUBSET hist
  /\ IsPrefixOf(hist', hist)
  /\ floor \subseteq hist'
  /\ UNCHANGED floor

StoreNext == Record \/ Save \/ Restart

StoreSpec == StoreInit /\ [][StoreNext]_storeVars
============================================================================
