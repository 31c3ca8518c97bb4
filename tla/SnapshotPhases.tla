--------------------------- MODULE SnapshotPhases ---------------------------
(***************************************************************************)
(* What an order book synchroniser promises about its snapshots: the four  *)
(* Boolean members of OrderBookSync stand for one phase, a snapshot is     *)
(* asked for only in phase "idle", at most one request is open, and the    *)
(* book goes live only from a snapshot that was asked for.                 *)
(***************************************************************************)
EXTENDS Naturals

VARIABLES
  phase,    \* "idle": no usable book; "requested": a snapshot is awaited;
            \* "ready": it waits for a diff; "live": diffs go to the book
  open      \* requests whose answer has not been processed

vars == <<phase, open>>

Init == phase = "idle" /\ open = 0

Request == phase = "idle" /\ open = 0 /\ phase' = "requested" /\ open' = 1

\* The request ends without an answer; the phase stays.
Fail == phase = "requested" /\ open = 1 /\ open' = 0 /\ UNCHANGED phase

Answer == phase = "requested" /\ open = 1 /\ phase' = "ready" /\ open' = 0

\* The first diff after the snapshot joins up with it, or does not.
Resume == phase = "ready" /\ phase' \in {"live", "idle"} /\ UNCHANGED open

Gap == phase = "live" /\ phase' = "idle" /\ UNCHANGED open

Next == Request \/ Fail \/ Answer \/ Resume \/ Gap

Spec == Init /\ [][Next]_vars
=============================================================================
