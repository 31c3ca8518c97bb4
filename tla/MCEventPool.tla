---------------------------- MODULE MCEventPool ----------------------------
(***************************************************************************)
(* Messages for model checking EventPool: good ones, and ones with one     *)
(* thing wrong; lists of one and of two items.                             *)
(***************************************************************************)
EXTENDS EventPool

Fields == {"e", "s", "x", "b", "bids", "u", "lastUpdateId", "type", "fundingRate"}

MCMessages == {<<>>} \cup {f :> w : f \in Fields, w \in {"missing", "bad"}}

Items == {<<>>, "side" :> "unknown", "symbol" :> "bad", "orderId" :> "bad"}

MCLists == {<<i>> : i \in Items} \cup {<<i, j>> : i, j \in Items}

=============================================================================
