---------------------------- MODULE OrderManager ----------------------------
(***************************************************************************)
(* Placing, cancelling and amending orders: OrderManager with its          *)
(* OrderStorage and UIDManager (aoe/*/order_manager, aoe/*/order_storage,  *)
(* aos/uid), and the exchange at the far end of two ordered channels.  The *)
(* managers for Binance and Bybit are the same code; the parsers of their  *)
(* order reports are not.                                                  *)
(*                                                                         *)
(* Client order ids are recycled: UIDManager hands out the ids of orders   *)
(* that have left the storage before it makes new ones.  To tell apart two *)
(* orders that share an id over time, every call of PlaceOrder is numbered *)
(* (its "placement"); the program itself knows only ids.                   *)
(*                                                                         *)
(* Each call and each report is one step: callers and the listener are     *)
(* taken to be serialised, which the code leaves to its user.              *)
(***************************************************************************)
EXTENDS Integers, Sequences

CONSTANTS
  Exchange,     \* "binance" or "bybit": whose report parser is modelled
  ManualIds,    \* the ids callers choose themselves
  CalledIds,    \* bound: the ids callers cancel and amend, stored or not
  AmendedQtys,  \* the quantities callers change orders to
  MayFail,      \* whether making a request from an order can fail
  Placements,   \* bound: calls of PlaceOrder
  MaxQty,       \* bound: the quantity of an order
  MaxInFlight   \* bound: messages on their way when a call is made

ASSUME ExchangeAssumption == Exchange \in {"binance", "bybit"}
ASSUME InputsAssumption   ==
  ManualIds \subseteq Nat /\ CalledIds \subseteq Nat /\ AmendedQtys \subseteq Nat \ {0}
ASSUME MayFailAssumption  == MayFail \in BOOLEAN
ASSUME BoundsAssumption   ==
  Placements \in Nat /\ MaxQty \in Nat \ {0} /\ MaxInFlight \in Nat

VARIABLES
  orders_,      \* OrderStorage: the order stored under each id
  pool_,        \* NumberPool: returned ids, a queue
  current_id_,  \* UIDGenerator
  requests,     \* from the order API to the exchange, oldest first
  placed,       \* for each placement its id and what the exchange knows of it
  reports,      \* from the exchange to the order watcher, oldest first
  missed        \* history: the placements of which a report was refused

vars == <<orders_, pool_, current_id_, requests, placed, reports, missed>>

-----------------------------------------------------------------------------
(* Data.                                                                   *)

\* The reports on which the order leaves the storage ("expired" stands for
\* expired in match too, which is handled alike).
Terminal == {"filled", "cancelled", "rejected", "expired"}

OrderStatus   == {"invalid", "new", "pending_new", "partially_filled"}
PendingAction == {"none", "place", "amend", "cancel"}

\* What the storage keeps of an order, and the placement that stored it.
Order == [placement : Nat, status : OrderStatus, pending : PendingAction, qty : Int]

Request == [kind : {"place", "cancel", "amend"}, id : Nat, placement : Nat, qty : Nat]

Report == [status : OrderStatus \cup Terminal, id : Nat, placement : Nat,
           qty : Nat, cum : Nat]

\* A placement is "sent" until the exchange has seen it, then "open" until it
\* is over; finished says that its last report has been processed.
Placement == [id : Nat, phase : {"sent", "open", "ended"}, qty : Nat, cum : Nat,
              finished : BOOLEAN]

Unfinished == {p \in DOMAIN placed : ~placed[p].finished}

-----------------------------------------------------------------------------
(* UIDManager.                                                             *)

\* GetUniqueID: a returned id if there is one.
UniqueID == IF pool_ # <<>> THEN Head(pool_) ELSE current_id_

\* Fault: the id is read from the pool but stays in it.
TakeUniqueIDKeep ==
  /\ UNCHANGED pool_
  /\ current_id_' = IF pool_ # <<>> THEN current_id_ ELSE current_id_ + 1

TakeUniqueID ==
  IF pool_ # <<>> THEN pool_' = Tail(pool_) /\ UNCHANGED current_id_
                  ELSE current_id_' = current_id_ + 1 /\ UNCHANGED pool_

ReturnIDToPool(id) == pool_' = Append(pool_, id)

-----------------------------------------------------------------------------
(* OrderStorage: a set of orders with a unique index on the id.            *)

\* An id that is stored already keeps its order.
Added(id, order) ==
  IF id \in DOMAIN orders_ THEN orders_
  ELSE [i \in DOMAIN orders_ \cup {id} |-> IF i = id THEN order ELSE orders_[i]]

\* An unknown id is ignored here and below.
StatusUpdated(id, status, pending) ==
  [i \in DOMAIN orders_ |->
     IF i = id THEN [orders_[i] EXCEPT !.status = status, !.pending = pending]
               ELSE orders_[i]]

StateUpdated(orders, id, qty) ==
  [i \in DOMAIN orders |->
     IF i = id THEN [orders[i] EXCEPT !.qty = qty] ELSE orders[i]]

\* Fault: the order is looked up but not erased.
RemovedKeep(id) == orders_

Removed(id) == [i \in DOMAIN orders_ \ {id} |-> orders_[i]]

-----------------------------------------------------------------------------
(* The calls of OrderManager.                                              *)

\* Fault: only placements are passed on.
SendPlacements(request) ==
  requests' = IF request.kind = "place" THEN Append(requests, request) ELSE requests

\* The order API makes a request and writes it to its session, or cannot make
\* one and says nothing.
Send(request) ==
  /\ Len(requests) + Len(reports) < MaxInFlight
  /\ \/ requests' = Append(requests, request)
     \/ MayFail /\ UNCHANGED requests

Place(id) ==
  /\ Len(placed) < Placements
  /\ \E qty \in 1..MaxQty :
       LET p == Len(placed) + 1
       IN  /\ placed' = Append(placed, [id |-> id, phase |-> "sent", qty |-> qty,
                                        cum |-> 0, finished |-> FALSE])
           /\ orders_' = Added(id, [placement |-> p, status |-> "invalid",
                                    pending |-> "place", qty |-> qty])
           /\ Send([kind |-> "place", id |-> id, placement |-> p, qty |-> qty])
  /\ UNCHANGED <<reports, missed>>

PlaceOrderAutoId == TakeUniqueID /\ Place(UniqueID)

PlaceOrderManualId ==
  /\ \E uid \in ManualIds : Place(uid)
  /\ UNCHANGED <<pool_, current_id_>>

\* The placement a caller means by id: the stored one, or none.
Meant(id) == IF id \in DOMAIN orders_ THEN orders_[id].placement ELSE 0

\* The request is sent for any id; only a stored order becomes pending.
CancelOrder ==
  /\ \E id \in CalledIds :
       /\ orders_' = StatusUpdated(id, "invalid", "cancel")
       /\ Send([kind |-> "cancel", id |-> id, placement |-> Meant(id), qty |-> 0])
  /\ UNCHANGED <<pool_, current_id_, placed, reports, missed>>

AmendOrder ==
  /\ \E id \in CalledIds, qty \in AmendedQtys :
       /\ orders_' = StatusUpdated(id, "invalid", "amend")
       /\ Send([kind |-> "amend", id |-> id, placement |-> Meant(id), qty |-> qty])
  /\ UNCHANGED <<pool_, current_id_, placed, reports, missed>>

-----------------------------------------------------------------------------
(* The exchange.                                                           *)

ReportOf(p, order, status) ==
  [status |-> status, id |-> order.id, placement |-> p,
   qty |-> order.qty, cum |-> order.cum]

\* Placement p becomes order, which is reported with each of statuses.
Becomes(p, order, statuses) ==
  /\ placed' = [placed EXCEPT ![p] = order]
  /\ reports' = reports \o [i \in 1..Len(statuses) |-> ReportOf(p, order, statuses[i])]

AcceptOrReject(r) ==
  /\ r.kind = "place"
  /\ \/ \E statuses \in {<<"new">>, <<"pending_new", "new">>} :
          Becomes(r.placement, [placed[r.placement] EXCEPT !.phase = "open"], statuses)
     \/ Becomes(r.placement, [placed[r.placement] EXCEPT !.phase = "ended"],
                <<"rejected">>)

OpenUnder(id) == {p \in DOMAIN placed : placed[p].id = id /\ placed[p].phase = "open"}

\* A request for an order that is not open is answered outside the order stream.
NotOpen(r) == r.kind # "place" /\ OpenUnder(r.id) = {} /\ UNCHANGED <<placed, reports>>

Cancel(r) ==
  /\ r.kind = "cancel"
  /\ \E p \in OpenUnder(r.id) :
       Becomes(p, [placed[p] EXCEPT !.phase = "ended"], <<"cancelled">>)

StatusWhileOpen(order) == IF order.cum = 0 THEN "new" ELSE "partially_filled"

Amend(r) ==
  /\ r.kind = "amend"
  /\ \E p \in OpenUnder(r.id) :
       IF r.qty > placed[p].cum
       THEN Becomes(p, [placed[p] EXCEPT !.qty = r.qty], <<StatusWhileOpen(placed[p])>>)
       ELSE UNCHANGED <<placed, reports>>

HandleRequest ==
  /\ requests # <<>>
  /\ LET r == Head(requests)
     IN  AcceptOrReject(r) \/ NotOpen(r) \/ Cancel(r) \/ Amend(r)
  /\ requests' = Tail(requests)
  /\ UNCHANGED <<orders_, pool_, current_id_, missed>>

Fill ==
  /\ \E p \in DOMAIN placed : \E cum \in (placed[p].cum + 1)..placed[p].qty :
       /\ placed[p].phase = "open"
       /\ IF cum = placed[p].qty
          THEN Becomes(p, [placed[p] EXCEPT !.cum = cum, !.phase = "ended"], <<"filled">>)
          ELSE Becomes(p, [placed[p] EXCEPT !.cum = cum], <<"partially_filled">>)
  /\ UNCHANGED <<orders_, pool_, current_id_, requests, missed>>

Expire ==
  /\ \E p \in DOMAIN placed :
       /\ placed[p].phase = "open"
       /\ Becomes(p, [placed[p] EXCEPT !.phase = "ended"], <<"expired">>)
  /\ UNCHANGED <<orders_, pool_, current_id_, requests, missed>>

-----------------------------------------------------------------------------
(* Reports.                                                                *)

\* Binance's OrderEventParser makes an event of a report, Bybit's never fills its table of
\* statuses.
Parses == Exchange = "binance"

\* Fault: the executed quantity is not subtracted.
WholeQty(r) == r.qty

LeavesQty(r) == r.qty - r.cum

Ends(r) == r.status \in Terminal

\* OrderEvent...::Accept for the orders that stay.
AcceptUpdate(r) ==
  /\ ~Ends(r)
  /\ orders_' = IF r.status = "partially_filled"
                THEN StateUpdated(StatusUpdated(r.id, r.status, "none"),
                                  r.id, LeavesQty(r))
                ELSE StatusUpdated(r.id, r.status, "none")
  /\ UNCHANGED <<pool_, current_id_, placed, missed>>

\* OrderManager::Remove
AcceptEnd(r) ==
  /\ Ends(r)
  /\ orders_' = Removed(r.id)
  /\ ReturnIDToPool(r.id)
  /\ placed' = [placed EXCEPT ![r.placement].finished = TRUE]
  /\ UNCHANGED <<current_id_, missed>>

\* Either parser refuses a report that lacks a field, or has a status or a pair it does not
\* know, and the listener gives it up.
Drop(r) ==
  /\ missed' = missed \cup {r.placement}
  /\ UNCHANGED <<orders_, pool_, current_id_, placed>>

OnResponse ==
  /\ reports # <<>>
  /\ LET r == Head(reports)
     IN  \/ Parses /\ (AcceptUpdate(r) \/ AcceptEnd(r))
         \/ Drop(r)
  /\ reports' = Tail(reports)
  /\ UNCHANGED requests

-----------------------------------------------------------------------------
Init ==
  /\ orders_ = [i \in {} |-> 0]
  /\ pool_ = <<>>
  /\ current_id_ = 0
  /\ requests = <<>>
  /\ placed = <<>>
  /\ reports = <<>>
  /\ missed = {}

Next ==
  \/ PlaceOrderAutoId
  \/ PlaceOrderManualId
  \/ CancelOrder
  \/ AmendOrder
  \/ HandleRequest
  \/ Fill
  \/ Expire
  \/ OnResponse

Spec == Init /\ [][Next]_vars

\* The sessions deliver, the exchange answers, the listener runs.
FairSpec == Spec /\ WF_vars(HandleRequest) /\ WF_vars(OnResponse)

-----------------------------------------------------------------------------
(* Properties.                                                             *)

\* The types of the variables.
TypeOK ==
  /\ DOMAIN orders_ \subseteq Nat
  /\ orders_ \in [DOMAIN orders_ -> Order]
  /\ pool_ \in Seq(Nat)
  /\ current_id_ \in Nat
  /\ requests \in Seq(Request)
  /\ placed \in Seq(Placement)
  /\ reports \in Seq(Report)
  /\ missed \subseteq Nat

\* Two orders that are both unfinished never share a client order id, although
\* ids are handed out again as soon as an order's last report is processed.
UniqueIds ==
  \A p, q \in Unfinished : placed[p].id = placed[q].id => p = q

\* Only free ids are in the pool: none twice, none that the generator will
\* still make, none of an order that the exchange may still report on.
PoolHoldsFreeIds ==
  \A i \in DOMAIN pool_ :
    /\ pool_[i] < current_id_
    /\ \A j \in DOMAIN pool_ : pool_[i] = pool_[j] => i = j
    /\ \A p \in Unfinished : placed[p].id # pool_[i]

\* The storage holds exactly the unfinished orders, each under its id and with
\* the data of its own placement, not of an earlier one with that id.
StorageHoldsUnfinished ==
  /\ DOMAIN orders_ = {placed[p].id : p \in Unfinished}
  /\ \A p \in Unfinished : orders_[placed[p].id].placement = p

\* When no report of an order is on its way, and none was refused, the stored
\* quantity is what is left of the order at the exchange.
QuantityAgrees ==
  \A p \in Unfinished \ missed :
    placed[p].phase = "open" /\ (\A i \in DOMAIN reports : reports[i].placement # p)
      => orders_[placed[p].id].qty = placed[p].qty - placed[p].cum

\* The request that a pending action of p waits for is on its way to the
\* exchange, or a report on p is on its way back.
Awaited(p) ==
  LET pending == orders_[placed[p].id].pending
      Asked   == \E i \in DOMAIN requests : requests[i].placement = p
                                            /\ requests[i].kind = pending
      Ended   == \E i \in DOMAIN reports : reports[i].placement = p
                                           /\ Ends(reports[i])
      Told    == \E i \in DOMAIN reports : reports[i].placement = p
  IN  /\ pending = "place" => Asked \/ Told
      /\ pending = "cancel" => Asked \/ Ended

\* No pending action waits for nothing: unless a report of it was refused, a
\* stored order is never stuck.
PendingActionsAwaited == \A p \in Unfinished \ missed : Awaited(p)

\* A cancel never ends another order than the one stored under its id when the
\* caller asked, and none if there was none: not even if that order has ended
\* and its id is in use again.
CancelsHitTheirOrder ==
  requests # <<>> /\ Head(requests).kind = "cancel" =>
    OpenUnder(Head(requests).id) \subseteq {Head(requests).placement}

\* An order that has ended at the exchange leaves the storage, unless a report
\* of it was refused.
EndedOrdersLeave ==
  \A p \in 1..Placements :
    p \in DOMAIN placed /\ placed[p].phase = "ended" ~>
      p \in missed \/ ~(\E id \in DOMAIN orders_ : orders_[id].placement = p)

=============================================================================
