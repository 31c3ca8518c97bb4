-------------------------- MODULE OrderManagerProofs --------------------------
(***************************************************************************)
(* Theorems about OrderManager, for every number of placements, quantity   *)
(* and length of the channels, and for both exchanges.                     *)
(***************************************************************************)
EXTENDS OrderManager, SequenceTheorems, TLAPS

-----------------------------------------------------------------------------
(* The inductive invariants.                                               *)

IsPlace(i) == requests[i].kind = "place"

\* Orders are announced to the exchange once, before it can know them.
RequestsInv ==
  \A i \in DOMAIN requests : IsPlace(i) =>
    /\ requests[i].placement \in DOMAIN placed
    /\ placed[requests[i].placement].phase = "sent"
    /\ \A j \in DOMAIN requests :
         IsPlace(j) /\ requests[j].placement = requests[i].placement => j = i

IsLast(i) == reports[i].status \in Terminal

\* A report bears the id of its placement; the last report of a placement is
\* one of a kind, and sent when the placement is over.
ReportsInv ==
  /\ \A i \in DOMAIN reports :
       /\ reports[i].placement \in DOMAIN placed
       /\ reports[i].id = placed[reports[i].placement].id
  /\ \A i \in DOMAIN reports : IsLast(i) =>
       /\ placed[reports[i].placement].phase = "ended"
       /\ ~placed[reports[i].placement].finished
       /\ \A j \in DOMAIN reports :
            IsLast(j) /\ reports[j].placement = reports[i].placement => j = i
  /\ \A p \in DOMAIN placed : placed[p].finished => placed[p].phase = "ended"

\* What becomes of ids.
IdsInv ==
  /\ \A p \in Unfinished : placed[p].id < current_id_
  /\ UniqueIds
  /\ PoolHoldsFreeIds
  /\ StorageHoldsUnfinished

-----------------------------------------------------------------------------
(* Types of the operators.                                                 *)

LEMMA UniqueIDType == TypeOK => UniqueID \in Nat
<1>. SUFFICES ASSUME TypeOK PROVE UniqueID \in Nat
  OBVIOUS
<1>1. CASE pool_ = <<>>
  BY <1>1 DEF UniqueID, TypeOK
<1>2. CASE pool_ # <<>>
  BY <1>2, HeadTailProperties DEF UniqueID, TypeOK
<1>. QED BY <1>1, <1>2

\* Sending appends a request or nothing.
LEMMA SendType ==
  ASSUME TypeOK, NEW r \in Request, Send(r)
  PROVE  requests' \in Seq(Request)
<1>1. requests' = Append(requests, r) \/ requests' = requests
  BY Zenon DEF Send
<1>2. requests \in Seq(Request)
  BY DEF TypeOK
<1>3. Append(requests, r) \in Seq(Request)
  BY <1>2, AppendProperties
<1>. QED BY <1>1, <1>2, <1>3, Zenon

\* The storage as its five operations leave it.
LEMMA AddedType ==
  ASSUME TypeOK, NEW id \in Nat, NEW order \in Order
  PROVE  /\ DOMAIN Added(id, order) \subseteq Nat
         /\ Added(id, order) \in [DOMAIN Added(id, order) -> Order]
BY DEF TypeOK, Added

LEMMA StatusUpdatedType ==
  ASSUME TypeOK, NEW id, NEW status \in OrderStatus, NEW pending \in PendingAction
  PROVE  /\ DOMAIN StatusUpdated(id, status, pending) = DOMAIN orders_
         /\ StatusUpdated(id, status, pending) \in [DOMAIN orders_ -> Order]
BY DEF TypeOK, StatusUpdated, Order

LEMMA StateUpdatedType ==
  ASSUME NEW D, NEW orders \in [D -> Order], NEW id, NEW qty \in Int
  PROVE  StateUpdated(orders, id, qty) \in [D -> Order]
BY DEF StateUpdated, Order

LEMMA RemovedType ==
  ASSUME TypeOK, NEW id
  PROVE  /\ DOMAIN Removed(id) = DOMAIN orders_ \ {id}
         /\ Removed(id) \in [DOMAIN Removed(id) -> Order]
BY DEF TypeOK, Removed

\* The reports on a change of a placement.
LEMMA ReportsOfType ==
  ASSUME NEW p \in Nat, NEW order \in Placement,
         NEW statuses \in Seq(OrderStatus \cup Terminal)
  PROVE  [i \in 1..Len(statuses) |-> ReportOf(p, order, statuses[i])] \in Seq(Report)
<1>1. \A i \in 1..Len(statuses) : statuses[i] \in OrderStatus \cup Terminal
  BY ElementOfSeq, LenProperties
<1>2. \A i \in 1..Len(statuses) : ReportOf(p, order, statuses[i]) \in Report
  BY <1>1 DEF ReportOf, Report, Placement
<1>. QED BY <1>2, IsASeq, LenProperties

LEMMA BecomesType ==
  ASSUME TypeOK, NEW p \in DOMAIN placed, NEW order \in Placement,
         NEW statuses \in Seq(OrderStatus \cup Terminal), Becomes(p, order, statuses)
  PROVE  placed' \in Seq(Placement) /\ reports' \in Seq(Report)
<1>1. p \in Nat
  BY LenProperties DEF TypeOK
<1>2. placed' \in Seq(Placement)
  BY ExceptSeq DEF TypeOK, Becomes
<1>3. reports' \in Seq(Report)
  BY <1>1, ReportsOfType, ConcatProperties DEF TypeOK, Becomes
<1>. QED BY <1>2, <1>3

-----------------------------------------------------------------------------
(* Type correctness.                                                       *)

LEMMA InitType == Init => TypeOK
BY DEF Init, TypeOK

LEMMA PlaceType ==
  ASSUME TypeOK, NEW id \in Nat, Place(id)
  PROVE  /\ DOMAIN orders_' \subseteq Nat /\ orders_' \in [DOMAIN orders_' -> Order]
         /\ requests' \in Seq(Request) /\ placed' \in Seq(Placement)
         /\ reports' \in Seq(Report) /\ missed' \subseteq Nat
<1>. DEFINE p == Len(placed) + 1
<1>1. PICK qty \in 1..MaxQty :
        /\ placed' = Append(placed, [id |-> id, phase |-> "sent", qty |-> qty,
                                     cum |-> 0, finished |-> FALSE])
        /\ orders_' = Added(id, [placement |-> p, status |-> "invalid",
                                 pending |-> "place", qty |-> qty])
        /\ Send([kind |-> "place", id |-> id, placement |-> p, qty |-> qty])
  BY DEF Place
<1>2. p \in Nat /\ qty \in Nat
  BY LenProperties, BoundsAssumption DEF TypeOK
<1>3. placed' \in Seq(Placement)
  <2>1. [id |-> id, phase |-> "sent", qty |-> qty, cum |-> 0, finished |-> FALSE]
          \in Placement
    BY <1>2 DEF Placement
  <2>. QED BY <1>1, <2>1, AppendProperties DEF TypeOK
<1>4. /\ DOMAIN orders_' \subseteq Nat
      /\ orders_' \in [DOMAIN orders_' -> Order]
  <2>1. [placement |-> p, status |-> "invalid", pending |-> "place", qty |-> qty] \in Order
    BY <1>2 DEF Order, OrderStatus, PendingAction
  <2>. HIDE DEF p
  <2>. QED BY <1>1, <2>1, AddedType
<1>5. requests' \in Seq(Request)
  <2>1. [kind |-> "place", id |-> id, placement |-> p, qty |-> qty] \in Request
    BY <1>2 DEF Request
  <2>. HIDE DEF p
  <2>. QED BY <1>1, <2>1, SendType
<1>. QED BY <1>3, <1>4, <1>5 DEF Place, TypeOK

LEMMA MeantType ==
  ASSUME TypeOK, NEW id
  PROVE  Meant(id) \in Nat
BY DEF Meant, TypeOK, Order

LEMMA CallType ==
  ASSUME TypeOK, PlaceOrderAutoId \/ PlaceOrderManualId \/ CancelOrder \/ AmendOrder
  PROVE  TypeOK'
<1>1. CASE PlaceOrderAutoId
  <2>1. Place(UniqueID) /\ TakeUniqueID
    BY <1>1 DEF PlaceOrderAutoId
  <2>2. pool_' \in Seq(Nat) /\ current_id_' \in Nat
    <3>1. CASE pool_ # <<>>
      BY <2>1, <3>1, HeadTailProperties DEF TakeUniqueID, TypeOK
    <3>2. CASE pool_ = <<>>
      BY <2>1, <3>2 DEF TakeUniqueID, TypeOK
    <3>. QED BY <3>1, <3>2
  <2>. QED BY <2>1, <2>2, UniqueIDType, PlaceType DEF TypeOK
<1>2. CASE PlaceOrderManualId
  <2>1. PICK uid \in ManualIds : Place(uid)
    BY <1>2 DEF PlaceOrderManualId
  <2>2. uid \in Nat
    BY InputsAssumption
  <2>. QED BY <1>2, <2>1, <2>2, PlaceType DEF TypeOK, PlaceOrderManualId
<1>3. CASE CancelOrder
  <2>1. PICK id \in CalledIds :
          /\ orders_' = StatusUpdated(id, "invalid", "cancel")
          /\ Send([kind |-> "cancel", id |-> id, placement |-> Meant(id), qty |-> 0])
    BY <1>3 DEF CancelOrder
  <2>2. [kind |-> "cancel", id |-> id, placement |-> Meant(id), qty |-> 0] \in Request
    BY MeantType, InputsAssumption DEF Request
  <2>3. requests' \in Seq(Request)
    BY <2>1, <2>2, SendType
  <2>4. DOMAIN orders_' = DOMAIN orders_ /\ orders_' \in [DOMAIN orders_ -> Order]
    BY <2>1, StatusUpdatedType DEF OrderStatus, PendingAction
  <2>. QED BY <1>3, <2>3, <2>4 DEF TypeOK, CancelOrder
<1>4. CASE AmendOrder
  <2>1. PICK id \in CalledIds, qty \in AmendedQtys :
          /\ orders_' = StatusUpdated(id, "invalid", "amend")
          /\ Send([kind |-> "amend", id |-> id, placement |-> Meant(id), qty |-> qty])
    BY <1>4 DEF AmendOrder
  <2>2. [kind |-> "amend", id |-> id, placement |-> Meant(id), qty |-> qty] \in Request
    BY MeantType, InputsAssumption DEF Request
  <2>3. requests' \in Seq(Request)
    BY <2>1, <2>2, SendType
  <2>4. DOMAIN orders_' = DOMAIN orders_ /\ orders_' \in [DOMAIN orders_ -> Order]
    BY <2>1, StatusUpdatedType DEF OrderStatus, PendingAction
  <2>. QED BY <1>4, <2>3, <2>4 DEF TypeOK, AmendOrder
<1>. QED BY <1>1, <1>2, <1>3, <1>4

LEMMA PlacementFields ==
  ASSUME TypeOK, NEW p \in DOMAIN placed
  PROVE  placed[p] \in Placement /\ p \in Nat
BY ElementOfSeq, LenProperties DEF TypeOK

LEMMA StatusesType ==
  /\ <<"new">> \in Seq(OrderStatus \cup Terminal)
  /\ <<"pending_new", "new">> \in Seq(OrderStatus \cup Terminal)
  /\ <<"partially_filled">> \in Seq(OrderStatus \cup Terminal)
  /\ \A t \in Terminal : <<t>> \in Seq(OrderStatus \cup Terminal)
BY DEF OrderStatus, Terminal

\* The oldest request and, of the requests that announce an order, what is
\* known of it.
LEMMA HeadRequest ==
  ASSUME TypeOK, RequestsInv, requests # <<>>
  PROVE  /\ Head(requests) \in Request
         /\ Tail(requests) \in Seq(Request)
         /\ 1 \in DOMAIN requests /\ Head(requests) = requests[1]
         /\ Head(requests).kind = "place" =>
              /\ Head(requests).placement \in DOMAIN placed
              /\ placed[Head(requests).placement].phase = "sent"
<1>1. Head(requests) \in Request /\ Tail(requests) \in Seq(Request)
  BY HeadTailProperties DEF TypeOK
<1>2. 1 \in DOMAIN requests /\ Head(requests) = requests[1]
  BY EmptySeq, LenProperties DEF TypeOK
<1>. QED BY <1>1, <1>2 DEF RequestsInv, IsPlace

\* The exchange is asked to change an order.
Amends == requests # <<>> /\ Head(requests).kind = "amend"

\* The statuses with which order is reported are those of an order that goes on.  Unless it
\* was asked to change the order, the exchange reports what is left of it whenever that changes.
GoesOn(p, order, statuses) ==
  /\ order.phase = "open" /\ Len(statuses) > 0
  /\ \A i \in 1..Len(statuses) : statuses[i] \notin Terminal
  /\ \/ Amends
     \/ Len(statuses) = 1 /\ statuses[1] = "partially_filled"
     \/ /\ order.qty = placed[p].qty /\ order.cum = placed[p].cum
        /\ \A i \in 1..Len(statuses) : statuses[i] # "partially_filled"

Over(order, statuses) ==
  order.phase = "ended" /\ Len(statuses) = 1 /\ statuses[1] \in Terminal

\* What the exchange does to a placement: p becomes order, which it reports
\* with statuses.  It ends orders it knows, and once.
LegalChange(p, order, statuses) ==
  /\ order \in Placement
  /\ statuses \in Seq(OrderStatus \cup Terminal)
  /\ order.id = placed[p].id
  /\ order.finished = placed[p].finished
  /\ Over(order, statuses) \/ GoesOn(p, order, statuses)

\* A change of the exchange, on a request of the program or on its own.
ExchangeStep(p) ==
  /\ p \in DOMAIN placed
  /\ placed[p].phase # "ended"
  /\ \E order, statuses : LegalChange(p, order, statuses) /\ Becomes(p, order, statuses)

LEMMA OpenPlacement ==
  ASSUME TypeOK, NEW id, NEW p \in OpenUnder(id)
  PROVE  p \in DOMAIN placed /\ placed[p].phase = "open" /\ placed[p] \in Placement
BY PlacementFields DEF OpenUnder

LEMMA EndsLegally ==
  ASSUME TypeOK, NEW p \in DOMAIN placed, NEW t \in Terminal
  PROVE  LegalChange(p, [placed[p] EXCEPT !.phase = "ended"], <<t>>)
<1>1. [placed[p] EXCEPT !.phase = "ended"] \in Placement
  BY PlacementFields DEF Placement
<1>2. [placed[p] EXCEPT !.phase = "ended"].id = placed[p].id
      /\ [placed[p] EXCEPT !.phase = "ended"].phase = "ended"
      /\ [placed[p] EXCEPT !.phase = "ended"].finished = placed[p].finished
  BY PlacementFields DEF Placement
<1>3. Over([placed[p] EXCEPT !.phase = "ended"], <<t>>)
  BY <1>2 DEF Over
<1>. QED BY <1>1, <1>2, <1>3, StatusesType DEF LegalChange

\* A request is answered by a legal change, or by none.
LEMMA RequestSteps ==
  ASSUME TypeOK, RequestsInv, HandleRequest
  PROVE  /\ requests # <<>> /\ requests' = Tail(requests)
         /\ UNCHANGED <<orders_, pool_, current_id_>>
         /\ \/ UNCHANGED <<placed, reports>> /\ Head(requests).kind # "place"
            \/ \E p : ExchangeStep(p) /\ (\/ Head(requests).kind # "place"
                                             /\ placed[p].phase = "open"
                                          \/ Head(requests).kind = "place"
                                             /\ p = Head(requests).placement)
<1>. DEFINE r == Head(requests)
<1>0. /\ requests # <<>> /\ requests' = Tail(requests)
      /\ UNCHANGED <<orders_, pool_, current_id_>>
      /\ AcceptOrReject(r) \/ NotOpen(r) \/ Cancel(r) \/ Amend(r)
  BY DEF HandleRequest
<1>1. CASE AcceptOrReject(r)
  <2>. DEFINE p == r.placement
  <2>1. r.kind = "place" /\ p \in DOMAIN placed /\ placed[p].phase = "sent"
    BY <1>0, <1>1, HeadRequest DEF AcceptOrReject
  <2>2. ASSUME NEW statuses \in {<<"new">>, <<"pending_new", "new">>},
               Becomes(p, [placed[p] EXCEPT !.phase = "open"], statuses)
        PROVE  ExchangeStep(p)
    <3>. DEFINE order == [placed[p] EXCEPT !.phase = "open"]
    <3>1. /\ order \in Placement
          /\ order.id = placed[p].id /\ order.phase = "open"
          /\ order.finished = placed[p].finished
          /\ order.qty = placed[p].qty /\ order.cum = placed[p].cum
      BY <2>1, PlacementFields DEF Placement
    <3>2. /\ Len(statuses) > 0
          /\ \A i \in 1..Len(statuses) : /\ statuses[i] \notin Terminal
                                         /\ statuses[i] # "partially_filled"
      BY DEF Terminal
    <3>. HIDE DEF order
    <3>3. LegalChange(p, order, statuses)
      BY <3>1, <3>2, StatusesType DEF LegalChange, GoesOn
    <3>. USE DEF order
    <3>. QED BY <2>1, <2>2, <3>3 DEF ExchangeStep
  <2>3. CASE Becomes(p, [placed[p] EXCEPT !.phase = "ended"], <<"rejected">>)
    <3>1. LegalChange(p, [placed[p] EXCEPT !.phase = "ended"], <<"rejected">>)
      BY <2>1, EndsLegally DEF Terminal
    <3>. QED BY <1>0, <2>1, <2>3, <3>1 DEF ExchangeStep
  <2>. QED BY <1>0, <1>1, <2>2, <2>3 DEF AcceptOrReject
<1>2. CASE NotOpen(r)
  BY <1>0, <1>2 DEF NotOpen
<1>3. CASE Cancel(r)
  <2>1. PICK p \in OpenUnder(r.id) :
               Becomes(p, [placed[p] EXCEPT !.phase = "ended"], <<"cancelled">>)
    BY <1>3 DEF Cancel
  <2>2. p \in DOMAIN placed /\ placed[p].phase = "open" /\ r.kind # "place"
    BY <1>3, OpenPlacement DEF Cancel
  <2>3. LegalChange(p, [placed[p] EXCEPT !.phase = "ended"], <<"cancelled">>)
    BY <2>2, EndsLegally DEF Terminal
  <2>. QED BY <1>0, <2>1, <2>2, <2>3 DEF ExchangeStep
<1>4. CASE Amend(r)
  <2>1. PICK p \in OpenUnder(r.id) :
               IF r.qty > placed[p].cum
               THEN Becomes(p, [placed[p] EXCEPT !.qty = r.qty],
                            <<StatusWhileOpen(placed[p])>>)
               ELSE UNCHANGED <<placed, reports>>
    BY <1>4 DEF Amend
  <2>2. p \in DOMAIN placed /\ placed[p].phase = "open" /\ placed[p] \in Placement
        /\ r.kind # "place" /\ r \in Request
    BY <1>0, <1>4, OpenPlacement, HeadRequest DEF Amend
  <2>3. CASE Becomes(p, [placed[p] EXCEPT !.qty = r.qty],
                     <<StatusWhileOpen(placed[p])>>)
    <3>1. [placed[p] EXCEPT !.qty = r.qty] \in Placement
          /\ [placed[p] EXCEPT !.qty = r.qty].id = placed[p].id
          /\ [placed[p] EXCEPT !.qty = r.qty].phase = "open"
          /\ [placed[p] EXCEPT !.qty = r.qty].finished = placed[p].finished
      BY <2>2 DEF Placement, Request
    <3>2. /\ <<StatusWhileOpen(placed[p])>> \in Seq(OrderStatus \cup Terminal)
          /\ StatusWhileOpen(placed[p]) \notin Terminal
      BY StatusesType DEF StatusWhileOpen, Terminal
    <3>4. Amends
      BY <1>0, <1>4 DEF Amend, Amends
    <3>3. LegalChange(p, [placed[p] EXCEPT !.qty = r.qty],
                      <<StatusWhileOpen(placed[p])>>)
      BY <3>1, <3>2, <3>4 DEF LegalChange, GoesOn
    <3>. QED BY <1>0, <2>2, <2>3, <3>3 DEF ExchangeStep
  <2>4. CASE UNCHANGED <<placed, reports>>
    BY <1>0, <2>2, <2>4
  <2>. QED BY <2>1, <2>3, <2>4
<1>. QED BY <1>0, <1>1, <1>2, <1>3, <1>4

\* So are fills and expiries.
LEMMA MarketSteps ==
  ASSUME TypeOK, Fill \/ Expire
  PROVE  /\ UNCHANGED <<orders_, pool_, current_id_, requests>>
         /\ \E p : ExchangeStep(p) /\ placed[p].phase = "open"
<1>1. CASE Fill
  <2>0. PICK p \in DOMAIN placed :
          \E cum \in (placed[p].cum + 1)..placed[p].qty :
            /\ placed[p].phase = "open"
            /\ IF cum = placed[p].qty
               THEN Becomes(p, [placed[p] EXCEPT !.cum = cum, !.phase = "ended"],
                            <<"filled">>)
               ELSE Becomes(p, [placed[p] EXCEPT !.cum = cum], <<"partially_filled">>)
    BY <1>1 DEF Fill
  <2>1. PICK cum \in (placed[p].cum + 1)..placed[p].qty :
          /\ placed[p].phase = "open"
          /\ IF cum = placed[p].qty
             THEN Becomes(p, [placed[p] EXCEPT !.cum = cum, !.phase = "ended"],
                          <<"filled">>)
             ELSE Becomes(p, [placed[p] EXCEPT !.cum = cum], <<"partially_filled">>)
    BY <2>0
  <2>2. placed[p] \in Placement /\ cum \in Nat
    <3>1. placed[p] \in Placement
      BY PlacementFields
    <3>. QED BY <3>1 DEF Placement
  <2>. DEFINE full == [placed[p] EXCEPT !.cum = cum, !.phase = "ended"]
              part == [placed[p] EXCEPT !.cum = cum]
  <2>3. CASE Becomes(p, full, <<"filled">>)
    <3>1. /\ full \in Placement /\ full.id = placed[p].id
          /\ full.phase = "ended" /\ full.finished = placed[p].finished
      BY <2>2 DEF Placement
    <3>2. Len(<<"filled">>) = 1 /\ <<"filled">> \in Seq(OrderStatus \cup Terminal)
      BY StatusesType DEF Terminal
    <3>. HIDE DEF full
    <3>3. LegalChange(p, full, <<"filled">>)
      BY <3>1, <3>2 DEF LegalChange, Over, Terminal
    <3>. QED BY <1>1, <2>1, <2>3, <3>3 DEF Fill, ExchangeStep
  <2>4. CASE Becomes(p, part, <<"partially_filled">>)
    <3>1. /\ part \in Placement /\ part.id = placed[p].id
          /\ part.phase = "open" /\ part.finished = placed[p].finished
      BY <2>1, <2>2 DEF Placement
    <3>2. /\ <<"partially_filled">> \in Seq(OrderStatus \cup Terminal)
          /\ Len(<<"partially_filled">>) = 1
          /\ \A i \in 1..1 : <<"partially_filled">>[i] \notin Terminal
      BY StatusesType DEF Terminal
    <3>. HIDE DEF part
    <3>3. LegalChange(p, part, <<"partially_filled">>)
      BY <3>1, <3>2 DEF LegalChange, GoesOn
    <3>. QED BY <1>1, <2>1, <2>4, <3>3 DEF Fill, ExchangeStep
  <2>. QED BY <2>1, <2>3, <2>4
<1>2. CASE Expire
  <2>1. PICK p \in DOMAIN placed :
          /\ placed[p].phase = "open"
          /\ Becomes(p, [placed[p] EXCEPT !.phase = "ended"], <<"expired">>)
    BY <1>2 DEF Expire
  <2>2. LegalChange(p, [placed[p] EXCEPT !.phase = "ended"], <<"expired">>)
    BY EndsLegally DEF Terminal
  <2>. QED BY <1>2, <2>1, <2>2 DEF Expire, ExchangeStep
<1>. QED BY <1>1, <1>2

-----------------------------------------------------------------------------
(* What a step of the exchange leaves behind.                              *)

\* What the new reports say of p.
Tells(p) ==
  LET new == DOMAIN reports' \ DOMAIN reports
  IN  /\ new # {} /\ \A i \in new, j \in DOMAIN reports : j < i
      /\ \A i \in new : /\ reports'[i].qty = placed'[p].qty
                        /\ reports'[i].cum = placed'[p].cum
      /\ placed'[p].phase = "ended" => \E i \in new : reports'[i].status \in Terminal
      /\ \/ placed'[p].phase = "ended"
         \/ Amends
         \/ \E i \in new : reports'[i].status = "partially_filled" /\ new = {i}
         \/ /\ placed'[p].qty = placed[p].qty /\ placed'[p].cum = placed[p].cum
            /\ \A i \in new : reports'[i].status # "partially_filled"

LEMMA ExchangeEffect ==
  ASSUME TypeOK, NEW p, ExchangeStep(p)
  PROVE  /\ placed' \in Seq(Placement) /\ reports' \in Seq(Report)
         /\ p \in DOMAIN placed /\ DOMAIN placed' = DOMAIN placed
         /\ \A q \in DOMAIN placed : placed'[q].id = placed[q].id
                                     /\ placed'[q].finished = placed[q].finished
                                     /\ (q # p => placed'[q] = placed[q])
         /\ placed[p].phase # "ended" /\ placed'[p].phase # "sent"
         /\ DOMAIN reports \subseteq DOMAIN reports'
         /\ \A i \in DOMAIN reports : reports'[i] = reports[i]
         /\ \A i \in DOMAIN reports' \ DOMAIN reports :
              /\ reports'[i].placement = p /\ reports'[i].id = placed[p].id
              /\ reports'[i].status \in Terminal =>
                   /\ placed'[p].phase = "ended"
                   /\ \A j \in DOMAIN reports' \ DOMAIN reports : j = i
         /\ Tells(p)
<1>1. PICK order, statuses : LegalChange(p, order, statuses) /\ Becomes(p, order, statuses)
  BY DEF ExchangeStep
<1>2. p \in DOMAIN placed /\ placed[p].phase # "ended" /\ p \in 1..Len(placed) /\ p \in Nat
  BY LenProperties DEF ExchangeStep, TypeOK
<1>3. /\ order \in Placement /\ statuses \in Seq(OrderStatus \cup Terminal)
      /\ order.id = placed[p].id /\ order.finished = placed[p].finished
      /\ order.phase # "sent"
      /\ Len(statuses) > 0
      /\ Over(order, statuses) \/ GoesOn(p, order, statuses)
  BY <1>1 DEF LegalChange, Over, GoesOn
<1>4. placed' \in Seq(Placement) /\ reports' \in Seq(Report)
  BY <1>1, <1>2, <1>3, BecomesType
<1>5. /\ DOMAIN placed' = DOMAIN placed
      /\ placed'[p] = order
      /\ \A q \in DOMAIN placed : q # p => placed'[q] = placed[q]
  BY <1>1, <1>2 DEF Becomes
<1>. DEFINE new == [i \in 1..Len(statuses) |-> ReportOf(p, order, statuses[i])]
<1>6. reports' = reports \o new
  BY <1>1 DEF Becomes
<1>7. new \in Seq(Report) /\ Len(new) = Len(statuses) /\ Len(statuses) \in Nat
  <2>1. new \in Seq(Report)
    BY <1>2, <1>3, ReportsOfType
  <2>2. Len(statuses) \in Nat /\ DOMAIN new = 1..Len(statuses)
    BY <1>3, LenProperties
  <2>. HIDE DEF new
  <2>. QED BY <2>1, <2>2, LenProperties
<1>8. \A i \in 1..Len(statuses) :
        /\ new[i].placement = p /\ new[i].id = placed[p].id /\ new[i].status = statuses[i]
        /\ new[i].qty = order.qty /\ new[i].cum = order.cum
  BY <1>3 DEF ReportOf
<1>. HIDE DEF new
<1>9. reports \in Seq(Report) /\ Len(reports) \in Nat /\ DOMAIN reports = 1..Len(reports)
  BY LenProperties DEF TypeOK
<1>10. /\ DOMAIN reports' = 1..Len(reports) + Len(statuses)
       /\ \A i \in 1..Len(reports) : reports'[i] = reports[i]
       /\ \A i \in DOMAIN reports' : i \notin 1..Len(reports) =>
            i - Len(reports) \in 1..Len(statuses) /\ reports'[i] = new[i - Len(reports)]
  <2>1. DOMAIN reports' = 1..Len(reports) + Len(statuses)
    <3>1. Len(reports') = Len(reports) + Len(statuses)
      BY <1>6, <1>7, <1>9, ConcatProperties
    <3>2. DOMAIN reports' = 1..Len(reports')
      BY <1>4, LenProperties
    <3>. QED BY <3>1, <3>2
  <2>2. \A i \in 1..Len(reports) + Len(statuses) :
          reports'[i] = IF i <= Len(reports) THEN reports[i] ELSE new[i - Len(reports)]
    BY <1>6, <1>7, <1>9, ConcatProperties
  <2>. QED BY <1>7, <1>9, <2>1, <2>2
<1>11. ASSUME NEW i \in DOMAIN reports' \ DOMAIN reports
       PROVE  /\ reports'[i].placement = p /\ reports'[i].id = placed[p].id
              /\ reports'[i].status \in Terminal =>
                   /\ placed'[p].phase = "ended"
                   /\ \A j \in DOMAIN reports' \ DOMAIN reports : j = i
  <2>. DEFINE k == i - Len(reports)
  <2>1. i \notin 1..Len(reports)
    BY <1>9
  <2>2. k \in 1..Len(statuses) /\ reports'[i] = new[k]
    BY <1>10, <2>1
  <2>3. CASE Over(order, statuses)
    <3>1. \A j \in DOMAIN reports' \ DOMAIN reports : j = Len(reports) + 1
      BY <1>9, <1>10, <2>3 DEF Over
    <3>. QED BY <1>5, <1>8, <2>2, <2>3, <3>1 DEF Over
  <2>4. CASE GoesOn(p, order, statuses)
    <3>. HIDE DEF k
    <3>1. reports'[i].status \notin Terminal
      BY <1>8, <2>2, <2>4 DEF GoesOn
    <3>. QED BY <1>8, <2>2, <3>1
  <2>. QED BY <1>3, <2>3, <2>4
<1>12. \A q \in DOMAIN placed : placed'[q].id = placed[q].id
                                /\ placed'[q].finished = placed[q].finished
  BY <1>3, <1>5
<1>13. DOMAIN reports \subseteq DOMAIN reports'
       /\ \A i \in DOMAIN reports : reports'[i] = reports[i]
  BY <1>7, <1>9, <1>10
<1>14. Tells(p)
  <2>. DEFINE later == DOMAIN reports' \ DOMAIN reports
              n == Len(reports)
  <2>0. /\ n \in Nat /\ DOMAIN reports = 1..n /\ Len(statuses) \in Nat \ {0}
        /\ DOMAIN reports' = 1..(n + Len(statuses))
    BY <1>3, <1>7, <1>9, <1>10
  <2>1. n + 1 \in later /\ \A i \in later, j \in DOMAIN reports : j < i
    <3>. HIDE DEF n
    <3>. QED BY <2>0
  <2>2. \A i \in later : i - n \in 1..Len(statuses) /\ reports'[i] = new[i - n]
    BY <1>9, <1>10
  <2>. HIDE DEF later, n
  <2>3. \A i \in later :
          /\ reports'[i].qty = placed'[p].qty /\ reports'[i].cum = placed'[p].cum
          /\ reports'[i].status = statuses[i - n]
    BY <1>5, <1>8, <2>2
  <2>4. Len(statuses) = 1 => later = {n + 1} /\ reports'[n + 1].status = statuses[1]
    <3>1. Len(statuses) = 1 => \A i \in later : i - n = 1 /\ i = n + 1
      BY <1>7, <1>9, <1>10, <2>2 DEF later, n
    <3>. QED BY <2>1, <2>3, <3>1
  <2>5. placed'[p] = order /\ (order.phase = "ended" => Over(order, statuses))
    BY <1>3, <1>5 DEF GoesOn
  <2>6. CASE Over(order, statuses)
    BY <2>1, <2>3, <2>4, <2>5, <2>6 DEF Tells, Over, later
  <2>7. CASE GoesOn(p, order, statuses)
    <3>1. \/ Amends
          \/ later = {n + 1} /\ reports'[n + 1].status = "partially_filled"
          \/ /\ placed'[p].qty = placed[p].qty /\ placed'[p].cum = placed[p].cum
             /\ \A i \in later : reports'[i].status # "partially_filled"
      BY <2>2, <2>3, <2>4, <2>5, <2>7 DEF GoesOn
    <3>. QED BY <2>1, <2>3, <2>5, <2>7, <3>1 DEF Tells, GoesOn, later
  <2>. QED BY <1>3, <2>6, <2>7
<1>. QED BY <1>2, <1>3, <1>4, <1>5, <1>11, <1>12, <1>13, <1>14

LEMMA ExchangeReports ==
  ASSUME TypeOK, ReportsInv, NEW p, ExchangeStep(p)
  PROVE  ReportsInv'
<1>1. \A i \in DOMAIN reports' :
        /\ reports'[i].placement \in DOMAIN placed'
        /\ reports'[i].id = placed'[reports'[i].placement].id
  BY ExchangeEffect DEF ReportsInv
<1>2. ASSUME NEW i \in DOMAIN reports', reports'[i].status \in Terminal
      PROVE  /\ placed'[reports'[i].placement].phase = "ended"
             /\ ~placed'[reports'[i].placement].finished
             /\ \A j \in DOMAIN reports' :
                  reports'[j].status \in Terminal
                  /\ reports'[j].placement = reports'[i].placement => j = i
  <2>1. CASE i \in DOMAIN reports
    <3>1. /\ reports'[i] = reports[i] /\ reports[i].placement # p
          /\ reports[i].placement \in DOMAIN placed
          /\ placed[reports[i].placement].phase = "ended"
          /\ ~placed[reports[i].placement].finished
      BY <1>2, <2>1, ExchangeEffect DEF ReportsInv, IsLast
    <3>2. \A j \in DOMAIN reports' : reports'[j].placement # p => j \in DOMAIN reports
      BY ExchangeEffect
    <3>3. \A j \in DOMAIN reports : reports[j].status \in Terminal
            /\ reports[j].placement = reports[i].placement => j = i
      BY <1>2, <2>1, <3>1 DEF ReportsInv, IsLast
    <3>4. \A j \in DOMAIN reports : reports'[j] = reports[j]
      BY ExchangeEffect
    <3>5. placed'[reports[i].placement] = placed[reports[i].placement]
      BY <3>1, ExchangeEffect
    <3>. QED BY <3>1, <3>2, <3>3, <3>4, <3>5
  <2>2. CASE i \notin DOMAIN reports
    <3>1. /\ reports'[i].placement = p /\ placed'[p].phase = "ended"
          /\ p \in DOMAIN placed /\ placed[p].phase # "ended"
          /\ \A j \in DOMAIN reports' \ DOMAIN reports : j = i
      BY <1>2, <2>2, ExchangeEffect
    <3>2. ~placed[p].finished
      BY <3>1 DEF ReportsInv
    <3>3. ~placed'[p].finished
      BY <3>1, <3>2, ExchangeEffect
    <3>4. \A j \in DOMAIN reports : reports'[j] = reports[j]
      BY ExchangeEffect
    <3>5. \A j \in DOMAIN reports : reports[j].status \in Terminal => reports[j].placement # p
      BY <3>1 DEF ReportsInv, IsLast
    <3>. QED BY <3>1, <3>3, <3>4, <3>5
  <2>. QED BY <2>1, <2>2
<1>3. ASSUME NEW q \in DOMAIN placed', placed'[q].finished
      PROVE  placed'[q].phase = "ended"
  <2>1. q \in DOMAIN placed /\ placed[q].finished
    BY <1>3, ExchangeEffect
  <2>2. placed[q].phase = "ended" /\ q # p
    BY <2>1, ExchangeEffect DEF ReportsInv
  <2>. QED BY <2>1, <2>2, ExchangeEffect
<1>. QED BY <1>1, <1>2, <1>3 DEF ReportsInv, IsLast

\* Ids are left alone.
LEMMA ExchangeIds ==
  ASSUME TypeOK, IdsInv, NEW p, ExchangeStep(p),
         UNCHANGED <<orders_, pool_, current_id_>>
  PROVE  IdsInv'
<1>1. /\ DOMAIN placed' = DOMAIN placed
      /\ \A q \in DOMAIN placed : placed'[q].id = placed[q].id
                                  /\ placed'[q].finished = placed[q].finished
  BY ExchangeEffect
<1>2. Unfinished' = Unfinished /\ Unfinished \subseteq DOMAIN placed
  BY <1>1 DEF Unfinished
<1>3. \A q \in Unfinished : placed'[q].id = placed[q].id
  BY <1>1, <1>2
<1>4. {placed'[q].id : q \in Unfinished'} = {placed[q].id : q \in Unfinished}
  BY <1>2, <1>3
<1>5. UniqueIds' /\ PoolHoldsFreeIds'
  BY <1>2, <1>3 DEF IdsInv, UniqueIds, PoolHoldsFreeIds
<1>6. StorageHoldsUnfinished'
  BY <1>2, <1>3, <1>4 DEF IdsInv, StorageHoldsUnfinished
<1>7. \A q \in Unfinished' : placed'[q].id < current_id_'
  BY <1>2, <1>3 DEF IdsInv
<1>. QED BY <1>5, <1>6, <1>7 DEF IdsInv

-----------------------------------------------------------------------------
(* The requests on their way.                                              *)

\* The requests that follow the oldest one.
LEMMA TailRequests ==
  ASSUME TypeOK, requests # <<>>, requests' = Tail(requests)
  PROVE  \A i \in DOMAIN requests' : /\ i \in Nat /\ i + 1 \in DOMAIN requests
                                     /\ requests'[i] = requests[i + 1]
<1>1. /\ requests' \in Seq(Request) /\ Len(requests') = Len(requests) - 1
      /\ \A i \in 1..Len(requests') : requests'[i] = requests[i + 1]
  BY HeadTailProperties DEF TypeOK
<1>2. DOMAIN requests' = 1..Len(requests') /\ DOMAIN requests = 1..Len(requests)
      /\ Len(requests) \in Nat
  BY <1>1, LenProperties DEF TypeOK
<1>. QED BY <1>1, <1>2

\* Nothing is lost when the oldest request is taken and placements that were
\* sent and are not announced by it stay as they are.
LEMMA RequestsTaken ==
  ASSUME TypeOK, RequestsInv, requests # <<>>, requests' = Tail(requests),
         DOMAIN placed' = DOMAIN placed,
         \A q \in DOMAIN placed :
           \/ placed'[q] = placed[q]
           \/ placed[q].phase # "sent"
           \/ Head(requests).kind = "place" /\ Head(requests).placement = q
  PROVE  RequestsInv'
<1>1. ASSUME NEW i \in DOMAIN requests', requests'[i].kind = "place"
      PROVE  /\ requests'[i].placement \in DOMAIN placed'
             /\ placed'[requests'[i].placement].phase = "sent"
             /\ \A j \in DOMAIN requests' :
                  requests'[j].kind = "place"
                  /\ requests'[j].placement = requests'[i].placement => j = i
  <2>. DEFINE q == requests[i + 1].placement
  <2>1. /\ i \in Nat /\ i + 1 \in DOMAIN requests /\ requests'[i] = requests[i + 1]
        /\ IsPlace(i + 1)
    BY <1>1, TailRequests DEF IsPlace
  <2>2. /\ q \in DOMAIN placed /\ placed[q].phase = "sent"
        /\ \A j \in DOMAIN requests : IsPlace(j) /\ requests[j].placement = q => j = i + 1
    BY <2>1 DEF RequestsInv
  <2>3. 1 \in DOMAIN requests /\ Head(requests) = requests[1] /\ 1 # i + 1
    <3>1. i # 0
      BY <1>1, <2>1, HeadTailProperties, LenProperties DEF TypeOK
    <3>. QED BY <2>1, <3>1, HeadRequest
  <2>4. ~(Head(requests).kind = "place" /\ Head(requests).placement = q)
    BY <2>2, <2>3 DEF IsPlace
  <2>5. placed'[q] = placed[q]
    BY <2>2, <2>4
  <2>6. ASSUME NEW j \in DOMAIN requests', requests'[j].kind = "place",
               requests'[j].placement = q
        PROVE  j = i
    <3>1. j \in Nat /\ j + 1 \in DOMAIN requests /\ requests'[j] = requests[j + 1]
      BY TailRequests
    <3>2. j + 1 = i + 1
      BY <2>2, <2>6, <3>1 DEF IsPlace
    <3>. QED BY <2>1, <3>1, <3>2
  <2>. QED BY <2>1, <2>2, <2>5, <2>6
<1>. QED BY <1>1 DEF RequestsInv, IsPlace

\* The steps of the exchange.
LEMMA ExchangeKeeps ==
  ASSUME TypeOK, RequestsInv, ReportsInv, HandleRequest \/ Fill \/ Expire
  PROVE  TypeOK' /\ RequestsInv' /\ ReportsInv' /\ (IdsInv => IdsInv')
<1>1. CASE HandleRequest
  <2>1. /\ requests # <<>> /\ requests' = Tail(requests)
        /\ UNCHANGED <<orders_, pool_, current_id_>>
    BY <1>1, RequestSteps
  <2>2. requests' \in Seq(Request)
    BY <2>1, HeadRequest
  <2>3. CASE UNCHANGED <<placed, reports>>
    <3>1. RequestsInv'
      BY <2>1, <2>3, RequestsTaken
    <3>2. TypeOK'
      BY <1>1, <2>1, <2>2, <2>3 DEF TypeOK, HandleRequest
    <3>3. ReportsInv'
      BY <2>3 DEF ReportsInv, IsLast
    <3>4. IdsInv => IdsInv'
      BY <2>1, <2>3 DEF IdsInv, UniqueIds, PoolHoldsFreeIds, StorageHoldsUnfinished, Unfinished
    <3>. QED BY <3>1, <3>2, <3>3, <3>4
  <2>4. ASSUME NEW p, ExchangeStep(p),
               \/ Head(requests).kind # "place" /\ placed[p].phase = "open"
               \/ Head(requests).kind = "place" /\ p = Head(requests).placement
        PROVE  TypeOK' /\ RequestsInv' /\ ReportsInv' /\ (IdsInv => IdsInv')
    <3>1. TypeOK'
      BY <1>1, <2>1, <2>2, <2>4, ExchangeEffect DEF TypeOK, HandleRequest
    <3>2. RequestsInv'
      <4>1. /\ p \in DOMAIN placed /\ DOMAIN placed' = DOMAIN placed
            /\ \A q \in DOMAIN placed : q # p => placed'[q] = placed[q]
        BY <2>4, ExchangeEffect
      <4>2. \/ placed[p].phase # "sent"
            \/ Head(requests).kind = "place" /\ Head(requests).placement = p
        BY <2>4
      <4>. QED BY <2>1, <4>1, <4>2, RequestsTaken
    <3>3. ReportsInv'
      BY <2>4, ExchangeReports
    <3>4. IdsInv => IdsInv'
      BY <2>1, <2>4, ExchangeIds
    <3>. QED BY <3>1, <3>2, <3>3, <3>4
  <2>. QED BY <1>1, <2>3, <2>4, RequestSteps
<1>2. CASE Fill \/ Expire
  <2>1. PICK p : ExchangeStep(p) /\ placed[p].phase = "open"
    BY <1>2, MarketSteps
  <2>2. UNCHANGED <<orders_, pool_, current_id_, requests>>
    BY <1>2, MarketSteps
  <2>3. TypeOK'
    BY <1>2, <2>1, <2>2, ExchangeEffect DEF TypeOK, Fill, Expire
  <2>4. RequestsInv'
    <3>1. /\ p \in DOMAIN placed /\ DOMAIN placed' = DOMAIN placed
          /\ \A q \in DOMAIN placed : q # p => placed'[q] = placed[q]
      BY <2>1, ExchangeEffect
    <3>2. \A i \in DOMAIN requests : IsPlace(i) => requests[i].placement # p
      BY <2>1 DEF RequestsInv
    <3>. QED BY <2>2, <3>1, <3>2 DEF RequestsInv, IsPlace
  <2>5. ReportsInv'
    BY <2>1, ExchangeReports
  <2>6. IdsInv => IdsInv'
    BY <2>1, <2>2, ExchangeIds
  <2>. QED BY <2>3, <2>4, <2>5, <2>6
<1>. QED BY <1>1, <1>2

-----------------------------------------------------------------------------
(* The calls.                                                              *)

\* A request that announces nothing is appended, or none is.
LEMMA OtherSent ==
  ASSUME TypeOK, RequestsInv, NEW r \in Request, r.kind # "place", Send(r),
         UNCHANGED placed
  PROVE  RequestsInv'
<1>1. CASE requests' = Append(requests, r)
  <2>1. /\ Len(requests') = Len(requests) + 1
        /\ \A i \in 1..Len(requests) : requests'[i] = requests[i]
        /\ requests'[Len(requests) + 1] = r
    BY <1>1, AppendProperties DEF TypeOK
  <2>2. DOMAIN requests' = 1..Len(requests') /\ DOMAIN requests = 1..Len(requests)
        /\ Len(requests) \in Nat
    BY SendType, LenProperties DEF TypeOK
  <2>3. \A i \in DOMAIN requests' : requests'[i].kind = "place" =>
          i \in DOMAIN requests /\ requests'[i] = requests[i]
    BY <2>1, <2>2
  <2>. QED BY <2>3 DEF RequestsInv, IsPlace
<1>2. CASE requests' = requests
  BY <1>2 DEF RequestsInv, IsPlace
<1>. QED BY <1>1, <1>2, Zenon DEF Send

\* Placing adds one placement at the end.
LEMMA PlaceEffect ==
  ASSUME TypeOK, NEW id \in Nat, Place(id)
  PROVE  LET p == Len(placed) + 1
         IN  /\ p \in Nat /\ p \notin DOMAIN placed
             /\ DOMAIN placed' = DOMAIN placed \cup {p}
             /\ \A q \in DOMAIN placed : placed'[q] = placed[q]
             /\ placed'[p].id = id /\ placed'[p].phase = "sent"
             /\ placed'[p].finished = FALSE
             /\ \E order : /\ order.placement = p /\ order.pending = "place"
                           /\ order.qty = placed'[p].qty - placed'[p].cum
                           /\ orders_' = Added(id, order)
             /\ \E r \in Request :
                  /\ r.kind = "place" /\ r.placement = p
                  /\ requests' = Append(requests, r) \/ (MayFail /\ requests' = requests)
             /\ requests' \in Seq(Request) /\ reports' = reports
<1>. DEFINE p == Len(placed) + 1
<1>1. PICK qty \in 1..MaxQty :
        /\ placed' = Append(placed, [id |-> id, phase |-> "sent", qty |-> qty,
                                     cum |-> 0, finished |-> FALSE])
        /\ orders_' = Added(id, [placement |-> p, status |-> "invalid",
                                 pending |-> "place", qty |-> qty])
        /\ Send([kind |-> "place", id |-> id, placement |-> p, qty |-> qty])
  BY DEF Place
<1>. DEFINE new == [id |-> id, phase |-> "sent", qty |-> qty, cum |-> 0,
                    finished |-> FALSE]
            r == [kind |-> "place", id |-> id, placement |-> p, qty |-> qty]
            order == [placement |-> p, status |-> "invalid", pending |-> "place",
                      qty |-> qty]
<1>2. p \in Nat /\ qty \in Nat /\ DOMAIN placed = 1..Len(placed) /\ Len(placed) \in Nat
  BY LenProperties, BoundsAssumption DEF TypeOK
<1>3. new \in Placement
  BY <1>2 DEF Placement
<1>4. /\ new.id = id /\ new.phase = "sent" /\ new.finished = FALSE
      /\ order.qty = new.qty - new.cum
  BY <1>2
<1>5. r \in Request /\ r.kind = "place" /\ r.placement = p
  BY <1>2 DEF Request
<1>6. order.placement = p /\ order.pending = "place" /\ orders_' = Added(id, order)
  BY <1>1
<1>. HIDE DEF new, r, order
<1>7. /\ Len(placed') = Len(placed) + 1
      /\ \A q \in 1..Len(placed) : placed'[q] = placed[q]
      /\ placed'[p] = new
  BY <1>1, <1>3, AppendProperties DEF TypeOK, new
<1>8. DOMAIN placed' = 1..Len(placed')
  BY PlaceType, LenProperties
<1>9. DOMAIN placed' = DOMAIN placed \cup {p} /\ p \notin DOMAIN placed
  BY <1>2, <1>7, <1>8
<1>10. requests' = Append(requests, r) \/ (MayFail /\ requests' = requests)
  BY <1>1, Zenon DEF Send, r
<1>11. requests' \in Seq(Request) /\ reports' = reports
  BY PlaceType DEF Place
<1>. HIDE DEF p
<1>. QED BY <1>2, <1>4, <1>5, <1>6, <1>7, <1>9, <1>10, <1>11 DEF p

LEMMA PlaceRequests ==
  ASSUME TypeOK, RequestsInv, ReportsInv, NEW id \in Nat, Place(id)
  PROVE  RequestsInv' /\ ReportsInv'
<1>. DEFINE p == Len(placed) + 1
<1>1. /\ p \notin DOMAIN placed
      /\ DOMAIN placed' = DOMAIN placed \cup {p}
      /\ \A q \in DOMAIN placed : placed'[q] = placed[q]
      /\ placed'[p].phase = "sent" /\ placed'[p].finished = FALSE
      /\ reports' = reports
  BY PlaceEffect
<1>2. PICK r \in Request : r.kind = "place" /\ r.placement = p
                           /\ (requests' = Append(requests, r) \/ requests' = requests)
  BY PlaceEffect
<1>. HIDE DEF p
<1>3. RequestsInv'
  <2>1. CASE requests' = Append(requests, r)
    <3>. DEFINE n == Len(requests) + 1
    <3>1. /\ Len(requests') = Len(requests) + 1
          /\ \A i \in 1..Len(requests) : requests'[i] = requests[i]
          /\ requests'[n] = r
      BY <2>1, AppendProperties DEF TypeOK
    <3>2. DOMAIN requests' = 1..Len(requests') /\ DOMAIN requests = 1..Len(requests)
          /\ Len(requests) \in Nat
      BY PlaceEffect, LenProperties DEF TypeOK
    <3>3. /\ DOMAIN requests' = DOMAIN requests \cup {n}
          /\ \A i \in DOMAIN requests : requests'[i] = requests[i]
      BY <3>1, <3>2
    <3>4. \A i \in DOMAIN requests : IsPlace(i) => requests[i].placement # p
      BY <1>1 DEF RequestsInv
    <3>. HIDE DEF n
    <3>. QED BY <1>1, <1>2, <3>1, <3>3, <3>4 DEF RequestsInv, IsPlace
  <2>2. CASE requests' = requests
    BY <1>1, <2>2 DEF RequestsInv, IsPlace
  <2>. QED BY <1>2, <2>1, <2>2
<1>4. ReportsInv'
  BY <1>1 DEF ReportsInv, IsLast
<1>. QED BY <1>3, <1>4

\* A generated id is free.
LEMMA UniqueIDFree ==
  ASSUME TypeOK, IdsInv
  PROVE  /\ UniqueID \in Nat
         /\ \A q \in Unfinished : placed[q].id # UniqueID
         /\ UniqueID \notin DOMAIN orders_
<1>1. UniqueID \in Nat
  BY UniqueIDType
<1>2. \A q \in Unfinished : placed[q].id # UniqueID
  <2>1. CASE pool_ = <<>>
    <3>1. \A q \in Unfinished : placed[q].id \in Nat
      BY PlacementFields DEF Unfinished, Placement
    <3>. QED BY <2>1, <3>1 DEF IdsInv, UniqueID, TypeOK
  <2>2. CASE pool_ # <<>>
    <3>1. 1 \in DOMAIN pool_ /\ Head(pool_) = pool_[1]
      BY <2>2, EmptySeq, LenProperties DEF TypeOK
    <3>. QED BY <2>2, <3>1 DEF IdsInv, PoolHoldsFreeIds, UniqueID
  <2>. QED BY <2>1, <2>2
<1>3. UniqueID \notin DOMAIN orders_
  BY <1>2 DEF IdsInv, StorageHoldsUnfinished
<1>. QED BY <1>1, <1>2, <1>3

\* What taking an id leaves in the pool and in the generator.
LEMMA TakenID ==
  ASSUME TypeOK, IdsInv, TakeUniqueID
  PROVE  /\ UniqueID < current_id_' /\ current_id_ <= current_id_'
         /\ \A i \in DOMAIN pool_' :
              /\ pool_'[i] < current_id_' /\ pool_'[i] # UniqueID
              /\ \A j \in DOMAIN pool_' : pool_'[i] = pool_'[j] => i = j
              /\ \A q \in Unfinished : placed[q].id # pool_'[i]
<1>1. CASE pool_ = <<>>
  BY <1>1 DEF UniqueID, TakeUniqueID, TypeOK
<1>2. CASE pool_ # <<>>
  <2>1. 1 \in DOMAIN pool_ /\ Head(pool_) = pool_[1] /\ DOMAIN pool_ = 1..Len(pool_)
        /\ Len(pool_) \in Nat
    BY <1>2, EmptySeq, LenProperties DEF TypeOK
  <2>2. pool_' = Tail(pool_) /\ current_id_' = current_id_ /\ UniqueID = pool_[1]
    BY <1>2, <2>1 DEF TakeUniqueID, UniqueID
  <2>3. /\ pool_' \in Seq(Nat) /\ Len(pool_') = Len(pool_) - 1
        /\ \A i \in 1..Len(pool_') : pool_'[i] = pool_[i + 1]
    BY <1>2, <2>2, HeadTailProperties DEF TypeOK
  <2>4. DOMAIN pool_' = 1..Len(pool_')
    BY <2>3, LenProperties
  <2>5. \A i \in DOMAIN pool_' : i + 1 \in DOMAIN pool_ /\ i + 1 # 1
                                 /\ pool_'[i] = pool_[i + 1] /\ i \in Nat
    BY <2>1, <2>3, <2>4
  <2>6. \A i \in DOMAIN pool_ :
          /\ pool_[i] < current_id_
          /\ \A j \in DOMAIN pool_ : pool_[i] = pool_[j] => i = j
          /\ \A q \in Unfinished : placed[q].id # pool_[i]
    BY DEF IdsInv, PoolHoldsFreeIds
  <2>7. current_id_ \in Nat
    BY DEF TypeOK
  <2>8. ASSUME NEW i \in DOMAIN pool_'
        PROVE  /\ pool_'[i] < current_id_' /\ pool_'[i] # UniqueID
               /\ \A j \in DOMAIN pool_' : pool_'[i] = pool_'[j] => i = j
               /\ \A q \in Unfinished : placed[q].id # pool_'[i]
    <3>1. pool_'[i] < current_id_' /\ \A q \in Unfinished : placed[q].id # pool_'[i]
      BY <2>2, <2>5, <2>6
    <3>2. pool_'[i] # UniqueID
      BY <2>1, <2>2, <2>5, <2>6
    <3>3. \A j \in DOMAIN pool_' : pool_'[i] = pool_'[j] => i + 1 = j + 1
      BY <2>5, <2>6
    <3>. QED BY <2>5, <3>1, <3>2, <3>3
  <2>9. UniqueID < current_id_' /\ current_id_ <= current_id_'
    BY <2>1, <2>2, <2>6, <2>7
  <2>. QED BY <2>8, <2>9
<1>. QED BY <1>1, <1>2

LEMMA AutoIdIds ==
  ASSUME TypeOK, IdsInv, PlaceOrderAutoId
  PROVE  IdsInv'
<1>. DEFINE p == Len(placed) + 1
            id == UniqueID
<1>0. Place(id) /\ TakeUniqueID /\ id \in Nat
  BY UniqueIDType DEF PlaceOrderAutoId
<1>1. /\ p \in Nat /\ p \notin DOMAIN placed
      /\ DOMAIN placed' = DOMAIN placed \cup {p}
      /\ \A q \in DOMAIN placed : placed'[q] = placed[q]
      /\ placed'[p].id = id /\ placed'[p].finished = FALSE
      /\ \E order : order.placement = p /\ orders_' = Added(id, order)
  BY <1>0, PlaceEffect
<1>. HIDE DEF p
<1>2. /\ \A q \in Unfinished : placed[q].id # id
      /\ id \notin DOMAIN orders_
  BY UniqueIDFree
<1>3. /\ id < current_id_' /\ current_id_ <= current_id_'
      /\ \A i \in DOMAIN pool_' :
           /\ pool_'[i] < current_id_' /\ pool_'[i] # id
           /\ \A j \in DOMAIN pool_' : pool_'[i] = pool_'[j] => i = j
           /\ \A q \in Unfinished : placed[q].id # pool_'[i]
  BY <1>0, TakenID
<1>. HIDE DEF id
<1>4. Unfinished' = Unfinished \cup {p} /\ p \notin Unfinished
      /\ \A q \in Unfinished : placed'[q] = placed[q]
  BY <1>1 DEF Unfinished
<1>5. \A q \in Unfinished' : placed'[q].id < current_id_'
  <2>1. \A q \in Unfinished : placed[q].id < current_id_ /\ placed[q].id \in Nat
    BY PlacementFields DEF IdsInv, Unfinished, Placement
  <2>2. current_id_ \in Nat /\ current_id_' \in Nat
    BY <1>0, CallType DEF TypeOK
  <2>. QED BY <1>1, <1>3, <1>4, <2>1, <2>2
<1>6. UniqueIds'
  BY <1>1, <1>2, <1>4 DEF IdsInv, UniqueIds
<1>7. PoolHoldsFreeIds'
  BY <1>1, <1>3, <1>4 DEF PoolHoldsFreeIds
<1>8. StorageHoldsUnfinished'
  <2>1. PICK order : order.placement = p /\ orders_' = Added(id, order)
    BY <1>1
  <2>2. /\ DOMAIN orders_' = DOMAIN orders_ \cup {id}
        /\ orders_'[id] = order
        /\ \A i \in DOMAIN orders_ : orders_'[i] = orders_[i]
    BY <1>2, <2>1 DEF Added
  <2>3. DOMAIN orders_' = {placed'[q].id : q \in Unfinished'}
    BY <1>1, <1>4, <2>2 DEF IdsInv, StorageHoldsUnfinished
  <2>4. \A q \in Unfinished : orders_'[placed[q].id].placement = q
    BY <2>2 DEF IdsInv, StorageHoldsUnfinished
  <2>5. orders_'[placed'[p].id].placement = p
    BY <1>1, <2>1, <2>2
  <2>. QED BY <1>4, <2>3, <2>4, <2>5 DEF StorageHoldsUnfinished
<1>. QED BY <1>5, <1>6, <1>7, <1>8 DEF IdsInv

\* Cancelling and amending change no id.
LEMMA OtherCallKeeps ==
  ASSUME TypeOK, RequestsInv, ReportsInv, CancelOrder \/ AmendOrder
  PROVE  RequestsInv' /\ ReportsInv' /\ (IdsInv => IdsInv')
<1>1. PICK id \in CalledIds, pending \in {"cancel", "amend"}, qty \in Nat :
        /\ orders_' = StatusUpdated(id, "invalid", pending)
        /\ Send([kind |-> pending, id |-> id, placement |-> Meant(id), qty |-> qty])
  <2>1. CASE CancelOrder
    BY <2>1 DEF CancelOrder
  <2>2. CASE AmendOrder
    BY <2>2, InputsAssumption DEF AmendOrder
  <2>. QED BY <2>1, <2>2
<1>2. UNCHANGED <<pool_, current_id_, placed, reports>>
  BY DEF CancelOrder, AmendOrder
<1>. DEFINE r == [kind |-> pending, id |-> id, placement |-> Meant(id), qty |-> qty]
<1>3. r \in Request /\ r.kind # "place"
  BY MeantType, InputsAssumption DEF Request
<1>. HIDE DEF r
<1>4. RequestsInv'
  BY <1>1, <1>2, <1>3, OtherSent DEF r
<1>5. ReportsInv'
  BY <1>2 DEF ReportsInv, IsLast
<1>6. /\ DOMAIN orders_' = DOMAIN orders_
      /\ \A i \in DOMAIN orders_ : orders_'[i].placement = orders_[i].placement
  BY <1>1 DEF StatusUpdated, TypeOK, Order
<1>7. IdsInv => IdsInv'
  BY <1>2, <1>6 DEF IdsInv, UniqueIds, PoolHoldsFreeIds, StorageHoldsUnfinished, Unfinished
<1>. QED BY <1>4, <1>5, <1>7

-----------------------------------------------------------------------------
(* The reports.                                                            *)

\* The reports that follow the oldest one.
LEMMA TailReports ==
  ASSUME TypeOK, reports # <<>>, reports' = Tail(reports)
  PROVE  /\ Head(reports) \in Report /\ reports' \in Seq(Report)
         /\ 1 \in DOMAIN reports /\ Head(reports) = reports[1]
         /\ \A i \in DOMAIN reports' : /\ i \in Nat \ {0} /\ i + 1 \in DOMAIN reports
                                       /\ reports'[i] = reports[i + 1]
<1>1. /\ reports' \in Seq(Report) /\ Len(reports') = Len(reports) - 1
      /\ Head(reports) \in Report
      /\ \A i \in 1..Len(reports') : reports'[i] = reports[i + 1]
  BY HeadTailProperties DEF TypeOK
<1>2. DOMAIN reports' = 1..Len(reports') /\ DOMAIN reports = 1..Len(reports)
      /\ Len(reports) \in Nat
  BY <1>1, LenProperties DEF TypeOK
<1>3. 1 \in DOMAIN reports /\ Head(reports) = reports[1]
  BY <1>2, EmptySeq DEF TypeOK
<1>. QED BY <1>1, <1>2, <1>3

\* A report either leaves ids and placements alone, or ends an order.
LEMMA ReportSteps ==
  ASSUME TypeOK, OnResponse
  PROVE  /\ reports # <<>> /\ reports' = Tail(reports) /\ requests' = requests
         /\ \/ UNCHANGED <<pool_, current_id_, placed>>
               /\ DOMAIN orders_' = DOMAIN orders_
               /\ orders_' \in [DOMAIN orders_ -> Order]
               /\ \A i \in DOMAIN orders_ : orders_'[i].placement = orders_[i].placement
            \/ Head(reports).status \in Terminal /\ AcceptEnd(Head(reports))
         /\ missed' \subseteq Nat
<1>. DEFINE r == Head(reports)
<1>1. /\ reports # <<>> /\ reports' = Tail(reports) /\ requests' = requests
      /\ AcceptUpdate(r) \/ AcceptEnd(r) \/ Drop(r)
  BY DEF OnResponse
<1>2. r \in Report
  BY <1>1, TailReports
<1>3. CASE AcceptUpdate(r)
  <2>. DEFINE updated == StatusUpdated(r.id, r.status, "none")
  <2>1. r.status \in OrderStatus
    BY <1>2, <1>3 DEF AcceptUpdate, Ends, Report
  <2>2. /\ updated \in [DOMAIN orders_ -> Order]
        /\ \A i \in DOMAIN orders_ : updated[i].placement = orders_[i].placement
    <3>1. updated \in [DOMAIN orders_ -> Order]
      BY <2>1, StatusUpdatedType DEF PendingAction
    <3>2. \A i \in DOMAIN orders_ : updated[i].placement = orders_[i].placement
      BY DEF StatusUpdated, TypeOK, Order
    <3>. QED BY <3>1, <3>2
  <2>. HIDE DEF updated
  <2>3. LeavesQty(r) \in Int
    BY <1>2 DEF LeavesQty, Report
  <2>. DEFINE stated == StateUpdated(updated, r.id, LeavesQty(r))
  <2>4. /\ stated \in [DOMAIN orders_ -> Order]
        /\ \A i \in DOMAIN orders_ : stated[i].placement = updated[i].placement
    <3>1. stated \in [DOMAIN orders_ -> Order]
      BY <2>2, <2>3, StateUpdatedType
    <3>2. \A i \in DOMAIN orders_ : stated[i].placement = updated[i].placement
      BY <2>2 DEF StateUpdated, Order
    <3>. QED BY <3>1, <3>2
  <2>. HIDE DEF stated
  <2>5. orders_' = updated \/ orders_' = stated
    BY <1>3 DEF AcceptUpdate, updated, stated
  <2>6. UNCHANGED <<pool_, current_id_, placed, missed>> /\ missed \subseteq Nat
    BY <1>3 DEF AcceptUpdate, TypeOK
  <2>. QED BY <1>1, <2>2, <2>4, <2>5, <2>6
<1>4. CASE AcceptEnd(r)
  BY <1>1, <1>4 DEF AcceptEnd, Ends, TypeOK
<1>5. CASE Drop(r)
  BY <1>1, <1>2, <1>5 DEF Drop, TypeOK, Report
<1>. QED BY <1>1, <1>3, <1>4, <1>5

\* Ending an order frees its id and nothing else.
LEMMA EndEffect ==
  ASSUME TypeOK, ReportsInv, reports # <<>>, reports' = Tail(reports),
         Head(reports).status \in Terminal, AcceptEnd(Head(reports))
  PROVE  LET p == Head(reports).placement
         IN  /\ p \in DOMAIN placed /\ placed[p].phase = "ended" /\ ~placed[p].finished
             /\ Head(reports).id = placed[p].id
             /\ \A i \in DOMAIN reports' :
                  reports'[i].status \in Terminal => reports'[i].placement # p
             /\ placed' \in Seq(Placement) /\ DOMAIN placed' = DOMAIN placed
             /\ \A q \in DOMAIN placed : placed'[q].id = placed[q].id
                                         /\ placed'[q].phase = placed[q].phase
                                         /\ (q # p => placed'[q] = placed[q])
             /\ placed'[p].finished
             /\ pool_' = Append(pool_, placed[p].id)
             /\ DOMAIN orders_' = DOMAIN orders_ \ {placed[p].id}
             /\ orders_' \in [DOMAIN orders_' -> Order]
             /\ \A i \in DOMAIN orders_' : orders_'[i] = orders_[i]
             /\ current_id_' = current_id_
<1>. DEFINE r == Head(reports)
            p == r.placement
<1>1. 1 \in DOMAIN reports /\ r = reports[1]
  BY TailReports
<1>2. /\ p \in DOMAIN placed /\ placed[p].phase = "ended" /\ ~placed[p].finished
      /\ r.id = placed[p].id
      /\ \A j \in DOMAIN reports : reports[j].status \in Terminal
                                   /\ reports[j].placement = p => j = 1
  BY <1>1 DEF ReportsInv, IsLast
<1>3. \A i \in DOMAIN reports' : reports'[i].status \in Terminal => reports'[i].placement # p
  <2>1. \A i \in DOMAIN reports' : i + 1 \in DOMAIN reports /\ i + 1 # 1
                                   /\ reports'[i] = reports[i + 1]
    BY TailReports
  <2>. HIDE DEF p
  <2>. QED BY <1>2, <2>1
<1>. HIDE DEF p
<1>4. placed' = [placed EXCEPT ![p].finished = TRUE] /\ pool_' = Append(pool_, placed[p].id)
      /\ orders_' = Removed(placed[p].id) /\ current_id_' = current_id_
  BY <1>2 DEF AcceptEnd, ReturnIDToPool, p
<1>5. placed[p] \in Placement
  BY <1>2, PlacementFields
<1>6. [placed[p] EXCEPT !.finished = TRUE] \in Placement
  BY <1>5 DEF Placement
<1>7. placed' = [placed EXCEPT ![p] = [placed[p] EXCEPT !.finished = TRUE]]
  BY <1>4
<1>8. placed' \in Seq(Placement) /\ DOMAIN placed' = DOMAIN placed
  <2>1. p \in 1..Len(placed)
    BY <1>2, LenProperties DEF TypeOK
  <2>2. placed' \in Seq(Placement)
    BY <1>6, <1>7, <2>1, ExceptSeq DEF TypeOK
  <2>. QED BY <1>7, <2>2
<1>9. /\ placed'[p] = [placed[p] EXCEPT !.finished = TRUE]
      /\ \A q \in DOMAIN placed : q # p => placed'[q] = placed[q]
  BY <1>2, <1>7
<1>10. /\ placed'[p].id = placed[p].id /\ placed'[p].phase = placed[p].phase
       /\ placed'[p].finished
  BY <1>5, <1>9 DEF Placement
<1>11. /\ DOMAIN orders_' = DOMAIN orders_ \ {placed[p].id}
       /\ orders_' \in [DOMAIN orders_' -> Order]
       /\ \A i \in DOMAIN orders_' : orders_'[i] = orders_[i]
  BY <1>4, RemovedType DEF Removed
<1>. QED BY <1>2, <1>3, <1>4, <1>8, <1>9, <1>10, <1>11 DEF p

LEMMA ReportKeeps ==
  ASSUME TypeOK, RequestsInv, ReportsInv, OnResponse
  PROVE  TypeOK' /\ RequestsInv' /\ ReportsInv'
<1>1. /\ reports # <<>> /\ reports' = Tail(reports) /\ requests' = requests
      /\ missed' \subseteq Nat
  BY ReportSteps
<1>2. \A i \in DOMAIN reports' : i \in Nat /\ i + 1 \in DOMAIN reports
                                 /\ reports'[i] = reports[i + 1]
  BY <1>1, TailReports
<1>3. \A i, j \in Nat : i + 1 = j + 1 => i = j
  OBVIOUS
<1>4. CASE /\ UNCHANGED <<pool_, current_id_, placed>>
           /\ DOMAIN orders_' = DOMAIN orders_
           /\ orders_' \in [DOMAIN orders_ -> Order]
  <2>1. TypeOK'
    BY <1>1, <1>4, TailReports DEF TypeOK
  <2>2. RequestsInv'
    BY <1>1, <1>4 DEF RequestsInv, IsPlace
  <2>3. ReportsInv'
    BY <1>2, <1>3, <1>4 DEF ReportsInv, IsLast
  <2>. QED BY <2>1, <2>2, <2>3
<1>5. CASE Head(reports).status \in Terminal /\ AcceptEnd(Head(reports))
  <2>. DEFINE p == Head(reports).placement
  <2>1. /\ p \in DOMAIN placed /\ placed[p].phase = "ended"
        /\ \A i \in DOMAIN reports' :
             reports'[i].status \in Terminal => reports'[i].placement # p
        /\ placed' \in Seq(Placement) /\ DOMAIN placed' = DOMAIN placed
        /\ \A q \in DOMAIN placed : placed'[q].id = placed[q].id
                                    /\ placed'[q].phase = placed[q].phase
                                    /\ (q # p => placed'[q] = placed[q])
    BY <1>1, <1>5, EndEffect
  <2>2. /\ pool_' = Append(pool_, placed[p].id) /\ current_id_' = current_id_
        /\ DOMAIN orders_' = DOMAIN orders_ \ {placed[p].id}
        /\ orders_' \in [DOMAIN orders_' -> Order]
    BY <1>1, <1>5, EndEffect
  <2>. HIDE DEF p
  <2>3. pool_' \in Seq(Nat)
    <3>1. placed[p].id \in Nat
      BY <2>1, PlacementFields DEF Placement
    <3>. QED BY <2>2, <3>1, AppendProperties DEF TypeOK
  <2>4. TypeOK'
    BY <1>1, <2>1, <2>2, <2>3, TailReports DEF TypeOK
  <2>5. RequestsInv'
    BY <1>1, <2>1 DEF RequestsInv, IsPlace
  <2>6. ReportsInv'
    <3>1. ASSUME NEW i \in DOMAIN reports'
          PROVE  /\ reports'[i].placement \in DOMAIN placed'
                 /\ reports'[i].id = placed'[reports'[i].placement].id
      BY <1>2, <2>1 DEF ReportsInv
    <3>2. ASSUME NEW i \in DOMAIN reports', reports'[i].status \in Terminal
          PROVE  /\ placed'[reports'[i].placement].phase = "ended"
                 /\ ~placed'[reports'[i].placement].finished
                 /\ \A j \in DOMAIN reports' :
                      reports'[j].status \in Terminal
                      /\ reports'[j].placement = reports'[i].placement => j = i
      <4>1. reports'[i].placement # p /\ reports'[i].placement \in DOMAIN placed
        BY <2>1, <3>1, <3>2
      <4>2. placed'[reports'[i].placement] = placed[reports'[i].placement]
        BY <2>1, <4>1
      <4>3. IsLast(i + 1) /\ i + 1 \in DOMAIN reports
        BY <1>2, <3>2 DEF IsLast
      <4>4. /\ placed[reports'[i].placement].phase = "ended"
            /\ ~placed[reports'[i].placement].finished
        BY <1>2, <4>3 DEF ReportsInv
      <4>5. \A j \in DOMAIN reports' :
              reports'[j].status \in Terminal
              /\ reports'[j].placement = reports'[i].placement => j + 1 = i + 1
        BY <1>2, <4>3 DEF ReportsInv, IsLast
      <4>. QED BY <1>2, <1>3, <4>2, <4>4, <4>5
    <3>3. ASSUME NEW q \in DOMAIN placed', placed'[q].finished
          PROVE  placed'[q].phase = "ended"
      <4>1. CASE q = p
        BY <2>1, <4>1
      <4>2. CASE q # p
        BY <2>1, <3>3, <4>2 DEF ReportsInv
      <4>. QED BY <4>1, <4>2
    <3>. QED BY <3>1, <3>2, <3>3 DEF ReportsInv, IsLast
  <2>. QED BY <2>4, <2>5, <2>6
<1>. QED BY <1>4, <1>5, ReportSteps

LEMMA ReportIds ==
  ASSUME TypeOK, ReportsInv, IdsInv, OnResponse
  PROVE  IdsInv'
<1>1. reports # <<>> /\ reports' = Tail(reports)
  BY ReportSteps
<1>2. CASE /\ UNCHANGED <<pool_, current_id_, placed>>
           /\ DOMAIN orders_' = DOMAIN orders_
           /\ \A i \in DOMAIN orders_ : orders_'[i].placement = orders_[i].placement
  BY <1>2 DEF IdsInv, UniqueIds, PoolHoldsFreeIds, StorageHoldsUnfinished, Unfinished
<1>3. CASE Head(reports).status \in Terminal /\ AcceptEnd(Head(reports))
  <2>. DEFINE p == Head(reports).placement
              id == placed[p].id
  <2>1. /\ p \in DOMAIN placed /\ ~placed[p].finished
        /\ DOMAIN placed' = DOMAIN placed
        /\ \A q \in DOMAIN placed : placed'[q].id = placed[q].id
                                    /\ (q # p => placed'[q] = placed[q])
        /\ placed'[p].finished
    BY <1>1, <1>3, EndEffect
  <2>2. /\ pool_' = Append(pool_, id) /\ current_id_' = current_id_
        /\ DOMAIN orders_' = DOMAIN orders_ \ {id}
        /\ \A i \in DOMAIN orders_' : orders_'[i] = orders_[i]
    BY <1>1, <1>3, EndEffect
  <2>3. id \in Nat
    BY <2>1, PlacementFields DEF Placement
  <2>. HIDE DEF p
  <2>4. p \in Unfinished /\ Unfinished' = Unfinished \ {p} /\ Unfinished \subseteq DOMAIN placed
    BY <2>1 DEF Unfinished
  <2>5. \A q \in Unfinished' : placed'[q].id = placed[q].id /\ placed[q].id # id
    BY <2>1, <2>4 DEF IdsInv, UniqueIds
  <2>6. id < current_id_ /\ \A i \in DOMAIN pool_ : pool_[i] # id
    BY <2>4 DEF IdsInv, PoolHoldsFreeIds
  <2>7. UniqueIds' /\ \A q \in Unfinished' : placed'[q].id < current_id_'
    BY <2>2, <2>4, <2>5 DEF IdsInv, UniqueIds
  <2>8. PoolHoldsFreeIds'
    <3>. DEFINE n == Len(pool_) + 1
    <3>1. /\ DOMAIN pool_' = DOMAIN pool_ \cup {n} /\ pool_'[n] = id
          /\ \A i \in DOMAIN pool_ : pool_'[i] = pool_[i]
      <4>1. pool_' \in Seq(Nat) /\ Len(pool_') = n /\ pool_'[n] = id
            /\ \A i \in 1..Len(pool_) : pool_'[i] = pool_[i]
        BY <2>2, <2>3, AppendProperties DEF TypeOK
      <4>2. DOMAIN pool_' = 1..n /\ DOMAIN pool_ = 1..Len(pool_) /\ Len(pool_) \in Nat
        BY <4>1, LenProperties DEF TypeOK
      <4>. QED BY <4>1, <4>2
    <3>. HIDE DEF n, id
    <3>2. \A i \in DOMAIN pool_ :
            /\ pool_[i] < current_id_
            /\ \A j \in DOMAIN pool_ : pool_[i] = pool_[j] => i = j
            /\ \A q \in Unfinished : placed[q].id # pool_[i]
      BY DEF IdsInv, PoolHoldsFreeIds
    <3>. QED BY <2>2, <2>4, <2>5, <2>6, <3>1, <3>2 DEF PoolHoldsFreeIds
  <2>9. StorageHoldsUnfinished'
    <3>1. DOMAIN orders_ = {placed[q].id : q \in Unfinished}
          /\ \A q \in Unfinished : orders_[placed[q].id].placement = q
      BY DEF IdsInv, StorageHoldsUnfinished
    <3>2. DOMAIN orders_' = {placed'[q].id : q \in Unfinished'}
      BY <2>2, <2>4, <2>5, <3>1
    <3>3. \A q \in Unfinished' : orders_'[placed'[q].id].placement = q
      BY <2>2, <2>4, <2>5, <3>1
    <3>. QED BY <3>2, <3>3 DEF StorageHoldsUnfinished
  <2>. QED BY <2>7, <2>8, <2>9 DEF IdsInv
<1>. QED BY <1>2, <1>3, ReportSteps

-----------------------------------------------------------------------------
(* The theorems.                                                           *)

\* The channels are kept by every step, whoever chooses the ids.
ChannelsInv == TypeOK /\ RequestsInv /\ ReportsInv

LEMMA InitChannels == Init => ChannelsInv
<1>1. Init => TypeOK
  BY InitType
<1>2. Init => RequestsInv /\ ReportsInv
  BY DEF Init, RequestsInv, ReportsInv
<1>. QED BY <1>1, <1>2 DEF ChannelsInv

LEMMA NextChannels == ChannelsInv /\ [Next]_vars => ChannelsInv'
<1>. SUFFICES ASSUME ChannelsInv, [Next]_vars PROVE ChannelsInv'
  OBVIOUS
<1>. USE DEF ChannelsInv
<1>1. CASE PlaceOrderAutoId
  BY <1>1, UniqueIDType, CallType, PlaceRequests DEF PlaceOrderAutoId
<1>2. CASE PlaceOrderManualId
  <2>1. PICK uid \in ManualIds : Place(uid)
    BY <1>2 DEF PlaceOrderManualId
  <2>. QED BY <1>2, <2>1, InputsAssumption, CallType, PlaceRequests
<1>3. CASE CancelOrder \/ AmendOrder
  BY <1>3, CallType, OtherCallKeeps
<1>4. CASE HandleRequest \/ Fill \/ Expire
  BY <1>4, ExchangeKeeps
<1>5. CASE OnResponse
  BY <1>5, ReportKeeps
<1>6. CASE UNCHANGED vars
  BY <1>6 DEF vars, TypeOK, RequestsInv, IsPlace, ReportsInv, IsLast
<1>. QED BY <1>1, <1>2, <1>3, <1>4, <1>5, <1>6 DEF Next

\* Every variable keeps its type, for both exchanges and with ids chosen by
\* callers: in particular no request announces an order that was not placed.
THEOREM TypeCorrect == Spec => []TypeOK
<1>1. ChannelsInv => TypeOK
  BY DEF ChannelsInv
<1>. QED BY InitChannels, NextChannels, <1>1, PTL DEF Spec

LEMMA InitIds == Init => IdsInv
<1>. SUFFICES ASSUME Init PROVE IdsInv
  OBVIOUS
<1>1. Unfinished = {} /\ DOMAIN orders_ = {} /\ pool_ = <<>>
  BY DEF Init, Unfinished
<1>. QED BY <1>1 DEF IdsInv, UniqueIds, PoolHoldsFreeIds, StorageHoldsUnfinished

LEMMA NextIds ==
  ASSUME ManualIds = {}
  PROVE  ChannelsInv /\ IdsInv /\ [Next]_vars => IdsInv'
<1>. SUFFICES ASSUME ChannelsInv, IdsInv, [Next]_vars PROVE IdsInv'
  OBVIOUS
<1>. USE DEF ChannelsInv
<1>1. CASE PlaceOrderAutoId
  BY <1>1, AutoIdIds
<1>2. CASE PlaceOrderManualId
  BY <1>2 DEF PlaceOrderManualId
<1>3. CASE CancelOrder \/ AmendOrder
  BY <1>3, OtherCallKeeps
<1>4. CASE HandleRequest \/ Fill \/ Expire
  BY <1>4, ExchangeKeeps
<1>5. CASE OnResponse
  BY <1>5, ReportIds
<1>6. CASE UNCHANGED vars
  BY <1>6 DEF vars, IdsInv, UniqueIds, PoolHoldsFreeIds, StorageHoldsUnfinished, Unfinished
<1>. QED BY <1>1, <1>2, <1>3, <1>4, <1>5, <1>6 DEF Next

\* If callers leave the choice of ids to UIDManager, two orders that are both
\* unfinished never share a client order id, and only free ids are in the pool.
THEOREM IdsSafe ==
  ASSUME ManualIds = {}
  PROVE  Spec => [](UniqueIds /\ PoolHoldsFreeIds)
<1>1. IdsInv => UniqueIds /\ PoolHoldsFreeIds
  BY DEF IdsInv
<1>. QED BY InitChannels, NextChannels, InitIds, NextIds, <1>1, PTL DEF Spec

\* Then the storage holds exactly the unfinished orders, each with the data of
\* its own placement.
THEOREM StorageExact ==
  ASSUME ManualIds = {}
  PROVE  Spec => []StorageHoldsUnfinished
<1>1. IdsInv => StorageHoldsUnfinished
  BY DEF IdsInv
<1>. QED BY InitChannels, NextChannels, InitIds, NextIds, <1>1, PTL DEF Spec

-----------------------------------------------------------------------------
(* Cancels and reused ids.                                                 *)

\* When a request refers to an order by its id, other orders under that id are
\* over, or will be announced to the exchange later than the request.
ReferencesInv ==
  \A i \in DOMAIN requests : ~IsPlace(i) =>
    \A q \in DOMAIN placed :
      placed[q].id = requests[i].id /\ q # requests[i].placement =>
        \/ placed[q].phase = "ended"
        \/ /\ placed[q].phase = "sent"
           /\ \A j \in DOMAIN requests :
                IsPlace(j) /\ requests[j].placement = q => i < j

LEMMA PlaceReferences ==
  ASSUME ChannelsInv, IdsInv, ReferencesInv, PlaceOrderAutoId
  PROVE  ReferencesInv'
<1>. USE DEF ChannelsInv
<1>. DEFINE p == Len(placed) + 1
<1>0. Place(UniqueID) /\ UniqueID \in Nat
  BY UniqueIDType DEF PlaceOrderAutoId
<1>1. /\ p \notin DOMAIN placed /\ DOMAIN placed' = DOMAIN placed \cup {p}
      /\ \A q \in DOMAIN placed : placed'[q] = placed[q]
      /\ placed'[p].phase = "sent" /\ requests' \in Seq(Request)
  BY <1>0, PlaceEffect
<1>2. PICK r \in Request : r.kind = "place" /\ r.placement = p
                           /\ (requests' = Append(requests, r) \/ requests' = requests)
  BY <1>0, PlaceEffect
<1>. HIDE DEF p
<1>3. \A i \in DOMAIN requests : IsPlace(i) => requests[i].placement # p
  BY <1>1 DEF RequestsInv
<1>4. CASE requests' = Append(requests, r)
  <2>. DEFINE n == Len(requests) + 1
  <2>1. /\ Len(requests') = n /\ requests'[n] = r
        /\ \A i \in 1..Len(requests) : requests'[i] = requests[i]
    BY <1>4, AppendProperties DEF TypeOK
  <2>2. DOMAIN requests' = 1..n /\ DOMAIN requests = 1..Len(requests) /\ Len(requests) \in Nat
    BY <1>1, <2>1, LenProperties DEF TypeOK
  <2>3. /\ DOMAIN requests' = DOMAIN requests \cup {n}
        /\ \A i \in DOMAIN requests : i < n /\ requests'[i] = requests[i]
    BY <2>1, <2>2
  <2>. HIDE DEF n
  <2>4. ASSUME NEW i \in DOMAIN requests', requests'[i].kind # "place",
               NEW q \in DOMAIN placed',
               placed'[q].id = requests'[i].id, q # requests'[i].placement
        PROVE  \/ placed'[q].phase = "ended"
               \/ /\ placed'[q].phase = "sent"
                  /\ \A j \in DOMAIN requests' : requests'[j].kind = "place"
                       /\ requests'[j].placement = q => i < j
    <3>1. i \in DOMAIN requests /\ requests'[i] = requests[i] /\ ~IsPlace(i)
      BY <1>2, <2>1, <2>3, <2>4 DEF IsPlace
    <3>2. CASE q = p
      BY <1>1, <1>3, <2>3, <3>1, <3>2 DEF IsPlace
    <3>3. CASE q # p
      <4>1. q \in DOMAIN placed /\ placed'[q] = placed[q]
        BY <1>1, <3>3
      <4>2. \/ placed[q].phase = "ended"
            \/ /\ placed[q].phase = "sent"
               /\ \A j \in DOMAIN requests :
                    IsPlace(j) /\ requests[j].placement = q => i < j
        BY <2>4, <3>1, <4>1 DEF ReferencesInv
      <4>. QED BY <1>2, <2>1, <2>3, <3>1, <4>1, <4>2 DEF IsPlace
    <3>. QED BY <3>2, <3>3
  <2>. QED BY <2>4 DEF ReferencesInv, IsPlace
<1>5. CASE requests' = requests
  BY <1>1, <1>3, <1>5 DEF ReferencesInv, IsPlace
<1>. QED BY <1>2, <1>4, <1>5

LEMMA OtherCallReferences ==
  ASSUME ChannelsInv, IdsInv, ReferencesInv, CancelOrder \/ AmendOrder
  PROVE  ReferencesInv'
<1>. USE DEF ChannelsInv
<1>1. PICK id \in CalledIds, pending \in {"cancel", "amend"}, qty \in Nat :
        Send([kind |-> pending, id |-> id, placement |-> Meant(id), qty |-> qty])
  <2>1. CASE CancelOrder
    BY <2>1 DEF CancelOrder
  <2>2. CASE AmendOrder
    BY <2>2, InputsAssumption DEF AmendOrder
  <2>. QED BY <2>1, <2>2
<1>2. placed' = placed
  BY DEF CancelOrder, AmendOrder
<1>. DEFINE r == [kind |-> pending, id |-> id, placement |-> Meant(id), qty |-> qty]
<1>3. /\ r \in Request /\ r.kind # "place" /\ r.id = id
      /\ r.placement = Meant(id)
  BY MeantType, InputsAssumption DEF Request
<1>. HIDE DEF r
<1>4. \A q \in DOMAIN placed :
        placed[q].id = id /\ q # Meant(id) => placed[q].phase = "ended"
  <2>. SUFFICES ASSUME NEW q \in DOMAIN placed, placed[q].id = id,
                       q # Meant(id)
                PROVE  placed[q].finished
    BY DEF ReportsInv
  <2>. QED BY DEF Meant, IdsInv, StorageHoldsUnfinished, Unfinished
<1>5. CASE requests' = Append(requests, r)
  <2>. DEFINE n == Len(requests) + 1
  <2>1. /\ requests' \in Seq(Request) /\ Len(requests') = n /\ requests'[n] = r
        /\ \A i \in 1..Len(requests) : requests'[i] = requests[i]
    BY <1>3, <1>5, AppendProperties DEF TypeOK
  <2>2. DOMAIN requests' = 1..n /\ DOMAIN requests = 1..Len(requests) /\ Len(requests) \in Nat
    BY <2>1, LenProperties DEF TypeOK
  <2>3. /\ DOMAIN requests' = DOMAIN requests \cup {n}
        /\ \A i \in DOMAIN requests : requests'[i] = requests[i]
    BY <2>1, <2>2
  <2>. HIDE DEF n
  <2>. QED BY <1>2, <1>3, <1>4, <2>1, <2>3 DEF ReferencesInv, IsPlace
<1>6. CASE requests' = requests
  BY <1>2, <1>6 DEF ReferencesInv, IsPlace
<1>. QED BY <1>1, <1>5, <1>6, Zenon DEF Send, r

\* Taking the oldest request opens no placement that a later one could meet.
LEMMA TakenReferences ==
  ASSUME ChannelsInv, ReferencesInv, requests # <<>>, requests' = Tail(requests),
         DOMAIN placed' = DOMAIN placed,
         \A q \in DOMAIN placed : placed'[q].id = placed[q].id,
         \A q \in DOMAIN placed :
           \/ placed'[q].phase = placed[q].phase
           \/ placed[q].phase = "open"
           \/ Head(requests).kind = "place" /\ Head(requests).placement = q
  PROVE  ReferencesInv'
<1>. USE DEF ChannelsInv
<1>1. 1 \in DOMAIN requests /\ Head(requests) = requests[1]
  BY HeadRequest
<1>2. \A i \in DOMAIN requests' : /\ i \in Nat /\ i + 1 \in DOMAIN requests
                                  /\ requests'[i] = requests[i + 1]
  BY TailRequests
<1>3. \A i, j \in Nat : i + 1 < j + 1 => i < j
  OBVIOUS
<1>4. \A i \in Nat : ~(i + 1 < 1)
  OBVIOUS
<1>5. ASSUME NEW i \in DOMAIN requests', requests'[i].kind # "place",
             NEW q \in DOMAIN placed,
             placed[q].id = requests'[i].id, q # requests'[i].placement
      PROVE  \/ placed'[q].phase = "ended"
             \/ /\ placed'[q].phase = "sent"
                /\ \A j \in DOMAIN requests' : requests'[j].kind = "place"
                     /\ requests'[j].placement = q => i < j
  <2>1. /\ i \in Nat /\ i + 1 \in DOMAIN requests /\ requests'[i] = requests[i + 1]
        /\ ~IsPlace(i + 1)
    BY <1>2, <1>5 DEF IsPlace
  <2>2. \/ placed[q].phase = "ended"
        \/ /\ placed[q].phase = "sent"
           /\ \A j \in DOMAIN requests :
                IsPlace(j) /\ requests[j].placement = q => i + 1 < j
    BY <1>5, <2>1 DEF ReferencesInv
  <2>3. ~(Head(requests).kind = "place" /\ Head(requests).placement = q)
    <3>1. SUFFICES ASSUME IsPlace(1), requests[1].placement = q PROVE FALSE
      BY <1>1 DEF IsPlace
    <3>2. placed[q].phase = "sent"
      BY <1>1, <3>1 DEF RequestsInv
    <3>. QED BY <1>1, <1>4, <2>1, <2>2, <3>1, <3>2
  <2>4. placed'[q].phase = placed[q].phase
    BY <2>2, <2>3
  <2>5. ASSUME placed[q].phase = "sent", NEW j \in DOMAIN requests',
               requests'[j].kind = "place", requests'[j].placement = q
        PROVE  i < j
    <3>1. j \in Nat /\ j + 1 \in DOMAIN requests /\ IsPlace(j + 1)
          /\ requests[j + 1].placement = q
      BY <1>2, <2>5 DEF IsPlace
    <3>2. i + 1 < j + 1
      BY <2>2, <2>5, <3>1
    <3>. QED BY <1>3, <2>1, <3>1, <3>2
  <2>. QED BY <2>2, <2>4, <2>5
<1>. QED BY <1>5 DEF ReferencesInv, IsPlace

LEMMA ExchangeReferences ==
  ASSUME ChannelsInv, ReferencesInv, HandleRequest \/ Fill \/ Expire
  PROVE  ReferencesInv'
<1>. USE DEF ChannelsInv
<1>1. CASE HandleRequest
  <2>1. requests # <<>> /\ requests' = Tail(requests)
    BY <1>1, RequestSteps
  <2>2. CASE UNCHANGED placed
    BY <2>1, <2>2, TakenReferences
  <2>3. ASSUME NEW p, ExchangeStep(p),
               \/ Head(requests).kind # "place" /\ placed[p].phase = "open"
               \/ Head(requests).kind = "place" /\ p = Head(requests).placement
        PROVE  ReferencesInv'
    <3>1. /\ DOMAIN placed' = DOMAIN placed
          /\ \A q \in DOMAIN placed : placed'[q].id = placed[q].id
                                      /\ (q # p => placed'[q] = placed[q])
      BY <2>3, ExchangeEffect
    <3>2. \A q \in DOMAIN placed :
            \/ placed'[q].phase = placed[q].phase
            \/ placed[q].phase = "open"
            \/ Head(requests).kind = "place" /\ Head(requests).placement = q
      BY <2>3, <3>1
    <3>. QED BY <2>1, <3>1, <3>2, TakenReferences
  <2>. QED BY <1>1, <2>2, <2>3, RequestSteps
<1>2. CASE Fill \/ Expire
  <2>1. PICK p : ExchangeStep(p) /\ placed[p].phase = "open"
    BY <1>2, MarketSteps
  <2>2. requests' = requests
    BY <1>2, MarketSteps
  <2>3. /\ DOMAIN placed' = DOMAIN placed
        /\ \A q \in DOMAIN placed : placed'[q].id = placed[q].id
                                    /\ (q # p => placed'[q] = placed[q])
    BY <2>1, ExchangeEffect
  <2>4. \A i \in DOMAIN requests : ~IsPlace(i) =>
          (placed[p].id = requests[i].id => p = requests[i].placement)
    BY <2>1, <2>3, ExchangeEffect DEF ReferencesInv
  <2>. QED BY <2>2, <2>3, <2>4 DEF ReferencesInv, IsPlace
<1>. QED BY <1>1, <1>2

LEMMA NextReferences ==
  ASSUME ManualIds = {}
  PROVE  ChannelsInv /\ IdsInv /\ ReferencesInv /\ [Next]_vars => ReferencesInv'
<1>. SUFFICES ASSUME ChannelsInv, IdsInv, ReferencesInv, [Next]_vars
              PROVE  ReferencesInv'
  OBVIOUS
<1>1. CASE PlaceOrderAutoId
  BY <1>1, PlaceReferences
<1>2. CASE PlaceOrderManualId
  BY <1>2 DEF PlaceOrderManualId
<1>3. CASE CancelOrder \/ AmendOrder
  BY <1>3, OtherCallReferences
<1>4. CASE HandleRequest \/ Fill \/ Expire
  BY <1>4, ExchangeReferences
<1>5. CASE OnResponse
  <2>1. /\ requests' = requests /\ DOMAIN placed' = DOMAIN placed
        /\ \A q \in DOMAIN placed : placed'[q].id = placed[q].id
                                    /\ placed'[q].phase = placed[q].phase
    BY <1>5, ReportSteps, EndEffect DEF ChannelsInv
  <2>. QED BY <2>1 DEF ReferencesInv, IsPlace
<1>6. CASE UNCHANGED vars
  BY <1>6 DEF vars, ReferencesInv, IsPlace
<1>. QED BY <1>1, <1>2, <1>3, <1>4, <1>5, <1>6 DEF Next

\* If callers leave the choice of ids to UIDManager, a cancel meets the order
\* it was meant for or none at all, however many orders shared the id before
\* and after, because requests stay in order.
THEOREM CancelsSafe ==
  ASSUME ManualIds = {}
  PROVE  Spec => []CancelsHitTheirOrder
<1>1. Init => ReferencesInv
  BY DEF Init, ReferencesInv
<1>2. ChannelsInv /\ ReferencesInv => CancelsHitTheirOrder
  <2>. SUFFICES ASSUME ChannelsInv, ReferencesInv, requests # <<>>,
                       Head(requests).kind = "cancel",
                       NEW q \in OpenUnder(Head(requests).id)
                PROVE  q = Head(requests).placement
    BY DEF CancelsHitTheirOrder
  <2>1. 1 \in DOMAIN requests /\ Head(requests) = requests[1] /\ ~IsPlace(1)
    BY HeadRequest DEF ChannelsInv, IsPlace
  <2>2. q \in DOMAIN placed /\ placed[q].id = requests[1].id /\ placed[q].phase = "open"
    BY <2>1 DEF OpenUnder
  <2>. QED BY <2>1, <2>2 DEF ReferencesInv
<1>. QED BY InitChannels, NextChannels, InitIds, NextIds, NextReferences,
            <1>1, <1>2, PTL DEF Spec

-----------------------------------------------------------------------------
(* The last report of a placement.                                         *)

\* A report that waits is of an unfinished placement, and no other report of that placement
\* waits behind the last one.
LastsInv ==
  \A i \in DOMAIN reports :
    /\ ~placed[reports[i].placement].finished
    /\ IsLast(i) => \A j \in DOMAIN reports :
                      reports[j].placement = reports[i].placement => j <= i

\* What the exchange does, in whatever step.
LEMMA ExchangeSteps ==
  ASSUME ChannelsInv, HandleRequest \/ Fill \/ Expire
  PROVE  UNCHANGED <<placed, reports>> \/ \E p : ExchangeStep(p)
BY RequestSteps, MarketSteps DEF ChannelsInv

LEMMA ExchangeLasts ==
  ASSUME ChannelsInv, LastsInv, NEW p, ExchangeStep(p)
  PROVE  LastsInv'
<1>. USE DEF ChannelsInv
<1>. DEFINE new == DOMAIN reports' \ DOMAIN reports
<1>1. /\ p \in DOMAIN placed /\ placed[p].phase # "ended"
      /\ \A q \in DOMAIN placed : placed'[q].finished = placed[q].finished
      /\ DOMAIN reports \subseteq DOMAIN reports'
      /\ \A i \in DOMAIN reports : reports'[i] = reports[i]
      /\ \A i \in new : /\ reports'[i].placement = p
                        /\ reports'[i].status \in Terminal => \A j \in new : j = i
      /\ \A i \in new, j \in DOMAIN reports : j < i
  BY ExchangeEffect DEF Tells
<1>2. ~placed[p].finished
  BY <1>1 DEF ReportsInv
<1>3. /\ \A i \in DOMAIN reports : reports[i].placement \in DOMAIN placed
      /\ \A i \in DOMAIN reports : IsLast(i) => reports[i].placement # p
  BY <1>1 DEF ReportsInv
<1>4. /\ \A i \in DOMAIN reports' : i \in DOMAIN reports \/ i \in new
      /\ DOMAIN reports' \subseteq Nat
  <2>1. reports' \in Seq(Report)
    BY ExchangeEffect
  <2>. QED BY <2>1, LenProperties
<1>. HIDE DEF new
<1>5. ASSUME NEW i \in DOMAIN reports'
      PROVE  ~placed'[reports'[i].placement].finished
  BY <1>1, <1>2, <1>3, <1>4 DEF LastsInv
<1>6. ASSUME NEW i \in DOMAIN reports', reports'[i].status \in Terminal,
             NEW j \in DOMAIN reports', reports'[j].placement = reports'[i].placement
      PROVE  j <= i
  <2>1. CASE i \in DOMAIN reports
    <3>1. IsLast(i) /\ reports'[i] = reports[i] /\ reports[i].placement # p
      BY <1>1, <1>3, <1>6, <2>1 DEF IsLast
    <3>2. j \in DOMAIN reports /\ reports'[j] = reports[j]
      BY <1>1, <1>4, <1>6, <3>1
    <3>. QED BY <1>6, <2>1, <3>1, <3>2 DEF LastsInv
  <2>2. CASE i \in new
    <3>1. CASE j \in DOMAIN reports
      BY <1>1, <1>4, <2>2, <3>1
    <3>2. CASE j \in new
      BY <1>1, <1>4, <1>6, <2>2, <3>2
    <3>. QED BY <1>4, <3>1, <3>2
  <2>. QED BY <1>4, <2>1, <2>2
<1>. QED BY <1>5, <1>6 DEF LastsInv, IsLast

\* The oldest report is taken; the ones behind it move up.
LEMMA ReportsMoveUp ==
  ASSUME TypeOK, reports # <<>>, reports' = Tail(reports)
  PROVE  /\ 1 \in DOMAIN reports /\ Head(reports) = reports[1]
         /\ \A i \in DOMAIN reports' : /\ i \in Nat \ {0} /\ i + 1 \in DOMAIN reports
                                       /\ reports'[i] = reports[i + 1]
         /\ \A i \in DOMAIN reports : i # 1 =>
              i \in Nat /\ i - 1 \in DOMAIN reports' /\ reports'[i - 1] = reports[i]
<1>1. /\ 1 \in DOMAIN reports /\ Head(reports) = reports[1] /\ reports' \in Seq(Report)
      /\ \A i \in DOMAIN reports' : /\ i \in Nat \ {0} /\ i + 1 \in DOMAIN reports
                                    /\ reports'[i] = reports[i + 1]
  BY TailReports
<1>2. /\ DOMAIN reports' = 1..Len(reports') /\ DOMAIN reports = 1..Len(reports)
      /\ Len(reports) \in Nat /\ Len(reports') = Len(reports) - 1
      /\ \A i \in 1..Len(reports') : reports'[i] = reports[i + 1]
  BY <1>1, HeadTailProperties, LenProperties DEF TypeOK
<1>3. ASSUME NEW i \in DOMAIN reports, i # 1
      PROVE  i \in Nat /\ i - 1 \in DOMAIN reports' /\ reports'[i - 1] = reports[i]
  <2>1. i \in Nat /\ i - 1 \in 1..Len(reports') /\ (i - 1) + 1 = i
    BY <1>2, <1>3
  <2>. QED BY <1>2, <2>1
<1>. QED BY <1>1, <1>3

LEMMA ReportLasts ==
  ASSUME ChannelsInv, LastsInv, OnResponse
  PROVE  LastsInv'
<1>. USE DEF ChannelsInv
<1>1. reports # <<>> /\ reports' = Tail(reports)
  BY ReportSteps
<1>2. /\ 1 \in DOMAIN reports /\ Head(reports) = reports[1]
      /\ \A i \in DOMAIN reports' : /\ i \in Nat \ {0} /\ i + 1 \in DOMAIN reports
                                    /\ reports'[i] = reports[i + 1]
  BY <1>1, ReportsMoveUp
<1>3. ASSUME NEW i \in DOMAIN reports', reports'[i].status \in Terminal,
             NEW j \in DOMAIN reports', reports'[j].placement = reports'[i].placement
      PROVE  j <= i
  <2>1. /\ i \in Nat /\ j \in Nat /\ i + 1 \in DOMAIN reports /\ j + 1 \in DOMAIN reports
        /\ IsLast(i + 1) /\ reports[j + 1].placement = reports[i + 1].placement
    BY <1>2, <1>3 DEF IsLast
  <2>2. j + 1 <= i + 1
    BY <2>1 DEF LastsInv
  <2>. QED BY <2>1, <2>2
<1>4. ASSUME NEW i \in DOMAIN reports'
      PROVE  ~placed'[reports'[i].placement].finished
  <2>1. /\ i \in Nat \ {0} /\ i + 1 \in DOMAIN reports /\ reports'[i] = reports[i + 1]
        /\ ~placed[reports[i + 1].placement].finished
        /\ reports[i + 1].placement \in DOMAIN placed
    BY <1>2 DEF LastsInv, ReportsInv
  <2>2. CASE UNCHANGED placed
    BY <2>1, <2>2
  <2>3. CASE Head(reports).status \in Terminal /\ AcceptEnd(Head(reports))
    <3>1. \A q \in DOMAIN placed : q # Head(reports).placement => placed'[q] = placed[q]
      BY <1>1, <2>3, EndEffect
    <3>2. IsLast(1)
      BY <1>2, <2>3 DEF IsLast
    <3>3. reports[i + 1].placement # Head(reports).placement
      BY <1>2, <2>1, <3>2 DEF LastsInv
    <3>. QED BY <2>1, <3>1, <3>3
  <2>. QED BY <2>2, <2>3, ReportSteps
<1>. QED BY <1>3, <1>4 DEF LastsInv, IsLast

LEMMA PlacedBefore ==
  ASSUME ChannelsInv, NEW id \in Nat, Place(id)
  PROVE  /\ UNCHANGED reports
         /\ \A q \in DOMAIN placed : q \in DOMAIN placed' /\ placed'[q] = placed[q]
BY PlaceEffect DEF ChannelsInv

LEMMA NextLasts == ChannelsInv /\ LastsInv /\ [Next]_vars => LastsInv'
<1>. SUFFICES ASSUME ChannelsInv, LastsInv, [Next]_vars PROVE LastsInv'
  OBVIOUS
<1>1. ASSUME NEW id \in Nat, Place(id) PROVE LastsInv'
  <2>1. /\ UNCHANGED reports /\ \A q \in DOMAIN placed : placed'[q] = placed[q]
        /\ \A i \in DOMAIN reports : reports[i].placement \in DOMAIN placed
    BY <1>1, PlacedBefore DEF ChannelsInv, ReportsInv
  <2>. QED BY <2>1 DEF LastsInv, IsLast
<1>2. CASE PlaceOrderAutoId
  BY <1>1, <1>2, UniqueIDType DEF PlaceOrderAutoId, ChannelsInv
<1>3. CASE PlaceOrderManualId
  BY <1>1, <1>3, InputsAssumption DEF PlaceOrderManualId
<1>4. CASE UNCHANGED <<placed, reports>>
  BY <1>4 DEF LastsInv, IsLast
<1>5. CASE HandleRequest \/ Fill \/ Expire
  BY <1>4, <1>5, ExchangeSteps, ExchangeLasts
<1>6. CASE OnResponse
  BY <1>6, ReportLasts
<1>7. CancelOrder \/ AmendOrder \/ UNCHANGED vars => UNCHANGED <<placed, reports>>
  BY DEF CancelOrder, AmendOrder, vars
<1>. QED BY <1>2, <1>3, <1>4, <1>5, <1>6, <1>7 DEF Next

-----------------------------------------------------------------------------
(* What reports do to the storage.                                         *)

\* A report that does not end its order changes that order only.
LEMMA UpdateEffect ==
  ASSUME ChannelsInv, IdsInv, LastsInv, reports # <<>>, reports' = Tail(reports),
         AcceptUpdate(Head(reports))
  PROVE  LET r == Head(reports)
             p == r.placement
         IN  /\ r.status \notin Terminal
             /\ p \in Unfinished /\ UNCHANGED <<placed, missed>>
             /\ \A q \in Unfinished : q # p =>
                  orders_'[placed[q].id] = orders_[placed[q].id]
             /\ orders_'[placed[p].id].pending = "none"
             /\ orders_'[placed[p].id].qty = IF r.status = "partially_filled" THEN r.qty - r.cum
                                             ELSE orders_[placed[p].id].qty
<1>. USE DEF ChannelsInv
<1>. DEFINE r == Head(reports)
            p == r.placement
            id == placed[p].id
            told == StatusUpdated(r.id, r.status, "none")
<1>1. reports # <<>> /\ reports' = Tail(reports) /\ AcceptUpdate(r)
  OBVIOUS
<1>2. 1 \in DOMAIN reports /\ r = reports[1] /\ r \in Report
  BY <1>1, TailReports
<1>3. p \in Unfinished /\ r.id = id
  BY <1>2 DEF LastsInv, ReportsInv, Unfinished
<1>4. \A q \in Unfinished : placed[q].id \in DOMAIN orders_ /\ (q # p => placed[q].id # id)
  BY <1>3 DEF IdsInv, StorageHoldsUnfinished, UniqueIds
<1>5. /\ \A i \in DOMAIN orders_ : i # id => told[i] = orders_[i]
      /\ told[id].pending = "none" /\ told[id].qty = orders_[id].qty
      /\ DOMAIN told = DOMAIN orders_ /\ told \in [DOMAIN orders_ -> Order]
  <2>1. id \in DOMAIN orders_ /\ r.status \in OrderStatus
    BY <1>1, <1>2, <1>3, <1>4 DEF AcceptUpdate, Ends, Report
  <2>2. orders_[id] \in Order
    BY <2>1 DEF TypeOK
  <2>3. told[id] = [orders_[id] EXCEPT !.status = r.status, !.pending = "none"]
    BY <1>3, <2>1 DEF StatusUpdated
  <2>4. told[id].pending = "none" /\ told[id].qty = orders_[id].qty
    BY <2>2, <2>3 DEF Order
  <2>5. \A i \in DOMAIN orders_ : i # id => told[i] = orders_[i]
    BY <1>3 DEF StatusUpdated
  <2>6. DOMAIN told = DOMAIN orders_ /\ told \in [DOMAIN orders_ -> Order]
    BY <2>1, StatusUpdatedType DEF PendingAction
  <2>. QED BY <2>4, <2>5, <2>6
<1>6. UNCHANGED <<placed, missed>> /\ r.status \notin Terminal
  BY <1>1 DEF AcceptUpdate, Ends
<1>7. CASE r.status = "partially_filled"
  <2>1. orders_' = StateUpdated(told, id, r.qty - r.cum)
    BY <1>1, <1>3, <1>7 DEF AcceptUpdate, LeavesQty
  <2>. HIDE DEF told, id, p, r
  <2>2. /\ orders_' = [i \in DOMAIN orders_ |->
                         IF i = id THEN [told[i] EXCEPT !.qty = r.qty - r.cum] ELSE told[i]]
        /\ id \in DOMAIN orders_
    BY <1>3, <1>4, <1>5, <2>1 DEF StateUpdated, id
  <2>3. /\ orders_'[id] = [told[id] EXCEPT !.qty = r.qty - r.cum]
        /\ \A i \in DOMAIN orders_ : i # id => orders_'[i] = told[i]
    BY <2>2
  <2>4. orders_'[id].qty = r.qty - r.cum /\ orders_'[id].pending = "none"
    BY <1>5, <2>2, <2>3 DEF Order
  <2>. QED BY <1>3, <1>4, <1>5, <1>6, <1>7, <2>3, <2>4 DEF id, p, r
<1>8. CASE r.status # "partially_filled"
  <2>1. orders_' = told
    BY <1>1, <1>8 DEF AcceptUpdate
  <2>. HIDE DEF told
  <2>. QED BY <1>3, <1>4, <1>5, <1>6, <1>8, <2>1
<1>. QED BY <1>7, <1>8

-----------------------------------------------------------------------------
(* Quantities.                                                             *)

IsPart(i) == reports[i].status = "partially_filled"

Left(p) == placed[p].qty - placed[p].cum

\* The last word on the quantity of p that is on its way is what is left of p.
SaysLeft(p, i) ==
  /\ reports[i].placement = p /\ IsPart(i) /\ reports[i].qty - reports[i].cum = Left(p)
  /\ \A j \in DOMAIN reports : reports[j].placement = p /\ IsPart(j) => j <= i

\* Once the reports have been processed, the stored quantity is what is left of p.
Agrees(p) ==
  \/ /\ orders_[placed[p].id].qty = Left(p)
     /\ \A i \in DOMAIN reports : reports[i].placement = p => ~IsPart(i)
  \/ \E i \in DOMAIN reports : SaysLeft(p, i)

QtyInv ==
  /\ \A i \in DOMAIN requests : requests[i].kind # "amend"
  /\ \A p \in Unfinished \ missed : placed[p].phase # "ended" => Agrees(p)

\* An order agrees as long as it, its entry and its reports are left alone.
LEMMA AgreesStill ==
  ASSUME NEW p, Agrees(p), UNCHANGED <<placed[p], orders_[placed[p].id]>>,
         DOMAIN reports \subseteq DOMAIN reports',
         \A i \in DOMAIN reports : reports'[i] = reports[i],
         \A i \in DOMAIN reports' \ DOMAIN reports : reports'[i].placement # p
  PROVE  Agrees(p)'
<1>1. Left(p)' = Left(p) /\ orders_'[placed'[p].id].qty = orders_[placed[p].id].qty
  BY DEF Left
<1>2. \A i \in DOMAIN reports' : reports'[i].placement = p =>
        i \in DOMAIN reports /\ reports'[i] = reports[i]
  OBVIOUS
<1>3. CASE \A i \in DOMAIN reports : reports[i].placement = p => ~IsPart(i)
  <2>1. \A i \in DOMAIN reports' : reports'[i].placement = p => ~IsPart(i)'
    BY <1>2, <1>3 DEF IsPart
  <2>2. orders_[placed[p].id].qty = Left(p)
    BY <1>3 DEF Agrees, SaysLeft
  <2>. QED BY <1>1, <2>1, <2>2 DEF Agrees
<1>4. ASSUME NEW i \in DOMAIN reports, SaysLeft(p, i) PROVE SaysLeft(p, i)'
  BY <1>1, <1>2, <1>4 DEF SaysLeft, IsPart
<1>. QED BY <1>3, <1>4 DEF Agrees

\* Nor does it matter that a report on another order is taken.
LEMMA AgreesMovedUp ==
  ASSUME TypeOK, NEW p, Agrees(p), UNCHANGED <<placed[p], orders_[placed[p].id]>>,
         reports # <<>>, reports' = Tail(reports), Head(reports).placement # p
  PROVE  Agrees(p)'
<1>1. Left(p)' = Left(p) /\ orders_'[placed'[p].id].qty = orders_[placed[p].id].qty
  BY DEF Left
<1>2. /\ Head(reports) = reports[1]
      /\ \A i \in DOMAIN reports' : /\ i \in Nat \ {0} /\ i + 1 \in DOMAIN reports
                                    /\ reports'[i] = reports[i + 1]
      /\ \A i \in DOMAIN reports : i # 1 =>
           i \in Nat /\ i - 1 \in DOMAIN reports' /\ reports'[i - 1] = reports[i]
  BY ReportsMoveUp
<1>3. CASE \A i \in DOMAIN reports : reports[i].placement = p => ~IsPart(i)
  <2>1. \A i \in DOMAIN reports' : reports'[i].placement = p => ~IsPart(i)'
    BY <1>2, <1>3 DEF IsPart
  <2>2. orders_[placed[p].id].qty = Left(p)
    BY <1>3 DEF Agrees, SaysLeft
  <2>. QED BY <1>1, <2>1, <2>2 DEF Agrees
<1>4. ASSUME NEW i \in DOMAIN reports, SaysLeft(p, i) PROVE Agrees(p)'
  <2>1. i \in Nat /\ i - 1 \in DOMAIN reports' /\ reports'[i - 1] = reports[i]
    BY <1>2, <1>4 DEF SaysLeft
  <2>2. ASSUME NEW j \in DOMAIN reports', reports'[j].placement = p, IsPart(j)'
        PROVE  j <= i - 1
    <3>1. j \in Nat /\ j + 1 \in DOMAIN reports /\ reports'[j] = reports[j + 1]
      BY <1>2
    <3>2. j + 1 <= i
      BY <1>4, <2>2, <3>1 DEF SaysLeft, IsPart
    <3>. QED BY <2>1, <3>1, <3>2
  <2>3. SaysLeft(p, i - 1)'
    BY <1>1, <1>4, <2>1, <2>2 DEF SaysLeft, IsPart
  <2>. QED BY <2>1, <2>3 DEF Agrees
<1>. QED BY <1>3, <1>4 DEF Agrees

\* The exchange tells what becomes of the quantity of an order.
LEMMA ExchangeAgrees ==
  ASSUME ChannelsInv, IdsInv, NEW p, ExchangeStep(p), UNCHANGED orders_,
         ~Amends, p \in Unfinished, Agrees(p), placed'[p].phase # "ended"
  PROVE  Agrees(p)'
<1>. DEFINE new == DOMAIN reports' \ DOMAIN reports
<1>1. /\ placed'[p].id = placed[p].id
      /\ DOMAIN reports \subseteq DOMAIN reports'
      /\ \A i \in DOMAIN reports : reports'[i] = reports[i]
      /\ \A i \in new : reports'[i].placement = p
      /\ Tells(p) /\ reports' \in Seq(Report)
  BY ExchangeEffect DEF ChannelsInv
<1>2. /\ \A i \in new, j \in DOMAIN reports : j < i
      /\ \A i \in new : reports'[i].qty = placed'[p].qty /\ reports'[i].cum = placed'[p].cum
      /\ \/ \E i \in new : reports'[i].status = "partially_filled" /\ new = {i}
         \/ /\ placed'[p].qty = placed[p].qty /\ placed'[p].cum = placed[p].cum
            /\ \A i \in new : reports'[i].status # "partially_filled"
  BY <1>1 DEF Tells
<1>3. DOMAIN reports' \subseteq Nat
  BY <1>1, LenProperties
<1>4. \A i \in DOMAIN reports' : i \in DOMAIN reports \/ i \in new
  OBVIOUS
<1>. HIDE DEF new
<1>5. ASSUME NEW i \in new, reports'[i].status = "partially_filled", new = {i}
      PROVE  Agrees(p)'
  <2>1. i \in DOMAIN reports'
    BY DEF new
  <2>2. \A j \in DOMAIN reports' : j <= i
    BY <1>2, <1>3, <1>4, <1>5, <2>1
  <2>3. SaysLeft(p, i)'
    BY <1>1, <1>2, <1>5, <2>2 DEF SaysLeft, IsPart, Left
  <2>. QED BY <2>1, <2>3 DEF Agrees
<1>6. CASE /\ placed'[p].qty = placed[p].qty /\ placed'[p].cum = placed[p].cum
           /\ \A i \in new : reports'[i].status # "partially_filled"
  <2>1. Left(p)' = Left(p) /\ orders_'[placed'[p].id].qty = orders_[placed[p].id].qty
    BY <1>1, <1>6 DEF Left
  <2>2. \A i \in DOMAIN reports' : IsPart(i)' => i \in DOMAIN reports /\ IsPart(i)
    BY <1>1, <1>4, <1>6 DEF IsPart
  <2>3. CASE \A i \in DOMAIN reports : reports[i].placement = p => ~IsPart(i)
    <3>1. \A i \in DOMAIN reports' : reports'[i].placement = p => ~IsPart(i)'
      BY <1>1, <2>2, <2>3
    <3>2. orders_[placed[p].id].qty = Left(p)
      BY <2>3 DEF Agrees, SaysLeft
    <3>. QED BY <2>1, <3>1, <3>2 DEF Agrees
  <2>4. ASSUME NEW i \in DOMAIN reports, SaysLeft(p, i) PROVE SaysLeft(p, i)'
    BY <1>1, <2>1, <2>2, <2>4 DEF SaysLeft, IsPart
  <2>. QED BY <1>1, <2>3, <2>4 DEF Agrees
<1>. QED BY <1>2, <1>5, <1>6

LEMMA ExchangeQty ==
  ASSUME ChannelsInv, IdsInv, QtyInv, HandleRequest \/ Fill \/ Expire
  PROVE  QtyInv'
<1>. USE DEF ChannelsInv
<1>1. UNCHANGED <<orders_, missed>>
  BY DEF HandleRequest, Fill, Expire
<1>2. \A i \in DOMAIN requests' : requests'[i].kind # "amend"
  <2>1. CASE HandleRequest
    BY <2>1, RequestSteps, TailRequests DEF QtyInv
  <2>2. CASE Fill \/ Expire
    BY <2>2, MarketSteps DEF QtyInv
  <2>. QED BY <2>1, <2>2
<1>3. CASE UNCHANGED <<placed, reports>>
  <2>1. Unfinished' = Unfinished /\ \A p : Agrees(p)' <=> Agrees(p)
    BY <1>1, <1>3 DEF Unfinished, Agrees, SaysLeft, IsPart, Left
  <2>. QED BY <1>1, <1>2, <1>3, <2>1 DEF QtyInv
<1>4. ASSUME NEW p, ExchangeStep(p) PROVE QtyInv'
  <2>0. ~Amends
    BY HeadRequest DEF QtyInv, Amends
  <2>1. /\ p \in DOMAIN placed /\ DOMAIN placed' = DOMAIN placed
        /\ placed[p].phase # "ended"
        /\ \A q \in DOMAIN placed : /\ placed'[q].finished = placed[q].finished
                                    /\ q # p => placed'[q] = placed[q]
        /\ DOMAIN reports \subseteq DOMAIN reports'
        /\ \A i \in DOMAIN reports : reports'[i] = reports[i]
        /\ \A i \in DOMAIN reports' \ DOMAIN reports : reports'[i].placement = p
    BY <1>4, ExchangeEffect
  <2>2. Unfinished' = Unfinished /\ Unfinished \subseteq DOMAIN placed
    BY <2>1 DEF Unfinished
  <2>3. ASSUME NEW q \in Unfinished' \ missed', placed'[q].phase # "ended" PROVE Agrees(q)'
    <3>1. CASE q = p
      <4>1. p \in Unfinished /\ Agrees(p)
        BY <1>1, <2>1, <2>2, <2>3, <3>1 DEF QtyInv
      <4>. QED BY <1>1, <1>4, <2>0, <2>3, <3>1, <4>1, ExchangeAgrees
    <3>2. CASE q # p
      <4>1. UNCHANGED placed[q] /\ Agrees(q)
        BY <1>1, <2>1, <2>2, <2>3, <3>2 DEF QtyInv
      <4>. QED BY <1>1, <2>1, <3>2, <4>1, AgreesStill
    <3>. QED BY <3>1, <3>2
  <2>. QED BY <1>2, <2>3 DEF QtyInv
<1>. QED BY <1>3, <1>4, ExchangeSteps

LEMMA PlaceQty ==
  ASSUME ChannelsInv, IdsInv, QtyInv, PlaceOrderAutoId
  PROVE  QtyInv'
<1>. USE DEF ChannelsInv
<1>a. PICK p : p = Len(placed) + 1
  OBVIOUS
<1>b. PICK id : id = UniqueID
  OBVIOUS
<1>0. Place(id) /\ id \in Nat /\ id \notin DOMAIN orders_
  BY <1>b, UniqueIDFree DEF PlaceOrderAutoId
<1>1. /\ p \notin DOMAIN placed /\ DOMAIN placed' = DOMAIN placed \cup {p}
      /\ \A q \in DOMAIN placed : placed'[q] = placed[q]
      /\ placed'[p].id = id /\ reports' = reports
  BY <1>0, <1>a, PlaceEffect
<1>2. PICK order : /\ order.qty = placed'[p].qty - placed'[p].cum
                   /\ orders_' = Added(id, order)
  BY <1>0, <1>a, PlaceEffect
<1>3. PICK r \in Request : /\ r.kind = "place"
                           /\ requests' = Append(requests, r) \/ requests' = requests
  BY <1>0, PlaceEffect
<1>4. orders_'[id] = order /\ \A i \in DOMAIN orders_ : orders_'[i] = orders_[i]
  BY <1>0, <1>2 DEF Added
<1>5. \A i \in DOMAIN requests' : requests'[i].kind # "amend"
  <2>1. CASE requests' = Append(requests, r)
    <3>1. \A i \in DOMAIN requests' : requests'[i] = r \/ \E j \in DOMAIN requests :
                                                            requests'[i] = requests[j]
      <4>1. /\ requests' \in Seq(Request) /\ Len(requests') = Len(requests) + 1
            /\ requests'[Len(requests) + 1] = r
            /\ \A i \in 1..Len(requests) : requests'[i] = requests[i]
        BY <2>1, AppendProperties DEF TypeOK
      <4>2. /\ DOMAIN requests' = 1..Len(requests) + 1 /\ DOMAIN requests = 1..Len(requests)
            /\ Len(requests) \in Nat
        BY <4>1, LenProperties DEF TypeOK
      <4>. QED BY <4>1, <4>2
    <3>. QED BY <1>3, <3>1 DEF QtyInv
  <2>2. CASE requests' = requests
    BY <2>2 DEF QtyInv
  <2>. QED BY <1>3, <2>1, <2>2
<1>6. Unfinished' \subseteq Unfinished \cup {p} /\ Unfinished \subseteq DOMAIN placed
  BY <1>1 DEF Unfinished
<1>7. ASSUME NEW q \in Unfinished' \ missed', placed'[q].phase # "ended" PROVE Agrees(q)'
  <2>1. CASE q = p
    <3>1. \A i \in DOMAIN reports' : reports'[i].placement # p
      BY <1>1 DEF ReportsInv
    <3>2. orders_'[placed'[p].id].qty = Left(p)'
      BY <1>1, <1>2, <1>4 DEF Left
    <3>. QED BY <2>1, <3>1, <3>2 DEF Agrees
  <2>2. CASE q # p
    <3>1. q \in Unfinished /\ UNCHANGED placed[q] /\ Agrees(q) /\ placed[q].id \in DOMAIN orders_
      BY <1>0, <1>1, <1>6, <1>7, <2>2 DEF Place, QtyInv, IdsInv, StorageHoldsUnfinished
    <3>2. UNCHANGED orders_[placed[q].id]
      BY <1>4, <3>1
    <3>. QED BY <1>1, <3>1, <3>2, AgreesStill
  <2>. QED BY <2>1, <2>2
<1>. QED BY <1>5, <1>7 DEF QtyInv

\* Cancelling leaves quantities alone.
LEMMA CancelQty ==
  ASSUME ChannelsInv, IdsInv, QtyInv, CancelOrder
  PROVE  QtyInv'
<1>. USE DEF ChannelsInv
<1>1. PICK id \in CalledIds :
        /\ orders_' = StatusUpdated(id, "invalid", "cancel")
        /\ Send([kind |-> "cancel", id |-> id, placement |-> Meant(id), qty |-> 0])
  BY DEF CancelOrder
<1>2. UNCHANGED <<placed, reports, missed>>
  BY DEF CancelOrder
<1>. DEFINE r == [kind |-> "cancel", id |-> id, placement |-> Meant(id), qty |-> 0]
<1>3. r \in Request /\ r.kind = "cancel"
  BY MeantType, InputsAssumption DEF Request
<1>4. requests' = Append(requests, r) \/ requests' = requests
  BY <1>1, Zenon DEF Send
<1>. HIDE DEF r
<1>5. \A i \in DOMAIN requests' : requests'[i].kind # "amend"
  <2>1. CASE requests' = Append(requests, r)
    <3>1. \A i \in DOMAIN requests' : requests'[i] = r \/ \E j \in DOMAIN requests :
                                                            requests'[i] = requests[j]
      <4>1. /\ requests' \in Seq(Request) /\ Len(requests') = Len(requests) + 1
            /\ requests'[Len(requests) + 1] = r
            /\ \A i \in 1..Len(requests) : requests'[i] = requests[i]
        BY <1>3, <2>1, AppendProperties DEF TypeOK
      <4>2. /\ DOMAIN requests' = 1..Len(requests) + 1 /\ DOMAIN requests = 1..Len(requests)
            /\ Len(requests) \in Nat
        BY <4>1, LenProperties DEF TypeOK
      <4>. QED BY <4>1, <4>2
    <3>. QED BY <1>3, <3>1 DEF QtyInv
  <2>2. CASE requests' = requests
    BY <2>2 DEF QtyInv
  <2>. QED BY <1>4, <2>1, <2>2
<1>6. \A i \in DOMAIN orders_ : orders_'[i].qty = orders_[i].qty
  BY <1>1 DEF StatusUpdated, TypeOK, Order
<1>7. Unfinished' = Unfinished /\ \A q \in Unfinished : placed[q].id \in DOMAIN orders_
  BY <1>2 DEF Unfinished, IdsInv, StorageHoldsUnfinished
<1>8. ASSUME NEW q \in Unfinished' \ missed', placed'[q].phase # "ended" PROVE Agrees(q)'
  <2>1. Agrees(q) /\ orders_'[placed'[q].id].qty = orders_[placed[q].id].qty
    BY <1>2, <1>6, <1>7, <1>8 DEF QtyInv
  <2>. QED BY <1>2, <2>1 DEF Agrees, SaysLeft, IsPart, Left
<1>. QED BY <1>5, <1>8 DEF QtyInv

LEMMA ReportQty ==
  ASSUME ChannelsInv, IdsInv, LastsInv, QtyInv, OnResponse
  PROVE  QtyInv'
<1>. USE DEF ChannelsInv
<1>a. PICK p : p = Head(reports).placement
  OBVIOUS
<1>. DEFINE r == Head(reports)
<1>1. reports # <<>> /\ reports' = Tail(reports) /\ requests' = requests
  BY ReportSteps
<1>2. /\ 1 \in DOMAIN reports /\ r = reports[1]
      /\ \A i \in DOMAIN reports' : /\ i \in Nat \ {0} /\ i + 1 \in DOMAIN reports
                                    /\ reports'[i] = reports[i + 1]
      /\ \A i \in DOMAIN reports : i # 1 =>
           i \in Nat /\ i - 1 \in DOMAIN reports' /\ reports'[i - 1] = reports[i]
  BY <1>1, ReportsMoveUp
<1>3. CASE AcceptEnd(r)
  <2>1. r.status \in Terminal /\ UNCHANGED missed
    BY <1>3 DEF AcceptEnd, Ends
  <2>2. /\ p \in DOMAIN placed /\ ~placed[p].finished
        /\ DOMAIN placed' = DOMAIN placed /\ placed'[p].finished
        /\ \A q \in DOMAIN placed : q # p => placed'[q] = placed[q]
        /\ DOMAIN orders_' = DOMAIN orders_ \ {placed[p].id}
        /\ \A i \in DOMAIN orders_' : orders_'[i] = orders_[i]
    BY <1>a, <1>1, <1>3, <2>1, EndEffect
  <2>3. Unfinished' = Unfinished \ {p} /\ p \in Unfinished /\ Unfinished \subseteq DOMAIN placed
    BY <2>2 DEF Unfinished
  <2>4. ASSUME NEW q \in Unfinished' \ missed', placed'[q].phase # "ended" PROVE Agrees(q)'
    <3>1. q \in Unfinished /\ q # p /\ UNCHANGED placed[q] /\ Agrees(q)
      BY <2>1, <2>2, <2>3, <2>4 DEF QtyInv
    <3>2. placed[q].id \in DOMAIN orders_ /\ placed[q].id # placed[p].id
      BY <2>3, <3>1 DEF IdsInv, StorageHoldsUnfinished, UniqueIds
    <3>3. UNCHANGED orders_[placed[q].id]
      BY <2>2, <3>1, <3>2
    <3>. QED BY <1>1, <1>a, <3>1, <3>3, AgreesMovedUp
  <2>. QED BY <1>1, <2>4 DEF QtyInv
<1>4. CASE AcceptUpdate(r)
  <2>1. /\ p \in Unfinished /\ UNCHANGED <<placed, missed>>
        /\ \A q \in Unfinished : q # p => orders_'[placed[q].id] = orders_[placed[q].id]
        /\ orders_'[placed[p].id].qty = IF r.status = "partially_filled" THEN r.qty - r.cum
                                        ELSE orders_[placed[p].id].qty
    BY <1>a, <1>1, <1>4, UpdateEffect
  <2>2. Unfinished' = Unfinished
    BY <2>1 DEF Unfinished
  <2>. HIDE DEF r
  <2>3. ASSUME p \notin missed, placed'[p].phase # "ended" PROVE Agrees(p)'
    <3>1. Agrees(p) /\ Left(p)' = Left(p)
      BY <2>1, <2>3 DEF QtyInv, Left
    <3>2. CASE \A i \in DOMAIN reports : reports[i].placement = p => ~IsPart(i)
      <4>1. orders_[placed[p].id].qty = Left(p) /\ r.status # "partially_filled"
        BY <1>2, <1>a, <3>1, <3>2 DEF Agrees, SaysLeft, IsPart, r
      <4>2. \A i \in DOMAIN reports' : reports'[i].placement = p => ~IsPart(i)'
        BY <1>2, <3>2 DEF IsPart
      <4>. QED BY <2>1, <3>1, <4>1, <4>2 DEF Agrees
    <3>3. ASSUME NEW i \in DOMAIN reports, SaysLeft(p, i) PROVE Agrees(p)'
      <4>1. \A j \in DOMAIN reports' : reports'[j].placement = p /\ IsPart(j)' => j + 1 <= i
        BY <1>2, <3>3 DEF SaysLeft, IsPart
      <4>2. CASE i = 1
        <5>1. r.status = "partially_filled" /\ r.qty - r.cum = Left(p)
          BY <1>2, <3>3, <4>2 DEF SaysLeft, IsPart
        <5>2. \A j \in DOMAIN reports' : reports'[j].placement = p => ~IsPart(j)'
          BY <1>2, <4>1, <4>2
        <5>. QED BY <2>1, <3>1, <5>1, <5>2 DEF Agrees
      <4>3. CASE i # 1
        <5>1. i \in Nat /\ i - 1 \in DOMAIN reports' /\ reports'[i - 1] = reports[i]
          BY <1>2, <4>3
        <5>2. \A j \in DOMAIN reports' : reports'[j].placement = p /\ IsPart(j)' => j <= i - 1
          BY <1>2, <4>1, <5>1
        <5>3. SaysLeft(p, i - 1)'
          BY <2>1, <3>1, <3>3, <5>1, <5>2 DEF SaysLeft, IsPart, r
        <5>. QED BY <5>1, <5>3 DEF Agrees
      <4>. QED BY <4>2, <4>3
    <3>. QED BY <3>1, <3>2, <3>3 DEF Agrees
  <2>4. ASSUME NEW q \in Unfinished \ missed, q # p, placed'[q].phase # "ended"
        PROVE  Agrees(q)'
    <3>1. Agrees(q) /\ UNCHANGED <<placed[q], orders_[placed[q].id]>>
      BY <2>1, <2>4 DEF QtyInv
    <3>. QED BY <1>1, <1>a, <2>4, <3>1, AgreesMovedUp DEF r
  <2>5. ASSUME NEW q \in Unfinished \ missed, placed'[q].phase # "ended" PROVE Agrees(q)'
    <3>1. CASE q = p
      BY <2>3, <2>5, <3>1 DEF Agrees, SaysLeft, IsPart, Left
    <3>. QED BY <2>4, <2>5, <3>1
  <2>. QED BY <1>1, <2>1, <2>2, <2>5 DEF QtyInv
<1>5. CASE Drop(r)
  <2>1. UNCHANGED <<orders_, placed>> /\ missed' = missed \cup {p}
    BY <1>a, <1>5 DEF Drop
  <2>2. Unfinished' = Unfinished
    BY <2>1 DEF Unfinished
  <2>3. ASSUME NEW q \in Unfinished' \ missed', placed'[q].phase # "ended" PROVE Agrees(q)'
    <3>1. Agrees(q) /\ q # p /\ UNCHANGED <<placed[q], orders_[placed[q].id]>>
      BY <2>1, <2>2, <2>3 DEF QtyInv
    <3>. QED BY <1>1, <1>a, <3>1, AgreesMovedUp
  <2>. QED BY <1>1, <2>3 DEF QtyInv
<1>. QED BY <1>3, <1>4, <1>5 DEF OnResponse

LEMMA NextQty ==
  ASSUME ManualIds = {}, AmendedQtys = {}
  PROVE  ChannelsInv /\ IdsInv /\ LastsInv /\ QtyInv /\ [Next]_vars => QtyInv'
<1>. SUFFICES ASSUME ChannelsInv, IdsInv, LastsInv, QtyInv, [Next]_vars PROVE QtyInv'
  OBVIOUS
<1>1. ~PlaceOrderManualId /\ ~AmendOrder
  BY DEF PlaceOrderManualId, AmendOrder
<1>2. CASE PlaceOrderAutoId \/ CancelOrder
  BY <1>2, PlaceQty, CancelQty
<1>3. CASE HandleRequest \/ Fill \/ Expire
  BY <1>3, ExchangeQty
<1>4. CASE OnResponse
  BY <1>4, ReportQty
<1>5. CASE UNCHANGED vars
  BY <1>5 DEF vars, QtyInv, Unfinished, Agrees, SaysLeft, IsPart, Left
<1>. QED BY <1>1, <1>2, <1>3, <1>4, <1>5 DEF Next

LEMMA InitLasts == Init => LastsInv /\ QtyInv
BY DEF Init, LastsInv, QtyInv, Unfinished

\* If callers leave the choice of ids to UIDManager and change no quantities, the stored
\* quantity of an order that is open is what is left of it, whenever no report on it is on its
\* way or was refused: fills are subtracted once, and from the right order, although ids are
\* used again (order_storage.h).
THEOREM QuantitiesAgree ==
  ASSUME ManualIds = {}, AmendedQtys = {}
  PROVE  Spec => []QuantityAgrees
<1>1. QtyInv => QuantityAgrees
  BY DEF QtyInv, QuantityAgrees, Agrees, SaysLeft, Left
<1>. QED BY InitChannels, NextChannels, InitIds, NextIds, InitLasts, NextLasts, NextQty,
            <1>1, PTL DEF Spec

-----------------------------------------------------------------------------
(* Pending actions.                                                        *)

AskedFor(p, kind) ==
  \E i \in DOMAIN requests : requests[i].placement = p /\ requests[i].kind = kind

ToldOf(p) == \E i \in DOMAIN reports : reports[i].placement = p

EndTold(p) == \E i \in DOMAIN reports : reports[i].placement = p /\ Ends(reports[i])

\* What a pending action of p waits for is on its way.
Awaits(p, pending) ==
  /\ pending = "place" => AskedFor(p, "place") \/ ToldOf(p)
  /\ pending = "cancel" => AskedFor(p, "cancel") \/ EndTold(p)

\* Requests about a stored placement follow the one that announces it.
OrderedInv ==
  \A i \in DOMAIN requests : ~IsPlace(i) /\ requests[i].placement # 0 =>
    /\ requests[i].placement \in DOMAIN placed
    /\ requests[i].id = placed[requests[i].placement].id
    /\ \A j \in DOMAIN requests :
         IsPlace(j) /\ requests[j].placement = requests[i].placement => j < i

AskedInv == \A p \in DOMAIN placed : placed[p].phase = "sent" => AskedFor(p, "place")

EndedInv == \A p \in Unfinished \ missed : placed[p].phase = "ended" => EndTold(p)

PendingInv == \A p \in Unfinished \ missed : Awaits(p, orders_[placed[p].id].pending)

AwaitInv == OrderedInv /\ AskedInv /\ EndedInv /\ PendingInv

LEMMA RequestAdded ==
  ASSUME TypeOK, NEW r \in Request, requests' = Append(requests, r)
  PROVE  \E n : /\ DOMAIN requests' = DOMAIN requests \cup {n} /\ requests'[n] = r
                /\ \A i \in DOMAIN requests : i < n /\ requests'[i] = requests[i]
<1>. DEFINE n == Len(requests) + 1
<1>1. /\ requests' \in Seq(Request) /\ Len(requests') = n /\ requests'[n] = r
      /\ \A i \in 1..Len(requests) : requests'[i] = requests[i]
  BY AppendProperties DEF TypeOK
<1>2. DOMAIN requests' = 1..n /\ DOMAIN requests = 1..Len(requests) /\ Len(requests) \in Nat
  BY <1>1, LenProperties DEF TypeOK
<1>3. /\ DOMAIN requests' = DOMAIN requests \cup {n}
      /\ \A i \in DOMAIN requests : i < n /\ requests'[i] = requests[i]
  BY <1>1, <1>2
<1>. QED BY <1>1, <1>3

LEMMA AskedStill ==
  ASSUME DOMAIN requests \subseteq DOMAIN requests',
         \A i \in DOMAIN requests : requests'[i] = requests[i]
  PROVE  \A p, kind : AskedFor(p, kind) => AskedFor(p, kind)'
BY DEF AskedFor

LEMMA AskedMovedUp ==
  ASSUME TypeOK, RequestsInv, requests # <<>>, requests' = Tail(requests),
         NEW p, NEW kind, AskedFor(p, kind),
         Head(requests).placement # p \/ Head(requests).kind # kind
  PROVE  AskedFor(p, kind)'
<1>1. PICK i \in DOMAIN requests : requests[i].placement = p /\ requests[i].kind = kind
  BY DEF AskedFor
<1>2. Head(requests) = requests[1] /\ i # 1
  BY <1>1, HeadRequest
<1>3. /\ requests' \in Seq(Request) /\ Len(requests') = Len(requests) - 1
      /\ \A j \in 1..Len(requests') : requests'[j] = requests[j + 1]
  BY HeadTailProperties DEF TypeOK
<1>4. DOMAIN requests' = 1..Len(requests') /\ DOMAIN requests = 1..Len(requests)
      /\ Len(requests) \in Nat
  BY <1>3, LenProperties DEF TypeOK
<1>5. i - 1 \in 1..Len(requests') /\ (i - 1) + 1 = i
  BY <1>2, <1>3, <1>4
<1>6. i - 1 \in DOMAIN requests' /\ requests'[i - 1] = requests[i]
  BY <1>3, <1>4, <1>5
<1>. QED BY <1>1, <1>6 DEF AskedFor

LEMMA ToldStill ==
  ASSUME DOMAIN reports \subseteq DOMAIN reports',
         \A i \in DOMAIN reports : reports'[i] = reports[i]
  PROVE  \A p : (ToldOf(p) => ToldOf(p)') /\ (EndTold(p) => EndTold(p)')
BY DEF ToldOf, EndTold, Ends

LEMMA ToldMovedUp ==
  ASSUME TypeOK, reports # <<>>, reports' = Tail(reports), NEW p
  PROVE  /\ ToldOf(p) /\ Head(reports).placement # p => ToldOf(p)'
         /\ EndTold(p) /\ (Head(reports).placement # p \/ Head(reports).status \notin Terminal)
              => EndTold(p)'
<1>1. /\ Head(reports) = reports[1]
      /\ \A i \in DOMAIN reports : i # 1 =>
           i - 1 \in DOMAIN reports' /\ reports'[i - 1] = reports[i]
  BY ReportsMoveUp
<1>2. ASSUME NEW i \in DOMAIN reports, reports[i].placement = p, Head(reports).placement # p
      PROVE  ToldOf(p)'
  BY <1>1, <1>2 DEF ToldOf
<1>3. ASSUME NEW i \in DOMAIN reports, reports[i].placement = p, Ends(reports[i]),
             Head(reports).placement # p \/ Head(reports).status \notin Terminal
      PROVE  EndTold(p)'
  <2>1. i - 1 \in DOMAIN reports' /\ reports'[i - 1] = reports[i]
    BY <1>1, <1>3 DEF Ends
  <2>. QED BY <1>3, <2>1 DEF EndTold, Ends
<1>. QED BY <1>2, <1>3 DEF ToldOf, EndTold

LEMMA PlaceAwait ==
  ASSUME MayFail = FALSE, ChannelsInv, IdsInv, AwaitInv, PlaceOrderAutoId
  PROVE  AwaitInv'
<1>. USE DEF ChannelsInv
<1>a. PICK p : p = Len(placed) + 1
  OBVIOUS
<1>b. PICK id : id = UniqueID
  OBVIOUS
<1>0. Place(id) /\ id \in Nat /\ id \notin DOMAIN orders_
  BY <1>b, UniqueIDFree DEF PlaceOrderAutoId
<1>1. /\ p \notin DOMAIN placed /\ DOMAIN placed' = DOMAIN placed \cup {p}
      /\ \A q \in DOMAIN placed : placed'[q] = placed[q]
      /\ placed'[p].id = id /\ placed'[p].phase = "sent" /\ reports' = reports
      /\ missed' = missed
  BY <1>0, <1>a, PlaceEffect DEF Place
<1>2. PICK order : order.pending = "place" /\ orders_' = Added(id, order)
  BY <1>0, <1>a, PlaceEffect
<1>3. PICK r \in Request : /\ r.kind = "place" /\ r.placement = p
                           /\ requests' = Append(requests, r)
  BY <1>0, <1>a, PlaceEffect
<1>4. orders_'[id] = order /\ \A i \in DOMAIN orders_ : orders_'[i] = orders_[i]
  BY <1>0, <1>2 DEF Added
<1>5. PICK n : /\ DOMAIN requests' = DOMAIN requests \cup {n} /\ requests'[n] = r
               /\ \A i \in DOMAIN requests : i < n /\ requests'[i] = requests[i]
  BY <1>3, RequestAdded
<1>6. /\ Unfinished' \subseteq Unfinished \cup {p} /\ Unfinished \subseteq DOMAIN placed
      /\ \A q \in Unfinished : placed[q].id \in DOMAIN orders_
  BY <1>1 DEF Unfinished, IdsInv, StorageHoldsUnfinished
<1>7. /\ AskedFor(p, "place")' /\ \A q, kind : AskedFor(q, kind) => AskedFor(q, kind)'
      /\ \A q : (ToldOf(q) => ToldOf(q)') /\ (EndTold(q) => EndTold(q)')
  <2>1. AskedFor(p, "place")'
    BY <1>3, <1>5 DEF AskedFor
  <2>. QED BY <1>1, <1>5, <2>1, AskedStill, ToldStill
<1>8. OrderedInv'
  <2>1. ASSUME NEW i \in DOMAIN requests', requests'[i].kind # "place",
               requests'[i].placement # 0
        PROVE  /\ requests'[i].placement \in DOMAIN placed'
               /\ requests'[i].id = placed'[requests'[i].placement].id
               /\ \A j \in DOMAIN requests' : requests'[j].kind = "place"
                    /\ requests'[j].placement = requests'[i].placement => j < i
    <3>1. i \in DOMAIN requests /\ requests'[i] = requests[i] /\ ~IsPlace(i)
      BY <1>3, <1>5, <2>1 DEF IsPlace
    <3>2. /\ requests[i].placement \in DOMAIN placed
          /\ requests[i].id = placed[requests[i].placement].id
          /\ \A j \in DOMAIN requests :
               IsPlace(j) /\ requests[j].placement = requests[i].placement => j < i
      BY <2>1, <3>1 DEF AwaitInv, OrderedInv
    <3>3. ASSUME NEW j \in DOMAIN requests', requests'[j].kind = "place",
                 requests'[j].placement = requests'[i].placement
          PROVE  j < i
      <4>1. j # n
        BY <1>1, <1>3, <1>5, <3>1, <3>2, <3>3
      <4>2. j \in DOMAIN requests /\ requests'[j] = requests[j]
        BY <1>5, <4>1
      <4>. QED BY <3>1, <3>2, <3>3, <4>2 DEF IsPlace
    <3>. QED BY <1>1, <3>1, <3>2, <3>3
  <2>. QED BY <2>1 DEF OrderedInv, IsPlace
<1>9. AskedInv'
  BY <1>1, <1>7 DEF AwaitInv, AskedInv
<1>10. EndedInv'
  <2>. SUFFICES ASSUME NEW q \in Unfinished' \ missed', placed'[q].phase = "ended"
                PROVE  EndTold(q)'
    BY DEF EndedInv
  <2>1. q \in Unfinished \ missed /\ placed[q].phase = "ended"
    BY <1>1, <1>6
  <2>. QED BY <1>7, <2>1 DEF AwaitInv, EndedInv
<1>11. PendingInv'
  <2>. SUFFICES ASSUME NEW q \in Unfinished' \ missed'
                PROVE  Awaits(q, orders_[placed[q].id].pending)'
    BY DEF PendingInv
  <2>1. CASE q = p
    BY <1>1, <1>2, <1>4, <1>7, <2>1 DEF Awaits
  <2>2. CASE q # p
    <3>1. /\ q \in Unfinished /\ orders_'[placed'[q].id].pending = orders_[placed[q].id].pending
          /\ Awaits(q, orders_[placed[q].id].pending)
      BY <1>1, <1>4, <1>6, <2>2 DEF AwaitInv, PendingInv
    <3>. QED BY <1>7, <3>1 DEF Awaits
  <2>. QED BY <2>1, <2>2
<1>. QED BY <1>8, <1>9, <1>10, <1>11 DEF AwaitInv

LEMMA OtherCallAwait ==
  ASSUME MayFail = FALSE, ChannelsInv, IdsInv, AwaitInv, CancelOrder \/ AmendOrder
  PROVE  AwaitInv'
<1>. USE DEF ChannelsInv
<1>1. PICK id \in CalledIds, kind \in {"cancel", "amend"}, qty \in Nat :
        /\ orders_' = StatusUpdated(id, "invalid", kind)
        /\ Send([kind |-> kind, id |-> id, placement |-> Meant(id), qty |-> qty])
  <2>1. CASE CancelOrder
    BY <2>1 DEF CancelOrder
  <2>2. CASE AmendOrder
    BY <2>2, InputsAssumption DEF AmendOrder
  <2>. QED BY <2>1, <2>2
<1>2. UNCHANGED <<placed, reports, missed>>
  BY DEF CancelOrder, AmendOrder
<1>3. PICK r \in Request : /\ r.kind = kind /\ r.id = id /\ r.placement = Meant(id)
                           /\ requests' = Append(requests, r)
  <2>. DEFINE r == [kind |-> kind, id |-> id, placement |-> Meant(id), qty |-> qty]
  <2>1. /\ r \in Request /\ r.kind = kind /\ r.id = id /\ r.placement = Meant(id)
    BY MeantType, InputsAssumption DEF Request
  <2>2. requests' = Append(requests, r)
    BY <1>1, Zenon DEF Send
  <2>. HIDE DEF r
  <2>. QED BY <2>1, <2>2
<1>4. PICK n : /\ DOMAIN requests' = DOMAIN requests \cup {n} /\ requests'[n] = r
               /\ \A i \in DOMAIN requests : i < n /\ requests'[i] = requests[i]
  BY <1>3, RequestAdded
<1>5. r.placement # 0 => r.placement \in Unfinished /\ placed[r.placement].id = id
  BY <1>3 DEF Meant, IdsInv, StorageHoldsUnfinished
<1>6. /\ Unfinished' = Unfinished /\ Unfinished \subseteq DOMAIN placed
      /\ \A p \in Unfinished : /\ placed[p].id \in DOMAIN orders_
                               /\ placed[p].id = id => p = r.placement
  BY <1>2, <1>3 DEF Unfinished, Meant, IdsInv, StorageHoldsUnfinished
<1>7. /\ AskedFor(r.placement, kind)' /\ \A p, k : AskedFor(p, k) => AskedFor(p, k)'
      /\ \A p : (ToldOf(p) => ToldOf(p)') /\ (EndTold(p) => EndTold(p)')
  <2>1. AskedFor(r.placement, kind)'
    BY <1>3, <1>4 DEF AskedFor
  <2>. QED BY <1>2, <1>4, <2>1, AskedStill, ToldStill
<1>8. OrderedInv'
  <2>1. ASSUME NEW i \in DOMAIN requests', requests'[i].kind # "place",
               requests'[i].placement # 0
        PROVE  /\ requests'[i].placement \in DOMAIN placed'
               /\ requests'[i].id = placed'[requests'[i].placement].id
               /\ \A j \in DOMAIN requests' : requests'[j].kind = "place"
                    /\ requests'[j].placement = requests'[i].placement => j < i
    <3>1. \A j \in DOMAIN requests' : requests'[j].kind = "place" =>
            j \in DOMAIN requests /\ requests'[j] = requests[j] /\ IsPlace(j)
      BY <1>3, <1>4 DEF IsPlace
    <3>2. CASE i = n
      BY <1>2, <1>3, <1>4, <1>5, <1>6, <2>1, <3>1, <3>2
    <3>3. CASE i # n
      <4>1. i \in DOMAIN requests /\ requests'[i] = requests[i] /\ ~IsPlace(i)
        BY <1>4, <2>1, <3>3 DEF IsPlace
      <4>. QED BY <1>2, <2>1, <3>1, <4>1 DEF AwaitInv, OrderedInv
    <3>. QED BY <3>2, <3>3
  <2>. QED BY <2>1 DEF OrderedInv, IsPlace
<1>9. AskedInv' /\ EndedInv'
  BY <1>2, <1>6, <1>7 DEF AwaitInv, AskedInv, EndedInv
<1>10. PendingInv'
  <2>. SUFFICES ASSUME NEW p \in Unfinished \ missed
                PROVE  Awaits(p, orders_[placed[p].id].pending)'
    BY <1>2, <1>6 DEF PendingInv
  <2>1. CASE placed[p].id = id
    <3>1. orders_'[placed'[p].id].pending = kind
      <4>1. orders_'[id] = [orders_[id] EXCEPT !.status = "invalid", !.pending = kind]
        BY <1>1, <1>6, <2>1 DEF StatusUpdated
      <4>2. orders_'[id].pending = kind
        BY <1>6, <2>1, <4>1 DEF TypeOK, Order
      <4>. QED BY <1>2, <2>1, <4>2
    <3>2. AskedFor(p, kind)'
      BY <1>6, <1>7, <2>1
    <3>. QED BY <3>1, <3>2 DEF Awaits
  <2>2. CASE placed[p].id # id
    <3>1. orders_'[placed[p].id] = orders_[placed[p].id]
      BY <1>1, <1>6, <2>2 DEF StatusUpdated
    <3>2. /\ Awaits(p, orders_[placed[p].id].pending)
          /\ orders_'[placed'[p].id].pending = orders_[placed[p].id].pending
      BY <1>2, <3>1 DEF AwaitInv, PendingInv
    <3>. QED BY <1>7, <3>2 DEF Awaits
  <2>. QED BY <2>1, <2>2
<1>. QED BY <1>8, <1>9, <1>10 DEF AwaitInv

\* A cancel is only answered when the order it is about is over.
LEMMA CancelTaken ==
  ASSUME ChannelsInv, ReferencesInv, AwaitInv, HandleRequest,
         Head(requests).kind = "cancel", NEW q \in Unfinished \ missed, Head(requests).placement = q
  PROVE  EndTold(q)'
<1>. USE DEF ChannelsInv
<1>1. 1 \in DOMAIN requests /\ Head(requests) = requests[1] /\ ~IsPlace(1) /\ requests # <<>>
  BY HeadRequest DEF HandleRequest, IsPlace
<1>2. /\ q \in DOMAIN placed /\ requests[1].id = placed[q].id /\ placed[q].phase # "sent"
  <2>1. /\ q \in DOMAIN placed /\ requests[1].id = placed[q].id
        /\ \A j \in DOMAIN requests : IsPlace(j) /\ requests[j].placement = q => j < 1
    <3>1. q # 0
      BY LenProperties DEF TypeOK, Unfinished
    <3>. QED BY <1>1, <3>1 DEF AwaitInv, OrderedInv
  <2>2. DOMAIN requests \subseteq Nat \ {0}
    BY LenProperties DEF TypeOK
  <2>3. ~AskedFor(q, "place")
    BY <2>1, <2>2 DEF AskedFor, IsPlace
  <2>. QED BY <2>1, <2>3 DEF AwaitInv, AskedInv
<1>3. placed[q].phase \in {"open", "ended"}
  BY <1>2, PlacementFields DEF Placement
<1>4. CASE NotOpen(Head(requests))
  <2>1. placed[q].phase = "ended"
    BY <1>1, <1>2, <1>3, <1>4 DEF NotOpen, OpenUnder
  <2>2. EndTold(q)
    BY <2>1 DEF AwaitInv, EndedInv
  <2>. QED BY <1>4, <2>2 DEF NotOpen, EndTold
<1>5. CASE Cancel(Head(requests))
  <2>1. PICK p \in OpenUnder(requests[1].id) :
               Becomes(p, [placed[p] EXCEPT !.phase = "ended"], <<"cancelled">>)
    BY <1>1, <1>5 DEF Cancel
  <2>2. p \in DOMAIN placed /\ placed[p].phase = "open" /\ p = q
    BY <1>1, <2>1 DEF OpenUnder, ReferencesInv
  <2>3. LegalChange(q, [placed[q] EXCEPT !.phase = "ended"], <<"cancelled">>)
    BY <2>2, EndsLegally DEF Terminal
  <2>4. ExchangeStep(q)
    BY <2>1, <2>2, <2>3 DEF ExchangeStep
  <2>5. placed'[q].phase = "ended"
    BY <2>1, <2>2, PlacementFields DEF Becomes, Placement
  <2>6. PICK i \in DOMAIN reports' \ DOMAIN reports :
               reports'[i].status \in Terminal /\ reports'[i].placement = q
    BY <2>4, <2>5, ExchangeEffect DEF Tells
  <2>. QED BY <2>6 DEF EndTold, Ends
<1>. QED BY <1>4, <1>5 DEF HandleRequest, AcceptOrReject, Amend

\* The exchange takes no request about a placement away without a word.
LEMMA RequestAwait ==
  ASSUME ChannelsInv, IdsInv, ReferencesInv, AwaitInv, HandleRequest
  PROVE  AwaitInv'
<1>. USE DEF ChannelsInv
<1>1. requests # <<>> /\ requests' = Tail(requests) /\ UNCHANGED <<orders_, missed>>
  BY RequestSteps DEF HandleRequest
<1>2. \A i \in DOMAIN requests' : /\ i \in Nat /\ i + 1 \in DOMAIN requests
                                  /\ requests'[i] = requests[i + 1]
  BY <1>1, TailRequests
<1>3. /\ DOMAIN placed' = DOMAIN placed
      /\ \A q \in DOMAIN placed : /\ placed'[q].id = placed[q].id
                                  /\ placed'[q].finished = placed[q].finished
      /\ DOMAIN reports \subseteq DOMAIN reports'
      /\ \A i \in DOMAIN reports : reports'[i] = reports[i]
  BY RequestSteps, ExchangeEffect
<1>4. ASSUME NEW q \in DOMAIN placed
      PROVE  /\ placed'[q].phase = "sent" =>
                  /\ placed[q].phase = "sent"
                  /\ Head(requests).kind # "place" \/ Head(requests).placement # q
             /\ placed'[q].phase = "ended" => placed[q].phase = "ended" \/ EndTold(q)'
  <2>1. CASE UNCHANGED <<placed, reports>> /\ Head(requests).kind # "place"
    BY <2>1
  <2>2. ASSUME NEW p, ExchangeStep(p),
               \/ Head(requests).kind # "place" /\ placed[p].phase = "open"
               \/ Head(requests).kind = "place" /\ p = Head(requests).placement,
               q = p
        PROVE  /\ placed'[q].phase # "sent"
               /\ placed'[q].phase = "ended" => EndTold(q)'
    <3>1. /\ placed'[p].phase # "sent"
          /\ placed'[p].phase = "ended" => \E i \in DOMAIN reports' \ DOMAIN reports :
               reports'[i].status \in Terminal /\ reports'[i].placement = p
      BY <2>2, ExchangeEffect DEF Tells
    <3>2. placed'[p].phase = "ended" => EndTold(p)'
      BY <3>1 DEF EndTold, Ends
    <3>. QED BY <2>2, <3>1, <3>2
  <2>3. ASSUME NEW p, ExchangeStep(p), q # p PROVE placed'[q] = placed[q]
    BY <2>3, ExchangeEffect
  <2>. QED BY <2>1, <2>2, <2>3, RequestSteps
<1>5. Unfinished' = Unfinished /\ Unfinished \subseteq DOMAIN placed
  BY <1>3 DEF Unfinished
<1>6. \A q : (ToldOf(q) => ToldOf(q)') /\ (EndTold(q) => EndTold(q)')
  BY <1>3, ToldStill
<1>7. \A q, kind : AskedFor(q, kind) /\ (Head(requests).placement # q \/ Head(requests).kind # kind)
        => AskedFor(q, kind)'
  BY <1>1, AskedMovedUp
<1>8. OrderedInv'
  <2>1. ASSUME NEW i \in DOMAIN requests', requests'[i].kind # "place",
               requests'[i].placement # 0
        PROVE  /\ requests'[i].placement \in DOMAIN placed'
               /\ requests'[i].id = placed'[requests'[i].placement].id
               /\ \A j \in DOMAIN requests' : requests'[j].kind = "place"
                    /\ requests'[j].placement = requests'[i].placement => j < i
    <3>1. /\ i \in Nat /\ i + 1 \in DOMAIN requests /\ requests'[i] = requests[i + 1]
          /\ ~IsPlace(i + 1)
      BY <1>2, <2>1 DEF IsPlace
    <3>2. /\ requests[i + 1].placement \in DOMAIN placed
          /\ requests[i + 1].id = placed[requests[i + 1].placement].id
          /\ \A j \in DOMAIN requests :
               IsPlace(j) /\ requests[j].placement = requests[i + 1].placement => j < i + 1
      BY <2>1, <3>1 DEF AwaitInv, OrderedInv
    <3>3. ASSUME NEW j \in DOMAIN requests', requests'[j].kind = "place",
                 requests'[j].placement = requests'[i].placement
          PROVE  j < i
      <4>1. /\ j \in Nat /\ j + 1 \in DOMAIN requests /\ IsPlace(j + 1)
            /\ requests[j + 1].placement = requests[i + 1].placement
        BY <1>2, <3>1, <3>3 DEF IsPlace
      <4>2. j + 1 < i + 1
        BY <3>2, <4>1
      <4>. QED BY <3>1, <4>1, <4>2
    <3>. QED BY <1>3, <3>1, <3>2, <3>3
  <2>. QED BY <2>1 DEF OrderedInv, IsPlace
<1>9. AskedInv'
  BY <1>3, <1>4, <1>7 DEF AwaitInv, AskedInv
<1>10. EndedInv'
  BY <1>1, <1>4, <1>5, <1>6 DEF AwaitInv, EndedInv
<1>11. PendingInv'
  <2>. SUFFICES ASSUME NEW q \in Unfinished \ missed
                PROVE  Awaits(q, orders_[placed[q].id].pending)'
    BY <1>1, <1>5 DEF PendingInv
  <2>1. /\ Awaits(q, orders_[placed[q].id].pending)
        /\ orders_'[placed'[q].id].pending = orders_[placed[q].id].pending
    BY <1>1, <1>3, <1>5 DEF AwaitInv, PendingInv
  <2>2. AskedFor(q, "place") => AskedFor(q, "place")' \/ ToldOf(q)'
    <3>1. ASSUME Head(requests).placement = q, Head(requests).kind = "place" PROVE ToldOf(q)'
      <4>1. ExchangeStep(q)
        BY <3>1, RequestSteps
      <4>. QED BY <4>1, ExchangeEffect DEF Tells, ToldOf
    <3>. QED BY <1>7, <3>1
  <2>3. AskedFor(q, "cancel") => AskedFor(q, "cancel")' \/ EndTold(q)'
    BY <1>7, CancelTaken
  <2>. QED BY <1>6, <2>1, <2>2, <2>3 DEF Awaits
<1>. QED BY <1>8, <1>9, <1>10, <1>11 DEF AwaitInv

LEMMA MarketAwait ==
  ASSUME ChannelsInv, IdsInv, AwaitInv, Fill \/ Expire
  PROVE  AwaitInv'
<1>. USE DEF ChannelsInv
<1>1. PICK p : ExchangeStep(p) /\ placed[p].phase = "open"
  BY MarketSteps
<1>2. UNCHANGED <<orders_, requests, missed>>
  BY MarketSteps DEF Fill, Expire
<1>3. /\ DOMAIN placed' = DOMAIN placed
      /\ \A q \in DOMAIN placed : /\ placed'[q].id = placed[q].id
                                  /\ placed'[q].finished = placed[q].finished
                                  /\ q # p => placed'[q] = placed[q]
      /\ DOMAIN reports \subseteq DOMAIN reports'
      /\ \A i \in DOMAIN reports : reports'[i] = reports[i]
      /\ placed'[p].phase # "sent"
      /\ placed'[p].phase = "ended" => \E i \in DOMAIN reports' \ DOMAIN reports :
           reports'[i].status \in Terminal /\ reports'[i].placement = p
  BY <1>1, ExchangeEffect DEF Tells
<1>4. placed'[p].phase = "ended" => EndTold(p)'
  BY <1>3 DEF EndTold, Ends
<1>5. Unfinished' = Unfinished /\ Unfinished \subseteq DOMAIN placed
  BY <1>3 DEF Unfinished
<1>6. /\ \A q : (ToldOf(q) => ToldOf(q)') /\ (EndTold(q) => EndTold(q)')
      /\ \A q, kind : AskedFor(q, kind) => AskedFor(q, kind)'
  BY <1>2, <1>3, ToldStill, AskedStill
<1>7. OrderedInv'
  BY <1>2, <1>3 DEF AwaitInv, OrderedInv, IsPlace
<1>8. AskedInv'
  BY <1>3, <1>6 DEF AwaitInv, AskedInv
<1>9. EndedInv'
  BY <1>2, <1>3, <1>4, <1>5, <1>6 DEF AwaitInv, EndedInv
<1>10. PendingInv'
  <2>. SUFFICES ASSUME NEW q \in Unfinished \ missed
                PROVE  Awaits(q, orders_[placed[q].id].pending)'
    BY <1>2, <1>5 DEF PendingInv
  <2>1. /\ Awaits(q, orders_[placed[q].id].pending)
        /\ orders_'[placed'[q].id].pending = orders_[placed[q].id].pending
    BY <1>2, <1>3, <1>5 DEF AwaitInv, PendingInv
  <2>. QED BY <1>6, <2>1 DEF Awaits
<1>. QED BY <1>7, <1>8, <1>9, <1>10 DEF AwaitInv

LEMMA ReportAwait ==
  ASSUME ChannelsInv, IdsInv, LastsInv, AwaitInv, OnResponse
  PROVE  AwaitInv'
<1>. USE DEF ChannelsInv
<1>a. PICK p : p = Head(reports).placement
  OBVIOUS
<1>1. reports # <<>> /\ reports' = Tail(reports) /\ requests' = requests
  BY ReportSteps
<1>2. /\ DOMAIN placed' = DOMAIN placed
      /\ \A q \in DOMAIN placed : placed'[q].id = placed[q].id /\ placed'[q].phase = placed[q].phase
  BY ReportSteps, EndEffect
<1>3. /\ \A q : ToldOf(q) /\ q # p => ToldOf(q)'
      /\ \A q : EndTold(q) /\ (q # p \/ Head(reports).status \notin Terminal) => EndTold(q)'
  BY <1>a, <1>1, ToldMovedUp
<1>4. \A q, kind : AskedFor(q, kind) => AskedFor(q, kind)'
  BY <1>1, AskedStill
<1>5. OrderedInv' /\ AskedInv'
  BY <1>1, <1>2, <1>4 DEF AwaitInv, OrderedInv, IsPlace, AskedInv
<1>6. \A q \in Unfinished' \ missed' :
        /\ q \in Unfinished \ missed /\ q \in DOMAIN placed
        /\ q # p \/ Head(reports).status \notin Terminal
        /\ q = p => orders_'[placed[q].id].pending = "none"
        /\ q # p => orders_'[placed[q].id] = orders_[placed[q].id]
  <2>1. CASE AcceptEnd(Head(reports))
    <3>1. Head(reports).status \in Terminal /\ UNCHANGED missed
      BY <2>1 DEF AcceptEnd, Ends
    <3>2. /\ p \in DOMAIN placed /\ ~placed[p].finished
          /\ DOMAIN placed' = DOMAIN placed /\ placed'[p].finished
          /\ \A q \in DOMAIN placed : q # p => placed'[q] = placed[q]
          /\ DOMAIN orders_' = DOMAIN orders_ \ {placed[p].id}
          /\ \A i \in DOMAIN orders_' : orders_'[i] = orders_[i]
      BY <1>a, <1>1, <2>1, <3>1, EndEffect
    <3>3. Unfinished' = Unfinished \ {p} /\ p \in Unfinished /\ Unfinished \subseteq DOMAIN placed
      BY <3>2 DEF Unfinished
    <3>4. \A q \in Unfinished' : placed[q].id \in DOMAIN orders_ /\ placed[q].id # placed[p].id
      BY <3>3 DEF IdsInv, StorageHoldsUnfinished, UniqueIds
    <3>. QED BY <3>1, <3>2, <3>3, <3>4
  <2>2. CASE AcceptUpdate(Head(reports))
    <3>1. /\ Head(reports).status \notin Terminal /\ UNCHANGED <<placed, missed>>
          /\ \A q \in Unfinished : q # p => orders_'[placed[q].id] = orders_[placed[q].id]
          /\ orders_'[placed[p].id].pending = "none"
      BY <1>a, <1>1, <2>2, UpdateEffect
    <3>. QED BY <3>1 DEF Unfinished
  <2>3. CASE Drop(Head(reports))
    BY <1>a, <2>3 DEF Drop, Unfinished
  <2>. QED BY <2>1, <2>2, <2>3 DEF OnResponse
<1>7. EndedInv'
  BY <1>2, <1>3, <1>6 DEF AwaitInv, EndedInv
<1>8. PendingInv'
  <2>. SUFFICES ASSUME NEW q \in Unfinished' \ missed'
                PROVE  Awaits(q, orders_[placed[q].id].pending)'
    BY DEF PendingInv
  <2>1. CASE q = p
    <3>1. orders_'[placed'[q].id].pending = "none"
      BY <1>2, <1>6, <2>1
    <3>. QED BY <3>1 DEF Awaits
  <2>2. CASE q # p
    <3>1. /\ Awaits(q, orders_[placed[q].id].pending)
          /\ orders_'[placed'[q].id].pending = orders_[placed[q].id].pending
      BY <1>2, <1>6, <2>2 DEF AwaitInv, PendingInv
    <3>. QED BY <1>3, <1>4, <2>2, <3>1 DEF Awaits
  <2>. QED BY <2>1, <2>2
<1>. QED BY <1>5, <1>7, <1>8 DEF AwaitInv

LEMMA NextAwait ==
  ASSUME ManualIds = {}, MayFail = FALSE
  PROVE  ChannelsInv /\ IdsInv /\ ReferencesInv /\ LastsInv /\ AwaitInv /\ [Next]_vars => AwaitInv'
<1>. SUFFICES ASSUME ChannelsInv, IdsInv, ReferencesInv, LastsInv, AwaitInv, [Next]_vars
              PROVE  AwaitInv'
  OBVIOUS
<1>1. CASE PlaceOrderAutoId
  BY <1>1, PlaceAwait
<1>2. ~PlaceOrderManualId
  BY DEF PlaceOrderManualId
<1>3. CASE CancelOrder \/ AmendOrder
  BY <1>3, OtherCallAwait
<1>4. CASE HandleRequest
  BY <1>4, RequestAwait
<1>5. CASE Fill \/ Expire
  BY <1>5, MarketAwait
<1>6. CASE OnResponse
  BY <1>6, ReportAwait
<1>7. CASE UNCHANGED vars
  BY <1>7 DEF vars, AwaitInv, OrderedInv, AskedInv, EndedInv, PendingInv, IsPlace, Unfinished,
              Awaits, AskedFor, ToldOf, EndTold, Ends
<1>. QED BY <1>1, <1>2, <1>3, <1>4, <1>5, <1>6, <1>7 DEF Next

\* If callers leave the choice of ids to UIDManager and requests can always be made, no stored
\* order is stuck unless a report on it was refused: a pending placement or cancellation has
\* its request or its answer on its way, also when the order ends while it is being cancelled.
THEOREM NoOrderIsStuck ==
  ASSUME ManualIds = {}, MayFail = FALSE
  PROVE  Spec => []PendingActionsAwaited
<1>1. Init => ReferencesInv /\ AwaitInv
  BY DEF Init, ReferencesInv, AwaitInv, OrderedInv, AskedInv, EndedInv, PendingInv, Unfinished
<1>2. AwaitInv => PendingActionsAwaited
  <2>1. \A p : Awaits(p, orders_[placed[p].id].pending) => Awaited(p)
    BY DEF Awaits, Awaited, AskedFor, ToldOf, EndTold
  <2>. QED BY <2>1 DEF AwaitInv, PendingInv, PendingActionsAwaited
<1>. QED BY InitChannels, NextChannels, InitIds, NextIds, NextReferences, InitLasts, NextLasts,
            NextAwait, <1>1, <1>2, PTL DEF Spec
=============================================================================
