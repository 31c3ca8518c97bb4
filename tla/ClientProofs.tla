---------------------------- MODULE ClientProofs ----------------------------
(***************************************************************************)
(* Theorems about MCClient: about Infrastructure, for every instance, any  *)
(* set of pairs and any number of threads, and about ClientSession, for    *)
(* every wiring, config file and length of the queue.                      *)
(***************************************************************************)
EXTENDS MCClient, SequenceTheorems, FiniteSetTheorems, TLAPS

-----------------------------------------------------------------------------
(* The inductive invariant.                                                *)

States == {"none", "idle", "connecting", "live", "over", "failed"}

\* As much of the types as the proofs need.
Types ==
  /\ runs \in [Pairs -> Nat] /\ inside \in [Pairs -> Nat]
  /\ ready \in [Pairs -> Seq(Handlers)]
  /\ session \in [Pairs -> States]
  /\ members = [p \in Pairs |-> members[p]]
  /\ contexts \subseteq Pairs /\ started \subseteq contexts

\* Every run() of an io_context, posted or under way.  Binance posts one, from StartAsync;
\* Bybit's thread is in it from Register on.
OneRun ==
  \A p \in Pairs :
    /\ runs[p] + inside[p] <= 1
    /\ Binance /\ p \notin started => runs[p] + inside[p] = 0
    /\ ~Binance => runs[p] = 0 /\ (p \notin contexts => inside[p] = 0)

HasRun(r)     == \E i \in 1 .. Len(r) : r[i] = "run"
OneHandler(r) == \A i, j \in 1 .. Len(r) : r[i] = "run" /\ r[j] = "run" => i = j

\* A session is started once: while its handler waits it is idle, and before StartAsync
\* none waits.
StartedOnce ==
  \A p \in Pairs :
    /\ OneHandler(ready[p])
    /\ HasRun(ready[p]) => p \in started /\ session[p] = "idle"
    /\ p \in contexts /\ p \notin started => session[p] = "idle"
    /\ p \notin contexts => session[p] = "none"

\* What may be left of a context's members as long as the session is among them: Bybit's
\* guard, thread and builder are destroyed before it.
WithoutGuard   == <<"thread", "builder", "session", "listener", "book", "ioc">>
WithoutThread  == <<"builder", "session", "listener", "book", "ioc">>
WithoutBuilder == <<"session", "listener", "book", "ioc">>

WithSession == {BinanceMembers, BybitMembers, WithoutGuard, WithoutThread, WithoutBuilder}

\* A session that is not over has kept its context together.
MembersWait ==
  \A p \in Pairs : session[p] \notin {"none", "over"} => members[p] \in WithSession

Inv == Types /\ OneRun /\ StartedOnce /\ MembersWait

-----------------------------------------------------------------------------
(* The members of a context.                                               *)

LEMMA TailsOfBybit ==
  /\ Tail(BybitMembers) = WithoutGuard
  /\ Tail(WithoutGuard) = WithoutThread
  /\ Tail(WithoutThread) = WithoutBuilder
BY DEF BybitMembers, WithoutGuard, WithoutThread, WithoutBuilder

\* All of them have what the loops of the session use.
LEMMA MembersAlive ==
  ASSUME NEW p \in Pairs, members[p] \in WithSession
  PROVE  Alive(p, "session") /\ Alive(p, "listener") /\ Alive(p, "ioc")
<1>1. CASE members[p] = BinanceMembers
  <2>1. /\ 1 \in DOMAIN members[p] /\ members[p][1] = "session"
        /\ 3 \in DOMAIN members[p] /\ members[p][3] = "listener"
        /\ 5 \in DOMAIN members[p] /\ members[p][5] = "ioc"
    BY <1>1 DEF BinanceMembers
  <2>. QED
    BY <2>1 DEF Alive
<1>2. CASE members[p] = BybitMembers
  <2>1. /\ 4 \in DOMAIN members[p] /\ members[p][4] = "session"
        /\ 5 \in DOMAIN members[p] /\ members[p][5] = "listener"
        /\ 7 \in DOMAIN members[p] /\ members[p][7] = "ioc"
    BY <1>2 DEF BybitMembers
  <2>. QED
    BY <2>1 DEF Alive
<1>3. CASE members[p] = WithoutGuard
  <2>1. /\ 3 \in DOMAIN members[p] /\ members[p][3] = "session"
        /\ 4 \in DOMAIN members[p] /\ members[p][4] = "listener"
        /\ 6 \in DOMAIN members[p] /\ members[p][6] = "ioc"
    BY <1>3 DEF WithoutGuard
  <2>. QED
    BY <2>1 DEF Alive
<1>4. CASE members[p] = WithoutThread
  <2>1. /\ 2 \in DOMAIN members[p] /\ members[p][2] = "session"
        /\ 3 \in DOMAIN members[p] /\ members[p][3] = "listener"
        /\ 5 \in DOMAIN members[p] /\ members[p][5] = "ioc"
    BY <1>4 DEF WithoutThread
  <2>. QED
    BY <2>1 DEF Alive
<1>5. CASE members[p] = WithoutBuilder
  <2>1. /\ 1 \in DOMAIN members[p] /\ members[p][1] = "session"
        /\ 2 \in DOMAIN members[p] /\ members[p][2] = "listener"
        /\ 4 \in DOMAIN members[p] /\ members[p][4] = "ioc"
    BY <1>5 DEF WithoutBuilder
  <2>. QED
    BY <2>1 DEF Alive
<1>. QED
  BY <1>1, <1>2, <1>3, <1>4, <1>5 DEF WithSession

\* Unless the session is the next, what is left after one more has it still.
LEMMA TailKeepsSession ==
  ASSUME NEW m \in WithSession, Head(m) # "session"
  PROVE  Tail(m) \in WithSession
<1>1. Head(BinanceMembers) = "session" /\ Head(WithoutBuilder) = "session"
  BY DEF BinanceMembers, WithoutBuilder
<1>2. m \in {BybitMembers, WithoutGuard, WithoutThread}
  BY <1>1 DEF WithSession
<1>. QED
  BY <1>2, TailsOfBybit DEF WithSession

\* What the invariant is for.
LEMMA InvSafe == Inv => SessionsAreSafe
<1>. SUFFICES ASSUME Inv, NEW p \in Pairs
              PROVE  /\ inside[p] <= 1
                     /\ session[p] = "live" =>
                          Alive(p, "session") /\ Alive(p, "listener") /\ Alive(p, "ioc")
  BY DEF SessionsAreSafe, OneThreadPerContext, LoopsHaveTheirMembers
<1>1. inside[p] <= 1
  BY DEF Inv, Types, OneRun
<1>2. session[p] = "live" => members[p] \in WithSession
  BY DEF Inv, MembersWait
<1>. QED
  BY <1>1, <1>2, MembersAlive

-----------------------------------------------------------------------------
(* The handlers of an io_context.                                          *)

LEMMA HandlerPopped ==
  ASSUME NEW r \in Seq(Handlers), r # <<>>, OneHandler(r)
  PROVE  /\ Tail(r) \in Seq(Handlers) /\ OneHandler(Tail(r))
         /\ HasRun(Tail(r)) => HasRun(r) /\ Head(r) # "run"
         /\ Head(r) = "run" => HasRun(r)
<1>1. /\ Tail(r) \in Seq(Handlers) /\ Len(r) \in Nat /\ Len(r) >= 1
      /\ Len(Tail(r)) = Len(r) - 1 /\ Head(r) = r[1]
      /\ \A i \in 1 .. Len(Tail(r)) : Tail(r)[i] = r[i + 1]
  BY HeadTailProperties, EmptySeq, LenProperties
<1>2. OneHandler(Tail(r))
  <2>. SUFFICES ASSUME NEW i \in 1 .. Len(Tail(r)), NEW j \in 1 .. Len(Tail(r)),
                       Tail(r)[i] = "run", Tail(r)[j] = "run"
                PROVE  i = j
    BY DEF OneHandler
  <2>1. /\ i + 1 \in 1 .. Len(r) /\ j + 1 \in 1 .. Len(r)
        /\ r[i + 1] = "run" /\ r[j + 1] = "run"
    BY <1>1
  <2>. QED
    BY <2>1 DEF OneHandler
<1>3. ASSUME HasRun(Tail(r)) PROVE HasRun(r) /\ Head(r) # "run"
  <2>1. PICK i \in 1 .. Len(Tail(r)) : Tail(r)[i] = "run"
    BY <1>3 DEF HasRun
  <2>2. i + 1 \in 1 .. Len(r) /\ r[i + 1] = "run" /\ 1 \in 1 .. Len(r) /\ i + 1 # 1
    BY <1>1, <2>1
  <2>3. HasRun(r)
    BY <2>2 DEF HasRun
  <2>4. r[1] # "run"
    BY <2>2 DEF OneHandler
  <2>. QED
    BY <1>1, <2>3, <2>4
<1>4. Head(r) = "run" => HasRun(r)
  BY <1>1 DEF HasRun
<1>. QED
  BY <1>1, <1>2, <1>3, <1>4

LEMMA HandlerPosted ==
  ASSUME NEW r \in Seq(Handlers), NEW h \in Handlers, OneHandler(r), h = "run" => ~HasRun(r)
  PROVE  /\ Append(r, h) \in Seq(Handlers) /\ OneHandler(Append(r, h))
         /\ HasRun(Append(r, h)) => HasRun(r) \/ h = "run"
<1>1. /\ Append(r, h) \in Seq(Handlers) /\ Len(Append(r, h)) = Len(r) + 1 /\ Len(r) \in Nat
      /\ \A i \in 1 .. Len(r) : Append(r, h)[i] = r[i]
      /\ Append(r, h)[Len(r) + 1] = h
  BY AppendProperties, LenProperties
<1>2. OneHandler(Append(r, h))
  BY <1>1 DEF OneHandler, HasRun
<1>3. HasRun(Append(r, h)) => HasRun(r) \/ h = "run"
  BY <1>1 DEF HasRun
<1>. QED
  BY <1>1, <1>2, <1>3

\* The first handler of an io_context has been run.
LEMMA RunsKeeps ==
  ASSUME Inv, NEW p \in Pairs, NEW h \in Handlers, Runs(p, h)
  PROVE  /\ ready' \in [Pairs -> Seq(Handlers)]
         /\ \A q \in Pairs : q # p => ready'[q] = ready[q]
         /\ OneHandler(ready'[p])
         /\ HasRun(ready'[p]) => HasRun(ready[p]) /\ h # "run"
         /\ h = "run" => HasRun(ready[p])
<1>1. /\ ready[p] \in Seq(Handlers) /\ ready[p] # <<>> /\ Head(ready[p]) = h
      /\ ready' = [ready EXCEPT ![p] = Tail(@)] /\ OneHandler(ready[p])
  BY DEF Runs, Inv, Types, StartedOnce
<1>2. /\ Tail(ready[p]) \in Seq(Handlers) /\ OneHandler(Tail(ready[p]))
      /\ HasRun(Tail(ready[p])) => HasRun(ready[p]) /\ h # "run"
      /\ h = "run" => HasRun(ready[p])
  BY <1>1, HandlerPopped
<1>3. /\ ready' \in [Pairs -> Seq(Handlers)] /\ ready'[p] = Tail(ready[p])
      /\ \A q \in Pairs : q # p => ready'[q] = ready[q]
  BY <1>1, <1>2 DEF Inv, Types
<1>. QED
  BY <1>2, <1>3

-----------------------------------------------------------------------------
(* The actions.                                                            *)

LEMMA InitInv == Init => Inv
<1>. SUFFICES ASSUME Init PROVE Inv
  OBVIOUS
<1>1. Types
  <2>1. ready \in [Pairs -> Seq(Handlers)]
    BY EmptySeq DEF Init
  <2>2. members = [p \in Pairs |-> members[p]]
    BY DEF Init
  <2>. QED
    BY <2>1, <2>2 DEF Init, Types, States
<1>2. OneRun
  BY DEF Init, OneRun
<1>3. StartedOnce
  BY DEF Init, StartedOnce, OneHandler, HasRun
<1>4. MembersWait
  BY DEF Init, MembersWait
<1>. QED
  BY <1>1, <1>2, <1>3, <1>4 DEF Inv

\* A context is made: its session is idle, nothing runs it but Bybit's thread.
LEMMA RegisterStep ==
  ASSUME Inv, NEW p \in Pairs, Register(p)
  PROVE  Inv'
<1>. USE DEF Inv
<1>1. /\ p \notin contexts /\ contexts' = contexts \cup {p} /\ started' = started
      /\ session' = [session EXCEPT ![p] = "idle"]
      /\ ready' = [ready EXCEPT ![p] = IF Asks(p) = {} THEN <<>> ELSE <<"write">>]
      /\ alias' = alias
  BY DEF Register, RegisterBinance, RegisterBybit, Build
<1>2. /\ \E m \in {BinanceMembers, BybitMembers} : members' = [members EXCEPT ![p] = m]
      /\ runs' \in [Pairs -> Nat] /\ \A q \in Pairs : runs'[q] = runs[q]
      /\ inside' \in [Pairs -> Nat] /\ \A q \in Pairs : q # p => inside'[q] = inside[q]
      /\ Binance => inside'[p] = inside[p]
      /\ ~Binance => inside'[p] = 1
  <2>1. CASE Binance
    <3>1. members' = [members EXCEPT ![p] = BinanceMembers]
      BY <2>1 DEF Register, RegisterBinance
    <3>2. runs' = [runs EXCEPT ![p] = @ + 0] /\ inside' = inside
      BY <2>1 DEF Register, RegisterBinance, PostedByRegister
    <3>3. runs' \in [Pairs -> Nat] /\ \A q \in Pairs : runs'[q] = runs[q]
      BY <3>2 DEF Types
    <3>. QED
      BY <2>1, <3>1, <3>2, <3>3 DEF Types
  <2>2. CASE ~Binance
    <3>1. members' = [members EXCEPT ![p] = BybitMembers]
      BY <2>2 DEF Register, RegisterBybit
    <3>2. inside' = [inside EXCEPT ![p] = 1] /\ runs' = runs
      BY <2>2 DEF Register, RegisterBybit
    <3>3. /\ inside' \in [Pairs -> Nat] /\ inside'[p] = 1
          /\ \A q \in Pairs : q # p => inside'[q] = inside[q]
      BY <3>2 DEF Types
    <3>. QED
      BY <2>2, <3>1, <3>2, <3>3 DEF Types
  <2>. QED
    BY <2>1, <2>2
<1>3. /\ ready' \in [Pairs -> Seq(Handlers)]
      /\ \A q \in Pairs : q # p => ready'[q] = ready[q]
      /\ OneHandler(ready'[p]) /\ ~HasRun(ready'[p])
  <2>1. \A r \in {<<>>, <<"write">>} : r \in Seq(Handlers) /\ OneHandler(r) /\ ~HasRun(r)
    <3>1. <<>> \in Seq(Handlers) /\ OneHandler(<<>>) /\ ~HasRun(<<>>)
      BY EmptySeq DEF OneHandler, HasRun
    <3>2. <<"write">> \in Seq(Handlers) /\ Len(<<"write">>) = 1 /\ <<"write">>[1] = "write"
      BY DEF Handlers
    <3>3. OneHandler(<<"write">>) /\ ~HasRun(<<"write">>)
      BY <3>2 DEF OneHandler, HasRun
    <3>. QED
      BY <3>1, <3>2, <3>3
  <2>. QED
    BY <1>1, <2>1 DEF Types
<1>4. Types'
  <2>1. members' = [q \in Pairs |-> members'[q]]
    BY <1>2 DEF Types
  <2>. QED
    BY <1>1, <1>2, <1>3, <2>1 DEF Types, States
<1>5. OneRun'
  <2>1. p \notin started /\ (Binance' <=> Binance)
    BY <1>1 DEF Types, Binance
  <2>2. runs[p] = 0 /\ inside[p] = 0
    BY <1>1, <2>1 DEF OneRun, Types
  <2>3. \A q \in Pairs \ {p} : /\ runs'[q] = runs[q] /\ inside'[q] = inside[q]
                               /\ q \in contexts' <=> q \in contexts
    BY <1>1, <1>2
  <2>4. /\ runs'[p] = 0 /\ inside'[p] \in {0, 1} /\ p \in contexts'
        /\ Binance => inside'[p] = 0
    BY <1>1, <1>2, <2>2
  <2>5. \A q \in Pairs \ {p} : /\ runs'[q] + inside'[q] <= 1
                               /\ Binance /\ q \notin started => runs'[q] + inside'[q] = 0
                               /\ ~Binance => runs'[q] = 0 /\ (q \notin contexts' => inside'[q] = 0)
    BY <2>3 DEF OneRun
  <2>6. /\ runs'[p] + inside'[p] <= 1
        /\ Binance => runs'[p] + inside'[p] = 0
        /\ ~Binance => runs'[p] = 0
    BY <2>4
  <2>. QED
    BY <1>1, <2>1, <2>4, <2>5, <2>6 DEF OneRun
<1>6. StartedOnce'
  BY <1>1, <1>3 DEF StartedOnce, Types
<1>7. MembersWait'
  BY <1>1, <1>2 DEF MembersWait, Types, WithSession
<1>. QED
  BY <1>4, <1>5, <1>6, <1>7

\* A run() and the handler that starts the session are posted, once for each context.
LEMMA StartAsyncStep ==
  ASSUME Inv, StartAsync
  PROVE  Inv'
<1>. USE DEF Inv
<1>1. /\ started = {} /\ started' = contexts
      /\ ready' = [p \in Pairs |-> IF p \in contexts THEN Append(ready[p], "run") ELSE ready[p]]
      /\ UNCHANGED <<alias, contexts, inside, session, members>>
  BY DEF StartAsync, net
<1>2. /\ Binance => runs' = [p \in Pairs |-> IF p \in contexts THEN runs[p] + 1 ELSE runs[p]]
      /\ ~Binance => runs' = runs
  BY DEF StartAsync, StartBinance, StartBybit
<1>3. \A p \in Pairs : /\ ready'[p] \in Seq(Handlers) /\ OneHandler(ready'[p])
                       /\ HasRun(ready'[p]) => p \in contexts
  <2>. SUFFICES ASSUME NEW p \in Pairs
                PROVE  /\ ready'[p] \in Seq(Handlers) /\ OneHandler(ready'[p])
                       /\ HasRun(ready'[p]) => p \in contexts
    OBVIOUS
  <2>1. ready[p] \in Seq(Handlers) /\ OneHandler(ready[p]) /\ ~HasRun(ready[p])
    BY <1>1 DEF Types, StartedOnce
  <2>2. Append(ready[p], "run") \in Seq(Handlers) /\ OneHandler(Append(ready[p], "run"))
    BY <2>1, HandlerPosted DEF Handlers
  <2>. QED
    BY <1>1, <2>1, <2>2
<1>4. Types'
  <2>1. ready' \in [Pairs -> Seq(Handlers)]
    BY <1>1, <1>3
  <2>2. runs' \in [Pairs -> Nat]
    <3>1. CASE Binance
      BY <1>2, <3>1 DEF Types
    <3>2. CASE ~Binance
      BY <1>2, <3>2 DEF Types
    <3>. QED
      BY <3>1, <3>2
  <2>. QED
    BY <1>1, <2>1, <2>2 DEF Types
<1>5. OneRun'
  <2>1. Binance' <=> Binance
    BY <1>1 DEF Binance
  <2>2. CASE Binance
    BY <1>1, <1>2, <2>1, <2>2 DEF OneRun, Types
  <2>3. CASE ~Binance
    BY <1>1, <1>2, <2>1, <2>3 DEF OneRun, Types
  <2>. QED
    BY <2>2, <2>3
<1>6. StartedOnce'
  BY <1>1, <1>3 DEF StartedOnce, Types
<1>7. MembersWait'
  BY <1>1 DEF MembersWait
<1>. QED
  BY <1>4, <1>5, <1>6, <1>7

\* Steps that leave alone what the invariant speaks of.
LEMMA OthersKeep ==
  ASSUME Inv, UNCHANGED <<alias, contexts, started, ready, runs, inside, session, members>>
  PROVE  Inv'
<1>1. Types'
  BY DEF Inv, Types
<1>2. OneRun'
  BY DEF Inv, OneRun, Binance
<1>3. StartedOnce'
  BY DEF Inv, StartedOnce
<1>4. MembersWait'
  BY DEF Inv, MembersWait
<1>. QED
  BY <1>1, <1>2, <1>3, <1>4 DEF Inv

\* A handler is posted to the io_contexts, but none that starts a session.
LEMMA StopAsyncStep ==
  ASSUME Inv, StopAsync
  PROVE  Inv'
<1>. USE DEF Inv
<1>1. /\ ready' = [p \in Pairs |-> StopSession(p)]
      /\ UNCHANGED <<alias, contexts, started, runs, inside, session, members>>
  BY DEF StopAsync, net
<1>2. \A p \in Pairs : /\ StopSession(p) \in Seq(Handlers) /\ OneHandler(StopSession(p))
                       /\ HasRun(StopSession(p)) => HasRun(ready[p])
  <2>. SUFFICES ASSUME NEW p \in Pairs
                PROVE  /\ StopSession(p) \in Seq(Handlers) /\ OneHandler(StopSession(p))
                       /\ HasRun(StopSession(p)) => HasRun(ready[p])
    OBVIOUS
  <2>1. ready[p] \in Seq(Handlers) /\ OneHandler(ready[p])
    BY DEF Types, StartedOnce
  <2>2. /\ Append(ready[p], "stop") \in Seq(Handlers) /\ OneHandler(Append(ready[p], "stop"))
        /\ HasRun(Append(ready[p], "stop")) => HasRun(ready[p])
    <3>1. "stop" \in Handlers /\ "stop" # "run"
      BY DEF Handlers
    <3>. QED
      BY <2>1, <3>1, HandlerPosted
  <2>. QED
    BY <2>1, <2>2 DEF StopSession
<1>3. Types'
  BY <1>1, <1>2 DEF Types
<1>4. OneRun'
  BY <1>1 DEF OneRun, Binance
<1>5. StartedOnce'
  BY <1>1, <1>2 DEF StartedOnce
<1>6. MembersWait'
  BY <1>1 DEF MembersWait
<1>. QED
  BY <1>3, <1>4, <1>5, <1>6

\* A thread takes a run(), or returns from one.
LEMMA ThreadStep ==
  ASSUME Inv, NEW p \in Pairs, TakeRun(p) \/ Return(p)
  PROVE  Inv'
<1>. USE DEF Inv
<1>1. UNCHANGED <<alias, contexts, started, ready, session, members>>
  BY DEF TakeRun, Return, owner, net
<1>2. /\ runs' \in [Pairs -> Nat] /\ inside' \in [Pairs -> Nat]
      /\ \A q \in Pairs : q # p => runs'[q] = runs[q] /\ inside'[q] = inside[q]
      /\ runs'[p] + inside'[p] <= runs[p] + inside[p]
      /\ runs'[p] <= runs[p]
      /\ runs[p] = 0 => inside'[p] <= inside[p]
  <2>1. CASE TakeRun(p)
    BY <2>1 DEF TakeRun, Types
  <2>2. CASE Return(p)
    <3>1. runs' = runs /\ inside' = [inside EXCEPT ![p] = @ - 1] /\ inside[p] > 0
      BY <2>2 DEF Return
    <3>2. inside' \in [Pairs -> Nat] /\ inside'[p] = inside[p] - 1
          /\ \A q \in Pairs : q # p => inside'[q] = inside[q]
      BY <3>1 DEF Types
    <3>. QED
      BY <3>1, <3>2 DEF Types
  <2>. QED
    BY <2>1, <2>2
<1>3. Types'
  BY <1>1, <1>2 DEF Types
<1>4. OneRun'
  <2>1. Binance' <=> Binance
    BY <1>1 DEF Binance
  <2>2. /\ runs'[p] \in Nat /\ inside'[p] \in Nat /\ runs[p] \in Nat /\ inside[p] \in Nat
    BY <1>2 DEF Types
  <2>3. /\ runs'[p] + inside'[p] <= 1
        /\ Binance /\ p \notin started => runs'[p] + inside'[p] = 0
        /\ ~Binance => runs'[p] = 0 /\ (p \notin contexts => inside'[p] = 0)
    BY <1>2, <2>2 DEF OneRun
  <2>4. \A q \in Pairs : q # p =>
          /\ runs'[q] + inside'[q] <= 1
          /\ Binance /\ q \notin started => runs'[q] + inside'[q] = 0
          /\ ~Binance => runs'[q] = 0 /\ (q \notin contexts => inside'[q] = 0)
    BY <1>2 DEF OneRun
  <2>. QED
    BY <1>1, <2>1, <2>3, <2>4 DEF OneRun
<1>5. StartedOnce'
  BY <1>1 DEF StartedOnce
<1>6. MembersWait'
  BY <1>1 DEF MembersWait
<1>. QED
  BY <1>3, <1>4, <1>5, <1>6

\* The handlers of an io_context: the only one that starts a session finds it idle.
LEMMA HandlerStep ==
  ASSUME Inv, NEW p \in Pairs, RunWrite(p) \/ RunSession(p) \/ RunStop(p)
  PROVE  Inv'
<1>. USE DEF Inv
<1>1. UNCHANGED <<alias, contexts, started, runs, inside, members>>
  BY DEF RunWrite, RunSession, RunStop, Runs, owner
<1>2. PICK h \in Handlers :
        /\ Runs(p, h)
        /\ \/ h # "run" /\ session' = session
           \/ h = "run" /\ session' = [session EXCEPT ![p] = "connecting"]
  <2>1. CASE RunWrite(p)
    BY <2>1 DEF RunWrite, Handlers
  <2>2. CASE RunSession(p)
    BY <2>2 DEF RunSession, Handlers
  <2>3. CASE RunStop(p)
    BY <2>3 DEF RunStop, Handlers
  <2>. QED
    BY <2>1, <2>2, <2>3
<1>3. /\ ready' \in [Pairs -> Seq(Handlers)]
      /\ \A q \in Pairs : q # p => ready'[q] = ready[q]
      /\ OneHandler(ready'[p])
      /\ HasRun(ready'[p]) => HasRun(ready[p]) /\ h # "run"
      /\ h = "run" => HasRun(ready[p])
  BY <1>2, RunsKeeps
<1>4. /\ session' \in [Pairs -> States]
      /\ \A q \in Pairs : q # p => session'[q] = session[q]
      /\ h # "run" => session'[p] = session[p]
      /\ h = "run" => session'[p] = "connecting" /\ session[p] = "idle" /\ p \in started
  <2>1. h = "run" => session[p] = "idle" /\ p \in started
    BY <1>3 DEF StartedOnce
  <2>. QED
    BY <1>2, <2>1 DEF Types, States
<1>5. Types'
  BY <1>1, <1>3, <1>4 DEF Types
<1>6. OneRun'
  BY <1>1 DEF OneRun, Binance
<1>7. StartedOnce'
  <2>1. \A q \in Pairs : q # p =>
          /\ OneHandler(ready'[q])
          /\ HasRun(ready'[q]) => q \in started /\ session'[q] = "idle"
          /\ q \in contexts /\ q \notin started => session'[q] = "idle"
          /\ q \notin contexts => session'[q] = "none"
    BY <1>3, <1>4 DEF StartedOnce
  <2>2. /\ HasRun(ready'[p]) => p \in started /\ session'[p] = "idle"
        /\ p \in contexts /\ p \notin started => session'[p] = "idle"
        /\ p \notin contexts => session'[p] = "none"
    BY <1>3, <1>4 DEF StartedOnce, Types
  <2>. QED
    BY <1>1, <1>3, <2>1, <2>2 DEF StartedOnce
<1>8. MembersWait'
  BY <1>1, <1>4 DEF MembersWait
<1>. QED
  BY <1>5, <1>6, <1>7, <1>8

\* A connection is made, fails, or comes to its end.
LEMMA ConnectionStep ==
  ASSUME Inv, NEW p \in Pairs, Connect(p) \/ WriteLoop(p) \/ ReadLoop(p) \/ ReadError(p)
  PROVE  Inv'
<1>. USE DEF Inv
<1>1. UNCHANGED <<alias, contexts, started, ready, runs, inside, members>>
  BY DEF Connect, WriteLoop, ReadLoop, ReadError, NetStep, owner, loop
<1>2. \E st \in States \ {"none", "idle"} :
        /\ session[p] \notin {"none", "idle"} /\ (st = "over" \/ session[p] # "over")
        /\ session' = [session EXCEPT ![p] = st]
  <2>1. CASE Connect(p)
    <3>1. session[p] = "connecting"
      BY <2>1 DEF Connect
    <3>2. PICK st \in {"live", "failed"} : session' = [session EXCEPT ![p] = st]
      BY <2>1 DEF Connect
    <3>3. st \in States \ {"none", "idle"}
      BY <3>2 DEF States
    <3>. QED
      BY <3>1, <3>2, <3>3
  <2>2. CASE WriteLoop(p)
    <3>1. session' = [session EXCEPT ![p] = session[p]] /\ session[p] \in {"live", "over"}
      BY <2>2 DEF WriteLoop, Types
    <3>2. session[p] \in States \ {"none", "idle"} /\ session[p] \notin {"none", "idle"}
      BY <3>1 DEF States
    <3>. QED
      BY <3>1, <3>2
  <2>3. CASE ReadLoop(p)
    <3>1. session[p] = "live"
      BY <2>3 DEF ReadLoop
    <3>2. \E st \in {"live", "over"} : session' = [session EXCEPT ![p] = st]
      <4>1. CASE cancelled[p]
        BY <2>3, <4>1 DEF ReadLoop
      <4>2. CASE ~cancelled[p]
        BY <2>3, <3>1, <4>2 DEF ReadLoop
      <4>. QED
        BY <4>1, <4>2
    <3>. QED
      BY <3>1, <3>2 DEF States
  <2>4. CASE ReadError(p)
    BY <2>4 DEF ReadError, States
  <2>. QED
    BY <2>1, <2>2, <2>3, <2>4
<1>3. /\ session' \in [Pairs -> States]
      /\ \A q \in Pairs : q # p => session'[q] = session[q]
      /\ session[p] \notin {"none", "idle"}
      /\ session'[p] \notin {"none", "over"} => session[p] \notin {"none", "over"}
  BY <1>2 DEF Types
<1>4. p \in started /\ p \in contexts /\ ~HasRun(ready[p])
  BY <1>3 DEF StartedOnce
<1>5. Types'
  BY <1>1, <1>3 DEF Types
<1>6. OneRun'
  BY <1>1 DEF OneRun, Binance
<1>7. StartedOnce'
  BY <1>1, <1>3, <1>4 DEF StartedOnce
<1>8. MembersWait'
  BY <1>1, <1>3 DEF MembersWait
<1>. QED
  BY <1>5, <1>6, <1>7, <1>8

\* A session that is not over waits in its destructor, and what comes after it stays.
LEMMA DestroyMemberStep ==
  ASSUME Inv, NEW p \in Pairs, DestroyMember(p)
  PROVE  Inv'
<1>. USE DEF Inv
<1>1. /\ UNCHANGED <<alias, contexts, started, ready, runs, inside, session>>
      /\ members' = [members EXCEPT ![p] = Tail(@)]
      /\ Head(members[p]) = "session" => session[p] = "over"
  BY DEF DestroyMember, owner, loop, net, Waits
<1>2. /\ members' = [q \in Pairs |-> members'[q]]
      /\ members'[p] = Tail(members[p])
      /\ \A q \in Pairs : q # p => members'[q] = members[q]
  BY <1>1 DEF Types
<1>3. MembersWait'
  <2>1. session[p] \notin {"none", "over"} => Tail(members[p]) \in WithSession
    BY <1>1, TailKeepsSession DEF MembersWait
  <2>. QED
    BY <1>1, <1>2, <2>1 DEF MembersWait
<1>4. Types'
  BY <1>1, <1>2 DEF Types
<1>5. OneRun'
  BY <1>1 DEF OneRun, Binance
<1>6. StartedOnce'
  BY <1>1 DEF StartedOnce
<1>. QED
  BY <1>3, <1>4, <1>5, <1>6

\* What a message and a request leave alone, and what they make of the book.
BookStates == {"none", "asked", "requested", "live", "lost", "undefined"}

LEMMA StrandStep ==
  ASSUME NEW p \in Pairs, HandleMessage(p) \/ Request(p) \/ EndRequest(p)
  PROVE  /\ UNCHANGED <<alias, owner, loop, net, members>>
         /\ \/ book' = book
            \/ \E st \in BookStates :
                 /\ book' = [book EXCEPT ![p] = st]
                 /\ st = "requested" => book[p] = "requested" \/ Request(p)
         /\ \/ told' = told
            \/ told' = [told EXCEPT ![p] = @ \cup (accepted[p] \cap Enabled)]
         /\ work' = work \/ (work[p] > 0 /\ work' = [work EXCEPT ![p] = @ - 1])
<1>1. CASE Begin(p) \/ Change(p) \/ Pass(p) \/ HandleTooLate(p)
  <2>1. /\ UNCHANGED <<alias, owner, loop, net, members>>
        /\ work[p] > 0 /\ work' = [work EXCEPT ![p] = @ - 1]
    BY <1>1 DEF Begin, Change, Pass, HandleTooLate, Handle
  <2>2. \/ told' = told
        \/ told' = [told EXCEPT ![p] = @ \cup (accepted[p] \cap Enabled)]
    BY <1>1 DEF Begin, Change, Pass, HandleTooLate, Tell, Subscribers
  <2>3. \/ book' = book
        \/ \E st \in BookStates : /\ book' = [book EXCEPT ![p] = st]
                                  /\ st = "requested" => book[p] = "requested"
    <3>1. CASE Begin(p)
      BY <3>1 DEF Begin, Becomes, BookStates
    <3>2. CASE Change(p)
      BY <3>2 DEF Change
    <3>3. CASE Pass(p)
      BY <3>3 DEF Pass, Becomes, BookStates
    <3>4. CASE HandleTooLate(p)
      BY <3>4 DEF HandleTooLate, Becomes, BookStates
    <3>. QED
      BY <1>1, <3>1, <3>2, <3>3, <3>4
  <2>4. \/ book' = book
        \/ \E st \in BookStates : /\ book' = [book EXCEPT ![p] = st]
                                  /\ st = "requested" => book[p] = "requested" \/ Request(p)
    BY <2>3, Zenon
  <2>. QED
    BY <2>1, <2>2, <2>4, Zenon
<1>2. CASE Request(p)
  BY <1>2 DEF Request, Becomes, BookStates
<1>3. CASE EndRequest(p)
  BY <1>3 DEF EndRequest, Becomes, BookStates
<1>. QED
  BY <1>1, <1>2, <1>3 DEF HandleMessage

LEMMA NextInv == Inv /\ [Next]_vars => Inv'
<1>. SUFFICES ASSUME Inv, [Next]_vars PROVE Inv'
  OBVIOUS
<1>1. ASSUME NEW p \in Pairs, Owner(p) PROVE Inv'
  <2>1. CASE Register(p)
    BY <2>1, RegisterStep
  <2>2. CASE PlaceOrder(p) \/ CancelOrder(p)
    BY <2>2, OthersKeep DEF PlaceOrder, CancelOrder, Order, loop, net
  <2>3. CASE \E notifier \in {"best_bid", "best_ask", "best_bid_price", "best_ask_price"} :
               SetCallback(p, notifier)
    BY <2>3, OthersKeep DEF SetCallback, loop, net
  <2>. QED
    BY <1>1, <2>1, <2>2, <2>3 DEF Owner
<1>2. ASSUME NEW p \in Pairs, Context(p) \/ ReadLoop(p) \/ ReadError(p) \/ TakeRun(p)
      PROVE  Inv'
  BY <1>2, HandlerStep, ConnectionStep, ThreadStep DEF Context
<1>3. ASSUME NEW p \in Pairs, HandleMessage(p) \/ Request(p) \/ EndRequest(p) PROVE Inv'
  BY <1>3, StrandStep, OthersKeep DEF owner, loop, net
<1>4. ASSUME NEW p \in Pairs, DestroyMember(p) PROVE Inv'
  BY <1>4, DestroyMemberStep
<1>5. CASE StartAsync
  BY <1>5, StartAsyncStep
<1>6. CASE StopAsync
  BY <1>6, StopAsyncStep
<1>7. CASE Destroy \/ DestroyContexts
  BY <1>7, OthersKeep DEF Destroy, DestroyContexts, loop, net
<1>8. CASE UNCHANGED vars
  BY <1>8, OthersKeep DEF vars, owner, loop, net
<1>. QED
  BY <1>1, <1>2, <1>3, <1>4, <1>5, <1>6, <1>7, <1>8 DEF Next, Pool, Posted, Destructor

-----------------------------------------------------------------------------
(* The types of the infrastructure, of which the sessions' safety needs    *)
(* only some.                                                              *)

\* The threads that are taken, as they are in each state.
Taken(f, b) ==
  {t \in Pairs \X (0 .. 3) : IF t[2] = 0 THEN b[t[1]] = "requested" ELSE t[2] <= f[t[1]]}

LEMMA BusyIs == Busy = IF Binance THEN Cardinality(Taken(inside, book)) ELSE 0
BY DEF Busy, Occupied, Taken

LEMMA ImageFinite ==
  ASSUME NEW S, NEW T, NEW g \in [S -> T], IsFiniteSet(S), \A t \in T : \E x \in S : g[x] = t
  PROVE  IsFiniteSet(T)
<1>1. g \in Surjection(S, T)
  BY DEF Surjection
<1>. QED
  BY <1>1, FS_Surjection

LEMMA TakenFinite ==
  ASSUME NEW f, NEW b
  PROVE  IsFiniteSet(Taken(f, b)) /\ Cardinality(Taken(f, b)) \in Nat
<1>1. IsFiniteSet(TradingPairs)
  <2>1. DOMAIN TradingPair = 1 .. 12
    BY DEF TradingPair
  <2>2. PICK n \in Int : n = 12
    OBVIOUS
  <2>3. IsFiniteSet(1 .. n)
    BY FS_Interval
  <2>4. TradingPair \in [1 .. n -> TradingPairs]
    <3>1. TradingPair \in [1 .. 12 -> {TradingPair[i] : i \in 1 .. 12}]
      BY DEF TradingPair
    <3>. QED
      BY <2>1, <2>2, <3>1 DEF TradingPairs
  <2>5. \A pair \in TradingPairs : \E i \in 1 .. n : TradingPair[i] = pair
    BY <2>1, <2>2 DEF TradingPairs
  <2>. QED
    BY <2>3, <2>4, <2>5, ImageFinite
<1>2. IsFiniteSet(Pairs)
  BY <1>1, InfrastructureAssumption, FS_Subset
<1>3. IsFiniteSet(Pairs \X (0 .. 3))
  <2>1. PICK n \in Int, z \in Int : n = 3 /\ z = 0
    OBVIOUS
  <2>2. IsFiniteSet(z .. n)
    BY FS_Interval
  <2>3. PICK S : S = z .. n /\ IsFiniteSet(Pairs \X S)
    BY <1>2, <2>2, FS_Product
  <2>. QED
    BY <2>1, <2>3
<1>4. Taken(f, b) \subseteq Pairs \X (0 .. 3)
  BY DEF Taken
<1>. QED
  BY <1>3, <1>4, FS_Subset, FS_CardinalityType

\* Of two sets of taken threads, one has at most one that the other has not.
LEMMA TakenOneMore ==
  ASSUME NEW f, NEW b, NEW g, NEW c, NEW x, Taken(g, c) \subseteq Taken(f, b) \cup {x}
  PROVE  Cardinality(Taken(g, c)) <= Cardinality(Taken(f, b)) + 1
<1>1. /\ IsFiniteSet(Taken(f, b)) /\ Cardinality(Taken(f, b)) \in Nat
      /\ Cardinality(Taken(g, c)) \in Nat
  BY TakenFinite
<1>2. PICK U, S : U = Taken(f, b) /\ S = U \cup {x}
  OBVIOUS
<1>3. /\ IsFiniteSet(S)
      /\ Cardinality(S) = IF x \in U THEN Cardinality(U) ELSE Cardinality(U) + 1
  BY <1>1, <1>2, FS_AddElement
<1>4. Cardinality(U) \in Nat /\ Cardinality(S) \in Nat
  BY <1>1, <1>2, <1>3, FS_CardinalityType
<1>5. Cardinality(Taken(g, c)) <= Cardinality(S)
  BY <1>2, <1>3, FS_Subset
<1>. QED
  BY <1>1, <1>2, <1>3, <1>4, <1>5

\* No more threads run io_contexts and wait for requests than the pool has: whoever takes a
\* run or a request is free.
LEMMA BusyKept ==
  ASSUME Inv, book \in [Pairs -> BookStates], Busy <= Threads, [Next]_vars
  PROVE  Busy' <= Threads
<1>0. Threads \in Nat \ {0}
  BY InfrastructureAssumption
<1>1. CASE UNCHANGED <<alias, inside, book>>
  BY <1>1 DEF Busy, Occupied, Binance
<1>2. ASSUME NEW p \in Pairs, Register(p), ~UNCHANGED inside PROVE Busy' <= Threads
  BY <1>0, <1>2 DEF Register, RegisterBinance, Busy, Binance
<1>3. ASSUME NEW x, alias' = alias, Busy < Threads,
             Taken(inside, book)' \subseteq Taken(inside, book) \cup {x}
      PROVE  Busy' <= Threads
  <2>1. PICK g, c : g = inside' /\ c = book'
    OBVIOUS
  <2>2. Taken(inside, book)' = Taken(g, c)
    BY <2>1 DEF Taken
  <2>3. Cardinality(Taken(g, c)) <= Cardinality(Taken(inside, book)) + 1
    BY <1>3, <2>2, TakenOneMore
  <2>4. Cardinality(Taken(g, c)) \in Nat /\ Cardinality(Taken(inside, book)) \in Nat
    BY TakenFinite
  <2>5. /\ Busy = IF Binance THEN Cardinality(Taken(inside, book)) ELSE 0
        /\ Busy' = IF Binance THEN Cardinality(Taken(g, c)) ELSE 0
    BY <1>3, <2>1 DEF Busy, Occupied, Taken, Binance
  <2>. QED
    BY <1>0, <1>3, <2>3, <2>4, <2>5
<1>4. ASSUME alias' = alias, Taken(inside, book)' \subseteq Taken(inside, book)
      PROVE  Busy' <= Threads
  <2>1. PICK g, c : g = inside' /\ c = book'
    OBVIOUS
  <2>2. Taken(inside, book)' = Taken(g, c)
    BY <2>1 DEF Taken
  <2>3. /\ IsFiniteSet(Taken(inside, book)) /\ Cardinality(Taken(inside, book)) \in Nat
        /\ Cardinality(Taken(g, c)) \in Nat
    BY TakenFinite
  <2>4. Cardinality(Taken(g, c)) <= Cardinality(Taken(inside, book))
    BY <1>4, <2>2, <2>3, FS_Subset
  <2>5. /\ Busy = IF Binance THEN Cardinality(Taken(inside, book)) ELSE 0
        /\ Busy' = IF Binance THEN Cardinality(Taken(g, c)) ELSE 0
    BY <1>4, <2>1 DEF Busy, Occupied, Taken, Binance
  <2>. QED
    BY <1>0, <2>3, <2>4, <2>5
<1>5. ASSUME NEW p \in Pairs, TakeRun(p) PROVE Busy' <= Threads
  <2>1. alias' = alias /\ Busy < Threads /\ inside \in [Pairs -> Nat] /\ book' = book
    BY <1>5 DEF TakeRun, FreeThread, strand, Inv, Types
  <2>2. inside' = inside \/ inside' = [inside EXCEPT ![p] = inside[p] + 1]
    BY <1>5, <2>1 DEF TakeRun
  <2>3. CASE inside' = inside
    BY <1>1, <2>1, <2>3
  <2>4. CASE inside' = [inside EXCEPT ![p] = inside[p] + 1]
    <3>1. Taken(inside, book)' \subseteq Taken(inside, book) \cup {<<p, inside[p] + 1>>}
      <4>. SUFFICES ASSUME NEW q \in Pairs, NEW i \in 0 .. 3, i # 0,
                           i <= inside'[q], ~(i <= inside[q])
                    PROVE  q = p /\ i = inside[p] + 1
        BY <2>1 DEF Taken
      <4>. QED
        BY <2>1, <2>4
    <3>. QED
      BY <1>3, <2>1, <3>1
  <2>. QED
    BY <2>2, <2>3, <2>4
<1>6. ASSUME NEW p \in Pairs, Request(p) PROVE Busy' <= Threads
  <2>1. /\ alias' = alias /\ Busy < Threads /\ inside' = inside
        /\ \E st \in BookStates : book' = [book EXCEPT ![p] = st]
    BY <1>6 DEF Request, FreeThread, loop, Becomes, BookStates
  <2>2. Taken(inside, book)' \subseteq Taken(inside, book) \cup {<<p, 0>>}
    <3>. SUFFICES ASSUME NEW q \in Pairs, book'[q] = "requested", book[q] # "requested"
                  PROVE  q = p
      BY <2>1 DEF Taken
    <3>. QED
      BY <2>1
  <2>. QED
    BY <1>3, <2>1, <2>2
<1>7. ASSUME NEW p \in Pairs, HandleMessage(p) \/ EndRequest(p), ~Request(p)
      PROVE  Busy' <= Threads
  <2>1. /\ alias' = alias /\ inside' = inside
        /\ \/ book' = book
           \/ \E st \in BookStates : /\ book' = [book EXCEPT ![p] = st]
                                     /\ st = "requested" => book[p] = "requested"
    BY <1>7, StrandStep DEF loop
  <2>2. Taken(inside, book)' \subseteq Taken(inside, book)
    <3>. SUFFICES ASSUME NEW q \in Pairs, book'[q] = "requested" PROVE book[q] = "requested"
      BY <2>1 DEF Taken
    <3>1. ASSUME NEW st \in BookStates, book' = [book EXCEPT ![p] = st],
                 st = "requested" => book[p] = "requested"
          PROVE  book[q] = "requested"
      BY <3>1
    <3>. QED
      BY <2>1, <3>1
  <2>. QED
    BY <1>4, <2>1, <2>2
<1>8. ASSUME NEW p \in Pairs, Return(p) PROVE Busy' <= Threads
  <2>1. /\ alias' = alias /\ inside \in [Pairs -> Nat] /\ book' = book
        /\ inside' = [inside EXCEPT ![p] = inside[p] - 1]
    BY <1>8 DEF Return, strand, Inv, Types
  <2>2. Taken(inside, book)' \subseteq Taken(inside, book)
    <3>. SUFFICES ASSUME NEW q \in Pairs, NEW i \in 0 .. 3, i <= inside'[q]
                  PROVE  i <= inside[q]
      BY <2>1 DEF Taken
    <3>. QED
      BY <2>1
  <2>. QED
    BY <1>4, <2>1, <2>2
<1>9. ASSUME ~UNCHANGED <<alias, inside, book>>
      PROVE  \E p \in Pairs : \/ (Register(p) /\ ~UNCHANGED inside) \/ TakeRun(p) \/ Return(p)
                              \/ Request(p) \/ HandleMessage(p) \/ EndRequest(p)
  BY <1>9 DEF Next, vars, owner, loop, strand, Owner, Context, Register, PlaceOrder, CancelOrder,
     Order, SetCallback, RunWrite, RunSession, RunStop, Runs, Connect, WriteLoop, ReadLoop,
     ReadError, NetStep, Pool, Posted, Destructor, DestroyMember, StartAsync, StopAsync, Destroy,
     DestroyContexts
<1>. QED
  BY <1>1, <1>2, <1>5, <1>6, <1>7, <1>8, <1>9

\* What the sessions' safety has no use for: what the owner keeps, what the strands keep,
\* and that the loops of a session begin when it is connected.
OwnerTypes ==
  /\ phase \in {"up", "stopped", "destroying", "trade", "gone"} /\ orderly \in BOOLEAN
  /\ accepted \in [Pairs -> SUBSET Enabled]
  /\ trade \in Seq({"run", "write"})

StrandTypes ==
  /\ told \in [Pairs -> SUBSET Enabled] /\ work \in [Pairs -> 0 .. MaxWork]
  /\ returned \in [Pairs -> BOOLEAN] /\ book \in [Pairs -> BookStates]

LoopTypes ==
  /\ written \in [Pairs -> BOOLEAN] /\ cancelled \in [Pairs -> BOOLEAN]
  /\ \A p \in Pairs : written[p] \/ cancelled[p] => session[p] \in {"live", "over"}

MoreTypes == OwnerTypes /\ StrandTypes /\ LoopTypes

LEMMA MoreTypesInit == Init => MoreTypes /\ Busy <= Threads
<1>. SUFFICES ASSUME Init PROVE MoreTypes /\ Busy <= Threads
  OBVIOUS
<1>1. OwnerTypes
  BY EmptySeq DEF Init, OwnerTypes
<1>2. StrandTypes
  BY InfrastructureAssumption DEF Init, StrandTypes, BookStates
<1>3. LoopTypes
  BY DEF Init, LoopTypes
<1>4. Busy <= Threads
  <2>1. Taken(inside, book) = {}
    BY DEF Init, Taken
  <2>2. Busy = 0
    BY <2>1, BusyIs, FS_EmptySet
  <2>. QED
    BY <2>2, InfrastructureAssumption
<1>. QED
  BY <1>1, <1>2, <1>3, <1>4 DEF MoreTypes

\* The calls are those of one owner.
LEMMA OwnerTypesKept ==
  ASSUME OwnerTypes, [Next]_vars
  PROVE  OwnerTypes'
<1>. USE DEF OwnerTypes
<1>1. CASE UNCHANGED <<phase, contexts, orderly, accepted, trade>>
  BY <1>1
<1>2. ASSUME NEW p \in Pairs, Register(p) PROVE OwnerTypes'
  BY <1>2 DEF Register, RegisterBinance, RegisterBybit, Build
<1>3. ASSUME NEW p \in Pairs, NEW notifier, SetCallback(p, notifier) PROVE OwnerTypes'
  BY <1>3 DEF SetCallback, Takes
<1>4. ASSUME NEW p \in Pairs, PlaceOrder(p) \/ CancelOrder(p) PROVE OwnerTypes'
  <2>1. /\ trade' = Append(trade, "write") /\ UNCHANGED <<phase, contexts, orderly, accepted>>
    BY <1>4 DEF PlaceOrder, CancelOrder, Order
  <2>2. trade' \in Seq({"run", "write"})
    BY <2>1, AppendProperties
  <2>. QED
    BY <2>1, <2>2
<1>5. ASSUME StartAsync PROVE OwnerTypes'
  <2>1. /\ trade' = trade \/ trade' = Append(trade, "run")
        /\ UNCHANGED <<phase, contexts, orderly, accepted>>
    BY <1>5 DEF StartAsync, StartBinance, StartBybit
  <2>2. trade' \in Seq({"run", "write"})
    BY <2>1, AppendProperties
  <2>. QED
    BY <2>1, <2>2
<1>6. ASSUME StopAsync \/ Destroy \/ DestroyContexts PROVE OwnerTypes'
  <2>1. orderly' \in BOOLEAN
    BY <1>6 DEF StopAsync, Destroy, DestroyContexts
  <2>. QED
    BY <1>6, <2>1 DEF StopAsync, Destroy, DestroyContexts
<1>7. ASSUME NEW p \in Pairs,
             Context(p) \/ ReadLoop(p) \/ ReadError(p) \/ TakeRun(p) \/ HandleMessage(p)
             \/ Request(p) \/ EndRequest(p) \/ DestroyMember(p)
      PROVE  OwnerTypes'
  BY <1>1, <1>7, StrandStep DEF owner, Context, RunWrite, RunSession, RunStop, Runs, Connect,
     WriteLoop, ReadLoop, ReadError, NetStep, Return, TakeRun, DestroyMember
<1>8. UNCHANGED vars => OwnerTypes'
  BY <1>1 DEF vars, owner
<1>. QED
  BY <1>2, <1>3, <1>4, <1>5, <1>6, <1>7, <1>8 DEF Next, Owner, Pool, Posted, Destructor

LEMMA StrandTypesKept ==
  ASSUME OwnerTypes, StrandTypes, [Next]_vars
  PROVE  StrandTypes'
<1>0. MaxWork \in Nat \ {0}
  BY InfrastructureAssumption
<1>. USE DEF StrandTypes
<1>1. CASE UNCHANGED <<told, work, returned, book>>
  BY <1>1
<1>2. ASSUME NEW p \in Pairs, ReadLoop(p) PROVE StrandTypes'
  BY <1>0, <1>2 DEF ReadLoop, NetStep, loop
<1>3. ASSUME NEW p \in Pairs, HandleMessage(p) \/ Request(p) \/ EndRequest(p) PROVE StrandTypes'
  <2>1. /\ work' = work \/ (work[p] > 0 /\ work' = [work EXCEPT ![p] = @ - 1])
        /\ told' = told \/ told' = [told EXCEPT ![p] = @ \cup (accepted[p] \cap Enabled)]
        /\ book' = book \/ \E st \in BookStates : book' = [book EXCEPT ![p] = st]
        /\ returned' = returned
    BY <1>3, StrandStep DEF loop
  <2>2. told' \in [Pairs -> SUBSET Enabled]
    BY <2>1
  <2>3. work' \in [Pairs -> 0 .. MaxWork]
    BY <1>0, <2>1
  <2>4. book' \in [Pairs -> BookStates]
    BY <2>1
  <2>. QED
    BY <2>1, <2>2, <2>3, <2>4
<1>4. ASSUME NEW p \in Pairs, Return(p) PROVE StrandTypes'
  BY <1>4 DEF Return, strand
<1>5. ASSUME ~UNCHANGED <<told, work, returned, book>>
      PROVE  \E p \in Pairs : \/ ReadLoop(p) \/ HandleMessage(p) \/ Return(p)
                              \/ Request(p) \/ EndRequest(p)
  BY <1>5 DEF Next, vars, strand, loop, Owner, Context, Register, PlaceOrder, CancelOrder, Order,
     SetCallback, RunWrite, RunSession, RunStop, Runs, Connect, WriteLoop, ReadError, TakeRun,
     NetStep, Pool, Posted, Destructor, DestroyMember, StartAsync, StopAsync, Destroy,
     DestroyContexts
<1>. QED
  BY <1>1, <1>2, <1>3, <1>4, <1>5

\* A session that is told to run or that connects has had no loops.
LEMMA LoopTypesKept ==
  ASSUME Inv, LoopTypes, [Next]_vars
  PROVE  LoopTypes'
<1>. USE DEF LoopTypes
<1>0. session \in [Pairs -> States]
  BY DEF Inv, Types
<1>1. CASE UNCHANGED <<session, written, cancelled>>
  BY <1>1
<1>2. ASSUME NEW p \in Pairs, NEW s, session' = [session EXCEPT ![p] = s],
             session[p] \notin {"live", "over"} \/ s \in {"live", "over"},
             UNCHANGED <<written, cancelled>>
      PROVE  LoopTypes'
  BY <1>0, <1>2
<1>3. ASSUME NEW p \in Pairs, Register(p) PROVE LoopTypes'
  <2>1. session[p] = "none"
    BY <1>3 DEF Register, Inv, StartedOnce
  <2>. QED
    BY <1>2, <1>3, <2>1 DEF Register, RegisterBinance, RegisterBybit, Build
<1>4. ASSUME NEW p \in Pairs, RunSession(p) PROVE LoopTypes'
  <2>1. session[p] = "idle"
    BY <1>4, RunsKeeps DEF RunSession, Inv, StartedOnce, Handlers
  <2>. QED
    BY <1>2, <1>4, <2>1 DEF RunSession
<1>5. ASSUME NEW p \in Pairs, RunStop(p) PROVE LoopTypes'
  <2>1. PICK begun \in BOOLEAN : cancelled' = [cancelled EXCEPT ![p] = begun /\ session[p] = "live"]
    BY <1>5 DEF RunStop
  <2>2. (begun /\ session[p] = "live") \in BOOLEAN
    OBVIOUS
  <2>3. UNCHANGED <<session, written>>
    BY <1>5 DEF RunStop
  <2>. QED
    BY <2>1, <2>2, <2>3
<1>6. ASSUME NEW p \in Pairs, Connect(p) PROVE LoopTypes'
  BY <1>2, <1>6 DEF Connect
<1>7. ASSUME NEW p \in Pairs, WriteLoop(p) PROVE LoopTypes'
  BY <1>7 DEF WriteLoop
<1>8. ASSUME NEW p \in Pairs, ReadLoop(p) PROVE LoopTypes'
  BY <1>0, <1>8 DEF ReadLoop
<1>9. ASSUME NEW p \in Pairs, ReadError(p) PROVE LoopTypes'
  BY <1>2, <1>9 DEF ReadError
<1>10. ASSUME ~UNCHANGED <<session, written, cancelled>>
       PROVE  \E p \in Pairs : \/ Register(p) \/ RunSession(p) \/ RunStop(p) \/ Connect(p)
                               \/ WriteLoop(p) \/ ReadLoop(p) \/ ReadError(p)
  BY <1>10, StrandStep DEF Next, vars, net, Owner, Context, PlaceOrder, CancelOrder, Order,
     SetCallback, RunWrite, Runs, Return, TakeRun, Pool, Posted, Destructor, DestroyMember,
     StartAsync, StopAsync, Destroy, DestroyContexts
<1>. QED
  BY <1>1, <1>3, <1>4, <1>5, <1>6, <1>7, <1>8, <1>9, <1>10

LEMMA MoreTypesKept ==
  ASSUME Inv, MoreTypes, [Next]_vars
  PROVE  MoreTypes'
BY OwnerTypesKept, StrandTypesKept, LoopTypesKept DEF MoreTypes

LEMMA TypesTogether ==
  ASSUME Inv, MoreTypes, Busy <= Threads
  PROVE  TypeOK
<1>1. \A p \in Pairs : \A i \in DOMAIN ready[p] : ready[p][i] \in Handlers
  <2>. SUFFICES ASSUME NEW p \in Pairs, NEW i \in DOMAIN ready[p] PROVE ready[p][i] \in Handlers
    OBVIOUS
  <2>1. PICK r \in Seq(Handlers) : r = ready[p]
    BY DEF Inv, Types
  <2>2. i \in 1 .. Len(r)
    BY <2>1
  <2>. QED
    BY <2>1, <2>2, ElementOfSeq
<1>2. \A i \in DOMAIN trade : trade[i] \in {"run", "write"}
  <2>. SUFFICES ASSUME NEW i \in DOMAIN trade PROVE trade[i] \in {"run", "write"}
    OBVIOUS
  <2>1. trade \in Seq({"run", "write"})
    BY DEF MoreTypes, OwnerTypes
  <2>2. i \in 1 .. Len(trade)
    BY <2>1
  <2>. QED
    BY <2>1, <2>2, ElementOfSeq
<1>. QED
  BY <1>1, <1>2 DEF Inv, Types, MoreTypes, OwnerTypes, StrandTypes, LoopTypes, States,
     BookStates, TypeOK

Logins == {"auth", "session.logon"}

\* Messages are of some set: what they look like is of no account here.
QueueType == \E S : queue \in Seq(S)

\* Whoever logs in can: Bybit signs with any key, Binance needs one that decodes.
CanLogIn == Client!Private /\ (Client!Bybit \/ decodes)

\* A login is the next message to be sent.
Leads(messages) == messages # << >> /\ Head(messages).op \in Logins

\* The queue of a session that can log in: nothing before Setup; the login if Setup was heeded,
\* until it is sent; anything after a refusal.
LoginLeads ==
  CanLogIn =>
    /\ login = "none" => queue = << >> /\ first = {}
    /\ login = "done" => /\ \A m \in first : m.op \in Logins
                         /\ first = {} => Leads(queue)

\* What the queue of any private session holds before Setup: nothing.
SilentBefore == Client!Private /\ login = "none" => queue = << >>

ClientInv == Client!TypeOK /\ QueueType /\ LoginLeads /\ SilentBefore

-----------------------------------------------------------------------------
(* The queue.                                                              *)

LEMMA QueueLength == QueueType => Len(queue) \in Nat
BY LenProperties DEF QueueType

\* Writing adds one message at the end, or none.
LEMMA WriteKeeps ==
  ASSUME NEW p, NEW M, QueueType, Client!Write(p, M)
  PROVE  /\ QueueType'
         /\ Len(queue') \in {Len(queue), Len(queue) + 1}
         /\ queue # << >> => queue' # << >> /\ Head(queue') = Head(queue)
         /\ queue = << >> /\ M # {} => queue' # << >> /\ Head(queue') \in M
<1>1. CASE UNCHANGED queue /\ M = {}
  BY <1>1 DEF QueueType
<1>2. ASSUME NEW m \in M, queue' = Append(queue, m)
      PROVE  /\ QueueType' /\ Len(queue') = Len(queue) + 1 /\ queue' # << >>
             /\ queue # << >> => Head(queue') = Head(queue)
             /\ queue = << >> => Head(queue') = m
  <2>1. PICK S : queue \in Seq(S)
    BY DEF QueueType
  <2>2. queue \in Seq(S \cup {m})
    BY <2>1, SeqMonotonic
  <2>3. queue' \in Seq(S \cup {m}) /\ Len(queue') = Len(queue) + 1 /\ Len(queue) \in Nat
    BY <1>2, <2>2, AppendProperties, LenProperties
  <2>4. queue' # << >> /\ Head(queue') = queue'[1]
    BY <2>3
  <2>5. queue = << >> => queue'[1] = m
    BY <1>2, <2>2, AppendProperties
  <2>6. queue # << >> => queue'[1] = queue[1] /\ Head(queue) = queue[1]
    <3>. SUFFICES ASSUME queue # << >> PROVE queue'[1] = queue[1] /\ Head(queue) = queue[1]
      OBVIOUS
    <3>1. 1 \in 1 .. Len(queue)
      BY <2>2, <2>3, EmptySeq
    <3>. QED
      BY <1>2, <2>2, <3>1, AppendProperties
  <2>. QED
    BY <2>3, <2>4, <2>5, <2>6 DEF QueueType
<1>. QED
  BY <1>1, <1>2 DEF Client!Write

-----------------------------------------------------------------------------
(* The steps.                                                              *)

LEMMA ClientInitInv == Client!Init => ClientInv
<1>. SUFFICES ASSUME Client!Init PROVE ClientInv
  OBVIOUS
<1>1. queue = << >> /\ queue \in Seq(Nat) /\ Len(queue) = 0
  BY DEF Client!Init
<1>2. drained \in BOOLEAN /\ (drained => wiring.at.kind = "W")
  BY Zenon DEF Client!Init
<1>3. Client!TypeOK
  BY <1>1, <1>2, ClientAssumption DEF Client!Init, Client!TypeOK
<1>. QED
  BY <1>1, <1>3 DEF Client!Init, ClientInv, QueueType, LoginLeads, SilentBefore

\* The login that Setup writes is the first message of all; if none can be signed there is
\* no such message.
LEMMA SetupKeeps ==
  ASSUME ClientInv, Client!Setup
  PROVE  ClientInv'
<1>. USE DEF ClientInv
<1>1. /\ Client!Private /\ (Client!Private' <=> Client!Private)
      /\ (Client!Bybit' <=> Client!Bybit) /\ (CanLogIn' <=> CanLogIn)
      /\ login = "none" /\ queue = << >> /\ Len(queue) = 0 /\ timer = "off"
      /\ UNCHANGED <<wiring, link, drained, first>>
  BY DEF Client!Setup, Client!Private, Client!Bybit, CanLogIn, SilentBefore, Client!TypeOK
<1>2. CASE login' = "refused" /\ UNCHANGED <<queue, timer>>
  BY <1>1, <1>2 DEF Client!TypeOK, QueueType, LoginLeads, SilentBefore
<1>3. CASE Client!Bybit /\ login' = "done" /\ Client!Write("all", Client!BybitAuth) /\ timer' = "waiting"
  <2>1. Client!BybitAuth = {[op |-> "auth", args |-> "signature"]}
    BY DEF Client!BybitAuth, Client!HmacSign
  <2>2. QueueType' /\ Len(queue') \in {0, 1} /\ queue' # << >> /\ Head(queue') \in Client!BybitAuth
    BY <1>1, <1>3, <2>1, WriteKeeps
  <2>3. Leads(queue')
    <3>. DEFINE h == Head(queue')
    <3>1. h = [op |-> "auth", args |-> "signature"]
      BY <2>1, <2>2
    <3>2. h.op = "auth"
      BY <3>1
    <3>. QED
      BY <2>2, <3>2 DEF Leads, Logins
  <2>4. Len(queue') <= MaxQueue + 1
    BY <2>2, ClientAssumption
  <2>. QED
    BY <1>1, <1>3, <2>2, <2>3, <2>4 DEF Client!TypeOK, LoginLeads, SilentBefore
<1>4. CASE ~Client!Bybit /\ login' = "done" /\ timer' = timer
           /\ Client!Write("all", Client!BinanceAuth(decodes))
  <2>1. Client!BinanceAuth(decodes) =
          IF decodes THEN {[op |-> "session.logon", args |-> "signature"]} ELSE {}
    BY DEF Client!BinanceAuth, Client!Ed25519Sign
  <2>. DEFINE logon == Client!BinanceAuth(decodes)
  <2>2. /\ QueueType' /\ Len(queue') \in {0, 1}
        /\ logon # {} => queue' # << >> /\ Head(queue') \in logon
    BY <1>1, <1>4, WriteKeeps
  <2>3. decodes => Leads(queue')
    <3>. SUFFICES ASSUME decodes PROVE Leads(queue')
      OBVIOUS
    <3>. DEFINE h == Head(queue')
    <3>1. Client!BinanceAuth(decodes) = {[op |-> "session.logon", args |-> "signature"]}
      BY <2>1
    <3>2. queue' # << >> /\ h = [op |-> "session.logon", args |-> "signature"]
      BY <2>2, <3>1
    <3>3. h.op = "session.logon"
      BY <3>2
    <3>. QED
      BY <3>2, <3>3 DEF Leads, Logins
  <2>4. Len(queue') <= MaxQueue + 1
    <3>1. Len(queue') \in {0, 1}
      BY <2>2
    <3>. HIDE DEF logon
    <3>. QED
      BY <3>1, ClientAssumption
  <2>. QED
    BY <1>1, <1>4, <2>2, <2>3, <2>4 DEF Client!TypeOK, LoginLeads, SilentBefore, CanLogIn
<1>. QED
  BY <1>2, <1>3, <1>4 DEF Client!Setup, Client!SetupBybit, Client!SetupBinance, Client!StartPing

\* Clients and pings come after the login.
LEMMA WriteStep ==
  ASSUME ClientInv, NEW p, NEW M, Client!Write(p, M), Client!Private => login # "none",
         Len(queue) <= MaxQueue, UNCHANGED <<wiring, decodes, login, link, drained, first>>,
         timer' = timer \/ (timer # "off" /\ timer' = "waiting")
  PROVE  ClientInv'
<1>. USE DEF ClientInv
<1>1. /\ (Client!Private' <=> Client!Private) /\ (Client!Bybit' <=> Client!Bybit)
      /\ (CanLogIn' <=> CanLogIn)
  BY DEF Client!Private, Client!Bybit, CanLogIn
<1>2. /\ QueueType' /\ Len(queue') <= MaxQueue + 1
      /\ queue # << >> => queue' # << >> /\ Head(queue') = Head(queue)
  BY ClientAssumption, WriteKeeps, QueueLength
<1>3. Client!TypeOK'
  BY <1>1, <1>2 DEF Client!TypeOK
<1>4. Leads(queue) => Leads(queue')
  BY <1>2 DEF Leads
<1>5. LoginLeads' /\ SilentBefore'
  BY <1>1, <1>2, <1>4 DEF LoginLeads, SilentBefore, CanLogIn
<1>. QED
  BY <1>2, <1>3, <1>5

LEMMA SendKeeps ==
  ASSUME ClientInv, Client!Send
  PROVE  ClientInv'
<1>. USE DEF ClientInv
<1>1. /\ (Client!Private' <=> Client!Private) /\ (Client!Bybit' <=> Client!Bybit)
      /\ (CanLogIn' <=> CanLogIn)
  BY DEF Client!Send, Client!Private, Client!Bybit, CanLogIn
<1>2. PICK S : queue \in Seq(S)
  BY DEF QueueType
<1>3. queue' = Tail(queue) /\ queue # << >> /\ UNCHANGED <<wiring, login, link, drained, timer>>
  BY DEF Client!Send
<1>4. queue' \in Seq(S) /\ Len(queue') <= MaxQueue + 1
  <2>1. queue' \in Seq(S) /\ Len(queue') = Len(queue) - 1 /\ Len(queue) \in Nat
    BY <1>2, <1>3, HeadTailProperties, LenProperties
  <2>. QED
    BY <2>1, ClientAssumption DEF Client!TypeOK
<1>5. first' = IF first = {} THEN {Head(queue)} ELSE first
  BY DEF Client!Send
<1>6. LoginLeads'
  BY <1>1, <1>3, <1>5 DEF LoginLeads, Leads
<1>7. SilentBefore'
  BY <1>1, <1>3 DEF SilentBefore
<1>8. QueueType'
  BY <1>4 DEF QueueType
<1>. QED
  BY <1>1, <1>3, <1>4, <1>6, <1>7, <1>8 DEF Client!TypeOK

LEMMA CalmStep ==
  ASSUME ClientInv, UNCHANGED <<wiring, decodes, login, queue, first>>,
         link' \in {link, "connecting", "live", "over"},
         drained' = drained \/ (drained' = TRUE /\ wiring.at.kind = "W"),
         timer' = timer \/ (timer # "off" /\ timer' = "due")
  PROVE  ClientInv'
<1>1. /\ (Client!Private' <=> Client!Private) /\ (Client!Bybit' <=> Client!Bybit)
      /\ (CanLogIn' <=> CanLogIn)
  BY DEF Client!Private, Client!Bybit, CanLogIn
<1>2. Client!TypeOK'
  <2>1. drained' \in BOOLEAN /\ (drained' => wiring'.at.kind = "W")
    <3>1. drained \in BOOLEAN /\ (drained => wiring.at.kind = "W") /\ wiring' = wiring
      BY DEF ClientInv, Client!TypeOK
    <3>2. CASE drained' = drained
      BY <3>1, <3>2, Zenon
    <3>3. CASE drained' = TRUE /\ wiring.at.kind = "W"
      BY <3>1, <3>3, Zenon
    <3>. QED
      BY <3>2, <3>3
  <2>. QED
    BY <1>1, <2>1 DEF ClientInv, Client!TypeOK
<1>. QED
  BY <1>1, <1>2 DEF ClientInv, QueueType, LoginLeads, SilentBefore

LEMMA ClientNextInv == ClientInv /\ [Client!Next]_ClientVars => ClientInv'
<1>. SUFFICES ASSUME ClientInv, [Client!Next]_ClientVars PROVE ClientInv'
  OBVIOUS
<1>2. ASSUME NEW p, NEW M, Client!Client(p, M) PROVE ClientInv'
  <2>1. Len(queue) <= MaxQueue
    BY <1>2, ClientAssumption, QueueLength DEF Client!Client, ClientInv
  <2>2. /\ Client!Write(p, M) /\ (Client!Private => login # "none")
        /\ UNCHANGED <<wiring, decodes, login, link, drained, first, timer>>
    BY <1>2 DEF Client!Client, Client!SetupCalled
  <2>. QED
    BY <2>1, <2>2, WriteStep
<1>3. CASE Client!Setup
  BY <1>3, SetupKeeps
<1>4. CASE Client!Send
  BY <1>4, SendKeeps
<1>5. CASE Client!SendPing
  <2>1. login = "done" /\ timer # "off"
    BY <1>5 DEF Client!SendPing, ClientInv, Client!TypeOK
  <2>. QED
    BY <1>5, <2>1, WriteStep DEF Client!SendPing, Client!StartPing
<1>6. CASE Client!StartAsync \/ Client!Connect \/ Client!Fail
  BY <1>6, CalmStep DEF Client!StartAsync, Client!Connect, Client!Fail, Client!Link
<1>7. CASE Client!Expire \/ Client!Drain
  BY <1>7, CalmStep DEF Client!Expire, Client!Drain
<1>8. CASE UNCHANGED ClientVars
  BY <1>8, CalmStep DEF ClientVars
<1>9. ASSUME NEW p \in Asked, NEW tif \in {"FOK", "kInvalid"},
             Client!Subscribe(p) \/ Client!CancelOrder(p) \/ Client!PlaceOrder(p, tif)
      PROVE  ClientInv'
  <2>1. \E M : Client!Client(p, M)
    BY <1>9 DEF Client!Subscribe, Client!CancelOrder, Client!PlaceOrder
  <2>. QED
    BY <1>2, <2>1
<1>. QED
  BY <1>3, <1>4, <1>5, <1>6, <1>7, <1>8, <1>9 DEF Client!Next, Client!Timed

-----------------------------------------------------------------------------
(* Both parts.                                                             *)

\* MoreTypes has no part in the safety of the sessions, so the two are kept apart.
AllTypes == MoreTypes /\ Busy <= Threads

BothInv == Inv /\ AllTypes /\ ClientInv

LEMMA BothInit == MCInit => BothInv
BY InitInv, MoreTypesInit, ClientInitInv DEF MCInit, BothInv, AllTypes

LEMMA BothNext == BothInv /\ [MCNext]_<<part, vars, ClientVars>> => BothInv'
<1>1. MCNext => [Next]_vars /\ [Client!Next]_ClientVars
  BY DEF MCNext
<1>2. UNCHANGED <<part, vars, ClientVars>> => [Next]_vars /\ [Client!Next]_ClientVars
  OBVIOUS
<1>3. Inv /\ AllTypes /\ [Next]_vars => Inv' /\ AllTypes'
  BY NextInv, MoreTypesKept, BusyKept DEF AllTypes, MoreTypes, StrandTypes
<1>. QED
  BY <1>1, <1>2, <1>3, ClientNextInv DEF BothInv

-----------------------------------------------------------------------------
(* What is asked for.                                                      *)

\* A pair has its own symbol or none, and the symbol leads back to it.
LEMMA SymbolIs ==
  ASSUME NEW p \in TradingPairs, NEW s \in Symbol(p)
  PROVE  s = p /\ PairOfSymbol[s] = p
<1>1. \E i \in DOMAIN TradingPair : TradingPair[i] = p
  BY DEF TradingPairs
<1>2. IndexOf(p) \in 1 .. 12
  <2>1. IndexOf(p) \in DOMAIN TradingPair
    BY <1>1 DEF IndexOf
  <2>2. DOMAIN TradingPair = 1 .. 12
    BY DEF TradingPair
  <2>. QED
    BY <2>1, <2>2
<1>3. s = Dictionary[IndexOf(p)] /\ Dictionary[IndexOf(p)] = p
  BY DEF Symbol, EntryIsPairs
<1>4. \A i \in 1 .. 12 : \E j \in 1 .. 10 : Dictionary[j] = Dictionary[i]
  <2>1. Dictionary[11] = Dictionary[1] /\ Dictionary[12] = Dictionary[1]
    BY DEF Dictionary
  <2>2. \A i \in 1 .. 12 : i \in 1 .. 10 \/ i = 11 \/ i = 12
    OBVIOUS
  <2>3. 1 \in 1 .. 10
    OBVIOUS
  <2>. QED
    BY <2>1, <2>2, <2>3
<1>5. s \in {Dictionary[i] : i \in 1 .. 10}
  BY <1>2, <1>3, <1>4
<1>. QED
  BY <1>3, <1>5 DEF PairOfSymbol

\* The clients' tables are the same.
LEMMA ClientSymbolIs ==
  ASSUME NEW p \in Asked, NEW s \in Client!Symbol(p)
  PROVE  s = p /\ Client!PairOfSymbol[s] = p
<1>1. Client!PairOfSymbol = PairOfSymbol
  BY DEF Client!PairOfSymbol, PairOfSymbol, Client!Dictionary, Dictionary
<1>2. Client!Symbol(p) = Symbol(p)
  BY DEF Client!Symbol, Symbol, Client!EntryIsPairs, EntryIsPairs, Client!IndexOf, IndexOf,
         Client!Dictionary, Dictionary, Client!TradingPair, TradingPair
<1>. QED
  BY <1>1, <1>2, SymbolIs, ClientAssumption

-----------------------------------------------------------------------------
(* The infrastructure asks for its pairs.                                  *)

Instances == {BinanceMainSpot, BinanceMainFutures, BybitMainSpot, BybitMainLinear}

AsksInv ==
  /\ alias \in Instances
  /\ outbox = [p \in Pairs |-> outbox[p]] /\ sent = [p \in Pairs |-> sent[p]]
  /\ \A p \in Pairs : outbox[p] \subseteq Asks(p) /\ sent[p] \subseteq Asks(p)

Names == {"BinanceMainSpot", "BinanceMainFutures", "BybitMainSpot", "BybitMainLinear"}

LEMMA AsksInit ==
  ASSUME Aliases \subseteq Names, Init
  PROVE  AsksInv
<1>1. alias \in Instances
  BY DEF Init, Alias, Names, Instances
<1>. QED
  BY <1>1 DEF Init, AsksInv

LEMMA AsksKept ==
  ASSUME AsksInv, [Next]_vars
  PROVE  AsksInv'
<1>. USE DEF AsksInv
<1>1. alias' = alias
  BY StrandStep DEF Next, vars, NetStep, Owner, Context, Register, PlaceOrder, CancelOrder, Order,
     SetCallback, RunWrite, RunSession, RunStop, Runs, Connect, WriteLoop, ReadLoop, ReadError,
     TakeRun, Return, Pool, Posted, Destructor, DestroyMember, StartAsync, StopAsync, Destroy,
     DestroyContexts
<1>2. \A p : Asks(p)' = Asks(p)
  BY <1>1 DEF Asks, Binance
<1>3. CASE UNCHANGED <<outbox, sent>>
  BY <1>1, <1>2, <1>3
<1>4. ASSUME NEW p \in Pairs, RunWrite(p) PROVE AsksInv'
  BY <1>1, <1>2, <1>4 DEF RunWrite, Runs, strand
<1>5. ASSUME NEW p \in Pairs, WriteLoop(p) PROVE AsksInv'
  BY <1>1, <1>2, <1>5 DEF WriteLoop, strand
<1>6. ASSUME ~UNCHANGED <<outbox, sent>>
      PROVE  \E p \in Pairs : RunWrite(p) \/ WriteLoop(p)
  BY <1>6, StrandStep DEF Next, vars, net, Owner, Context, Register, RegisterBinance, RegisterBybit,
     Build, PlaceOrder, CancelOrder, Order, SetCallback, RunSession, RunStop, Runs, Connect,
     ReadLoop, ReadError, TakeRun, Return, Pool, Posted, Destructor, DestroyMember, StartAsync,
     StopAsync, Destroy, DestroyContexts
<1>. QED
  BY <1>3, <1>4, <1>5, <1>6

\* Each subscription is about the symbol of the pair, and so is each snapshot.
LEMMA AsksAbout ==
  ASSUME alias \in Instances, NEW p \in Pairs
  PROVE  /\ \A m \in Asks(p) : PairOfSymbol[m.symbol] = p
         /\ \A m \in SnapshotOf(p) : PairOfSymbol[m.symbol] = p /\ m.host = RestSession.host
<1>1. \A s \in Symbol(p) : PairOfSymbol[s] = p
  BY SymbolIs, InfrastructureAssumption
<1>2. \A m \in Asks(p) : m.symbol \in Symbol(p)
  <2>1. \/ \E speeds, v : Asks(p) = BinanceDiff(speeds, p, v)
        \/ \E d : Asks(p) \in {BybitSpotBook(p, d), BybitLinearBook(p, d)}
    BY DEF Asks, Instances, BinanceMainSpot, BinanceMainFutures, BybitMainSpot, BybitMainLinear,
       Binance
  <2>. QED
    BY <2>1 DEF BinanceDiff, BybitSpotBook, BybitLinearBook, Subscription, SmallSymbol
<1>3. ASSUME NEW m \in SnapshotOf(p) PROVE m.symbol \in Symbol(p) /\ m.host = RestSession.host
  BY <1>3 DEF SnapshotOf, SpotSnapshot, FuturesSnapshot, SnapshotBody, RestSession,
     SpotRestSession, FuturesRestSession
<1>. QED
  BY <1>1, <1>2, <1>3

\* The session of an instance connects to its market.
LEMMA AtItsMarket ==
  ASSUME alias \in Instances
  PROVE  alias.market \in MarketAt(alias.session)
<1>1. CASE alias = BinanceMainSpot
  BY <1>1 DEF BinanceMainSpot, BinanceMainSpotBook, At, MarketAt
<1>2. CASE alias = BinanceMainFutures
  BY <1>2 DEF BinanceMainFutures, BinanceMainFuturesBook, At, MarketAt
<1>3. CASE alias = BybitMainSpot
  BY <1>3 DEF BybitMainSpot, BybitMainSpotBook, At, MarketAt
<1>4. CASE alias = BybitMainLinear
  BY <1>4 DEF BybitMainLinear, BybitMainLinearBook, At, MarketAt
<1>. QED
  BY <1>1, <1>2, <1>3, <1>4 DEF Instances

LEMMA AsksRight == AsksInv => AsksForItsPair
BY AsksAbout, AtItsMarket DEF AsksInv, AsksForItsPair

-----------------------------------------------------------------------------
(* Clients ask for what their endpoint understands.                        *)

\* What wiring a client to a session comes to: the private and trade sessions of Bybit have
\* pings, those of Binance's main net take logins, and who subscribes or orders does it where
\* that is understood.
Matches(w) ==
  /\ w.at.host \in Client!Hosts(w.exchange)
  /\ w.exchange = "bybit" /\ w.net # "public" => w.at.path \in {"/v5/private", "/v5/trade"}
  /\ w.exchange # "bybit" /\ w.net = "main" => w.at.path = "/ws-api/v3"
  /\ w.exchange = "bybit" /\ w.orders => w.at.path = "/v5/trade"
  /\ w.subscribes \in {"execution", "order"} =>
       w.at.path = IF w.exchange = "bybit" THEN "/v5/private" ELSE "/ws-api/v3"
  /\ w.subscribes \in {"tickers", "linear"} =>
       w.at.path = "/v5/public/linear" /\ w.at.host # "stream.binance.com"
  /\ w.subscribes = "book" /\ w.exchange = "bybit" => w.at.path = "/v5/public/spot"
  /\ w.subscribes = "book" /\ w.exchange # "bybit" =>
       w.at.path = "/ws" /\ w.at.host = "stream.binance.com"
  /\ w.subscribes = "futures" => w.at.path = "/ws" /\ w.at.host # "stream.binance.com"
  /\ w.subscribes = "trade" => w.at.path = "/ws"

LEMMA WiringsMatch == \A w \in MCWirings : Matches(w)
BY DEF Matches, MCWirings, Wired, At, Client!Hosts,
   BybitMainPrivate, BybitTestPrivate, BybitMainTradeRW, BybitMainTradeW, BybitTestTradeW,
   BybitTestTradeRW, BybitMainTickers, BybitTestSpotBook, BybitTestLinearBook,
   BinanceMainPrivate, BinanceTestPrivate, BinanceMainTradeRW, BinanceMainTradeW,
   BinanceMainSpotBook, BinanceMainFuturesBook, BinanceTestFuturesBook, BinanceTestTradeW,
   BinanceTestTradeRW

\* What RequestsAreUnderstood says of a message that was written for a pair.
Understood(m, p) ==
  /\ Client!Bybit \/ m.op \notin Client!Orders =>
       Client!Fits(wiring.at, m) /\ wiring.at.host \in Client!Hosts(wiring.exchange)
  /\ m.op = "subscribe" /\ m.symbol # "all" => Client!PairOfSymbol[m.symbol] = p
  /\ m.op \in Client!Orders => Client!PairOfSymbol[m.args.symbol] = p

\* Only a private session logs in, and what was written is understood.
UnderstoodInv ==
  /\ Matches(wiring)
  /\ login # "none" => Client!Private
  /\ \A w \in wrote : Understood(w.message, w.pair)

LEMMA LoginUnderstood ==
  ASSUME Matches(wiring), Client!Private
  PROVE  /\ Client!Bybit => \A m \in Client!BybitAuth \cup {Client!Ping} : Understood(m, "all")
         /\ ~Client!Bybit /\ wiring.net = "main" =>
              \A m \in Client!BinanceAuth(decodes) : Understood(m, "all")
BY DEF Matches, Understood, Client!Private, Client!Bybit, Client!BybitAuth, Client!HmacSign,
   Client!Ping, Client!BinanceAuth, Client!Ed25519Sign, Client!Fits, Client!Ops, Client!Orders

\* A subscription is about no pair, or about the one that was asked for.
LEMMA SubscriptionUnderstood ==
  ASSUME Matches(wiring), NEW p \in Asked, NEW topic, NEW rate,
         NEW s \in Client!Symbol(p) \cup {"all"},
         topic \in Client!Topics(wiring.at.path), wiring.at.path # "/v5/trade",
         rate \in Client!Rates(wiring.at) \cup {"none"}
  PROVE  Understood(Client!Subscription(topic, s, rate), p)
<1>1. s # "all" => Client!PairOfSymbol[s] = p
  BY ClientSymbolIs
<1>2. wiring.at.host \in Client!Hosts(wiring.exchange)
  BY DEF Matches
<1>. QED
  BY <1>1, <1>2 DEF Understood, Client!Subscription, Client!Fits, Client!Ops, Client!Orders

\* The rates that the clients ask for are those of their endpoints.
LEMMA RatesThere ==
  ASSUME Matches(wiring)
  PROVE  /\ wiring.subscribes = "book" /\ Client!Bybit => "50" \in Client!Rates(wiring.at)
         /\ wiring.subscribes = "book" /\ ~Client!Bybit => "1000ms" \in Client!Rates(wiring.at)
         /\ wiring.subscribes = "linear" => "200" \in Client!Rates(wiring.at)
         /\ wiring.subscribes = "futures" => "250ms" \in Client!Rates(wiring.at)
<1>1. CASE wiring.subscribes = "book" /\ Client!Bybit
  <2>1. /\ wiring.at.path = "/v5/public/spot"
        /\ wiring.at.host \in {"stream.bybit.com", "stream-testnet.bybit.com"}
    BY <1>1 DEF Matches, Client!Hosts, Client!Bybit
  <2>2. Client!Rates(wiring.at) = {"1", "50", "200"}
    BY <2>1 DEF Client!Rates
  <2>. QED
    BY <1>1, <2>2
<1>2. CASE wiring.subscribes = "book" /\ ~Client!Bybit
  <2>1. wiring.at.path = "/ws" /\ wiring.at.host = "stream.binance.com"
    BY <1>2 DEF Matches, Client!Bybit
  <2>2. Client!Rates(wiring.at) = {"100ms", "1000ms"}
    BY <2>1 DEF Client!Rates
  <2>. QED
    BY <1>2, <2>2
<1>3. CASE wiring.subscribes = "linear"
  BY <1>3 DEF Matches, Client!Rates
<1>4. CASE wiring.subscribes = "futures"
  BY <1>4 DEF Matches, Client!Rates
<1>. QED
  BY <1>1, <1>2, <1>3, <1>4

LEMMA SubscribeUnderstood ==
  ASSUME Matches(wiring), NEW p \in Asked, Client!Subscribe(p)
  PROVE  \E M : Client!Client(p, M) /\ \A m \in M : Understood(m, p)
<1>. DEFINE Here(topic) == topic \in Client!Topics(wiring.at.path) /\ wiring.at.path # "/v5/trade"
<1>1. ASSUME NEW M, NEW topic, NEW rate, Here(topic), Client!Client(p, M),
             rate \in Client!Rates(wiring.at) \cup {"none"},
             \A m \in M : \E s \in Client!Symbol(p) \cup {"all"} :
               m = Client!Subscription(topic, s, rate)
      PROVE  \E N : Client!Client(p, N) /\ \A m \in N : Understood(m, p)
  BY <1>1, SubscriptionUnderstood
<1>2. CASE wiring.subscribes \in {"execution", "order"} /\ Client!Bybit
  BY <1>2, <1>1 DEF Client!Subscribe, Client!BybitExecution, Client!BybitOrder, Matches,
     Client!Bybit, Client!Topics
<1>3. CASE wiring.subscribes \in {"execution", "order"} /\ ~Client!Bybit
  BY <1>3, <1>1 DEF Client!Subscribe, Client!BinanceExecution, Client!BinanceOrder,
     Client!BinanceUserData, Matches, Client!Bybit, Client!Topics
<1>4. CASE wiring.subscribes = "tickers"
  BY <1>4, <1>1 DEF Client!Subscribe, Client!BybitTickers, Matches, Client!Topics
<1>5. CASE wiring.subscribes = "book" /\ Client!Bybit
  <2>1. Here("orderbook") /\ Client!Client(p, Client!BybitSpotBook(p, "k50"))
    BY <1>5 DEF Client!Subscribe, Matches, Client!Bybit, Client!Topics
  <2>2. \A m \in Client!BybitSpotBook(p, "k50") : \E s \in Client!Symbol(p) :
          m = Client!Subscription("orderbook", s, "50")
    BY DEF Client!BybitSpotBook, Client!BybitSpotDepth
  <2>. QED
    BY <1>1, <1>5, <2>1, <2>2, RatesThere
<1>6. CASE wiring.subscribes = "book" /\ ~Client!Bybit
  <2>. DEFINE M == Client!BinanceDiff(Client!BinanceSpotSpeed, p, "k1000")
  <2>1. Here("depth") /\ Client!Client(p, M)
    BY <1>6 DEF Client!Subscribe, Matches, Client!Bybit, Client!Topics
  <2>2. \A m \in M : \E s \in Client!Symbol(p) : m = Client!Subscription("depth", s, "1000ms")
    BY DEF Client!BinanceDiff, Client!SmallSymbol, Client!BinanceSpotSpeed
  <2>. HIDE DEF M
  <2>. QED
    BY <1>1, <1>6, <2>1, <2>2, RatesThere
<1>7. CASE wiring.subscribes = "linear"
  <2>1. Here("orderbook") /\ Client!Client(p, Client!BybitLinearBook(p, "k200"))
    BY <1>7 DEF Client!Subscribe, Matches, Client!Topics
  <2>2. \A m \in Client!BybitLinearBook(p, "k200") : \E s \in Client!Symbol(p) :
          m = Client!Subscription("orderbook", s, "200")
    BY DEF Client!BybitLinearBook, Client!BybitLinearDepth
  <2>. QED
    BY <1>1, <1>7, <2>1, <2>2, RatesThere
<1>8. CASE wiring.subscribes = "futures"
  <2>. DEFINE M == Client!BinanceDiff(Client!BinanceFuturesSpeed, p, "k250")
  <2>1. Here("depth") /\ Client!Client(p, M)
    BY <1>8 DEF Client!Subscribe, Matches, Client!Topics
  <2>2. \A m \in M : \E s \in Client!Symbol(p) : m = Client!Subscription("depth", s, "250ms")
    BY DEF Client!BinanceDiff, Client!SmallSymbol, Client!BinanceFuturesSpeed
  <2>. HIDE DEF M
  <2>. QED
    BY <1>1, <1>8, <2>1, <2>2, RatesThere
<1>9. CASE wiring.subscribes = "trade"
  BY <1>9, <1>1 DEF Client!Subscribe, Client!BinanceTrade, Client!SmallSymbol, Matches,
     Client!Topics
<1>10. CASE wiring.subscribes \notin
              {"execution", "order", "tickers", "book", "linear", "futures", "trade"}
  <2>1. Client!Client(p, {})
    BY <1>10 DEF Client!Subscribe
  <2>. QED
    BY <2>1
<1>. QED
  BY <1>2, <1>3, <1>4, <1>5, <1>6, <1>7, <1>8, <1>9, <1>10

\* The class gives way to what its owner sets.
LEMMA OwnerSets ==
  ASSUME NEW class, NEW set, NEW f \in DOMAIN set
  PROVE  Client!Fields(class, set)[f] = set[f]
BY DEF Client!Fields

LEMMA OrderUnderstood ==
  ASSUME Matches(wiring), wiring.orders, NEW p \in Asked, NEW op \in Client!Orders,
         NEW args, args.symbol \in Client!Symbol(p)
  PROVE  Understood([op |-> op, args |-> args], p)
<1>1. Client!PairOfSymbol[args.symbol] = p
  BY ClientSymbolIs
<1>. QED
  BY <1>1 DEF Understood, Matches, Client!Bybit, Client!Fits, Client!Ops, Client!Orders

LEMMA PlaceUnderstood ==
  ASSUME Matches(wiring), NEW p \in Asked, NEW tif, Client!PlaceOrder(p, tif)
  PROVE  \E M : Client!Client(p, M) /\ \A m \in M : Understood(m, p)
<1>. DEFINE set == [pair |-> p, id |-> 1, tif |-> tif]
            r == Client!Fields(Client!SpotBuyLimit, set)
<1>1. r.pair = p
  BY OwnerSets
<1>. HIDE DEF r
<1>2. ASSUME NEW tables, NEW b \in Client!PlaceBody(tables, r)
      PROVE  b.symbol \in Client!Symbol(p)
  BY <1>1, <1>2 DEF Client!PlaceBody
<1>3. ASSUME NEW tables,
             NEW m \in Client!Envelope("order.create", Client!PlaceBody(tables, r))
      PROVE  Understood(m, p)
  <2>1. PICK b \in Client!PlaceBody(tables, r) : m = [op |-> "order.create", args |-> b]
    BY <1>3 DEF Client!Envelope
  <2>2. wiring.orders /\ "order.create" \in Client!Orders
    BY DEF Client!PlaceOrder, Client!Orders
  <2>. QED
    BY <1>2, <2>1, <2>2, OrderUnderstood
<1>4. \E tables : Client!Client(p, Client!Envelope("order.create", Client!PlaceBody(tables, r)))
  BY DEF Client!PlaceOrder, Client!BybitPlace, Client!BinancePlace, Client!BybitSpotBuyLimit,
     Client!BinanceSpotBuyLimit, r
<1>. QED
  BY <1>3, <1>4

LEMMA CancelUnderstood ==
  ASSUME Matches(wiring), NEW p \in Asked, Client!CancelOrder(p)
  PROVE  \E M : Client!Client(p, M) /\ \A m \in M : Understood(m, p)
<1>. DEFINE set == [pair |-> p, id |-> 1]
            r == Client!Fields([category |-> "kSpot"], set)
<1>1. r.pair = p
  BY OwnerSets
<1>. HIDE DEF r
<1>2. ASSUME NEW tables, NEW b \in Client!CancelBody(tables, r)
      PROVE  b.symbol \in Client!Symbol(p)
  BY <1>1, <1>2 DEF Client!CancelBody
<1>3. ASSUME NEW tables,
             NEW m \in Client!Envelope("order.cancel", Client!CancelBody(tables, r))
      PROVE  Understood(m, p)
  <2>1. PICK b \in Client!CancelBody(tables, r) : m = [op |-> "order.cancel", args |-> b]
    BY <1>3 DEF Client!Envelope
  <2>2. wiring.orders /\ "order.cancel" \in Client!Orders
    BY DEF Client!CancelOrder, Client!Orders
  <2>. QED
    BY <1>2, <2>1, <2>2, OrderUnderstood
<1>4. \E tables : Client!Client(p, Client!Envelope("order.cancel", Client!CancelBody(tables, r)))
  BY DEF Client!CancelOrder, Client!BybitCancel, Client!BinanceCancel, Client!BybitCancelSpot,
     Client!BinanceCancelSpot, r
<1>. QED
  BY <1>3, <1>4

-----------------------------------------------------------------------------
(* The steps of a client keep it so.                                       *)

\* What is understood stays understood while the wiring is the same.
LEMMA UnderstoodKept ==
  ASSUME wiring' = wiring, NEW m, NEW p, Understood(m, p)
  PROVE  Understood(m, p)'
<1>1. (Client!Bybit' <=> Client!Bybit) /\ wiring'.at = wiring.at
  BY DEF Client!Bybit
<1>. QED
  BY <1>1 DEF Understood

LEMMA WriteUnderstood ==
  ASSUME UnderstoodInv, wiring' = wiring, NEW p, NEW M, Client!Write(p, M),
         \A m \in M : Understood(m, p), login' # "none" => Client!Private
  PROVE  UnderstoodInv'
<1>1. Matches(wiring)' /\ (Client!Private' <=> Client!Private)
  BY DEF UnderstoodInv, Client!Private, Matches
<1>2. \A w \in wrote' : Understood(w.message, w.pair)
  BY DEF Client!Write, UnderstoodInv
<1>3. \A w \in wrote' : Understood(w.message, w.pair)'
  BY <1>2, UnderstoodKept
<1>. QED
  BY <1>1, <1>3 DEF UnderstoodInv

LEMMA UnderstoodInit ==
  ASSUME Wirings \subseteq MCWirings, Client!Init
  PROVE  UnderstoodInv
<1>1. Matches(wiring) /\ login = "none" /\ wrote = {}
  BY WiringsMatch DEF Client!Init
<1>. QED
  BY <1>1 DEF UnderstoodInv

\* Nothing is written.
LEMMA SilentUnderstood ==
  ASSUME UnderstoodInv, wiring' = wiring, wrote' = wrote, login' # "none" => Client!Private
  PROVE  UnderstoodInv'
<1>1. Matches(wiring)' /\ (Client!Private' <=> Client!Private)
  BY DEF UnderstoodInv, Client!Private, Matches
<1>. QED
  BY <1>1, UnderstoodKept DEF UnderstoodInv

LEMMA SetupUnderstood ==
  ASSUME UnderstoodInv, Client!Setup
  PROVE  UnderstoodInv'
<1>1. Client!Private /\ Matches(wiring) /\ wiring' = wiring
  BY DEF Client!Setup, UnderstoodInv
<1>2. CASE UNCHANGED wrote
  BY <1>1, <1>2, SilentUnderstood
<1>3. CASE Client!Bybit /\ Client!Write("all", Client!BybitAuth)
  <2>1. \A m \in Client!BybitAuth : Understood(m, "all")
    BY <1>1, <1>3, LoginUnderstood
  <2>. QED
    BY <1>1, <1>3, <2>1, WriteUnderstood
<1>4. CASE ~Client!Bybit /\ wiring.net = "main" /\ Client!Write("all", Client!BinanceAuth(decodes))
  <2>1. \A m \in Client!BinanceAuth(decodes) : Understood(m, "all")
    BY <1>1, <1>4, LoginUnderstood
  <2>. QED
    BY <1>1, <1>4, <2>1, WriteUnderstood
<1>5. Client!BinanceHasKeys => wiring.net = "main"
  BY DEF Client!BinanceHasKeys, Client!BinanceTestKeys, Client!BinanceKeys
<1>. QED
  BY <1>2, <1>3, <1>4, <1>5 DEF Client!Setup, Client!SetupBybit, Client!SetupBinance

LEMMA UnderstoodNext == ClientInv /\ UnderstoodInv /\ [Client!Next]_ClientVars => UnderstoodInv'
<1>. SUFFICES ASSUME ClientInv, UnderstoodInv, [Client!Next]_ClientVars PROVE UnderstoodInv'
  OBVIOUS
<1>1. Matches(wiring)
  BY DEF UnderstoodInv
<1>2. CASE Client!Setup
  BY <1>2, SetupUnderstood
<1>3. CASE Client!SendPing
  <2>1. Client!Bybit /\ login = "done" /\ Client!Private
    BY <1>3 DEF Client!SendPing, ClientInv, Client!TypeOK, UnderstoodInv
  <2>2. \A m \in {Client!Ping} : Understood(m, "all")
    BY <1>1, <2>1, LoginUnderstood
  <2>3. wiring' = wiring /\ Client!Write("all", {Client!Ping})
    BY <1>3 DEF Client!SendPing
  <2>. QED
    BY <2>1, <2>2, <2>3, WriteUnderstood
<1>4. CASE UNCHANGED <<wiring, login, wrote>>
  BY <1>4, SilentUnderstood DEF UnderstoodInv
<1>5. ASSUME NEW p \in Asked, NEW tif \in {"FOK", "kInvalid"},
             Client!Subscribe(p) \/ Client!CancelOrder(p) \/ Client!PlaceOrder(p, tif)
      PROVE  UnderstoodInv'
  <2>1. PICK M : Client!Client(p, M) /\ \A m \in M : Understood(m, p)
    BY <1>1, <1>5, SubscribeUnderstood, PlaceUnderstood, CancelUnderstood
  <2>2. wiring' = wiring /\ login' = login /\ Client!Write(p, M)
    BY <2>1 DEF Client!Client
  <2>. QED
    BY <2>1, <2>2, WriteUnderstood DEF UnderstoodInv
<1>. QED
  BY <1>2, <1>3, <1>4, <1>5 DEF Client!Next, ClientVars, Client!Timed, Client!Expire,
     Client!StartAsync, Client!Connect, Client!Fail, Client!Link, Client!Send, Client!Drain

LEMMA UnderstoodRight == UnderstoodInv => Client!RequestsAreUnderstood
<1>. SUFFICES ASSUME UnderstoodInv, NEW w \in wrote PROVE Understood(w.message, w.pair)
  BY DEF Client!RequestsAreUnderstood, Understood
<1>. QED
  BY DEF UnderstoodInv

-----------------------------------------------------------------------------
(* The theorems.                                                           *)

\* The variables have their types; a pool never has more threads in the io_contexts than it
\* has, the loops of a session begin when it is connected, and a client sends pings only to
\* Bybit and after the login was sent (infrastructure.h, session_setup.h, ping_manager.h).
THEOREM ClientTypes == MCSpec => []TypesOK
<1>1. BothInv => TypesOK
  BY TypesTogether DEF BothInv, AllTypes, ClientInv, TypesOK
<1>. QED
  BY <1>1, BothInit, BothNext, PTL DEF MCSpec

\* At most one thread is ever in the io_context of a session, and while the loops of the
\* session run, the session, the listener they call and the io_context itself have not been
\* destroyed, whatever the owner calls and in whatever order the contexts are destroyed
\* (binance/infrastructure/infrastructure.h, bybit/infrastructure/infrastructure.h).
THEOREM SessionsSafe == MCSpec => []SessionsAreSafe
<1>1. BothInv => SessionsAreSafe
  BY InvSafe DEF BothInv
<1>. QED
  BY <1>1, BothInit, BothNext, PTL DEF MCSpec

\* Where Setup has logged in, the login goes before anything else: neither a client that is
\* quick to subscribe or to order nor a ping gets into the queue before it, whenever the
\* connection comes up (session_setup.h, ping_manager.h).  It says nothing of a session whose
\* Setup was refused, where the subscription goes first and no login at all.
THEOREM LoginGoesFirst == MCSpec => []AuthFirst
<1>1. BothInv => AuthFirst
  BY DEF BothInv, ClientInv, LoginLeads, Leads, AuthFirst, Private, Bybit, CanLogIn, Logins,
         Client!Private, Client!Bybit
<1>. QED
  BY <1>1, BothInit, BothNext, PTL DEF MCSpec

\* What is written for a pair has the symbol of that pair: an order book subscribes to, and
\* takes its snapshots of, its own pair at its own market, and so do the clients' subscriptions
\* and orders.  And each login, ping and subscription, and each order of Bybit, goes to an
\* endpoint of its exchange that understands it, with its topic and its rate; the orders of
\* Binance are left out, which have the form of Bybit's.  The instances and the wirings are
\* those of the repository (request.h, request_maker.h, trading_pair.h, infrastructure.h and
\* the examples).
THEOREM RequestsRight ==
  ASSUME Wirings \subseteq MCWirings, Aliases \subseteq Names
  PROVE  MCSpec => []RequestsAreUnderstood
<1>. DEFINE I == BothInv /\ AsksInv /\ UnderstoodInv
<1>1. MCInit => I
  BY BothInit, AsksInit, UnderstoodInit DEF MCInit
<1>2. I /\ [MCNext]_<<part, vars, ClientVars>> => I'
  <2>1. [MCNext]_<<part, vars, ClientVars>> => [Next]_vars /\ [Client!Next]_ClientVars
    BY DEF MCNext
  <2>2. AsksInv /\ [Next]_vars => AsksInv'
    BY AsksKept
  <2>3. BothInv => ClientInv
    BY DEF BothInv
  <2>. QED
    BY <2>1, <2>2, <2>3, BothNext, UnderstoodNext
<1>3. I => RequestsAreUnderstood
  BY AsksRight, UnderstoodRight DEF RequestsAreUnderstood
<1>. QED
  BY <1>1, <1>2, <1>3, PTL DEF MCSpec

=============================================================================
