----------------------------- MODULE ClientQueue -----------------------------
(***************************************************************************)
(* The queue of one session, as its clients share it: who is wired to the  *)
(* session, what they have written and what was sent first.  ClientSession *)
(* has the clients.                                                        *)
(***************************************************************************)
EXTENDS Requests

VARIABLES
  wiring,       \* which session and clients: [at, exchange, net, subscribes, orders]
  decodes,      \* the Ed25519 key is one
  login,        \* what Setup returned: "none" yet, "done", "refused"
  queue,        \* message_queue_
  wrote,        \* history: the last message that was written, with the pair it was written for
  first         \* history: the first message that was sent

Private == wiring.net # "public"
Bybit   == wiring.exchange = "bybit"

\* AsyncWrite, for those who could make a message; p is the pair they were asked about.
Write(p, messages) ==
  \/ \E m \in messages : queue' = Append(queue, m) /\ wrote' = {[pair |-> p, message |-> m]}
  \/ messages = {} /\ UNCHANGED <<queue, wrote>>

\* A private or trade session whose Setup has logged in has sent nothing before the login:
\* pings and requests come after it (session_setup.h); but for Binance with a key that signs
\* nothing.  Where Setup was refused there is no login, and the requests go out without.
AuthFirst ==
  Private /\ login = "done" /\ (Bybit \/ decodes) =>
    /\ \A m \in first : m.op \in {"auth", "session.logon"}
    /\ first = {} /\ queue # <<>> => Head(queue).op \in {"auth", "session.logon"}

=============================================================================
