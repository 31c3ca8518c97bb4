------------------------- MODULE BybitBookFeedProofs ------------------------
(***************************************************************************)
(* Theorems about BybitBookFeed, for every exchange, subscriber and bound: *)
(* the listener leaves no message behind, the order book is well formed    *)
(* between any two levels of an event, it is the exchange's book, and its  *)
(* subscriber ends up with what it shows.                                  *)
(*                                                                         *)
(* Induction over the natural numbers goes through sets: what holds of the *)
(* members of a set that every number joins after the one before it.       *)
(***************************************************************************)
EXTENDS BybitBookFeed, SequenceTheorems, TLAPS

FS == INSTANCE FiniteSetTheorems

-----------------------------------------------------------------------------
(* The listener.                                                           *)

\* As much of the types as the proof needs.
ListenerTypes == (\E S : queue_ \in Seq(S)) /\ runs \in Nat /\ running \in BOOLEAN

\* The inductive invariant: messages are counted against runs.
Inv == ListenerTypes /\ NoMessageLeftBehind

\* Nothing is enqueued at first.
LEMMA InitInv == Init => Inv
<1>. SUFFICES ASSUME Init PROVE Inv
  OBVIOUS
<1>1. queue_ = << >> /\ runs = 0 /\ running = FALSE
  BY DEF Init
<1>2. queue_ \in Seq(Nat) /\ Len(queue_) = 0
  BY <1>1
<1>3. NoMessageLeftBehind
  <2>1. (IF running THEN 1 ELSE 0) = 0
    BY <1>1
  <2>. QED
    BY <1>1, <1>2, <2>1 DEF NoMessageLeftBehind
<1>4. ListenerTypes
  BY <1>1, <1>2 DEF ListenerTypes
<1>. QED
  BY <1>3, <1>4 DEF Inv

\* Whatever the exchange sends is enqueued together with a run.
LEMMA ExchangeStep ==
  ASSUME Inv, Exchange
  PROVE  Inv'
<1>1. PICK msg : queue_' = Append(queue_, msg) /\ runs' = runs + 1
  BY DEF Exchange, SendSnapshot, Trade, Restart, Enqueue
<1>2. running' = running
  BY DEF Exchange, SendSnapshot, Trade, Restart, Unchanged
<1>3. PICK S : queue_ \in Seq(S)
  BY DEF Inv, ListenerTypes
<1>4. queue_ \in Seq(S \cup {msg}) /\ msg \in S \cup {msg}
  BY <1>3, SeqMonotonic
<1>5. queue_' \in Seq(S \cup {msg}) /\ Len(queue_') = Len(queue_) + 1 /\ Len(queue_) \in Nat
  BY <1>1, <1>4, AppendProperties, LenProperties
<1>. QED
  BY <1>1, <1>2, <1>5 DEF Inv, ListenerTypes, NoMessageLeftBehind

\* A message taken by a run counts against that run, which goes on or ends with it.
LEMMA ListenerStep ==
  ASSUME Inv, Listener
  PROVE  Inv'
<1>. USE DEF Inv
<1>1. PICK S : queue_ \in Seq(S)
  BY DEF ListenerTypes
<1>2. Len(queue_) \in Nat /\ runs \in Nat
  BY <1>1, LenProperties DEF ListenerTypes
<1>3. queue_ # << >> => Tail(queue_) \in Seq(S) /\ Len(Tail(queue_)) = Len(queue_) - 1
  BY <1>1, HeadTailProperties
<1>4. CASE BeginRun
  <2>1. queue_' = queue_ /\ runs' = runs - 1 /\ runs > 0 /\ running' = TRUE /\ running = FALSE
    BY <1>4 DEF BeginRun, ListenerTypes
  <2>. QED
    BY <1>1, <1>2, <2>1 DEF ListenerTypes, NoMessageLeftBehind
<1>5. CASE ProcessMessage
  <2>1. queue_ # << >> /\ queue_' = Tail(queue_) /\ runs' = runs /\ running' = running
    BY <1>5 DEF ProcessMessage
  <2>. QED
    BY <1>2, <1>3, <2>1 DEF ListenerTypes, NoMessageLeftBehind
<1>6. CASE RefuseMessage
  <2>1. /\ queue_ # << >> /\ queue_' = Tail(queue_) /\ runs' = runs
        /\ running /\ running' = FALSE
    BY <1>6 DEF RefuseMessage
  <2>2. Len(queue_) <= runs + 1
    BY <2>1 DEF NoMessageLeftBehind
  <2>3. ListenerTypes' /\ Len(queue_') = Len(queue_) - 1
    BY <1>2, <1>3, <2>1 DEF ListenerTypes
  <2>. QED
    BY <1>2, <2>1, <2>2, <2>3 DEF NoMessageLeftBehind
<1>7. CASE EndRun
  <2>1. queue_ = << >> /\ queue_' = queue_ /\ runs' = runs /\ running' = FALSE
    BY <1>7 DEF EndRun
  <2>2. Len(queue_') = 0 /\ runs' \in Nat /\ Len(queue_') <= runs' + 0
    BY <1>2, <2>1
  <2>3. ListenerTypes'
    <3>1. queue_' \in Seq(S)
      BY <1>1, <2>1
    <3>2. running' \in BOOLEAN
      BY <2>1
    <3>. QED
      BY <2>2, <3>1, <3>2 DEF ListenerTypes
  <2>4. ~running'
    BY <2>1
  <2>5. NoMessageLeftBehind'
    BY <2>2, <2>4 DEF NoMessageLeftBehind
  <2>. QED
    BY <2>3, <2>5
<1>. QED
  BY <1>4, <1>5, <1>6, <1>7 DEF Listener

\* The invariant of the listener is inductive.
LEMMA NextInv == Inv /\ [Next]_vars => Inv'
<1>. SUFFICES ASSUME Inv, [Next]_vars PROVE Inv'
  OBVIOUS
<1>1. CASE UNCHANGED listener
  BY <1>1 DEF Inv, ListenerTypes, NoMessageLeftBehind, listener
<1>2. Exchange \/ Listener \/ UNCHANGED listener
  <2>1. Sync => UNCHANGED listener
    BY DEF Sync, ProcessSnapshot, ProcessDiff, NotifySubscriber, OnSyncStrand
  <2>2. OrderBook => UNCHANGED listener
    BY DEF OrderBook, ProcessEvent, ProcessClear, PassQuery, OnBookStrand
  <2>3. Subscriber => UNCHANGED listener
    <3>1. OnSubscriberStrand => UNCHANGED listener
      BY DEF OnSubscriberStrand
    <3>2. Subscriber => OnSubscriberStrand
      BY DEF Subscriber, BeginUpdate, BeginRead, ReadPrice, ReadQty, EndRead
    <3>. QED
      BY <3>1, <3>2
  <2>4. UNCHANGED vars => UNCHANGED listener
    BY DEF vars
  <2>. QED
    BY <2>1, <2>2, <2>3, <2>4 DEF Next
<1>. QED
  BY <1>1, <1>2, ExchangeStep, ListenerStep

\* A run of ProcessQueue that ends early, at a message that does not parse, leaves no message
\* in the queue for which no other run is due (bybit/response_queue_listener, listener.h:36
\* to 57).
THEOREM NothingLeftBehind == Spec => []NoMessageLeftBehind
<1>1. Inv => NoMessageLeftBehind
  BY DEF Inv
<1>. QED
  BY <1>1, InitInv, NextInv, PTL DEF Spec

-----------------------------------------------------------------------------
(* Induction, with sets for predicates, and finite sets.                   *)

\* A set of numbers has a least one.
LEMMA LeastNat ==
  ASSUME NEW T \in SUBSET Nat, T # {}
  PROVE  \E x \in T : \A y \in T : x <= y
<1>. DEFINE R == FS!OpToRel(<, Nat)
<1>1. FS!IsWellFoundedOn(R, Nat)
  BY FS!NatLessThanWellFounded
<1>2. \A x, y \in Nat : <<y, x>> \in R <=> y < x
  <2>. TAKE x, y \in Nat
  <2>1. <<y, x>> \in Nat \X Nat
    OBVIOUS
  <2>. QED
    BY <2>1 DEF FS!OpToRel
<1>. HIDE DEF R
<1>3. PICK x \in T : \A y \in T : ~(<<y, x>> \in R)
  BY <1>1, FS!WFMin
<1>4. ASSUME NEW y \in T PROVE x <= y
  <2>1. ~(y < x) /\ x \in Nat /\ y \in Nat
    BY <1>2, <1>3
  <2>. QED
    BY <2>1
<1>. QED
  BY <1>4

\* What holds of 0 and is passed on up to n holds up to n.
LEMMA UpTo ==
  ASSUME NEW n \in Nat, NEW T, 0 \in T, \A i \in 1 .. n : i - 1 \in T => i \in T
  PROVE  \A i \in 0 .. n : i \in T
<1>. DEFINE Bad == {i \in 0 .. n : i \notin T}
<1>1. Bad \in SUBSET Nat
  OBVIOUS
<1>. SUFFICES ASSUME Bad # {} PROVE FALSE
  OBVIOUS
<1>2. PICK x \in Bad : \A y \in Bad : x <= y
  <2>. HIDE DEF Bad
  <2>. QED
    BY <1>1, LeastNat
<1>3. x \in 1 .. n /\ x - 1 \in 0 .. n /\ ~(x <= x - 1)
  BY <1>2
<1>4. x - 1 \in T
  BY <1>2, <1>3
<1>. QED
  BY <1>2, <1>3, <1>4

\* Finite sets, and their sizes, are those of the library's theorems.
LEMMA SameFinite == ASSUME NEW S PROVE IsFiniteSet(S) <=> FS!IsFiniteSet(S)
BY DEF IsFiniteSet, FS!IsFiniteSet

\* Cardinality is that of the library's instance.
LEMMA SameCardinality == ASSUME NEW S PROVE Cardinality(S) = FS!Cardinality(S)
BY DEF Cardinality, FS!Cardinality

\* A part of a finite set is finite.
LEMMA Part ==
  ASSUME NEW S, IsFiniteSet(S), NEW T \in SUBSET S
  PROVE  IsFiniteSet(T)
BY SameFinite, FS!FS_Subset

\* The cardinality of a finite set is a number, and zero for the empty one only.
LEMMA Count ==
  ASSUME NEW S, IsFiniteSet(S)
  PROVE  Cardinality(S) \in Nat /\ (Cardinality(S) = 0 <=> S = {})
<1>1. FS!Cardinality(S) \in Nat
  BY SameFinite, FS!FS_CardinalityType
<1>2. FS!Cardinality(S) = 0 <=> S = {}
  BY SameFinite, FS!FS_EmptySet
<1>. QED
  BY <1>1, <1>2, SameCardinality

\* A set with one more member.
LEMMA OneMore ==
  ASSUME NEW S, IsFiniteSet(S), NEW x
  PROVE  /\ IsFiniteSet(S \cup {x})
         /\ x \notin S => Cardinality(S \cup {x}) = Cardinality(S) + 1
<1>1. /\ FS!IsFiniteSet(S \cup {x})
      /\ x \notin S => FS!Cardinality(S \cup {x}) = FS!Cardinality(S) + 1
  BY SameFinite, FS!FS_AddElement
<1>. QED
  BY <1>1, SameFinite, SameCardinality

\* The image of a finite set is finite.
LEMMA ImageFinite ==
  ASSUME NEW S, IsFiniteSet(S), NEW f
  PROVE  IsFiniteSet({f[x] : x \in S})
<1>. DEFINE T == {f[x] : x \in S}
            g == [x \in S |-> f[x]]
<1>1. g \in FS!Surjection(S, T)
  BY DEF FS!Surjection
<1>. HIDE DEF T, g
<1>2. FS!IsFiniteSet(T)
  BY <1>1, SameFinite, FS!FS_Surjection
<1>. QED
  BY <1>2, SameFinite DEF T

\* What holds of the empty set and of every set that is a member of T when it is without one
\* of its elements holds of a finite set.
LEMMA BySize ==
  ASSUME NEW S, IsFiniteSet(S), NEW P, {} \in P,
         \A T \in SUBSET S : T # {} => \E x \in T : T \ {x} \in P => T \in P
  PROVE  S \in P
<1>. DEFINE Bad == {T \in SUBSET S : T \notin P}
            Sizes == {Cardinality(T) : T \in Bad}
<1>. SUFFICES ASSUME Bad # {} PROVE FALSE
  OBVIOUS
<1>1. \A T \in SUBSET S : IsFiniteSet(T) /\ Cardinality(T) \in Nat
  BY Part, Count
<1>2. Sizes \in SUBSET Nat /\ Sizes # {}
  BY <1>1
<1>3. PICK n \in Sizes : \A m \in Sizes : n <= m
  <2>. HIDE DEF Sizes
  <2>. QED
    BY <1>2, LeastNat
<1>4. PICK T \in Bad : Cardinality(T) = n
  OBVIOUS
<1>5. T # {}
  BY <1>4
<1>6. PICK x \in T : T \ {x} \in P => T \in P
  BY <1>4, <1>5
<1>7. T \ {x} \in Bad
  BY <1>4, <1>6
<1>8. IsFiniteSet(T \ {x}) /\ Cardinality(T \ {x}) \in Nat
  BY <1>1, <1>7
<1>9. Cardinality(T) = Cardinality(T \ {x}) + 1
  <2>1. x \notin T \ {x} /\ (T \ {x}) \cup {x} = T
    BY <1>6
  <2>2. Cardinality((T \ {x}) \cup {x}) = Cardinality(T \ {x}) + 1
    BY <1>8, <2>1, OneMore
  <2>. QED
    BY <2>1, <2>2
<1>10. n <= Cardinality(T \ {x})
  BY <1>3, <1>7
<1>. QED
  BY <1>4, <1>8, <1>9, <1>10

\* A finite set whose elements have different keys has an element of the least one ...
LEMMA LeastKey ==
  ASSUME NEW S, IsFiniteSet(S), S # {}, NEW key, \A x \in S : key[x] \in Int
  PROVE  \E w \in S : \A x \in S : key[w] <= key[x]
<1>. DEFINE P == {T \in SUBSET S : T # {} => \E w \in T : \A x \in T : key[w] <= key[x]}
<1>1. {} \in P
  OBVIOUS
<1>2. ASSUME NEW T \in SUBSET S, T # {} PROVE \E x \in T : T \ {x} \in P => T \in P
  <2>1. PICK y \in T : TRUE
    BY <1>2
  <2>. SUFFICES ASSUME T \ {y} \in P PROVE \E w \in T : \A x \in T : key[w] <= key[x]
    BY <2>1
  <2>2. CASE T \ {y} = {}
    BY <2>2
  <2>3. CASE T \ {y} # {}
    <3>1. PICK w \in T \ {y} : \A x \in T \ {y} : key[w] <= key[x]
      BY <2>3
    <3>2. key[w] \in Int /\ key[y] \in Int /\ \A x \in T : key[x] \in Int
      OBVIOUS
    <3>3. key[w] <= key[y] \/ key[y] <= key[w]
      BY <3>2
    <3>4. key[y] <= key[w] => \A x \in T : key[y] <= key[x]
      BY <3>1, <3>2
    <3>. QED
      BY <3>1, <3>3, <3>4
  <2>. QED
    BY <2>2, <2>3
<1>3. S \in P
  <2>. HIDE DEF P
  <2>. QED
    BY <1>1, <1>2, BySize
<1>. QED
  BY <1>3

\* ... and can be sorted by them.
Sorts(f, T, key) ==
  /\ f \in [1 .. Cardinality(T) -> T]
  /\ \A i, j \in 1 .. Cardinality(T) : i < j => key[f[i]] > key[f[j]]
  /\ \A x \in T : \E i \in 1 .. Cardinality(T) : f[i] = x

\* A finite set whose members have different keys can be sorted by them.
LEMMA Sortable ==
  ASSUME NEW S, IsFiniteSet(S), NEW key, \A x \in S : key[x] \in Int,
         \A x, y \in S : key[x] = key[y] => x = y
  PROVE  \E f : Sorts(f, S, key)
<1>. DEFINE P == {T \in SUBSET S : \E f : Sorts(f, T, key)}
<1>1. {} \in P
  <2>. DEFINE f == [i \in 1 .. 0 |-> {}]
  <2>1. Cardinality({}) = 0
    BY Count, Part
  <2>2. Sorts(f, {}, key)
    BY <2>1 DEF Sorts
  <2>. QED
    BY <2>2
<1>2. ASSUME NEW T \in SUBSET S, T # {} PROVE \E x \in T : T \ {x} \in P => T \in P
  <2>0. IsFiniteSet(T)
    BY Part
  <2>1. PICK w \in T : \A x \in T : key[w] <= key[x]
    BY <1>2, <2>0, LeastKey
  <2>. SUFFICES ASSUME T \ {w} \in P PROVE \E f : Sorts(f, T, key)
    BY <2>1
  <2>2. PICK f : Sorts(f, T \ {w}, key)
    OBVIOUS
  <2>. DEFINE n == Cardinality(T \ {w})
  <2>3. n \in Nat /\ Cardinality(T) = n + 1
    <3>1. IsFiniteSet(T \ {w}) /\ (T \ {w}) \cup {w} = T /\ w \notin T \ {w}
      BY <2>0, Part
    <3>2. Cardinality((T \ {w}) \cup {w}) = n + 1
      BY <3>1, OneMore
    <3>3. n \in Nat
      BY <3>1, Count
    <3>. QED
      BY <3>1, <3>2, <3>3
  <2>4. /\ f \in [1 .. n -> T \ {w}] /\ \A i, j \in 1 .. n : i < j => key[f[i]] > key[f[j]]
        /\ \A x \in T \ {w} : \E i \in 1 .. n : f[i] = x
    BY <2>2 DEF Sorts
  <2>. HIDE DEF n
  <2>. DEFINE g == [i \in 1 .. n + 1 |-> IF i = n + 1 THEN w ELSE f[i]]
  <2>5. /\ g[n + 1] = w
        /\ \A i \in 1 .. n : i \in 1 .. n + 1 /\ g[i] = f[i] /\ f[i] \in T \ {w}
        /\ \A i \in 1 .. n + 1 : i \in 1 .. n \/ i = n + 1
    BY <2>3, <2>4
  <2>6. g \in [1 .. n + 1 -> T]
    BY <2>3, <2>4
  <2>. HIDE DEF g
  <2>7. \A i \in 1 .. n : key[f[i]] > key[w]
    <3>. SUFFICES ASSUME NEW i \in 1 .. n PROVE key[f[i]] > key[w]
      OBVIOUS
    <3>1. f[i] \in T /\ f[i] # w /\ f[i] \in S /\ w \in S
      BY <2>5
    <3>2. key[w] <= key[f[i]] /\ key[w] # key[f[i]] /\ key[w] \in Int /\ key[f[i]] \in Int
      BY <2>1, <3>1
    <3>. QED
      BY <3>2
  <2>8. ASSUME NEW i \in 1 .. n + 1, NEW j \in 1 .. n + 1, i < j PROVE key[g[i]] > key[g[j]]
    <3>1. i \in 1 .. n
      BY <2>3, <2>8
    <3>. QED
      BY <2>4, <2>5, <2>7, <2>8, <3>1
  <2>9. \A x \in T : \E i \in 1 .. n + 1 : g[i] = x
    <3>. SUFFICES ASSUME NEW x \in T PROVE \E i \in 1 .. n + 1 : g[i] = x
      OBVIOUS
    <3>1. n + 1 \in 1 .. n + 1
      BY <2>3
    <3>. QED
      BY <2>4, <2>5, <3>1
  <2>10. Sorts(g, T, key)
    BY <2>3, <2>6, <2>8, <2>9 DEF Sorts
  <2>. QED
    BY <2>10
<1>3. S \in P
  <2>. HIDE DEF P
  <2>. QED
    BY <1>1, <1>2, BySize
<1>. QED
  BY <1>3

-----------------------------------------------------------------------------
(* Lists without repetitions.                                              *)

\* A list, by its positions.
LEMMA Listed ==
  ASSUME NEW s \in Seq(Nat)
  PROVE  /\ Len(s) \in Nat /\ DOMAIN s = 1 .. Len(s)
         /\ \A n : n \in ToSet(s) <=> \E i \in 1 .. Len(s) : s[i] = n
         /\ ToSet(s) \subseteq Nat
         /\ IsInjective(s) <=> \A i, j \in 1 .. Len(s) : s[i] = s[j] => i = j
<1>1. Len(s) \in Nat /\ DOMAIN s = 1 .. Len(s) /\ \A i \in 1 .. Len(s) : s[i] \in Nat
  BY LenProperties
<1>. QED
  BY <1>1 DEF ToSet, IsInjective

\* Two lists without a common member, one after the other.
LEMMA Joined ==
  ASSUME NEW s \in Seq(Nat), NEW t \in Seq(Nat), IsInjective(s), IsInjective(t),
         ToSet(s) \cap ToSet(t) = {}
  PROVE  /\ s \o t \in Seq(Nat) /\ IsInjective(s \o t)
         /\ ToSet(s \o t) = ToSet(s) \cup ToSet(t)
<1>1. /\ s \o t \in Seq(Nat) /\ Len(s \o t) = Len(s) + Len(t)
      /\ Len(s) \in Nat /\ Len(t) \in Nat
      /\ \A i \in 1 .. Len(s) + Len(t) : (s \o t)[i] = IF i <= Len(s) THEN s[i] ELSE t[i - Len(s)]
  BY ConcatProperties, LenProperties
<1>. DEFINE st == s \o t
<1>2. /\ \A i \in 1 .. Len(s) : i \in 1 .. Len(st) /\ st[i] = s[i]
      /\ \A i \in 1 .. Len(t) : i + Len(s) \in 1 .. Len(st) /\ st[i + Len(s)] = t[i]
      /\ \A i \in 1 .. Len(st) : i \in 1 .. Len(s) \/ i - Len(s) \in 1 .. Len(t)
      /\ \A i \in 1 .. Len(st) : i - Len(s) \in 1 .. Len(t) => st[i] = t[i - Len(s)]
  <2>1. \A i \in 1 .. Len(s) : i \in 1 .. Len(s) + Len(t) /\ i <= Len(s)
    BY <1>1
  <2>2. \A i \in 1 .. Len(t) : i + Len(s) \in 1 .. Len(s) + Len(t) /\ ~(i + Len(s) <= Len(s))
                               /\ (i + Len(s)) - Len(s) = i
    BY <1>1
  <2>3. \A i \in 1 .. Len(s) + Len(t) : i \in 1 .. Len(s) \/ i - Len(s) \in 1 .. Len(t)
    BY <1>1
  <2>4. \A i \in 1 .. Len(s) + Len(t) : i - Len(s) \in 1 .. Len(t) => ~(i <= Len(s))
    BY <1>1
  <2>. HIDE DEF st
  <2>5. /\ Len(st) = Len(s) + Len(t)
        /\ \A i \in 1 .. Len(s) + Len(t) : st[i] = IF i <= Len(s) THEN s[i] ELSE t[i - Len(s)]
    BY <1>1 DEF st
  <2>. QED
    BY <2>1, <2>2, <2>3, <2>4, <2>5
<1>. HIDE DEF st
<1>3. st \in Seq(Nat)
  BY <1>1 DEF st
<1>4. ToSet(st) = ToSet(s) \cup ToSet(t)
  <2>1. \A n : n \in ToSet(st) <=> \E i \in 1 .. Len(st) : st[i] = n
    BY <1>3, Listed
  <2>2. \A n : n \in ToSet(s) <=> \E i \in 1 .. Len(s) : s[i] = n
    BY Listed
  <2>3. \A n : n \in ToSet(t) <=> \E i \in 1 .. Len(t) : t[i] = n
    BY Listed
  <2>4. \A n : n \in ToSet(st) => n \in ToSet(s) \/ n \in ToSet(t)
    <3>. SUFFICES ASSUME NEW i \in 1 .. Len(st) PROVE st[i] \in ToSet(s) \/ st[i] \in ToSet(t)
      BY <2>1
    <3>1. CASE i \in 1 .. Len(s)
      BY <1>2, <2>2, <3>1
    <3>2. CASE i - Len(s) \in 1 .. Len(t)
      BY <1>2, <2>3, <3>2
    <3>. QED
      BY <1>2, <3>1, <3>2
  <2>5. \A n : n \in ToSet(s) => n \in ToSet(st)
    BY <1>2, <2>1, <2>2
  <2>6. \A n : n \in ToSet(t) => n \in ToSet(st)
    BY <1>2, <2>1, <2>3
  <2>. QED
    BY <2>4, <2>5, <2>6
<1>5. IsInjective(st)
  <2>. SUFFICES ASSUME NEW i \in 1 .. Len(st), NEW j \in 1 .. Len(st), st[i] = st[j]
                PROVE  i = j
    BY <1>3, Listed
  <2>0. /\ \A a, b \in 1 .. Len(s) : s[a] = s[b] => a = b
        /\ \A a, b \in 1 .. Len(t) : t[a] = t[b] => a = b
        /\ \A a \in 1 .. Len(s), b \in 1 .. Len(t) : s[a] # t[b]
    <3>1. \A a \in 1 .. Len(s) : s[a] \in ToSet(s)
      BY Listed
    <3>2. \A b \in 1 .. Len(t) : t[b] \in ToSet(t)
      BY Listed
    <3>. QED
      BY <3>1, <3>2, Listed
  <2>1. CASE i \in 1 .. Len(s) /\ j \in 1 .. Len(s)
    BY <1>2, <2>0, <2>1
  <2>2. CASE i - Len(s) \in 1 .. Len(t) /\ j - Len(s) \in 1 .. Len(t)
    <3>1. i - Len(s) = j - Len(s)
      BY <1>2, <2>0, <2>2
    <3>. QED
      BY <1>1, <3>1
  <2>3. CASE i \in 1 .. Len(s) /\ j - Len(s) \in 1 .. Len(t)
    BY <1>2, <2>0, <2>3
  <2>4. CASE i - Len(s) \in 1 .. Len(t) /\ j \in 1 .. Len(s)
    BY <1>2, <2>0, <2>4
  <2>. QED
    BY <1>2, <2>1, <2>2, <2>3, <2>4
<1>. QED
  BY <1>3, <1>4, <1>5 DEF st

\* A list of one.
LEMMA One ==
  ASSUME NEW n \in Nat
  PROVE  <<n>> \in Seq(Nat) /\ IsInjective(<<n>>) /\ ToSet(<<n>>) = {n}
<1>. DEFINE s == <<n>>
<1>1. s \in Seq(Nat) /\ Len(s) = 1 /\ s[1] = n
  OBVIOUS
<1>. HIDE DEF s
<1>2. \A i \in 1 .. Len(s) : i = 1
  BY <1>1
<1>3. IsInjective(s)
  BY <1>1, <1>2, Listed
<1>4. \A x : x \in ToSet(s) <=> \E i \in 1 .. Len(s) : s[i] = x
  BY <1>1, Listed
<1>5. 1 \in 1 .. Len(s)
  BY <1>1
<1>6. ToSet(s) = {n}
  BY <1>1, <1>2, <1>4, <1>5
<1>. QED
  BY <1>1, <1>3, <1>6 DEF s

\* A list without its first member.
LEMMA Popped ==
  ASSUME NEW s \in Seq(Nat), s # << >>, IsInjective(s)
  PROVE  /\ Tail(s) \in Seq(Nat) /\ IsInjective(Tail(s)) /\ Head(s) \in ToSet(s)
         /\ ToSet(Tail(s)) = ToSet(s) \ {Head(s)}
<1>1. /\ Tail(s) \in Seq(Nat) /\ Len(Tail(s)) = Len(s) - 1 /\ Len(s) \in Nat \ {0}
      /\ \A i \in 1 .. Len(s) - 1 : Tail(s)[i] = s[i + 1]
      /\ Head(s) = s[1]
  BY HeadTailProperties, EmptySeq
<1>. DEFINE t == Tail(s)
            n == Len(s)
<1>2. t \in Seq(Nat) /\ Len(t) = n - 1 /\ n \in Nat \ {0} /\ \A i \in 1 .. n - 1 : t[i] = s[i + 1]
  BY <1>1
<1>. HIDE DEF t, n
<1>3. \A i, j \in 1 .. n : s[i] = s[j] => i = j
  BY Listed DEF n
<1>4. IsInjective(t)
  <2>1. \A i \in 1 .. n - 1 : i + 1 \in 1 .. n
    BY <1>2
  <2>2. \A i, j \in 1 .. n - 1 : t[i] = t[j] => i + 1 = j + 1
    BY <1>2, <1>3, <2>1
  <2>3. \A i, j \in 1 .. n - 1 : t[i] = t[j] => i = j
    BY <2>2
  <2>. QED
    BY <1>2, <2>3, Listed
<1>5. \A x : x \in ToSet(s) <=> \E i \in 1 .. n : s[i] = x
  BY Listed DEF n
<1>6. \A x : x \in ToSet(t) <=> \E i \in 1 .. n - 1 : t[i] = x
  BY <1>2, Listed
<1>7. 1 \in 1 .. n /\ Head(s) = s[1]
  BY <1>1, <1>2
<1>8. \A x \in ToSet(t) : x \in ToSet(s) /\ x # s[1]
  <2>. SUFFICES ASSUME NEW i \in 1 .. n - 1 PROVE t[i] \in ToSet(s) /\ t[i] # s[1]
    BY <1>6
  <2>1. i + 1 \in 1 .. n /\ i + 1 # 1 /\ t[i] = s[i + 1]
    BY <1>2
  <2>. QED
    BY <1>3, <1>5, <1>7, <2>1
<1>9. \A x \in ToSet(s) : x # s[1] => x \in ToSet(t)
  <2>. SUFFICES ASSUME NEW i \in 1 .. n, s[i] # s[1] PROVE s[i] \in ToSet(t)
    BY <1>5
  <2>1. i - 1 \in 1 .. n - 1 /\ (i - 1) + 1 = i
    BY <1>2
  <2>2. t[i - 1] = s[i]
    BY <1>2, <2>1
  <2>. QED
    BY <1>6, <2>1, <2>2
<1>. QED
  BY <1>2, <1>4, <1>5, <1>7, <1>8, <1>9 DEF t

\* A list backwards has the same members.
LEMMA Reversed ==
  ASSUME NEW s \in Seq(Nat), IsInjective(s)
  PROVE  Reverse(s) \in Seq(Nat) /\ IsInjective(Reverse(s)) /\ ToSet(Reverse(s)) = ToSet(s)
<1>. DEFINE n == Len(s)
            t == [i \in 1 .. n |-> s[(n - i) + 1]]
<1>1. n \in Nat /\ \A i \in 1 .. n : s[i] \in Nat
  BY LenProperties
<1>2. \A i \in 1 .. n : (n - i) + 1 \in 1 .. n /\ (n - ((n - i) + 1)) + 1 = i
  BY <1>1
<1>3. t \in [1 .. n -> Nat] /\ \A i \in 1 .. n : t[i] = s[(n - i) + 1]
  BY <1>1, <1>2
<1>4. Reverse(s) = t
  BY DEF Reverse
<1>. HIDE DEF t, n
<1>5. t \in Seq(Nat) /\ Len(t) = n
  BY <1>1, <1>3
<1>6. \A i, j \in 1 .. n : s[i] = s[j] => i = j
  BY Listed DEF n
<1>7. \A i, j \in 1 .. n : t[i] = t[j] => i = j
  <2>. SUFFICES ASSUME NEW i \in 1 .. n, NEW j \in 1 .. n, t[i] = t[j] PROVE i = j
    OBVIOUS
  <2>1. (n - i) + 1 = (n - j) + 1
    BY <1>2, <1>3, <1>6
  <2>. QED
    BY <1>1, <2>1
<1>8. \A x : (\E i \in 1 .. n : t[i] = x) <=> (\E i \in 1 .. n : s[i] = x)
  <2>1. \A i \in 1 .. n : t[i] = s[(n - i) + 1] /\ s[i] = t[(n - i) + 1]
    BY <1>2, <1>3
  <2>. QED
    BY <1>2, <2>1
<1>9. IsInjective(t)
  BY <1>5, <1>7, Listed
<1>10. \A x : x \in ToSet(t) <=> \E i \in 1 .. n : t[i] = x
  BY <1>5, Listed
<1>11. \A x : x \in ToSet(s) <=> \E i \in 1 .. n : s[i] = x
  BY Listed DEF n
<1>12. ToSet(t) = ToSet(s)
  BY <1>8, <1>10, <1>11
<1>. QED
  BY <1>4, <1>5, <1>9, <1>12

-----------------------------------------------------------------------------
(* A side of the book.                                                     *)

LevelRecords == [price : Nat, qty : Nat]

SideTypes(s) ==
  /\ s = [index |-> s.index, tree |-> s.tree, level |-> s.level, free |-> s.free]
  /\ s.level \in Seq(LevelRecords) /\ s.free \in Seq(Nat)
  /\ IsFiniteSet(DOMAIN s.index) /\ DOMAIN s.index \subseteq Nat
  /\ s.index \in [DOMAIN s.index -> 1 .. Len(s.level)]

GoodSide(s) == SideTypes(s) /\ SideAgrees(s)

\* Every price has a block of its own.
LEMMA OwnBlocks ==
  ASSUME NEW s, GoodSide(s)
  PROVE  /\ Len(s.level) \in Nat /\ DOMAIN s.level = 1 .. Len(s.level)
         /\ \A n \in 1 .. Len(s.level) : s.level[n] \in LevelRecords
         /\ \A p \in DOMAIN s.index : s.index[p] \in 1 .. Len(s.level)
         /\ \A p, r \in DOMAIN s.index : s.index[p] = s.index[r] => p = r
         /\ \A n \in s.tree : /\ n \in 1 .. Len(s.level) /\ s.level[n].price \in DOMAIN s.index
                              /\ s.index[s.level[n].price] = n
         /\ \A m, n \in s.tree : s.level[m].price = s.level[n].price => m = n
         /\ IsFiniteSet(s.tree) /\ Cardinality(s.tree) \in Nat
         /\ Cardinality(s.tree) = 0 <=> s.tree = {}
<1>1. Len(s.level) \in Nat /\ DOMAIN s.level = 1 .. Len(s.level)
      /\ \A n \in 1 .. Len(s.level) : s.level[n] \in LevelRecords
  BY LenProperties DEF GoodSide, SideTypes
<1>2. \A p \in DOMAIN s.index : s.index[p] \in 1 .. Len(s.level) /\ s.level[s.index[p]].price = p
  BY DEF GoodSide, SideTypes, SideAgrees
<1>3. s.tree = {s.index[p] : p \in DOMAIN s.index}
  BY DEF GoodSide, SideAgrees
<1>4. IsFiniteSet(s.tree)
  BY <1>3, ImageFinite DEF GoodSide, SideTypes
<1>5. Cardinality(s.tree) \in Nat /\ (Cardinality(s.tree) = 0 <=> s.tree = {})
  BY <1>4, Count
<1>6. \A p, r \in DOMAIN s.index : s.index[p] = s.index[r] => p = r
  BY <1>2
<1>7. \A n \in s.tree : /\ n \in 1 .. Len(s.level) /\ s.level[n].price \in DOMAIN s.index
                        /\ s.index[s.level[n].price] = n
  BY <1>2, <1>3
<1>8. \A m, n \in s.tree : s.level[m].price = s.level[n].price => m = n
  BY <1>7
<1>. QED
  BY <1>1, <1>2, <1>4, <1>5, <1>6, <1>7, <1>8

\* The blocks of a side, sorted: every block once, best price first.
LEMMA OrderedIs ==
  ASSUME NEW s, GoodSide(s), NEW side \in Sides
  PROVE  /\ Ordered(side, s) \in [1 .. Cardinality(s.tree) -> s.tree]
         /\ \A i, j \in 1 .. Cardinality(s.tree) : i < j =>
              Better(side, s.level[Ordered(side, s)[i]].price, s.level[Ordered(side, s)[j]].price)
         /\ \A i, j \in 1 .. Cardinality(s.tree) :
              Ordered(side, s)[i] = Ordered(side, s)[j] => i = j
         /\ \A n \in s.tree : \E i \in 1 .. Cardinality(s.tree) : Ordered(side, s)[i] = n
<1>. DEFINE N == Cardinality(s.tree)
            price(n) == s.level[n].price
            key == [n \in s.tree |-> IF side = "bid" THEN price(n) ELSE -price(n)]
            Is(f) == /\ f \in [1 .. N -> s.tree]
                     /\ \A i, j \in 1 .. N : i < j => Better(side, price(f[i]), price(f[j]))
            o == Ordered(side, s)
<1>1. /\ IsFiniteSet(s.tree) /\ N \in Nat
      /\ \A n \in s.tree : price(n) \in Nat
      /\ \A m, n \in s.tree : price(m) = price(n) => m = n
  BY OwnBlocks DEF LevelRecords
<1>2. /\ \A n \in s.tree : key[n] \in Int
      /\ \A m, n \in s.tree : key[m] = key[n] => m = n
      /\ \A m, n \in s.tree : key[m] > key[n] => Better(side, price(m), price(n))
  <2>1. \A n \in s.tree : key[n] = IF side = "bid" THEN price(n) ELSE -price(n)
    OBVIOUS
  <2>. HIDE DEF key, price
  <2>. QED
    BY <1>1, <2>1 DEF Better
<1>. HIDE DEF key
<1>3. PICK f : Sorts(f, s.tree, key)
  BY <1>1, <1>2, Sortable
<1>4. Is(f)
  BY <1>2, <1>3 DEF Sorts
<1>5. o = CHOOSE g \in [1 .. N -> s.tree] :
            \A i, j \in DOMAIN g : i < j => Better(side, price(g[i]), price(g[j]))
  BY DEF Ordered
<1>6. Is(o)
  <2>. DEFINE Q(g) == \A i, j \in DOMAIN g : i < j => Better(side, price(g[i]), price(g[j]))
  <2>1. f \in [1 .. N -> s.tree] /\ Q(f)
    BY <1>4
  <2>2. o = CHOOSE g \in [1 .. N -> s.tree] : Q(g)
    BY <1>5
  <2>. HIDE DEF Q, o
  <2>3. o \in [1 .. N -> s.tree] /\ Q(o)
    BY <2>1, <2>2
  <2>. QED
    BY <2>3 DEF Q
<1>. HIDE DEF o
<1>7. \A i, j \in 1 .. N : o[i] = o[j] => i = j
  <2>. SUFFICES ASSUME NEW i \in 1 .. N, NEW j \in 1 .. N, o[i] = o[j], i # j PROVE FALSE
    OBVIOUS
  <2>1. \A n \in s.tree : ~Better(side, price(n), price(n))
    <3>. HIDE DEF price
    <3>. QED
      BY <1>1 DEF Better
  <2>2. i < j \/ j < i
    BY <1>1
  <2>. QED
    BY <1>6, <2>1, <2>2
<1>8. \A n \in s.tree : \E i \in 1 .. N : o[i] = n
  <2>1. o \in FS!Injection(1 .. N, s.tree)
    BY <1>6, <1>7 DEF FS!Injection, FS!IsInjective
  <2>2. PICK n \in Int : n = 1
    OBVIOUS
  <2>3. FS!Cardinality(n .. N) = N
    <3>1. FS!Cardinality(n .. N) = IF n > N THEN 0 ELSE N - n + 1
      BY <1>1, FS!FS_Interval
    <3>. QED
      BY <1>1, <2>2, <3>1
  <2>4. FS!Cardinality(1 .. N) = FS!Cardinality(s.tree)
    BY <2>2, <2>3, SameCardinality
  <2>5. FS!IsFiniteSet(s.tree)
    BY <1>1, SameFinite
  <2>6. o \in FS!Surjection(1 .. N, s.tree)
    BY <2>1, <2>4, <2>5, FS!FS_Injection
  <2>. QED
    BY <2>6 DEF FS!Surjection
<1>. QED
  BY <1>6, <1>7, <1>8 DEF o

\* What a block stores replaces what was there; a block behind the last is a new one.
LEMMA StoredIs ==
  ASSUME NEW s, SideTypes(s), NEW n \in 1 .. Len(s.level) + 1,
         NEW price \in Nat, NEW qty \in Nat
  PROVE  /\ Stored(s, n, price, qty) \in Seq(LevelRecords)
         /\ Len(Stored(s, n, price, qty)) = IF n > Len(s.level) THEN n ELSE Len(s.level)
         /\ Stored(s, n, price, qty)[n] = [price |-> price, qty |-> qty]
         /\ \A k \in 1 .. Len(s.level) : k # n => Stored(s, n, price, qty)[k] = s.level[k]
<1>. DEFINE N == IF n > Len(s.level) THEN n ELSE Len(s.level)
            rec == [price |-> price, qty |-> qty]
            f == [k \in 1 .. N |-> IF k = n THEN rec ELSE s.level[k]]
<1>1. /\ Len(s.level) \in Nat /\ N \in Nat /\ n \in 1 .. N
      /\ \A k \in 1 .. N : k # n => k \in 1 .. Len(s.level)
      /\ \A k \in 1 .. Len(s.level) : k \in 1 .. N /\ s.level[k] \in LevelRecords
  BY LenProperties DEF SideTypes
<1>2. rec \in LevelRecords
  BY DEF LevelRecords
<1>3. Stored(s, n, price, qty) = f
  BY DEF Stored
<1>. HIDE DEF N, rec
<1>4. f \in [1 .. N -> LevelRecords] /\ f[n] = rec
      /\ \A k \in 1 .. Len(s.level) : k # n => f[k] = s.level[k]
  BY <1>1, <1>2
<1>. HIDE DEF f
<1>5. f \in Seq(LevelRecords) /\ Len(f) = N
  BY <1>1, <1>4
<1>. QED
  BY <1>3, <1>4, <1>5 DEF N, rec

\* A quantity for a price that is there, or a new level.
LEMMA LevelAdded ==
  ASSUME NEW s, GoodSide(s), NEW price \in Nat, NEW qty \in Nat \ {0}
  PROVE  /\ GoodSide(AddLevel(s, price, qty))
         /\ Contents(AddLevel(s, price, qty)) =
              [p \in DOMAIN s.index \cup {price} |-> IF p = price THEN qty ELSE Contents(s)[p]]
<1>. DEFINE S == AddLevel(s, price, qty)
            L == Len(s.level)
<1>1. SideTypes(s) /\ SideAgrees(s) /\ L \in Nat
  BY OwnBlocks DEF GoodSide
<1>2. /\ \A p \in DOMAIN s.index : s.level[s.index[p]].price = p /\ s.level[s.index[p]].qty > 0
      /\ s.tree = {s.index[p] : p \in DOMAIN s.index}
      /\ IsInjective(s.free) /\ ToSet(s.free) = (1 .. L) \ s.tree
      /\ s.free \in Seq(Nat)
      /\ \A p \in DOMAIN s.index : s.index[p] \in 1 .. L
      /\ \A p, r \in DOMAIN s.index : s.index[p] = s.index[r] => p = r
      /\ \A n \in s.tree : n \in 1 .. L
  BY <1>1, OwnBlocks DEF SideAgrees, SideTypes
<1>3. \A p \in DOMAIN s.index : Contents(s)[p] = s.level[s.index[p]].qty
  BY DEF Contents
<1>4. CASE price \in DOMAIN s.index
  <2>. DEFINE n == s.index[price]
              T == Stored(s, n, price, qty)
  <2>1. n \in 1 .. L + 1 /\ ~(n > L) /\ n \in 1 .. L
    BY <1>1, <1>2, <1>4
  <2>2. /\ T \in Seq(LevelRecords) /\ Len(T) = L
        /\ T[n].price = price /\ T[n].qty = qty
        /\ \A k \in 1 .. L : k # n => T[k] = s.level[k]
    <3>. HIDE DEF n
    <3>1. /\ T \in Seq(LevelRecords) /\ Len(T) = IF n > L THEN n ELSE L
          /\ T[n] = [price |-> price, qty |-> qty]
          /\ \A k \in 1 .. L : k # n => T[k] = s.level[k]
      BY <1>1, <2>1, StoredIs
    <3>. HIDE DEF T
    <3>. QED
      BY <2>1, <3>1
  <2>. HIDE DEF T
  <2>3. S = [index |-> s.index, tree |-> s.tree, level |-> T, free |-> s.free]
    <3>1. S = [s EXCEPT !.level = T]
      BY <1>4 DEF AddLevel, T
    <3>. QED
      BY <1>1, <3>1 DEF SideTypes
  <2>. HIDE DEF S
  <2>4. S.index = s.index /\ S.tree = s.tree /\ S.level = T /\ S.free = s.free
    BY <2>3
  <2>5. \A p \in DOMAIN s.index : /\ p = price => s.index[p] = n
                                  /\ p # price => s.index[p] # n /\ s.index[p] \in 1 .. L
    BY <1>2, <1>4
  <2>. HIDE DEF n
  <2>6. \A p \in DOMAIN s.index : /\ T[s.index[p]].price = p /\ T[s.index[p]].qty > 0
                                  /\ T[s.index[p]].qty = IF p = price THEN qty ELSE Contents(s)[p]
    BY <1>2, <1>3, <2>2, <2>5
  <2>7. DOMAIN T = 1 .. L
    BY <2>2, LenProperties
  <2>8. SideTypes(S)
    BY <1>1, <2>2, <2>3, <2>4 DEF SideTypes
  <2>9. SideAgrees(S)
    BY <1>2, <2>4, <2>6, <2>7 DEF SideAgrees
  <2>10. DOMAIN s.index \cup {price} = DOMAIN s.index
    BY <1>4
  <2>11. Contents(S) = [p \in DOMAIN s.index |-> IF p = price THEN qty ELSE Contents(s)[p]]
    BY <2>4, <2>6 DEF Contents
  <2>. QED
    BY <2>8, <2>9, <2>10, <2>11 DEF GoodSide, S
<1>5. CASE price \notin DOMAIN s.index
  <2>. DEFINE b == Block(s)
              T == Stored(s, b, price, qty)
              M == IF b > L THEN b ELSE L
              f == IF s.free = << >> THEN << >> ELSE Tail(s.free)
              D == DOMAIN s.index \cup {price}
              x == [p \in D |-> IF p = price THEN b ELSE s.index[p]]
  <2>1. b \in 1 .. L + 1 /\ b \notin s.tree /\ f \in Seq(Nat) /\ IsInjective(f)
        /\ ToSet(f) = (1 .. M) \ (s.tree \cup {b}) /\ M \in Nat /\ b \in 1 .. M /\ L <= M
    <3>1. CASE s.free = << >>
      <4>1. ToSet(s.free) = {}
        BY <3>1 DEF ToSet
      <4>2. b = L + 1 /\ f = << >> /\ M = L + 1
        BY <1>1, <3>1 DEF Block
      <4>3. (1 .. L) \ s.tree = {}
        BY <1>2, <4>1
      <4>4. (1 .. M) \ (s.tree \cup {b}) = {}
        BY <1>1, <4>2, <4>3
      <4>5. f \in Seq(Nat) /\ IsInjective(f) /\ ToSet(f) = {}
        BY <1>2, <3>1, <4>1, <4>2
      <4>6. b \notin s.tree
        BY <1>1, <1>2, <4>2
      <4>. HIDE DEF b, f, M
      <4>. QED
        BY <1>1, <4>2, <4>4, <4>5, <4>6
    <3>2. CASE s.free # << >>
      <4>1. b = Head(s.free) /\ f = Tail(s.free)
        BY <3>2 DEF Block
      <4>2. /\ f \in Seq(Nat) /\ IsInjective(f)
            /\ b \in ToSet(s.free) /\ ToSet(f) = ToSet(s.free) \ {b}
        BY <1>2, <3>2, <4>1, Popped
      <4>. HIDE DEF b, f
      <4>3. b \in 1 .. L /\ b \notin s.tree
        BY <1>2, <4>2
      <4>4. M = L
        BY <1>1, <4>3
      <4>. QED
        BY <1>1, <1>2, <4>2, <4>3, <4>4
    <3>. QED
      BY <3>1, <3>2
  <2>2. /\ T \in Seq(LevelRecords) /\ Len(T) = M
        /\ T[b].price = price /\ T[b].qty = qty
        /\ \A k \in 1 .. L : k # b => T[k] = s.level[k]
    <3>. HIDE DEF b
    <3>1. /\ T \in Seq(LevelRecords) /\ Len(T) = M
          /\ T[b] = [price |-> price, qty |-> qty]
          /\ \A k \in 1 .. L : k # b => T[k] = s.level[k]
      BY <1>1, <2>1, StoredIs
    <3>. HIDE DEF T
    <3>. QED
      BY <3>1
  <2>3. S = [index |-> x, tree |-> s.tree \cup {b}, level |-> T, free |-> f]
    BY <1>5 DEF AddLevel
  <2>. HIDE DEF S, T, f
  <2>4. S.index = x /\ S.tree = s.tree \cup {b} /\ S.level = T /\ S.free = f
    BY <2>3
  <2>5. DOMAIN x = D /\ x[price] = b /\ \A p \in DOMAIN s.index : p # price /\ x[p] = s.index[p]
    BY <1>5
  <2>6. D \subseteq Nat /\ IsFiniteSet(D)
    BY <1>1, OneMore DEF SideTypes
  <2>7. \A p \in DOMAIN s.index : s.index[p] \in 1 .. M /\ s.index[p] # b /\ s.index[p] \in 1 .. L
    BY <1>1, <1>2, <2>1
  <2>. HIDE DEF b, M, x
  <2>8. x \in [D -> 1 .. M]
    <3>1. \A p \in D : x[p] \in 1 .. M
      BY <2>1, <2>5, <2>7
    <3>. QED
      BY <2>5, <3>1 DEF x
  <2>9. \A p \in D : /\ T[x[p]].price = p /\ T[x[p]].qty > 0
                     /\ T[x[p]].qty = IF p = price THEN qty ELSE Contents(s)[p]
    <3>1. T[x[price]].price = price /\ T[x[price]].qty = qty /\ qty > 0
      BY <2>2, <2>5
    <3>2. \A p \in DOMAIN s.index : T[x[p]] = s.level[s.index[p]] /\ p # price
      BY <2>2, <2>5, <2>7
    <3>. QED
      BY <1>2, <1>3, <3>1, <3>2
  <2>10. {x[p] : p \in D} = s.tree \cup {b}
    <3>1. price \in D /\ \A p \in DOMAIN s.index : p \in D
      OBVIOUS
    <3>2. \A p \in D : p = price \/ p \in DOMAIN s.index
      OBVIOUS
    <3>. HIDE DEF D
    <3>3. \A p \in D : x[p] = b \/ x[p] \in s.tree
      BY <1>2, <2>5, <3>2
    <3>4. \A n \in s.tree : \E p \in D : x[p] = n
      <4>1. \A n \in s.tree : \E p \in DOMAIN s.index : s.index[p] = n
        BY <1>2
      <4>. QED
        BY <2>5, <3>1, <4>1
    <3>5. \E p \in D : x[p] = b
      BY <2>5, <3>1
    <3>6. \A n : n \in {x[p] : p \in D} <=> n \in s.tree \/ n = b
      BY <3>3, <3>4, <3>5
    <3>. HIDE DEF b
    <3>. QED
      BY <3>6
  <2>11. DOMAIN T = 1 .. M
    BY <2>2, LenProperties
  <2>12. SideTypes(S)
    BY <2>1, <2>2, <2>3, <2>4, <2>5, <2>6, <2>8 DEF SideTypes
  <2>13. SideAgrees(S)
    BY <2>1, <2>4, <2>5, <2>9, <2>10, <2>11 DEF SideAgrees
  <2>14. Contents(S) = [p \in D |-> IF p = price THEN qty ELSE Contents(s)[p]]
    BY <2>4, <2>5, <2>9 DEF Contents
  <2>. QED
    BY <2>12, <2>13, <2>14 DEF GoodSide, S
<1>. QED
  BY <1>4, <1>5

\* A level that goes gives its block back.
LEMMA LevelRemoved ==
  ASSUME NEW s, GoodSide(s), NEW price \in Nat
  PROVE  /\ GoodSide(RemoveLevel(s, price))
         /\ Contents(RemoveLevel(s, price)) = [p \in DOMAIN s.index \ {price} |-> Contents(s)[p]]
<1>. DEFINE S == RemoveLevel(s, price)
            L == Len(s.level)
<1>1. SideTypes(s) /\ SideAgrees(s) /\ L \in Nat
  BY OwnBlocks DEF GoodSide
<1>2. /\ \A p \in DOMAIN s.index : s.level[s.index[p]].price = p /\ s.level[s.index[p]].qty > 0
      /\ s.tree = {s.index[p] : p \in DOMAIN s.index}
      /\ IsInjective(s.free) /\ ToSet(s.free) = (1 .. L) \ s.tree
      /\ s.free \in Seq(Nat)
      /\ \A p \in DOMAIN s.index : s.index[p] \in 1 .. L
      /\ \A p, r \in DOMAIN s.index : s.index[p] = s.index[r] => p = r
      /\ DOMAIN s.level = 1 .. L
  BY <1>1, OwnBlocks DEF SideAgrees, SideTypes
<1>3. CASE price \notin DOMAIN s.index
  <2>1. S = s /\ DOMAIN s.index \ {price} = DOMAIN s.index
    BY <1>3 DEF RemoveLevel
  <2>. QED
    BY <2>1 DEF Contents
<1>4. CASE price \in DOMAIN s.index
  <2>. DEFINE b == s.index[price]
              D == DOMAIN s.index \ {price}
              x == [p \in D |-> s.index[p]]
              f == <<b>> \o s.free
  <2>1. S = [index |-> x, tree |-> s.tree \ {b}, level |-> s.level, free |-> f]
    <3>1. S = [s EXCEPT !.index = x, !.tree = s.tree \ {b}, !.free = f]
      BY <1>4 DEF RemoveLevel
    <3>. QED
      BY <1>1, <3>1 DEF SideTypes
  <2>2. b \in 1 .. L /\ b \in s.tree /\ b \in Nat
    BY <1>1, <1>2, <1>4
  <2>3. f \in Seq(Nat) /\ IsInjective(f) /\ ToSet(f) = {b} \cup ToSet(s.free)
    <3>1. b \notin ToSet(s.free)
      BY <1>2, <2>2
    <3>. HIDE DEF b
    <3>2. <<b>> \in Seq(Nat) /\ IsInjective(<<b>>) /\ ToSet(<<b>>) = {b}
      BY <2>2, One
    <3>. HIDE DEF f
    <3>3. ToSet(<<b>>) \cap ToSet(s.free) = {}
      BY <3>1, <3>2
    <3>. QED
      BY <1>2, <3>2, <3>3, Joined DEF f
  <2>4. DOMAIN x = D /\ \A p \in D : x[p] = s.index[p] /\ p \in DOMAIN s.index /\ p # price
    OBVIOUS
  <2>5. \A p \in D : s.index[p] # b
    BY <1>2, <1>4
  <2>. HIDE DEF S, f, x
  <2>6. S.index = x /\ S.tree = s.tree \ {b} /\ S.level = s.level /\ S.free = f
    BY <2>1
  <2>7. {x[p] : p \in D} = s.tree \ {b}
    <3>1. \A p \in D : x[p] \in s.tree \ {b}
      BY <1>2, <2>4, <2>5
    <3>2. \A p \in DOMAIN s.index : p # price => p \in D
      OBVIOUS
    <3>. HIDE DEF D
    <3>3. \A n \in s.tree \ {b} : \E p \in D : x[p] = n
      BY <1>2, <2>4, <3>2
    <3>. QED
      BY <3>1, <3>3
  <2>. HIDE DEF b
  <2>8. IsFiniteSet(D) /\ D \subseteq Nat /\ x \in [D -> 1 .. L]
    BY <1>1, <1>2, <2>4, Part DEF SideTypes, x
  <2>9. SideTypes(S)
    BY <1>1, <2>1, <2>3, <2>4, <2>6, <2>8 DEF SideTypes
  <2>10. ToSet(f) = (1 .. L) \ (s.tree \ {b})
    BY <1>2, <2>2, <2>3
  <2>11. SideAgrees(S)
    <3>. HIDE DEF D
    <3>1. \A p \in D : s.level[x[p]].price = p /\ s.level[x[p]].qty > 0
      BY <1>2, <2>4
    <3>2. /\ S.index = x /\ DOMAIN S.index = D
          /\ S.tree = s.tree \ {b} /\ S.level = s.level /\ S.free = f
      BY <2>4, <2>6
    <3>3. S.tree = {S.index[p] : p \in DOMAIN S.index}
      BY <2>7, <3>2
    <3>4. \A p \in DOMAIN S.index : S.level[S.index[p]].price = p /\ S.level[S.index[p]].qty > 0
      BY <3>1, <3>2
    <3>5. IsInjective(S.free) /\ ToSet(S.free) = DOMAIN S.level \ S.tree
      BY <1>2, <2>3, <2>10, <3>2
    <3>. QED
      BY <3>3, <3>4, <3>5 DEF SideAgrees
  <2>12. Contents(S) = [p \in D |-> Contents(s)[p]]
    BY <2>4, <2>6 DEF Contents
  <2>. QED
    BY <2>9, <2>11, <2>12 DEF GoodSide, S
<1>. QED
  BY <1>3, <1>4

\* A cleared side gives all its blocks back.
LEMMA SideCleared ==
  ASSUME NEW s, GoodSide(s), NEW side \in Sides
  PROVE  /\ GoodSide(ClearSide(side, s))
         /\ DOMAIN ClearSide(side, s).index = {} /\ ClearSide(side, s).tree = {}
<1>. DEFINE S == ClearSide(side, s)
            L == Len(s.level)
            o == Ordered(side, s)
            N == Cardinality(s.tree)
            f == Reverse(o) \o s.free
<1>1. SideTypes(s) /\ L \in Nat /\ DOMAIN s.level = 1 .. L /\ N \in Nat
      /\ IsInjective(s.free) /\ ToSet(s.free) = (1 .. L) \ s.tree /\ s.free \in Seq(Nat)
      /\ \A n \in s.tree : n \in 1 .. L
  BY OwnBlocks DEF GoodSide, SideAgrees, SideTypes
<1>2. o \in Seq(Nat) /\ IsInjective(o) /\ ToSet(o) = s.tree
  <2>1. /\ o \in [1 .. N -> s.tree] /\ \A i, j \in 1 .. N : o[i] = o[j] => i = j
        /\ \A n \in s.tree : \E i \in 1 .. N : o[i] = n
    BY OrderedIs
  <2>. HIDE DEF o, N
  <2>2. o \in Seq(Nat) /\ Len(o) = N
    <3>1. o \in [1 .. N -> Nat]
      BY <1>1, <2>1
    <3>. QED
      BY <1>1, <3>1
  <2>3. IsInjective(o)
    BY <2>1, <2>2, Listed
  <2>4. \A n : n \in ToSet(o) <=> \E i \in 1 .. N : o[i] = n
    BY <2>2, Listed
  <2>5. \A i \in 1 .. N : o[i] \in s.tree
    BY <2>1
  <2>6. ToSet(o) = s.tree
    <3>1. \A n : n \in ToSet(o) => n \in s.tree
      BY <2>4, <2>5
    <3>2. \A n : n \in s.tree => n \in ToSet(o)
      BY <2>1, <2>4
    <3>. QED
      BY <3>1, <3>2
  <2>. QED
    BY <2>2, <2>3, <2>6
<1>3. f \in Seq(Nat) /\ IsInjective(f) /\ ToSet(f) = s.tree \cup ToSet(s.free)
  <2>1. Reverse(o) \in Seq(Nat) /\ IsInjective(Reverse(o)) /\ ToSet(Reverse(o)) = s.tree
    BY <1>2, Reversed
  <2>. QED
    BY <1>1, <2>1, Joined
<1>4. S = [index |-> << >>, tree |-> {}, level |-> s.level, free |-> f]
  <2>1. S = [s EXCEPT !.index = << >>, !.tree = {}, !.free = f]
    BY DEF ClearSide
  <2>. QED
    BY <1>1, <2>1 DEF SideTypes
<1>. HIDE DEF S, f
<1>5. S.index = << >> /\ S.tree = {} /\ S.level = s.level /\ S.free = f /\ DOMAIN S.index = {}
  BY <1>4
<1>6. S.index \in [DOMAIN S.index -> 1 .. L]
  BY <1>5
<1>7. IsFiniteSet(DOMAIN S.index)
  BY <1>5, Part, FS!FS_EmptySet, SameFinite
<1>8. SideTypes(S)
  BY <1>1, <1>3, <1>4, <1>5, <1>6, <1>7 DEF SideTypes
<1>9. SideAgrees(S)
  <2>1. ToSet(f) = 1 .. L
    BY <1>1, <1>3
  <2>2. {S.index[p] : p \in DOMAIN S.index} = {}
    BY <1>5
  <2>. QED
    BY <1>1, <1>3, <1>5, <2>1, <2>2 DEF SideAgrees
<1>. QED
  BY <1>5, <1>8, <1>9 DEF GoodSide, S

-----------------------------------------------------------------------------
(* The exchange's books.                                                   *)

\* One quantity changed, and one change of a book.
ChangeSide(old, price, qty) ==
  [p \in IF qty = 0 THEN DOMAIN old \ {price} ELSE DOMAIN old \cup {price} |->
     IF p = price THEN qty ELSE old[p]]

Change(m, c) == [m EXCEPT ![c.side] = ChangeSide(@, c.price, c.qty)]

\* The last number up to n.
LEMMA LastUpTo ==
  ASSUME NEW n \in Nat \ {0}
  PROVE  Max(1 .. n) = n /\ (1 .. n) \ {n} = 1 .. (n - 1) /\ (1 .. n) # {}
<1>1. n \in 1 .. n /\ \A y \in 1 .. n : n >= y
  OBVIOUS
<1>2. \A x \in 1 .. n : (\A y \in 1 .. n : x >= y) => x = n
  <2>. SUFFICES ASSUME NEW x \in 1 .. n, \A y \in 1 .. n : x >= y PROVE x = n
    OBVIOUS
  <2>1. x >= n /\ x \in Int /\ x <= n
    BY <1>1
  <2>. QED
    BY <2>1
<1>3. Max(1 .. n) = n
  <2>. DEFINE T == 1 .. n
  <2>1. Max(T) = CHOOSE x \in T : \A y \in T : x >= y
    BY DEF Max
  <2>2. n \in T /\ (\A y \in T : n >= y) /\ \A x \in T : (\A y \in T : x >= y) => x = n
    BY <1>1, <1>2
  <2>. HIDE DEF T
  <2>3. Max(T) = n
    BY <2>1, <2>2
  <2>. QED
    BY <2>3 DEF T
<1>. QED
  BY <1>1, <1>3

\* A set of numbers up to n has a last one.
LEMMA LastOf ==
  ASSUME NEW n \in Nat, NEW S \in SUBSET (1 .. n), S # {}
  PROVE  Max(S) \in S /\ \A y \in S : Max(S) >= y
<1>. DEFINE T == {n - x : x \in S}
<1>1. T \in SUBSET Nat /\ T # {}
  <2>1. \A x \in S : x \in 1 .. n /\ n - x \in Nat
    OBVIOUS
  <2>2. PICK x : x \in S
    OBVIOUS
  <2>3. n - x \in T
    BY <2>2
  <2>. QED
    BY <2>1, <2>3
<1>2. PICK t \in T : \A y \in T : t <= y
  <2>. HIDE DEF T
  <2>. QED
    BY <1>1, LeastNat
<1>3. PICK x \in S : t = n - x
  OBVIOUS
<1>4. \A y \in S : x >= y
  <2>. SUFFICES ASSUME NEW y \in S PROVE x >= y
    OBVIOUS
  <2>1. n - x <= n - y
    BY <1>2, <1>3
  <2>. QED
    BY <2>1
<1>5. Max(S) = CHOOSE z \in S : \A y \in S : z >= y
  BY DEF Max
<1>. QED
  BY <1>4, <1>5

\* Changes happen one after the other.
LEMMA ChangedRuns ==
  ASSUME NEW m, NEW cs, NEW n \in Nat, DOMAIN cs = 1 .. n
  PROVE  \E F : /\ F[0] = m /\ F[n] = Changed(m, cs)
                /\ \A i \in 1 .. n : F[i] = Change(F[i - 1], cs[i])
<1>. DEFINE Goes(T, G) == G = [s \in SUBSET T |->
                                 IF s = {} THEN m ELSE Change(G[s \ {Max(s)}], cs[Max(s)])]
            H == CHOOSE G : Goes(1 .. n, G)
            P == {T \in SUBSET (1 .. n) : \E G : Goes(T, G)}
<1>1. Changed(m, cs) = H[1 .. n]
  BY DEF Changed, FoldLeft, MapThenFoldSet, Change, ChangeSide
<1>2. {} \in P
  <2>. DEFINE G == [s \in SUBSET {} |-> m]
  <2>1. Goes({}, G)
    OBVIOUS
  <2>. QED
    BY <2>1
<1>3. ASSUME NEW T \in SUBSET (1 .. n), T # {} PROVE \E x \in T : T \ {x} \in P => T \in P
  <2>. DEFINE x == Max(T)
  <2>1. x \in T /\ \A y \in T : x >= y
    BY <1>3, LastOf
  <2>. SUFFICES ASSUME T \ {x} \in P PROVE T \in P
    BY <2>1
  <2>2. PICK G : Goes(T \ {x}, G)
    OBVIOUS
  <2>3. ASSUME NEW s \in SUBSET T, x \in s PROVE Max(s) = x
    <3>. HIDE DEF x
    <3>1. Max(s) \in s /\ Max(s) >= x
      BY <2>3, LastOf
    <3>2. Max(s) \in T /\ x >= Max(s)
      BY <2>1, <3>1
    <3>3. \A y \in T : y \in Int
      OBVIOUS
    <3>4. x \in Int /\ Max(s) \in Int
      BY <2>1, <3>2, <3>3
    <3>5. PICK y : y = Max(s)
      OBVIOUS
    <3>6. y \in Int /\ y >= x /\ x >= y
      BY <3>1, <3>2, <3>4, <3>5
    <3>7. y = x
      BY <3>4, <3>6
    <3>. QED
      BY <3>5, <3>7
  <2>4. ASSUME NEW s \in SUBSET T, x \notin s
        PROVE  s \in SUBSET (T \ {x}) /\ s \ {Max(s)} \in SUBSET T /\ x \notin s \ {Max(s)}
    BY <2>4
  <2>. HIDE DEF x
  <2>. DEFINE K == [s \in SUBSET T |-> IF x \in s THEN Change(G[s \ {x}], cs[x]) ELSE G[s]]
  <2>5. ASSUME NEW s \in SUBSET T
        PROVE  K[s] = IF s = {} THEN m ELSE Change(K[s \ {Max(s)}], cs[Max(s)])
    <3>1. CASE x \in s
      <4>1. s # {} /\ Max(s) = x /\ s \ {x} \in SUBSET T /\ x \notin s \ {x}
        BY <2>3, <3>1
      <4>2. K[s] = Change(G[s \ {x}], cs[x]) /\ K[s \ {x}] = G[s \ {x}]
        BY <3>1, <4>1
      <4>. HIDE DEF K
      <4>. QED
        BY <4>1, <4>2
    <3>2. CASE x \notin s
      <4>1. /\ s \in SUBSET (T \ {x}) /\ s \ {Max(s)} \in SUBSET T /\ x \notin s \ {Max(s)}
            /\ s \ {Max(s)} \in SUBSET (T \ {x})
        BY <2>4, <3>2
      <4>2. K[s] = G[s] /\ K[s \ {Max(s)}] = G[s \ {Max(s)}]
        BY <3>2, <4>1
      <4>3. G[s] = IF s = {} THEN m ELSE Change(G[s \ {Max(s)}], cs[Max(s)])
        BY <2>2, <4>1
      <4>. HIDE DEF K
      <4>. QED
        BY <4>2, <4>3
    <3>. QED
      BY <3>1, <3>2
  <2>6. Goes(T, K)
    <3>1. K = [s \in SUBSET T |-> K[s]]
      OBVIOUS
    <3>. HIDE DEF K
    <3>. QED
      BY <2>5, <3>1
  <2>. QED
    BY <2>6
<1>4. 1 .. n \in P
  <2>1. IsFiniteSet(1 .. n)
    <3>1. PICK k \in Int : k = 1
      OBVIOUS
    <3>2. FS!IsFiniteSet(k .. n)
      BY FS!FS_Interval
    <3>. QED
      BY <3>1, <3>2, SameFinite
  <2>. HIDE DEF P
  <2>. QED
    BY <1>2, <1>3, <2>1, BySize
<1>5. Goes(1 .. n, H)
  BY <1>4
<1>6. \A s \in SUBSET (1 .. n) :
        H[s] = IF s = {} THEN m ELSE Change(H[s \ {Max(s)}], cs[Max(s)])
  BY <1>5
<1>. HIDE DEF H, P
<1>. DEFINE F == [i \in 0 .. n |-> H[1 .. i]]
<1>7. F[0] = m
  <2>1. 1 .. 0 = {} /\ {} \in SUBSET (1 .. n) /\ F[0] = H[1 .. 0]
    OBVIOUS
  <2>2. H[{}] = m
    BY <1>6, <2>1
  <2>3. F[0] = H[{}]
    BY <2>1
  <2>. HIDE DEF F
  <2>. QED
    BY <2>2, <2>3
<1>8. ASSUME NEW i \in 1 .. n PROVE F[i] = Change(F[i - 1], cs[i])
  <2>0. i \in Nat \ {0}
    OBVIOUS
  <2>1. Max(1 .. i) = i /\ (1 .. i) \ {i} = 1 .. (i - 1) /\ (1 .. i) # {}
    BY <2>0, LastUpTo
  <2>2. F[i] = H[1 .. i] /\ F[i - 1] = H[1 .. (i - 1)] /\ 1 .. i \in SUBSET (1 .. n)
    OBVIOUS
  <2>. HIDE DEF F
  <2>3. H[1 .. i] = Change(H[(1 .. i) \ {Max(1 .. i)}], cs[Max(1 .. i)])
    BY <1>6, <2>1, <2>2
  <2>. QED
    BY <2>1, <2>2, <2>3
<1>9. F[n] = Changed(m, cs)
  BY <1>1
<1>. QED
  BY <1>7, <1>8, <1>9

\* A change is possible in any book.
LEMMA ChangeTyped ==
  ASSUME NEW m, IsMarket(m), NEW c \in LevelChanges
  PROVE  /\ IsMarket(Change(m, c))
         /\ \A s \in Sides :
              Change(m, c)[s] = IF s = c.side THEN ChangeSide(m[s], c.price, c.qty) ELSE m[s]
<1>. DEFINE k == Change(m, c)
<1>1. m = [bid |-> m.bid, ask |-> m.ask] /\ c.side \in Sides /\ c.price \in Nat /\ c.qty \in Nat
  BY DEF IsMarket, LevelChanges
<1>2. k = [bid |-> k.bid, ask |-> k.ask]
      /\ \A s \in Sides : k[s] = IF s = c.side THEN ChangeSide(m[s], c.price, c.qty) ELSE m[s]
  <2>. DEFINE x == ChangeSide(m[c.side], c.price, c.qty)
  <2>1. k = [m EXCEPT ![c.side] = x]
    BY DEF Change
  <2>. HIDE DEF x, k
  <2>2. \A b, a : m = [bid |-> b, ask |-> a] =>
          /\ k = [bid |-> k.bid, ask |-> k.ask]
          /\ \A s \in Sides : k[s] = IF s = c.side THEN x ELSE m[s]
    BY <1>1, <2>1 DEF Sides
  <2>3. k = [bid |-> k.bid, ask |-> k.ask] /\ \A s \in Sides : k[s] = IF s = c.side THEN x ELSE m[s]
    BY <1>1, <2>2
  <2>. QED
    BY <2>3 DEF x
<1>. HIDE DEF k
<1>3. ASSUME NEW s \in Sides
      PROVE  /\ IsFiniteSet(DOMAIN k[s]) /\ DOMAIN k[s] \subseteq Nat
             /\ k[s] \in [DOMAIN k[s] -> Nat \ {0}]
  <2>1. PICK old : old = m[s]
    OBVIOUS
  <2>2. IsFiniteSet(DOMAIN old) /\ DOMAIN old \subseteq Nat /\ old \in [DOMAIN old -> Nat \ {0}]
    BY <2>1 DEF IsMarket
  <2>. DEFINE D == IF c.qty = 0 THEN DOMAIN old \ {c.price} ELSE DOMAIN old \cup {c.price}
              x == [p \in D |-> IF p = c.price THEN c.qty ELSE old[p]]
  <2>3. IsFiniteSet(D) /\ D \subseteq Nat
    BY <1>1, <2>2, OneMore, Part
  <2>4. \A p \in D : p # c.price => p \in DOMAIN old
    OBVIOUS
  <2>5. c.qty = 0 => c.price \notin D
    OBVIOUS
  <2>. HIDE DEF D
  <2>6. x \in [D -> Nat \ {0}] /\ DOMAIN x = D
    BY <1>1, <2>2, <2>4, <2>5
  <2>7. ChangeSide(old, c.price, c.qty) = x
    BY DEF ChangeSide, D
  <2>. HIDE DEF x
  <2>8. k[s] = x \/ k[s] = old
    BY <1>2, <2>1, <2>7
  <2>. QED
    BY <2>2, <2>3, <2>6, <2>8
<1>. QED
  BY <1>2, <1>3 DEF IsMarket, k

\* An event makes a book of a book.
LEMMA ChangedTyped ==
  ASSUME NEW m, IsMarket(m), NEW cs \in Seq(LevelChanges)
  PROVE  IsMarket(Changed(m, cs))
<1>. DEFINE n == Len(cs)
<1>1. n \in Nat /\ DOMAIN cs = 1 .. n /\ \A i \in 1 .. n : cs[i] \in LevelChanges
  BY LenProperties
<1>. HIDE DEF n
<1>2. PICK F : /\ F[0] = m /\ F[n] = Changed(m, cs)
               /\ \A i \in 1 .. n : F[i] = Change(F[i - 1], cs[i])
  BY <1>1, ChangedRuns
<1>. DEFINE T == {i \in 0 .. n : IsMarket(F[i])}
<1>3. 0 \in T
  BY <1>1, <1>2
<1>4. ASSUME NEW i \in 1 .. n, i - 1 \in T PROVE i \in T
  <2>1. IsMarket(Change(F[i - 1], cs[i]))
    BY <1>1, <1>4, ChangeTyped
  <2>. QED
    BY <1>2, <2>1
<1>5. \A i \in 0 .. n : i \in T
  <2>. HIDE DEF T
  <2>. QED
    BY <1>1, <1>3, <1>4, UpTo
<1>. QED
  BY <1>1, <1>2, <1>5

\* A finite set as a sequence.
LEMMA SetAsSeq ==
  ASSUME NEW S, IsFiniteSet(S)
  PROVE  SetToSeq(S) \in Seq(S) /\ \A x \in S : \E i \in DOMAIN SetToSeq(S) : SetToSeq(S)[i] = x
<1>. DEFINE n == Cardinality(S)
            Is(f) == f \in [1 .. n -> S] /\ \A a, b \in DOMAIN f : f[a] = f[b] => a = b
            g == CHOOSE f \in [1 .. n -> S] : \A a, b \in DOMAIN f : f[a] = f[b] => a = b
<1>1. n \in Nat /\ FS!Cardinality(S) = n /\ FS!IsFiniteSet(S)
  BY Count, SameFinite, SameCardinality
<1>2. SetToSeq(S) = g
  BY DEF SetToSeq, IsInjective
<1>. HIDE DEF n
<1>3. \E f : Is(f)
  <2>1. FS!ExistsBijection(1 .. n, S)
    BY <1>1, FS!FS_CardinalityType
  <2>2. PICK f : f \in FS!Bijection(1 .. n, S)
    BY <2>1 DEF FS!ExistsBijection
  <2>3. Is(f)
    BY <2>2 DEF FS!Bijection, FS!Injection, FS!IsInjective
  <2>. QED
    BY <2>3
<1>4. Is(g)
  BY <1>3
<1>. HIDE DEF g
<1>5. g \in Seq(S) /\ DOMAIN g = 1 .. n
  BY <1>1, <1>4, SeqDef
<1>6. FS!IsFiniteSet(1 .. n) /\ FS!Cardinality(1 .. n) = n
  <2>1. PICK k \in Int : k = 1
    OBVIOUS
  <2>2. FS!IsFiniteSet(k .. n)
    BY <1>1, FS!FS_Interval
  <2>3. FS!Cardinality(k .. n) = IF k > n THEN 0 ELSE n - k + 1
    BY <1>1, FS!FS_Interval
  <2>. QED
    BY <1>1, <2>1, <2>2, <2>3
<1>7. g \in FS!Injection(1 .. n, S)
  BY <1>4 DEF FS!Injection, FS!IsInjective
<1>8. g \in FS!Surjection(1 .. n, S)
  BY <1>1, <1>6, <1>7, FS!FS_Injection
<1>9. \A x \in S : \E i \in 1 .. n : g[i] = x
  BY <1>8 DEF FS!Surjection
<1>. QED
  BY <1>2, <1>5, <1>9

\* A book as changes: one for each of its levels.
LevelsOf(m, side) == {[side |-> side, price |-> p, qty |-> m[side][p]] : p \in DOMAIN m[side]}

\* A snapshot has every level of a book, with its quantity, and no other.
LEMMA LevelsAre ==
  ASSUME NEW m, IsMarket(m)
  PROVE  /\ Levels(m) \in Seq(LevelChanges)
         /\ \A i \in DOMAIN Levels(m) :
              LET c == Levels(m)[i]
              IN  c.price \in DOMAIN m[c.side] /\ c.qty = m[c.side][c.price]
         /\ \A s \in Sides : \A p \in DOMAIN m[s] :
              \E i \in DOMAIN Levels(m) : Levels(m)[i].side = s /\ Levels(m)[i].price = p
<1>. DEFINE b == SetToSeq(LevelsOf(m, "bid"))
            a == SetToSeq(LevelsOf(m, "ask"))
            Fits(c) == c.price \in DOMAIN m[c.side] /\ c.qty = m[c.side][c.price]
            l == Levels(m)
<1>1. l = b \o a
  BY DEF Levels, LevelsOf
<1>2. ASSUME NEW s \in Sides
      PROVE  /\ IsFiniteSet(LevelsOf(m, s)) /\ LevelsOf(m, s) \subseteq LevelChanges
             /\ \A c \in LevelsOf(m, s) : Fits(c) /\ c.side = s
             /\ \A p \in DOMAIN m[s] : \E c \in LevelsOf(m, s) : c.price = p
  <2>1. PICK old : old = m[s]
    OBVIOUS
  <2>2. IsFiniteSet(DOMAIN old) /\ DOMAIN old \subseteq Nat /\ old \in [DOMAIN old -> Nat \ {0}]
    BY <2>1 DEF IsMarket
  <2>. DEFINE x == [p \in DOMAIN old |-> [side |-> s, price |-> p, qty |-> old[p]]]
              S == {x[p] : p \in DOMAIN old}
  <2>3. S = LevelsOf(m, s)
    BY <2>1 DEF LevelsOf
  <2>4. IsFiniteSet(S)
    BY <2>2, ImageFinite
  <2>5. \A p \in DOMAIN old : /\ x[p] \in LevelChanges /\ x[p].side = s /\ x[p].price = p
                              /\ x[p].qty = old[p]
    BY <2>2 DEF LevelChanges
  <2>. HIDE DEF x
  <2>6. \A c \in S : c \in LevelChanges /\ Fits(c) /\ c.side = s
    BY <2>1, <2>5
  <2>7. \A p \in DOMAIN old : \E c \in S : c.price = p
    BY <2>5
  <2>. QED
    BY <2>1, <2>3, <2>4, <2>6, <2>7
<1>3. ASSUME NEW s \in Sides, NEW q, q = SetToSeq(LevelsOf(m, s))
      PROVE  /\ q \in Seq(LevelChanges) /\ \A i \in 1 .. Len(q) : Fits(q[i])
             /\ \A p \in DOMAIN m[s] : \E i \in 1 .. Len(q) : q[i].side = s /\ q[i].price = p
  <2>. DEFINE S == LevelsOf(m, s)
  <2>1. /\ IsFiniteSet(S) /\ S \subseteq LevelChanges
        /\ \A c \in S : Fits(c) /\ c.side = s
        /\ \A p \in DOMAIN m[s] : \E c \in S : c.price = p
    BY <1>2
  <2>. HIDE DEF S
  <2>2. q \in Seq(S) /\ \A x \in S : \E i \in DOMAIN q : q[i] = x
    BY <1>3, <2>1, SetAsSeq DEF S
  <2>3. Len(q) \in Nat /\ DOMAIN q = 1 .. Len(q) /\ \A i \in 1 .. Len(q) : q[i] \in S
    BY <2>2, LenProperties
  <2>4. q \in Seq(LevelChanges)
    BY <2>1, <2>2, SeqMonotonic
  <2>. HIDE DEF Fits
  <2>5. \A i \in 1 .. Len(q) : Fits(q[i]) /\ q[i].side = s
    BY <2>1, <2>3
  <2>6. ASSUME NEW p \in DOMAIN m[s] PROVE \E i \in 1 .. Len(q) : q[i].side = s /\ q[i].price = p
    <3>1. PICK c \in S : c.price = p
      BY <2>1
    <3>2. PICK i \in 1 .. Len(q) : q[i] = c
      BY <2>2, <2>3
    <3>. QED
      BY <2>5, <3>1, <3>2
  <2>. QED
    BY <2>4, <2>5, <2>6
<1>4. /\ b \in Seq(LevelChanges) /\ \A i \in 1 .. Len(b) : Fits(b[i])
      /\ \A p \in DOMAIN m["bid"] : \E i \in 1 .. Len(b) : b[i].side = "bid" /\ b[i].price = p
  BY <1>3 DEF Sides
<1>5. /\ a \in Seq(LevelChanges) /\ \A i \in 1 .. Len(a) : Fits(a[i])
      /\ \A p \in DOMAIN m["ask"] : \E i \in 1 .. Len(a) : a[i].side = "ask" /\ a[i].price = p
  BY <1>3 DEF Sides
<1>. HIDE DEF a, b, l, Fits
<1>6. /\ l \in Seq(LevelChanges) /\ Len(l) = Len(b) + Len(a) /\ Len(a) \in Nat /\ Len(b) \in Nat
      /\ DOMAIN l = 1 .. Len(l)
      /\ \A i \in 1 .. Len(b) + Len(a) : l[i] = IF i <= Len(b) THEN b[i] ELSE a[i - Len(b)]
  BY <1>1, <1>4, <1>5, ConcatProperties, LenProperties
<1>7. \A i \in 1 .. Len(b) + Len(a) : Fits(l[i])
  <2>1. \A i \in 1 .. Len(b) + Len(a) : ~(i <= Len(b)) => i - Len(b) \in 1 .. Len(a)
    BY <1>6
  <2>2. \A i \in 1 .. Len(b) + Len(a) : i <= Len(b) => i \in 1 .. Len(b)
    BY <1>6
  <2>. SUFFICES ASSUME NEW i \in 1 .. Len(b) + Len(a) PROVE Fits(l[i])
    OBVIOUS
  <2>3. CASE i <= Len(b)
    <3>1. l[i] = b[i] /\ i \in 1 .. Len(b)
      BY <1>6, <2>2, <2>3
    <3>. QED
      BY <1>4, <3>1
  <2>4. CASE ~(i <= Len(b))
    <3>1. l[i] = a[i - Len(b)] /\ i - Len(b) \in 1 .. Len(a)
      BY <1>6, <2>1, <2>4
    <3>. QED
      BY <1>5, <3>1
  <2>. QED
    BY <2>3, <2>4
<1>8. \A i \in 1 .. Len(b) : i \in DOMAIN l /\ l[i] = b[i]
  BY <1>6
<1>9. \A i \in 1 .. Len(a) : Len(b) + i \in DOMAIN l /\ l[Len(b) + i] = a[i]
  BY <1>6
<1>10. \A p \in DOMAIN m["bid"] : \E i \in DOMAIN l : l[i].side = "bid" /\ l[i].price = p
  BY <1>4, <1>8
<1>11. \A p \in DOMAIN m["ask"] : \E i \in DOMAIN l : l[i].side = "ask" /\ l[i].price = p
  BY <1>5, <1>9
<1>. QED
  BY <1>6, <1>7, <1>10, <1>11 DEF Sides, Fits, l

-----------------------------------------------------------------------------
(* The order book.                                                         *)

GoodBook(b) == b = [bid |-> b.bid, ask |-> b.ask] /\ \A s \in Sides : GoodSide(b[s])

\* What a book holds.
Held(b) == [bid |-> Contents(b.bid), ask |-> Contents(b.ask)]

\* Memory of the pool is never given up.
LEMMA PoolGrows ==
  ASSUME NEW s, GoodSide(s), NEW price \in Nat, NEW qty \in Nat
  PROVE  /\ Len(AddLevel(s, price, qty).level) >= Len(s.level)
         /\ Len(RemoveLevel(s, price).level) = Len(s.level)
         /\ \A side : Len(ClearSide(side, s).level) = Len(s.level)
<1>1. SideTypes(s) /\ SideAgrees(s) /\ Len(s.level) \in Nat
      /\ \A p \in DOMAIN s.index : s.index[p] \in 1 .. Len(s.level)
  BY OwnBlocks DEF GoodSide
<1>2. s = [index |-> s.index, tree |-> s.tree, level |-> s.level, free |-> s.free]
  BY <1>1 DEF SideTypes
<1>3. RemoveLevel(s, price).level = s.level
  BY <1>2 DEF RemoveLevel
<1>4. \A side : ClearSide(side, s).level = s.level
  BY <1>2 DEF ClearSide
<1>5. \A n \in 1 .. Len(s.level) + 1 : Len(Stored(s, n, price, qty)) >= Len(s.level)
  <2>. SUFFICES ASSUME NEW n \in 1 .. Len(s.level) + 1
                PROVE  Len(Stored(s, n, price, qty)) >= Len(s.level)
    OBVIOUS
  <2>1. SideTypes(s)
    BY <1>1
  <2>2. PICK S : S = Stored(s, n, price, qty)
    OBVIOUS
  <2>3. Len(S) = IF n > Len(s.level) THEN n ELSE Len(s.level)
    BY <2>1, <2>2, StoredIs
  <2>. QED
    BY <1>1, <2>2, <2>3
<1>6. CASE price \in DOMAIN s.index
  <2>1. AddLevel(s, price, qty).level = Stored(s, s.index[price], price, qty)
    BY <1>2, <1>6 DEF AddLevel
  <2>2. s.index[price] \in 1 .. Len(s.level) + 1
    BY <1>1, <1>6
  <2>. QED
    BY <1>3, <1>4, <1>5, <2>1, <2>2
<1>7. CASE price \notin DOMAIN s.index
  <2>1. AddLevel(s, price, qty).level = Stored(s, Block(s), price, qty)
    BY <1>7 DEF AddLevel
  <2>2. Block(s) \in 1 .. Len(s.level) + 1
    <3>1. CASE s.free = << >>
      BY <1>1, <3>1 DEF Block
    <3>2. CASE s.free # << >>
      <4>1. Head(s.free) \in ToSet(s.free)
        BY <1>1, <3>2, Popped DEF SideTypes, SideAgrees
      <4>2. ToSet(s.free) \subseteq DOMAIN s.level /\ DOMAIN s.level = 1 .. Len(s.level)
        BY <1>1, LenProperties DEF SideTypes, SideAgrees
      <4>3. Block(s) = Head(s.free)
        BY <3>2 DEF Block
      <4>4. Block(s) \in 1 .. Len(s.level)
        BY <4>1, <4>2, <4>3
      <4>. QED
        BY <1>1, <4>4
    <3>. QED
      BY <3>1, <3>2
  <2>. QED
    BY <1>3, <1>4, <1>5, <2>1, <2>2
<1>. QED
  BY <1>6, <1>7

\* An order changes one side of the book, as it would change that of the exchange.
LEMMA OrderAdded ==
  ASSUME NEW b, GoodBook(b), NEW c \in LevelChanges
  PROVE  /\ GoodBook(AddOrder(b, c))
         /\ Held(AddOrder(b, c)) = Change(Held(b), c)
         /\ \A s \in Sides : Len(AddOrder(b, c)[s].level) >= Len(b[s].level)
<1>1. c.side \in Sides /\ c.price \in Nat /\ c.qty \in Nat
  BY DEF LevelChanges
<1>. DEFINE S(s) == IF c.qty = 0 THEN RemoveLevel(s, c.price) ELSE AddLevel(s, c.price, c.qty)
            k == AddOrder(b, c)
<1>2. ASSUME NEW s, GoodSide(s)
      PROVE  /\ GoodSide(S(s)) /\ Contents(S(s)) = ChangeSide(Contents(s), c.price, c.qty)
             /\ Len(S(s).level) >= Len(s.level)
  <2>1. DOMAIN Contents(s) = DOMAIN s.index
    BY DEF Contents
  <2>2. CASE c.qty = 0
    <3>1. /\ GoodSide(RemoveLevel(s, c.price))
          /\ Contents(RemoveLevel(s, c.price)) =
               [p \in DOMAIN s.index \ {c.price} |-> Contents(s)[p]]
      BY <1>1, <1>2, LevelRemoved
    <3>2. Len(RemoveLevel(s, c.price).level) >= Len(s.level)
      <4>1. Len(s.level) \in Nat
        BY <1>2, OwnBlocks
      <4>2. Len(RemoveLevel(s, c.price).level) = Len(s.level)
        BY <1>1, <1>2, PoolGrows
      <4>. QED
        BY <4>1, <4>2
    <3>3. ChangeSide(Contents(s), c.price, c.qty) =
            [p \in DOMAIN s.index \ {c.price} |-> Contents(s)[p]]
      BY <2>1, <2>2 DEF ChangeSide
    <3>. QED
      BY <2>2, <3>1, <3>2, <3>3
  <2>3. CASE c.qty # 0
    <3>1. /\ GoodSide(AddLevel(s, c.price, c.qty))
          /\ Contents(AddLevel(s, c.price, c.qty)) =
               [p \in DOMAIN s.index \cup {c.price} |->
                 IF p = c.price THEN c.qty ELSE Contents(s)[p]]
      <4>1. PICK x : x = c.price
        OBVIOUS
      <4>2. PICK q : q = c.qty
        OBVIOUS
      <4>3. x \in Nat /\ q \in Nat \ {0}
        BY <1>1, <2>3, <4>1, <4>2
      <4>4. /\ GoodSide(AddLevel(s, x, q))
            /\ Contents(AddLevel(s, x, q)) =
                 [p \in DOMAIN s.index \cup {x} |-> IF p = x THEN q ELSE Contents(s)[p]]
        BY <1>2, <4>3, LevelAdded
      <4>. QED
        BY <4>1, <4>2, <4>4
    <3>2. Len(AddLevel(s, c.price, c.qty).level) >= Len(s.level)
      BY <1>1, <1>2, PoolGrows
    <3>3. ChangeSide(Contents(s), c.price, c.qty) =
            [p \in DOMAIN s.index \cup {c.price} |-> IF p = c.price THEN c.qty ELSE Contents(s)[p]]
      BY <2>1, <2>3 DEF ChangeSide
    <3>. QED
      BY <2>3, <3>1, <3>2, <3>3
  <2>. QED
    BY <2>2, <2>3
<1>3. b = [bid |-> b.bid, ask |-> b.ask] /\ GoodSide(b.bid) /\ GoodSide(b.ask)
  BY DEF GoodBook, Sides
<1>. HIDE DEF S, k
<1>4. CASE c.side = "bid"
  <2>1. k = [bid |-> S(b.bid), ask |-> b.ask]
    BY <1>3, <1>4 DEF AddOrder, AddBidOrder, RemoveBidLevel, AddBidLevel, k, S
  <2>2. k.bid = S(b.bid) /\ k.ask = b.ask /\ k = [bid |-> k.bid, ask |-> k.ask]
    BY <2>1
  <2>3. GoodBook(k)
    BY <1>2, <1>3, <2>2 DEF GoodBook, Sides
  <2>4. Change(Held(b), c) =
          [bid |-> ChangeSide(Contents(b.bid), c.price, c.qty), ask |-> Contents(b.ask)]
    BY <1>4 DEF Change, Held
  <2>5. Held(k) = Change(Held(b), c)
    BY <1>2, <1>3, <2>2, <2>4 DEF Held
  <2>6. \A s \in Sides : Len(k[s].level) >= Len(b[s].level)
    <3>1. Len(b.ask.level) \in Nat
      BY <1>3, OwnBlocks
    <3>2. Len(k.ask.level) >= Len(b.ask.level)
      BY <2>2, <3>1
    <3>3. Len(k.bid.level) >= Len(b.bid.level)
      BY <1>2, <1>3, <2>2
    <3>. QED
      BY <3>2, <3>3 DEF Sides
  <2>. QED
    BY <2>3, <2>5, <2>6 DEF k
<1>5. CASE c.side = "ask"
  <2>1. k = [bid |-> b.bid, ask |-> S(b.ask)]
    BY <1>3, <1>5 DEF AddOrder, AddAskOrder, RemoveAskLevel, AddAskLevel, k, S
  <2>2. k.bid = b.bid /\ k.ask = S(b.ask) /\ k = [bid |-> k.bid, ask |-> k.ask]
    BY <2>1
  <2>3. GoodBook(k)
    BY <1>2, <1>3, <2>2 DEF GoodBook, Sides
  <2>4. Change(Held(b), c) =
          [bid |-> Contents(b.bid), ask |-> ChangeSide(Contents(b.ask), c.price, c.qty)]
    BY <1>5 DEF Change, Held
  <2>5. Held(k) = Change(Held(b), c)
    BY <1>2, <1>3, <2>2, <2>4 DEF Held
  <2>6. \A s \in Sides : Len(k[s].level) >= Len(b[s].level)
    <3>1. Len(b.bid.level) \in Nat
      BY <1>3, OwnBlocks
    <3>2. Len(k.bid.level) >= Len(b.bid.level)
      BY <2>2, <3>1
    <3>3. Len(k.ask.level) >= Len(b.ask.level)
      BY <1>2, <1>3, <2>2
    <3>. QED
      BY <3>2, <3>3 DEF Sides
  <2>. QED
    BY <2>3, <2>5, <2>6 DEF k
<1>. QED
  BY <1>1, <1>4, <1>5 DEF Sides

\* A cleared book holds nothing.
LEMMA BookCleared ==
  ASSUME NEW b, GoodBook(b)
  PROVE  /\ GoodBook(ClearLevels(b)) /\ Held(ClearLevels(b)) = NoLevels
         /\ \A s \in Sides : /\ Len(ClearLevels(b)[s].level) = Len(b[s].level)
                             /\ ClearLevels(b)[s].tree = {}
<1>. DEFINE k == ClearLevels(b)
<1>1. GoodSide(b.bid) /\ GoodSide(b.ask) /\ "bid" \in Sides /\ "ask" \in Sides
  BY DEF GoodBook, Sides
<1>2. k = [bid |-> ClearSide("bid", b.bid), ask |-> ClearSide("ask", b.ask)]
  BY DEF ClearLevels
<1>. HIDE DEF k
<1>3. /\ k.bid = ClearSide("bid", b.bid) /\ k.ask = ClearSide("ask", b.ask)
      /\ k = [bid |-> k.bid, ask |-> k.ask]
  BY <1>2
<1>4. /\ GoodSide(k.bid) /\ GoodSide(k.ask) /\ k.bid.tree = {} /\ k.ask.tree = {}
      /\ DOMAIN k.bid.index = {} /\ DOMAIN k.ask.index = {}
  BY <1>1, <1>3, SideCleared
<1>5. Len(k.bid.level) = Len(b.bid.level) /\ Len(k.ask.level) = Len(b.ask.level)
  <2>1. 0 \in Nat
    OBVIOUS
  <2>. QED
    BY <1>1, <1>3, <2>1, PoolGrows
<1>6. Contents(k.bid) = << >> /\ Contents(k.ask) = << >>
  BY <1>4 DEF Contents
<1>. QED
  BY <1>3, <1>4, <1>5, <1>6 DEF GoodBook, Held, NoLevels, Sides, k

\* The book a program starts with is well formed and holds nothing.
LEMMA EmptyBook ==
  /\ GoodBook([bid |-> EmptySide, ask |-> EmptySide])
  /\ Held([bid |-> EmptySide, ask |-> EmptySide]) = NoLevels
<1>1. /\ EmptySide.index = << >> /\ EmptySide.tree = {} /\ EmptySide.level = << >>
      /\ EmptySide.free = << >> /\ DOMAIN EmptySide.index = {} /\ DOMAIN EmptySide.level = {}
      /\ EmptySide = [index |-> EmptySide.index, tree |-> EmptySide.tree,
                      level |-> EmptySide.level, free |-> EmptySide.free]
  BY DEF EmptySide
<1>2. IsFiniteSet({})
  BY FS!FS_EmptySet, SameFinite
<1>3. /\ EmptySide.level \in Seq(LevelRecords) /\ EmptySide.free \in Seq(Nat)
      /\ EmptySide.index \in [{} -> 1 .. Len(EmptySide.level)]
  BY <1>1
<1>4. SideTypes(EmptySide)
  BY <1>1, <1>2, <1>3 DEF SideTypes
<1>5. ToSet(EmptySide.free) = {} /\ IsInjective(EmptySide.free)
  BY <1>1 DEF ToSet, IsInjective
<1>6. {EmptySide.index[p] : p \in DOMAIN EmptySide.index} = {}
  BY <1>1
<1>7. SideAgrees(EmptySide)
  BY <1>1, <1>5, <1>6 DEF SideAgrees
<1>8. Contents(EmptySide) = << >>
  BY <1>1 DEF Contents
<1>. QED
  BY <1>4, <1>7, <1>8 DEF GoodBook, GoodSide, Held, NoLevels, Sides

\* The best level of a book is that of the best price in the map.
LEMMA BestIs ==
  ASSUME NEW b, GoodBook(b), GetBBO(b) # << >>
  PROVE  /\ GetBBO(b)[1].price = Max(DOMAIN b.bid.index)
         /\ GetBBO(b)[2].price = Min(DOMAIN b.ask.index)
<1>1. b.bid.tree # {} /\ b.ask.tree # {} /\ GoodSide(b.bid) /\ GoodSide(b.ask)
  BY DEF GetBBO, GoodBook, Sides
<1>2. ASSUME NEW side \in Sides, NEW s, GoodSide(s), s.tree # {}, NEW o, o = Ordered(side, s)
      PROVE  /\ Head(o) = o[1] /\ s.level[o[1]].price \in DOMAIN s.index
             /\ \A p \in DOMAIN s.index :
                  p = s.level[o[1]].price \/ Better(side, s.level[o[1]].price, p)
  <2>. DEFINE N == Cardinality(s.tree)
  <2>1. /\ o \in [1 .. N -> s.tree]
        /\ \A i, j \in 1 .. N : i < j => Better(side, s.level[o[i]].price, s.level[o[j]].price)
        /\ \A n \in s.tree : \E i \in 1 .. N : o[i] = n
    BY <1>2, OrderedIs
  <2>2. /\ N \in Nat /\ N # 0
        /\ \A n \in s.tree : s.level[n].price \in DOMAIN s.index
    BY <1>2, OwnBlocks
  <2>3. \A p \in DOMAIN s.index : s.index[p] \in s.tree /\ s.level[s.index[p]].price = p
    BY <1>2 DEF GoodSide, SideAgrees
  <2>. HIDE DEF N
  <2>4. 1 \in 1 .. N /\ o[1] \in s.tree
    BY <2>1, <2>2
  <2>5. Head(o) = o[1]
    <3>1. o \in Seq(s.tree) /\ o # << >>
      BY <2>1, <2>2
    <3>. QED
      BY <3>1, HeadTailProperties
  <2>6. ASSUME NEW p \in DOMAIN s.index, p # s.level[o[1]].price
        PROVE  Better(side, s.level[o[1]].price, p)
    <3>1. PICK i \in 1 .. N : o[i] = s.index[p]
      BY <2>1, <2>3
    <3>2. s.level[o[i]].price = p /\ i # 1
      BY <2>3, <2>6, <3>1
    <3>3. 1 < i
      BY <3>2
    <3>. QED
      BY <2>1, <2>4, <3>2, <3>3
  <2>. QED
    BY <2>2, <2>4, <2>5, <2>6
<1>. DEFINE B == DOMAIN b.bid.index
            A == DOMAIN b.ask.index
            x == b.bid.level[Ordered("bid", b.bid)[1]].price
            y == b.ask.level[Ordered("ask", b.ask)[1]].price
<1>3. "bid" \in Sides /\ "ask" \in Sides
  BY DEF Sides
<1>4. /\ Head(Ordered("bid", b.bid)) = Ordered("bid", b.bid)[1] /\ x \in B
      /\ \A p \in B : p = x \/ Better("bid", x, p)
  BY <1>1, <1>2, <1>3
<1>5. /\ Head(Ordered("ask", b.ask)) = Ordered("ask", b.ask)[1] /\ y \in A
      /\ \A p \in A : p = y \/ Better("ask", y, p)
  BY <1>1, <1>2, <1>3
<1>6. GetBBO(b) = <<b.bid.level[Head(Ordered("bid", b.bid))],
                    b.ask.level[Head(Ordered("ask", b.ask))]>>
  BY <1>1 DEF GetBBO
<1>7. GetBBO(b)[1].price = x /\ GetBBO(b)[2].price = y
  BY <1>4, <1>5, <1>6
<1>8. B \subseteq Nat /\ A \subseteq Nat
  BY <1>1 DEF GoodSide, SideTypes
<1>. HIDE DEF A, B, x, y
<1>9. \A p \in B : x > p \/ x = p
  BY <1>4 DEF Better
<1>10. \A p \in A : y < p \/ y = p
  BY <1>5 DEF Better
<1>11. Max(B) = x
  <2>1. Max(B) = CHOOSE v \in B : \A z \in B : v >= z
    BY DEF Max
  <2>2. \A z \in B : x >= z
    BY <1>4, <1>8, <1>9
  <2>3. \A v \in B : (\A z \in B : v >= z) => v = x
    <3>. SUFFICES ASSUME NEW v \in B, v >= x PROVE v = x
      BY <1>4
    <3>1. v \in Nat /\ x \in Nat /\ x >= v
      BY <1>4, <1>8, <2>2
    <3>. QED
      BY <3>1
  <2>. QED
    BY <1>4, <2>1, <2>2, <2>3
<1>12. Min(A) = y
  <2>1. Min(A) = CHOOSE v \in A : \A z \in A : v =< z
    BY DEF Min
  <2>2. \A z \in A : y =< z
    BY <1>5, <1>8, <1>10
  <2>3. \A v \in A : (\A z \in A : v =< z) => v = y
    <3>. SUFFICES ASSUME NEW v \in A, v =< y PROVE v = y
      BY <1>5
    <3>1. v \in Nat /\ y \in Nat /\ y =< v
      BY <1>5, <1>8, <2>2
    <3>. QED
      BY <3>1
  <2>. QED
    BY <1>5, <2>1, <2>2, <2>3
<1>. QED
  BY <1>7, <1>11, <1>12 DEF A, B

-----------------------------------------------------------------------------
(* The types of the state.                                                 *)

\* The queries of the subscriber: one or two, about different sides, of five levels at most.
Kind == Queries[subscriber]

\* A subscriber asks for one side, or for each of the two.
LEMMA QueriesAre ==
  ASSUME subscriber \in Subscribers
  PROVE  /\ Len(Kind) \in {1, 2}
         /\ \A n \in 1 .. Len(Kind) :
              /\ Kind[n].side \in Sides /\ Kind[n].depth \in 0 .. 5 /\ Kind[n].withQty \in BOOLEAN
         /\ Len(Kind) = 2 => Kind[1].side # Kind[2].side
<1>. DEFINE Is(k) == /\ Len(k) \in {1, 2}
                     /\ \A n \in 1 .. Len(k) :
                          /\ k[n].side \in Sides /\ k[n].depth \in 0 .. 5
                          /\ k[n].withQty \in BOOLEAN
                     /\ Len(k) = 2 => k[1].side # k[2].side
<1>1. ASSUME NEW a, a.side \in Sides, a.depth \in 0 .. 5, a.withQty \in BOOLEAN PROVE Is(<<a>>)
  BY <1>1
<1>2. ASSUME NEW a, a.side \in Sides, a.depth \in 0 .. 5, a.withQty \in BOOLEAN,
             NEW b, b.side \in Sides, b.depth \in 0 .. 5, b.withQty \in BOOLEAN, a.side # b.side
      PROVE  Is(<<a, b>>)
  <2>. DEFINE k == <<a, b>>
  <2>1. Len(k) = 2 /\ k[1] = a /\ k[2] = b
    OBVIOUS
  <2>. HIDE DEF k
  <2>2. \A n \in 1 .. Len(k) : n = 1 \/ n = 2
    BY <2>1
  <2>3. \A n \in 1 .. Len(k) :
          k[n].side \in Sides /\ k[n].depth \in 0 .. 5 /\ k[n].withQty \in BOOLEAN
    BY <1>2, <2>1, <2>2
  <2>4. Is(k)
    BY <1>2, <2>1, <2>3
  <2>. QED
    BY <2>4 DEF k
<1>. HIDE DEF Is
<1>3. \A side \in Sides, depth \in 0 .. 5, withQty \in BOOLEAN :
        LET q == Query(side, depth, withQty)
        IN  q.side = side /\ q.depth = depth /\ q.withQty = withQty
  BY DEF Query
<1>. DEFINE Q(q, side) ==
              q.side = side /\ q.side \in Sides /\ q.depth \in 0 .. 5 /\ q.withQty \in BOOLEAN
<1>4. /\ Q(UpdateTopBid, "bid") /\ Q(UpdateTopAsk, "ask")
      /\ Q(UpdateTopBidPrice, "bid") /\ Q(UpdateTopAskPrice, "ask")
      /\ Q(UpdateTop5Bids, "bid") /\ Q(UpdateTop5Asks, "ask")
  BY DEF UpdateTopBid, UpdateTopAsk, UpdateTopBidPrice, UpdateTopAskPrice, UpdateTop5Bids,
         UpdateTop5Asks, Query, Sides
<1>5. Q(UpdateTopNBids(2, 2), "bid") /\ Q(UpdateTopNAsks(2, 1), "ask")
  BY DEF UpdateTopNBids, UpdateTopNAsks, Query, Sides
<1>6. Is(<<UpdateTopBid>>) /\ Is(<<UpdateTopAsk>>)
  BY <1>1, <1>4
<1>7. Is(<<UpdateTopBidPrice>>) /\ Is(<<UpdateTopAskPrice>>)
  BY <1>1, <1>4
<1>8. /\ Is(<<UpdateTopBid, UpdateTopAsk>>) /\ Is(<<UpdateTop5Bids, UpdateTop5Asks>>)
      /\ Is(<<UpdateTopNBids(2, 2), UpdateTopNAsks(2, 1)>>)
  BY <1>2, <1>4, <1>5
<1>9. subscriber \in DOMAIN Queries
  BY SubscribersAssumption
<1>10. Is(Kind)
  BY <1>6, <1>7, <1>8, <1>9 DEF Kind, Queries
<1>. QED
  BY <1>10 DEF Is

Messages == [type : {"snapshot", "delta"}, u : Nat \ {0}, epoch : Nat, changes : Seq(LevelChanges)]

Events   == [op : {"event"}, changes : Seq(LevelChanges)]
Passes   == [op : {"query"}, query : 1 .. Len(Kind), changed : BOOLEAN]
Ops      == {ClearOp} \cup Events \cup Passes
Handlers == [query : 0 .. Len(Kind), changed : BOOLEAN]
Blocks   == {<< >>} \cup {<<n>> : n \in Nat}
Shapes   == UNION {[T -> Nat] : T \in SUBSET Nat}
Seen     == {<< >>} \cup {<<f>> : f \in Shapes}
Reads    == [query : 1 .. Len(Kind), changed : BOOLEAN, level : 1 .. 6, block : Blocks, price : Nat,
             seen : Seen]
Quotes   == Garbage \cup LevelRecords

Counts == [messages : Nat, trades : Nat, restarts : Nat, snapshots : Nat, losses : Nat]

ExchangeTypes ==
  /\ IsMarket(market) /\ u \in Nat \ {0} /\ restarts \in Nat
  /\ bounds \in Counts /\ restarts + bounds.restarts = MaxRestarts

QueueTypes == queue_ \in Seq(Messages) /\ syncQ \in Seq(Messages)

SyncTypes ==
  /\ notify \in BOOLEAN /\ received_snapshot_success_ \in BOOLEAN
  /\ current_diff_update_id_ \in Nat /\ current_snapshot_update_id_ \in Nat
  /\ adopted = << >> \/ \E e \in Nat : adopted = <<e>>
  /\ merged \in BOOLEAN

BookTypes == bookOps \in Seq(Ops) /\ GoodBook(book)

\* A level that is being read is one the query asks for, and its block is in the pool, if it is one.
GoodRead(r) ==
  /\ r \in Reads /\ r.level <= Kind[r.query].depth + 1
  /\ r.block # << >> => /\ r.level <= Kind[r.query].depth
                        /\ r.block[1] \in 0 .. Len(book[Kind[r.query].side].level)

ReaderTypes ==
  /\ subscriber \in Subscribers /\ handlers \in Seq(Handlers)
  /\ reading = << >> \/ \E r : reading = <<r>> /\ GoodRead(r)
  /\ copy \in [Sides -> [1 .. 5 -> Quotes]]
  /\ told = << >> \/ \E c : told = <<c>>

Types == ExchangeTypes /\ QueueTypes /\ SyncTypes /\ BookTypes /\ ReaderTypes

\* What each part of the system leaves alone.
LEMMA Frames ==
  /\ Exchange => UNCHANGED <<running, syncQ, notify, received_snapshot_success_,
       current_diff_update_id_, current_snapshot_update_id_, adopted, merged, bookOps, book, subscriber,
       handlers, reading, copy, told>>
  /\ Listener => UNCHANGED <<market, u, past, restarts, notify, received_snapshot_success_,
       current_diff_update_id_, current_snapshot_update_id_, adopted, merged, bookOps, book, subscriber,
       handlers, reading, copy, told>>
  /\ Sync => UNCHANGED <<market, u, past, restarts, bounds, queue_, runs, running, book, subscriber,
       reading, copy, told>>
  /\ OrderBook => UNCHANGED <<market, u, past, restarts, bounds, queue_, runs, running, syncQ,
       notify, received_snapshot_success_, current_diff_update_id_, current_snapshot_update_id_,
       adopted, merged, subscriber, reading, copy, told>>
  /\ Subscriber => UNCHANGED <<market, u, past, restarts, bounds, queue_, runs, running, syncQ,
       notify, received_snapshot_success_, current_diff_update_id_, current_snapshot_update_id_,
       adopted, merged, book, subscriber>>
<1>1. Exchange => Unchanged
  BY DEF Exchange, SendSnapshot, Trade, Restart
<1>2. ASSUME Unchanged
      PROVE  UNCHANGED <<running, syncQ, notify, received_snapshot_success_,
       current_diff_update_id_, current_snapshot_update_id_, adopted, merged, bookOps, book, subscriber,
       handlers, reading, copy, told>>
  BY <1>2 DEF Unchanged, ids, reader
<1>3. Listener => UNCHANGED <<market, u, past, restarts, notify, ids, bookOps, book,
                              subscriber, reader>>
  BY DEF Listener, BeginRun, ProcessMessage, RefuseMessage, EndRun, exchange
<1>4. ASSUME UNCHANGED <<market, u, past, restarts, notify, ids, bookOps, book, subscriber, reader>>
      PROVE  UNCHANGED <<market, u, past, restarts, notify, received_snapshot_success_,
       current_diff_update_id_, current_snapshot_update_id_, adopted, merged, bookOps, book, subscriber,
       handlers, reading, copy, told>>
  BY <1>4 DEF ids, reader
<1>5. Sync => UNCHANGED <<exchange, listener, book, subscriber, reading, copy, told>>
  BY DEF Sync, ProcessSnapshot, ProcessDiff, NotifySubscriber, OnSyncStrand, reader
<1>6. ASSUME UNCHANGED <<exchange, listener>>
      PROVE  UNCHANGED <<market, u, past, restarts, bounds, queue_, runs, running>>
  BY <1>6 DEF exchange, listener
<1>7. OrderBook => UNCHANGED <<exchange, listener, syncQ, notify, ids, subscriber, reading,
                               copy, told>>
  BY DEF OrderBook, ProcessEvent, ProcessClear, PassQuery, OnBookStrand
<1>8. ASSUME UNCHANGED ids
      PROVE  UNCHANGED <<received_snapshot_success_, current_diff_update_id_,
                         current_snapshot_update_id_, adopted, merged>>
  BY <1>8 DEF ids
<1>9. Subscriber => UNCHANGED <<exchange, listener, syncQ, notify, ids, book, subscriber>>
  <2>1. Subscriber => OnSubscriberStrand
    BY DEF Subscriber, BeginUpdate, BeginRead, ReadPrice, ReadQty, EndRead
  <2>. QED
    BY <2>1 DEF OnSubscriberStrand
<1>. QED
  BY <1>1, <1>2, <1>3, <1>4, <1>5, <1>6, <1>7, <1>8, <1>9

\* Every variable by its name.
LEMMA Stutter ==
  ASSUME UNCHANGED vars
  PROVE  UNCHANGED <<market, u, past, restarts, bounds, queue_, runs, running, syncQ, notify,
           received_snapshot_success_, current_diff_update_id_, current_snapshot_update_id_,
           adopted, merged, bookOps, book, subscriber, handlers, reading, copy, told>>
BY DEF vars, exchange, listener, ids, reader

-----------------------------------------------------------------------------
(* Types are preserved.                                                    *)

\* A bound that is spent stays a number.
LEMMA Spent ==
  ASSUME bounds \in Counts, NEW what \in {"messages", "trades", "restarts", "snapshots", "losses"},
         Sends(what) \/ Counted(what)
  PROVE  /\ bounds' \in Counts
         /\ what # "restarts" => bounds'.restarts = bounds.restarts
         /\ what = "restarts" => bounds.restarts > 0 /\ bounds'.restarts = bounds.restarts - 1
<1>1. PICK a, b, c, d, e \in Nat :
        bounds = [messages |-> a, trades |-> b, restarts |-> c, snapshots |-> d, losses |-> e]
  BY DEF Counts
<1>2. CASE what = "messages"
  BY <1>1, <1>2 DEF Sends, Counted, Counts
<1>3. CASE what = "trades"
  BY <1>1, <1>3 DEF Sends, Counted, Counts
<1>4. CASE what = "restarts"
  BY <1>1, <1>4 DEF Sends, Counted, Counts
<1>5. CASE what = "snapshots"
  BY <1>1, <1>5 DEF Sends, Counted, Counts
<1>6. CASE what = "losses"
  BY <1>1, <1>6 DEF Sends, Counted, Counts
<1>. QED
  BY <1>2, <1>3, <1>4, <1>5, <1>6

\* The initial states are typed.
LEMMA InitTypes == Init => Types
<1>. SUFFICES ASSUME Init PROVE Types
  OBVIOUS
<1>1. ExchangeTypes
  <2>1. IsMarket(market) /\ u \in Nat \ {0} /\ restarts = 0 /\ restarts \in Nat
    BY MarketAssumption, IdsAssumption DEF Init
  <2>2. bounds = [messages |-> MaxMessages, trades |-> MaxTrades, restarts |-> MaxRestarts,
                  snapshots |-> 1 + MaxRepeats, losses |-> MaxLosses]
    BY DEF Init
  <2>3. bounds \in Counts /\ bounds.restarts = MaxRestarts /\ MaxRestarts \in Nat
    BY <2>2, BoundsAssumption DEF Counts
  <2>. QED
    BY <2>1, <2>3 DEF ExchangeTypes
<1>2. QueueTypes
  BY DEF Init, QueueTypes
<1>3. SyncTypes
  <2>1. PICK id \in Uninitialized :
          current_diff_update_id_ = id[1] /\ current_snapshot_update_id_ = id[2]
    BY DEF Init
  <2>2. current_diff_update_id_ \in Nat /\ current_snapshot_update_id_ \in Nat
    BY <2>1, IdsAssumption
  <2>. QED
    BY <2>2 DEF Init, SyncTypes
<1>4. BookTypes
  BY EmptyBook DEF Init, BookTypes
<1>5. ReaderTypes
  <2>1. PICK g \in Garbage : copy = [side \in {"bid", "ask"} |-> [i \in 1 .. 5 |-> g]]
    BY DEF Init
  <2>2. copy \in [Sides -> [1 .. 5 -> Quotes]]
    BY <2>1 DEF Sides, Quotes
  <2>. QED
    BY <2>2 DEF Init, ReaderTypes
<1>. QED
  BY <1>1, <1>2, <1>3, <1>4, <1>5 DEF Types

\* What the exchange sends describes its book.
Sent(msg) ==
  /\ queue_' = Append(queue_, msg) /\ msg.u = u' /\ msg.epoch = restarts'
  /\ \/ msg.type = "snapshot" /\ msg.changes = Levels(market')
     \/ msg.type = "delta" /\ market' = Changed(market, msg.changes)

\* The exchange sends one message with each of its steps.
LEMMA ExchangeSends ==
  ASSUME ExchangeTypes, Exchange
  PROVE  ExchangeTypes' /\ \E msg \in Messages : Sent(msg)
<1>0. /\ IsMarket(market) /\ u \in Nat \ {0} /\ restarts \in Nat
      /\ bounds \in Counts /\ restarts + bounds.restarts = MaxRestarts
  BY DEF ExchangeTypes
<1>1. CASE SendSnapshot
  <2>1. PICK msg : msg = [type |-> "snapshot", u |-> u, epoch |-> restarts,
                          changes |-> Levels(market)]
    OBVIOUS
  <2>2. /\ queue_' = Append(queue_, msg) /\ Sends("snapshots")
        /\ market' = market /\ u' = u /\ restarts' = restarts
    BY <1>1, <2>1 DEF SendSnapshot, Enqueue
  <2>3. msg \in Messages
    BY <1>0, <2>1, LevelsAre DEF Messages
  <2>4. Sent(msg)
    BY <2>1, <2>2 DEF Sent
  <2>5. bounds' \in Counts /\ bounds'.restarts = bounds.restarts
    BY <1>0, <2>2, Spent
  <2>. QED
    BY <1>0, <2>2, <2>3, <2>4, <2>5 DEF ExchangeTypes
<1>2. CASE Trade
  <2>1. PICK t \in Trades :
          /\ market' = Changed(market, t) /\ u' = u + 1 /\ restarts' = restarts
          /\ queue_' = Append(queue_, [type |-> "delta", u |-> u', epoch |-> restarts,
                                       changes |-> t])
    BY <1>2 DEF Trade, Enqueue
  <2>2. PICK msg : msg = [type |-> "delta", u |-> u', epoch |-> restarts, changes |-> t]
    OBVIOUS
  <2>3. t \in Seq(LevelChanges) /\ u' \in Nat \ {0}
    BY <1>0, <2>1, MarketAssumption
  <2>4. msg \in Messages
    BY <1>0, <2>2, <2>3 DEF Messages
  <2>5. Sent(msg)
    BY <2>1, <2>2 DEF Sent
  <2>6. IsMarket(market')
    BY <1>0, <2>1, <2>3, ChangedTyped
  <2>7. bounds' \in Counts /\ bounds'.restarts = bounds.restarts
    <3>1. Sends("trades")
      BY <1>2 DEF Trade
    <3>. QED
      BY <1>0, <3>1, Spent
  <2>. QED
    BY <1>0, <2>1, <2>3, <2>4, <2>5, <2>6, <2>7 DEF ExchangeTypes
<1>3. CASE Restart
  <2>1. PICK msg : msg = [type |-> "snapshot", u |-> 1, epoch |-> restarts',
                          changes |-> Levels(market')]
    OBVIOUS
  <2>2. /\ queue_' = Append(queue_, msg) /\ Sends("restarts")
        /\ market' = Opening /\ u' = 1 /\ restarts' = restarts + 1
    BY <1>3, <2>1 DEF Restart, Enqueue
  <2>3. IsMarket(market')
    BY <2>2, MarketAssumption
  <2>4. msg \in Messages
    <3>1. Levels(market') \in Seq(LevelChanges)
      BY <2>3, LevelsAre
    <3>. QED
      BY <1>0, <2>1, <2>2, <3>1 DEF Messages
  <2>5. Sent(msg)
    BY <2>1, <2>2 DEF Sent
  <2>6. bounds' \in Counts /\ bounds.restarts > 0 /\ bounds'.restarts = bounds.restarts - 1
    BY <1>0, <2>2, Spent
  <2>7. restarts' + bounds'.restarts = MaxRestarts
    <3>1. bounds.restarts \in Nat
      BY <1>0 DEF Counts
    <3>2. PICK a, b : a = bounds.restarts /\ b = bounds'.restarts
      OBVIOUS
    <3>3. restarts' = restarts + 1 /\ b = a - 1 /\ a \in Nat /\ restarts \in Nat
          /\ restarts + a = MaxRestarts
      BY <1>0, <2>2, <2>6, <3>1, <3>2
    <3>4. restarts' + b = MaxRestarts
      BY <3>3
    <3>. QED
      BY <3>2, <3>4
  <2>. QED
    BY <1>0, <2>2, <2>3, <2>4, <2>5, <2>6, <2>7 DEF ExchangeTypes
<1>. QED
  BY <1>1, <1>2, <1>3 DEF Exchange

\* Every step keeps the types of the exchange.
LEMMA KeepExchange ==
  ASSUME Types, [Next]_vars
  PROVE  ExchangeTypes'
<1>1. CASE Exchange
  BY <1>1, ExchangeSends DEF Types
<1>2. CASE RefuseMessage
  <2>1. Counted("losses") /\ market' = market /\ u' = u /\ restarts' = restarts
    BY <1>2 DEF RefuseMessage
  <2>2. bounds \in Counts
    BY DEF Types, ExchangeTypes
  <2>3. bounds' \in Counts /\ bounds'.restarts = bounds.restarts
    BY <2>1, <2>2, Spent
  <2>. QED
    BY <2>1, <2>3 DEF Types, ExchangeTypes
<1>3. CASE UNCHANGED <<market, u, restarts, bounds>>
  BY <1>3 DEF Types, ExchangeTypes
<1>4. Exchange \/ RefuseMessage \/ UNCHANGED <<market, u, restarts, bounds>>
  <2>1. BeginRun \/ ProcessMessage \/ EndRun => UNCHANGED exchange
    BY DEF BeginRun, ProcessMessage, EndRun
  <2>2. UNCHANGED exchange => UNCHANGED <<market, u, restarts, bounds>>
    BY DEF exchange
  <2>. QED
    BY <2>1, <2>2, Frames, Stutter DEF Next, Listener
<1>. QED
  BY <1>1, <1>2, <1>3, <1>4

\* Every step keeps the types of the queues.
LEMMA KeepQueues ==
  ASSUME Types, [Next]_vars
  PROVE  QueueTypes'
<1>0. queue_ \in Seq(Messages) /\ syncQ \in Seq(Messages)
  BY DEF Types, QueueTypes
<1>1. CASE Exchange
  <2>1. PICK msg \in Messages : Sent(msg)
    BY <1>1, ExchangeSends DEF Types
  <2>2. queue_' = Append(queue_, msg) /\ syncQ' = syncQ
    BY <1>1, <2>1, Frames DEF Sent
  <2>. QED
    BY <1>0, <2>2, AppendProperties DEF QueueTypes
<1>2. CASE ProcessMessage
  <2>1. queue_ # << >> /\ queue_' = Tail(queue_) /\ syncQ' = Append(syncQ, Head(queue_))
    BY <1>2 DEF ProcessMessage
  <2>2. Tail(queue_) \in Seq(Messages) /\ Head(queue_) \in Messages
    BY <1>0, <2>1, HeadTailProperties
  <2>. QED
    BY <1>0, <2>1, <2>2, AppendProperties DEF QueueTypes
<1>3. CASE RefuseMessage
  <2>1. queue_ # << >> /\ queue_' = Tail(queue_) /\ syncQ' = syncQ
    BY <1>3 DEF RefuseMessage
  <2>. QED
    BY <1>0, <2>1, HeadTailProperties DEF QueueTypes
<1>4. CASE ProcessSnapshot \/ ProcessDiff
  <2>1. syncQ # << >> /\ syncQ' = Tail(syncQ) /\ queue_' = queue_
    BY <1>4 DEF ProcessSnapshot, ProcessDiff, OnSyncStrand, listener
  <2>. QED
    BY <1>0, <2>1, HeadTailProperties DEF QueueTypes
<1>5. CASE UNCHANGED <<queue_, syncQ>>
  BY <1>0, <1>5 DEF QueueTypes
<1>6. \/ Exchange \/ ProcessMessage \/ RefuseMessage \/ ProcessSnapshot \/ ProcessDiff
      \/ UNCHANGED <<queue_, syncQ>>
  <2>1. BeginRun \/ EndRun => UNCHANGED <<queue_, syncQ>>
    BY DEF BeginRun, EndRun
  <2>2. NotifySubscriber => UNCHANGED <<queue_, syncQ>>
    BY DEF NotifySubscriber, listener
  <2>. QED
    BY <2>1, <2>2, Frames, Stutter DEF Next, Listener, Sync
<1>. QED
  BY <1>1, <1>2, <1>3, <1>4, <1>5, <1>6

\* Every step keeps the types of the sync.
LEMMA KeepSync ==
  ASSUME Types, [Next]_vars
  PROVE  SyncTypes'
<1>0. SyncTypes
  BY DEF Types
<1>1. CASE ProcessSnapshot \/ ProcessDiff
  <2>1. syncQ # << >> /\ syncQ \in Seq(Messages)
    BY <1>1 DEF ProcessSnapshot, ProcessDiff, OnSyncStrand, Types, QueueTypes
  <2>2. PICK e : e = Head(syncQ) /\ e \in Messages
    BY <2>1, HeadTailProperties
  <2>3. e.u \in Nat /\ e.epoch \in Nat
    BY <2>2 DEF Messages
  <2>4. CASE ProcessSnapshot
    <3>1. StillAdopted(e) \in {<<e.epoch>>, adopted} /\ Merges(e) \in BOOLEAN
      BY DEF Merges, StillAdopted
    <3>2. received_snapshot_success_' = TRUE
      BY <2>4 DEF ProcessSnapshot
    <3>3. CASE e.u = current_snapshot_update_id_
      <4>1. adopted' = StillAdopted(e) /\ merged' = merged /\ IgnoreEvent
        BY <2>2, <2>4, <3>3 DEF ProcessSnapshot
      <4>. QED
        BY <1>0, <2>3, <3>1, <3>2, <4>1 DEF SyncTypes, IgnoreEvent
    <3>4. CASE e.u # current_snapshot_update_id_
      <4>1. /\ current_snapshot_update_id_' = e.u /\ current_diff_update_id_' = e.u
            /\ notify' = TRUE /\ adopted' = <<e.epoch>> /\ merged' = Merges(e)
        BY <2>2, <2>4, <3>4 DEF ProcessSnapshot
      <4>. QED
        BY <1>0, <2>3, <3>1, <3>2, <4>1 DEF SyncTypes
    <3>. QED
      BY <3>3, <3>4
  <2>5. CASE ProcessDiff
    <3>1. \/ IgnoreEvent /\ UNCHANGED <<received_snapshot_success_, adopted, merged>>
          \/ Reset /\ UNCHANGED notify
          \/ /\ notify' = TRUE /\ current_diff_update_id_' = e.u
             /\ UNCHANGED <<received_snapshot_success_, current_snapshot_update_id_, adopted, merged>>
      BY <2>2, <2>5 DEF ProcessDiff
    <3>2. CASE IgnoreEvent /\ UNCHANGED <<received_snapshot_success_, adopted, merged>>
      BY <1>0, <3>2 DEF SyncTypes, IgnoreEvent
    <3>3. CASE Reset /\ UNCHANGED notify
      BY <1>0, <3>3 DEF SyncTypes, Reset
    <3>4. CASE /\ notify' = TRUE /\ current_diff_update_id_' = e.u
               /\ UNCHANGED <<received_snapshot_success_, current_snapshot_update_id_, adopted, merged>>
      BY <1>0, <2>3, <3>4 DEF SyncTypes
    <3>. QED
      BY <3>1, <3>2, <3>3, <3>4
  <2>. QED
    BY <1>1, <2>4, <2>5
<1>2. CASE NotifySubscriber
  BY <1>0, <1>2 DEF NotifySubscriber, SyncTypes, ids
<1>3. CASE UNCHANGED <<notify, received_snapshot_success_, current_diff_update_id_,
                       current_snapshot_update_id_, adopted, merged>>
  BY <1>0, <1>3 DEF SyncTypes
<1>4. \/ ProcessSnapshot \/ ProcessDiff \/ NotifySubscriber
      \/ UNCHANGED <<notify, received_snapshot_success_, current_diff_update_id_,
                     current_snapshot_update_id_, adopted, merged>>
  BY Frames, Stutter DEF Next, Sync
<1>. QED
  BY <1>1, <1>2, <1>3, <1>4

\* What is sent to the book, and what the book does with it.
LEMMA OpsAre ==
  /\ ClearOp \in Ops /\ ClearOp.op = "clear"
  /\ \A e : e.changes \in Seq(LevelChanges) =>
       EventOp(e) \in Ops /\ EventOp(e).op = "event" /\ EventOp(e).changes = e.changes
  /\ \A n \in 1 .. Len(Kind), c \in BOOLEAN : [op |-> "query", query |-> n, changed |-> c] \in Ops
  /\ \A o \in Ops : /\ o.op \in {"event", "clear", "query"}
                    /\ o.op = "clear" => o = ClearOp
                    /\ o.op = "event" => o.changes \in Seq(LevelChanges) /\ o = EventOp(o)
                    /\ o.op = "query" => o.query \in 1 .. Len(Kind) /\ o.changed \in BOOLEAN
<1>1. ClearOp \in Ops /\ ClearOp.op = "clear"
  BY DEF Ops, ClearOp
<1>2. ASSUME NEW e, e.changes \in Seq(LevelChanges)
      PROVE  EventOp(e) \in Ops /\ EventOp(e).op = "event" /\ EventOp(e).changes = e.changes
  BY <1>2 DEF Ops, Events, EventOp
<1>3. \A n \in 1 .. Len(Kind), c \in BOOLEAN : [op |-> "query", query |-> n, changed |-> c] \in Ops
  BY DEF Ops, Passes
<1>4. ASSUME NEW o \in Ops
      PROVE  /\ o.op \in {"event", "clear", "query"}
             /\ o.op = "clear" => o = ClearOp
             /\ o.op = "event" => o.changes \in Seq(LevelChanges) /\ o = EventOp(o)
             /\ o.op = "query" => o.query \in 1 .. Len(Kind) /\ o.changed \in BOOLEAN
  <2>1. CASE o = ClearOp
    BY <2>1 DEF ClearOp
  <2>2. CASE o \in Events
    BY <2>2 DEF Events, EventOp
  <2>3. CASE o \in Passes
    BY <2>3 DEF Passes
  <2>. QED
    BY <2>1, <2>2, <2>3 DEF Ops
<1>. QED
  BY <1>1, <1>2, <1>3, <1>4

\* An event changes a level, or is done with.
LEMMA EventGoesOn ==
  ASSUME BookTypes, ProcessEvent
  PROVE  /\ bookOps # << >> /\ Head(bookOps) \in Ops /\ Head(bookOps).op = "event"
         /\ \/ /\ Head(bookOps).changes = << >>
               /\ bookOps' = Tail(bookOps) /\ book' = book
            \/ /\ Head(bookOps).changes # << >>
               /\ Head(Head(bookOps).changes) \in LevelChanges
               /\ book' = AddOrder(book, Head(Head(bookOps).changes))
               /\ bookOps' \in Seq(Ops) /\ Len(bookOps') = Len(bookOps)
               /\ bookOps'[1].op = "event" /\ bookOps'[1].changes = Tail(Head(bookOps).changes)
               /\ \A i \in 2 .. Len(bookOps) : bookOps'[i] = bookOps[i]
<1>. DEFINE o == Head(bookOps)
<1>1. bookOps \in Seq(Ops) /\ bookOps # << >> /\ o.op = "event"
  BY DEF BookTypes, ProcessEvent, OnBookStrand
<1>2. o \in Ops /\ o = bookOps[1] /\ Len(bookOps) \in Nat \ {0}
  BY <1>1, HeadTailProperties, EmptySeq
<1>3. o.changes \in Seq(LevelChanges) /\ o = EventOp(o)
  BY <1>1, <1>2, OpsAre
<1>4. CASE o.changes = << >>
  BY <1>1, <1>2, <1>4 DEF ProcessEvent
<1>5. CASE o.changes # << >>
  <2>1. /\ book' = AddOrder(book, Head(o.changes))
        /\ bookOps' = [bookOps EXCEPT ![1].changes = Tail(o.changes)]
    BY <1>5 DEF ProcessEvent
  <2>2. Head(o.changes) \in LevelChanges /\ Tail(o.changes) \in Seq(LevelChanges)
    BY <1>3, <1>5, HeadTailProperties
  <2>. DEFINE k == [o EXCEPT !.changes = Tail(o.changes)]
  <2>3. k.op = "event" /\ k.changes = Tail(o.changes) /\ k \in Ops
    <3>. HIDE DEF o
    <3>1. k = [op |-> "event", changes |-> Tail(o.changes)]
      <4>1. o = EventOp(o)
        BY <1>3
      <4>2. PICK c : c = o.changes
        OBVIOUS
      <4>3. o = [op |-> "event", changes |-> c]
        BY <4>1, <4>2 DEF EventOp
      <4>4. PICK d : d = Tail(o.changes)
        OBVIOUS
      <4>5. k = [o EXCEPT !.changes = d]
        BY <4>4
      <4>. HIDE DEF k
      <4>6. k = [op |-> "event", changes |-> d]
        BY <4>3, <4>5
      <4>. QED
        BY <4>4, <4>6
    <3>. QED
      BY <2>2, <3>1 DEF Ops, Events
  <2>4. bookOps' = [bookOps EXCEPT ![1] = k]
    BY <1>2, <2>1
  <2>. HIDE DEF k, o
  <2>5. 1 \in 1 .. Len(bookOps)
    BY <1>2
  <2>6. /\ bookOps' \in Seq(Ops) /\ Len(bookOps') = Len(bookOps)
        /\ \A j \in 1 .. Len(bookOps) : bookOps'[j] = IF j = 1 THEN k ELSE bookOps[j]
    BY <1>1, <2>3, <2>4, <2>5, ExceptSeq
  <2>7. bookOps'[1] = k /\ \A i \in 2 .. Len(bookOps) : bookOps'[i] = bookOps[i]
    BY <1>2, <2>5, <2>6
  <2>. QED
    BY <1>1, <1>2, <1>5, <2>1, <2>2, <2>3, <2>6, <2>7 DEF o
<1>. QED
  BY <1>4, <1>5

\* Append is concatenation with a list of one.
LEMMA AppendedIs ==
  ASSUME NEW S, NEW s \in Seq(S), NEW x \in S
  PROVE  Append(s, x) = s \o <<x>> /\ s \o <<x>> \in Seq(S)
OBVIOUS

\* A snapshot adds two operations or one, a diff one of either kind.
LEMMA SyncAdds ==
  ASSUME Types, ProcessSnapshot \/ ProcessDiff
  PROVE  \E e \in Messages :
           /\ syncQ # << >> /\ e = Head(syncQ)
           /\ \/ IgnoreEvent
              \/ bookOps' = Append(bookOps, EventOp(e)) /\ notify' = TRUE
              \/ bookOps' = Append(Append(bookOps, ClearOp), EventOp(e)) /\ notify' = TRUE
              \/ bookOps' = Append(bookOps, ClearOp) /\ notify' = notify
<1>1. syncQ # << >> /\ syncQ \in Seq(Messages) /\ bookOps \in Seq(Ops)
  BY DEF ProcessSnapshot, ProcessDiff, OnSyncStrand, Types, QueueTypes, BookTypes
<1>2. PICK e \in Messages : e = Head(syncQ)
  BY <1>1, HeadTailProperties
<1>3. EventOp(e) \in Ops /\ ClearOp \in Ops
  <2>1. e.changes \in Seq(LevelChanges)
    BY <1>2 DEF Messages
  <2>. QED
    BY <2>1, OpsAre
<1>4. CASE ProcessSnapshot
  <2>1. \/ IgnoreEvent
        \/ /\ bookOps' = bookOps \o (IF e.u = 1 THEN <<ClearOp>> ELSE << >>) \o <<EventOp(e)>>
           /\ notify' = TRUE
    BY <1>2, <1>4 DEF ProcessSnapshot
  <2>2. \/ bookOps \o (IF e.u = 1 THEN <<ClearOp>> ELSE << >>) \o <<EventOp(e)>> =
             Append(bookOps, EventOp(e))
        \/ bookOps \o (IF e.u = 1 THEN <<ClearOp>> ELSE << >>) \o <<EventOp(e)>> =
             Append(Append(bookOps, ClearOp), EventOp(e))
    <3>1. bookOps \o <<ClearOp>> = Append(bookOps, ClearOp) /\ bookOps \o <<ClearOp>> \in Seq(Ops)
      BY <1>1, <1>3, AppendedIs
    <3>2. (bookOps \o <<ClearOp>>) \o <<EventOp(e)>> = Append(bookOps \o <<ClearOp>>, EventOp(e))
      BY <1>3, <3>1, AppendedIs
    <3>3. bookOps \o << >> = bookOps
      BY <1>1, ConcatEmptySeq
    <3>4. bookOps \o <<EventOp(e)>> = Append(bookOps, EventOp(e))
      BY <1>1, <1>3, AppendedIs
    <3>. QED
      BY <3>1, <3>2, <3>3, <3>4
  <2>. QED
    BY <1>1, <1>2, <2>1, <2>2
<1>5. CASE ProcessDiff
  <2>1. \/ IgnoreEvent
        \/ bookOps' = Append(bookOps, ClearOp) /\ notify' = notify
        \/ bookOps' = Append(bookOps, EventOp(e)) /\ notify' = TRUE
    BY <1>2, <1>5 DEF ProcessDiff, Reset
  <2>. QED
    BY <1>1, <1>2, <2>1
<1>. QED
  BY <1>4, <1>5

\* A subscriber stays of its kind.
LEMMA SameKind ==
  ASSUME [Next]_vars
  PROVE  /\ subscriber' = subscriber /\ Kind' = Kind
         /\ Ops' = Ops /\ Handlers' = Handlers /\ Reads' = Reads
<1>1. subscriber' = subscriber
  BY Frames, Stutter DEF Next
<1>. QED
  BY <1>1 DEF Kind, Ops, Passes, Handlers, Reads

\* Every step keeps the book well formed, and its pool does not shrink.
LEMMA KeepBook ==
  ASSUME Types, [Next]_vars
  PROVE  BookTypes' /\ \A s \in Sides : Len(book'[s].level) >= Len(book[s].level)
<1>0. bookOps \in Seq(Ops) /\ GoodBook(book) /\ Ops' = Ops
      /\ \A s \in Sides : Len(book[s].level) \in Nat
  BY SameKind, OwnBlocks DEF Types, BookTypes, GoodBook
<1>. SUFFICES /\ bookOps' \in Seq(Ops) /\ GoodBook(book')
              /\ \A s \in Sides : Len(book'[s].level) >= Len(book[s].level)
  <2>1. ASSUME bookOps' \in Seq(Ops), GoodBook(book') PROVE BookTypes'
    <3>1. GoodBook(book)'
      BY <2>1 DEF GoodBook
    <3>. QED
      BY <1>0, <2>1, <3>1 DEF BookTypes
  <2>. QED
    BY <2>1
<1>1. CASE ProcessSnapshot \/ ProcessDiff
  <2>1. book' = book
    BY <1>1, Frames DEF Sync
  <2>2. PICK e \in Messages :
           \/ bookOps' = bookOps
           \/ bookOps' = Append(bookOps, EventOp(e))
           \/ bookOps' = Append(Append(bookOps, ClearOp), EventOp(e))
           \/ bookOps' = Append(bookOps, ClearOp)
    BY <1>1, SyncAdds DEF IgnoreEvent
  <2>3. EventOp(e) \in Ops /\ ClearOp \in Ops
    <3>1. e.changes \in Seq(LevelChanges)
      BY <2>2 DEF Messages
    <3>. QED
      BY <3>1, OpsAre
  <2>4. \A x \in Ops, s \in Seq(Ops) : Append(s, x) \in Seq(Ops)
    BY AppendProperties
  <2>5. bookOps' \in Seq(Ops)
    BY <1>0, <2>2, <2>3, <2>4
  <2>. QED
    BY <1>0, <2>1, <2>5
<1>2. CASE ProcessEvent
  <2>1. CASE bookOps' = Tail(bookOps) /\ book' = book
    BY <1>0, <1>2, <2>1, EventGoesOn, HeadTailProperties DEF Types
  <2>2. CASE /\ Head(Head(bookOps).changes) \in LevelChanges
             /\ book' = AddOrder(book, Head(Head(bookOps).changes)) /\ bookOps' \in Seq(Ops)
    BY <1>0, <2>2, OrderAdded
  <2>. QED
    BY <1>2, <2>1, <2>2, EventGoesOn DEF Types
<1>3. CASE ProcessClear
  <2>1. bookOps # << >> /\ bookOps' = Tail(bookOps) /\ book' = ClearLevels(book)
    BY <1>3 DEF ProcessClear, OnBookStrand
  <2>2. bookOps' \in Seq(Ops)
    BY <1>0, <2>1, HeadTailProperties
  <2>3. /\ GoodBook(ClearLevels(book))
        /\ \A s \in Sides : Len(ClearLevels(book)[s].level) = Len(book[s].level)
    BY <1>0, BookCleared
  <2>. QED
    BY <1>0, <2>1, <2>2, <2>3
<1>4. CASE PassQuery
  <2>1. bookOps # << >> /\ bookOps' = Tail(bookOps) /\ book' = book
    BY <1>4 DEF PassQuery, OnBookStrand
  <2>. QED
    BY <1>0, <2>1, HeadTailProperties
<1>5. CASE BeginUpdate \/ EndRead
  <2>1. book' = book
    BY <1>5, Frames DEF Subscriber
  <2>2. bookOps' = bookOps \/ \E x \in Ops : bookOps' = Append(bookOps, x)
    <3>1. CASE BeginUpdate
      <4>1. bookOps' = Append(bookOps, [op |-> "query", query |-> 1, changed |-> FALSE])
        BY <3>1 DEF BeginUpdate, AskBook
      <4>2. 1 \in 1 .. Len(Kind)
        BY QueriesAre DEF Types, ReaderTypes
      <4>. QED
        BY <4>1, <4>2, OpsAre
    <3>2. CASE EndRead
      <4>1. PICK r : reading = <<r>> /\ r \in Reads
        BY <3>2 DEF EndRead, Types, ReaderTypes, GoodRead
      <4>2. r.query \in 1 .. Len(Kind) /\ r.changed \in BOOLEAN
        BY <4>1 DEF Reads
      <4>3. \/ bookOps' = bookOps
            \/ /\ r.query < Len(Kind)
               /\ bookOps' = Append(bookOps, [op |-> "query", query |-> r.query + 1,
                                              changed |-> r.changed])
        BY <3>2, <4>1 DEF EndRead, HasNextQuery, AskBook, Kind
      <4>4. Len(Kind) \in Nat
        BY QueriesAre DEF Types, ReaderTypes
      <4>5. r.query < Len(Kind) => r.query + 1 \in 1 .. Len(Kind)
        BY <4>2, <4>4
      <4>. QED
        BY <4>2, <4>3, <4>5, OpsAre
    <3>. QED
      BY <1>5, <3>1, <3>2
  <2>. QED
    BY <1>0, <2>1, <2>2, AppendProperties
<1>6. CASE UNCHANGED <<bookOps, book>>
  BY <1>0, <1>6
<1>7. \/ ProcessSnapshot \/ ProcessDiff \/ ProcessEvent \/ ProcessClear \/ PassQuery
      \/ BeginUpdate \/ EndRead \/ UNCHANGED <<bookOps, book>>
  <2>1. NotifySubscriber => UNCHANGED <<bookOps, book>>
    BY DEF NotifySubscriber
  <2>2. BeginRead \/ ReadPrice \/ ReadQty => UNCHANGED bookOps
    BY DEF BeginRead, ReadPrice, ReadQty
  <2>. QED
    BY <2>1, <2>2, Frames, Stutter DEF Next, Sync, OrderBook, Subscriber
<1>. QED
  BY <1>1, <1>2, <1>3, <1>4, <1>5, <1>6, <1>7

\* Where a query goes, there is a level.
LEMMA VisitedIs ==
  ASSUME GoodBook(book), NEW q, q.side \in Sides, q.depth \in 0 .. 5, NEW i \in Nat \ {0}
  PROVE  /\ Visited(q, book, i) # << >> <=> i <= q.depth /\ i <= Cardinality(book[q.side].tree)
         /\ Visited(q, book, i) # << >> =>
              \E n \in book[q.side].tree :
                /\ Visited(q, book, i) = <<n>> /\ n \in 1 .. Len(book[q.side].level) /\ n \in Nat
                /\ book[q.side].level[n] \in LevelRecords
<1>. DEFINE s == book[q.side]
            o == Ordered(q.side, s)
<1>1. GoodSide(s)
  BY DEF GoodBook
<1>2. o \in [1 .. Cardinality(s.tree) -> s.tree]
  BY <1>1, OrderedIs
<1>3. /\ Cardinality(s.tree) \in Nat /\ Len(s.level) \in Nat
      /\ \A n \in 1 .. Len(s.level) : s.level[n] \in LevelRecords
      /\ \A n \in s.tree : n \in 1 .. Len(s.level)
  BY <1>1, OwnBlocks
<1>. HIDE DEF o
<1>4. Visited(q, book, i) = IF i <= q.depth /\ i <= Cardinality(s.tree) THEN <<o[i]>> ELSE << >>
  BY DEF Visited, o
<1>. HIDE DEF s
<1>5. i <= Cardinality(s.tree) => o[i] \in s.tree /\ o[i] \in 1 .. Len(s.level)
  BY <1>2, <1>3
<1>. QED
  BY <1>3, <1>4, <1>5 DEF s

\* What the memory of a block or of no level holds, as a quote.
LEMMA MemoryIs ==
  ASSUME GoodBook(book), NEW side \in Sides, NEW n \in 0 .. Len(book[side].level),
         NEW quote \in Memory(side, n)
  PROVE  quote \in LevelRecords
<1>1. GoodSide(book[side])
  BY DEF GoodBook
<1>2. \A k \in 1 .. Len(book[side].level) : book[side].level[k] \in LevelRecords
  BY <1>1, OwnBlocks
<1>3. Len(book[side].level) \in Nat
  BY <1>1, OwnBlocks
<1>4. n = 0 \/ n \in 1 .. Len(book[side].level)
  BY <1>3
<1>. QED
  BY <1>2, <1>4, GarbageAssumption DEF Memory, LevelRecords

\* The nodes of a tree have their prices.
LEMMA NodesAre ==
  ASSUME GoodBook(book), NEW side \in Sides
  PROVE  <<Nodes(book[side])>> \in Seen
<1>. DEFINE s == book[side]
<1>1. GoodSide(s)
  BY DEF GoodBook
<1>2. /\ \A n \in 1 .. Len(s.level) : s.level[n] \in LevelRecords
      /\ \A n \in s.tree : n \in 1 .. Len(s.level) /\ n \in Nat
  BY <1>1, OwnBlocks
<1>. HIDE DEF s
<1>3. \A n \in s.tree : s.level[n].price \in Nat
  BY <1>2 DEF LevelRecords
<1>4. Nodes(s) \in [s.tree -> Nat] /\ s.tree \in SUBSET Nat
  BY <1>2, <1>3 DEF Nodes
<1>5. Nodes(s) \in Shapes
  BY <1>4 DEF Shapes
<1>. QED
  BY <1>5 DEF Seen, s

\* A walk comes to a block of the pool or to no level; in a tree left alone, to its next level.
LEMMA CameToIs ==
  ASSUME GoodBook(book), subscriber \in Subscribers, NEW r, GoodRead(r),
         NEW q, q = Kind[r.query], NEW n \in CameTo(r)
  PROVE  /\ n \in 0 .. Len(book[q.side].level) /\ n \in Nat /\ r.level <= q.depth
         /\ ~Torn(r) => Visited(q, book, r.level) = <<n>>
<1>1. q.side \in Sides /\ q.depth \in 0 .. 5 /\ r.level \in Nat \ {0}
  BY QueriesAre DEF GoodRead, Reads
<1>2. Len(book[q.side].level) \in Nat
  BY <1>1, OwnBlocks DEF GoodBook
<1>3. AtQuery(r.query) = q
  BY DEF AtQuery, Kind
<1>4. CASE Torn(r)
  <2>1. n \in 0 .. Len(book[q.side].level) /\ ~(r.level > q.depth)
    BY <1>3, <1>4 DEF CameTo
  <2>. QED
    BY <1>1, <1>2, <1>4, <2>1
<1>5. CASE ~Torn(r)
  <2>1. n \in ToSet(Visited(q, book, r.level))
    BY <1>3, <1>5 DEF CameTo
  <2>2. Visited(q, book, r.level) # << >>
    <3>1. ToSet(<< >>) = {}
      BY DEF ToSet
    <3>. QED
      BY <2>1, <3>1
  <2>3. PICK k \in Nat : Visited(q, book, r.level) = <<k>> /\ k \in 1 .. Len(book[q.side].level)
    BY <1>1, <2>2, VisitedIs
  <2>4. ToSet(<<k>>) = {k}
    BY DEF ToSet
  <2>5. n = k
    BY <2>1, <2>3, <2>4
  <2>6. r.level <= q.depth
    BY <1>1, <2>2, VisitedIs
  <2>. QED
    BY <1>2, <2>3, <2>5, <2>6
<1>. QED
  BY <1>4, <1>5

\* Every step keeps the types of the subscriber: a block that is being read stays in the pool.
LEMMA KeepReader ==
  ASSUME Types, [Next]_vars
  PROVE  ReaderTypes'
<1>0. /\ subscriber \in Subscribers /\ handlers \in Seq(Handlers)
      /\ reading = << >> \/ \E r : reading = <<r>> /\ GoodRead(r)
      /\ copy \in [Sides -> [1 .. 5 -> Quotes]]
      /\ told = << >> \/ \E c : told = <<c>>
  BY DEF Types, ReaderTypes
<1>1. /\ subscriber' = subscriber /\ Kind' = Kind
      /\ Ops' = Ops /\ Handlers' = Handlers /\ Reads' = Reads
  BY SameKind
<1>2. GoodBook(book) /\ \A s \in Sides : Len(book[s].level) \in Nat /\ Len(book'[s].level) \in Nat
                                         /\ Len(book'[s].level) >= Len(book[s].level)
  <2>1. GoodBook(book) /\ GoodBook(book)'
    BY KeepBook DEF Types, BookTypes
  <2>2. \A s \in Sides : GoodSide(book[s]) /\ GoodSide(book'[s])
    BY <2>1 DEF GoodBook
  <2>. QED
    BY <2>1, <2>2, OwnBlocks, KeepBook
<1>3. Len(Kind) \in {1, 2} /\ \A n \in 1 .. Len(Kind) :
        Kind[n].side \in Sides /\ Kind[n].depth \in 0 .. 5 /\ Kind[n].withQty \in BOOLEAN
  BY <1>0, QueriesAre
<1>. DEFINE Reading(R) == R = << >> \/ \E r : R = <<r>> /\ GoodRead(r)'
<1>. SUFFICES /\ handlers' \in Seq(Handlers) /\ Reading(reading')
              /\ copy' \in [Sides -> [1 .. 5 -> Quotes]]
              /\ told' = << >> \/ \E c : told' = <<c>>
  BY <1>0, <1>1 DEF ReaderTypes
<1>4. ASSUME NEW r, GoodRead(r) PROVE GoodRead(r)'
  <2>1. Kind[r.query].side \in Sides
    BY <1>3, <1>4 DEF GoodRead, Reads
  <2>2. r.block # << >> => r.block[1] \in 0 .. Len(book'[Kind[r.query].side].level)
    <3>. HAVE r.block # << >>
    <3>1. r.block[1] \in 0 .. Len(book[Kind[r.query].side].level)
      BY <1>4 DEF GoodRead
    <3>2. PICK a, b \in Nat : /\ a = Len(book[Kind[r.query].side].level)
                              /\ b = Len(book'[Kind[r.query].side].level) /\ b >= a
      BY <1>2, <2>1
    <3>3. PICK x : x = r.block[1]
      OBVIOUS
    <3>4. x \in 0 .. b
      BY <3>1, <3>2, <3>3
    <3>. QED
      BY <3>2, <3>3, <3>4
  <2>3. r \in Reads' /\ r.level <= Kind'[r.query].depth + 1
        /\ (r.block # << >> => r.level <= Kind'[r.query].depth)
    BY <1>1, <1>4 DEF GoodRead
  <2>. QED
    BY <1>1, <2>2, <2>3 DEF GoodRead
<1>5. UNCHANGED reading => Reading(reading')
  BY <1>0, <1>4
<1>6. CASE NotifySubscriber
  <2>1. handlers' = Append(handlers, [query |-> 0, changed |-> FALSE])
        /\ UNCHANGED <<reading, copy, told>>
    BY <1>6 DEF NotifySubscriber
  <2>2. [query |-> 0, changed |-> FALSE] \in Handlers
    BY <1>3 DEF Handlers
  <2>. QED
    BY <1>0, <1>5, <2>1, <2>2, AppendProperties
<1>7. CASE PassQuery
  <2>1. /\ handlers' = Append(handlers, [query |-> Head(bookOps).query,
                                         changed |-> Head(bookOps).changed])
        /\ bookOps # << >> /\ Head(bookOps).op = "query" /\ UNCHANGED <<reading, copy, told>>
    BY <1>7 DEF PassQuery, OnBookStrand
  <2>2. Head(bookOps) \in Ops
    BY <2>1, HeadTailProperties DEF Types, BookTypes
  <2>3. [query |-> Head(bookOps).query, changed |-> Head(bookOps).changed] \in Handlers
    BY <1>3, <2>1, <2>2, OpsAre DEF Handlers
  <2>. QED
    BY <1>0, <1>5, <2>1, <2>3, AppendProperties
<1>8. CASE BeginUpdate
  <2>1. handlers # << >> /\ handlers' = Tail(handlers) /\ UNCHANGED <<reading, copy, told>>
    BY <1>8 DEF BeginUpdate
  <2>. QED
    BY <1>0, <1>5, <2>1, HeadTailProperties
<1>9. CASE BeginRead
  <2>1. /\ handlers # << >> /\ handlers' = Tail(handlers) /\ UNCHANGED <<copy, told>>
        /\ Head(handlers).query > 0
        /\ reading' = <<[query |-> Head(handlers).query, changed |-> Head(handlers).changed,
                         level |-> 1, block |-> << >>, price |-> 0,
                         seen |-> <<Nodes(book[AtQuery(Head(handlers).query).side])>>]>>
    BY <1>9 DEF BeginRead
  <2>2. PICK r : r = [query |-> Head(handlers).query, changed |-> Head(handlers).changed,
                      level |-> 1, block |-> << >>, price |-> 0,
                      seen |-> <<Nodes(book[AtQuery(Head(handlers).query).side])>>]
    OBVIOUS
  <2>3. Head(handlers) \in Handlers /\ Tail(handlers) \in Seq(Handlers)
    BY <1>0, <2>1, HeadTailProperties
  <2>4. Head(handlers).query \in 1 .. Len(Kind) /\ Head(handlers).changed \in BOOLEAN
    BY <1>3, <2>1, <2>3 DEF Handlers
  <2>5. <<Nodes(book[AtQuery(Head(handlers).query).side])>> \in Seen
    BY <1>2, <1>3, <2>4, NodesAre DEF AtQuery, Kind
  <2>6. r \in Reads /\ r.level = 1 /\ r.block = << >> /\ r.query \in 1 .. Len(Kind)
    BY <2>2, <2>4, <2>5 DEF Reads, Blocks
  <2>7. GoodRead(r)
    <3>1. Kind[r.query].depth \in 0 .. 5
      BY <1>3, <2>6
    <3>. QED
      BY <2>6, <3>1 DEF GoodRead
  <2>. QED
    BY <1>0, <1>4, <2>1, <2>2, <2>3, <2>7
<1>10. CASE ReadPrice
  <2>1. PICK r : reading = <<r>> /\ GoodRead(r) /\ r.block = << >>
    BY <1>0, <1>10 DEF ReadPrice
  <2>2. PICK q : q = Kind[r.query]
    OBVIOUS
  <2>3. PICK n, quote :
          /\ n \in CameTo(r) /\ quote \in Memory(q.side, n)
          /\ reading' = <<[r EXCEPT !.block = <<n>>, !.price = quote.price,
                             !.seen = IF Torn(r) THEN << >> ELSE @]>>
    <3>1. AtQuery(r.query) = q /\ reading[1] = r
      BY <2>1, <2>2 DEF AtQuery, Kind
    <3>2. \E n \in CameTo(reading[1]) : \E quote \in Memory(AtQuery(reading[1].query).side, n) :
            reading' = <<[reading[1] EXCEPT !.block = <<n>>, !.price = quote.price,
                             !.seen = IF Torn(reading[1]) THEN << >> ELSE @]>>
      BY <1>10 DEF ReadPrice
    <3>. QED
      BY <3>1, <3>2
  <2>4. q.side \in Sides /\ q.depth \in 0 .. 5 /\ r \in Reads /\ r.level \in Nat \ {0}
        /\ r.seen \in Seen
    BY <1>3, <2>1, <2>2 DEF GoodRead, Reads
  <2>5. n \in 0 .. Len(book[q.side].level) /\ n \in Nat /\ r.level <= q.depth
    BY <1>0, <1>2, <2>1, <2>2, <2>3, CameToIs
  <2>6. PICK p \in Nat : p = quote.price
    <3>1. quote \in LevelRecords
      BY <1>2, <2>3, <2>4, <2>5, MemoryIs
    <3>. QED
      BY <3>1 DEF LevelRecords
  <2>7. PICK d \in Seen : d = IF Torn(r) THEN << >> ELSE r.seen
    BY <2>4 DEF Seen
  <2>8. PICK t : t = [r EXCEPT !.block = <<n>>, !.price = p, !.seen = d]
    OBVIOUS
  <2>9. reading' = <<t>>
    BY <2>3, <2>6, <2>7, <2>8
  <2>10. t \in Reads /\ t.query = r.query /\ t.level = r.level /\ t.block = <<n>>
    BY <2>4, <2>5, <2>8 DEF Reads, Blocks
  <2>11. GoodRead(t)
    BY <2>1, <2>2, <2>5, <2>10 DEF GoodRead
  <2>12. GoodRead(t)'
    BY <1>4, <2>11
  <2>13. Reading(reading')
    BY <2>9, <2>12
  <2>. HIDE DEF Reading
  <2>14. handlers' = handlers /\ copy' = copy /\ told' = told
    BY <1>10 DEF ReadPrice
  <2>. QED
    BY <1>0, <2>13, <2>14
<1>11. CASE ReadQty
  <2>0. reading # << >> /\ reading[1].block # << >>
    BY <1>11 DEF ReadQty
  <2>1. PICK r : reading = <<r>> /\ GoodRead(r) /\ r.block # << >>
    BY <1>0, <2>0
  <2>2. PICK q : q = Kind[r.query]
    OBVIOUS
  <2>3. PICK quote, new :
        /\ quote \in Memory(q.side, r.block[1])
        /\ new = [price |-> r.price, qty |-> IF q.withQty THEN quote.qty ELSE 0]
        /\ copy' = IF Differs(q, copy[q.side][r.level], new)
                   THEN [copy EXCEPT ![q.side][r.level] = new] ELSE copy
        /\ reading' = <<[r EXCEPT !.level = @ + 1, !.block = << >>, !.price = 0,
                           !.changed = Noticed(@, copy' # copy)]>>
    <3>1. AtQuery(r.query) = q /\ reading[1] = r
      BY <2>1, <2>2 DEF AtQuery, Kind
    <3>. QED
      BY <1>11, <3>1 DEF ReadQty
  <2>4. UNCHANGED <<handlers, told>>
        /\ reading' = <<[r EXCEPT !.level = @ + 1, !.block = << >>, !.price = 0,
                           !.changed = Noticed(@, copy' # copy)]>>
    BY <1>11, <2>3 DEF ReadQty
  <2>5. /\ q.side \in Sides /\ q.depth \in 0 .. 5 /\ r \in Reads /\ r.level \in 1 .. 5
        /\ r.level <= q.depth /\ r.block[1] \in 0 .. Len(book[q.side].level)
        /\ r.changed \in BOOLEAN /\ r.price \in Nat
    BY <1>3, <2>1, <2>2 DEF GoodRead, Reads
  <2>6. new \in Quotes
    <3>0. PICK k : k = r.block[1] /\ k \in 0 .. Len(book[q.side].level) /\ quote \in Memory(q.side, k)
      BY <2>3, <2>5
    <3>1. quote \in LevelRecords
      BY <1>2, <2>5, <3>0, MemoryIs
    <3>2. quote.qty \in Nat
      BY <3>1 DEF LevelRecords
    <3>3. new \in LevelRecords
      BY <2>3, <2>5, <3>2 DEF LevelRecords
    <3>. QED
      BY <3>3 DEF Quotes
  <2>7. copy' \in [Sides -> [1 .. 5 -> Quotes]]
    BY <1>0, <2>3, <2>5, <2>6
  <2>8. PICK c \in BOOLEAN : c = Noticed(r.changed, copy' # copy)
    <3>1. (r.changed \/ copy' # copy) \in BOOLEAN
      OBVIOUS
    <3>. QED
      BY <3>1 DEF Noticed
  <2>9. PICK t : t = [r EXCEPT !.level = @ + 1, !.block = << >>, !.price = 0, !.changed = c]
    OBVIOUS
  <2>10. reading' = <<t>>
    <3>1. CASE r.changed \/ copy' # copy
      <4>1. c = TRUE
        BY <2>8, <3>1 DEF Noticed
      <4>2. reading' = <<[r EXCEPT !.level = @ + 1, !.block = << >>, !.price = 0,
                                   !.changed = TRUE]>>
        BY <2>4, <3>1 DEF Noticed
      <4>. QED
        BY <2>9, <4>1, <4>2
    <3>2. CASE ~(r.changed \/ copy' # copy)
      <4>1. c = FALSE
        BY <2>8, <3>2 DEF Noticed
      <4>2. reading' = <<[r EXCEPT !.level = @ + 1, !.block = << >>, !.price = 0,
                                   !.changed = FALSE]>>
        BY <2>4, <3>2 DEF Noticed
      <4>. QED
        BY <2>9, <4>1, <4>2
    <3>. QED
      BY <3>1, <3>2
  <2>11. t \in Reads /\ t.query = r.query /\ t.level = r.level + 1 /\ t.block = << >>
    <3>1. PICK a, l, d, e, f, g :
            /\ r = [query |-> a, changed |-> d, level |-> l, block |-> e, price |-> f, seen |-> g]
            /\ a \in 1 .. Len(Kind) /\ l \in 1 .. 5 /\ g \in Seen
      BY <2>5 DEF Reads
    <3>2. t = [query |-> a, changed |-> c, level |-> l + 1, block |-> << >>, price |-> 0,
               seen |-> g]
      BY <2>9, <3>1
    <3>3. t \in Reads
      BY <3>1, <3>2 DEF Reads, Blocks
    <3>. QED
      BY <3>1, <3>2, <3>3
  <2>12. GoodRead(t)
    BY <2>2, <2>5, <2>11 DEF GoodRead
  <2>. QED
    BY <1>0, <1>4, <2>4, <2>7, <2>10, <2>12
<1>12. CASE EndRead
  <2>1. reading' = << >> /\ UNCHANGED <<handlers, copy>> /\ (told' = told \/ told' = <<copy>>)
    BY <1>12 DEF EndRead
  <2>. QED
    BY <1>0, <2>1
<1>13. CASE UNCHANGED <<handlers, reading, copy, told>>
  BY <1>0, <1>5, <1>13
<1>14. \/ NotifySubscriber \/ PassQuery
       \/ BeginUpdate \/ BeginRead \/ ReadPrice \/ ReadQty \/ EndRead
       \/ UNCHANGED <<handlers, reading, copy, told>>
  <2>1. ProcessSnapshot \/ ProcessDiff => UNCHANGED <<handlers, reading, copy, told>>
    BY DEF ProcessSnapshot, ProcessDiff, OnSyncStrand, reader
  <2>2. ProcessEvent \/ ProcessClear => UNCHANGED <<handlers, reading, copy, told>>
    BY DEF ProcessEvent, ProcessClear, OnBookStrand
  <2>. QED
    BY <2>1, <2>2, Frames, Stutter DEF Next, Sync, OrderBook, Subscriber
<1>. QED
  BY <1>6, <1>7, <1>8, <1>9, <1>10, <1>11, <1>12, <1>13, <1>14

\* The types are inductive.
LEMMA KeepTypes == Types /\ [Next]_vars => Types'
BY KeepExchange, KeepQueues, KeepSync, KeepBook, KeepReader DEF Types

\* The members of a sequence, by its positions.
LEMMA Members ==
  ASSUME NEW S, NEW s \in Seq(S)
  PROVE  /\ \A x \in ToSet(s) : x \in S
         /\ \A x : x \in ToSet(s) <=> \E i \in 1 .. Len(s) : s[i] = x
<1>1. DOMAIN s = 1 .. Len(s) /\ \A i \in 1 .. Len(s) : s[i] \in S
  BY LenProperties, ElementOfSeq
<1>. QED
  BY <1>1 DEF ToSet

\* The types of the state, as the runs check them.
LEMMA TypesOfAll == Inv /\ Types => TypeOK
<1>. SUFFICES ASSUME Inv, Types PROVE TypeOK
  OBVIOUS
<1>1. u \in Nat /\ restarts \in 0 .. MaxRestarts
  <2>1. restarts \in Nat /\ bounds.restarts \in Nat /\ restarts + bounds.restarts = MaxRestarts
    BY DEF Types, ExchangeTypes, Counts
  <2>. QED
    BY <2>1, BoundsAssumption DEF Types, ExchangeTypes
<1>2. \A e \in ToSet(queue_ \o syncQ) : e.type \in {"snapshot", "delta"}
  <2>1. queue_ \o syncQ \in Seq(Messages)
    BY ConcatProperties DEF Types, QueueTypes
  <2>2. \A e \in Messages : e.type \in {"snapshot", "delta"}
    BY DEF Messages
  <2>. QED
    BY <2>1, <2>2, Members
<1>3. \A o \in ToSet(bookOps) : o.op \in {"event", "clear", "query"}
  BY Members, OpsAre DEF Types, BookTypes
<1>4. \A h \in ToSet(handlers) : h.query \in 0 .. Len(Queries[subscriber])
  <2>1. \A h \in Handlers : h.query \in 0 .. Len(Kind)
    BY DEF Handlers
  <2>. QED
    BY <2>1, Members DEF Types, ReaderTypes, Kind
<1>5. Len(reading) <= 1 /\ Len(told) <= 1 /\ Len(adopted) <= 1
  <2>1. \A x : Len(<<x>>) <= 1
    OBVIOUS
  <2>2. \A s : s = << >> => Len(s) <= 1
    OBVIOUS
  <2>3. /\ reading = << >> \/ \E r : reading = <<r>>
        /\ told = << >> \/ \E c : told = <<c>>
        /\ adopted = << >> \/ \E e : adopted = <<e>>
    BY DEF Types, ReaderTypes, SyncTypes
  <2>. QED
    BY <2>1, <2>2, <2>3
<1>6. runs \in Nat /\ running \in BOOLEAN
  BY DEF Inv, ListenerTypes
<1>. QED
  BY <1>1, <1>2, <1>3, <1>4, <1>5, <1>6 DEF TypeOK, Types, SyncTypes

\* A well formed book has its two indices agree.
LEMMA BookAgrees == Types => IndexesAgree
<1>. SUFFICES ASSUME Types PROVE IndexesAgree
  OBVIOUS
<1>1. GoodBook(book)
  BY DEF Types, BookTypes
<1>2. SideAgrees(book.bid) /\ SideAgrees(book.ask)
  BY <1>1 DEF GoodBook, GoodSide, Sides
<1>. QED
  BY <1>1, <1>2, BestIs DEF IndexesAgree

\* The book is well formed at every step, between any two levels of an event too: map, tree
\* and pool of each side agree, and the best price is that of the map (order_book.h:52 to 115).
THEOREM BookAlwaysInOrder == Spec => []BookInOrder
<1>1. Inv /\ Types => BookInOrder
  BY TypesOfAll, BookAgrees DEF BookInOrder
<1>. QED
  BY <1>1, InitInv, NextInv, InitTypes, KeepTypes, PTL DEF Spec

-----------------------------------------------------------------------------
(* The subscriber: signals, and what its copy shows.                       *)

\* A signal is on its way that makes the subscriber read query n again.
Coming(n) ==
  \/ notify
  \/ \E i \in 1 .. Len(handlers) : handlers[i].query <= n
  \/ \E i \in 1 .. Len(bookOps) : bookOps[i].op = "query" /\ bookOps[i].query <= n

\* An event that the book has yet to process is followed by a signal.
Announced(i) ==
  \/ notify
  \/ \E k \in 1 .. Len(handlers) : handlers[k].query = 0
  \/ \E j \in 1 .. Len(bookOps) : j > i /\ bookOps[j].op = "query" /\ bookOps[j].query = 1

EventsAnnounced == \A i \in 1 .. Len(bookOps) : bookOps[i].op = "event" => Announced(i)

\* A copy c shows the level at i of a book b, as far as the query asks for it.
ShownIn(q, b, c, i) ==
  Visited(q, b, i) # << >> =>
    ~Differs(q, c[q.side][i], b[q.side].level[Visited(q, b, i)[1]])

\* What a query has read is shown, and the block it is at is the right one; the tree is the one
\* it began with, or empty.
PartlyIn(q, b, c, r) ==
  /\ r.seen # <<Nodes(b[q.side])>> => b[q.side].tree = {}
  /\ \A i \in 1 .. 5 : i < r.level => ShownIn(q, b, c, i)
  /\ r.block # << >> /\ Visited(q, b, r.level) # << >> =>
       r.block = Visited(q, b, r.level) /\ r.price = b[q.side].level[r.block[1]].price

\* What a query is about is shown, or will be.
Fresh(n) ==
  \/ Coming(n)
  \/ reading # << >> /\ reading[1].query < n
  \/ reading # << >> /\ reading[1].query = n /\ PartlyIn(Kind[n], book, copy, reading[1])
  \/ (reading = << >> \/ reading[1].query # n) /\ \A i \in 1 .. 5 : ShownIn(Kind[n], book, copy, i)

AllFresh == \A n \in 1 .. Len(Kind) : Fresh(n)

\* Nothing has changed that the callback has yet to be told.
Clean ==
  /\ \A i \in 1 .. Len(handlers) : ~handlers[i].changed
  /\ \A i \in 1 .. Len(bookOps) : bookOps[i].op = "query" => ~bookOps[i].changed
  /\ reading # << >> => ~reading[1].changed

StartsClean == \A i \in 1 .. Len(handlers) : handlers[i].query = 0 => ~handlers[i].changed

NeverRead ==
  told = << >> /\ \E g \in Garbage : copy = [side \in {"bid", "ask"} |-> [i \in 1 .. 5 |-> g]]

ToldRight == Clean => told = <<copy>> \/ NeverRead

Signals == EventsAnnounced /\ AllFresh /\ StartsClean /\ ToldRight

\* A sequence with one more member, by its positions.
LEMMA Appended ==
  ASSUME NEW S, NEW s \in Seq(S), NEW x \in S
  PROVE  /\ Append(s, x) \in Seq(S) /\ Len(s) \in Nat /\ Len(Append(s, x)) = Len(s) + 1
         /\ \A i \in 1 .. Len(s) : i \in 1 .. Len(s) + 1 /\ Append(s, x)[i] = s[i]
         /\ Append(s, x)[Len(s) + 1] = x /\ Len(s) + 1 \in 1 .. Len(s) + 1
         /\ \A i \in 1 .. Len(s) + 1 : i \in 1 .. Len(s) \/ i = Len(s) + 1
<1>1. Len(s) \in Nat
  BY LenProperties
<1>. QED
  BY <1>1, AppendProperties

\* A sequence without its first member, by its positions.
LEMMA Shifted ==
  ASSUME NEW S, NEW s \in Seq(S), s # << >>
  PROVE  /\ Tail(s) \in Seq(S) /\ Len(s) \in Nat \ {0} /\ Len(Tail(s)) = Len(s) - 1
         /\ Head(s) = s[1] /\ s[1] \in S /\ 1 \in 1 .. Len(s)
         /\ \A i \in 1 .. Len(s) - 1 : i + 1 \in 1 .. Len(s) /\ Tail(s)[i] = s[i + 1]
         /\ \A i \in 1 .. Len(s) : i = 1 \/ (i - 1 \in 1 .. Len(s) - 1 /\ Tail(s)[i - 1] = s[i])
<1>1. /\ Tail(s) \in Seq(S) /\ Len(Tail(s)) = Len(s) - 1 /\ Len(s) \in Nat \ {0}
      /\ \A i \in 1 .. Len(s) - 1 : Tail(s)[i] = s[i + 1]
      /\ Head(s) = s[1] /\ Head(s) \in S
  BY HeadTailProperties, EmptySeq
<1>2. \A i \in 1 .. Len(s) : i = 1 \/ (i - 1 \in 1 .. Len(s) - 1 /\ (i - 1) + 1 = i)
  BY <1>1
<1>3. \A i \in 1 .. Len(s) - 1 : i + 1 \in 1 .. Len(s)
  BY <1>1
<1>4. 1 \in 1 .. Len(s)
  BY <1>1
<1>5. \A i \in 1 .. Len(s) : i = 1 \/ (i - 1 \in 1 .. Len(s) - 1 /\ Tail(s)[i - 1] = s[i])
  <2>. SUFFICES ASSUME NEW i \in 1 .. Len(s), i # 1
                PROVE  i - 1 \in 1 .. Len(s) - 1 /\ Tail(s)[i - 1] = s[i]
    OBVIOUS
  <2>1. i - 1 \in 1 .. Len(s) - 1 /\ (i - 1) + 1 = i
    BY <1>2
  <2>2. Tail(s)[i - 1] = s[(i - 1) + 1]
    BY <1>1, <2>1
  <2>. QED
    BY <2>1, <2>2
<1>. QED
  BY <1>1, <1>3, <1>4, <1>5

\* In an empty side there is nothing to show.
LEMMA NothingThere ==
  ASSUME NEW q, NEW b, b[q.side].tree = {}
  PROVE  \A i \in Nat \ {0} : Visited(q, b, i) = << >>
<1>1. Cardinality({}) = 0
  BY FS!FS_EmptySet, SameFinite, Count
<1>. QED
  BY <1>1 DEF Visited

\* The parts of the state that signals are about.
SignalState == <<notify, bookOps, book, subscriber, handlers, reading, copy, told>>

\* Nothing is signalled at first, and there is nothing to signal.
LEMMA InitSignals == Init => Signals
<1>. SUFFICES ASSUME Init PROVE Signals
  OBVIOUS
<1>1. /\ Len(bookOps) = 0 /\ Len(handlers) = 0 /\ reading = << >> /\ told = << >>
      /\ book = [bid |-> EmptySide, ask |-> EmptySide] /\ subscriber \in Subscribers
      /\ \E g \in Garbage : copy = [side \in {"bid", "ask"} |-> [i \in 1 .. 5 |-> g]]
  BY DEF Init
<1>2. \A s \in Sides : book[s].tree = {}
  BY <1>1 DEF Sides, EmptySide
<1>3. \A n \in 1 .. Len(Kind) : Kind[n].side \in Sides
  BY <1>1, QueriesAre
<1>4. AllFresh
  <2>. SUFFICES ASSUME NEW n \in 1 .. Len(Kind), NEW i \in 1 .. 5
                PROVE  ShownIn(Kind[n], book, copy, i)
    BY <1>1 DEF AllFresh, Fresh
  <2>1. Visited(Kind[n], book, i) = << >>
    <3>1. i \in Nat \ {0} /\ book[Kind[n].side].tree = {}
      BY <1>2, <1>3
    <3>. QED
      BY <3>1, NothingThere
  <2>. QED
    BY <2>1 DEF ShownIn
<1>. QED
  BY <1>1, <1>4 DEF Signals, EventsAnnounced, StartsClean, ToldRight, NeverRead

\* What the signals are about.
LEMMA SignalsKept ==
  ASSUME Signals, UNCHANGED SignalState
  PROVE  Signals'
<1>1. /\ notify' = notify /\ bookOps' = bookOps /\ book' = book /\ subscriber' = subscriber
      /\ handlers' = handlers /\ reading' = reading /\ copy' = copy /\ told' = told
  BY DEF SignalState
<1>2. Kind' = Kind
  BY <1>1 DEF Kind
<1>3. EventsAnnounced'
  BY <1>1 DEF Signals, EventsAnnounced, Announced
<1>4. AllFresh'
  BY <1>1, <1>2 DEF Signals, AllFresh, Fresh, Coming
<1>5. StartsClean' /\ ToldRight'
  BY <1>1 DEF Signals, StartsClean, ToldRight, Clean, NeverRead
<1>. QED
  BY <1>3, <1>4, <1>5 DEF Signals

\* Operations that are no queries are added, and a signal with the events.
LEMMA SignalsAdded ==
  ASSUME Types, Signals,
         Len(bookOps') \in Nat, Len(bookOps') >= Len(bookOps),
         \A i \in 1 .. Len(bookOps) : bookOps'[i] = bookOps[i],
         \A i \in 1 .. Len(bookOps') : i > Len(bookOps) =>
           bookOps'[i].op # "query" /\ (bookOps'[i].op = "event" => notify'),
         notify => notify',
         UNCHANGED <<book, subscriber, handlers, reading, copy, told>>
  PROVE  Signals'
<1>0. Len(bookOps) \in Nat
  BY LenProperties DEF Types, BookTypes
<1>1. Kind' = Kind
  BY DEF Kind
<1>2. \A i \in 1 .. Len(bookOps) : i \in 1 .. Len(bookOps')
  BY <1>0
<1>3. \A i \in 1 .. Len(bookOps') : i \in 1 .. Len(bookOps) \/ i > Len(bookOps)
  BY <1>0
<1>4. \A i : Announced(i) => Announced(i)'
  BY <1>2 DEF Announced
<1>5. \A n : Coming(n) => Coming(n)'
  BY <1>2 DEF Coming
<1>6. EventsAnnounced'
  <2>. SUFFICES ASSUME NEW i \in 1 .. Len(bookOps'), bookOps'[i].op = "event" PROVE Announced(i)'
    BY DEF EventsAnnounced
  <2>1. CASE i \in 1 .. Len(bookOps)
    BY <1>4, <2>1 DEF Signals, EventsAnnounced
  <2>2. CASE i > Len(bookOps)
    BY <2>2 DEF Announced
  <2>. QED
    BY <1>3, <2>1, <2>2
<1>7. AllFresh'
  <2>. SUFFICES ASSUME NEW n \in 1 .. Len(Kind) PROVE Fresh(n)'
    BY <1>1 DEF AllFresh
  <2>1. Fresh(n)
    BY DEF Signals, AllFresh
  <2>. QED
    BY <1>1, <1>5, <2>1 DEF Fresh
<1>8. StartsClean'
  BY DEF Signals, StartsClean
<1>9. ToldRight'
  <2>1. Clean' => Clean
    BY <1>2 DEF Clean
  <2>. QED
    BY <2>1 DEF Signals, ToldRight, NeverRead
<1>. QED
  BY <1>6, <1>7, <1>8, <1>9 DEF Signals

\* The sync sends the book its event first and the signal after it.
LEMMA SyncSignals ==
  ASSUME Types, Signals, Sync
  PROVE  Signals'
<1>0. /\ bookOps \in Seq(Ops) /\ Len(bookOps) \in Nat /\ handlers \in Seq(Handlers)
      /\ UNCHANGED <<book, subscriber, reading, copy, told>>
  BY Frames, LenProperties DEF Types, BookTypes, ReaderTypes
<1>1. CASE ProcessSnapshot \/ ProcessDiff
  <2>0. UNCHANGED handlers
    BY <1>1 DEF ProcessSnapshot, ProcessDiff, OnSyncStrand, reader
  <2>1. PICK e \in Messages :
          \/ IgnoreEvent
          \/ bookOps' = Append(bookOps, EventOp(e)) /\ notify' = TRUE
          \/ bookOps' = Append(Append(bookOps, ClearOp), EventOp(e)) /\ notify' = TRUE
          \/ bookOps' = Append(bookOps, ClearOp) /\ notify' = notify
    BY <1>1, SyncAdds
  <2>2. /\ EventOp(e) \in Ops /\ EventOp(e).op = "event"
        /\ ClearOp \in Ops /\ ClearOp.op = "clear"
    <3>1. e.changes \in Seq(LevelChanges)
      BY <2>1 DEF Messages
    <3>. QED
      BY <3>1, OpsAre
  <2>3. CASE IgnoreEvent
    <3>1. UNCHANGED SignalState
      BY <1>0, <2>0, <2>3 DEF IgnoreEvent, SignalState
    <3>. QED
      BY <3>1, SignalsKept
  <2>4. CASE bookOps' = Append(bookOps, EventOp(e)) /\ notify' = TRUE
    <3>1. /\ Len(bookOps') = Len(bookOps) + 1 /\ bookOps'[Len(bookOps) + 1] = EventOp(e)
          /\ \A i \in 1 .. Len(bookOps) : bookOps'[i] = bookOps[i]
      BY <1>0, <2>2, <2>4, Appended
    <3>2. \A i \in 1 .. Len(bookOps') : i > Len(bookOps) => i = Len(bookOps) + 1
      BY <1>0, <3>1
    <3>. QED
      BY <1>0, <2>0, <2>2, <2>4, <3>1, <3>2, SignalsAdded
  <2>5. CASE bookOps' = Append(Append(bookOps, ClearOp), EventOp(e)) /\ notify' = TRUE
    <3>. DEFINE s == Append(bookOps, ClearOp)
    <3>1. /\ s \in Seq(Ops) /\ Len(s) = Len(bookOps) + 1 /\ s[Len(bookOps) + 1] = ClearOp
          /\ \A i \in 1 .. Len(bookOps) : s[i] = bookOps[i] /\ i \in 1 .. Len(s)
      BY <1>0, <2>2, Appended
    <3>. HIDE DEF s
    <3>2. /\ Len(bookOps') = Len(s) + 1 /\ bookOps'[Len(s) + 1] = EventOp(e)
          /\ \A i \in 1 .. Len(s) : bookOps'[i] = s[i]
      BY <2>2, <2>5, <3>1, Appended DEF s
    <3>3. \A i \in 1 .. Len(bookOps') : i > Len(bookOps) => i = Len(bookOps) + 1 \/ i = Len(s) + 1
      BY <1>0, <3>1, <3>2
    <3>4. Len(bookOps') \in Nat /\ Len(bookOps') >= Len(bookOps) /\ Len(bookOps) + 1 \in 1 .. Len(s)
      BY <1>0, <3>1, <3>2
    <3>5. \A i \in 1 .. Len(bookOps) : bookOps'[i] = bookOps[i]
      BY <3>1, <3>2
    <3>6. \A i \in 1 .. Len(bookOps') : i > Len(bookOps) =>
            bookOps'[i].op # "query" /\ (bookOps'[i].op = "event" => notify')
      <4>1. bookOps'[Len(bookOps) + 1] = ClearOp
        BY <3>1, <3>2, <3>4
      <4>. QED
        BY <2>2, <2>5, <3>2, <3>3, <4>1
    <3>. QED
      BY <1>0, <2>0, <2>5, <3>4, <3>5, <3>6, SignalsAdded
  <2>6. CASE bookOps' = Append(bookOps, ClearOp) /\ notify' = notify
    <3>1. /\ Len(bookOps') = Len(bookOps) + 1 /\ bookOps'[Len(bookOps) + 1] = ClearOp
          /\ \A i \in 1 .. Len(bookOps) : bookOps'[i] = bookOps[i]
      BY <1>0, <2>2, <2>6, Appended
    <3>2. \A i \in 1 .. Len(bookOps') : i > Len(bookOps) => i = Len(bookOps) + 1
      BY <1>0, <3>1
    <3>. QED
      BY <1>0, <2>0, <2>2, <2>6, <3>1, <3>2, SignalsAdded
  <2>. QED
    BY <2>1, <2>3, <2>4, <2>5, <2>6
<1>2. CASE NotifySubscriber
  <2>. DEFINE h == [query |-> 0, changed |-> FALSE]
  <2>1. handlers' = Append(handlers, h) /\ UNCHANGED bookOps
    BY <1>2 DEF NotifySubscriber
  <2>2. Len(Kind) \in Nat /\ Kind' = Kind
    BY <1>0, QueriesAre DEF Types, ReaderTypes, Kind
  <2>3. h \in Handlers /\ h.query = 0 /\ h.changed = FALSE
    BY <2>2 DEF Handlers
  <2>. HIDE DEF h
  <2>4. /\ Len(handlers') = Len(handlers) + 1 /\ Len(handlers) + 1 \in 1 .. Len(handlers')
        /\ handlers'[Len(handlers) + 1] = h
        /\ \A i \in 1 .. Len(handlers) : handlers'[i] = handlers[i] /\ i \in 1 .. Len(handlers')
        /\ \A i \in 1 .. Len(handlers') : i \in 1 .. Len(handlers) \/ i = Len(handlers) + 1
    BY <1>0, <2>1, <2>3, Appended
  <2>5. EventsAnnounced'
    BY <2>3, <2>4 DEF EventsAnnounced, Announced
  <2>6. AllFresh'
    <3>. SUFFICES ASSUME NEW n \in 1 .. Len(Kind) PROVE Coming(n)'
      BY <2>2 DEF AllFresh, Fresh
    <3>1. handlers'[Len(handlers) + 1].query <= n
      BY <2>2, <2>3, <2>4
    <3>. QED
      BY <2>4, <3>1 DEF Coming
  <2>7. StartsClean'
    BY <2>3, <2>4 DEF Signals, StartsClean
  <2>8. ToldRight'
    <3>1. Clean' => Clean
      BY <1>0, <2>1, <2>4 DEF Clean
    <3>. QED
      BY <1>0, <3>1 DEF Signals, ToldRight, NeverRead
  <2>. QED
    BY <2>5, <2>6, <2>7, <2>8 DEF Signals
<1>. QED
  BY <1>1, <1>2 DEF Sync

\* An operation that is done with leaves the events behind it announced.
LEMMA TakenAnnounced ==
  ASSUME Signals, bookOps \in Seq(Ops), bookOps # << >>, bookOps' = Tail(bookOps), notify' = notify,
         \A k \in 1 .. Len(handlers) : k \in 1 .. Len(handlers') /\ handlers'[k] = handlers[k]
  PROVE  EventsAnnounced'
<1>1. /\ Len(bookOps) \in Nat \ {0} /\ Len(bookOps') = Len(bookOps) - 1
      /\ \A i \in 1 .. Len(bookOps) - 1 :
           i + 1 \in 1 .. Len(bookOps) /\ bookOps'[i] = bookOps[i + 1]
      /\ \A i \in 1 .. Len(bookOps) :
           i = 1 \/ (i - 1 \in 1 .. Len(bookOps) - 1 /\ bookOps'[i - 1] = bookOps[i])
  BY Shifted
<1>. SUFFICES ASSUME NEW i \in 1 .. Len(bookOps'), bookOps'[i].op = "event" PROVE Announced(i)'
  BY DEF EventsAnnounced
<1>2. i + 1 \in 1 .. Len(bookOps) /\ bookOps[i + 1].op = "event"
  BY <1>1
<1>3. Announced(i + 1)
  BY <1>2 DEF Signals, EventsAnnounced
<1>4. CASE notify \/ \E k \in 1 .. Len(handlers) : handlers[k].query = 0
  BY <1>4 DEF Announced
<1>5. CASE \E j \in 1 .. Len(bookOps) : j > i + 1 /\ bookOps[j].op = "query" /\ bookOps[j].query = 1
  <2>1. PICK j \in 1 .. Len(bookOps) : j > i + 1 /\ bookOps[j].op = "query" /\ bookOps[j].query = 1
    BY <1>5
  <2>2. j # 1 /\ j - 1 > i
    BY <1>1, <2>1
  <2>3. j - 1 \in 1 .. Len(bookOps') /\ bookOps'[j - 1] = bookOps[j]
    BY <1>1, <2>2
  <2>. QED
    BY <2>1, <2>2, <2>3 DEF Announced
<1>. QED
  BY <1>3, <1>4, <1>5 DEF Announced

\* A level changes while the signal of its event is still to come.
LEMMA EventSignals ==
  ASSUME Types, Signals, ProcessEvent
  PROVE  Signals'
<1>0. /\ bookOps \in Seq(Ops) /\ bookOps # << >>
      /\ UNCHANGED <<notify, subscriber, handlers, reading, copy, told>> /\ Kind' = Kind
  BY DEF Types, BookTypes, ProcessEvent, OnBookStrand, Kind
<1>1. /\ Len(bookOps) \in Nat \ {0} /\ Head(bookOps) = bookOps[1] /\ 1 \in 1 .. Len(bookOps)
      /\ bookOps[1].op = "event"
  BY <1>0, Shifted, EventGoesOn DEF Types
<1>2. Announced(1)
  BY <1>1 DEF Signals, EventsAnnounced
<1>3. /\ EventsAnnounced'
      /\ \A j \in 1 .. Len(bookOps) : bookOps[j].op = "query" =>
           \E i \in 1 .. Len(bookOps') : bookOps'[i] = bookOps[j]
  <2>1. CASE bookOps' = Tail(bookOps)
    <3>1. EventsAnnounced'
      BY <1>0, <2>1, TakenAnnounced
    <3>2. /\ Len(bookOps') = Len(bookOps) - 1
          /\ \A j \in 1 .. Len(bookOps) :
               j = 1 \/ (j - 1 \in 1 .. Len(bookOps) - 1 /\ bookOps'[j - 1] = bookOps[j])
      BY <1>0, <2>1, Shifted
    <3>. QED
      BY <1>1, <3>1, <3>2
  <2>2. CASE /\ Len(bookOps') = Len(bookOps) /\ bookOps'[1].op = "event"
             /\ \A i \in 2 .. Len(bookOps) : bookOps'[i] = bookOps[i]
    <3>1. \A i \in 1 .. Len(bookOps) : i = 1 \/ bookOps'[i] = bookOps[i]
      BY <1>1, <2>2
    <3>2. \A i : Announced(i) => Announced(i)'
      BY <1>0, <1>1, <2>2, <3>1 DEF Announced
    <3>3. EventsAnnounced'
      BY <1>1, <2>2, <3>1, <3>2 DEF Signals, EventsAnnounced
    <3>. QED
      BY <1>1, <2>2, <3>1, <3>3
  <2>. QED
    BY <2>1, <2>2, EventGoesOn DEF Types
<1>4. AllFresh'
  <2>. SUFFICES ASSUME NEW n \in 1 .. Len(Kind) PROVE Coming(n)'
    BY <1>0 DEF AllFresh, Fresh
  <2>1. 0 <= n /\ 1 <= n
    BY QueriesAre DEF Types, ReaderTypes
  <2>2. CASE notify \/ \E k \in 1 .. Len(handlers) : handlers[k].query = 0
    BY <1>0, <2>1, <2>2 DEF Coming
  <2>3. CASE \E j \in 1 .. Len(bookOps) : bookOps[j].op = "query" /\ bookOps[j].query = 1
    BY <1>3, <2>1, <2>3 DEF Coming
  <2>. QED
    BY <1>2, <2>2, <2>3 DEF Announced
<1>5. StartsClean'
  BY <1>0 DEF Signals, StartsClean
<1>6. ToldRight'
  <2>1. Clean' => Clean
    BY <1>0, <1>3 DEF Clean
  <2>. QED
    BY <1>0, <2>1 DEF Signals, ToldRight, NeverRead
<1>. QED
  BY <1>3, <1>4, <1>5, <1>6 DEF Signals

\* An empty book has nothing to show.
LEMMA ClearSignals ==
  ASSUME Types, Signals, ProcessClear
  PROVE  Signals'
<1>0. /\ bookOps \in Seq(Ops) /\ bookOps # << >> /\ bookOps' = Tail(bookOps)
      /\ UNCHANGED <<notify, subscriber, handlers, reading, copy, told>> /\ Kind' = Kind
      /\ Head(bookOps).op = "clear" /\ book' = ClearLevels(book) /\ GoodBook(book)
  BY DEF Types, BookTypes, ProcessClear, OnBookStrand, Kind
<1>1. EventsAnnounced'
  BY <1>0, TakenAnnounced
<1>2. /\ Len(bookOps') = Len(bookOps) - 1 /\ Head(bookOps) = bookOps[1]
      /\ \A j \in 1 .. Len(bookOps) :
           j = 1 \/ (j - 1 \in 1 .. Len(bookOps) - 1 /\ bookOps'[j - 1] = bookOps[j])
  BY <1>0, Shifted
<1>3. \A j \in 1 .. Len(bookOps) : bookOps[j].op = "query" =>
        \E i \in 1 .. Len(bookOps') : bookOps'[i] = bookOps[j]
  BY <1>0, <1>2
<1>4. AllFresh'
  <2>. SUFFICES ASSUME NEW n \in 1 .. Len(Kind) PROVE Fresh(n)'
    BY <1>0 DEF AllFresh
  <2>1. Fresh(n)
    BY DEF Signals, AllFresh
  <2>2. Coming(n) => Coming(n)'
    BY <1>0, <1>3 DEF Coming
  <2>3. \A i \in Nat \ {0} : Visited(Kind[n], book', i) = << >>
    <3>1. Kind[n].side \in Sides
      BY QueriesAre DEF Types, ReaderTypes
    <3>2. book'[Kind[n].side].tree = {}
      BY <1>0, <3>1, BookCleared
    <3>. QED
      BY <3>2, NothingThere
  <2>4. \A i \in Nat \ {0} : ShownIn(Kind[n], book', copy, i)
    BY <2>3 DEF ShownIn
  <2>5. \A r : r.level \in Nat \ {0} => PartlyIn(Kind[n], book', copy, r)
    <3>1. Kind[n].side \in Sides
      BY QueriesAre DEF Types, ReaderTypes
    <3>2. book'[Kind[n].side].tree = {}
      BY <1>0, <3>1, BookCleared
    <3>. QED
      BY <2>3, <2>4, <3>2 DEF PartlyIn
  <2>6. reading # << >> => reading[1].level \in Nat \ {0}
    BY DEF Types, ReaderTypes, GoodRead, Reads
  <2>7. \A i \in 1 .. 5 : i \in Nat \ {0}
    OBVIOUS
  <2>8. CASE reading # << >> /\ reading[1].query = n
    BY <1>0, <2>5, <2>6, <2>8 DEF Fresh
  <2>9. CASE reading = << >> \/ reading[1].query # n
    BY <1>0, <2>4, <2>7, <2>9 DEF Fresh
  <2>. QED
    BY <2>8, <2>9
<1>5. StartsClean'
  BY <1>0 DEF Signals, StartsClean
<1>6. ToldRight'
  <2>1. Clean' => Clean
    BY <1>0, <1>3 DEF Clean
  <2>. QED
    BY <1>0, <2>1 DEF Signals, ToldRight, NeverRead
<1>. QED
  BY <1>1, <1>4, <1>5, <1>6 DEF Signals

\* A query that has passed the book's strand is read next.
LEMMA PassSignals ==
  ASSUME Types, Signals, PassQuery
  PROVE  Signals'
<1>. DEFINE o == Head(bookOps)
            h == [query |-> o.query, changed |-> o.changed]
<1>0. /\ bookOps \in Seq(Ops) /\ bookOps # << >> /\ bookOps' = Tail(bookOps)
      /\ UNCHANGED <<notify, book, subscriber, reading, copy, told>> /\ Kind' = Kind
      /\ o.op = "query" /\ handlers' = Append(handlers, h) /\ handlers \in Seq(Handlers)
  BY DEF Types, BookTypes, ReaderTypes, PassQuery, OnBookStrand, Kind
<1>1. o \in Ops /\ o = bookOps[1] /\ 1 \in 1 .. Len(bookOps)
  BY <1>0, Shifted
<1>2. o.query \in 1 .. Len(Kind) /\ o.changed \in BOOLEAN /\ Len(Kind) \in Nat
  BY <1>0, <1>1, OpsAre, QueriesAre DEF Types, ReaderTypes
<1>3. h \in Handlers /\ h.query = o.query /\ h.changed = o.changed
  BY <1>2 DEF Handlers
<1>. HIDE DEF o, h
<1>4. /\ Len(handlers') = Len(handlers) + 1 /\ Len(handlers) + 1 \in 1 .. Len(handlers')
      /\ handlers'[Len(handlers) + 1] = h
      /\ \A i \in 1 .. Len(handlers) : handlers'[i] = handlers[i] /\ i \in 1 .. Len(handlers')
      /\ \A i \in 1 .. Len(handlers') : i \in 1 .. Len(handlers) \/ i = Len(handlers) + 1
  BY <1>0, <1>3, Appended
<1>5. EventsAnnounced'
  BY <1>0, <1>4, TakenAnnounced
<1>6. /\ Len(bookOps') = Len(bookOps) - 1
      /\ \A j \in 1 .. Len(bookOps) :
           j = 1 \/ (j - 1 \in 1 .. Len(bookOps) - 1 /\ bookOps'[j - 1] = bookOps[j])
  BY <1>0, Shifted
<1>7. AllFresh'
  <2>. SUFFICES ASSUME NEW n \in 1 .. Len(Kind) PROVE Fresh(n)'
    BY <1>0 DEF AllFresh
  <2>1. Fresh(n)
    BY DEF Signals, AllFresh
  <2>2. ASSUME Coming(n) PROVE Coming(n)'
    <3>1. CASE notify
      BY <1>0, <3>1 DEF Coming
    <3>2. CASE \E i \in 1 .. Len(handlers) : handlers[i].query <= n
      BY <1>4, <3>2 DEF Coming
    <3>3. CASE \E i \in 1 .. Len(bookOps) : bookOps[i].op = "query" /\ bookOps[i].query <= n
      <4>1. PICK i \in 1 .. Len(bookOps) : bookOps[i].op = "query" /\ bookOps[i].query <= n
        BY <3>3
      <4>2. CASE i = 1
        <5>1. handlers'[Len(handlers) + 1].query <= n
          BY <1>1, <1>3, <1>4, <4>1, <4>2
        <5>. QED
          BY <1>4, <5>1 DEF Coming
      <4>3. CASE i # 1
        <5>1. i - 1 \in 1 .. Len(bookOps') /\ bookOps'[i - 1] = bookOps[i]
          BY <1>6, <4>3
        <5>. QED
          BY <4>1, <5>1 DEF Coming
      <4>. QED
        BY <4>2, <4>3
    <3>. QED
      BY <2>2, <3>1, <3>2, <3>3 DEF Coming
  <2>. QED
    BY <1>0, <2>1, <2>2 DEF Fresh
<1>8. StartsClean'
  BY <1>2, <1>3, <1>4 DEF Signals, StartsClean
<1>9. ToldRight'
  <2>1. ASSUME Clean' PROVE Clean
    <3>1. \A i \in 1 .. Len(handlers) : ~handlers[i].changed
      BY <1>4, <2>1 DEF Clean
    <3>2. ~o.changed
      BY <1>3, <1>4, <2>1 DEF Clean
    <3>3. \A i \in 1 .. Len(bookOps) : bookOps[i].op = "query" => ~bookOps[i].changed
      BY <1>1, <1>6, <2>1, <3>2 DEF Clean
    <3>. QED
      BY <1>0, <2>1, <3>1, <3>3 DEF Clean
  <2>. QED
    BY <1>0, <2>1 DEF Signals, ToldRight, NeverRead
<1>. QED
  BY <1>5, <1>7, <1>8, <1>9 DEF Signals

-----------------------------------------------------------------------------
(* The steps of the subscriber.                                            *)

\* A signal becomes the first query.
LEMMA UpdateSignals ==
  ASSUME Types, Signals, BeginUpdate
  PROVE  Signals'
<1>. DEFINE o == [op |-> "query", query |-> 1, changed |-> FALSE]
<1>0. /\ bookOps \in Seq(Ops) /\ bookOps' = Append(bookOps, o)
      /\ handlers \in Seq(Handlers) /\ handlers # << >> /\ handlers' = Tail(handlers)
      /\ Head(handlers).query = 0
      /\ UNCHANGED <<notify, book, subscriber, reading, copy, told>> /\ Kind' = Kind
  BY DEF Types, BookTypes, ReaderTypes, BeginUpdate, AskBook, OnSubscriberStrand, Kind
<1>1. o \in Ops /\ o.op = "query" /\ o.query = 1 /\ o.changed = FALSE
  <2>1. 1 \in 1 .. Len(Kind)
    BY QueriesAre DEF Types, ReaderTypes
  <2>. QED
    BY <2>1 DEF Ops, Passes
<1>. HIDE DEF o
<1>2. /\ Len(bookOps') = Len(bookOps) + 1 /\ Len(bookOps) + 1 \in 1 .. Len(bookOps')
      /\ bookOps'[Len(bookOps) + 1] = o /\ Len(bookOps) \in Nat
      /\ \A i \in 1 .. Len(bookOps) : bookOps'[i] = bookOps[i] /\ i \in 1 .. Len(bookOps')
      /\ \A i \in 1 .. Len(bookOps') : i \in 1 .. Len(bookOps) \/ i = Len(bookOps) + 1
  BY <1>0, <1>1, Appended
<1>3. /\ Len(handlers') = Len(handlers) - 1 /\ Head(handlers) = handlers[1]
      /\ 1 \in 1 .. Len(handlers)
      /\ \A i \in 1 .. Len(handlers) - 1 :
           i + 1 \in 1 .. Len(handlers) /\ handlers'[i] = handlers[i + 1]
      /\ \A i \in 1 .. Len(handlers) :
           i = 1 \/ (i - 1 \in 1 .. Len(handlers) - 1 /\ handlers'[i - 1] = handlers[i])
  BY <1>0, Shifted
<1>4. EventsAnnounced'
  <2>. SUFFICES ASSUME NEW i \in 1 .. Len(bookOps'), bookOps'[i].op = "event"
                PROVE  Announced(i)'
    BY DEF EventsAnnounced
  <2>1. bookOps'[Len(bookOps) + 1].op # "event"
    BY <1>1, <1>2
  <2>2. i \in 1 .. Len(bookOps)
    BY <1>2, <2>1
  <2>3. Len(bookOps) + 1 > i
    BY <1>2, <2>2
  <2>. QED
    BY <1>1, <1>2, <2>3 DEF Announced
<1>5. AllFresh'
  <2>. SUFFICES ASSUME NEW n \in 1 .. Len(Kind) PROVE Coming(n)'
    BY <1>0 DEF AllFresh, Fresh
  <2>1. bookOps'[Len(bookOps) + 1].query <= n
    BY <1>1, <1>2, QueriesAre DEF Types, ReaderTypes
  <2>. QED
    BY <1>1, <1>2, <2>1 DEF Coming
<1>6. StartsClean'
  BY <1>3 DEF Signals, StartsClean
<1>7. ToldRight'
  <2>1. ASSUME Clean' PROVE Clean
    <3>0. handlers[1].query = 0 /\ 1 \in 1 .. Len(handlers)
      BY <1>0, <1>3
    <3>1. ~handlers[1].changed
      BY <3>0 DEF Signals, StartsClean
    <3>2. \A i \in 1 .. Len(handlers') : ~handlers'[i].changed
      BY <2>1 DEF Clean
    <3>3. \A i \in 1 .. Len(handlers) : ~handlers[i].changed
      BY <1>3, <3>1, <3>2
    <3>. QED
      BY <1>0, <1>2, <2>1, <3>3 DEF Clean
  <2>. QED
    BY <1>0, <2>1 DEF Signals, ToldRight, NeverRead
<1>. QED
  BY <1>4, <1>5, <1>6, <1>7 DEF Signals

\* A read begins with nothing read.
LEMMA ReadSignals ==
  ASSUME Types, Signals, BeginRead
  PROVE  Signals'
<1>. DEFINE h == Head(handlers)
            r == [query |-> h.query, changed |-> h.changed,
                  level |-> 1, block |-> << >>, price |-> 0,
                  seen |-> <<Nodes(book[AtQuery(h.query).side])>>]
<1>0. /\ reading = << >> /\ reading' = <<r>> /\ h.query > 0
      /\ handlers \in Seq(Handlers) /\ handlers # << >> /\ handlers' = Tail(handlers)
      /\ UNCHANGED <<notify, bookOps, book, subscriber, copy, told>> /\ Kind' = Kind
  BY DEF Types, ReaderTypes, BeginRead, OnSubscriberStrand, Kind
<1>1. /\ r.query = h.query /\ r.changed = h.changed /\ r.level = 1 /\ r.block = << >>
      /\ r.seen = <<Nodes(book[AtQuery(h.query).side])>>
      /\ reading' # << >> /\ reading'[1] = r
  BY <1>0
<1>2. /\ Len(handlers') = Len(handlers) - 1 /\ h = handlers[1] /\ 1 \in 1 .. Len(handlers)
      /\ \A i \in 1 .. Len(handlers) - 1 :
           i + 1 \in 1 .. Len(handlers) /\ handlers'[i] = handlers[i + 1]
      /\ \A i \in 1 .. Len(handlers) :
           i = 1 \/ (i - 1 \in 1 .. Len(handlers) - 1 /\ handlers'[i - 1] = handlers[i])
      /\ h \in Handlers
  BY <1>0, Shifted
<1>3. h.query \in Nat /\ h.query # 0
  BY <1>0, <1>2, QueriesAre DEF Handlers, Types, ReaderTypes
<1>. HIDE DEF h, r
<1>4. \A i \in 1 .. Len(handlers) :
        i = 1 \/ \E k \in 1 .. Len(handlers') : handlers'[k] = handlers[i]
  BY <1>2
<1>5. EventsAnnounced'
  <2>1. \A i : Announced(i) => Announced(i)'
    <3>. SUFFICES ASSUME NEW i, Announced(i) PROVE Announced(i)'
      OBVIOUS
    <3>1. CASE \E k \in 1 .. Len(handlers) : handlers[k].query = 0
      <4>1. PICK k \in 1 .. Len(handlers) : handlers[k].query = 0
        BY <3>1
      <4>2. k # 1
        BY <1>2, <1>3, <4>1
      <4>3. \E l \in 1 .. Len(handlers') : handlers'[l].query = 0
        BY <1>4, <4>1, <4>2
      <4>. QED
        BY <4>3 DEF Announced
    <3>. QED
      BY <1>0, <3>1 DEF Announced
  <2>. QED
    BY <1>0, <2>1 DEF Signals, EventsAnnounced
<1>6. AllFresh'
  <2>. SUFFICES ASSUME NEW n \in 1 .. Len(Kind) PROVE Fresh(n)'
    BY <1>0 DEF AllFresh
  <2>0. n \in Nat
    BY QueriesAre DEF Types, ReaderTypes
  <2>1. CASE r.query = n
    <3>1. PartlyIn(Kind[n], book, copy, r)
      <4>1. \A i \in 1 .. 5 : ~(i < 1)
        OBVIOUS
      <4>2. r.seen = <<Nodes(book[Kind[n].side])>>
        BY <1>1, <2>1 DEF AtQuery, Kind
      <4>. QED
        BY <1>1, <4>1, <4>2 DEF PartlyIn
    <3>. QED
      BY <1>0, <1>1, <2>1, <3>1 DEF Fresh
  <2>2. CASE r.query < n
    BY <1>1, <2>2 DEF Fresh
  <2>3. CASE r.query > n
    <3>1. h.query > n
      BY <1>1, <2>3
    <3>2. Coming(n) => Coming(n)'
      <4>. HAVE Coming(n)
      <4>1. CASE \E i \in 1 .. Len(handlers) : handlers[i].query <= n
        <5>1. ~(h.query <= n)
          BY <1>3, <2>0, <3>1
        <5>. QED
          BY <1>2, <1>4, <4>1, <5>1 DEF Coming
      <4>. QED
        BY <1>0, <4>1 DEF Coming
    <3>3. Fresh(n)
      BY DEF Signals, AllFresh
    <3>4. Coming(n) \/ \A i \in 1 .. 5 : ShownIn(Kind[n], book, copy, i)
      BY <1>0, <3>3 DEF Fresh
    <3>5. r.query # n
      BY <1>1, <1>3, <2>0, <2>3
    <3>. QED
      BY <1>0, <1>1, <3>2, <3>4, <3>5 DEF Fresh
  <2>. QED
    BY <1>1, <1>3, <2>0, <2>1, <2>2, <2>3
<1>7. StartsClean'
  BY <1>2 DEF Signals, StartsClean
<1>8. ToldRight'
  <2>1. ASSUME Clean' PROVE Clean
    <3>1. \A i \in 1 .. Len(handlers) : ~handlers[i].changed
      BY <1>1, <1>2, <2>1 DEF Clean
    <3>. QED
      BY <1>0, <2>1, <3>1 DEF Clean
  <2>. QED
    BY <1>0, <2>1 DEF Signals, ToldRight, NeverRead
<1>. QED
  BY <1>5, <1>6, <1>7, <1>8 DEF Signals

\* The price read is that of the block at the time.
LEMMA PriceSignals ==
  ASSUME Types, Signals, ReadPrice
  PROVE  Signals'
<1>0. /\ UNCHANGED <<notify, bookOps, book, subscriber, handlers, copy, told>> /\ Kind' = Kind
      /\ reading # << >>
  BY DEF ReadPrice, OnSubscriberStrand, Kind
<1>1. PICK r : reading = <<r>> /\ GoodRead(r) /\ r \in Reads
  BY <1>0 DEF Types, ReaderTypes, GoodRead
<1>2. PICK q : q = Kind[r.query]
  OBVIOUS
<1>3. PICK n, quote, d :
        /\ n \in CameTo(r) /\ quote \in Memory(q.side, n)
        /\ reading' = <<[r EXCEPT !.block = <<n>>, !.price = quote.price, !.seen = d]>>
        /\ d = IF Torn(r) THEN << >> ELSE r.seen
  BY <1>1, <1>2 DEF ReadPrice, AtQuery, Kind
<1>4. /\ GoodBook(book) /\ subscriber \in Subscribers /\ q.side \in Sides /\ q.depth \in 0 .. 5
      /\ r.level \in Nat \ {0}
  BY <1>1, <1>2, QueriesAre DEF Types, BookTypes, ReaderTypes, Reads
<1>5. PICK t : t = [r EXCEPT !.block = <<n>>, !.price = quote.price, !.seen = d]
  OBVIOUS
<1>6. /\ reading' = <<t>> /\ t.query = r.query /\ t.changed = r.changed /\ t.level = r.level
      /\ t.block = <<n>> /\ t.price = quote.price /\ t.seen = d
  BY <1>1, <1>3, <1>5 DEF Reads
<1>7. /\ reading[1] = r /\ reading # << >> /\ reading'[1] = t /\ reading' # << >>
  BY <1>1, <1>6
<1>8. AllFresh'
  <2>. SUFFICES ASSUME NEW k \in 1 .. Len(Kind) PROVE Fresh(k)'
    BY <1>0 DEF AllFresh
  <2>1. Fresh(k) /\ (Coming(k) => Coming(k)')
    BY <1>0 DEF Signals, AllFresh, Coming
  <2>2. PartlyIn(q, book, copy, r) => PartlyIn(q, book, copy, t)
    <3>. HAVE PartlyIn(q, book, copy, r)
    <3>0. Torn(r) <=> r.seen # <<Nodes(book[q.side])>>
      BY <1>2 DEF Torn, AtQuery, Kind
    <3>1. \A i \in 1 .. 5 : i < t.level => ShownIn(q, book, copy, i)
      BY <1>6 DEF PartlyIn
    <3>2. t.seen # <<Nodes(book[q.side])>> => book[q.side].tree = {}
      <4>1. CASE Torn(r)
        BY <3>0, <4>1 DEF PartlyIn
      <4>2. CASE ~Torn(r)
        BY <1>3, <1>6, <3>0, <4>2
      <4>. QED
        BY <4>1, <4>2
    <3>3. CASE Torn(r)
      <4>1. book[q.side].tree = {}
        BY <3>0, <3>3 DEF PartlyIn
      <4>2. Visited(q, book, t.level) = << >>
        BY <1>4, <1>6, <4>1, NothingThere
      <4>. QED
        BY <3>1, <3>2, <4>2 DEF PartlyIn
    <3>4. CASE ~Torn(r)
      <4>1. Visited(q, book, r.level) = <<n>>
        BY <1>1, <1>2, <1>3, <1>4, <3>4, CameToIs
      <4>2. n # 0
        <5>0. PICK l \in Nat \ {0} : l = r.level
          BY <1>4
        <5>1. PICK b : <<n>> = <<b>> /\ b \in 1 .. Len(book[q.side].level) /\ b \in Nat
          <6>0. Visited(q, book, l) = Visited(q, book, r.level)
            BY <5>0
          <6>1. Visited(q, book, l) # << >>
            <7>. <<n>> # << >>
              OBVIOUS
            <7>. QED
              BY <4>1, <6>0
          <6>2. \E b \in book[q.side].tree :
                  Visited(q, book, l) = <<b>> /\ b \in 1 .. Len(book[q.side].level) /\ b \in Nat
            BY <1>4, <6>1, VisitedIs
          <6>. QED
            BY <4>1, <5>0, <6>2
        <5>2. n = b
          BY <5>1
        <5>. QED
          BY <5>1, <5>2
      <4>3. quote = book[q.side].level[n]
        BY <1>3, <4>2 DEF Memory
      <4>4. t.block = Visited(q, book, t.level) /\ t.price = book[q.side].level[t.block[1]].price
        BY <1>6, <4>1, <4>3
      <4>. QED
        BY <3>1, <3>2, <4>4 DEF PartlyIn
    <3>. QED
      BY <3>3, <3>4
  <2>3. r.query = k /\ PartlyIn(Kind[k], book, copy, r) => PartlyIn(Kind[k], book, copy, t)
    BY <1>2, <2>2
  <2>. QED
    BY <1>0, <1>6, <1>7, <2>1, <2>3 DEF Fresh
<1>9. EventsAnnounced' /\ StartsClean'
  BY <1>0 DEF Signals, EventsAnnounced, Announced, StartsClean
<1>10. ToldRight'
  <2>1. Clean' => Clean
    BY <1>0, <1>6, <1>7 DEF Clean
  <2>. QED
    BY <1>0, <2>1 DEF Signals, ToldRight, NeverRead
<1>. QED
  BY <1>8, <1>9, <1>10 DEF Signals

\* A read that ends has read every level, or the next query follows it.
LEMMA EndSignals ==
  ASSUME Types, Signals, EndRead
  PROVE  Signals'
<1>0. /\ UNCHANGED <<notify, book, subscriber, handlers, copy>> /\ Kind' = Kind
      /\ reading # << >> /\ reading' = << >> /\ subscriber \in Subscribers
      /\ bookOps \in Seq(Ops) /\ Len(bookOps) \in Nat /\ GoodBook(book)
  BY LenProperties DEF EndRead, OnSubscriberStrand, Kind, Types, BookTypes, ReaderTypes
<1>1. PICK r : reading = <<r>> /\ r \in Reads /\ GoodRead(r)
  BY <1>0 DEF Types, ReaderTypes, GoodRead
<1>2. PICK m \in 1 .. Len(Kind) : m = r.query /\ m \in Nat
  BY <1>0, <1>1, QueriesAre DEF Reads
<1>3. PICK q : q = Kind[m] /\ q.side \in Sides /\ q.depth \in 0 .. 5
  BY <1>0, <1>2, QueriesAre
<1>4. (CameTo(r) = {} \/ Torn(r)) /\ r.changed \in BOOLEAN
  BY <1>1 DEF EndRead, Reads
<1>5. /\ m < Len(Kind) => AskBook(m + 1, r.changed) /\ UNCHANGED told
      /\ ~(m < Len(Kind)) => UNCHANGED bookOps /\ told' = IF r.changed THEN <<copy>> ELSE told
  BY <1>1, <1>2 DEF EndRead, HasNextQuery, Kind
<1>6. reading[1] = r /\ reading # << >> /\ r.query = m
  BY <1>1, <1>2
<1>7. PartlyIn(q, book, copy, r) => \A i \in 1 .. 5 : ShownIn(q, book, copy, i)
  <2>. SUFFICES ASSUME PartlyIn(q, book, copy, r), NEW i \in 1 .. 5, Visited(q, book, i) # << >>
                PROVE  ShownIn(q, book, copy, i)
    BY DEF ShownIn
  <2>1. r.level \in Nat \ {0} /\ i \in Nat \ {0}
    BY <1>1 DEF Reads
  <2>2. Cardinality(book[q.side].tree) \in Nat
    BY <1>0, <1>3, OwnBlocks DEF GoodBook
  <2>3. i <= q.depth /\ i <= Cardinality(book[q.side].tree)
    BY <1>0, <1>3, <2>1, VisitedIs
  <2>4. ~(r.level <= q.depth /\ r.level <= Cardinality(book[q.side].tree))
    <3>1. ~Torn(r)
      <4>1. book[q.side].tree # {}
        BY <1>0, <2>1, NothingThere
      <4>2. r.seen = <<Nodes(book[q.side])>>
        BY <4>1 DEF PartlyIn
      <4>. QED
        BY <1>2, <1>3, <4>2 DEF Torn, AtQuery, Kind
    <3>2. ToSet(Visited(q, book, r.level)) = {}
      BY <1>2, <1>3, <1>4, <3>1 DEF CameTo, AtQuery, Kind
    <3>3. Visited(q, book, r.level) = << >>
      <4>1. ASSUME NEW n, Visited(q, book, r.level) = <<n>> PROVE FALSE
        <5>1. ToSet(<<n>>) = {n}
          BY DEF ToSet
        <5>. QED
          BY <3>2, <4>1, <5>1
      <4>2. Visited(q, book, r.level) # << >> => \E n : Visited(q, book, r.level) = <<n>>
        BY <1>0, <1>3, <2>1, VisitedIs
      <4>. QED
        BY <4>1, <4>2
    <3>. QED
      BY <1>0, <1>3, <2>1, <3>3, VisitedIs
  <2>5. i < r.level
    BY <1>3, <2>1, <2>2, <2>3, <2>4
  <2>. QED
    BY <2>5 DEF PartlyIn
<1>8. \A i \in 1 .. Len(bookOps) : i \in 1 .. Len(bookOps') /\ bookOps'[i] = bookOps[i]
  <2>1. CASE m < Len(Kind)
    <3>. DEFINE o == [op |-> "query", query |-> m + 1, changed |-> r.changed]
    <3>1. m + 1 \in 1 .. Len(Kind)
      BY <1>0, <1>2, <2>1, QueriesAre
    <3>2. o \in Ops
      BY <1>4, <3>1 DEF Ops, Passes
    <3>3. bookOps' = Append(bookOps, o)
      BY <1>5, <2>1 DEF AskBook
    <3>. HIDE DEF o
    <3>. QED
      BY <1>0, <3>2, <3>3, Appended
  <2>2. CASE ~(m < Len(Kind))
    BY <1>5, <2>2
  <2>. QED
    BY <2>1, <2>2
<1>9. m < Len(Kind) => /\ Len(bookOps') = Len(bookOps) + 1
                       /\ Len(bookOps) + 1 \in 1 .. Len(bookOps')
                       /\ bookOps'[Len(bookOps) + 1].op = "query"
                       /\ bookOps'[Len(bookOps) + 1].query = m + 1
                       /\ bookOps'[Len(bookOps) + 1].changed = r.changed
  <2>. HAVE m < Len(Kind)
  <2>. DEFINE o == [op |-> "query", query |-> m + 1, changed |-> r.changed]
  <2>1. m + 1 \in 1 .. Len(Kind)
    BY <1>0, <1>2, QueriesAre
  <2>2. o \in Ops /\ o.op = "query" /\ o.query = m + 1 /\ o.changed = r.changed
    BY <1>4, <2>1 DEF Ops, Passes
  <2>3. bookOps' = Append(bookOps, o)
    BY <1>5 DEF AskBook
  <2>. HIDE DEF o
  <2>. QED
    BY <1>0, <2>2, <2>3, Appended
<1>10. AllFresh'
  <2>. SUFFICES ASSUME NEW n \in 1 .. Len(Kind) PROVE Fresh(n)'
    BY <1>0 DEF AllFresh
  <2>1. Fresh(n) /\ (Coming(n) => Coming(n)')
    BY <1>0, <1>8 DEF Signals, AllFresh, Coming
  <2>2. CASE m < n
    <3>1. m < Len(Kind) /\ m + 1 <= n
      BY <1>0, <1>2, <2>2, QueriesAre
    <3>. QED
      BY <1>9, <3>1 DEF Fresh, Coming
  <2>3. CASE ~(m < n)
    <3>1. Coming(n) \/ \A i \in 1 .. 5 : ShownIn(Kind[n], book, copy, i)
      BY <1>3, <1>6, <1>7, <2>1, <2>3 DEF Fresh
    <3>. QED
      BY <1>0, <2>1, <3>1 DEF Fresh
  <2>. QED
    BY <2>2, <2>3
<1>11. EventsAnnounced'
  <2>. SUFFICES ASSUME NEW i \in 1 .. Len(bookOps'), bookOps'[i].op = "event"
                PROVE  Announced(i)'
    BY DEF EventsAnnounced
  <2>1. i \in 1 .. Len(bookOps) /\ bookOps[i].op = "event"
    <3>1. CASE m < Len(Kind)
      <4>1. i # Len(bookOps) + 1
        BY <1>9, <3>1
      <4>2. i \in 1 .. Len(bookOps)
        BY <1>0, <1>9, <3>1, <4>1
      <4>. QED
        BY <1>8, <4>2
    <3>2. CASE ~(m < Len(Kind))
      BY <1>5, <3>2
    <3>. QED
      BY <3>1, <3>2
  <2>2. Announced(i)
    BY <2>1 DEF Signals, EventsAnnounced
  <2>. QED
    BY <1>0, <1>8, <2>2 DEF Announced
<1>12. StartsClean'
  BY <1>0 DEF Signals, StartsClean
<1>13. ToldRight'
  <2>. SUFFICES ASSUME Clean' PROVE told' = <<copy>> \/ (NeverRead /\ told' = told)
    BY <1>0 DEF ToldRight, NeverRead
  <2>1. ASSUME ~r.changed PROVE Clean
    BY <1>0, <1>6, <1>8, <2>1 DEF Clean
  <2>2. CASE m < Len(Kind)
    <3>1. ~r.changed
      BY <1>9, <2>2 DEF Clean
    <3>. QED
      BY <1>5, <2>1, <2>2, <3>1 DEF Signals, ToldRight
  <2>3. CASE ~(m < Len(Kind))
    BY <1>5, <2>1, <2>3 DEF Signals, ToldRight
  <2>. QED
    BY <2>2, <2>3
<1>. QED
  BY <1>10, <1>11, <1>12, <1>13 DEF Signals

\* A level read differs from the copy no more, and the callback is owed what was new.
LEMMA QtySignals ==
  ASSUME Types, Signals, ReadQty
  PROVE  Signals'
<1>0. /\ UNCHANGED <<notify, bookOps, book, subscriber, handlers, told>> /\ Kind' = Kind
      /\ reading # << >> /\ reading[1].block # << >> /\ subscriber \in Subscribers
      /\ copy \in [Sides -> [1 .. 5 -> Quotes]]
  BY DEF ReadQty, OnSubscriberStrand, Kind, Types, ReaderTypes
<1>1. PICK r : reading = <<r>> /\ GoodRead(r) /\ r.block # << >>
  BY <1>0 DEF Types, ReaderTypes
<1>2. PICK m \in 1 .. Len(Kind) : m = r.query /\ m \in Nat
  BY <1>0, <1>1, QueriesAre DEF GoodRead, Reads
<1>3. PICK q : /\ q = Kind[m] /\ q.side \in Sides /\ q.depth \in 0 .. 5 /\ q.withQty \in BOOLEAN
  BY <1>0, <1>2, QueriesAre
<1>4. PICK l \in 1 .. 5 : l = r.level
  BY <1>1, <1>2, <1>3 DEF GoodRead, Reads
<1>5. PICK quote, new :
      /\ quote \in Memory(q.side, r.block[1])
      /\ new = [price |-> r.price, qty |-> IF q.withQty THEN quote.qty ELSE 0]
      /\ copy' = IF Differs(q, copy[q.side][l], new)
                 THEN [copy EXCEPT ![q.side][l] = new] ELSE copy
      /\ reading' = <<[r EXCEPT !.level = @ + 1, !.block = << >>, !.price = 0,
                         !.changed = Noticed(@, copy' # copy)]>>
  <2>1. AtQuery(r.query) = q /\ reading[1] = r
    BY <1>1, <1>2, <1>3 DEF AtQuery, Kind
  <2>. QED
    BY <1>4, <2>1 DEF ReadQty
<1>6. /\ copy' = IF Differs(q, copy[q.side][l], new)
                 THEN [copy EXCEPT ![q.side][l] = new] ELSE copy
      /\ reading' = <<[r EXCEPT !.level = @ + 1, !.block = << >>, !.price = 0,
                         !.changed = Noticed(@, copy' # copy)]>>
  BY <1>5
<1>7. PICK t : t = [r EXCEPT !.level = @ + 1, !.block = << >>, !.price = 0,
                      !.changed = Noticed(@, copy' # copy)]
  OBVIOUS
<1>8. /\ reading' = <<t>> /\ t.query = m /\ t.level = l + 1 /\ t.block = << >>
      /\ t.seen = r.seen
      /\ t.changed = Noticed(r.changed, copy' # copy)
  BY <1>1, <1>2, <1>4, <1>6, <1>7 DEF GoodRead, Reads
<1>9. /\ reading[1] = r /\ r.query = m /\ reading'[1] = t /\ reading' # << >>
  BY <1>1, <1>2, <1>8
<1>10. /\ \A s \in Sides : s # q.side => copy'[s] = copy[s]
       /\ \A i \in 1 .. 5 : i # l => copy'[q.side][i] = copy[q.side][i]
  BY <1>0, <1>3, <1>6
<1>11. ~Differs(q, copy'[q.side][l], new)
  <2>1. CASE Differs(q, copy[q.side][l], new)
    <3>1. copy'[q.side][l] = new
      BY <1>0, <1>3, <1>6, <2>1
    <3>. QED
      BY <3>1 DEF Differs
  <2>2. CASE ~Differs(q, copy[q.side][l], new)
    BY <1>6, <2>2
  <2>. QED
    BY <2>1, <2>2
<1>12. PartlyIn(q, book, copy, r) => PartlyIn(q, book, copy', t)
  <2>. HAVE PartlyIn(q, book, copy, r)
  <2>. SUFFICES ASSUME NEW i \in 1 .. 5, i < l + 1 PROVE ShownIn(q, book, copy', i)
    BY <1>8 DEF PartlyIn
  <2>1. CASE i = l
    <3>. SUFFICES ASSUME Visited(q, book, l) # << >>
                  PROVE  ~Differs(q, copy'[q.side][l], book[q.side].level[Visited(q, book, l)[1]])
      BY <2>1 DEF ShownIn
    <3>1. r.block = Visited(q, book, l) /\ r.price = book[q.side].level[r.block[1]].price
      BY <1>1, <1>4 DEF PartlyIn
    <3>2. /\ new.price = book[q.side].level[r.block[1]].price
          /\ q.withQty => new.qty = book[q.side].level[r.block[1]].qty
      <4>1. GoodBook(book) /\ l \in Nat \ {0}
        BY DEF Types, BookTypes
      <4>2. PICK b \in Nat : r.block = <<b>> /\ b \in 1 .. Len(book[q.side].level)
        BY <1>3, <3>1, <4>1, VisitedIs
      <4>3. r.block[1] # 0
        BY <4>2
      <4>4. quote = book[q.side].level[r.block[1]]
        BY <1>5, <4>3 DEF Memory
      <4>. QED
        BY <1>5, <3>1, <4>4
    <3>. QED
      BY <1>11, <3>1, <3>2 DEF Differs
  <2>2. CASE i # l
    <3>1. i < r.level /\ copy'[q.side][i] = copy[q.side][i]
      BY <1>4, <1>10, <2>2
    <3>2. ShownIn(q, book, copy, i)
      BY <3>1 DEF PartlyIn
    <3>. QED
      BY <3>1, <3>2 DEF ShownIn
  <2>. QED
    BY <2>1, <2>2
<1>13. \A n \in 1 .. Len(Kind) : n # m => Kind[n].side # q.side /\ Kind[n].side \in Sides
  BY <1>0, <1>2, <1>3, QueriesAre
<1>14. AllFresh'
  <2>. SUFFICES ASSUME NEW n \in 1 .. Len(Kind) PROVE Fresh(n)'
    BY <1>0 DEF AllFresh
  <2>1. Fresh(n) /\ (Coming(n) => Coming(n)')
    BY <1>0 DEF Signals, AllFresh, Coming
  <2>2. CASE n = m
    <3>0. ~(m < n)
      BY <1>2, <2>2
    <3>1. Coming(n) \/ PartlyIn(q, book, copy, r)
      BY <1>0, <1>3, <1>9, <2>1, <2>2, <3>0 DEF Fresh
    <3>2. Coming(n)' \/ PartlyIn(q, book, copy', t)
      BY <1>12, <2>1, <3>1
    <3>. QED
      BY <1>0, <1>3, <1>8, <1>9, <2>2, <3>2 DEF Fresh
  <2>3. CASE n # m
    <3>1. PICK k : k = Kind[n] /\ copy'[k.side] = copy[k.side]
      BY <1>10, <1>13, <2>3
    <3>2. \A i \in 1 .. 5 : ShownIn(k, book, copy, i) => ShownIn(k, book, copy', i)
      BY <3>1 DEF ShownIn
    <3>3. Coming(n) \/ m < n \/ \A i \in 1 .. 5 : ShownIn(k, book, copy, i)
      BY <1>9, <2>1, <2>3, <3>1 DEF Fresh
    <3>4. Coming(n)' \/ m < n \/ \A i \in 1 .. 5 : ShownIn(k, book, copy', i)
      BY <2>1, <3>2, <3>3
    <3>. QED
      BY <1>0, <1>8, <1>9, <2>3, <3>1, <3>4 DEF Fresh
  <2>. QED
    BY <2>2, <2>3
<1>15. EventsAnnounced' /\ StartsClean'
  BY <1>0 DEF Signals, EventsAnnounced, Announced, StartsClean
<1>16. ToldRight'
  <2>. SUFFICES ASSUME Clean' PROVE Clean /\ copy' = copy
    BY <1>0 DEF Signals, ToldRight, NeverRead
  <2>1. ~t.changed
    BY <1>9 DEF Clean
  <2>2. ~r.changed /\ copy' = copy
    BY <1>8, <2>1 DEF Noticed
  <2>. QED
    BY <1>0, <1>9, <2>2 DEF Clean
<1>. QED
  BY <1>14, <1>15, <1>16 DEF Signals

\* The invariant of the signals is inductive.
LEMMA KeepSignals ==
  ASSUME Types, Signals, [Next]_vars
  PROVE  Signals'
<1>1. CASE Exchange \/ Listener \/ UNCHANGED vars
  <2>1. UNCHANGED SignalState
    BY <1>1, Frames, Stutter DEF SignalState
  <2>. QED
    BY <2>1, SignalsKept
<1>2. CASE Sync
  BY <1>2, SyncSignals
<1>3. CASE OrderBook
  BY <1>3, EventSignals, ClearSignals, PassSignals DEF OrderBook
<1>4. CASE Subscriber
  BY <1>4, UpdateSignals, ReadSignals, PriceSignals, QtySignals, EndSignals DEF Subscriber
<1>. QED
  BY <1>1, <1>2, <1>3, <1>4 DEF Next

\* With no signal on its way, the copy shows the book and was told.
LEMMA SignalsTell == Types /\ Signals => SubscriberIsTold
<1>. SUFFICES ASSUME Types, Signals PROVE CaughtUp /\ CopyWasTold
  BY DEF SubscriberIsTold
<1>0. bookOps \in Seq(Ops) /\ handlers \in Seq(Handlers) /\ subscriber \in Subscribers
  BY DEF Types, BookTypes, ReaderTypes
<1>1. CaughtUp
  <2>. SUFFICES ASSUME Quiet, NEW n \in DOMAIN Queries[subscriber]
                PROVE  Shows(Queries[subscriber][n])
    BY DEF CaughtUp
  <2>1. n \in 1 .. Len(Kind) /\ Kind[n] = Queries[subscriber][n]
    <3>1. DOMAIN Kind = 1 .. Len(Kind)
      BY <1>0, SubscribersAssumption DEF Kind, Queries
    <3>. QED
      BY <3>1 DEF Kind
  <2>2. /\ ~notify /\ reading = << >>
        /\ ~\E i \in 1 .. Len(handlers) : TRUE
        /\ ~\E i \in 1 .. Len(bookOps) : TRUE
    BY DEF Quiet
  <2>3. Fresh(n) /\ ~Coming(n)
    BY <2>1, <2>2 DEF Signals, AllFresh, Coming
  <2>4. \A i \in 1 .. 5 : ShownIn(Kind[n], book, copy, i)
    BY <2>2, <2>3 DEF Fresh
  <2>. QED
    BY <2>1, <2>4 DEF ShownIn, Shows
<1>2. CopyWasTold
  <2>. SUFFICES ASSUME \A h \in ToSet(handlers) : ~h.changed,
                       \A o \in ToSet(bookOps) : o.op # "query" \/ ~o.changed,
                       reading = << >>
                PROVE  told = <<copy>> \/ NeverRead
    BY DEF CopyWasTold, NeverRead
  <2>1. /\ \A i \in 1 .. Len(handlers) : handlers[i] \in ToSet(handlers)
        /\ \A i \in 1 .. Len(bookOps) : bookOps[i] \in ToSet(bookOps)
    BY <1>0, Members
  <2>2. Clean
    BY <2>1 DEF Clean
  <2>. QED
    BY <2>2 DEF Signals, ToldRight
<1>. QED
  BY <1>1, <1>2

\* A subscriber that has nothing left to do has a copy that shows the book, and its callback
\* was told all that is news in it (order_book.h:305 to 435, order_book_subscribers.h:86 to 97).
THEOREM SubscriberAlwaysTold == Spec => []SubscriberIsTold
<1>. QED
  BY InitTypes, InitSignals, KeepTypes, KeepSignals, SignalsTell, PTL DEF Spec

-----------------------------------------------------------------------------
(* What the operations sent to the book make of it.                        *)

RunOp(m, o) == CASE o.op = "clear" -> [bid |-> << >>, ask |-> << >>]
                 [] o.op = "event" -> Changed(m, o.changes)
                 [] o.op = "query" -> m

Result(m, ops) ==
  FoldLeft(LAMBDA acc, o : CASE o.op = "clear" -> [bid |-> << >>, ask |-> << >>]
                             [] o.op = "event" -> Changed(acc, o.changes)
                             [] o.op = "query" -> acc,
           m, ops)

\* Operations run one after the other.
LEMMA ResultRuns ==
  ASSUME NEW m, NEW cs, NEW n \in Nat, DOMAIN cs = 1 .. n
  PROVE  \E F : /\ F[0] = m /\ F[n] = Result(m, cs)
                /\ \A i \in 1 .. n : F[i] = RunOp(F[i - 1], cs[i])
<1>. DEFINE Goes(T, G) == G = [s \in SUBSET T |->
                                 IF s = {} THEN m ELSE RunOp(G[s \ {Max(s)}], cs[Max(s)])]
            H == CHOOSE G : Goes(1 .. n, G)
            P == {T \in SUBSET (1 .. n) : \E G : Goes(T, G)}
<1>1. Result(m, cs) = H[1 .. n]
  BY DEF Result, FoldLeft, MapThenFoldSet, RunOp
<1>2. {} \in P
  <2>. DEFINE G == [s \in SUBSET {} |-> m]
  <2>1. Goes({}, G)
    OBVIOUS
  <2>. QED
    BY <2>1
<1>3. ASSUME NEW T \in SUBSET (1 .. n), T # {} PROVE \E x \in T : T \ {x} \in P => T \in P
  <2>. DEFINE x == Max(T)
  <2>1. x \in T /\ \A y \in T : x >= y
    BY <1>3, LastOf
  <2>. SUFFICES ASSUME T \ {x} \in P PROVE T \in P
    BY <2>1
  <2>2. PICK G : Goes(T \ {x}, G)
    OBVIOUS
  <2>3. ASSUME NEW s \in SUBSET T, x \in s PROVE Max(s) = x
    <3>. HIDE DEF x
    <3>1. Max(s) \in s /\ Max(s) >= x
      BY <2>3, LastOf
    <3>2. Max(s) \in T /\ x >= Max(s)
      BY <2>1, <3>1
    <3>3. \A y \in T : y \in Int
      OBVIOUS
    <3>4. x \in Int /\ Max(s) \in Int
      BY <2>1, <3>2, <3>3
    <3>5. PICK y : y = Max(s)
      OBVIOUS
    <3>6. y \in Int /\ y >= x /\ x >= y
      BY <3>1, <3>2, <3>4, <3>5
    <3>7. y = x
      BY <3>4, <3>6
    <3>. QED
      BY <3>5, <3>7
  <2>4. ASSUME NEW s \in SUBSET T, x \notin s
        PROVE  s \in SUBSET (T \ {x}) /\ s \ {Max(s)} \in SUBSET T /\ x \notin s \ {Max(s)}
    BY <2>4
  <2>. HIDE DEF x
  <2>. DEFINE K == [s \in SUBSET T |-> IF x \in s THEN RunOp(G[s \ {x}], cs[x]) ELSE G[s]]
  <2>5. ASSUME NEW s \in SUBSET T
        PROVE  K[s] = IF s = {} THEN m ELSE RunOp(K[s \ {Max(s)}], cs[Max(s)])
    <3>1. CASE x \in s
      <4>1. s # {} /\ Max(s) = x /\ s \ {x} \in SUBSET T /\ x \notin s \ {x}
        BY <2>3, <3>1
      <4>2. K[s] = RunOp(G[s \ {x}], cs[x]) /\ K[s \ {x}] = G[s \ {x}]
        BY <3>1, <4>1
      <4>. HIDE DEF K
      <4>. QED
        BY <4>1, <4>2
    <3>2. CASE x \notin s
      <4>1. /\ s \in SUBSET (T \ {x}) /\ s \ {Max(s)} \in SUBSET T /\ x \notin s \ {Max(s)}
            /\ s \ {Max(s)} \in SUBSET (T \ {x})
        BY <2>4, <3>2
      <4>2. K[s] = G[s] /\ K[s \ {Max(s)}] = G[s \ {Max(s)}]
        BY <3>2, <4>1
      <4>3. G[s] = IF s = {} THEN m ELSE RunOp(G[s \ {Max(s)}], cs[Max(s)])
        BY <2>2, <4>1
      <4>. HIDE DEF K
      <4>. QED
        BY <4>2, <4>3
    <3>. QED
      BY <3>1, <3>2
  <2>6. Goes(T, K)
    <3>1. K = [s \in SUBSET T |-> K[s]]
      OBVIOUS
    <3>. HIDE DEF K
    <3>. QED
      BY <2>5, <3>1
  <2>. QED
    BY <2>6
<1>4. 1 .. n \in P
  <2>1. IsFiniteSet(1 .. n)
    <3>1. PICK k \in Int : k = 1
      OBVIOUS
    <3>2. FS!IsFiniteSet(k .. n)
      BY FS!FS_Interval
    <3>. QED
      BY <3>1, <3>2, SameFinite
  <2>. HIDE DEF P
  <2>. QED
    BY <1>2, <1>3, <2>1, BySize
<1>5. Goes(1 .. n, H)
  BY <1>4
<1>6. \A s \in SUBSET (1 .. n) :
        H[s] = IF s = {} THEN m ELSE RunOp(H[s \ {Max(s)}], cs[Max(s)])
  BY <1>5
<1>. HIDE DEF H, P
<1>. DEFINE F == [i \in 0 .. n |-> H[1 .. i]]
<1>7. F[0] = m
  <2>1. 1 .. 0 = {} /\ {} \in SUBSET (1 .. n) /\ F[0] = H[1 .. 0]
    OBVIOUS
  <2>2. H[{}] = m
    BY <1>6, <2>1
  <2>3. F[0] = H[{}]
    BY <2>1
  <2>. HIDE DEF F
  <2>. QED
    BY <2>2, <2>3
<1>8. ASSUME NEW i \in 1 .. n PROVE F[i] = RunOp(F[i - 1], cs[i])
  <2>0. i \in Nat \ {0}
    OBVIOUS
  <2>1. Max(1 .. i) = i /\ (1 .. i) \ {i} = 1 .. (i - 1) /\ (1 .. i) # {}
    BY <2>0, LastUpTo
  <2>2. F[i] = H[1 .. i] /\ F[i - 1] = H[1 .. (i - 1)] /\ 1 .. i \in SUBSET (1 .. n)
    OBVIOUS
  <2>. HIDE DEF F
  <2>3. H[1 .. i] = RunOp(H[(1 .. i) \ {Max(1 .. i)}], cs[Max(1 .. i)])
    BY <1>6, <2>1, <2>2
  <2>. QED
    BY <2>1, <2>2, <2>3
<1>9. F[n] = Result(m, cs)
  BY <1>1
<1>. QED
  BY <1>7, <1>8, <1>9

\* The projection of the model, in the words of this section.
LEMMA ProjectedIs == Projected = Result(Held(book), bookOps)
BY DEF Projected, Result, Held

\* No operation changes nothing.
LEMMA ResultEmpty ==
  ASSUME NEW m
  PROVE  Result(m, << >>) = m
<1>1. DOMAIN << >> = 1 .. 0
  OBVIOUS
<1>2. PICK F : F[0] = m /\ F[0] = Result(m, << >>)
  BY <1>1, ResultRuns
<1>. QED
  BY <1>2

\* One operation more.
LEMMA ResultAppend ==
  ASSUME NEW S, NEW ops \in Seq(S), NEW o \in S, NEW m
  PROVE  Result(m, Append(ops, o)) = RunOp(Result(m, ops), o)
<1>. DEFINE n == Len(ops)
            a == Append(ops, o)
<1>1. /\ n \in Nat /\ DOMAIN ops = 1 .. n /\ a \in Seq(S) /\ Len(a) = n + 1 /\ a[n + 1] = o
      /\ \A i \in 1 .. n : a[i] = ops[i]
  BY Appended, LenProperties
<1>2. DOMAIN a = 1 .. (n + 1)
  BY <1>1, LenProperties
<1>. HIDE DEF n, a
<1>3. PICK F : /\ F[0] = m /\ F[n] = Result(m, ops)
               /\ \A i \in 1 .. n : F[i] = RunOp(F[i - 1], ops[i])
  BY <1>1, ResultRuns
<1>4. n + 1 \in Nat
  BY <1>1
<1>5. PICK G : /\ G[0] = m /\ G[n + 1] = Result(m, a)
               /\ \A i \in 1 .. (n + 1) : G[i] = RunOp(G[i - 1], a[i])
  BY <1>2, <1>4, ResultRuns
<1>. DEFINE T == {i \in 0 .. n : F[i] = G[i]}
<1>6. 0 \in T
  BY <1>1, <1>3, <1>5
<1>7. ASSUME NEW i \in 1 .. n, i - 1 \in T PROVE i \in T
  <2>1. i \in 1 .. (n + 1)
    BY <1>1
  <2>2. F[i] = RunOp(F[i - 1], ops[i]) /\ G[i] = RunOp(G[i - 1], ops[i]) /\ F[i - 1] = G[i - 1]
    BY <1>1, <1>3, <1>5, <1>7, <2>1
  <2>. QED
    BY <1>1, <2>2
<1>8. n \in T
  <2>. HIDE DEF T
  <2>1. n \in 0 .. n
    BY <1>1
  <2>. QED
    BY <1>1, <1>6, <1>7, <2>1, UpTo
<1>9. n + 1 \in 1 .. (n + 1) /\ (n + 1) - 1 = n
  BY <1>1
<1>10. G[n + 1] = RunOp(G[n], o)
  BY <1>1, <1>5, <1>9
<1>. QED
  BY <1>3, <1>5, <1>8, <1>10 DEF a

\* One operation done.
LEMMA ResultHead ==
  ASSUME NEW S, NEW ops \in Seq(S), ops # << >>, NEW m
  PROVE  Result(m, ops) = Result(RunOp(m, Head(ops)), Tail(ops))
<1>. DEFINE n == Len(ops) - 1
            t == Tail(ops)
<1>1. /\ n \in Nat /\ Len(ops) = n + 1 /\ DOMAIN ops = 1 .. (n + 1) /\ t \in Seq(S) /\ Len(t) = n
      /\ Head(ops) = ops[1] /\ \A i \in 1 .. n : t[i] = ops[i + 1]
  <2>1. Len(ops) \in Nat \ {0} /\ DOMAIN ops = 1 .. Len(ops)
    BY Shifted, LenProperties
  <2>. QED
    BY <2>1, Shifted
<1>2. DOMAIN t = 1 .. n
  BY <1>1, LenProperties
<1>. HIDE DEF n, t
<1>3. n + 1 \in Nat /\ 1 \in 1 .. (n + 1)
  BY <1>1
<1>4. PICK F : /\ F[0] = m /\ F[n + 1] = Result(m, ops)
               /\ \A i \in 1 .. (n + 1) : F[i] = RunOp(F[i - 1], ops[i])
  <2>1. PICK l \in Nat : l = n + 1
    BY <1>3
  <2>2. DOMAIN ops = 1 .. l
    BY <1>1, <2>1
  <2>3. \E F : /\ F[0] = m /\ F[l] = Result(m, ops)
               /\ \A i \in 1 .. l : F[i] = RunOp(F[i - 1], ops[i])
    BY <2>2, ResultRuns
  <2>. QED
    BY <2>1, <2>3
<1>5. F[1] = RunOp(m, Head(ops))
  <2>1. F[1] = RunOp(F[1 - 1], ops[1])
    BY <1>3, <1>4
  <2>. QED
    BY <1>1, <1>4, <2>1
<1>6. PICK k : k = RunOp(m, Head(ops))
  OBVIOUS
<1>7. PICK G : /\ G[0] = k /\ G[n] = Result(k, t)
               /\ \A i \in 1 .. n : G[i] = RunOp(G[i - 1], t[i])
  BY <1>1, <1>2, ResultRuns
<1>. DEFINE T == {i \in 0 .. n : F[i + 1] = G[i]}
<1>8. 0 \in T
  BY <1>1, <1>5, <1>6, <1>7
<1>9. ASSUME NEW i \in 1 .. n, i - 1 \in T PROVE i \in T
  <2>1. i + 1 \in 1 .. (n + 1) /\ (i + 1) - 1 = (i - 1) + 1
    BY <1>1
  <2>2. F[i + 1] = RunOp(F[(i - 1) + 1], ops[i + 1])
    BY <1>4, <2>1
  <2>3. G[i] = RunOp(G[i - 1], ops[i + 1]) /\ F[(i - 1) + 1] = G[i - 1]
    BY <1>1, <1>7, <1>9
  <2>. QED
    BY <1>1, <2>2, <2>3
<1>10. n \in T
  <2>. HIDE DEF T
  <2>1. n \in 0 .. n
    BY <1>1
  <2>. QED
    BY <1>1, <1>8, <1>9, <2>1, UpTo
<1>. QED
  BY <1>4, <1>6, <1>7, <1>10 DEF t

\* No change changes nothing.
LEMMA ChangedEmpty ==
  ASSUME NEW m
  PROVE  Changed(m, << >>) = m
<1>1. DOMAIN << >> = 1 .. 0
  OBVIOUS
<1>2. PICK F : F[0] = m /\ F[0] = Changed(m, << >>)
  BY <1>1, ChangedRuns
<1>. QED
  BY <1>2

\* One change done.
LEMMA ChangedHead ==
  ASSUME NEW S, NEW cs \in Seq(S), cs # << >>, NEW m
  PROVE  Changed(m, cs) = Changed(Change(m, Head(cs)), Tail(cs))
<1>. DEFINE n == Len(cs) - 1
            t == Tail(cs)
<1>1. /\ n \in Nat /\ Len(cs) = n + 1 /\ DOMAIN cs = 1 .. (n + 1) /\ t \in Seq(S) /\ Len(t) = n
      /\ Head(cs) = cs[1] /\ \A i \in 1 .. n : t[i] = cs[i + 1]
  <2>1. Len(cs) \in Nat \ {0} /\ DOMAIN cs = 1 .. Len(cs)
    BY Shifted, LenProperties
  <2>. QED
    BY <2>1, Shifted
<1>2. DOMAIN t = 1 .. n
  BY <1>1, LenProperties
<1>. HIDE DEF n, t
<1>3. n + 1 \in Nat /\ 1 \in 1 .. (n + 1)
  BY <1>1
<1>4. PICK F : /\ F[0] = m /\ F[n + 1] = Changed(m, cs)
               /\ \A i \in 1 .. (n + 1) : F[i] = Change(F[i - 1], cs[i])
  <2>1. PICK l \in Nat : l = n + 1
    BY <1>3
  <2>2. DOMAIN cs = 1 .. l
    BY <1>1, <2>1
  <2>3. \E F : /\ F[0] = m /\ F[l] = Changed(m, cs)
               /\ \A i \in 1 .. l : F[i] = Change(F[i - 1], cs[i])
    BY <2>2, ChangedRuns
  <2>. QED
    BY <2>1, <2>3
<1>5. F[1] = Change(m, Head(cs))
  <2>1. F[1] = Change(F[1 - 1], cs[1])
    BY <1>3, <1>4
  <2>. QED
    BY <1>1, <1>4, <2>1
<1>6. PICK k : k = Change(m, Head(cs))
  OBVIOUS
<1>7. PICK G : /\ G[0] = k /\ G[n] = Changed(k, t)
               /\ \A i \in 1 .. n : G[i] = Change(G[i - 1], t[i])
  BY <1>1, <1>2, ChangedRuns
<1>. DEFINE T == {i \in 0 .. n : F[i + 1] = G[i]}
<1>8. 0 \in T
  BY <1>1, <1>5, <1>6, <1>7
<1>9. ASSUME NEW i \in 1 .. n, i - 1 \in T PROVE i \in T
  <2>1. i + 1 \in 1 .. (n + 1) /\ (i + 1) - 1 = (i - 1) + 1
    BY <1>1
  <2>2. F[i + 1] = Change(F[(i - 1) + 1], cs[i + 1])
    BY <1>4, <2>1
  <2>3. G[i] = Change(G[i - 1], cs[i + 1]) /\ F[(i - 1) + 1] = G[i - 1]
    BY <1>1, <1>7, <1>9
  <2>. QED
    BY <1>1, <2>2, <2>3
<1>10. n \in T
  <2>. HIDE DEF T
  <2>1. n \in 0 .. n
    BY <1>1
  <2>. QED
    BY <1>1, <1>8, <1>9, <2>1, UpTo
<1>. QED
  BY <1>4, <1>6, <1>7, <1>10 DEF t

\* Nothing of a book is wrong, though something may be missing.
Within(k, m) ==
  /\ IsMarket(k)
  /\ \A s \in Sides : /\ DOMAIN k[s] \subseteq DOMAIN m[s]
                      /\ \A p \in DOMAIN k[s] : k[s][p] = m[s][p]

\* A level of m added to a part of m makes a larger part of m.
LEMMA WithinChanged ==
  ASSUME NEW m, IsMarket(m), NEW k, Within(k, m), NEW c \in LevelChanges,
         c.price \in DOMAIN m[c.side], c.qty = m[c.side][c.price]
  PROVE  /\ Within(Change(k, c), m)
         /\ c.price \in DOMAIN Change(k, c)[c.side]
         /\ \A s \in Sides : DOMAIN k[s] \subseteq DOMAIN Change(k, c)[s]
<1>1. c.side \in Sides /\ c.price \in Nat /\ c.qty \in Nat \ {0}
  BY DEF LevelChanges, IsMarket
<1>2. PICK z : z = Change(k, c)
  OBVIOUS
<1>3. /\ IsMarket(z)
      /\ \A s \in Sides : z[s] = IF s = c.side THEN ChangeSide(k[s], c.price, c.qty) ELSE k[s]
  BY <1>2, ChangeTyped DEF Within
<1>4. PICK o : o = k[c.side]
  OBVIOUS
<1>5. PICK w : w = m[c.side]
  OBVIOUS
<1>6. /\ DOMAIN o \subseteq DOMAIN w /\ \A p \in DOMAIN o : o[p] = w[p]
      /\ c.price \in DOMAIN w /\ c.qty = w[c.price]
  BY <1>1, <1>4, <1>5 DEF Within
<1>7. PICK x : x = ChangeSide(o, c.price, c.qty)
  OBVIOUS
<1>8. /\ DOMAIN x = DOMAIN o \cup {c.price}
      /\ \A p \in DOMAIN x : x[p] = w[p]
  BY <1>1, <1>6, <1>7 DEF ChangeSide
<1>9. z[c.side] = x /\ \A s \in Sides : s # c.side => z[s] = k[s]
  BY <1>1, <1>3, <1>4, <1>7
<1>10. ASSUME NEW s \in Sides
       PROVE  /\ DOMAIN z[s] \subseteq DOMAIN m[s] /\ DOMAIN k[s] \subseteq DOMAIN z[s]
              /\ \A p \in DOMAIN z[s] : z[s][p] = m[s][p]
  <2>1. CASE s = c.side
    BY <1>4, <1>5, <1>6, <1>8, <1>9, <2>1
  <2>2. CASE s # c.side
    BY <1>9, <2>2 DEF Within
  <2>. QED
    BY <2>1, <2>2
<1>. QED
  BY <1>2, <1>3, <1>8, <1>9, <1>10 DEF Within

\* A book without levels is a book.
LEMMA EmptyMarket == IsMarket(NoLevels) /\ \A s \in Sides : DOMAIN NoLevels[s] = {}
<1>1. NoLevels.bid = << >> /\ NoLevels.ask = << >> /\ DOMAIN << >> = {}
  BY DEF NoLevels
<1>2. << >> \in [{} -> Nat \ {0}]
  OBVIOUS
<1>3. IsFiniteSet({})
  BY FS!FS_EmptySet, SameFinite
<1>. QED
  BY <1>1, <1>2, <1>3 DEF IsMarket, Sides, NoLevels

\* A snapshot gives an empty book, or the book it is of, what it has.
LEMMA LevelsRestore ==
  ASSUME NEW m, IsMarket(m), NEW b, b = NoLevels \/ b = m
  PROVE  Changed(b, Levels(m)) = m
<1>. DEFINE cs == Levels(m)
            n == Len(cs)
<1>1. /\ cs \in Seq(LevelChanges) /\ n \in Nat /\ DOMAIN cs = 1 .. n
      /\ \A i \in 1 .. n : /\ cs[i] \in LevelChanges /\ cs[i].price \in DOMAIN m[cs[i].side]
                           /\ cs[i].qty = m[cs[i].side][cs[i].price]
      /\ \A s \in Sides : \A p \in DOMAIN m[s] : \E i \in 1 .. n : cs[i].side = s /\ cs[i].price = p
  <2>1. cs \in Seq(LevelChanges)
    BY LevelsAre
  <2>2. n \in Nat /\ DOMAIN cs = 1 .. n /\ \A i \in 1 .. n : cs[i] \in LevelChanges
    <3>. HIDE DEF cs
    <3>. QED
      BY <2>1, LenProperties
  <2>. QED
    BY <2>1, <2>2, LevelsAre
<1>. HIDE DEF cs, n
<1>2. PICK F : /\ F[0] = b /\ F[n] = Changed(b, cs)
               /\ \A i \in 1 .. n : F[i] = Change(F[i - 1], cs[i])
  <2>1. n \in Nat /\ DOMAIN cs = 1 .. n
    BY <1>1
  <2>2. PICK r : r = Changed(b, cs)
    OBVIOUS
  <2>. QED
    BY <2>1, <2>2, ChangedRuns
<1>3. Within(b, m)
  BY EmptyMarket DEF Within
<1>. DEFINE Got(i, j) == cs[j].price \in DOMAIN F[i][cs[j].side]
            T == {i \in 0 .. n : Within(F[i], m) /\ \A j \in 1 .. i : Got(i, j)}
<1>4. 0 \in T
  BY <1>1, <1>2, <1>3
<1>5. ASSUME NEW i \in 1 .. n, i - 1 \in T PROVE i \in T
  <2>1. /\ Within(F[i], m) /\ Got(i, i)
        /\ \A s \in Sides : DOMAIN F[i - 1][s] \subseteq DOMAIN F[i][s]
    BY <1>1, <1>2, <1>5, WithinChanged
  <2>2. ASSUME NEW j \in 1 .. i PROVE Got(i, j)
    <3>1. CASE j = i
      BY <2>1, <3>1
    <3>2. CASE j # i
      <4>1. j \in 1 .. (i - 1) /\ j \in 1 .. n
        BY <1>1, <3>2
      <4>2. Got(i - 1, j) /\ cs[j].side \in Sides
        BY <1>1, <1>5, <4>1 DEF LevelChanges
      <4>. QED
        BY <2>1, <4>2
    <3>. QED
      BY <3>1, <3>2
  <2>. QED
    BY <1>1, <2>1, <2>2
<1>6. n \in T
  <2>. HIDE DEF T
  <2>1. n \in 0 .. n
    BY <1>1
  <2>. QED
    BY <1>1, <1>4, <1>5, <2>1, UpTo
<1>7. PICK k : k = F[n]
  OBVIOUS
<1>8. ASSUME NEW s \in Sides PROVE k[s] = m[s]
  <2>0. Within(k, m) /\ \A j \in 1 .. n : Got(n, j)
    BY <1>6, <1>7
  <2>1. DOMAIN k[s] = DOMAIN m[s] /\ \A p \in DOMAIN m[s] : k[s][p] = m[s][p]
    <3>1. ASSUME NEW p \in DOMAIN m[s] PROVE p \in DOMAIN k[s]
      <4>1. PICK j \in 1 .. n : cs[j].side = s /\ cs[j].price = p
        BY <1>1
      <4>. QED
        BY <1>7, <2>0, <4>1
    <3>. QED
      BY <2>0, <3>1 DEF Within
  <2>2. k[s] \in [DOMAIN k[s] -> Nat \ {0}] /\ m[s] \in [DOMAIN m[s] -> Nat \ {0}]
    BY <1>6, <1>7 DEF Within, IsMarket
  <2>. QED
    BY <2>1, <2>2
<1>9. k = [bid |-> k.bid, ask |-> k.ask] /\ m = [bid |-> m.bid, ask |-> m.ask]
  BY <1>6, <1>7 DEF Within, IsMarket
<1>10. k = m
  BY <1>8, <1>9 DEF Sides
<1>. QED
  BY <1>2, <1>7, <1>10 DEF cs

\* What one book has of another is kept by a change of both.
LEMMA HasChange ==
  ASSUME NEW m, IsMarket(m), NEW b, IsMarket(b), Has(b, m), NEW c \in LevelChanges
  PROVE  Has(Change(b, c), Change(m, c))
<1>1. PICK x, y : x = Change(b, c) /\ y = Change(m, c)
  OBVIOUS
<1>2. \A s \in Sides :
        /\ x[s] = IF s = c.side THEN ChangeSide(b[s], c.price, c.qty) ELSE b[s]
        /\ y[s] = IF s = c.side THEN ChangeSide(m[s], c.price, c.qty) ELSE m[s]
  BY <1>1, ChangeTyped
<1>3. ASSUME NEW s \in Sides, NEW p \in DOMAIN y[s]
      PROVE  p \in DOMAIN x[s] /\ x[s][p] = y[s][p]
  <2>1. PICK f, g : f = b[s] /\ g = m[s] /\ \A r \in DOMAIN g : r \in DOMAIN f /\ f[r] = g[r]
    BY DEF Has
  <2>2. CASE s = c.side
    <3>1. x[s] = ChangeSide(f, c.price, c.qty) /\ y[s] = ChangeSide(g, c.price, c.qty)
      BY <1>2, <2>1, <2>2
    <3>2. PICK v, w : v = ChangeSide(f, c.price, c.qty) /\ w = ChangeSide(g, c.price, c.qty)
      OBVIOUS
    <3>3. \A r \in DOMAIN w : r \in DOMAIN v /\ v[r] = w[r]
      BY <2>1, <3>2 DEF ChangeSide
    <3>. QED
      BY <1>3, <3>1, <3>2, <3>3
  <2>3. CASE s # c.side
    BY <1>2, <1>3, <2>1, <2>3
  <2>. QED
    BY <2>2, <2>3
<1>. QED
  BY <1>1, <1>3 DEF Has

\* And by an event.
LEMMA HasChanged ==
  ASSUME NEW m, IsMarket(m), NEW b, IsMarket(b), Has(b, m), NEW cs \in Seq(LevelChanges)
  PROVE  Has(Changed(b, cs), Changed(m, cs))
<1>. DEFINE n == Len(cs)
<1>1. n \in Nat /\ DOMAIN cs = 1 .. n /\ \A i \in 1 .. n : cs[i] \in LevelChanges
  BY LenProperties
<1>. HIDE DEF n
<1>2. PICK F : /\ F[0] = m /\ F[n] = Changed(m, cs)
               /\ \A i \in 1 .. n : F[i] = Change(F[i - 1], cs[i])
  <2>1. n \in Nat /\ DOMAIN cs = 1 .. n
    BY <1>1
  <2>2. PICK r : r = Changed(m, cs)
    OBVIOUS
  <2>. QED
    BY <2>1, <2>2, ChangedRuns
<1>3. PICK G : /\ G[0] = b /\ G[n] = Changed(b, cs)
               /\ \A i \in 1 .. n : G[i] = Change(G[i - 1], cs[i])
  <2>1. n \in Nat /\ DOMAIN cs = 1 .. n
    BY <1>1
  <2>2. PICK r : r = Changed(b, cs)
    OBVIOUS
  <2>. QED
    BY <2>1, <2>2, ChangedRuns
<1>. DEFINE T == {i \in 0 .. n : IsMarket(F[i]) /\ IsMarket(G[i]) /\ Has(G[i], F[i])}
<1>4. 0 \in T
  BY <1>1, <1>2, <1>3
<1>5. ASSUME NEW i \in 1 .. n, i - 1 \in T PROVE i \in T
  <2>1. PICK x, y : x = F[i - 1] /\ y = G[i - 1]
    OBVIOUS
  <2>2. IsMarket(x) /\ IsMarket(y) /\ Has(y, x) /\ cs[i] \in LevelChanges
    BY <1>1, <1>5, <2>1
  <2>3. IsMarket(Change(x, cs[i])) /\ IsMarket(Change(y, cs[i]))
    BY <2>2, ChangeTyped
  <2>4. Has(Change(y, cs[i]), Change(x, cs[i]))
    BY <2>2, HasChange
  <2>. QED
    BY <1>2, <1>3, <2>1, <2>3, <2>4
<1>6. n \in T
  <2>. HIDE DEF T
  <2>1. n \in 0 .. n
    BY <1>1
  <2>. QED
    BY <1>1, <1>4, <1>5, <2>1, UpTo
<1>. QED
  BY <1>2, <1>3, <1>6

\* After a snapshot a book has what the snapshot has, whatever was there before.
LEMMA LevelsGiven ==
  ASSUME NEW m, IsMarket(m), NEW b, IsMarket(b)
  PROVE  Has(Changed(b, Levels(m)), m)
<1>1. PICK cs : cs = Levels(m) /\ cs \in Seq(LevelChanges)
  BY LevelsAre
<1>2. Has(b, NoLevels)
  BY EmptyMarket DEF Has
<1>3. Has(Changed(b, cs), Changed(NoLevels, cs))
  BY <1>1, <1>2, EmptyMarket, HasChanged
<1>4. Changed(NoLevels, cs) = m
  BY <1>1, LevelsRestore
<1>. QED
  BY <1>1, <1>3, <1>4

-----------------------------------------------------------------------------
(* The stream: what a message says of the exchange's book.                 *)

Place(e) == <<e.epoch, e.u>>

\* A message is of the book of its epoch and id, by the history h.
DescribedIn(h, e) ==
  /\ Place(e) \in DOMAIN h
  /\ e.type = "snapshot" => e.changes = Levels(h[Place(e)])
  /\ e.type = "delta" => /\ <<e.epoch, e.u - 1>> \in DOMAIN h
                         /\ h[Place(e)] = Changed(h[<<e.epoch, e.u - 1>>], e.changes)

\* The message that may come after the one of a place, if none is lost.
Follows(pos, e) ==
  \/ e.type = "snapshot" /\ Place(e) = pos
  \/ e.type = "snapshot" /\ Place(e) = <<pos[1] + 1, 1>>
  \/ e.type = "delta" /\ Place(e) = <<pos[1], pos[2] + 1>>

At(pos, s, i) == IF i = 0 THEN pos ELSE Place(s[i])

Unbroken(pos, s, last) ==
  /\ \A i \in 1 .. Len(s) : Follows(At(pos, s, i - 1), s[i])
  /\ At(pos, s, Len(s)) = last

Stream == syncQ \o queue_
Unlost == bounds["losses"] = MaxLosses
Now    == <<restarts, u>>

PastKept ==
  /\ DOMAIN past \subseteq Nat \X Nat /\ Now \in DOMAIN past /\ past[Now] = market
  /\ \A x \in DOMAIN past : /\ IsMarket(past[x])
                            /\ x[1] < restarts \/ (x[1] = restarts /\ x[2] <= u)
                            /\ x[2] = 1 => past[x] = Opening
  /\ bounds["losses"] <= MaxLosses

Described ==
  /\ \A i \in 1 .. Len(queue_) : DescribedIn(past, queue_[i])
  /\ \A i \in 1 .. Len(syncQ) : DescribedIn(past, syncQ[i])

\* Where the sync is, by its ids.
AtId == <<adopted[1], current_diff_update_id_>>

\* A book b is one of the exchange's, but for levels it may have besides.
Holds(b, m) == Has(b, m) /\ (merged = FALSE => b = m)

BookKept ==
  /\ IsMarket(Projected)
  /\ ~received_snapshot_success_ => Projected = NoLevels
  /\ adopted # << >> => received_snapshot_success_
  /\ IdsTell /\ adopted # << >> => AtId \in DOMAIN past /\ Holds(Projected, past[AtId])

\* The sync is where the last message left it, or past a restart that it took for the
\* snapshot it had, which the next diff will show.
InStep(pos) ==
  adopted # << >> =>
    \/ pos = AtId
    \/ pos[2] = 1 /\ current_diff_update_id_ # 1 /\ current_snapshot_update_id_ = 1

Placed == \E pos \in Nat \X Nat : Unbroken(pos, Stream, Now) /\ InStep(pos)

Following == PastKept /\ Described /\ BookKept /\ (Unlost => Placed)

\* Two queues, one behind the other: what joins the second or passes between them.
LEMMA Queued ==
  ASSUME NEW S, NEW a \in Seq(S), NEW b \in Seq(S)
  PROVE  /\ a \o b \in Seq(S)
         /\ \A x \in S : a \o Append(b, x) = Append(a \o b, x)
         /\ b # << >> => Append(a, Head(b)) \o Tail(b) = a \o b
         /\ a # << >> => /\ Tail(a) \o b = Tail(a \o b) /\ a \o b # << >>
                         /\ (a \o b)[1] = Head(a)
<1>1. a \o b \in Seq(S)
  BY ConcatProperties
<1>2. \A x \in S : a \o Append(b, x) = Append(a \o b, x)
  OBVIOUS
<1>3. b # << >> => Append(a, Head(b)) \o Tail(b) = a \o b
  OBVIOUS
<1>4. a # << >> => /\ Tail(a) \o b = Tail(a \o b) /\ a \o b # << >>
                   /\ (a \o b)[1] = Head(a)
  OBVIOUS
<1>. QED
  BY <1>1, <1>2, <1>3, <1>4

\* A stream goes on with a message that follows its last place.
LEMMA UnbrokenOn ==
  ASSUME NEW pos, NEW last, NEW s \in Seq(Messages), Unbroken(pos, s, last),
         NEW e \in Messages, Follows(last, e)
  PROVE  Unbroken(pos, Append(s, e), Place(e))
<1>. DEFINE a == Append(s, e)
            n == Len(s)
<1>1. /\ n \in Nat /\ Len(a) = n + 1 /\ a[n + 1] = e
      /\ \A i \in 1 .. n : a[i] = s[i]
      /\ \A i \in 1 .. n + 1 : i \in 1 .. n \/ i = n + 1
  BY Appended
<1>. HIDE DEF a, n
<1>2. \A i \in 0 .. n : At(pos, a, i) = At(pos, s, i)
  BY <1>1 DEF At
<1>3. At(pos, a, n + 1) = Place(e)
  BY <1>1 DEF At
<1>4. /\ \A i \in 1 .. n : Follows(At(pos, s, i - 1), s[i])
      /\ At(pos, s, n) = last
  BY DEF Unbroken, n
<1>5. ASSUME NEW i \in 1 .. n + 1 PROVE Follows(At(pos, a, i - 1), a[i])
  <2>1. i - 1 \in 0 .. n
    BY <1>1
  <2>2. CASE i \in 1 .. n
    BY <1>1, <1>2, <1>4, <2>1, <2>2
  <2>3. CASE i = n + 1
    BY <1>1, <1>2, <1>4, <2>1, <2>3
  <2>. QED
    BY <1>1, <2>2, <2>3
<1>. QED
  BY <1>1, <1>3, <1>5 DEF Unbroken, a

\* A stream without its first message is unbroken from that message on.
LEMMA UnbrokenTail ==
  ASSUME NEW pos, NEW last, NEW s \in Seq(Messages), Unbroken(pos, s, last), s # << >>
  PROVE  Follows(pos, s[1]) /\ Unbroken(Place(s[1]), Tail(s), last)
<1>. DEFINE t == Tail(s)
            n == Len(s)
<1>1. /\ n \in Nat \ {0} /\ Len(t) = n - 1 /\ 1 \in 1 .. n
      /\ \A i \in 1 .. n - 1 : i + 1 \in 1 .. n /\ t[i] = s[i + 1]
  BY Shifted
<1>. HIDE DEF t, n
<1>2. /\ \A i \in 1 .. n : Follows(At(pos, s, i - 1), s[i])
      /\ At(pos, s, n) = last
  BY DEF Unbroken, n
<1>3. Follows(pos, s[1])
  <2>1. At(pos, s, 1 - 1) = pos
    BY DEF At
  <2>. QED
    BY <1>1, <1>2, <2>1
<1>4. ASSUME NEW i \in 0 .. n - 1 PROVE At(Place(s[1]), t, i) = At(pos, s, i + 1)
  <2>1. CASE i = 0
    BY <2>1 DEF At
  <2>2. CASE i # 0
    <3>1. i \in 1 .. n - 1 /\ i + 1 # 0
      BY <1>1, <2>2
    <3>. QED
      BY <1>1, <2>2, <3>1 DEF At
  <2>. QED
    BY <2>1, <2>2
<1>5. ASSUME NEW i \in 1 .. n - 1 PROVE Follows(At(Place(s[1]), t, i - 1), t[i])
  <2>1. i - 1 \in 0 .. n - 1 /\ (i - 1) + 1 = i /\ (i + 1) - 1 = i /\ i + 1 \in 1 .. n
    BY <1>1
  <2>2. Follows(At(pos, s, (i + 1) - 1), s[i + 1])
    BY <1>2, <2>1
  <2>3. At(Place(s[1]), t, i - 1) = At(pos, s, i)
    BY <1>4, <2>1
  <2>. QED
    BY <1>1, <2>1, <2>2, <2>3
<1>6. At(Place(s[1]), t, n - 1) = last
  <2>1. n - 1 \in 0 .. n - 1 /\ (n - 1) + 1 = n
    BY <1>1
  <2>. QED
    BY <1>2, <1>4, <2>1
<1>. QED
  BY <1>1, <1>3, <1>5, <1>6 DEF Unbroken, t

\* Nothing was sent, and the book is empty.
LEMMA InitFollowing == Init => Following
<1>. SUFFICES ASSUME Init PROVE Following
  OBVIOUS
<1>1. /\ market = Opening /\ u = FirstId /\ restarts = 0 /\ queue_ = << >> /\ syncQ = << >>
      /\ past = [at \in {<<0, FirstId>>} |-> Opening] /\ bounds["losses"] = MaxLosses
      /\ adopted = << >> /\ bookOps = << >> /\ book = [bid |-> EmptySide, ask |-> EmptySide]
  BY DEF Init
<1>2. PastKept
  <2>1. Now = <<0, FirstId>> /\ Now \in Nat \X Nat
    BY <1>1, IdsAssumption DEF Now
  <2>2. IsMarket(Opening)
    BY MarketAssumption
  <2>3. DOMAIN past = {Now} /\ past[Now] = Opening
    BY <1>1, <2>1
  <2>4. \A x \in DOMAIN past : x[1] = restarts /\ x[2] <= u
    BY <1>1, <2>1, <2>3, IdsAssumption
  <2>. QED
    BY <1>1, <2>1, <2>2, <2>3, <2>4, BoundsAssumption DEF PastKept
<1>3. Described
  BY <1>1 DEF Described
<1>4. BookKept
  <2>1. Projected = NoLevels
    BY <1>1, ProjectedIs, ResultEmpty, EmptyBook
  <2>. QED
    BY <1>1, <2>1, EmptyMarket DEF BookKept
<1>5. Placed
  <2>1. Stream = << >> /\ Len(Stream) = 0
    BY <1>1 DEF Stream
  <2>2. Unbroken(Now, Stream, Now)
    BY <2>1 DEF Unbroken, At
  <2>3. Now \in Nat \X Nat
    BY <1>1, IdsAssumption DEF Now
  <2>. QED
    BY <1>1, <2>2, <2>3 DEF Placed, InStep
<1>. QED
  BY <1>2, <1>3, <1>4, <1>5 DEF Following

\* The projection after a step.
LEMMA ProjectedNext == Projected' = Result(Held(book'), bookOps')
<1>1. (Projected = Result(Held(book), bookOps))'
  BY ProjectedIs, PTL
<1>2. Held(book)' = Held(book')
  BY DEF Held
<1>. QED
  BY <1>1, <1>2

\* Whatever the book does was to be expected.
LEMMA BookRuns ==
  ASSUME Types, OrderBook
  PROVE  Projected' = Projected
<1>1. bookOps \in Seq(Ops) /\ GoodBook(book)
  BY DEF Types, BookTypes
<1>2. bookOps # << >> => Projected = Result(RunOp(Held(book), Head(bookOps)), Tail(bookOps))
  BY <1>1, ProjectedIs, ResultHead
<1>3. CASE ProcessEvent
  <2>1. PICK o : o = Head(bookOps) /\ o.op = "event" /\ o \in Ops /\ bookOps # << >>
    BY <1>3, EventGoesOn DEF Types
  <2>2. PICK cs \in Seq(LevelChanges) : cs = o.changes
    BY <2>1, OpsAre
  <2>3. RunOp(Held(book), o) = Changed(Held(book), cs)
    BY <2>1, <2>2 DEF RunOp
  <2>4. CASE cs = << >> /\ bookOps' = Tail(bookOps) /\ book' = book
    BY <1>2, <2>1, <2>3, <2>4, ChangedEmpty, ProjectedNext
  <2>5. CASE /\ cs # << >> /\ Head(cs) \in LevelChanges /\ book' = AddOrder(book, Head(cs))
             /\ bookOps' \in Seq(Ops) /\ Len(bookOps') = Len(bookOps)
             /\ bookOps'[1].op = "event" /\ bookOps'[1].changes = Tail(cs)
             /\ \A i \in 2 .. Len(bookOps) : bookOps'[i] = bookOps[i]
    <3>1. PICK k : k = Held(book)
      OBVIOUS
    <3>2. Held(book') = Change(k, Head(cs))
      BY <1>1, <2>5, <3>1, OrderAdded
    <3>3. /\ Len(bookOps) \in Nat \ {0} /\ bookOps' # << >> /\ Head(bookOps') = bookOps'[1]
          /\ Tail(bookOps) \in Seq(Ops) /\ Len(Tail(bookOps)) = Len(bookOps) - 1
          /\ \A i \in 1 .. Len(bookOps) - 1 : Tail(bookOps)[i] = bookOps[i + 1]
      BY <1>1, <2>1, <2>5, Shifted, EmptySeq, HeadTailProperties
    <3>4. /\ Tail(bookOps') \in Seq(Ops) /\ Len(Tail(bookOps')) = Len(bookOps) - 1
          /\ \A i \in 1 .. Len(bookOps) - 1 : Tail(bookOps')[i] = bookOps'[i + 1]
      BY <2>5, <3>3, Shifted
    <3>5. Tail(bookOps') = Tail(bookOps)
      <4>1. \A i \in 1 .. Len(bookOps) - 1 : i + 1 \in 2 .. Len(bookOps)
        BY <3>3
      <4>2. \A i \in 1 .. Len(bookOps) - 1 : Tail(bookOps')[i] = Tail(bookOps)[i]
        BY <2>5, <3>3, <3>4, <4>1
      <4>. QED
        BY <3>3, <3>4, <4>2, SeqEqual
    <3>6. Projected' = Result(RunOp(Change(k, Head(cs)), bookOps'[1]), Tail(bookOps))
      BY <2>5, <3>2, <3>3, <3>5, ProjectedNext, ResultHead
    <3>7. RunOp(Change(k, Head(cs)), bookOps'[1]) = Changed(k, cs)
      <4>1. Changed(k, cs) = Changed(Change(k, Head(cs)), Tail(cs))
        BY <2>2, <2>5, ChangedHead
      <4>. QED
        BY <2>5, <4>1 DEF RunOp
    <3>. QED
      BY <1>2, <2>1, <2>3, <3>1, <3>6, <3>7
  <2>. QED
    BY <1>3, <2>1, <2>2, <2>4, <2>5, EventGoesOn DEF Types
<1>4. CASE ProcessClear
  <2>1. /\ bookOps # << >> /\ Head(bookOps).op = "clear" /\ bookOps' = Tail(bookOps)
        /\ book' = ClearLevels(book)
    BY <1>4 DEF ProcessClear, OnBookStrand
  <2>2. RunOp(Held(book), Head(bookOps)) = NoLevels
    BY <2>1 DEF RunOp, NoLevels
  <2>3. Held(book') = NoLevels
    BY <1>1, <2>1, BookCleared
  <2>. QED
    BY <1>2, <2>1, <2>2, <2>3, ProjectedNext
<1>5. CASE PassQuery
  <2>1. /\ bookOps # << >> /\ Head(bookOps).op = "query" /\ bookOps' = Tail(bookOps)
        /\ book' = book
    BY <1>5 DEF PassQuery, OnBookStrand
  <2>2. RunOp(Held(book), Head(bookOps)) = Held(book)
    BY <2>1 DEF RunOp
  <2>. QED
    BY <1>2, <2>1, <2>2, ProjectedNext
<1>. QED
  BY <1>3, <1>4, <1>5 DEF OrderBook

\* Queries change nothing.
LEMMA QueriesRun ==
  ASSUME Types, Subscriber
  PROVE  Projected' = Projected
<1>1. bookOps \in Seq(Ops) /\ book' = book /\ Projected = Result(Held(book), bookOps)
  BY Frames, ProjectedIs DEF Types, BookTypes
<1>2. \/ bookOps' = bookOps
      \/ \E n, c : bookOps' = Append(bookOps, [op |-> "query", query |-> n, changed |-> c])
  BY DEF Subscriber, BeginUpdate, BeginRead, ReadPrice, ReadQty, EndRead, AskBook
<1>3. CASE bookOps' = bookOps
  BY <1>1, <1>3, ProjectedNext
<1>4. CASE \E n, c : bookOps' = Append(bookOps, [op |-> "query", query |-> n, changed |-> c])
  <2>1. PICK n, c : bookOps' = Append(bookOps, [op |-> "query", query |-> n, changed |-> c])
    BY <1>4
  <2>2. PICK o : o = [op |-> "query", query |-> n, changed |-> c]
    OBVIOUS
  <2>3. bookOps' = Append(bookOps, o) /\ o.op = "query"
    BY <2>1, <2>2
  <2>4. bookOps \in Seq(Ops \cup {o}) /\ o \in Ops \cup {o}
    BY <1>1, SeqMonotonic
  <2>5. PICK k : k = Held(book)
    OBVIOUS
  <2>6. Result(k, Append(bookOps, o)) = RunOp(Result(k, bookOps), o)
    BY <2>4, ResultAppend
  <2>7. RunOp(Result(k, bookOps), o) = Result(k, bookOps)
    BY <2>3 DEF RunOp
  <2>. QED
    BY <1>1, <2>3, <2>5, <2>6, <2>7, ProjectedNext
<1>. QED
  BY <1>2, <1>3, <1>4

\* The parts of the state that the stream is about.
FollowState == <<market, u, past, restarts, bounds, queue_, syncQ, received_snapshot_success_,
                 current_diff_update_id_, current_snapshot_update_id_, adopted, merged, Projected>>

\* A step that leaves sync and projection alone keeps what is known of the book.
LEMMA BookKeptThen ==
  ASSUME BookKept, IdsTell' => IdsTell,
         \A x \in DOMAIN past : x \in DOMAIN past' /\ past'[x] = past[x],
         UNCHANGED <<received_snapshot_success_, current_diff_update_id_,
                     current_snapshot_update_id_, adopted, merged, Projected>>
  PROVE  BookKept' /\ \A pos : InStep(pos) => InStep(pos)'
<1>1. AtId' = AtId
  BY DEF AtId
<1>. QED
  BY <1>1 DEF BookKept, InStep, Holds

\* What the invariant of the stream is about.
LEMMA FollowingKept ==
  ASSUME Following, UNCHANGED FollowState
  PROVE  Following'
<1>1. UNCHANGED <<market, u, past, restarts, bounds, queue_, syncQ, received_snapshot_success_,
                  current_diff_update_id_, current_snapshot_update_id_, adopted, merged, Projected>>
  BY DEF FollowState
<1>2. Now' = Now /\ Stream' = Stream /\ (Unlost' <=> Unlost) /\ (IdsTell' <=> IdsTell)
  BY <1>1 DEF Now, Stream, Unlost, IdsTell
<1>3. BookKept' /\ \A pos : InStep(pos) => InStep(pos)'
  BY <1>1, <1>2, BookKeptThen DEF Following
<1>4. PastKept' /\ Described'
  BY <1>1, <1>2 DEF Following, PastKept, Described
<1>5. Unlost' => Placed'
  BY <1>2, <1>3 DEF Following, Placed
<1>. QED
  BY <1>3, <1>4, <1>5 DEF Following

\* What was appended can be read off the result.
LEMMA SameLast ==
  ASSUME NEW S, NEW s \in Seq(S), NEW a, NEW b, Append(s, a) = Append(s, b)
  PROVE  a = b
<1>. DEFINE T == S \cup {a, b}
<1>1. s \in Seq(T) /\ a \in T /\ b \in T
  BY SeqMonotonic
<1>. HIDE DEF T
<1>2. Append(s, a)[Len(s) + 1] = a /\ Append(s, b)[Len(s) + 1] = b
  BY <1>1, Appended
<1>. QED
  BY <1>2

\* What is sent loses nothing.
LEMMA LossesKept ==
  ASSUME bounds \in Counts, NEW what \in {"trades", "restarts", "snapshots"}, Sends(what)
  PROVE  bounds'.losses = bounds.losses
<1>1. PICK a, b, c, d, e \in Nat :
        bounds = [messages |-> a, trades |-> b, restarts |-> c, snapshots |-> d, losses |-> e]
  BY DEF Counts
<1>2. CASE what = "trades"
  BY <1>1, <1>2 DEF Sends
<1>3. CASE what = "restarts"
  BY <1>1, <1>3 DEF Sends
<1>4. CASE what = "snapshots"
  BY <1>1, <1>4 DEF Sends
<1>. QED
  BY <1>2, <1>3, <1>4

\* A book at a new place joins the history; the others stay.
LEMMA Remembered ==
  ASSUME PastKept, Remember, restarts \in Nat, u \in Nat, restarts' \in Nat, u' \in Nat,
         restarts' > restarts \/ (restarts' = restarts /\ u' > u),
         IsMarket(market'), u' = 1 => market' = Opening, bounds'.losses = bounds.losses
  PROVE  /\ PastKept' /\ past'[Now'] = market' /\ Now' \in DOMAIN past'
         /\ \A x \in DOMAIN past : x \in DOMAIN past' /\ past'[x] = past[x]
<1>1. Now' = <<restarts', u'>> /\ Now' \in Nat \X Nat
  BY DEF Now
<1>2. past' = [at \in DOMAIN past \cup {Now'} |-> IF at = Now' THEN market' ELSE past[at]]
  BY DEF Remember, Now
<1>3. ASSUME NEW x \in DOMAIN past
      PROVE  /\ x \in Nat \X Nat /\ x # Now'
             /\ x[1] < restarts' \/ (x[1] = restarts' /\ x[2] <= u')
  <2>1. PICK a, b \in Nat : x = <<a, b>>
    BY DEF PastKept
  <2>2. a < restarts \/ (a = restarts /\ b <= u)
    BY <2>1 DEF PastKept
  <2>3. a < restarts' \/ (a = restarts' /\ b <= u /\ u' > u)
    BY <2>1, <2>2
  <2>4. a # restarts' \/ b # u'
    BY <2>1, <2>3
  <2>. QED
    BY <1>1, <2>1, <2>3, <2>4
<1>4. /\ DOMAIN past' = DOMAIN past \cup {Now'} /\ past'[Now'] = market'
      /\ \A x \in DOMAIN past : past'[x] = past[x]
  BY <1>2, <1>3
<1>5. PastKept'
  <2>1. ASSUME NEW x \in DOMAIN past'
        PROVE  /\ IsMarket(past'[x]) /\ (x[2] = 1 => past'[x] = Opening)
               /\ x[1] < restarts' \/ (x[1] = restarts' /\ x[2] <= u')
    <3>1. CASE x = Now'
      BY <1>1, <1>4, <3>1
    <3>2. CASE x \in DOMAIN past
      BY <1>3, <1>4, <3>2 DEF PastKept
    <3>. QED
      BY <1>4, <3>1, <3>2
  <2>2. DOMAIN past' \subseteq Nat \X Nat
    BY <1>1, <1>4 DEF PastKept
  <2>. QED
    BY <1>4, <2>1, <2>2 DEF PastKept
<1>. QED
  BY <1>4, <1>5

\* A step of the exchange is remembered, and its message follows the last one.
LEMMA ExchangeHistory ==
  ASSUME Types, PastKept, Exchange
  PROVE  /\ PastKept' /\ bounds'.losses = bounds.losses /\ (restarts' = 0 => restarts = 0)
         /\ \A x \in DOMAIN past : x \in DOMAIN past' /\ past'[x] = past[x]
         /\ \E msg \in Messages : /\ queue_' = Append(queue_, msg) /\ DescribedIn(past', msg)
                                  /\ Follows(Now, msg) /\ Place(msg) = Now'
<1>0. /\ u \in Nat \ {0} /\ restarts \in Nat /\ bounds \in Counts /\ queue_ \in Seq(Messages)
      /\ IsMarket(market)
  BY DEF Types, ExchangeTypes, QueueTypes
<1>1. ExchangeTypes'
  BY ExchangeSends DEF Types
<1>2. IsMarket(market') /\ u' \in Nat \ {0} /\ restarts' \in Nat
  BY <1>1 DEF ExchangeTypes
<1>3. PICK msg \in Messages : Sent(msg)
  BY ExchangeSends DEF Types
<1>4. queue_' = Append(queue_, msg) /\ Place(msg) = Now' /\ Place(msg) = <<restarts', u'>>
  BY <1>3 DEF Sent, Place, Now
<1>. SUFFICES /\ PastKept' /\ bounds'.losses = bounds.losses /\ (restarts' = 0 => restarts = 0)
              /\ \A x \in DOMAIN past : x \in DOMAIN past' /\ past'[x] = past[x]
              /\ DescribedIn(past', msg) /\ Follows(Now, msg)
  BY <1>4
<1>5. CASE SendSnapshot
  <2>1. /\ UNCHANGED <<market, u, past, restarts>> /\ Sends("snapshots")
        /\ queue_' = Append(queue_, [type |-> "snapshot", u |-> u, epoch |-> restarts,
                                     changes |-> Levels(market)])
    BY <1>5 DEF SendSnapshot, Enqueue
  <2>2. msg = [type |-> "snapshot", u |-> u, epoch |-> restarts, changes |-> Levels(market)]
    <3>1. PICK lit : lit = [type |-> "snapshot", u |-> u, epoch |-> restarts,
                            changes |-> Levels(market)]
      OBVIOUS
    <3>2. Append(queue_, msg) = Append(queue_, lit)
      BY <1>4, <2>1, <3>1
    <3>3. msg = lit
      BY <1>0, <3>2, SameLast
    <3>. QED
      BY <3>1, <3>3
  <2>3. msg.type = "snapshot" /\ msg.changes = Levels(market) /\ Place(msg) = Now
    BY <2>2 DEF Place, Now
  <2>4. Follows(Now, msg)
    BY <2>3 DEF Follows
  <2>5. Now' = Now /\ bounds'.losses = bounds.losses
    BY <1>0, <2>1, LossesKept DEF Now
  <2>6. PastKept' /\ Now \in DOMAIN past /\ past[Now] = market
    BY <2>1, <2>5 DEF PastKept
  <2>7. DescribedIn(past', msg)
    BY <2>1, <2>3, <2>6 DEF DescribedIn
  <2>. QED
    BY <2>1, <2>4, <2>5, <2>6, <2>7
<1>6. CASE Trade
  <2>1. PICK t \in Trades :
          /\ market' = Changed(market, t) /\ u' = u + 1 /\ restarts' = restarts /\ Remember
          /\ queue_' = Append(queue_, [type |-> "delta", u |-> u', epoch |-> restarts,
                                       changes |-> t])
          /\ Sends("trades")
    BY <1>6 DEF Trade, Enqueue
  <2>2. msg = [type |-> "delta", u |-> u', epoch |-> restarts, changes |-> t]
    <3>1. PICK lit : lit = [type |-> "delta", u |-> u', epoch |-> restarts, changes |-> t]
      OBVIOUS
    <3>2. Append(queue_, msg) = Append(queue_, lit)
      BY <1>4, <2>1, <3>1
    <3>3. msg = lit
      BY <1>0, <3>2, SameLast
    <3>. QED
      BY <3>1, <3>3
  <2>3. /\ msg.type = "delta" /\ msg.changes = t /\ Place(msg) = <<restarts, u + 1>>
        /\ msg.epoch = restarts /\ msg.u - 1 = u
    BY <1>0, <2>1, <2>2 DEF Place
  <2>4. Follows(Now, msg)
    BY <2>3 DEF Follows, Now
  <2>5. bounds'.losses = bounds.losses
    BY <1>0, <2>1, LossesKept
  <2>6. u' > u /\ u' # 1
    BY <1>0, <2>1
  <2>7. /\ PastKept' /\ past'[Now'] = market' /\ Now' \in DOMAIN past'
        /\ \A x \in DOMAIN past : x \in DOMAIN past' /\ past'[x] = past[x]
    BY <1>0, <1>2, <2>1, <2>5, <2>6, Remembered
  <2>8. DescribedIn(past', msg)
    <3>1. Now \in DOMAIN past /\ past[Now] = market /\ Now = <<msg.epoch, msg.u - 1>>
      BY <2>3 DEF PastKept, Now
    <3>2. past'[Place(msg)] = Changed(past'[<<msg.epoch, msg.u - 1>>], msg.changes)
      BY <1>4, <2>1, <2>3, <2>7, <3>1
    <3>. QED
      BY <1>4, <2>3, <2>7, <3>1, <3>2 DEF DescribedIn
  <2>. QED
    BY <2>1, <2>4, <2>5, <2>7, <2>8
<1>7. CASE Restart
  <2>1. /\ market' = Opening /\ u' = 1 /\ restarts' = restarts + 1 /\ Remember
        /\ queue_' = Append(queue_, [type |-> "snapshot", u |-> 1, epoch |-> restarts',
                                     changes |-> Levels(market')])
        /\ Sends("restarts")
    BY <1>7 DEF Restart, Enqueue
  <2>2. msg = [type |-> "snapshot", u |-> 1, epoch |-> restarts', changes |-> Levels(market')]
    <3>1. PICK lit : lit = [type |-> "snapshot", u |-> 1, epoch |-> restarts',
                            changes |-> Levels(market')]
      OBVIOUS
    <3>2. Append(queue_, msg) = Append(queue_, lit)
      BY <1>4, <2>1, <3>1
    <3>3. msg = lit
      BY <1>0, <3>2, SameLast
    <3>. QED
      BY <3>1, <3>3
  <2>3. msg.type = "snapshot" /\ msg.changes = Levels(market') /\ Place(msg) = <<restarts + 1, 1>>
    BY <2>1, <2>2 DEF Place
  <2>4. Follows(Now, msg)
    BY <2>3 DEF Follows, Now
  <2>5. bounds'.losses = bounds.losses
    BY <1>0, <2>1, LossesKept
  <2>6. restarts' > restarts /\ restarts' # 0
    BY <1>0, <2>1
  <2>7. /\ PastKept' /\ past'[Now'] = market' /\ Now' \in DOMAIN past'
        /\ \A x \in DOMAIN past : x \in DOMAIN past' /\ past'[x] = past[x]
    BY <1>0, <1>2, <2>1, <2>5, <2>6, Remembered
  <2>8. DescribedIn(past', msg)
    BY <1>4, <2>3, <2>7 DEF DescribedIn
  <2>. QED
    BY <2>4, <2>5, <2>6, <2>7, <2>8
<1>. QED
  BY <1>5, <1>6, <1>7 DEF Exchange

\* The exchange lengthens the stream at its end.
LEMMA ExchangeFollows ==
  ASSUME Types, Following, Exchange
  PROVE  Following'
<1>0. /\ queue_ \in Seq(Messages) /\ syncQ \in Seq(Messages)
      /\ \A e \in Messages : e.type \in {"snapshot", "delta"}
  BY DEF Types, QueueTypes, Messages
<1>1. /\ UNCHANGED <<syncQ, received_snapshot_success_, current_diff_update_id_,
                     current_snapshot_update_id_, adopted, merged>>
      /\ Projected' = Projected
  <2>1. UNCHANGED <<bookOps, book>>
    BY Frames
  <2>. QED
    BY <2>1, Frames, ProjectedIs, ProjectedNext
<1>2. /\ PastKept' /\ bounds'.losses = bounds.losses /\ (restarts' = 0 => restarts = 0)
      /\ \A x \in DOMAIN past : x \in DOMAIN past' /\ past'[x] = past[x]
  BY ExchangeHistory DEF Following
<1>3. PICK msg \in Messages : /\ queue_' = Append(queue_, msg) /\ DescribedIn(past', msg)
                              /\ Follows(Now, msg) /\ Place(msg) = Now'
  BY ExchangeHistory DEF Following
<1>4. Described'
  <2>0. \A e \in Messages : DescribedIn(past, e) => DescribedIn(past', e)
    <3>1. PICK h, k : h = past /\ k = past'
      OBVIOUS
    <3>2. \A x \in DOMAIN h : x \in DOMAIN k /\ k[x] = h[x]
      BY <1>2, <3>1
    <3>3. ASSUME NEW e \in Messages PROVE DescribedIn(h, e) => DescribedIn(k, e)
      <4>1. e.type = "snapshot" \/ e.type = "delta"
        BY <1>0
      <4>. QED
        BY <3>2, <4>1 DEF DescribedIn
    <3>. QED
      BY <3>1, <3>3
  <2>1. /\ \A i \in 1 .. Len(queue_') : i \in 1 .. Len(queue_) \/ queue_'[i] = msg
        /\ \A i \in 1 .. Len(queue_) : queue_'[i] = queue_[i] /\ queue_[i] \in Messages
    BY <1>0, <1>3, Appended, ElementOfSeq
  <2>2. \A i \in 1 .. Len(queue_) : DescribedIn(past', queue_[i])
    BY <2>0, <2>1 DEF Following, Described
  <2>3. \A i \in 1 .. Len(syncQ) : DescribedIn(past', syncQ[i])
    <3>1. \A i \in 1 .. Len(syncQ) : syncQ[i] \in Messages
      BY <1>0, ElementOfSeq
    <3>. QED
      BY <2>0, <3>1 DEF Following, Described
  <2>. QED
    BY <1>1, <1>3, <2>1, <2>2, <2>3 DEF Described
<1>5. (IdsTell' => IdsTell) /\ (Unlost' <=> Unlost)
  BY <1>2 DEF IdsTell, Unlost
<1>6. BookKept' /\ \A pos : InStep(pos) => InStep(pos)'
  BY <1>1, <1>2, <1>5, BookKeptThen DEF Following
<1>7. Unlost' => Placed'
  <2>. HAVE Unlost'
  <2>1. PICK pos \in Nat \X Nat : Unbroken(pos, Stream, Now) /\ InStep(pos)
    BY <1>5 DEF Following, Placed
  <2>2. Stream' = Append(Stream, msg) /\ Stream \in Seq(Messages)
    BY <1>0, <1>1, <1>3, Queued DEF Stream
  <2>3. Unbroken(pos, Stream', Now')
    BY <1>3, <2>1, <2>2, UnbrokenOn
  <2>. QED
    BY <1>6, <2>1, <2>3 DEF Placed
<1>. QED
  BY <1>2, <1>4, <1>6, <1>7 DEF Following

\* The listener moves a message along, or loses it.
LEMMA ListenerFollows ==
  ASSUME Types, Following, Listener
  PROVE  Following'
<1>0. queue_ \in Seq(Messages) /\ syncQ \in Seq(Messages) /\ bounds \in Counts
  BY DEF Types, QueueTypes, ExchangeTypes
<1>1. /\ UNCHANGED <<market, u, past, restarts, received_snapshot_success_,
                     current_diff_update_id_, current_snapshot_update_id_, adopted, merged>>
      /\ Projected' = Projected /\ Now' = Now
  <2>1. UNCHANGED <<bookOps, book, restarts, u>>
    BY Frames
  <2>. QED
    BY <2>1, Frames, ProjectedIs, ProjectedNext DEF Now
<1>2. CASE BeginRun \/ EndRun
  <2>1. UNCHANGED <<exchange, queue_, syncQ>>
    BY <1>2 DEF BeginRun, EndRun
  <2>2. UNCHANGED FollowState
    BY <1>1, <2>1 DEF FollowState, exchange
  <2>. QED
    BY <2>2, FollowingKept
<1>3. CASE ProcessMessage
  <2>1. /\ queue_ # << >> /\ queue_' = Tail(queue_) /\ syncQ' = Append(syncQ, Head(queue_))
        /\ bounds' = bounds
    BY <1>3 DEF ProcessMessage, exchange
  <2>2. /\ Head(queue_) = queue_[1] /\ 1 \in 1 .. Len(queue_) /\ queue_[1] \in Messages
        /\ Len(queue_') = Len(queue_) - 1
        /\ \A i \in 1 .. Len(queue_) - 1 : i + 1 \in 1 .. Len(queue_) /\ queue_'[i] = queue_[i + 1]
    BY <1>0, <2>1, Shifted
  <2>3. /\ \A i \in 1 .. Len(syncQ') : i \in 1 .. Len(syncQ) \/ syncQ'[i] = queue_[1]
        /\ \A i \in 1 .. Len(syncQ) : syncQ'[i] = syncQ[i]
    BY <1>0, <2>1, <2>2, Appended
  <2>4. Described'
    BY <1>1, <2>2, <2>3 DEF Following, Described
  <2>5. Stream' = Stream
    BY <1>0, <2>1, Queued DEF Stream
  <2>6. IdsTell' = IdsTell /\ Unlost' = Unlost
    BY <1>1, <2>1 DEF IdsTell, Unlost
  <2>7. BookKept' /\ \A pos : InStep(pos) => InStep(pos)'
    BY <1>1, <2>6, BookKeptThen DEF Following
  <2>8. PastKept'
    BY <1>1, <2>1 DEF Following, PastKept
  <2>9. Unlost' => Placed'
    BY <1>1, <2>5, <2>6, <2>7 DEF Following, Placed
  <2>. QED
    BY <2>4, <2>7, <2>8, <2>9 DEF Following
<1>4. CASE RefuseMessage
  <2>1. /\ queue_ # << >> /\ queue_' = Tail(queue_) /\ syncQ' = syncQ /\ Counted("losses")
    BY <1>4 DEF RefuseMessage
  <2>2. /\ Len(queue_') = Len(queue_) - 1
        /\ \A i \in 1 .. Len(queue_) - 1 : i + 1 \in 1 .. Len(queue_) /\ queue_'[i] = queue_[i + 1]
    BY <1>0, <2>1, Shifted
  <2>3. Described'
    BY <1>1, <2>1, <2>2 DEF Following, Described
  <2>4. bounds.losses \in Nat /\ bounds'.losses = bounds.losses - 1
    <3>1. PICK a, b, c, d, e \in Nat :
            bounds = [messages |-> a, trades |-> b, restarts |-> c, snapshots |-> d, losses |-> e]
      BY <1>0 DEF Counts
    <3>. QED
      BY <2>1, <3>1 DEF Counted
  <2>5. bounds'.losses < MaxLosses /\ bounds'.losses <= MaxLosses /\ ~Unlost'
    BY <2>4, BoundsAssumption DEF Following, PastKept, Unlost
  <2>6. IdsTell' => IdsTell
    BY <1>1, <2>5 DEF IdsTell, Unlost
  <2>7. BookKept'
    BY <1>1, <2>6, BookKeptThen DEF Following
  <2>8. PastKept'
    BY <1>1, <2>5 DEF Following, PastKept
  <2>. QED
    BY <2>3, <2>5, <2>7, <2>8 DEF Following
<1>. QED
  BY <1>2, <1>3, <1>4 DEF Listener

\* What the sync has is what a snapshot of its id says.
LEMMA SameBook ==
  ASSUME Types, PastKept, BookKept, IdsTell, adopted # << >>,
         NEW e \in Messages, e.type = "snapshot", DescribedIn(past, e),
         e.u = current_diff_update_id_,
         Unlost => \E pos \in Nat \X Nat : Follows(pos, e) /\ InStep(pos)
  PROVE  past[AtId] = past[Place(e)]
<1>1. PICK a \in Nat : adopted = <<a>>
  BY DEF Types, SyncTypes
<1>2. AtId = <<a, e.u>> /\ AtId \in DOMAIN past /\ Place(e) = <<e.epoch, e.u>>
  BY <1>1 DEF AtId, Place, BookKept
<1>3. Place(e) \in DOMAIN past /\ e.epoch \in Nat /\ e.u \in Nat
  BY DEF DescribedIn, Messages
<1>4. CASE restarts = 0
  <2>1. (a < 0 \/ a = 0) /\ (e.epoch < 0 \/ e.epoch = 0)
    BY <1>2, <1>3, <1>4 DEF PastKept
  <2>2. a = e.epoch
    BY <1>1, <1>3, <2>1
  <2>. QED
    BY <1>2, <2>2
<1>5. CASE Unlost
  <2>1. PICK pos \in Nat \X Nat : Follows(pos, e) /\ InStep(pos)
    BY <1>5
  <2>2. Place(e) = pos \/ Place(e) = <<pos[1] + 1, 1>>
    BY <2>1 DEF Follows
  <2>3. pos = AtId \/ (pos[2] = 1 /\ e.u # 1)
    BY <2>1 DEF InStep
  <2>4. Place(e) = AtId \/ e.u = 1
    BY <1>2, <2>2, <2>3
  <2>5. e.u = 1 => past[AtId] = Opening /\ past[Place(e)] = Opening
    BY <1>2, <1>3 DEF PastKept
  <2>. QED
    BY <2>4, <2>5
<1>. QED
  BY <1>4, <1>5 DEF IdsTell, Unlost

\* The message at the head of the stream, and the rest.
LEMMA Taken ==
  ASSUME Types, Following, syncQ # << >>, syncQ' = Tail(syncQ),
         UNCHANGED <<market, u, past, restarts, bounds, queue_>>
  PROVE  /\ PastKept' /\ Described' /\ (IdsTell' <=> IdsTell) /\ (Unlost' <=> Unlost)
         /\ \E e \in Messages :
              /\ e = Head(syncQ) /\ DescribedIn(past, e) /\ Place(e) \in Nat \X Nat
              /\ Unlost => /\ \E pos \in Nat \X Nat : Follows(pos, e) /\ InStep(pos)
                           /\ Unbroken(Place(e), Stream', Now')
<1>0. queue_ \in Seq(Messages) /\ syncQ \in Seq(Messages)
  BY DEF Types, QueueTypes
<1>1. /\ Head(syncQ) = syncQ[1] /\ 1 \in 1 .. Len(syncQ) /\ syncQ[1] \in Messages
      /\ Len(syncQ') = Len(syncQ) - 1
      /\ \A i \in 1 .. Len(syncQ) - 1 : i + 1 \in 1 .. Len(syncQ) /\ syncQ'[i] = syncQ[i + 1]
  BY <1>0, Shifted
<1>2. PICK e \in Messages : e = Head(syncQ)
  BY <1>1
<1>3. DescribedIn(past, e)
  BY <1>1, <1>2 DEF Following, Described
<1>4. Place(e) \in Nat \X Nat
  BY DEF Place, Messages
<1>5. PastKept' /\ Now' = Now
  BY DEF Following, PastKept, Now
<1>6. Described'
  BY <1>1 DEF Following, Described
<1>7. (IdsTell' <=> IdsTell) /\ (Unlost' <=> Unlost)
  BY DEF IdsTell, Unlost
<1>8. Unlost => /\ \E pos \in Nat \X Nat : Follows(pos, e) /\ InStep(pos)
                /\ Unbroken(Place(e), Stream', Now')
  <2>. HAVE Unlost
  <2>1. PICK pos \in Nat \X Nat : Unbroken(pos, Stream, Now) /\ InStep(pos)
    BY DEF Following, Placed
  <2>2. /\ Stream \in Seq(Messages) /\ Stream # << >> /\ Stream[1] = e
        /\ Stream' = Tail(Stream)
    BY <1>0, <1>2, Queued DEF Stream
  <2>3. Follows(pos, e) /\ Unbroken(Place(e), Stream', Now')
    BY <1>5, <2>1, <2>2, UnbrokenTail
  <2>. QED
    BY <2>1, <2>3
<1>. QED
  BY <1>2, <1>3, <1>4, <1>5, <1>6, <1>7, <1>8

\* A snapshot replaces, repeats or is merged into what the book holds.
LEMMA SnapshotFollows ==
  ASSUME Types, Following, ProcessSnapshot
  PROVE  Following'
<1>0. /\ syncQ # << >> /\ syncQ' = Tail(syncQ) /\ book' = book
      /\ UNCHANGED <<market, u, past, restarts, bounds, queue_>>
  BY DEF ProcessSnapshot, OnSyncStrand, exchange, listener
<1>1. /\ PastKept' /\ Described' /\ (IdsTell' <=> IdsTell) /\ (Unlost' <=> Unlost)
  BY <1>0, Taken
<1>2. PICK e \in Messages :
        /\ e = Head(syncQ) /\ DescribedIn(past, e) /\ Place(e) \in Nat \X Nat
        /\ Unlost => /\ \E pos \in Nat \X Nat : Follows(pos, e) /\ InStep(pos)
                     /\ Unbroken(Place(e), Stream', Now')
  BY <1>0, Taken
<1>3. e.type = "snapshot" /\ received_snapshot_success_' = TRUE
  BY <1>2 DEF ProcessSnapshot, OnSyncStrand
<1>4. /\ Place(e) = <<e.epoch, e.u>> /\ Place(e) \in DOMAIN past
      /\ e.changes = Levels(past[Place(e)]) /\ e.changes \in Seq(LevelChanges)
  BY <1>2, <1>3 DEF Place, DescribedIn, Messages
<1>5. IdsTell /\ adopted # << >> /\ e.u = current_diff_update_id_ =>
        Holds(Projected, past[Place(e)])
  <2>. HAVE IdsTell /\ adopted # << >> /\ e.u = current_diff_update_id_
  <2>1. Holds(Projected, past[AtId])
    BY DEF Following, BookKept
  <2>2. past[AtId] = past[Place(e)]
    BY <1>2, <1>3, SameBook DEF Following
  <2>. QED
    BY <2>1, <2>2
<1>. SUFFICES /\ IsMarket(Projected')
              /\ IdsTell /\ adopted' # << >> =>
                   AtId' \in DOMAIN past /\ Holds(Projected, past[AtId])'
              /\ Unlost => InStep(Place(e))'
  <2>1. BookKept' <=> /\ IsMarket(Projected)'
                      /\ (~received_snapshot_success_ => Projected = NoLevels)'
                      /\ (adopted # << >> => received_snapshot_success_)'
                      /\ IdsTell' /\ adopted' # << >> =>
                           AtId' \in DOMAIN past' /\ Holds(Projected, past[AtId])'
    BY DEF BookKept
  <2>2. IsMarket(Projected)' <=> IsMarket(Projected')
    BY DEF IsMarket
  <2>. QED
    BY <1>0, <1>1, <1>2, <1>3, <2>1, <2>2 DEF Following, Placed
<1>6. IsMarket(Projected)
  BY DEF Following, BookKept
<1>7. AtId' = <<adopted'[1], current_diff_update_id_'>>
  BY DEF AtId
<1>8. CASE e.u = current_snapshot_update_id_
  <2>1. /\ adopted' = StillAdopted(e) /\ merged' = merged
        /\ UNCHANGED <<current_diff_update_id_, current_snapshot_update_id_, bookOps>>
    BY <1>2, <1>8 DEF ProcessSnapshot, IgnoreEvent
  <2>2. Projected' = Projected
    BY <1>0, <2>1, ProjectedIs, ProjectedNext
  <2>3. CASE adopted # << >> /\ e.u = current_diff_update_id_
    <3>1. adopted' = <<e.epoch>>
      BY <2>1, <2>3 DEF StillAdopted
    <3>2. AtId' = Place(e)
      BY <1>4, <1>7, <2>1, <2>3, <3>1
    <3>3. past'[AtId'] = past[Place(e)]
      BY <1>0, <3>2
    <3>4. IdsTell => Holds(Projected, past[AtId])'
      BY <1>5, <2>1, <2>2, <2>3, <3>3 DEF Holds
    <3>. QED
      BY <1>4, <1>6, <2>2, <3>2, <3>4 DEF InStep
  <2>4. CASE ~(adopted # << >> /\ e.u = current_diff_update_id_)
    <3>1. adopted' = adopted /\ AtId' = AtId
      BY <1>7, <2>1, <2>4 DEF StillAdopted, AtId
    <3>2. IdsTell /\ adopted' # << >> => AtId' \in DOMAIN past /\ Holds(Projected, past[AtId])'
      <4>1. past'[AtId'] = past[AtId]
        BY <1>0, <3>1
      <4>. QED
        BY <2>1, <2>2, <3>1, <4>1 DEF Following, BookKept, Holds
    <3>3. ASSUME Unlost, adopted' # << >>
          PROVE  /\ Place(e)[2] = 1 /\ current_diff_update_id_' # 1
                 /\ current_snapshot_update_id_' = 1
      <4>1. PICK pos \in Nat \X Nat : Follows(pos, e) /\ InStep(pos)
        BY <1>2, <3>3
      <4>2. Place(e) = pos \/ Place(e) = <<pos[1] + 1, 1>>
        BY <1>3, <4>1 DEF Follows
      <4>3. pos = AtId \/ pos[2] = 1
        BY <3>1, <3>3, <4>1 DEF InStep
      <4>4. e.u # current_diff_update_id_
        BY <2>4, <3>1, <3>3
      <4>5. e.u = 1
        BY <1>4, <4>2, <4>3, <4>4 DEF AtId
      <4>. QED
        BY <1>4, <1>8, <2>1, <4>4, <4>5
    <3>. QED
      BY <1>6, <2>2, <3>2, <3>3 DEF InStep
  <2>. QED
    BY <2>3, <2>4
<1>9. CASE e.u # current_snapshot_update_id_
  <2>1. /\ current_diff_update_id_' = e.u /\ adopted' = <<e.epoch>> /\ merged' = Merges(e)
        /\ bookOps' = bookOps \o (IF e.u = 1 THEN <<ClearOp>> ELSE << >>) \o <<EventOp(e)>>
    BY <1>2, <1>9 DEF ProcessSnapshot
  <2>2. AtId' = Place(e)
    BY <1>4, <1>7, <2>1
  <2>3. Unlost => InStep(Place(e))'
    BY <2>2 DEF InStep
  <2>4. PICK k : k = Held(book)
    OBVIOUS
  <2>5. bookOps \in Seq(Ops) /\ ClearOp \in Ops /\ EventOp(e) \in Ops
    BY <1>4, OpsAre DEF Types, BookTypes
  <2>6. ASSUME NEW m
        PROVE  RunOp(m, ClearOp) = NoLevels /\ RunOp(m, EventOp(e)) = Changed(m, e.changes)
    BY DEF RunOp, ClearOp, EventOp, NoLevels
  <2>7. Projected' = Changed(IF e.u = 1 THEN NoLevels ELSE Projected, e.changes)
    <3>1. Projected = Result(k, bookOps) /\ Projected' = Result(k, bookOps')
      BY <1>0, <2>4, ProjectedIs, ProjectedNext
    <3>2. CASE e.u = 1
      <4>1. /\ bookOps' = Append(Append(bookOps, ClearOp), EventOp(e))
            /\ Append(bookOps, ClearOp) \in Seq(Ops)
        BY <2>1, <2>5, <3>2, AppendedIs
      <4>2. Result(k, Append(bookOps, ClearOp)) = NoLevels
        BY <2>5, <2>6, ResultAppend
      <4>3. Result(k, bookOps') = RunOp(NoLevels, EventOp(e))
        BY <2>5, <4>1, <4>2, ResultAppend
      <4>. QED
        BY <2>6, <3>1, <3>2, <4>3
    <3>3. CASE e.u # 1
      <4>1. bookOps' = Append(bookOps, EventOp(e))
        BY <2>1, <2>5, <3>3, AppendedIs, ConcatEmptySeq
      <4>2. Result(k, bookOps') = RunOp(Result(k, bookOps), EventOp(e))
        BY <2>5, <4>1, ResultAppend
      <4>. QED
        BY <2>6, <3>1, <3>3, <4>2
    <3>. QED
      BY <3>2, <3>3
  <2>8. PICK m : m = past[Place(e)] /\ IsMarket(m)
    BY <1>4 DEF Following, PastKept
  <2>9. PICK b : b = (IF e.u = 1 THEN NoLevels ELSE Projected) /\ IsMarket(b)
    BY <1>6, EmptyMarket
  <2>10. Projected' = Changed(b, Levels(m)) /\ Levels(m) \in Seq(LevelChanges)
    BY <1>4, <2>7, <2>8, <2>9
  <2>11. IsMarket(Projected') /\ Has(Projected', m)
    <3>1. IsMarket(Changed(b, Levels(m)))
      BY <2>9, <2>10, ChangedTyped
    <3>2. Has(Changed(b, Levels(m)), m)
      BY <2>8, <2>9, LevelsGiven
    <3>. QED
      BY <2>10, <3>1, <3>2
  <2>12. ASSUME IdsTell, merged' = FALSE PROVE Projected' = m
    <3>1. e.u = 1 \/ Projected = NoLevels \/ Projected = m
      <4>1. \/ e.u = 1 \/ Projected = NoLevels
            \/ adopted # << >> /\ ~merged /\ e.u = current_diff_update_id_
        BY <2>1, <2>12 DEF Merges
      <4>2. merged \in BOOLEAN
        BY DEF Types, SyncTypes
      <4>. QED
        BY <1>5, <2>8, <2>12, <4>1, <4>2 DEF Holds
    <3>2. b \in {NoLevels, m}
      BY <2>9, <3>1
    <3>3. Changed(b, Levels(m)) = m
      BY <2>8, <3>2, LevelsRestore
    <3>. QED
      BY <2>10, <3>3
  <2>13. past'[AtId'] = m
    BY <1>0, <2>2, <2>8
  <2>14. IdsTell => Holds(Projected, past[AtId])'
    <3>1. Has(Projected, past[AtId])' <=> Has(Projected', past'[AtId'])
      BY DEF Has
    <3>. QED
      BY <2>11, <2>12, <2>13, <3>1 DEF Holds
  <2>. QED
    BY <1>4, <2>2, <2>3, <2>11, <2>14
<1>. QED
  BY <1>8, <1>9

\* A diff that follows takes the book to the next of the exchange's; any other clears it.
LEMMA DiffFollows ==
  ASSUME Types, Following, ProcessDiff
  PROVE  Following'
<1>0. /\ syncQ # << >> /\ syncQ' = Tail(syncQ) /\ book' = book
      /\ UNCHANGED <<market, u, past, restarts, bounds, queue_>>
  BY DEF ProcessDiff, OnSyncStrand, exchange, listener
<1>1. /\ PastKept' /\ Described' /\ (IdsTell' <=> IdsTell) /\ (Unlost' <=> Unlost)
  BY <1>0, Taken
<1>2. PICK e \in Messages :
        /\ e = Head(syncQ) /\ DescribedIn(past, e) /\ Place(e) \in Nat \X Nat
        /\ Unlost => /\ \E pos \in Nat \X Nat : Follows(pos, e) /\ InStep(pos)
                     /\ Unbroken(Place(e), Stream', Now')
  BY <1>0, Taken
<1>3. e.type = "delta" /\ e.changes \in Seq(LevelChanges) /\ e.u \in Nat \ {0} /\ e.epoch \in Nat
  BY <1>2 DEF ProcessDiff, OnSyncStrand, Messages
<1>4. /\ Place(e) = <<e.epoch, e.u>> /\ Place(e) \in DOMAIN past
      /\ <<e.epoch, e.u - 1>> \in DOMAIN past
      /\ past[Place(e)] = Changed(past[<<e.epoch, e.u - 1>>], e.changes)
  BY <1>2, <1>3 DEF Place, DescribedIn
<1>5. bookOps \in Seq(Ops) /\ ClearOp \in Ops /\ EventOp(e) \in Ops
  BY <1>3, OpsAre DEF Types, BookTypes
<1>6. PICK k : k = Held(book)
  OBVIOUS
<1>7. Projected = Result(k, bookOps) /\ Projected' = Result(k, bookOps')
  BY <1>0, <1>6, ProjectedIs, ProjectedNext
<1>8. Unlost /\ adopted' = << >> => Placed'
  BY <1>1, <1>2 DEF Placed, InStep
<1>9. CASE ~received_snapshot_success_
  <2>1. UNCHANGED <<received_snapshot_success_, adopted, bookOps>>
    BY <1>2, <1>9 DEF ProcessDiff, IgnoreEvent
  <2>2. IsMarket(Projected)' <=> IsMarket(Projected')
    BY DEF IsMarket
  <2>3. adopted = << >> /\ Projected' = Projected
    BY <1>7, <1>9, <2>1 DEF Following, BookKept
  <2>4. BookKept'
    BY <1>9, <2>1, <2>3, <2>2 DEF Following, BookKept
  <2>. QED
    BY <1>1, <1>8, <2>1, <2>3, <2>4 DEF Following
<1>10. CASE received_snapshot_success_ /\ ~Continues(e)
  <2>1. bookOps' = Append(bookOps, ClearOp) /\ adopted' = << >>
    BY <1>2, <1>10 DEF ProcessDiff, Reset
  <2>2. Projected' = NoLevels
    <3>1. Result(k, bookOps') = RunOp(Result(k, bookOps), ClearOp)
      BY <1>5, <2>1, ResultAppend
    <3>. QED
      BY <1>7, <3>1 DEF RunOp, ClearOp, NoLevels
  <2>3. BookKept'
    <3>1. IsMarket(Projected)' <=> IsMarket(Projected')
      BY DEF IsMarket
    <3>2. NoLevels' = NoLevels
      BY DEF NoLevels
    <3>. QED
      BY <2>1, <2>2, <3>1, <3>2, EmptyMarket DEF BookKept
  <2>. QED
    BY <1>1, <1>8, <2>1, <2>3 DEF Following
<1>11. CASE received_snapshot_success_ /\ Continues(e)
  <2>1. /\ bookOps' = Append(bookOps, EventOp(e)) /\ current_diff_update_id_' = e.u
        /\ UNCHANGED <<received_snapshot_success_, current_snapshot_update_id_, adopted, merged>>
        /\ current_diff_update_id_ + 1 = e.u
    BY <1>2, <1>11 DEF ProcessDiff, Continues
  <2>2. IsMarket(Projected)
    BY DEF Following, BookKept
  <2>3. Projected' = Changed(Projected, e.changes)
    <3>1. Result(k, bookOps') = RunOp(Result(k, bookOps), EventOp(e))
      BY <1>5, <2>1, ResultAppend
    <3>. QED
      BY <1>7, <3>1 DEF RunOp, EventOp
  <2>4. IsMarket(Projected')
    <3>1. PICK m : m = Projected
      OBVIOUS
    <3>2. IsMarket(Changed(m, e.changes))
      BY <1>3, <2>2, <3>1, ChangedTyped
    <3>. QED
      BY <2>3, <3>1, <3>2
  <2>5. IsMarket(Projected)' <=> IsMarket(Projected')
    BY DEF IsMarket
  <2>6. CASE adopted = << >>
    <3>1. BookKept'
      BY <1>11, <2>1, <2>6, <2>4, <2>5 DEF BookKept
    <3>. QED
      BY <1>1, <1>8, <2>1, <2>6, <3>1 DEF Following
  <2>7. CASE adopted # << >>
    <3>1. PICK a \in Nat : adopted = <<a>>
      BY <2>7 DEF Types, SyncTypes
    <3>2. PICK c \in Nat : c = current_diff_update_id_
      BY DEF Types, SyncTypes
    <3>3. AtId = <<a, c>> /\ AtId' = <<a, e.u>> /\ c = e.u - 1
      BY <1>3, <2>1, <3>1, <3>2 DEF AtId
    <3>4. Unlost => a = e.epoch
      <4>. HAVE Unlost
      <4>1. PICK pos \in Nat \X Nat : Follows(pos, e) /\ InStep(pos)
        BY <1>2
      <4>2. e.epoch = pos[1] /\ e.u = pos[2] + 1
        BY <1>3, <1>4, <4>1 DEF Follows
      <4>3. pos = <<a, c>> \/ (pos[2] = 1 /\ c # 1)
        BY <2>7, <3>2, <3>3, <4>1 DEF InStep
      <4>. QED
        BY <3>3, <4>2, <4>3
    <3>5. IdsTell => AtId \in DOMAIN past /\ Holds(Projected, past[AtId])
      BY <2>7 DEF Following, BookKept
    <3>6. IdsTell => a = e.epoch
      <4>1. CASE restarts = 0 /\ IdsTell
        <5>1. (a < 0 \/ a = 0) /\ (e.epoch < 0 \/ e.epoch = 0)
          BY <1>4, <3>3, <3>5, <4>1 DEF Following, PastKept
        <5>. QED
          BY <1>3, <3>1, <5>1
      <4>. QED
        BY <3>4, <4>1 DEF IdsTell, Unlost
    <3>7. BookKept'
      <4>1. ASSUME IdsTell PROVE AtId' \in DOMAIN past /\ Holds(Projected, past[AtId])'
        <5>1. PICK m, b : m = past[AtId] /\ b = Projected
          OBVIOUS
        <5>2. IsMarket(m) /\ IsMarket(b) /\ Has(b, m) /\ (merged = FALSE => b = m)
          BY <2>2, <3>5, <4>1, <5>1 DEF Following, PastKept, Holds
        <5>3. /\ AtId' \in DOMAIN past /\ past'[AtId'] = Changed(m, e.changes)
              /\ Projected' = Changed(b, e.changes)
          BY <1>0, <1>4, <2>3, <3>3, <3>6, <4>1, <5>1
        <5>4. Has(Changed(b, e.changes), Changed(m, e.changes))
          BY <1>3, <5>2, HasChanged
        <5>5. Has(Projected, past[AtId])' <=> Has(Projected', past'[AtId'])
          BY DEF Has
        <5>. QED
          BY <2>1, <5>2, <5>3, <5>4, <5>5 DEF Holds
      <4>. QED
        BY <1>0, <1>1, <1>11, <2>1, <2>4, <2>5, <4>1 DEF BookKept
    <3>8. Unlost => InStep(Place(e))'
      BY <1>4, <3>3, <3>4 DEF InStep
    <3>. QED
      BY <1>1, <1>2, <3>7, <3>8 DEF Following, Placed
  <2>. QED
    BY <2>6, <2>7
<1>. QED
  BY <1>9, <1>10, <1>11

\* The invariant of the stream is inductive.
LEMMA KeepFollowing ==
  ASSUME Types, Following, [Next]_vars
  PROVE  Following'
<1>1. CASE Exchange
  BY <1>1, ExchangeFollows
<1>2. CASE Listener
  BY <1>2, ListenerFollows
<1>3. CASE ProcessSnapshot \/ ProcessDiff
  BY <1>3, SnapshotFollows, DiffFollows
<1>4. CASE NotifySubscriber \/ OrderBook \/ Subscriber \/ UNCHANGED vars
  <2>1. UNCHANGED <<market, u, past, restarts, bounds, queue_, syncQ, received_snapshot_success_,
                    current_diff_update_id_, current_snapshot_update_id_, adopted, merged>>
    <3>1. NotifySubscriber => UNCHANGED <<exchange, listener, syncQ, ids>>
      BY DEF NotifySubscriber
    <3>. QED
      BY <1>4, <3>1, Frames, Stutter DEF exchange, listener, ids
  <2>2. Projected' = Projected
    <3>1. NotifySubscriber \/ UNCHANGED vars => UNCHANGED <<book, bookOps>>
      BY Stutter DEF NotifySubscriber
    <3>2. CASE UNCHANGED <<book, bookOps>>
      BY <3>2, ProjectedIs, ProjectedNext
    <3>. QED
      BY <1>4, <3>1, <3>2, BookRuns, QueriesRun
  <2>3. UNCHANGED FollowState
    BY <2>1, <2>2 DEF FollowState
  <2>. QED
    BY <2>3, FollowingKept
<1>. QED
  BY <1>1, <1>2, <1>3, <1>4 DEF Next, Sync

\* From queue to book the stream is followed: no message lies unattended; while ids tell, the
\* book has every level of the exchange's at the id the sync is at, and no other unless a snapshot
\* was merged with what the book held; a sync without a snapshot leaves the book empty
\* (order_book_sync.h:44 to 84, listener.h:36 to 57).
THEOREM StreamFollowed == Spec => []FollowsStream
<1>1. Inv /\ Following => FollowsStream
  BY DEF Inv, Following, BookKept, FollowsStream, BookFollowsStream, AtId, Holds,
    Theirs
<1>. QED
  BY <1>1, InitInv, NextInv, InitTypes, KeepTypes, InitFollowing, KeepFollowing, PTL DEF Spec

=============================================================================
