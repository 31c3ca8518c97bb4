-------------------------- MODULE EventPoolProofs --------------------------
(***************************************************************************)
(* Theorems about EventPool, for every number of strands, blocks and       *)
(* messages, as long as one strand allocates.                              *)
(***************************************************************************)
EXTENDS EventPool, FiniteSetTheorems, TLAPS

-----------------------------------------------------------------------------
(* The inductive invariant.                                                *)

Holders(b) == {s \in Strands : Points(s, b)}

\* What a strand knows of its blocks at each place.  Since nobody else pops, the head it
\* has read stays free and keeps its link until it is exchanged.
InHand ==
  \A s \in Strands :
    /\ at[s] \in {"load", "next", "pop", "malloc", "take"} => s \in Parsers
    /\ at[s] \in {"next", "pop"} => top[s] \in free
    /\ at[s] = "pop" => next[s] = link[top[s]]
    /\ at[s] = "take" => obj[s] \in fresh
    /\ at[s] \in {"construct", "parsed", "release", "handling", "destroy", "link", "push"}
         => obj[s] \in Blocks
    /\ at[s] = "push" => link[obj[s]] = top[s]

Inv == TypeOK /\ RefsAreHolders /\ NoBlockTwice /\ InHand

-----------------------------------------------------------------------------
(* Parsers.                                                                *)

\* A parser refuses a message, drops its event, or hands it out.
LEMMA ParsedFates == Parsed \subseteq {"refused", "dropped", "event"}
BY DEF Parsed, Outcomes

-----------------------------------------------------------------------------
(* Counting the pointers.                                                  *)

LEMMA HoldersFinite == \A b : IsFiniteSet(Holders(b)) /\ Cardinality(Holders(b)) \in Nat
BY StrandsAssumption, FS_Subset, FS_CardinalityType DEF Holders

\* An event somebody points to has a count above zero; one that nobody points to, and for
\* which no coroutine waits, has none.
LEMMA PointedCounts ==
  ASSUME TypeOK, RefsAreHolders
  PROVE  \A b \in Blocks :
           /\ \A s \in Strands : Points(s, b) => refs[b] >= 1
           /\ \A s \in Strands : Points(s, b) /\ refs[b] = 1
                => tasks[b] = 0 /\ \A t \in Strands : Points(t, b) => t = s
<1>. SUFFICES ASSUME NEW b \in Blocks, NEW s \in Strands, Points(s, b)
              PROVE  /\ refs[b] >= 1
                     /\ refs[b] = 1 => tasks[b] = 0 /\ \A t \in Strands : Points(t, b) => t = s
  OBVIOUS
<1>1. refs[b] = tasks[b] + Cardinality(Holders(b)) /\ tasks[b] \in Nat /\ refs[b] \in Nat
  BY DEF RefsAreHolders, Holders, TypeOK
<1>2. s \in Holders(b)
  BY DEF Holders
<1>3. /\ IsFiniteSet(Holders(b) \ {s}) /\ Cardinality(Holders(b) \ {s}) \in Nat
      /\ Cardinality(Holders(b)) = Cardinality(Holders(b) \ {s}) + 1
  <2>1. IsFiniteSet(Holders(b)) /\ Cardinality(Holders(b)) \in Nat
    BY HoldersFinite
  <2>2. /\ IsFiniteSet(Holders(b) \ {s})
        /\ Cardinality(Holders(b) \ {s}) = Cardinality(Holders(b)) - 1
    BY <1>2, <2>1, FS_RemoveElement
  <2>3. Cardinality(Holders(b) \ {s}) \in Nat
    BY <2>2, FS_CardinalityType
  <2>. QED BY <2>1, <2>2, <2>3
<1>4. refs[b] = 1 => tasks[b] = 0 /\ Cardinality(Holders(b) \ {s}) = 0
  BY <1>1, <1>3
<1>5. Cardinality(Holders(b) \ {s}) = 0 => Holders(b) \ {s} = {}
  BY <1>3, FS_EmptySet
<1>. QED BY <1>1, <1>3, <1>4, <1>5 DEF Holders

\* A strand begins, or ceases, to point to a block, and all others stay as they are.
LEMMA CountHolders ==
  ASSUME NEW s \in Strands, NEW b,
         \A t \in Strands \ {s} : Points(t, b)' = Points(t, b)
  PROVE  Cardinality(Holders(b)') = CASE Points(s, b)' = Points(s, b) -> Cardinality(Holders(b))
                                      [] Points(s, b)' /\ ~Points(s, b) -> Cardinality(Holders(b)) + 1
                                      [] ~Points(s, b)' /\ Points(s, b) -> Cardinality(Holders(b)) - 1
<1>1. IsFiniteSet(Holders(b)) /\ Cardinality(Holders(b)) \in Nat
  BY HoldersFinite
<1>2. CASE Points(s, b)' = Points(s, b)
  <2>1. Holders(b)' = Holders(b)
    BY <1>2 DEF Holders
  <2>. QED BY <1>2, <2>1
<1>3. CASE Points(s, b)' /\ ~Points(s, b)
  <2>1. Holders(b)' = Holders(b) \cup {s} /\ s \notin Holders(b)
    BY <1>3 DEF Holders
  <2>. QED BY <1>1, <1>3, <2>1, FS_AddElement
<1>4. CASE ~Points(s, b)' /\ Points(s, b)
  <2>1. Holders(b)' = Holders(b) \ {s} /\ s \in Holders(b)
    BY <1>4 DEF Holders
  <2>. QED BY <1>1, <1>4, <2>1, FS_RemoveElement
<1>. QED BY <1>2, <1>3, <1>4 DEF Points

\* Counts stay right when one strand moves and the count of each block changes with the
\* pointers to it.
LEMMA CountsAgree ==
  ASSUME Inv, NEW s \in Strands,
         \A t \in Strands \ {s} : at'[t] = at[t] /\ obj'[t] = obj[t],
         \A b \in Blocks :
           refs'[b] - tasks'[b] = refs[b] - tasks[b] + (IF Points(s, b)' THEN 1 ELSE 0)
                                                     - (IF Points(s, b) THEN 1 ELSE 0),
         refs' \in [Blocks -> Int], tasks' \in [Blocks -> Nat]
  PROVE  RefsAreHolders'
<1>. SUFFICES ASSUME NEW b \in Blocks
              PROVE  refs'[b] = tasks'[b] + Cardinality(Holders(b)')
  BY DEF RefsAreHolders, Holders
<1>1. refs[b] = tasks[b] + Cardinality(Holders(b)) /\ tasks[b] \in Nat /\ refs[b] \in Nat
  BY DEF Inv, RefsAreHolders, Holders, TypeOK
<1>2. \A t \in Strands \ {s} : Points(t, b)' = Points(t, b)
  BY DEF Points
<1>3. Points(s, b) \in BOOLEAN /\ Points(s, b)' \in BOOLEAN
  BY DEF Points
<1>4. Cardinality(Holders(b)') = Cardinality(Holders(b)) + (IF Points(s, b)' THEN 1 ELSE 0)
                                                         - (IF Points(s, b) THEN 1 ELSE 0)
  BY <1>2, <1>3, CountHolders, HoldersFinite
<1>. QED BY <1>1, <1>4, HoldersFinite

\* A step that moves one strand between places where it points to nothing.
LEMMA NoPointer ==
  ASSUME Inv, NEW s \in Strands, UNCHANGED counts,
         \A t \in Strands \ {s} : at'[t] = at[t] /\ obj'[t] = obj[t],
         \A b \in Blocks : Points(s, b)' = Points(s, b)
  PROVE  RefsAreHolders'
<1>1. \A b \in Blocks : refs[b] \in Int /\ tasks[b] \in Int
  BY DEF Inv, TypeOK
<1>2. \A b \in Blocks :
        refs'[b] - tasks'[b] = refs[b] - tasks[b] + (IF Points(s, b)' THEN 1 ELSE 0)
                                                  - (IF Points(s, b) THEN 1 ELSE 0)
  BY <1>1 DEF counts
<1>3. refs' \in [Blocks -> Int] /\ tasks' \in [Blocks -> Nat]
  BY DEF Inv, TypeOK, counts
<1>. QED BY <1>2, <1>3, CountsAgree

-----------------------------------------------------------------------------
(* Steps.                                                                  *)

LEMMA StepParse ==
  ASSUME Inv, NEW s \in Strands, Parse(s) PROVE Inv'
<1>1. TypeOK'
  BY ParsedFates DEF Inv, TypeOK, Parse, Places, memory, counts
<1>2. at[s] = "idle" /\ at'[s] \in {"idle", "load"} /\ obj' = obj /\ UNCHANGED <<memory, counts>>
      /\ \A t \in Strands \ {s} : at'[t] = at[t]
  BY DEF Inv, TypeOK, Parse
<1>3. RefsAreHolders'
  BY <1>2, NoPointer DEF Points
<1>4. NoBlockTwice'
  BY <1>2 DEF Inv, NoBlockTwice, Owns, memory, counts
<1>5. InHand'
  BY <1>2 DEF Inv, InHand, Parse, memory, TypeOK
<1>. QED BY <1>1, <1>3, <1>4, <1>5 DEF Inv

LEMMA StepLoadHead ==
  ASSUME Inv, NEW s \in Strands, LoadHead(s) PROVE Inv'
<1>1. TypeOK'
  BY DEF Inv, TypeOK, LoadHead, Goes, Places, memory, counts, bounds
<1>2. at[s] = "load" /\ at'[s] \in {"malloc", "next"} /\ obj' = obj /\ UNCHANGED <<memory, counts>>
      /\ \A t \in Strands \ {s} : at'[t] = at[t]
  BY DEF Inv, TypeOK, LoadHead, Goes
<1>3. RefsAreHolders'
  BY <1>2, NoPointer DEF Points
<1>4. NoBlockTwice'
  BY <1>2 DEF Inv, NoBlockTwice, Owns, memory, counts
<1>5. InHand'
  BY <1>2 DEF Inv, InHand, LoadHead, Goes, memory, TypeOK, NoBlockTwice
<1>. QED BY <1>1, <1>3, <1>4, <1>5 DEF Inv

LEMMA StepReadNext ==
  ASSUME Inv, NEW s \in Strands, ReadNext(s) PROVE Inv'
<1>1. TypeOK'
  BY DEF Inv, TypeOK, ReadNext, Goes, Places, memory, counts, bounds
<1>2. at[s] = "next" /\ at'[s] = "pop" /\ obj' = obj /\ UNCHANGED <<memory, counts>>
      /\ \A t \in Strands \ {s} : at'[t] = at[t]
  BY DEF Inv, TypeOK, ReadNext, Goes
<1>3. RefsAreHolders'
  BY <1>2, NoPointer DEF Points
<1>4. NoBlockTwice'
  BY <1>2 DEF Inv, NoBlockTwice, Owns, memory, counts
<1>5. InHand'
  BY <1>2 DEF Inv, InHand, ReadNext, Goes, memory, TypeOK
<1>. QED BY <1>1, <1>3, <1>4, <1>5 DEF Inv

LEMMA StepPopHead ==
  ASSUME Inv, NEW s \in Strands, PopHead(s), \A p, q \in Parsers : p = q PROVE Inv'
<1>1. TypeOK'
  BY DEF Inv, TypeOK, PopHead, Places, memory, counts, bounds
<1>2. /\ at[s] = "pop" /\ top[s] \in free /\ next[s] = link[top[s]] /\ s \in Parsers
      /\ \A t \in Strands \ {s} : at'[t] = at[t] /\ obj'[t] = obj[t]
      /\ \A t \in Strands \ {s} : at[t] \notin {"next", "pop", "take"}
      /\ UNCHANGED counts
  BY DEF Inv, TypeOK, PopHead, InHand
<1>3. RefsAreHolders'
  BY <1>2, NoPointer DEF Points, PopHead, Inv, TypeOK
<1>4. CASE SameHead(s)
  <2>1. /\ head' = next[s] /\ free' = free \ {top[s]} /\ obj'[s] = top[s] /\ at'[s] = "construct"
        /\ head = top[s] /\ UNCHANGED <<link, fresh, refs, top>>
    BY <1>4 DEF PopHead, SameHead, Inv, TypeOK, counts
  <2>2. top[s] \in Blocks /\ head # Nil
    BY <1>2, <2>1, BlocksAssumption DEF Inv, TypeOK
  <2>3. NoBlockTwice'
    <3>1. head' \in free' \cup {Nil}
      BY <1>2, <2>1, <2>2 DEF Inv, NoBlockTwice
    <3>2. \A a \in free' : link'[a] \in free' \cup {Nil} /\ (link'[a] # head' \/ head' = Nil)
      BY <1>2, <2>1, <2>2 DEF Inv, NoBlockTwice
    <3>3. \A a, b \in free' : link'[a] = link'[b] => a = b \/ link'[a] = Nil
      BY <2>1 DEF Inv, NoBlockTwice
    <3>4. \A t \in Strands, b \in Blocks :
            Owns(t, b)' <=> \/ t # s /\ Owns(t, b)
                            \/ t = s /\ b = top[s]
      BY <1>2, <2>1, <2>2 DEF Owns
    <3>5. \A b \in free' \cup fresh' : refs'[b] = 0 /\ \A t \in Strands : ~Owns(t, b)'
      BY <1>2, <2>1, <3>4 DEF Inv, NoBlockTwice, TypeOK
    <3>6. \A t, r \in Strands : \A b \in Blocks :
            Owns(t, b)' => refs'[b] = 0 /\ (Owns(r, b)' => t = r)
      BY <1>2, <2>1, <3>4 DEF Inv, NoBlockTwice
    <3>7. free' \cap fresh' = {}
      BY <2>1 DEF Inv, NoBlockTwice
    <3>. QED BY <3>1, <3>2, <3>3, <3>5, <3>6, <3>7 DEF NoBlockTwice
  <2>4. InHand'
    BY <1>2, <2>1, <2>2 DEF Inv, InHand
  <2>. QED BY <1>1, <1>3, <2>3, <2>4 DEF Inv
<1>5. CASE ~SameHead(s)
  <2>1. at'[s] = "malloc" /\ UNCHANGED <<head, free, link, fresh, refs, obj, top, next>>
    BY <1>5 DEF PopHead, Inv, TypeOK, counts
  <2>2. NoBlockTwice'
    BY <1>2, <2>1 DEF Inv, NoBlockTwice, Owns
  <2>3. InHand'
    BY <1>2, <2>1 DEF Inv, InHand
  <2>. QED BY <1>1, <1>3, <2>2, <2>3 DEF Inv
<1>. QED BY <1>4, <1>5

LEMMA StepMallocRead ==
  ASSUME Inv, NEW s \in Strands, MallocRead(s) PROVE Inv'
<1>1. TypeOK'
  BY DEF Inv, TypeOK, MallocRead, Goes, Places, memory, counts, bounds
<1>2. /\ at[s] = "malloc" /\ at'[s] = "take" /\ obj'[s] \in fresh /\ UNCHANGED <<memory, counts>>
      /\ \A t \in Strands \ {s} : at'[t] = at[t] /\ obj'[t] = obj[t]
  BY DEF Inv, TypeOK, MallocRead, Goes
<1>3. RefsAreHolders'
  BY <1>2, NoPointer DEF Points
<1>4. NoBlockTwice'
  BY <1>2 DEF Inv, NoBlockTwice, Owns, memory, counts
<1>5. InHand'
  BY <1>2 DEF Inv, InHand, MallocRead, Goes, memory, TypeOK
<1>. QED BY <1>1, <1>3, <1>4, <1>5 DEF Inv

LEMMA StepMallocTake ==
  ASSUME Inv, NEW s \in Strands, MallocTake(s), \A p, q \in Parsers : p = q PROVE Inv'
<1>1. TypeOK'
  BY DEF Inv, TypeOK, MallocTake, Goes, Places, counts, bounds
<1>2. /\ at[s] = "take" /\ at'[s] = "construct" /\ obj' = obj /\ obj[s] \in fresh
      /\ fresh' = fresh \ {obj[s]} /\ UNCHANGED <<head, link, free, counts>>
      /\ \A t \in Strands \ {s} : at'[t] = at[t] /\ at[t] # "take"
  BY DEF Inv, TypeOK, MallocTake, Goes, InHand
<1>3. RefsAreHolders'
  BY <1>2, NoPointer DEF Points
<1>4. NoBlockTwice'
  <2>1. \A t \in Strands, b \in Blocks :
          Owns(t, b)' <=> \/ t # s /\ Owns(t, b)
                          \/ t = s /\ b = obj[s]
    BY <1>2 DEF Owns
  <2>2. \A b \in free' \cup fresh' : refs'[b] = 0 /\ \A t \in Strands : ~Owns(t, b)'
    BY <1>2, <2>1 DEF Inv, NoBlockTwice, TypeOK, counts
  <2>3. \A t, r \in Strands : \A b \in Blocks :
          Owns(t, b)' => refs'[b] = 0 /\ (Owns(r, b)' => t = r)
    BY <1>2, <2>1 DEF Inv, NoBlockTwice, counts
  <2>. QED BY <1>2, <2>2, <2>3 DEF Inv, NoBlockTwice
<1>5. InHand'
  BY <1>2 DEF Inv, InHand, MallocTake, TypeOK
<1>. QED BY <1>1, <1>3, <1>4, <1>5 DEF Inv

LEMMA StepConstruct ==
  ASSUME Inv, NEW s \in Strands, Construct(s) PROVE Inv'
<1>1. TypeOK'
  BY DEF Inv, TypeOK, Construct, Goes, Places, memory, bounds
<1>2. /\ at[s] = "construct" /\ at'[s] = "parsed" /\ obj' = obj /\ obj[s] \in Blocks
      /\ refs' = [refs EXCEPT ![obj[s]] = 1] /\ UNCHANGED <<memory, tasks, top, next>>
      /\ \A t \in Strands \ {s} : at'[t] = at[t]
  BY DEF Inv, TypeOK, Construct, Goes, InHand
<1>3. Owns(s, obj[s]) /\ refs[obj[s]] = 0
  BY <1>2 DEF Owns, Inv, NoBlockTwice
<1>4. RefsAreHolders'
  <2>1. \A b \in Blocks :
          refs'[b] - tasks'[b] = refs[b] - tasks[b] + (IF Points(s, b)' THEN 1 ELSE 0)
                                                    - (IF Points(s, b) THEN 1 ELSE 0)
    BY <1>2, <1>3 DEF Points, Inv, TypeOK
  <2>2. refs' \in [Blocks -> Int] /\ tasks' \in [Blocks -> Nat]
    BY <1>1 DEF TypeOK
  <2>. QED BY <1>2, <2>1, <2>2, CountsAgree
<1>5. NoBlockTwice'
  <2>1. \A t \in Strands, b \in Blocks : Owns(t, b)' <=> t # s /\ Owns(t, b)
    BY <1>2 DEF Owns
  <2>2. \A t \in Strands, b \in Blocks : Owns(t, b)' => b # obj[s]
    BY <1>2, <1>3, <2>1 DEF Inv, NoBlockTwice
  <2>3. obj[s] \notin free \cup fresh
    BY <1>3 DEF Inv, NoBlockTwice
  <2>4. \A b \in Blocks : b # obj[s] => refs'[b] = refs[b]
    BY <1>2 DEF Inv, TypeOK
  <2>. QED BY <1>2, <2>1, <2>2, <2>3, <2>4 DEF Inv, NoBlockTwice, memory, TypeOK
<1>6. InHand'
  BY <1>2 DEF Inv, InHand, memory
<1>. QED BY <1>1, <1>4, <1>5, <1>6 DEF Inv

LEMMA StepDrop ==
  ASSUME Inv, NEW s \in Strands, Drop(s) PROVE Inv'
<1>1. TypeOK'
  BY DEF Inv, TypeOK, Drop, Goes, Places, memory, counts, bounds
<1>2. at[s] = "parsed" /\ at'[s] = "release" /\ obj' = obj /\ UNCHANGED <<memory, counts>>
      /\ \A t \in Strands \ {s} : at'[t] = at[t]
  BY DEF Inv, TypeOK, Drop, Goes, memory, counts
<1>3. RefsAreHolders'
  BY <1>2, NoPointer DEF Points
<1>4. NoBlockTwice'
  BY <1>2 DEF Inv, NoBlockTwice, Owns, memory, counts
<1>5. InHand'
  BY <1>2 DEF Inv, InHand, Drop, Goes, memory, TypeOK
<1>. QED BY <1>1, <1>3, <1>4, <1>5 DEF Inv

\* One more coroutine, and one more in the count.
LEMMA StepCopy ==
  ASSUME Inv, NEW s \in Strands, obj[s] \in Blocks,
         at[s] \in {"parsed", "handling"}, at' \in [Strands -> Places],
         at'[s] \in {"release", "handling"},
         \A t \in Strands \ {s} : at'[t] = at[t],
         refs' = [refs EXCEPT ![obj[s]] = @ + 1], tasks' = [tasks EXCEPT ![obj[s]] = @ + 1],
         UNCHANGED <<memory, obj, top, next, fate, messages>>, copies' \in Nat
  PROVE  Inv'
<1>1. TypeOK'
  BY DEF Inv, TypeOK, memory
<1>2. RefsAreHolders'
  <2>1. \A b \in Blocks :
          refs'[b] - tasks'[b] = refs[b] - tasks[b] + (IF Points(s, b)' THEN 1 ELSE 0)
                                                    - (IF Points(s, b) THEN 1 ELSE 0)
    BY DEF Points, Inv, TypeOK
  <2>2. refs' \in [Blocks -> Int] /\ tasks' \in [Blocks -> Nat]
    BY <1>1 DEF TypeOK
  <2>. QED BY <2>1, <2>2, CountsAgree
<1>3. Points(s, obj[s]) /\ refs[obj[s]] >= 1
  BY PointedCounts DEF Points, Inv
<1>4. NoBlockTwice'
  <2>1. \A t \in Strands, b \in Blocks : Owns(t, b)' <=> Owns(t, b)
    BY DEF Owns
  <2>2. \A b \in Blocks : refs[b] = 0 => refs'[b] = 0
    BY <1>3 DEF Inv, TypeOK
  <2>. QED BY <2>1, <2>2 DEF Inv, NoBlockTwice, memory, TypeOK
<1>5. InHand'
  BY DEF Inv, InHand, memory
<1>. QED BY <1>1, <1>2, <1>4, <1>5 DEF Inv

LEMMA StepPost ==
  ASSUME Inv, NEW s \in Strands, Post(s) PROVE Inv'
<1>1. at[s] = "parsed" /\ obj[s] \in Blocks
  BY DEF Post, Goes, Inv, InHand
<1>2. /\ at' \in [Strands -> Places] /\ at'[s] = "release"
      /\ \A t \in Strands \ {s} : at'[t] = at[t]
  BY DEF Post, Goes, Inv, TypeOK, Places
<1>3. copies' \in Nat /\ UNCHANGED messages
  BY DEF Post, bounds, Inv, TypeOK
<1>. QED BY <1>1, <1>2, <1>3, StepCopy DEF Post, Copy

LEMMA StepPassOn ==
  ASSUME Inv, NEW s \in Strands, PassOn(s) PROVE Inv'
<1>1. at[s] = "handling" /\ obj[s] \in Blocks /\ at' = at
  BY DEF PassOn, Inv, InHand, local
<1>2. at' \in [Strands -> Places] /\ copies' \in Nat
  BY <1>1 DEF PassOn, Inv, TypeOK
<1>. QED BY <1>1, <1>2, StepCopy DEF PassOn, Copy, local

LEMMA StepFinish ==
  ASSUME Inv, NEW s \in Strands, Finish(s) PROVE Inv'
<1>1. TypeOK'
  BY DEF Inv, TypeOK, Finish, Goes, Places, memory, counts, bounds
<1>2. at[s] = "handling" /\ at'[s] = "release" /\ obj' = obj /\ UNCHANGED <<memory, counts>>
      /\ \A t \in Strands \ {s} : at'[t] = at[t]
  BY DEF Inv, TypeOK, Finish, Goes, memory, counts
<1>3. RefsAreHolders'
  BY <1>2, NoPointer DEF Points
<1>4. NoBlockTwice'
  BY <1>2 DEF Inv, NoBlockTwice, Owns, memory, counts
<1>5. InHand'
  BY <1>2 DEF Inv, InHand, Finish, Goes, memory, TypeOK
<1>. QED BY <1>1, <1>3, <1>4, <1>5 DEF Inv

LEMMA StepBegin ==
  ASSUME Inv, NEW s \in Strands, Begin(s) PROVE Inv'
<1>1. PICK b \in Blocks : /\ tasks[b] > 0 /\ tasks' = [tasks EXCEPT ![b] = @ - 1]
                          /\ obj' = [obj EXCEPT ![s] = b]
  BY DEF Begin
<1>2. /\ at[s] = "idle" /\ at'[s] = "handling" /\ obj'[s] = b /\ UNCHANGED <<memory, refs, top, next>>
      /\ \A t \in Strands \ {s} : at'[t] = at[t] /\ obj'[t] = obj[t]
  BY <1>1 DEF Begin, Goes, Inv, TypeOK
<1>3. TypeOK'
  BY <1>1 DEF Inv, TypeOK, Begin, Goes, Places, memory, bounds
<1>4. RefsAreHolders'
  <2>1. \A c \in Blocks :
          refs'[c] - tasks'[c] = refs[c] - tasks[c] + (IF Points(s, c)' THEN 1 ELSE 0)
                                                    - (IF Points(s, c) THEN 1 ELSE 0)
    BY <1>1, <1>2 DEF Points, Inv, TypeOK
  <2>2. refs' \in [Blocks -> Int] /\ tasks' \in [Blocks -> Nat]
    BY <1>3 DEF TypeOK
  <2>. QED BY <1>2, <2>1, <2>2, CountsAgree
<1>5. NoBlockTwice'
  <2>1. \A t \in Strands, c \in Blocks : Owns(t, c)' <=> Owns(t, c)
    BY <1>2 DEF Owns
  <2>. QED BY <1>2, <2>1 DEF Inv, NoBlockTwice, memory, TypeOK
<1>6. InHand'
  BY <1>2 DEF Inv, InHand, memory
<1>. QED BY <1>3, <1>4, <1>5, <1>6 DEF Inv

LEMMA StepRelease ==
  ASSUME Inv, NEW s \in Strands, Release(s) PROVE Inv'
<1>1. /\ at[s] = "release" /\ obj[s] \in Blocks /\ Points(s, obj[s]) /\ refs[obj[s]] >= 1
      /\ refs' = [refs EXCEPT ![obj[s]] = @ - 1] /\ UNCHANGED <<memory, tasks, top, next, fate, bounds>>
  BY PointedCounts DEF Release, Points, Inv, InHand
<1>2. /\ \A t \in Strands \ {s} : at'[t] = at[t] /\ obj'[t] = obj[t]
      /\ refs[obj[s]] = 1 => at'[s] = "destroy" /\ obj'[s] = obj[s]
      /\ refs[obj[s]] # 1 => at'[s] = "idle"
      /\ at' \in [Strands -> Places] /\ obj' \in [Strands -> Blocks \cup {Nil}]
  BY DEF Release, Goes, Inv, TypeOK, Places
<1>3. TypeOK'
  BY <1>1, <1>2 DEF Inv, TypeOK, memory, bounds
<1>4. RefsAreHolders'
  <2>1. \A b \in Blocks :
          refs'[b] - tasks'[b] = refs[b] - tasks[b] + (IF Points(s, b)' THEN 1 ELSE 0)
                                                    - (IF Points(s, b) THEN 1 ELSE 0)
    BY <1>1, <1>2 DEF Points, Inv, TypeOK
  <2>2. refs' \in [Blocks -> Int] /\ tasks' \in [Blocks -> Nat]
    BY <1>3 DEF TypeOK
  <2>. QED BY <1>2, <2>1, <2>2, CountsAgree
<1>5. NoBlockTwice'
  <2>1. obj[s] \notin free \cup fresh /\ \A t \in Strands : ~Owns(t, obj[s])
    BY <1>1 DEF Inv, NoBlockTwice
  <2>2. \A t \in Strands, b \in Blocks :
          Owns(t, b)' => \/ t # s /\ Owns(t, b) /\ b # obj[s]
                         \/ t = s /\ b = obj[s] /\ refs'[b] = 0
    BY <1>1, <1>2, <2>1 DEF Owns, Inv, TypeOK
  <2>3. \A b \in Blocks : b # obj[s] => refs'[b] = refs[b]
    BY <1>1 DEF Inv, TypeOK
  <2>4. \A b \in free' \cup fresh' : refs'[b] = 0 /\ \A t \in Strands : ~Owns(t, b)'
    BY <1>1, <2>1, <2>2, <2>3 DEF Inv, NoBlockTwice, memory, TypeOK
  <2>5. \A t, r \in Strands : \A b \in Blocks :
          Owns(t, b)' => refs'[b] = 0 /\ (Owns(r, b)' => t = r)
    BY <2>2, <2>3 DEF Inv, NoBlockTwice
  <2>. QED BY <1>1, <2>4, <2>5 DEF Inv, NoBlockTwice, memory
<1>6. InHand'
  BY <1>1, <1>2 DEF Inv, InHand, memory
<1>. QED BY <1>3, <1>4, <1>5, <1>6 DEF Inv

LEMMA StepLoadForPush ==
  ASSUME Inv, NEW s \in Strands, LoadForPush(s) PROVE Inv'
<1>1. TypeOK'
  BY DEF Inv, TypeOK, LoadForPush, Goes, Places, memory, counts, bounds
<1>2. at[s] = "destroy" /\ at'[s] = "link" /\ obj' = obj /\ UNCHANGED <<memory, counts>>
      /\ \A t \in Strands \ {s} : at'[t] = at[t]
  BY DEF Inv, TypeOK, LoadForPush, Goes, memory, counts
<1>3. RefsAreHolders'
  BY <1>2, NoPointer DEF Points
<1>4. NoBlockTwice'
  BY <1>2 DEF Inv, NoBlockTwice, Owns, memory, counts
<1>5. InHand'
  BY <1>2 DEF Inv, InHand, LoadForPush, Goes, memory, TypeOK
<1>. QED BY <1>1, <1>3, <1>4, <1>5 DEF Inv

LEMMA StepLink ==
  ASSUME Inv, NEW s \in Strands, Link(s) PROVE Inv'
<1>1. TypeOK'
  BY DEF Inv, TypeOK, Link, Goes, Places, counts, bounds
<1>2. /\ at[s] = "link" /\ at'[s] = "push" /\ obj' = obj /\ obj[s] \in Blocks
      /\ link' = [link EXCEPT ![obj[s]] = top[s]]
      /\ UNCHANGED <<head, fresh, free, counts, top, next>>
      /\ \A t \in Strands \ {s} : at'[t] = at[t]
  BY DEF Inv, TypeOK, Link, Goes, InHand
<1>3. RefsAreHolders'
  BY <1>2, NoPointer DEF Points
<1>4. Owns(s, obj[s]) /\ obj[s] \notin free
  BY <1>2 DEF Owns, Inv, NoBlockTwice
<1>5. \A b \in Blocks : b # obj[s] => link'[b] = link[b]
  BY <1>2 DEF Inv, TypeOK
<1>6. NoBlockTwice'
  <2>1. \A t \in Strands, b \in Blocks : Owns(t, b)' <=> Owns(t, b)
    BY <1>2 DEF Owns
  <2>2. \A b \in free : link'[b] = link[b]
    BY <1>4, <1>5 DEF Inv, TypeOK
  <2>. QED BY <1>2, <2>1, <2>2 DEF Inv, NoBlockTwice, counts, TypeOK
<1>7. InHand'
  <2>1. \A t \in Strands \ {s} : at[t] = "push" => obj[t] # obj[s] /\ obj[t] \in Blocks
    BY <1>2, <1>4 DEF Inv, NoBlockTwice, Owns, InHand
  <2>2. \A t \in Strands : at[t] = "pop" => top[t] \in Blocks \ {obj[s]}
    BY <1>4 DEF Inv, InHand, TypeOK
  <2>3. link'[obj[s]] = top[s]
    BY <1>2 DEF Inv, TypeOK
  <2>. QED BY <1>2, <1>5, <2>1, <2>2, <2>3 DEF Inv, InHand
<1>. QED BY <1>1, <1>3, <1>6, <1>7 DEF Inv

LEMMA StepPush ==
  ASSUME Inv, NEW s \in Strands, Push(s) PROVE Inv'
<1>1. TypeOK'
  BY DEF Inv, TypeOK, InHand, Push, Retry, Places, memory, counts, bounds
<1>2. /\ at[s] = "push" /\ obj[s] \in Blocks /\ link[obj[s]] = top[s] /\ Owns(s, obj[s])
      /\ refs[obj[s]] = 0 /\ obj[s] \notin free \cup fresh
      /\ \A t \in Strands \ {s} : at'[t] = at[t] /\ obj'[t] = obj[t]
      /\ UNCHANGED <<counts, link, fresh, next>>
  BY DEF Inv, TypeOK, Push, InHand, Owns, NoBlockTwice
<1>3. RefsAreHolders'
  BY <1>2, NoPointer DEF Points, Push, Retry, Inv, TypeOK
<1>4. CASE SameHead(s)
  <2>1. /\ head' = obj[s] /\ free' = free \cup {obj[s]} /\ at'[s] = "idle" /\ top' = top
        /\ head = link[obj[s]]
    BY <1>2, <1>4 DEF Push, SameHead, Inv, TypeOK
  <2>2. \A t \in Strands, b \in Blocks : Owns(t, b)' <=> t # s /\ Owns(t, b)
    BY <1>2, <2>1 DEF Owns
  <2>3. NoBlockTwice'
    <3>1. \A a \in free' : link'[a] \in free' \cup {Nil} /\ link'[a] # head'
      BY <1>2, <2>1, BlocksAssumption DEF Inv, NoBlockTwice
    <3>2. \A a, b \in free' : link'[a] = link'[b] => a = b \/ link'[a] = Nil
      BY <1>2, <2>1 DEF Inv, NoBlockTwice
    <3>3. \A b \in free' \cup fresh' : refs'[b] = 0 /\ \A t \in Strands : ~Owns(t, b)'
      BY <1>2, <2>1, <2>2 DEF Inv, NoBlockTwice, counts, TypeOK
    <3>4. \A t, r \in Strands : \A b \in Blocks :
            Owns(t, b)' => refs'[b] = 0 /\ (Owns(r, b)' => t = r)
      BY <1>2, <2>2 DEF Inv, NoBlockTwice, counts
    <3>5. free' \cap fresh' = {} /\ head' \in free'
      BY <1>2, <2>1 DEF Inv, NoBlockTwice
    <3>. QED BY <3>1, <3>2, <3>3, <3>4, <3>5 DEF NoBlockTwice
  <2>4. InHand'
    BY <1>2, <2>1 DEF Inv, InHand
  <2>. QED BY <1>1, <1>3, <2>3, <2>4 DEF Inv
<1>5. CASE ~SameHead(s)
  <2>1. at'[s] = "link" /\ UNCHANGED <<head, free, obj>> /\ \A t \in Strands \ {s} : top'[t] = top[t]
    BY <1>5 DEF Push, Retry, Inv, TypeOK
  <2>2. NoBlockTwice'
    BY <1>2, <2>1 DEF Inv, NoBlockTwice, Owns, counts
  <2>3. InHand'
    BY <1>2, <2>1 DEF Inv, InHand
  <2>. QED BY <1>1, <1>3, <2>2, <2>3 DEF Inv
<1>. QED BY <1>4, <1>5

LEMMA StutterStep ==
  ASSUME Inv, UNCHANGED vars PROVE Inv'
<1>1. TypeOK' /\ NoBlockTwice' /\ InHand'
  BY DEF Inv, TypeOK, NoBlockTwice, InHand, Owns, vars, memory, counts, local, bounds
<1>2. \A b \in Blocks : Holders(b)' = Holders(b)
  BY DEF Holders, Points, vars, local
<1>3. RefsAreHolders'
  BY <1>2 DEF Inv, RefsAreHolders, Holders, vars, counts
<1>. QED BY <1>1, <1>3 DEF Inv

-----------------------------------------------------------------------------
LEMMA InitInv == Init => Inv
<1>. SUFFICES ASSUME Init PROVE Inv
  OBVIOUS
<1>1. TypeOK
  BY CountsAssumption DEF Init, TypeOK, Places
<1>2. \A b \in Blocks : Holders(b) = {}
  BY DEF Init, Holders, Points
<1>3. RefsAreHolders
  BY <1>2, FS_EmptySet DEF RefsAreHolders, Holders, Init
<1>4. NoBlockTwice /\ InHand
  BY DEF Init, NoBlockTwice, InHand, Owns
<1>. QED BY <1>1, <1>3, <1>4 DEF Inv

LEMMA NextInv ==
  ASSUME \A p, q \in Parsers : p = q
  PROVE  Inv /\ [Next]_vars => Inv'
<1>. SUFFICES ASSUME Inv, [Next]_vars PROVE Inv'
  OBVIOUS
<1>1. CASE UNCHANGED vars
  BY <1>1, StutterStep
<1>2. ASSUME NEW s \in Strands, Parse(s) \/ Step(s) \/ PassOn(s) PROVE Inv'
  <2>1. CASE Parse(s) \/ PassOn(s)
    BY <2>1, StepParse, StepPassOn
  <2>2. CASE Allocate(s)
    BY <2>2, StepLoadHead, StepReadNext, StepPopHead, StepMallocRead, StepMallocTake,
       StepConstruct DEF Allocate
  <2>3. CASE Deallocate(s)
    BY <2>3, StepLoadForPush, StepLink, StepPush DEF Deallocate
  <2>4. CASE Use(s)
    BY <2>4, StepPost, StepDrop, StepRelease, StepBegin, StepFinish DEF Use
  <2>. QED BY <1>2, <2>1, <2>2, <2>3, <2>4 DEF Step
<1>. QED BY <1>1, <1>2 DEF Next

\* Links, counts and the strands' variables are of their types; a count never falls
\* below zero.
THEOREM TypeCorrect ==
  ASSUME \A p, q \in Parsers : p = q
  PROVE  Spec => []TypeOK
<1>1. Inv => TypeOK
  BY DEF Inv
<1>. QED BY <1>1, InitInv, NextInv, PTL DEF Spec

\* With any number of strands that release events, the count of an event is the number of
\* pointers to it, those of coroutines that have not begun included.
THEOREM CountsCorrect ==
  ASSUME \A p, q \in Parsers : p = q
  PROVE  Spec => []RefsAreHolders
<1>1. Inv => RefsAreHolders
  BY DEF Inv
<1>. QED BY <1>1, InitInv, NextInv, PTL DEF Spec

\* As long as one strand allocates, no block is used twice, however many strands put
\* blocks back meanwhile: the exchange in Allocate cannot mistake a block that came back
\* for one that never left.
THEOREM PoolSafe ==
  ASSUME \A p, q \in Parsers : p = q
  PROVE  Spec => []NoBlockTwice
<1>1. Inv => NoBlockTwice
  BY DEF Inv
<1>. QED BY <1>1, InitInv, NextInv, PTL DEF Spec

-----------------------------------------------------------------------------
(* Nothing is lost.                                                        *)

\* Whoever follows the links from the head meets every free block.
FreeAreListed ==
  \A S \in SUBSET (Blocks \cup {Nil}) : FollowsLinks(S) => free \subseteq S

\* The other half of NothingLost.
Somewhere ==
  \A b \in Blocks : b \in free \cup fresh \/ refs[b] > 0 \/ \E s \in Strands : Owns(s, b)

KeptInv == Inv /\ FreeAreListed /\ Somewhere

\* Following the links from the head never leaves the free blocks.
LEMMA FreeFollowLinks ==
  ASSUME Inv, NEW S, FollowsLinks(S)
  PROVE  FollowsLinks(S \cap (free \cup {Nil}))
BY DEF FollowsLinks, Inv, NoBlockTwice

LEMMA ListedAreFree == Inv /\ FreeAreListed => Listed = free
<1>. SUFFICES ASSUME Inv, FreeAreListed PROVE Listed = free
  OBVIOUS
<1>1. FollowsLinks(free \cup {Nil}) /\ free \cup {Nil} \in SUBSET (Blocks \cup {Nil})
  BY DEF FollowsLinks, Inv, NoBlockTwice, TypeOK
<1>2. Nil \notin Blocks /\ free \subseteq Blocks
  BY BlocksAssumption DEF Inv, TypeOK
<1>. QED
  BY <1>1, <1>2 DEF Listed, FreeAreListed

\* The list stays whole when neither it nor the links of its blocks change.
LEMMA ListKept ==
  ASSUME Inv, FreeAreListed, UNCHANGED <<head, free>>, \A b \in free : link'[b] = link[b]
  PROVE  FreeAreListed'
<1>. SUFFICES ASSUME NEW S \in SUBSET (Blocks \cup {Nil}), FollowsLinks(S)' PROVE free \subseteq S
  BY DEF FreeAreListed
<1>1. FollowsLinks(S \cap (free \cup {Nil}))
  BY DEF FollowsLinks, Inv, NoBlockTwice
<1>. QED
  BY <1>1 DEF FreeAreListed

LEMMA ListPopped ==
  ASSUME KeptInv, NEW s \in Strands, PopHead(s)
  PROVE  FreeAreListed'
<1>1. CASE SameHead(s)
  <2>1. /\ head' = next[s] /\ free' = free \ {top[s]} /\ head = top[s] /\ link' = link
        /\ top[s] \in free /\ next[s] = link[top[s]]
    BY <1>1 DEF PopHead, SameHead, KeptInv, Inv, InHand
  <2>. SUFFICES ASSUME NEW S \in SUBSET (Blocks \cup {Nil}), FollowsLinks(S)'
                PROVE  free \ {top[s]} \subseteq S
    BY <2>1 DEF FreeAreListed
  <2>2. FollowsLinks((S \cap (free \cup {Nil})) \cup {top[s]})
    BY <2>1 DEF FollowsLinks, KeptInv, Inv, NoBlockTwice
  <2>3. (S \cap (free \cup {Nil})) \cup {top[s]} \in SUBSET (Blocks \cup {Nil})
    BY <2>1 DEF KeptInv, Inv, TypeOK
  <2>. QED
    BY <2>2, <2>3 DEF KeptInv, FreeAreListed
<1>2. CASE ~SameHead(s)
  BY <1>2, ListKept DEF PopHead, KeptInv
<1>. QED
  BY <1>1, <1>2

LEMMA ListPushed ==
  ASSUME KeptInv, NEW s \in Strands, Push(s)
  PROVE  FreeAreListed'
<1>1. CASE SameHead(s)
  <2>1. /\ head' = obj[s] /\ free' = free \cup {obj[s]} /\ link' = link /\ link[obj[s]] = head
        /\ obj[s] \in Blocks
    BY <1>1 DEF Push, SameHead, KeptInv, Inv, InHand
  <2>. SUFFICES ASSUME NEW S \in SUBSET (Blocks \cup {Nil}), FollowsLinks(S)'
                PROVE  free \cup {obj[s]} \subseteq S
    BY <2>1 DEF FreeAreListed
  <2>2. obj[s] \in S /\ FollowsLinks(S)
    BY <2>1, BlocksAssumption DEF FollowsLinks
  <2>. QED
    BY <2>2 DEF KeptInv, FreeAreListed
<1>2. CASE ~SameHead(s)
  BY <1>2, ListKept DEF Push, KeptInv
<1>. QED
  BY <1>1, <1>2

\* Who links a block has it to itself: it is not in the list.
LEMMA ListLinked ==
  ASSUME KeptInv, NEW s \in Strands, Link(s)
  PROVE  FreeAreListed'
<1>1. obj[s] \notin free /\ \A b \in free : b \in Blocks
  BY DEF Link, Goes, KeptInv, Inv, InHand, NoBlockTwice, Owns, TypeOK
<1>2. \A b \in free : link'[b] = link[b]
  BY <1>1 DEF Link, KeptInv, Inv, TypeOK
<1>. QED
  BY <1>2, ListKept DEF Link, KeptInv

LEMMA ListStep ==
  ASSUME KeptInv, NEW s \in Strands, Parse(s) \/ Step(s) \/ PassOn(s)
  PROVE  FreeAreListed'
<1>1. CASE PopHead(s) \/ Push(s) \/ Link(s)
  BY <1>1, ListPopped, ListPushed, ListLinked
<1>2. CASE ~(PopHead(s) \/ Push(s) \/ Link(s))
  <2>1. UNCHANGED <<head, free, link>>
    <3>1. Parse(s) \/ PassOn(s) => UNCHANGED <<head, free, link>>
      BY DEF Parse, PassOn, memory
    <3>2. Allocate(s) => UNCHANGED <<head, free, link>>
      BY <1>2 DEF Allocate, LoadHead, ReadNext, MallocRead, MallocTake, Construct, memory
    <3>3. Deallocate(s) => UNCHANGED <<head, free, link>>
      BY <1>2 DEF Deallocate, LoadForPush, memory
    <3>4. Use(s) => UNCHANGED <<head, free, link>>
      BY DEF Use, Post, Drop, Release, Begin, Finish, memory
    <3>. QED
      BY <3>1, <3>2, <3>3, <3>4 DEF Step
  <2>. QED
    BY <2>1, ListKept DEF KeptInv
<1>. QED
  BY <1>1, <1>2

\* A block leaves the list, or pool_, for the strand that asked for it, becomes an event,
\* and when its last pointer ends belongs to one strand again until it is back in the list.
LEMMA SomewhereStep ==
  ASSUME KeptInv, NEW s \in Strands, Parse(s) \/ Step(s) \/ PassOn(s),
         \A p, q \in Parsers : p = q
  PROVE  Somewhere'
<1>. USE DEF KeptInv
<1>1. \A b \in Blocks : refs[b] \in Nat
  BY DEF Inv, TypeOK
<1>2. CASE Parse(s) \/ PassOn(s)
  <2>1. /\ UNCHANGED <<free, fresh, obj>> /\ \A b \in Blocks : refs[b] > 0 => refs'[b] > 0
        /\ \A t \in Strands : at'[t] = at[t] \/ at[t] = "idle"
    BY <1>1, <1>2 DEF Parse, PassOn, Copy, memory, counts, local, Inv, TypeOK
  <2>. QED
    BY <2>1 DEF Somewhere, Owns
<1>3. CASE LoadHead(s) \/ ReadNext(s) \/ MallocRead(s) \/ Drop(s) \/ Finish(s)
  <2>1. UNCHANGED <<free, fresh, refs>> /\ \A t \in Strands, b \in Blocks : Owns(t, b) => Owns(t, b)'
    BY <1>3 DEF LoadHead, ReadNext, MallocRead, Drop, Finish, Goes, memory, counts, Owns, Inv, TypeOK
  <2>. QED
    BY <2>1 DEF Somewhere
<1>4. CASE PopHead(s)
  <2>1. /\ UNCHANGED <<fresh, refs>> /\ \A t \in Strands, b \in Blocks : Owns(t, b) => Owns(t, b)'
        /\ \A b \in free : b \in free' \/ Owns(s, b)'
    BY <1>4 DEF PopHead, counts, Owns, Inv, TypeOK
  <2>. QED
    BY <2>1 DEF Somewhere
<1>5. CASE MallocTake(s)
  <2>1. /\ UNCHANGED <<free, refs>> /\ \A t \in Strands, b \in Blocks : Owns(t, b) => Owns(t, b)'
        /\ \A b \in fresh : b \in fresh' \/ Owns(s, b)'
    BY <1>5 DEF MallocTake, Goes, counts, Owns, Inv, TypeOK
  <2>. QED
    BY <2>1 DEF Somewhere
<1>6. CASE Construct(s)
  <2>1. /\ UNCHANGED <<free, fresh>> /\ \A b \in Blocks : refs[b] > 0 => refs'[b] > 0
        /\ \A t \in Strands, b \in Blocks : Owns(t, b) => Owns(t, b)' \/ refs'[b] > 0
    BY <1>6 DEF Construct, Goes, memory, Owns, Inv, TypeOK
  <2>. QED
    BY <2>1 DEF Somewhere
<1>7. CASE Post(s) \/ Begin(s)
  <2>1. /\ UNCHANGED <<free, fresh>> /\ \A b \in Blocks : refs[b] > 0 => refs'[b] > 0
        /\ \A t \in Strands, b \in Blocks : Owns(t, b) => Owns(t, b)'
    BY <1>1, <1>7 DEF Post, Begin, Copy, Goes, memory, Owns, Inv, TypeOK
  <2>. QED
    BY <2>1 DEF Somewhere
<1>8. CASE Release(s)
  <2>1. UNCHANGED <<free, fresh>> /\ \A t \in Strands, b \in Blocks : Owns(t, b) => Owns(t, b)'
    BY <1>8 DEF Release, Goes, memory, Owns, Inv, TypeOK
  <2>2. \A b \in Blocks : refs[b] > 0 => refs'[b] > 0 \/ Owns(s, b)'
    BY <1>1, <1>8 DEF Release, Goes, Owns, Inv, TypeOK
  <2>. QED
    BY <2>1, <2>2 DEF Somewhere
<1>9. CASE LoadForPush(s) \/ Link(s)
  <2>1. UNCHANGED <<free, fresh, refs>> /\ \A t \in Strands, b \in Blocks : Owns(t, b) => Owns(t, b)'
    BY <1>9 DEF LoadForPush, Link, Goes, memory, counts, Owns, Inv, TypeOK
  <2>. QED
    BY <2>1 DEF Somewhere
<1>10. CASE Push(s)
  <2>1. /\ UNCHANGED <<fresh, refs>> /\ free \subseteq free'
        /\ \A t \in Strands, b \in Blocks : Owns(t, b) => Owns(t, b)' \/ b \in free'
    BY <1>10 DEF Push, Retry, counts, Owns, Inv, TypeOK
  <2>. QED
    BY <2>1 DEF Somewhere
<1>. QED
  BY <1>2, <1>3, <1>4, <1>5, <1>6, <1>7, <1>8, <1>9, <1>10 DEF Step, Allocate, Deallocate, Use

LEMMA InitKept == Init => KeptInv
<1>. SUFFICES ASSUME Init PROVE FreeAreListed /\ Somewhere
  BY InitInv DEF KeptInv
<1>. QED
  BY DEF Init, FreeAreListed, Somewhere

LEMMA NextKept ==
  ASSUME \A p, q \in Parsers : p = q
  PROVE  KeptInv /\ [Next]_vars => KeptInv'
<1>. SUFFICES ASSUME KeptInv, [Next]_vars PROVE KeptInv'
  OBVIOUS
<1>1. Inv'
  BY NextInv DEF KeptInv
<1>2. CASE UNCHANGED vars
  BY <1>1, <1>2 DEF KeptInv, FreeAreListed, FollowsLinks, Somewhere, Owns, vars, memory, counts, local
<1>3. ASSUME NEW s \in Strands, Parse(s) \/ Step(s) \/ PassOn(s) PROVE KeptInv'
  BY <1>1, <1>3, ListStep, SomewhereStep DEF KeptInv
<1>. QED
  BY <1>2, <1>3 DEF Next

\* As long as one strand allocates, no block is lost: the free ones are all found from the
\* head, however many strands push at once and give up on a moving head, and every other
\* one is in pool_, in use or in the hands of a strand.
THEOREM PoolComplete ==
  ASSUME \A p, q \in Parsers : p = q
  PROVE  Spec => []NothingLost
<1>1. KeptInv => NothingLost
  BY ListedAreFree DEF KeptInv, NothingLost, Somewhere
<1>. QED
  BY <1>1, InitKept, NextKept, PTL DEF Spec

=============================================================================
