----------------------------- MODULE EventPool -----------------------------
(***************************************************************************)
(* The pool of one event class: MemoryPoolThreadSafety (aos/common/        *)
(* mem_pool.h) with the reference counts of RefCounted (ref_counted.h).    *)
(* The strand of a listener parses messages and takes blocks from the      *)
(* pool; an event travels through the strands of synchroniser and book,    *)
(* copied whenever it is posted again, and whichever strand lets go of it  *)
(* last puts its block back.                                               *)
(*                                                                         *)
(* Every access to head_, to a reference count and to the first word of a  *)
(* block (its link while it is free) is a step of its own: strands run on  *)
(* several threads.  Memory is sequentially consistent here; the orders    *)
(* given to the atomics are weaker.                                        *)
(***************************************************************************)
EXTENDS EventParsers, FiniteSets

CONSTANTS
  Strands,       \* what runs concurrently
  Parsers,       \* the strands that parse, and so allocate
  Blocks, Nil,   \* bound: the memory that pool_ can hand out; no block
  Messages,      \* flat messages, as EventParsers knows them
  Lists,         \* messages that are lists of items
  MaxMessages,   \* bound: messages parsed
  MaxCopies      \* bound: copies of events posted by those who handle them

ASSUME StrandsAssumption == Parsers \subseteq Strands /\ IsFiniteSet(Strands)
ASSUME BlocksAssumption  == Nil \notin Blocks
ASSUME CountsAssumption  == MaxMessages \in Nat /\ MaxCopies \in Nat

VARIABLES
  head,          \* head_: the first free block
  link,          \* the first word of each block
  fresh,         \* what pool_ has not handed out
  free,          \* history: the blocks pushed and not popped since
  refs,          \* ref_count_ of the event in each block
  tasks,         \* coroutines that were posted with the event and have not begun
  at,            \* where each strand is
  obj,           \* the block that it is making, holding or putting back
  top, next,     \* the head it has read, and the link it has read there
  fate,          \* what the parser makes of the message: an event or nothing
  messages, copies

memory == <<head, link, fresh, free>>
counts == <<refs, tasks>>
local  == <<at, obj, top, next, fate>>
bounds == <<messages, copies>>
vars   == <<memory, counts, local, bounds>>

Goes(s, from, to) == at[s] = from /\ at' = [at EXCEPT ![s] = to]

-----------------------------------------------------------------------------
(* ParseAndCreate.  A refused message needs no block.                      *)

\* Fault: a message that is dropped keeps its event (the factory's raw pointer).
ParsedOrLost == {"event", "refused", "lost"}

Parsed == Outcomes(Messages, Lists)

Parse(s) ==
  /\ s \in Parsers /\ at[s] = "idle" /\ messages > 0
  /\ messages' = messages - 1
  /\ \E outcome \in Parsed :
       IF outcome = "refused" THEN UNCHANGED <<at, fate>>
       ELSE at' = [at EXCEPT ![s] = "load"] /\ fate' = [fate EXCEPT ![s] = outcome]
  /\ UNCHANGED <<memory, counts, obj, top, next, copies>>

-----------------------------------------------------------------------------
(* Allocate: pop the head, or ask pool_ if there is none or another strand *)
(* was faster.                                                             *)

LoadHead(s) ==
  /\ top' = [top EXCEPT ![s] = head]
  /\ Goes(s, "load", IF head = Nil THEN "malloc" ELSE "next")
  /\ UNCHANGED <<memory, counts, obj, next, fate, bounds>>

\* The word is no link any more if the block was taken meanwhile.
ReadNext(s) ==
  /\ Goes(s, "next", "pop")
  /\ \E n \in IF top[s] \in free THEN {link[top[s]]} ELSE Blocks \cup {Nil} :
       next' = [next EXCEPT ![s] = n]
  /\ UNCHANGED <<memory, counts, obj, top, fate, bounds>>

\* Fault: a store instead of the exchange.
SameHeadOrNot(s) == TRUE

SameHead(s) == head = top[s]

PopHead(s) ==
  /\ at[s] = "pop"
  /\ IF SameHead(s)
     THEN /\ head' = next[s] /\ free' = free \ {top[s]}
          /\ obj' = [obj EXCEPT ![s] = top[s]]
          /\ at' = [at EXCEPT ![s] = "construct"]
     ELSE at' = [at EXCEPT ![s] = "malloc"] /\ UNCHANGED <<head, free, obj>>
  /\ UNCHANGED <<link, fresh, counts, top, next, fate, bounds>>

\* pool_.malloc() has no lock: reading its list and taking the block are two steps.
MallocRead(s) ==
  /\ Goes(s, "malloc", "take")
  /\ \E b \in fresh : obj' = [obj EXCEPT ![s] = b]
  /\ UNCHANGED <<memory, counts, top, next, fate, bounds>>

MallocTake(s) ==
  /\ Goes(s, "take", "construct")
  /\ fresh' = fresh \ {obj[s]}
  /\ UNCHANGED <<head, link, free, counts, obj, top, next, fate, bounds>>

\* The event is constructed with the count 0; the pointer made of it counts one.
Construct(s) ==
  /\ Goes(s, "construct", "parsed")
  /\ refs' = [refs EXCEPT ![obj[s]] = 1]
  /\ UNCHANGED <<memory, tasks, obj, top, next, fate, bounds>>

-----------------------------------------------------------------------------
(* The listener posts a copy to the next strand; then, and when the parser *)
(* drops the event, its own pointer ends.                                  *)

\* Fault: the coroutine is posted with a reference to the listener's pointer.
CopyNone(n) == n

Copy(n) == n + 1

Post(s) ==
  /\ fate[s] = "event" /\ Goes(s, "parsed", "release")
  /\ tasks' = [tasks EXCEPT ![obj[s]] = @ + 1]
  /\ refs' = [refs EXCEPT ![obj[s]] = Copy(@)]
  /\ UNCHANGED <<memory, obj, top, next, fate, bounds>>

Drop(s) ==
  /\ fate[s] = "dropped" /\ Goes(s, "parsed", "release")
  /\ UNCHANGED <<memory, counts, obj, top, next, fate, bounds>>

\* intrusive_ptr_release
Release(s) ==
  /\ at[s] = "release"
  /\ refs' = [refs EXCEPT ![obj[s]] = @ - 1]
  /\ IF refs[obj[s]] = 1 THEN Goes(s, "release", "destroy") /\ UNCHANGED obj
     ELSE Goes(s, "release", "idle") /\ obj' = [obj EXCEPT ![s] = Nil]
  /\ UNCHANGED <<memory, tasks, top, next, fate, bounds>>

-----------------------------------------------------------------------------
(* Deallocate: push the block, again if another strand was faster.         *)

LoadForPush(s) ==
  /\ Goes(s, "destroy", "link")
  /\ top' = [top EXCEPT ![s] = head]
  /\ UNCHANGED <<memory, counts, obj, next, fate, bounds>>

Link(s) ==
  /\ Goes(s, "link", "push")
  /\ link' = [link EXCEPT ![obj[s]] = top[s]]
  /\ UNCHANGED <<head, fresh, free, counts, obj, top, next, fate, bounds>>

\* Fault: a failed exchange is tried again without linking the block anew.
RetryPush == "push"

Retry == "link"

Push(s) ==
  /\ at[s] = "push"
  /\ IF SameHead(s)
     THEN /\ head' = obj[s] /\ free' = free \cup {obj[s]}
          /\ obj' = [obj EXCEPT ![s] = Nil] /\ at' = [at EXCEPT ![s] = "idle"]
          /\ UNCHANGED top
     ELSE /\ top' = [top EXCEPT ![s] = head] /\ at' = [at EXCEPT ![s] = Retry]
          /\ UNCHANGED <<head, free, obj>>
  /\ UNCHANGED <<link, fresh, counts, next, fate, bounds>>

-----------------------------------------------------------------------------
(* The strands of synchroniser, book and managers: a coroutine begins with *)
(* its copy, may post further ones, and ends.                              *)

Begin(s) ==
  /\ s \notin Parsers /\ Goes(s, "idle", "handling")
  /\ \E b \in Blocks :
       /\ tasks[b] > 0
       /\ tasks' = [tasks EXCEPT ![b] = @ - 1]
       /\ obj' = [obj EXCEPT ![s] = b]
  /\ UNCHANGED <<memory, refs, top, next, fate, bounds>>

PassOn(s) ==
  /\ at[s] = "handling" /\ copies > 0
  /\ copies' = copies - 1
  /\ tasks' = [tasks EXCEPT ![obj[s]] = @ + 1]
  /\ refs' = [refs EXCEPT ![obj[s]] = Copy(@)]
  /\ UNCHANGED <<memory, local, messages>>

Finish(s) ==
  /\ Goes(s, "handling", "release")
  /\ UNCHANGED <<memory, counts, obj, top, next, fate, bounds>>

-----------------------------------------------------------------------------
Init ==
  /\ head = Nil /\ link = [b \in Blocks |-> Nil]
  /\ fresh = Blocks /\ free = {}
  /\ refs = [b \in Blocks |-> 0] /\ tasks = [b \in Blocks |-> 0]
  /\ at = [s \in Strands |-> "idle"] /\ obj = [s \in Strands |-> Nil]
  /\ top = [s \in Strands |-> Nil] /\ next = [s \in Strands |-> Nil]
  /\ fate = [s \in Strands |-> "event"]
  /\ messages = MaxMessages /\ copies = MaxCopies

Allocate(s)   == LoadHead(s) \/ ReadNext(s) \/ PopHead(s) \/ MallocRead(s) \/ MallocTake(s) \/ Construct(s)
Deallocate(s) == LoadForPush(s) \/ Link(s) \/ Push(s)
Use(s)        == Post(s) \/ Drop(s) \/ Release(s) \/ Begin(s) \/ Finish(s)
Step(s)       == Allocate(s) \/ Deallocate(s) \/ Use(s)

Next == \E s \in Strands : Parse(s) \/ Step(s) \/ PassOn(s)

Spec == Init /\ [][Next]_vars

\* The threads of the pool run every strand that has something to do.
FairSpec == Spec /\ \A s \in Strands : WF_vars(Step(s))

-----------------------------------------------------------------------------
(* Properties.                                                             *)

Places == {"idle", "load", "next", "pop", "malloc", "take", "construct", "parsed",
           "release", "destroy", "link", "push", "handling"}

\* Links, counts and the strands' variables are of their types.
TypeOK ==
  /\ head \in Blocks \cup {Nil} /\ link \in [Blocks -> Blocks \cup {Nil}]
  /\ fresh \subseteq Blocks /\ free \subseteq Blocks
  /\ refs \in [Blocks -> Nat] /\ tasks \in [Blocks -> Nat]
  /\ at \in [Strands -> Places] /\ obj \in [Strands -> Blocks \cup {Nil}]
  /\ top \in [Strands -> Blocks \cup {Nil}] /\ next \in [Strands -> Blocks \cup {Nil}]
  /\ fate \in [Strands -> {"event", "dropped"}]
  /\ messages \in Nat /\ copies \in Nat

\* A strand at these places points to a live event, or has a block to itself.
Points(s, b) == obj[s] = b /\ at[s] \in {"parsed", "release", "handling"}
Owns(s, b)   == obj[s] = b /\ at[s] \in {"construct", "destroy", "link", "push"}

\* The reference count of an event is the number of pointers to it, those of coroutines
\* that have not begun included (ref_counted.h:11 to 26): the last one to let go, and
\* only that one, puts the block back.
RefsAreHolders ==
  \A b \in Blocks : refs[b] = tasks[b] + Cardinality({s \in Strands : Points(s, b)})

\* A block that is in use, being made or on its way back is not in the free list, pool_
\* does not have it either, and it belongs to one strand only; the free list starts and
\* goes on with free blocks, and no two of them have the same successor
\* (mem_pool.h:64 to 101): the exchange in Allocate never brings back a block in use.
NoBlockTwice ==
  /\ free \cap fresh = {}
  /\ \A b \in free \cup fresh : refs[b] = 0 /\ \A s \in Strands : ~Owns(s, b)
  /\ \A s, t \in Strands : \A b \in Blocks :
       Owns(s, b) => refs[b] = 0 /\ (Owns(t, b) => s = t)
  /\ head \in free \cup {Nil}
  /\ \A a \in free : /\ link[a] \in free \cup {Nil}
                     /\ link[a] # head \/ head = Nil
                     /\ \A b \in free : link[a] = link[b] => a = b \/ link[a] = Nil

\* A set that has the head and, with each block, the one that it links to.
FollowsLinks(S) == head \in S /\ \A b \in S \ {Nil} : link[b] \in S

\* The blocks found by following the links from the head: those no such set can leave out.
Listed == {b \in Blocks : \A S \in SUBSET (Blocks \cup {Nil}) : FollowsLinks(S) => b \in S}

\* Every block is somewhere, and every free one is found again: none is lost when two
\* strands push at once, when an allocation gives up on a moving head, or when the parser
\* drops the event it had made.
NothingLost ==
  /\ Listed = free
  /\ \A b \in Blocks : b \in free \cup fresh \/ refs[b] > 0 \/ \E s \in Strands : Owns(s, b)

\* When all messages are handled every block has come back.
EverythingReturns == <>[](free \cup fresh = Blocks /\ Listed = free)

=============================================================================
