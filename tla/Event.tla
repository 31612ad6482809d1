------------------------------- MODULE Event -------------------------------
(***************************************************************************)
(* The events of one process (src/event.c): handlers are registered with   *)
(* pr_event_register(), removed with pr_event_unregister() and called by   *)
(* pr_event_generate().                                                    *)
(*                                                                         *)
(* The handlers of an event are a doubly linked list, kept here as nodes   *)
(* of a heap with their next and prev pointers.  Nodes are never freed, as *)
(* their pool lives as long as the process.  A callback may call all three *)
(* functions, so events nest: the calls of pr_event_generate() in progress *)
(* are a stack.  The data of an event are left out, and each module has    *)
(* one callback, so the module is named by its callback.                   *)
(***************************************************************************)
EXTENDS Naturals, SequencesExt

CONSTANTS
  Events,     \* event names
  ModCbs,     \* callbacks of modules
  CoreCbs,    \* callbacks of the core: they are registered with module NULL
  None,       \* a NULL event, callback or module
  MaxNodes,   \* bound on the registrations made
  MaxDepth    \* bound on the nesting of events

ASSUME EventAssumption ==
  /\ None \notin Events \cup ModCbs \cup CoreCbs
  /\ ModCbs \cap CoreCbs = {}
  /\ MaxNodes \in Nat \ {0}
  /\ MaxDepth \in Nat \ {0}

VARIABLES
  heap,        \* the struct event_handler objects
  used,        \* how many of them were allocated
  events,      \* the events that have a struct event_list
  handlers,    \* the head of each list, 0 is NULL
  curr_event,  \* event whose position is cached
  curr_evh,    \* the cached position
  stack,       \* pr_event_generate() in progress: event, and handler called
  wanted       \* nodes that were registered and not asked to be unregistered

vars == <<heap, used, events, handlers, curr_event, curr_evh, stack, wanted>>

Cbs == ModCbs \cup CoreCbs
Nodes == 1..MaxNodes
Pointer == 0..MaxNodes
Blank == [event |-> None, module |-> None, cb |-> None, next |-> 0, prev |-> 0]

\* The node after k steps along next from node n.
Steps(hp, n) ==
  LET f[k \in 0..MaxNodes] ==
        IF k = 0 THEN n ELSE IF f[k - 1] = 0 THEN 0 ELSE hp[f[k - 1]].next
  IN  f

\* The nodes of an event's list, in order.
List(e) ==
  LET s == Steps(heap, handlers[e])
  IN  SelectSeq([i \in 1..MaxNodes |-> s[i - 1]], LAMBDA n : n # 0)

Listed(e) == {List(e)[i] : i \in DOMAIN List(e)}

-----------------------------------------------------------------------------
(* Registration.                                                           *)

\* In front of the list with head hd.  It is the back pointer of the second
\* node that is set, not that of the first.
LinkFirst(hp, n, hd) ==
  LET second == hp[hd].next
  IN  [i \in Nodes |-> IF i = n THEN [hp[n] EXCEPT !.next = hd]
                       ELSE IF i = second THEN [hp[i] EXCEPT !.prev = n]
                       ELSE hp[i]]

LinkLast(hp, n, last) == [hp EXCEPT ![last].next = n, ![n].prev = last]

\* Mutant of GoesFirst: the core's callbacks go first, too.
GoesFirstAlways(c) == TRUE

GoesFirst(c) == c \in ModCbs

\* EEXIST if the list has the callback.  The cached position is only cleared
\* if the event had no list yet.
pr_event_register(e, c) ==
  LET n == used + 1
      m == IF c \in ModCbs THEN c ELSE None
      hp == [heap EXCEPT ![n] = [Blank EXCEPT !.event = e, !.module = m, !.cb = c]]
      ls == List(e)
  IN  /\ used < MaxNodes
      /\ \A i \in DOMAIN ls : heap[ls[i]].cb # c
      /\ used' = n
      /\ events' = events \cup {e}
      /\ wanted' = wanted \cup {n}
      /\ heap' = IF ls = <<>> THEN hp
                 ELSE IF GoesFirst(c) THEN LinkFirst(hp, n, ls[1])
                 ELSE LinkLast(hp, n, Last(ls))
      /\ handlers' = IF ls = <<>> \/ GoesFirst(c) THEN [handlers EXCEPT ![e] = n]
                                                  ELSE handlers
      /\ IF e \in events THEN UNCHANGED <<curr_event, curr_evh>>
                         ELSE curr_event' = None /\ curr_evh' = 0
      /\ UNCHANGED stack

-----------------------------------------------------------------------------
(* Removal.                                                                *)

Matches(h, m, c) == m \in {None, h.module} /\ c \in {None, h.cb}

\* One node is taken off the list.
Unlink(st) ==
  LET n == st.evh
      h == st.heap[n]
      fwd == [i \in Nodes |-> IF i = h.next THEN [st.heap[i] EXCEPT !.prev = h.prev]
                                            ELSE st.heap[i]]
      both == [i \in Nodes |-> IF i = h.prev THEN [fwd[i] EXCEPT !.next = h.next]
                                             ELSE fwd[i]]
  IN  [evh |-> h.next,
       head |-> IF h.prev = 0 THEN h.next ELSE st.head,
       heap |-> [both EXCEPT ![n].module = None]]

\* The walk along the list of e: head and heap at its end.
Removal(e, m, c) ==
  LET f[k \in Pointer] ==
        IF k = 0 THEN [evh |-> handlers[e], head |-> handlers[e], heap |-> heap]
        ELSE LET st == f[k - 1]
             IN  IF st.evh = 0 THEN st
                 ELSE IF Matches(st.heap[st.evh], m, c) THEN Unlink(st)
                 ELSE [st EXCEPT !.evh = st.heap[st.evh].next]
  IN  f[MaxNodes]

ClearCache == curr_event' = None /\ curr_evh' = 0

\* Mutant of Forget: the cached position survives.
ForgetNothing == UNCHANGED <<curr_event, curr_evh>>

\* The cached position is cleared, whatever was removed.
Forget == ClearCache

\* None is NULL: any module, all events, any callback.
pr_event_unregister(m, e, c) ==
  LET es == {x \in events : e \in {None, x}}
      r == [x \in es |-> Removal(x, m, c)]
  IN  /\ events # {}
      /\ handlers' = [x \in Events |-> IF x \in es THEN r[x].head ELSE handlers[x]]
      /\ heap' = [n \in Nodes |-> IF heap[n].event \in es THEN r[heap[n].event].heap[n]
                                                          ELSE heap[n]]
      /\ wanted' = {n \in wanted : ~(heap[n].event \in es /\ Matches(heap[n], m, c))}
      /\ Forget
      /\ UNCHANGED <<used, events, stack>>

-----------------------------------------------------------------------------
(* Dispatch.                                                               *)

Top == stack[Len(stack)]

\* Call the handler at n; the cached position is the one after it.
Call(frames, e, n) ==
  /\ stack' = Append(frames, [event |-> e, evh |-> n])
  /\ curr_evh' = heap[n].next

\* pr_event_generate() up to its first callback.  An event without handlers
\* leaves the cache alone, one without a list clears it.
pr_event_generate(e) ==
  LET n == IF curr_event = e THEN curr_evh ELSE handlers[e]
  IN  /\ Len(stack) < MaxDepth
      /\ events # {}
      /\ \/ e \notin events /\ ClearCache /\ UNCHANGED stack
         \/ /\ e \in events /\ handlers[e] = 0
            /\ UNCHANGED <<curr_event, curr_evh, stack>>
         \/ /\ e \in events /\ handlers[e] # 0 /\ n = 0
            /\ ClearCache /\ UNCHANGED stack
         \/ /\ e \in events /\ handlers[e] # 0 /\ n # 0
            /\ curr_event' = e /\ Call(stack, e, n)
      /\ UNCHANGED <<heap, used, events, handlers, wanted>>

\* A callback returns; the next handler is called, or the cache is cleared and
\* pr_event_generate() returns.
CallbackReturn ==
  LET next == heap[Top.evh].next
  IN  /\ stack # <<>>
      /\ \/ next = 0 /\ stack' = Front(stack) /\ ClearCache
         \/ next # 0 /\ Call(Front(stack), Top.event, next) /\ UNCHANGED curr_event
      /\ UNCHANGED <<heap, used, events, handlers, wanted>>

-----------------------------------------------------------------------------
Init ==
  /\ heap = [n \in Nodes |-> Blank] /\ used = 0
  /\ events = {} /\ handlers = [e \in Events |-> 0]
  /\ curr_event = None /\ curr_evh = 0
  /\ stack = <<>> /\ wanted = {}

Next ==
  \/ \E e \in Events, c \in Cbs : pr_event_register(e, c)
  \/ \E m \in ModCbs \cup {None}, e \in Events \cup {None}, c \in Cbs \cup {None} :
       pr_event_unregister(m, e, c)
  \/ \E e \in Events : pr_event_generate(e)
  \/ CallbackReturn

Spec == Init /\ [][Next]_vars

-----------------------------------------------------------------------------
(* Properties.                                                             *)

\* Type invariant: pointers are NULL or point at nodes that were allocated.
TypeOK ==
  /\ heap \in [Nodes -> [event : Events \cup {None}, module : ModCbs \cup {None},
                         cb : Cbs \cup {None}, next : 0..used, prev : 0..used]]
  /\ used \in Pointer
  /\ events \subseteq Events
  /\ handlers \in [Events -> 0..used]
  /\ curr_event \in Events \cup {None} /\ curr_evh \in 0..used
  /\ stack \in Seq([event : Events, evh : 1..used]) /\ Len(stack) <= MaxDepth
  /\ wanted \subseteq 1..used

\* Types are as declared, and however handlers come and go, and although back
\* pointers are wrong, no list gets a cycle: the loops of pr_event_register(),
\* pr_event_unregister() and pr_event_generate() end.  That includes the walk
\* from a handler that is being called and was unregistered meanwhile.
WalksEnd ==
  /\ TypeOK
  /\ \A n \in {handlers[e] : e \in Events} \cup {stack[i].evh : i \in DOMAIN stack} :
       Steps(heap, n)[MaxNodes] = 0

\* "last module loaded, first module handled" and "core callbacks [...] will
\* always be invoked last": on each list the modules' handlers come first, the
\* latest registration before the earlier ones, then the core's, in the order
\* of their registration.
HandlerOrder ==
  \A e \in Events : \A i, j \in DOMAIN List(e) : i < j =>
    LET a == List(e)[i] b == List(e)[j] IN
      IF heap[b].cb \in ModCbs THEN heap[a].cb \in ModCbs /\ a > b
                               ELSE heap[a].cb \in CoreCbs => a < b

\* Registration and removal keep the lists whole: without cycles, and in the
\* order in which pr_event_generate() is to call the handlers.
ListsKept == WalksEnd /\ HandlerOrder

\* A cached position belongs to the innermost event that is being generated,
\* and is where that dispatch goes on when the callback returns: no nested
\* event and no removal leaves a stale one.  (It may be NULL although a core
\* callback was added at the end meanwhile.)
CacheFresh ==
  curr_event # None =>
    /\ stack # <<>> /\ Top.event = curr_event
    /\ curr_evh \in {0, heap[Top.evh].next}

-----------------------------------------------------------------------------
(* What documents and comments say, and the code does not do.              *)

\* "The named event is dispatched to any handlers that have registered an
\* interest in handling this event." (include/event.h): a handler stays on
\* the list until it is unregistered itself.
RegisteredListed == \A n \in wanted : n \in Listed(heap[n].event)

=============================================================================
