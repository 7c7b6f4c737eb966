--------------------------- MODULE SerialWorkQueue ---------------------------
(***************************************************************************)
(* PatchRelay's SerialWorkQueue, as a value and what its methods make of   *)
(* it.  An item is known by its key.  It waits in items, in the order in   *)
(* which it will be handed out, or is delayed, in the order in which the   *)
(* delays began; keys are those that count as queued, and working is what  *)
(* the drain loop has handed out and awaits.                               *)
(***************************************************************************)
EXTENDS Naturals, Sequences, SequencesExt, FiniteSets

CONSTANT NoEntry   \* nothing is handed out

Entry(key, attempt, priority) == [key |-> key, attempt |-> attempt, priority |-> priority]
Urgent(e) == [e EXCEPT !.priority = TRUE]

EmptyQueue ==
  [items |-> <<>>, keys |-> {}, delayed |-> <<>>, pending |-> FALSE, working |-> NoEntry]

KeysOf(entries) == {e.key : e \in ToSet(entries)}
DelayedKeys(q) == {d.entry.key : d \in ToSet(q.delayed)}

\* The elements of s at the positions I, in their order (SelectSeq, in a form
\* that a proof can use).
Nth(I, n) == CHOOSE i \in I : Cardinality({j \in I : j <= i}) = n
At(s, I) == [n \in 1..Cardinality(I) |-> s[Nth(I, n)]]

\* Without the entries of key k; there is one at most.
ItemsBut(q, k) == At(q.items, {i \in DOMAIN q.items : q.items[i].key # k})
DelayedBut(q, k) == At(q.delayed, {i \in DOMAIN q.delayed : q.delayed[i].entry.key # k})

ItemOf(q, k) == CHOOSE e \in ToSet(q.items) : e.key = k
DelayOf(q, k) == CHOOSE d \in ToSet(q.delayed) : d.entry.key = k

Marked(d, k) == IF d.entry.key = k THEN [d EXCEPT !.entry = Urgent(@)] ELSE d

\* An item that is queued already goes to the front; a delayed one is marked
\* urgent, and goes to the front at once if its delay allows it.
Raised(q, k) ==
  IF k \in KeysOf(q.items)
    THEN [q EXCEPT !.items = <<Urgent(ItemOf(q, k))>> \o ItemsBut(q, k)]
  ELSE IF k \notin DelayedKeys(q)
    THEN q
  ELSE LET d == DelayOf(q, k) IN
    IF d.promotable
      THEN [q EXCEPT !.items = <<Urgent(d.entry)>> \o @, !.delayed = DelayedBut(q, k),
                     !.pending = TRUE]
      ELSE [q EXCEPT !.delayed = [i \in DOMAIN @ |-> Marked(@[i], k)]]

\* enqueueEntry.
Enqueued(q, e) ==
  IF e.key \notin q.keys
    THEN [q EXCEPT !.items = IF e.priority THEN <<e>> \o @ ELSE Append(@, e),
                   !.keys = @ \cup {e.key}, !.pending = TRUE]
  ELSE IF e.priority THEN Raised(q, e.key)
  ELSE q

\* scheduleRetry: the retry is dropped if the item was queued again meanwhile.
Delayed(q, e, promotable) ==
  IF e.key \in q.keys THEN q
  ELSE [q EXCEPT !.keys = @ \cup {e.key},
                 !.delayed = Append(@, [entry |-> e, promotable |-> promotable, due |-> FALSE])]

\* Mutant of Hurried: any urgent item goes ahead, whatever it is waiting for.
AllUrgent(d) == d.entry.priority
Hurried(d) == d.entry.priority /\ d.promotable

\* promoteDelayedPriorities: one after the other goes to the front.
Promoted(q) ==
  LET I == {i \in DOMAIN q.delayed : Hurried(q.delayed[i])}
      hurried == At(q.delayed, I)
  IN  [q EXCEPT !.items = Reverse([i \in DOMAIN hurried |-> hurried[i].entry]) \o @,
                !.delayed = At(@, DOMAIN @ \ I),
                !.pending = @ \/ hurried # <<>>]

\* Mutant of Woken: the key of a delayed item stays taken when it is queued.
WokenKeyKept(q, d) == [q EXCEPT !.delayed = DelayedBut(q, d.entry.key)]

\* The timer forgets the delay before it queues the item.
Woken(q, d) == [q EXCEPT !.delayed = DelayedBut(q, d.entry.key), !.keys = @ \ {d.entry.key}]

\* The timer of a delay: the item is queued, and the urgent ones with it.
Fired(q, d) == Promoted(Enqueued(Woken(q, d), d.entry))

\* The drain loop hands out the next item, whose key may be queued again from
\* then on, or ends.
Drained(q) ==
  IF q.items = <<>>
    THEN [q EXCEPT !.pending = FALSE, !.working = NoEntry]
    ELSE [q EXCEPT !.items = Tail(@), !.keys = @ \ {Head(q.items).key},
                   !.working = Head(q.items)]
=============================================================================
