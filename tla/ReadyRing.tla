------------------------------ MODULE ReadyRing ------------------------------
(***************************************************************************)
(* The books of the message queue pallet and the ready ring: the queues    *)
(* with messages to service form a doubly linked ring through the          *)
(* ready_neighbours of their books, entered at the service head.           *)
(***************************************************************************)
EXTENDS Integers

CONSTANTS
  Origins,  \* MessageOriginOf<T>: the names of the queues
  None      \* Option::None

SaturatingSub(a, b) == IF a > b THEN a - b ELSE 0

Neighbours == [prev: Origins, next: Origins]

BookState == [begin: Nat, end: Nat, count: Nat, message_count: Nat, size: Nat,
              ready_neighbours: Neighbours \cup {None}]

default_book ==
  [begin |-> 0, end |-> 0, count |-> 0, message_count |-> 0, size |-> 0,
   ready_neighbours |-> None]

footprint(book) ==
  [pages |-> book.count, ready_pages |-> SaturatingSub(book.end, book.begin),
   count |-> book.message_count, size |-> book.size]

next_of(book) ==
  IF book.ready_neighbours = None THEN None ELSE book.ready_neighbours.next

with_links(book, nb) == [book EXCEPT !.ready_neighbours = nb]

set_prev(bs, o, q) == [bs EXCEPT ![o].ready_neighbours.prev = q]

set_next(bs, o, q) == [bs EXCEPT ![o].ready_neighbours.next = q]

\* Fault: the new queue is linked to itself only, whatever the head.
fault_knit_alone(bs, head, origin) ==
  [books |-> bs, head |-> IF head = None THEN origin ELSE head,
   neighbours |-> [prev |-> origin, next |-> origin]]

\* The ring operations change the books and the head, given as bs and head.
\* knit answers the neighbours of the origin, None for Err(()).
ready_ring_knit(bs, head, origin) ==
  IF head = None
    THEN [books |-> bs, head |-> origin,
          neighbours |-> [prev |-> origin, next |-> origin]]
  ELSE IF bs[head].ready_neighbours = None
    THEN [books |-> bs, head |-> head, neighbours |-> None]
  ELSE
    LET tail == bs[head].ready_neighbours.prev
        linked == set_prev(bs, head, origin)
    IN  IF linked[tail].ready_neighbours = None
          THEN [books |-> linked, head |-> head, neighbours |-> None]
          ELSE [books |-> set_next(linked, tail, origin),
                head |-> head,
                neighbours |-> [prev |-> tail, next |-> head]]

\* BookStateFor::mutate of one link of a neighbour that is in the ring.
relink_prev(bs, o, prev) ==
  IF bs[o].ready_neighbours = None THEN bs ELSE set_prev(bs, o, prev)

relink_next(bs, o, next) ==
  IF bs[o].ready_neighbours = None THEN bs ELSE set_next(bs, o, next)

\* Fault: the head stays on the queue that leaves the ring.
fault_unknit_keeps_head(bs, head, origin, nb) ==
  [books |-> relink_next(relink_prev(bs, nb.next, nb.prev), nb.prev, nb.next),
   head |-> IF nb.next = origin THEN None ELSE head]

ready_ring_unknit(bs, head, origin, nb) ==
  IF nb.next = origin
    THEN [books |-> bs, head |-> None]
    ELSE [books |-> relink_next(relink_prev(bs, nb.next, nb.prev), nb.prev, nb.next),
          head |-> IF head = origin THEN nb.next ELSE head]

ASSUME RingAssumption == None \notin Origins \cup Neighbours \cup BookState

-----------------------------------------------------------------------------
(* What a well-formed ring is                                                *)

ready_queues(bs) == {o \in Origins : bs[o].ready_neighbours # None}

links_consistent(bs, head) ==
  LET ready == ready_queues(bs)
  IN  /\ (head = None) <=> (ready = {})
      /\ head # None => head \in ready
      /\ \A o \in ready :
           LET nb == bs[o].ready_neighbours
           IN  /\ nb.next \in ready /\ bs[nb.next].ready_neighbours.prev = o
               /\ nb.prev \in ready /\ bs[nb.prev].ready_neighbours.next = o

single_ring(bs) ==
  \A S \in SUBSET ready_queues(bs) :
    (S # {} /\ \A o \in S : bs[o].ready_neighbours.next \in S) => S = ready_queues(bs)

=============================================================================
