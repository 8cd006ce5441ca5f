-------------------------- MODULE ReadyRing_proofs --------------------------
(***************************************************************************)
(* ready_ring_knit and ready_ring_unknit keep the ready ring one ring, for *)
(* any set of origins.                                                     *)
(***************************************************************************)
EXTENDS ReadyRing, TLAPS

Nb(bs, o) == bs[o].ready_neighbours

\* What a ring operation may do to the books: the links only.
SameButLinks(bs1, bs2) ==
  /\ bs2 \in [Origins -> BookState]
  /\ \A p \in Origins : bs2[p].begin = bs1[p].begin /\ bs2[p].end = bs1[p].end

Ring(bs, head) ==
  /\ bs \in [Origins -> BookState]
  /\ links_consistent(bs, head)
  /\ single_ring(bs)

LEMMA NoneDistinct == None \notin Origins /\ None \notin Neighbours
  BY RingAssumption

LEMMA WithLinks ==
  ASSUME NEW book \in BookState, NEW nb \in Neighbours \cup {None}
  PROVE  /\ with_links(book, nb) \in BookState
         /\ with_links(book, nb).ready_neighbours = nb
         /\ with_links(book, nb).begin = book.begin
         /\ with_links(book, nb).end = book.end
  BY DEF with_links, BookState

\* Changing a link of a book leaves the rest of the books alone.
LEMMA SetPrev ==
  ASSUME NEW bs \in [Origins -> BookState], NEW o \in Origins, NEW q \in Origins,
         Nb(bs, o) # None
  PROVE  /\ SameButLinks(bs, set_prev(bs, o, q))
         /\ Nb(set_prev(bs, o, q), o) = [prev |-> q, next |-> Nb(bs, o).next]
         /\ \A p \in Origins : p # o => set_prev(bs, o, q)[p] = bs[p]
  BY DEF SameButLinks, Nb, BookState, Neighbours, set_prev

LEMMA SetNext ==
  ASSUME NEW bs \in [Origins -> BookState], NEW o \in Origins, NEW q \in Origins,
         Nb(bs, o) # None
  PROVE  /\ SameButLinks(bs, set_next(bs, o, q))
         /\ Nb(set_next(bs, o, q), o) = [prev |-> Nb(bs, o).prev, next |-> q]
         /\ \A p \in Origins : p # o => set_next(bs, o, q)[p] = bs[p]
  BY DEF SameButLinks, Nb, BookState, Neighbours, set_next

\* Writing a book back whose links are the stored ones does not touch the ring.
LEMMA WriteBack ==
  ASSUME NEW bs, NEW head, Ring(bs, head),
         NEW o \in Origins, NEW book \in BookState,
         book.ready_neighbours = Nb(bs, o)
  PROVE  Ring([bs EXCEPT ![o] = book], head)
<1> DEFINE bs2 == [bs EXCEPT ![o] = book]
<1>1. bs2 \in [Origins -> BookState] /\ \A p \in Origins : Nb(bs2, p) = Nb(bs, p)
  BY DEF Ring, Nb
<1>2. ready_queues(bs2) = ready_queues(bs)
  BY <1>1 DEF ready_queues, Nb
<1>3. links_consistent(bs2, head)
  BY <1>1, <1>2 DEF Ring, links_consistent, ready_queues, Nb
<1>4. single_ring(bs2)
  BY <1>1, <1>2 DEF Ring, single_ring, ready_queues, Nb
<1> QED BY <1>1, <1>3, <1>4 DEF Ring

\* The links of p once o stands between the tail and the head.
KnitLink(bs, head, tail, o, p) ==
  IF Nb(bs, p) = None THEN None
  ELSE [prev |-> IF p = head THEN o ELSE Nb(bs, p).prev,
        next |-> IF p = tail THEN o ELSE Nb(bs, p).next]

\* The links of p once o is taken out.
UnknitLink(bs, o, p) ==
  IF Nb(bs, p) = None THEN None
  ELSE [prev |-> IF p = Nb(bs, o).next THEN Nb(bs, o).prev ELSE Nb(bs, p).prev,
        next |-> IF p = Nb(bs, o).prev THEN Nb(bs, o).next ELSE Nb(bs, p).next]

\* A ring of which only the links of head and tail are changed, to admit o between
\* them, is a ring again.  The argument for SingleRing: a set closed under the new
\* `next' is, without o, closed under the old one.
LEMMA KnitIntoRing ==
  ASSUME NEW bs, NEW head \in Origins, Ring(bs, head),
         NEW o \in Origins, o \notin ready_queues(bs),
         NEW bs2 \in [Origins -> BookState], NEW tail \in Origins,
         tail = Nb(bs, head).prev,
         Nb(bs2, o) = [prev |-> tail, next |-> head],
         \A p \in Origins \ {o} : Nb(bs2, p) = KnitLink(bs, head, tail, o, p)
  PROVE  Ring(bs2, head)
<1> USE NoneDistinct
<1> DEFINE R == ready_queues(bs)
<1>1. \A p \in R : Nb(bs, p) \in Neighbours
  BY DEF Ring, Nb, ready_queues, BookState
<1>2. head \in R /\ tail \in R /\ Nb(bs, tail).next = head
  BY DEF Ring, links_consistent, Nb
<1>3. ready_queues(bs2) = R \cup {o}
  <2>1. R \subseteq Origins
    BY DEF ready_queues
  <2>2. Nb(bs2, o) # None
    BY <1>2, <2>1 DEF Neighbours
  <2>3. \A p \in Origins \ {o} : (Nb(bs2, p) = None) <=> (Nb(bs, p) = None)
    <3> SUFFICES ASSUME NEW p \in Origins \ {o}, Nb(bs, p) # None
                 PROVE  Nb(bs2, p) # None
      BY Zenon DEF KnitLink
    <3>1. p \in R
      BY DEF ready_queues, Nb
    <3>2. Nb(bs2, p) \in Neighbours
      BY <3>1, <1>1, <1>2, <2>1 DEF Neighbours, KnitLink
    <3> QED BY <3>2
  <2> QED BY <2>2, <2>3 DEF ready_queues, Nb
<1>4. /\ Nb(bs2, o).prev = tail /\ Nb(bs2, o).next = head
      /\ \A p \in R : /\ Nb(bs2, p).prev = IF p = head THEN o ELSE Nb(bs, p).prev
                      /\ Nb(bs2, p).next = IF p = tail THEN o ELSE Nb(bs, p).next
  <2>1. Nb(bs2, o).prev = tail /\ Nb(bs2, o).next = head
    OBVIOUS
  <2>2. ASSUME NEW p \in R
        PROVE  /\ Nb(bs2, p).prev = IF p = head THEN o ELSE Nb(bs, p).prev
               /\ Nb(bs2, p).next = IF p = tail THEN o ELSE Nb(bs, p).next
    <3>1. p \in Origins \ {o} /\ Nb(bs, p) # None
      BY DEF ready_queues, Nb
    <3>2. Nb(bs2, p) = [prev |-> IF p = head THEN o ELSE Nb(bs, p).prev,
                        next |-> IF p = tail THEN o ELSE Nb(bs, p).next]
      BY <3>1 DEF KnitLink
    <3> QED BY <3>2
  <2> QED BY <2>1, <2>2
<1>5. \A p \in R : /\ Nb(bs, p).next \in R /\ Nb(bs, Nb(bs, p).next).prev = p
                   /\ Nb(bs, p).prev \in R /\ Nb(bs, Nb(bs, p).prev).next = p
  BY Zenon DEF Ring, links_consistent, Nb
<1>6. \A p \in R \cup {o} :
        /\ Nb(bs2, p).next \in R \cup {o} /\ Nb(bs2, Nb(bs2, p).next).prev = p
        /\ Nb(bs2, p).prev \in R \cup {o} /\ Nb(bs2, Nb(bs2, p).prev).next = p
  <2>1. o \notin R
    BY DEF ready_queues, Nb
  <2>2. Nb(bs, head).prev = tail
    BY <1>2, <1>5
  <2>3. ASSUME NEW p \in R \cup {o}
        PROVE  Nb(bs2, p).next \in R \cup {o} /\ Nb(bs2, Nb(bs2, p).next).prev = p
    <3>1. CASE p = o
      BY <3>1, <1>2, <1>4
    <3>2. CASE p = tail
      BY <3>2, <1>2, <1>4, <2>1
    <3>3. CASE p \in R \ {tail}
      <4>1. Nb(bs2, p).next = Nb(bs, p).next /\ Nb(bs, p).next \in R
        BY <3>3, <1>4, <1>5
      <4>2. Nb(bs, p).next # head
        BY <3>3, <1>5, <2>2
      <4> QED BY <3>3, <4>1, <4>2, <1>4, <1>5
    <3> QED BY <3>1, <3>2, <3>3
  <2>4. ASSUME NEW p \in R \cup {o}
        PROVE  Nb(bs2, p).prev \in R \cup {o} /\ Nb(bs2, Nb(bs2, p).prev).next = p
    <3>1. CASE p = o
      BY <3>1, <1>2, <1>4
    <3>2. CASE p = head
      BY <3>2, <1>2, <1>4, <2>1
    <3>3. CASE p \in R \ {head}
      <4>1. Nb(bs2, p).prev = Nb(bs, p).prev /\ Nb(bs, p).prev \in R
        BY <3>3, <1>4, <1>5
      <4>2. Nb(bs, p).prev # tail
        BY <3>3, <1>2, <1>5
      <4> QED BY <3>3, <4>1, <4>2, <1>4, <1>5
    <3> QED BY <3>1, <3>2, <3>3
  <2> QED BY Zenon, <2>3, <2>4
<1>7. links_consistent(bs2, head)
  BY <1>2, <1>3, <1>6 DEF links_consistent, Nb, ready_queues
<1>8. single_ring(bs2)
  <2> SUFFICES ASSUME NEW S \in SUBSET (R \cup {o}), S # {},
                      \A p \in S : Nb(bs2, p).next \in S
               PROVE  S = R \cup {o}
    BY <1>3 DEF single_ring, Nb
  <2>1. o \in S => head \in S
    OBVIOUS
  <2>2. S \ {o} # {} /\ S \ {o} \subseteq R
    BY <2>1, <1>2
  <2>3. \A p \in S \ {o} : Nb(bs, p).next \in S \ {o}
    <3> TAKE p \in S \ {o}
    <3>1. p \in R /\ Nb(bs, p).next \in R /\ o \notin R
      BY <2>2, <1>5 DEF ready_queues, Nb
    <3>2. CASE p = tail
      BY <3>1, <3>2, <2>1, <1>2, <1>4
    <3>3. CASE p # tail
      BY <3>1, <3>3, <1>4
    <3> QED BY <3>2, <3>3
  <2>4. S \ {o} = R
    BY Zenon, <2>2, <2>3 DEF Ring, single_ring, Nb
  <2>5. o \in S
    BY <2>4, <1>2, <1>4
  <2> QED BY <2>4, <2>5
<1> QED BY <1>7, <1>8 DEF Ring

\* The same for taking o out: with o put back, a set closed under the new `next'
\* is closed under the old one.
LEMMA UnknitFromRing ==
  ASSUME NEW bs, NEW head \in Origins, Ring(bs, head),
         NEW o \in ready_queues(bs), Nb(bs, o).next # o,
         NEW bs2 \in [Origins -> BookState],
         Nb(bs2, o) = None,
         \A p \in Origins \ {o} : Nb(bs2, p) = UnknitLink(bs, o, p)
  PROVE  Ring(bs2, IF head = o THEN Nb(bs, o).next ELSE head)
<1> USE NoneDistinct
<1> DEFINE R == ready_queues(bs)
           n == Nb(bs, o).next
           q == Nb(bs, o).prev
           head2 == IF head = o THEN n ELSE head
<1>1. o \in Origins /\ R \subseteq Origins
  BY DEF ready_queues
<1>2. \A p \in R : /\ Nb(bs, p).next \in R /\ Nb(bs, Nb(bs, p).next).prev = p
                   /\ Nb(bs, p).prev \in R /\ Nb(bs, Nb(bs, p).prev).next = p
  BY Zenon DEF Ring, links_consistent, Nb
<1>3. n \in R \ {o} /\ q \in R \ {o} /\ head \in R
  BY <1>2 DEF Ring, links_consistent
<1>4. ready_queues(bs2) = R \ {o}
  <2>1. \A p \in R : Nb(bs, p) \in Neighbours
    BY Zenon DEF Ring, Nb, ready_queues, BookState
  <2>2. \A p \in Origins \ {o} : (Nb(bs2, p) = None) <=> (Nb(bs, p) = None)
    <3> SUFFICES ASSUME NEW p \in Origins \ {o}, Nb(bs, p) # None
                 PROVE  Nb(bs2, p) # None
      BY Zenon DEF UnknitLink
    <3>1. p \in R
      BY DEF ready_queues, Nb
    <3>2. Nb(bs2, p) \in Neighbours
      BY <3>1, <1>1, <1>3, <2>1 DEF Neighbours, UnknitLink
    <3> QED BY <3>2
  <2> QED BY <1>1, <2>2 DEF ready_queues, Nb
<1>5. \A p \in R \ {o} : /\ Nb(bs2, p).prev = IF p = n THEN q ELSE Nb(bs, p).prev
                         /\ Nb(bs2, p).next = IF p = q THEN n ELSE Nb(bs, p).next
  <2> SUFFICES ASSUME NEW p \in R \ {o}
               PROVE  /\ Nb(bs2, p).prev = IF p = n THEN q ELSE Nb(bs, p).prev
                      /\ Nb(bs2, p).next = IF p = q THEN n ELSE Nb(bs, p).next
    BY Zenon
  <2>1. p \in Origins \ {o} /\ Nb(bs, p) # None
    BY DEF ready_queues, Nb
  <2>2. Nb(bs2, p) = [prev |-> IF p = n THEN q ELSE Nb(bs, p).prev,
                      next |-> IF p = q THEN n ELSE Nb(bs, p).next]
    BY <2>1 DEF UnknitLink
  <2> QED BY <2>2
<1>6. \A p \in R \ {o} :
        /\ Nb(bs2, p).next \in R \ {o} /\ Nb(bs2, Nb(bs2, p).next).prev = p
        /\ Nb(bs2, p).prev \in R \ {o} /\ Nb(bs2, Nb(bs2, p).prev).next = p
  <2>1. Nb(bs, n).prev = o /\ Nb(bs, q).next = o
    BY <1>2
  <2>2. ASSUME NEW p \in R \ {o}
        PROVE  Nb(bs2, p).next \in R \ {o} /\ Nb(bs2, Nb(bs2, p).next).prev = p
    <3>1. CASE p = q
      BY <3>1, <1>3, <1>5
    <3>2. CASE p # q
      <4>1. Nb(bs2, p).next = Nb(bs, p).next /\ Nb(bs, p).next \in R
        BY <3>2, <1>2, <1>5
      <4>2. Nb(bs, p).next # n /\ Nb(bs, p).next # o
        BY <3>2, <2>1, <1>2
      <4> QED BY <4>1, <4>2, <1>2, <1>5
    <3> QED BY <3>1, <3>2
  <2>3. ASSUME NEW p \in R \ {o}
        PROVE  Nb(bs2, p).prev \in R \ {o} /\ Nb(bs2, Nb(bs2, p).prev).next = p
    <3>1. CASE p = n
      BY <3>1, <1>3, <1>5
    <3>2. CASE p # n
      <4>1. Nb(bs2, p).prev = Nb(bs, p).prev /\ Nb(bs, p).prev \in R
        BY <3>2, <1>2, <1>5
      <4>2. Nb(bs, p).prev # q /\ Nb(bs, p).prev # o
        BY <3>2, <2>1, <1>2
      <4> QED BY <4>1, <4>2, <1>2, <1>5
    <3> QED BY <3>1, <3>2
  <2> QED BY Zenon, <2>2, <2>3
<1>7. links_consistent(bs2, head2)
  BY <1>1, <1>3, <1>4, <1>6 DEF links_consistent, Nb
<1>8. single_ring(bs2)
  <2> SUFFICES ASSUME NEW S \in SUBSET (R \ {o}), S # {},
                      \A p \in S : Nb(bs2, p).next \in S
               PROVE  S = R \ {o}
    BY <1>4 DEF single_ring, Nb
  <2>1. CASE q \in S
    <3>1. \A p \in S \cup {o} : Nb(bs, p).next \in S \cup {o}
      BY Zenon, <2>1, <1>2, <1>3, <1>5
    <3>2. S \cup {o} = R
      BY Zenon, <3>1, S \cup {o} \in SUBSET R DEF Ring, single_ring, Nb
    <3> QED BY <3>2
  <2>2. CASE q \notin S
    <3>1. \A p \in S : Nb(bs, p).next \in S
      BY Zenon, <2>2, <1>2, <1>3, <1>5
    <3>2. S = R
      BY <3>1 DEF Ring, single_ring, Nb
    <3> QED BY <3>2, <1>3
  <2> QED BY <2>1, <2>2
<1> QED BY <1>7, <1>8 DEF Ring

-----------------------------------------------------------------------------
(* The ring operations as the code performs them                             *)

\* ready_ring_knit followed by writing the book of o.
Knitted(bs, head, o, book) ==
  LET ring == ready_ring_knit(bs, head, o)
  IN  [ring.books EXCEPT ![o] = with_links(book, ring.neighbours)]

LEMMA KnitKeepsRing ==
  ASSUME NEW bs, NEW head \in Origins \cup {None}, Ring(bs, head),
         NEW o \in Origins, NEW book \in BookState, Nb(bs, o) = None
  PROVE  /\ Ring(Knitted(bs, head, o, book), ready_ring_knit(bs, head, o).head)
         /\ ready_ring_knit(bs, head, o).head \in Origins
         /\ Knitted(bs, head, o, book)[o].begin = book.begin
         /\ Knitted(bs, head, o, book)[o].end = book.end
         /\ Nb(Knitted(bs, head, o, book), o) # None
         /\ \A p \in Origins \ {o} :
              /\ Knitted(bs, head, o, book)[p].begin = bs[p].begin
              /\ Knitted(bs, head, o, book)[p].end = bs[p].end
              /\ (Nb(Knitted(bs, head, o, book), p) = None) <=> (Nb(bs, p) = None)
<1>1. PICK ring : ring = ready_ring_knit(bs, head, o)
  OBVIOUS
<1>2. PICK book2 : book2 = with_links(book, ring.neighbours)
  OBVIOUS
<1>3. PICK bs2 : bs2 = [ring.books EXCEPT ![o] = book2]
  BY Zenon
<1>4. bs2 = Knitted(bs, head, o, book)
  BY <1>1, <1>2, <1>3 DEF Knitted
<1>5. /\ Ring(bs2, ring.head) /\ ring.head \in Origins
      /\ bs2[o] = book2 /\ ring.neighbours \in Neighbours
      /\ \A p \in Origins \ {o} :
           /\ bs2[p].begin = bs[p].begin /\ bs2[p].end = bs[p].end
           /\ (Nb(bs2, p) = None) <=> (Nb(bs, p) = None)
  <2> USE NoneDistinct, <1>1, <1>2, <1>3
  <2>0. bs \in [Origins -> BookState] /\ o \notin ready_queues(bs)
    BY DEF Ring, ready_queues, Nb
  <2>1. CASE head = None
    <3>1. ring = [books |-> bs, head |-> o, neighbours |-> [prev |-> o, next |-> o]]
      BY <2>1 DEF ready_ring_knit
    <3>2. book2 \in BookState /\ book2.ready_neighbours = [prev |-> o, next |-> o]
      BY <3>1, WithLinks DEF Neighbours
    <3>3. /\ bs2 \in [Origins -> BookState]
          /\ \A p \in Origins \ {o} : bs2[p] = bs[p]
          /\ bs2[o] = book2
      BY <2>0, <3>1, <3>2
    <3>4. ready_queues(bs) = {}
      BY <2>1 DEF Ring, links_consistent
    <3>5. ready_queues(bs2) = {o}
      BY <3>2, <3>3, <3>4 DEF ready_queues, Neighbours
    <3>6. links_consistent(bs2, o)
      <4>1. bs2[o].ready_neighbours.next = o /\ bs2[o].ready_neighbours.prev = o
        BY <3>2, <3>3
      <4> QED BY Zenon, <3>5, <4>1 DEF links_consistent
    <3>7. single_ring(bs2)
      BY <3>2, <3>3, <3>5 DEF single_ring
    <3> QED BY <3>1, <3>3, <3>6, <3>7 DEF Ring, Nb, Neighbours
  <2>2. CASE head # None
    <3>1. PICK tail : tail = Nb(bs, head).prev
      OBVIOUS
    <3>2. /\ head \in ready_queues(bs) /\ tail \in ready_queues(bs)
          /\ head \in Origins /\ tail \in Origins
          /\ Nb(bs, head) # None /\ Nb(bs, tail) # None /\ head # o /\ tail # o
      BY <2>0, <2>2, <3>1 DEF Ring, links_consistent, ready_queues, Nb
    <3>3. PICK linked : linked = set_prev(bs, head, o)
      OBVIOUS
    <3>4. /\ SameButLinks(bs, linked)
          /\ Nb(linked, head) = [prev |-> o, next |-> Nb(bs, head).next]
          /\ \A p \in Origins : p # head => linked[p] = bs[p]
      BY <2>0, <3>2, <3>3, SetPrev
    <3>5. Nb(linked, head) \in Neighbours
      BY <2>0, <3>2, <3>4 DEF Nb, BookState, Neighbours, ready_queues
    <3>6. Nb(linked, tail) # None
      BY <3>2, <3>4, <3>5 DEF Nb
    <3>7. PICK linked2 : linked2 = set_next(linked, tail, o)
      OBVIOUS
    <3>8. /\ SameButLinks(linked, linked2)
          /\ Nb(linked2, tail) = [prev |-> Nb(linked, tail).prev, next |-> o]
          /\ \A p \in Origins : p # tail => linked2[p] = linked[p]
      <4>1. linked \in [Origins -> BookState]
        BY <3>4 DEF SameButLinks
      <4> QED BY <3>2, <3>6, <3>7, <4>1, SetNext
    <3>9. ring = [books |-> linked2, head |-> head, neighbours |-> [prev |-> tail, next |-> head]]
      BY <2>2, <3>1, <3>2, <3>3, <3>6, <3>7 DEF ready_ring_knit, Nb
    <3>10. book2 \in BookState /\ book2.ready_neighbours = [prev |-> tail, next |-> head]
      BY <3>2, <3>9, WithLinks DEF Neighbours
    <3>11. /\ bs2 \in [Origins -> BookState]
           /\ \A p \in Origins \ {o} : bs2[p] = linked2[p]
           /\ bs2[o] = book2
      BY <3>8, <3>9, <3>10 DEF SameButLinks
    <3>12. \A p \in Origins \ {o} : Nb(bs2, p) = KnitLink(bs, head, tail, o, p)
      <4> TAKE p \in Origins \ {o}
      <4>1. Nb(bs, p) # None => Nb(bs, p) = [prev |-> Nb(bs, p).prev, next |-> Nb(bs, p).next]
        BY <2>0 DEF Nb, BookState, Neighbours
      <4>2. Nb(bs2, p) = Nb(linked2, p)
        BY <3>11 DEF Nb
      <4>3. p # tail => Nb(linked2, p) = Nb(linked, p)
        BY <3>8 DEF Nb
      <4>4. p # head => Nb(linked, p) = Nb(bs, p)
        BY <3>4 DEF Nb
      <4>5. CASE p = tail /\ p = head
        BY <4>5, <3>2, <3>4, <3>8, <4>2 DEF KnitLink
      <4>6. CASE p = tail /\ p # head
        BY <4>6, <3>2, <3>8, <4>1, <4>2, <4>4 DEF KnitLink
      <4>7. CASE p # tail /\ p = head
        BY <4>7, <3>2, <3>4, <4>1, <4>2, <4>3 DEF KnitLink
      <4>8. CASE p # tail /\ p # head
        BY <4>8, <4>1, <4>2, <4>3, <4>4 DEF KnitLink
      <4> QED BY <4>5, <4>6, <4>7, <4>8
    <3>13. Nb(bs2, o) = [prev |-> tail, next |-> head]
      BY <3>10, <3>11 DEF Nb
    <3>14. Ring(bs2, head)
      <4>1. head \in Origins /\ bs2 \in [Origins -> BookState]
        BY <3>2, <3>11
      <4>2. o \notin ready_queues(bs) /\ Ring(bs, head) /\ tail \in Origins
        BY <2>0, <3>2
      <4> HIDE NoneDistinct
      <4> QED BY ONLY <3>1, <3>12, <3>13, <4>1, <4>2, o \in Origins, KnitIntoRing
    <3>15. \A p \in Origins \ {o} : (Nb(bs2, p) = None) <=> (Nb(bs, p) = None)
      <4> SUFFICES ASSUME NEW p \in Origins \ {o}, Nb(bs, p) # None
                   PROVE  Nb(bs2, p) # None
        BY Zenon, <3>12 DEF KnitLink
      <4>1. Nb(bs, p) \in Neighbours
        BY <2>0 DEF Nb, BookState
      <4>2. KnitLink(bs, head, tail, o, p) \in Neighbours
        BY <3>2, <4>1 DEF Neighbours, KnitLink
      <4> QED BY <4>2, <3>12
    <3>16. \A p \in Origins \ {o} : bs2[p].begin = bs[p].begin /\ bs2[p].end = bs[p].end
      BY Zenon, <3>4, <3>8, <3>11 DEF SameButLinks
    <3>17. ring.neighbours \in Neighbours /\ ring.head = head
      BY <3>2, <3>9 DEF Neighbours
    <3> QED BY <3>2, <3>11, <3>14, <3>15, <3>16, <3>17
  <2> QED BY <2>1, <2>2
<1>6. /\ book2.begin = book.begin /\ book2.end = book.end
      /\ book2.ready_neighbours = ring.neighbours
  BY <1>2, <1>5, WithLinks
<1> QED BY <1>1, <1>4, <1>5, <1>6, NoneDistinct DEF Nb

\* ready_ring_unknit followed by writing the book of o without links.
Unknitted(bs, head, o, book) ==
  [ready_ring_unknit(bs, head, o, Nb(bs, o)).books EXCEPT ![o] = with_links(book, None)]

LEMMA UnknitKeepsRing ==
  ASSUME NEW bs, NEW head \in Origins \cup {None}, Ring(bs, head),
         NEW o \in Origins, NEW book \in BookState, Nb(bs, o) # None
  PROVE  /\ Ring(Unknitted(bs, head, o, book), ready_ring_unknit(bs, head, o, Nb(bs, o)).head)
         /\ ready_ring_unknit(bs, head, o, Nb(bs, o)).head \in Origins \cup {None}
         /\ Unknitted(bs, head, o, book)[o].begin = book.begin
         /\ Unknitted(bs, head, o, book)[o].end = book.end
         /\ Nb(Unknitted(bs, head, o, book), o) = None
         /\ \A p \in Origins \ {o} :
              /\ Unknitted(bs, head, o, book)[p].begin = bs[p].begin
              /\ Unknitted(bs, head, o, book)[p].end = bs[p].end
              /\ (Nb(Unknitted(bs, head, o, book), p) = None) <=> (Nb(bs, p) = None)
<1>1. PICK ring : ring = ready_ring_unknit(bs, head, o, Nb(bs, o))
  OBVIOUS
<1>2. PICK bs2 : bs2 = [ring.books EXCEPT ![o] = with_links(book, None)]
  BY Zenon
<1>3. bs2 = Unknitted(bs, head, o, book)
  BY <1>1, <1>2 DEF Unknitted
<1>4. /\ Ring(bs2, ring.head) /\ ring.head \in Origins \cup {None}
      /\ bs2[o] = with_links(book, None)
      /\ \A p \in Origins \ {o} :
           /\ bs2[p].begin = bs[p].begin /\ bs2[p].end = bs[p].end
           /\ (Nb(bs2, p) = None) <=> (Nb(bs, p) = None)
  <2> USE NoneDistinct, <1>1, <1>2
  <2>0. bs \in [Origins -> BookState] /\ o \in ready_queues(bs)
    BY DEF Ring, ready_queues, Nb
  <2>1. with_links(book, None) \in BookState /\ with_links(book, None).ready_neighbours = None
    BY WithLinks
  <2>2. CASE Nb(bs, o).next = o
    <3>1. ring = [books |-> bs, head |-> None]
      BY <2>2 DEF ready_ring_unknit
    <3>2. ready_queues(bs) = {o}
      <4>1. {o} \in SUBSET ready_queues(bs) /\ \A p \in {o} : bs[p].ready_neighbours.next \in {o}
        BY <2>0, <2>2 DEF Nb
      <4> QED BY Zenon, <4>1 DEF Ring, single_ring
    <3>3. /\ bs2 \in [Origins -> BookState]
          /\ \A p \in Origins \ {o} : bs2[p] = bs[p]
          /\ bs2[o] = with_links(book, None)
      BY <2>0, <2>1, <3>1
    <3>4. ready_queues(bs2) = {}
      BY <2>1, <3>2, <3>3 DEF ready_queues
    <3>5. links_consistent(bs2, None) /\ single_ring(bs2)
      BY Zenon, <3>4 DEF links_consistent, single_ring
    <3> QED BY <3>1, <3>3, <3>5 DEF Ring, Nb
  <2>3. CASE Nb(bs, o).next # o
    <3>1. PICK n, q : n = Nb(bs, o).next /\ q = Nb(bs, o).prev
      OBVIOUS
    <3>2. /\ n \in Origins /\ q \in Origins /\ n # o /\ q # o
          /\ Nb(bs, n) # None /\ Nb(bs, q) # None /\ head \in Origins
      BY <2>0, <2>3, <3>1 DEF Ring, links_consistent, ready_queues, Nb
    <3>3. PICK linked : linked = set_prev(bs, n, q)
      OBVIOUS
    <3>4. /\ SameButLinks(bs, linked)
          /\ Nb(linked, n) = [prev |-> q, next |-> Nb(bs, n).next]
          /\ \A p \in Origins : p # n => linked[p] = bs[p]
      BY <2>0, <3>2, <3>3, SetPrev
    <3>5. Nb(linked, q) # None
      <4>1. Nb(linked, n) \in Neighbours
        BY <2>0, <3>2, <3>4 DEF Nb, BookState, Neighbours, ready_queues
      <4> QED BY <3>2, <3>4, <4>1 DEF Nb
    <3>6. PICK linked2 : linked2 = set_next(linked, q, n)
      OBVIOUS
    <3>7. /\ SameButLinks(linked, linked2)
          /\ Nb(linked2, q) = [prev |-> Nb(linked, q).prev, next |-> n]
          /\ \A p \in Origins : p # q => linked2[p] = linked[p]
      <4>1. linked \in [Origins -> BookState]
        BY SMTT(30), <3>4 DEF SameButLinks
      <4> QED BY <3>2, <3>5, <3>6, <4>1, SetNext
    <3>8. ring = [books |-> linked2, head |-> IF head = o THEN n ELSE head]
      BY Zenon, <2>3, <3>1, <3>2, <3>3, <3>5, <3>6
         DEF ready_ring_unknit, relink_prev, relink_next, Nb
    <3>9. /\ bs2 \in [Origins -> BookState]
          /\ \A p \in Origins \ {o} : bs2[p] = linked2[p]
          /\ bs2[o] = with_links(book, None)
      BY <2>1, <3>7, <3>8 DEF SameButLinks
    <3>10. \A p \in Origins \ {o} : Nb(bs2, p) = UnknitLink(bs, o, p)
      <4> TAKE p \in Origins \ {o}
      <4>1. Nb(bs, p) # None => Nb(bs, p) = [prev |-> Nb(bs, p).prev, next |-> Nb(bs, p).next]
        BY <2>0 DEF Nb, BookState, Neighbours
      <4>2. Nb(bs2, p) = Nb(linked2, p)
        BY <3>9 DEF Nb
      <4>3. p # q => Nb(linked2, p) = Nb(linked, p)
        BY <3>7 DEF Nb
      <4>4. p # n => Nb(linked, p) = Nb(bs, p)
        BY <3>4 DEF Nb
      <4>5. CASE p = q /\ p = n
        <5>1. Nb(linked, q).prev = q
          <6>1. Nb(linked, n).prev = q
            BY ONLY <3>4
          <6>2. n = q
            BY <4>5
          <6> QED BY <6>1, <6>2
        <5>2. Nb(bs2, p) = [prev |-> q, next |-> n]
          BY <4>5, <3>7, <4>2, <5>1
        <5>3. UnknitLink(bs, o, p) = [prev |-> q, next |-> n]
          BY Zenon, <4>5, <3>1, <3>2 DEF UnknitLink
        <5> QED BY <5>2, <5>3
      <4>6. CASE p = q /\ p # n
        BY <4>6, <3>1, <3>2, <3>7, <4>1, <4>2, <4>4 DEF UnknitLink
      <4>7. CASE p # q /\ p = n
        BY <4>7, <3>1, <3>2, <3>4, <4>1, <4>2, <4>3 DEF UnknitLink
      <4>8. CASE p # q /\ p # n
        BY <4>8, <3>1, <4>1, <4>2, <4>3, <4>4 DEF UnknitLink
      <4> QED BY <4>5, <4>6, <4>7, <4>8
    <3>11. Nb(bs2, o) = None
      BY <2>1, <3>9 DEF Nb
    <3>12. Ring(bs2, IF head = o THEN n ELSE head)
      <4>1. Nb(bs, o).next # o /\ bs2 \in [Origins -> BookState] /\ head \in Origins
        BY <2>3, <3>2, <3>9
      <4> QED BY ONLY <2>0, <3>1, <3>10, <3>11, <4>1, Ring(bs, head), UnknitFromRing
    <3>13. \A p \in Origins \ {o} : (Nb(bs2, p) = None) <=> (Nb(bs, p) = None)
      <4> SUFFICES ASSUME NEW p \in Origins \ {o}, Nb(bs, p) # None
                   PROVE  Nb(bs2, p) # None
        BY Zenon, <3>10 DEF UnknitLink
      <4>1. Nb(bs, p) \in Neighbours
        BY <2>0 DEF Nb, BookState
      <4>2. UnknitLink(bs, o, p) \in Neighbours
        BY <3>1, <3>2, <4>1 DEF Neighbours, UnknitLink
      <4> QED BY <4>2, <3>10
    <3>14. \A p \in Origins \ {o} : bs2[p].begin = bs[p].begin /\ bs2[p].end = bs[p].end
      BY Zenon, <3>4, <3>7, <3>9 DEF SameButLinks
    <3>15. ring.head = (IF head = o THEN n ELSE head)
      BY <3>8
    <3>16. ring.head \in Origins /\ Ring(bs2, ring.head)
      <4>1. CASE head = o
        BY <4>1, <3>2, <3>12, <3>15
      <4>2. CASE head # o
        BY <4>2, <3>2, <3>12, <3>15
      <4> QED BY <4>1, <4>2
    <3> QED BY <3>9, <3>13, <3>14, <3>16
  <2> QED BY <2>2, <2>3
<1>5. /\ with_links(book, None).begin = book.begin /\ with_links(book, None).end = book.end
      /\ with_links(book, None).ready_neighbours = None
  BY WithLinks
<1> QED BY <1>1, <1>3, <1>4, <1>5 DEF Nb

=============================================================================
