------------------------- MODULE QueueStorage_proofs -------------------------
(***************************************************************************)
(* What enqueueing does to the pages, the books and the ready ring: the    *)
(* storage stays in order, whatever its state was.                         *)
(***************************************************************************)
EXTENDS QueueStorage, ReadyRing_proofs

(* Pages                                                                     *)

LEMMA KindType == \A m \in Item : /\ m.kind \in Kinds /\ m.kind.len \in Nat
                                  /\ m.kind.weight \in Nat /\ m.id \in Nat
  BY StorageAssumption DEF Item

LEMMA SaturatingSubType == \A a, b \in Nat : SaturatingSub(a, b) \in Nat
  BY DEF SaturatingSub

LEMMA FromMessage ==
  ASSUME NEW m \in Item
  PROVE  from_message(m) \in Page
  BY KindType, StorageAssumption DEF from_message, Page, ItemLen

LEMMA AppendMessage ==
  ASSUME NEW page \in Page, NEW m \in Item
  PROVE  /\ append_message(page, m) \in Page
         /\ append_message(page, m).first_index = page.first_index
         /\ Len(append_message(page, m).items) = Len(page.items) + 1
<1>1. PICK items, pos, n, size :
        /\ items = Append(page.items, m) /\ pos = page.heap_pos + ItemLen(m)
        /\ n = page.remaining + 1 /\ size = page.remaining_size + m.kind.len
  BY Zenon
<1>2. page.items \in Seq(Item)
  BY DEF Page
<1>3. items \in Seq(Item) /\ Len(items) = Len(page.items) + 1
  BY <1>1, <1>2
<1>4. pos \in Nat /\ n \in Nat /\ size \in Nat
  <2>1. ItemLen(m) \in Nat /\ m.kind.len \in Nat
    BY KindType, StorageAssumption DEF ItemLen
  <2>2. page.heap_pos \in Nat /\ page.remaining \in Nat /\ page.remaining_size \in Nat
    BY DEF Page
  <2>3. pos \in Nat
    BY <1>1, <2>1, <2>2
  <2>4. n \in Nat
    BY <1>1, <2>1, <2>2
  <2>5. size \in Nat
    BY <1>1, <2>1, <2>2
  <2> QED BY <2>3, <2>4, <2>5
<1>5. append_message(page, m) = [page EXCEPT !.items = items, !.heap_pos = pos,
                                            !.remaining = n, !.remaining_size = size]
  BY <1>1 DEF append_message
<1> QED BY Zenon, <1>3, <1>4, <1>5 DEF Page

LEMMA NoteProcessed ==
  ASSUME NEW page \in Page, NEW j \in Nat, j < Len(page.items)
  PROVE  /\ note_processed(page, j) \in Page
         /\ note_processed(page, j).first_index = page.first_index
         /\ Len(note_processed(page, j).items) = Len(page.items)
<1> DEFINE m == page.items[j + 1]
<1>1. page.items \in Seq(Item) /\ j + 1 \in 1 .. Len(page.items) /\ m \in Item
  BY DEF Page
<1>2. CASE m.is_processed
  BY <1>2 DEF note_processed
<1>3. CASE ~m.is_processed
  <2>1. PICK m2 : m2 = [m EXCEPT !.is_processed = TRUE]
    BY Zenon
  <2>2. m2 \in Item
    BY Zenon, <1>1, <2>1 DEF Item
  <2>3. PICK items, n, size :
          /\ items = [page.items EXCEPT ![j + 1] = m2]
          /\ n = SaturatingSub(page.remaining, 1)
          /\ size = SaturatingSub(page.remaining_size, m.kind.len)
    BY Zenon
  <2>4. items \in Seq(Item) /\ Len(items) = Len(page.items)
    BY <1>1, <2>2, <2>3
  <2>5. n \in Nat /\ size \in Nat
    BY Zenon, <1>1, <2>3, KindType, SaturatingSubType DEF Page
  <2>6. note_processed(page, j) =
          [page EXCEPT !.items = items, !.remaining = n, !.remaining_size = size]
    BY <1>3, <2>1, <2>3 DEF note_processed
  <2> QED BY Zenon, <2>4, <2>5, <2>6 DEF Page
<1> QED BY <1>2, <1>3

LEMMA SkipFirst ==
  ASSUME NEW page \in Page, has_first(page), NEW b \in BOOLEAN
  PROVE  skip_first(page, b) \in Page
<1>1. page.first_index \in Nat /\ page.first_index < Len(page.items)
  BY DEF Page, has_first
<1>2. PICK marked : marked = IF b THEN note_processed(page, page.first_index) ELSE page
  OBVIOUS
<1>3. marked \in Page
  BY <1>1, <1>2, NoteProcessed
<1>4. skip_first(page, b) = [marked EXCEPT !.first_index = @ + 1]
  BY <1>2 DEF skip_first
<1>5. PICK i : i = marked.first_index + 1
  OBVIOUS
<1>6. i \in Nat
  BY <1>3, <1>5 DEF Page
<1> QED BY SMTT(30), <1>3, <1>4, <1>5, <1>6 DEF Page

-----------------------------------------------------------------------------
(* Enqueueing                                                                *)

Pages == [PageIndex -> Page \cup {None}]

Acc == [book: BookState, pages: Pages, page: Page \cup {None}]

\* A page that is kept, or kept with more messages.
Grown(page, page2) ==
  page # None => /\ page2 # None
                 /\ page2.first_index = page.first_index
                 /\ Len(page2.items) >= Len(page.items)

LEMMA NoneNotStored == None \notin BookState /\ None \notin Page
  BY RingAssumption, StorageAssumption

LEMMA GrownTransitive ==
  ASSUME NEW p1 \in Page \cup {None}, NEW p2 \in Page \cup {None},
         NEW p3 \in Page \cup {None}, Grown(p1, p2), Grown(p2, p3)
  PROVE  Grown(p1, p3)
<1>1. \A p \in Page : Len(p.items) \in Nat
  BY DEF Page
<1> QED BY <1>1 DEF Grown

LEMMA GrownReflexive ==
  ASSUME NEW p \in Page \cup {None}
  PROVE  Grown(p, p)
<1>1. \A q \in Page : Len(q.items) \in Nat
  BY DEF Page
<1> QED BY <1>1 DEF Grown

LEMMA PageSaved ==
  ASSUME NEW acc \in Acc
  PROVE  page_saved(acc) \in Pages
  BY Zenon DEF page_saved, Acc, Pages

\* One message is added to the last page or to a new one behind it.
LEMMA AddMessage ==
  ASSUME NEW acc \in Acc, NEW m \in Item
  PROVE  /\ add_message(acc, m) \in Acc
         /\ add_message(acc, m).book.begin = acc.book.begin
         /\ add_message(acc, m).book.ready_neighbours = acc.book.ready_neighbours
         /\ add_message(acc, m).book.end \in {acc.book.end, acc.book.end + 1}
         /\ acc.page = None => add_message(acc, m).book.end = acc.book.end + 1
         /\ \A i \in PageIndex : i < acc.book.end =>
              Grown(page_saved(acc)[i], page_saved(add_message(acc, m))[i])
<1> USE NoneNotStored
<1>0. /\ acc.book \in BookState /\ acc.pages \in Pages /\ acc.page \in Page \cup {None}
      /\ m.kind.len \in Nat
  BY KindType DEF Acc
<1>1. PICK counted : counted = [acc.book EXCEPT !.message_count = @ + 1,
                                              !.size = @ + m.kind.len]
  OBVIOUS
<1>2. /\ counted \in BookState /\ counted.begin = acc.book.begin
      /\ counted.end = acc.book.end
      /\ counted.ready_neighbours = acc.book.ready_neighbours
  <2>1. PICK n, size : n = acc.book.message_count + 1 /\ size = acc.book.size + m.kind.len
    OBVIOUS
  <2>2. acc.book.message_count \in Nat /\ acc.book.size \in Nat
    BY <1>0 DEF BookState
  <2>3. n \in Nat /\ size \in Nat
    BY <1>0, <2>1, <2>2
  <2>4. counted = [acc.book EXCEPT !.message_count = n, !.size = size]
    BY <1>1, <2>1
  <2> QED BY Zenon, <1>0, <2>3, <2>4 DEF BookState
<1>3. CASE acc.page # None /\ can_append(acc.page, m)
  <2>1. PICK page2 : page2 = append_message(acc.page, m)
    OBVIOUS
  <2>2. acc.page \in Page /\ page2 \in Page /\ Grown(acc.page, page2)
    <3>1. acc.page \in Page
      BY <1>0, <1>3
    <3>2. Len(acc.page.items) \in Nat
      BY <3>1 DEF Page
    <3> QED BY <2>1, <3>1, <3>2, AppendMessage DEF Grown
  <2>3. PICK acc2 : acc2 = [book |-> counted, pages |-> acc.pages, page |-> page2]
    BY Zenon
  <2>4. acc2 \in Acc /\ add_message(acc, m) = acc2
    BY <1>0, <1>1, <1>2, <1>3, <2>1, <2>2, <2>3 DEF add_message, Acc
  <2>5. /\ page_saved(acc) = [acc.pages EXCEPT ![acc.book.end - 1] = acc.page]
        /\ page_saved(acc2) = [acc.pages EXCEPT ![acc.book.end - 1] = page2]
    BY <1>2, <1>3, <2>2, <2>3 DEF page_saved
  <2>6. \A i \in PageIndex : Grown(page_saved(acc)[i], page_saved(acc2)[i])
    BY <1>0, <2>2, <2>5, GrownReflexive DEF Pages
  <2> QED BY <1>2, <1>3, <2>3, <2>4, <2>6
<1>4. CASE ~(acc.page # None /\ can_append(acc.page, m))
  <2>1. PICK book2 : book2 = [counted EXCEPT !.end = @ + 1, !.count = @ + 1]
    OBVIOUS
  <2>2. /\ book2 \in BookState /\ book2.begin = acc.book.begin
        /\ book2.end = acc.book.end + 1
        /\ book2.ready_neighbours = acc.book.ready_neighbours
    <3>1. PICK e, n : e = counted.end + 1 /\ n = counted.count + 1
      OBVIOUS
    <3>2. counted.end \in Nat /\ counted.count \in Nat
      BY <1>2 DEF BookState
    <3>3. e \in Nat /\ n \in Nat
      BY <3>1, <3>2
    <3>4. book2 = [counted EXCEPT !.end = e, !.count = n]
      BY <2>1, <3>1
    <3>5. /\ book2 \in BookState /\ book2.begin = counted.begin /\ book2.end = e
          /\ book2.ready_neighbours = counted.ready_neighbours
      BY Zenon, <1>2, <3>3, <3>4 DEF BookState
    <3> QED BY <1>2, <3>1, <3>5
  <2>3. PICK acc2 : acc2 = [book |-> book2, pages |-> page_saved(acc),
                            page |-> from_message(m)]
    BY Zenon
  <2>4. acc2 \in Acc /\ add_message(acc, m) = acc2 /\ acc2.page # None
    <3>1. page_saved(acc) \in Pages /\ from_message(m) \in Page
      BY PageSaved, FromMessage
    <3>2. acc2 \in Acc /\ acc2.page # None
      BY <2>2, <2>3, <3>1 DEF Acc
    <3> QED BY <1>1, <1>4, <2>1, <2>3, <3>2 DEF add_message
  <2>5. page_saved(acc2) = [page_saved(acc) EXCEPT ![acc.book.end] = from_message(m)]
    <3>1. book2.end - 1 = acc.book.end
      BY <1>0, <2>2 DEF BookState
    <3> QED BY <2>3, <2>4, <3>1 DEF page_saved
  <2>6. \A i \in PageIndex : i < acc.book.end => page_saved(acc2)[i] = page_saved(acc)[i]
    <3>1. acc.book.end \in Nat /\ page_saved(acc) \in Pages
      BY <1>0, PageSaved DEF BookState
    <3> QED BY <2>5, <3>1 DEF Pages, PageIndex
  <2>7. \A i \in PageIndex : page_saved(acc)[i] \in Page \cup {None}
    BY PageSaved DEF Pages
  <2> QED BY <2>2, <2>3, <2>4, <2>6, <2>7, GrownReflexive
<1> QED BY <1>3, <1>4

IsBatch(b) ==
  \/ b = <<>>
  \/ \E m \in Item : b = <<m>>
  \/ \E m1, m2 \in Item : b = <<m1, m2>>

\* What adding messages may do to the accumulated book and pages.
Extends(acc, acc2, n) ==
  /\ acc2 \in Acc
  /\ acc2.book.begin = acc.book.begin
  /\ acc2.book.ready_neighbours = acc.book.ready_neighbours
  /\ acc2.book.end >= acc.book.end /\ acc2.book.end <= acc.book.end + n
  /\ \A i \in PageIndex : i < acc.book.end => Grown(page_saved(acc)[i], page_saved(acc2)[i])

LEMMA AddOne ==
  ASSUME NEW acc \in Acc, NEW m \in Item
  PROVE  Extends(acc, add_message(acc, m), 1)
<1>1. acc.book.end \in Nat
  BY DEF Acc, BookState
<1> QED BY <1>1, AddMessage DEF Extends

LEMMA AddMessages ==
  ASSUME NEW acc \in Acc, NEW b, IsBatch(b)
  PROVE  Extends(acc, add_messages(acc, b), Len(b)) /\ Len(b) \in Nat
<1>1. acc.book.end \in Nat
  BY DEF Acc, BookState
<1>2. CASE b = <<>>
  <2>1. add_messages(acc, b) = acc /\ Len(b) = 0
    BY <1>2 DEF add_messages
  <2>2. \A i \in PageIndex : Grown(page_saved(acc)[i], page_saved(acc)[i])
    BY PageSaved, GrownReflexive DEF Pages
  <2> QED BY <1>1, <2>1, <2>2 DEF Extends
<1>3. ASSUME NEW m \in Item, b = <<m>>
      PROVE  Extends(acc, add_messages(acc, b), Len(b)) /\ Len(b) \in Nat
  <2>1. add_messages(acc, b) = add_message(acc, m) /\ Len(b) = 1
    BY <1>3 DEF add_messages
  <2> QED BY <2>1, AddOne
<1>4. ASSUME NEW m1 \in Item, NEW m2 \in Item, b = <<m1, m2>>
      PROVE  Extends(acc, add_messages(acc, b), Len(b)) /\ Len(b) \in Nat
  <2>1. PICK acc1 : acc1 = add_message(acc, m1)
    OBVIOUS
  <2>2. PICK acc2 : acc2 = add_message(acc1, m2)
    OBVIOUS
  <2>3. add_messages(acc, b) = acc2 /\ Len(b) = 2
    BY <1>4, <2>1, <2>2 DEF add_messages
  <2>4. Extends(acc, acc1, 1)
    BY <2>1, AddOne
  <2>5. acc1 \in Acc
    BY <2>4 DEF Extends
  <2>6. Extends(acc1, acc2, 1)
    BY <2>2, <2>5, AddOne
  <2>7. acc2 \in Acc /\ acc1.book.end \in Nat /\ acc2.book.end \in Nat
    BY <2>5, <2>6 DEF Extends, Acc, BookState
  <2>8. ASSUME NEW i \in PageIndex, i < acc.book.end
        PROVE  Grown(page_saved(acc)[i], page_saved(acc2)[i])
    <3>1. i < acc1.book.end
      BY <1>1, <2>4, <2>7, <2>8 DEF Extends, PageIndex
    <3>2. /\ page_saved(acc)[i] \in Page \cup {None}
          /\ page_saved(acc1)[i] \in Page \cup {None}
          /\ page_saved(acc2)[i] \in Page \cup {None}
      BY <2>5, <2>7, PageSaved DEF Pages
    <3> QED BY <2>4, <2>6, <2>8, <3>1, <3>2, GrownTransitive DEF Extends
  <2> QED BY <1>1, <2>3, <2>4, <2>6, <2>7, <2>8 DEF Extends
<1> QED BY <1>2, <1>3, <1>4 DEF IsBatch

\* The invariant of the storage: the ring, the type of the pages, the window of
\* every book, and a bound on its pages (each was opened for some message).
StorageOK(bs, pg, head, n) ==
  /\ Ring(bs, head) /\ head \in Origins \cup {None}
  /\ pg \in [Origins -> Pages]
  /\ \A o \in Origins : /\ bs[o].begin <= bs[o].end /\ bs[o].end < n
                        /\ bs[o].begin < bs[o].end => Nb(bs, o) # None

\* What do_enqueue_messages leaves alone.
Keeps(bs, pg, bs2, pg2) ==
  \A p \in Origins :
    /\ bs2[p].begin = bs[p].begin /\ bs2[p].end >= bs[p].end
    /\ Nb(bs, p) # None => Nb(bs2, p) # None
    /\ \A i \in PageIndex : i < bs[p].end => Grown(pg[p][i], pg2[p][i])

\* do_enqueue_messages keeps the storage in order, loses no page, and leaves the
\* queue in the ring.
LEMMA Enqueue ==
  ASSUME NEW bs, NEW pg, NEW head, NEW n \in 1 .. MaxMessages + 1,
         StorageOK(bs, pg, head, n),
         NEW o \in Origins, NEW b, IsBatch(b),
         NEW s, s = [books |-> bs, pages |-> pg, head |-> head],
         NEW s2, s2 = do_enqueue_messages(s, o, b)
  PROVE  StorageOK(s2.books, s2.pages, s2.head, n + Len(b)) /\ Keeps(bs, pg, s2.books, s2.pages)
<1> USE NoneDistinct, NoneNotStored
<1>0. /\ bs \in [Origins -> BookState] /\ pg \in [Origins -> Pages] /\ Ring(bs, head)
      /\ head \in Origins \cup {None} /\ bs[o] \in BookState /\ pg[o] \in Pages
      /\ MaxMessages \in Nat
  BY StorageAssumption DEF StorageOK, Ring
<1>1. PICK last : last = IF bs[o].end > bs[o].begin THEN pg[o][bs[o].end - 1] ELSE None
  OBVIOUS
<1>2. PICK start : start = [book |-> bs[o], pages |-> pg[o], page |-> last]
  BY Zenon
<1>3. PICK done : done = add_messages(start, b)
  OBVIOUS
<1>4. /\ bs[o].begin \in Nat /\ bs[o].end \in Nat
      /\ bs[o].end > bs[o].begin => bs[o].end - 1 \in PageIndex
  <2>1. bs[o].begin \in Nat /\ bs[o].end \in Nat
    BY <1>0 DEF BookState
  <2>2. bs[o].end < n
    BY DEF StorageOK
  <2> QED BY <1>0, <2>1, <2>2 DEF PageIndex
<1>5. start \in Acc
  <2>1. last \in Page \cup {None}
    BY <1>0, <1>1, <1>4 DEF Pages
  <2> QED BY <1>0, <1>2, <2>1 DEF Acc
<1>6. page_saved(start) = pg[o]
  <2>1. CASE last = None
    BY <1>2, <2>1 DEF page_saved
  <2>2. CASE last # None
    <3>1. last = pg[o][bs[o].end - 1]
      BY <1>1, <2>2
    <3>2. page_saved(start) = [pg[o] EXCEPT ![bs[o].end - 1] = last]
      BY <1>2, <2>2 DEF page_saved
    <3> QED BY <1>0, <3>1, <3>2 DEF Pages
  <2> QED BY <2>1, <2>2
<1>7. Extends(start, done, Len(b)) /\ Len(b) \in Nat
  BY <1>3, <1>5, AddMessages
<1>8. /\ done \in Acc /\ done.book \in BookState /\ done.book.begin = bs[o].begin
      /\ done.book.ready_neighbours = Nb(bs, o)
      /\ done.book.end \in Nat
      /\ done.book.end >= bs[o].end /\ done.book.end <= bs[o].end + Len(b)
      /\ \A i \in PageIndex : i < bs[o].end => Grown(pg[o][i], page_saved(done)[i])
  <2>1. /\ done \in Acc /\ done.book.begin = bs[o].begin
        /\ done.book.ready_neighbours = Nb(bs, o)
        /\ done.book.end >= bs[o].end /\ done.book.end <= bs[o].end + Len(b)
        /\ \A i \in PageIndex : i < bs[o].end => Grown(pg[o][i], page_saved(done)[i])
    BY <1>2, <1>6, <1>7 DEF Extends, Nb
  <2>2. done.book \in BookState
    BY <2>1 DEF Acc
  <2> QED BY <2>1, <2>2 DEF BookState
<1>9. PICK ring : ring = IF done.book.ready_neighbours = None
                           THEN ready_ring_knit(bs, head, o)
                           ELSE [books |-> bs, head |-> head,
                                 neighbours |-> done.book.ready_neighbours]
  BY Zenon
<1>10. PICK bs2 : bs2 = [ring.books EXCEPT ![o] = with_links(done.book, ring.neighbours)]
  BY Zenon
<1>11. PICK pg2 : pg2 = [pg EXCEPT ![o] = page_saved(done)]
  BY Zenon
<1>12. s2 = [books |-> bs2, pages |-> pg2, head |-> ring.head]
  BY Zenon, <1>1, <1>2, <1>3, <1>9, <1>10, <1>11 DEF do_enqueue_messages
<1>13. /\ Ring(bs2, ring.head) /\ ring.head \in Origins \cup {None}
       /\ bs2[o].begin = bs[o].begin /\ bs2[o].end = done.book.end /\ Nb(bs2, o) # None
       /\ \A p \in Origins \ {o} :
            /\ bs2[p].begin = bs[p].begin /\ bs2[p].end = bs[p].end
            /\ (Nb(bs2, p) = None) <=> (Nb(bs, p) = None)
  <2>1. CASE Nb(bs, o) = None
    <3>1. ring = ready_ring_knit(bs, head, o)
      BY <1>8, <1>9, <2>1
    <3>2. bs2 = Knitted(bs, head, o, done.book)
      BY <1>10, <3>1 DEF Knitted
    <3> QED BY <1>0, <1>8, <2>1, <3>1, <3>2, KnitKeepsRing
  <2>2. CASE Nb(bs, o) # None
    <3>1. ring = [books |-> bs, head |-> head, neighbours |-> Nb(bs, o)]
      BY <1>8, <1>9, <2>2
    <3>2. Nb(bs, o) \in Neighbours
      BY <1>0, <2>2 DEF BookState, Nb
    <3>3. PICK book : book = with_links(done.book, Nb(bs, o))
      OBVIOUS
    <3>4. /\ book \in BookState /\ book.ready_neighbours = Nb(bs, o)
          /\ book.begin = bs[o].begin /\ book.end = done.book.end
      BY <1>8, <3>2, <3>3, WithLinks
    <3>5. bs2 = [bs EXCEPT ![o] = book]
      BY <1>10, <3>1, <3>3
    <3>6. Ring(bs2, head)
      BY Zenon, <1>0, <3>4, <3>5, WriteBack
    <3> QED BY <1>0, <2>2, <3>1, <3>4, <3>5, <3>6 DEF Nb
  <2> QED BY <2>1, <2>2
<1>14. pg2 \in [Origins -> Pages] /\ pg2[o] = page_saved(done)
       /\ \A p \in Origins \ {o} : pg2[p] = pg[p]
  BY <1>0, <1>8, <1>11, PageSaved
<1>15. ASSUME NEW p \in Origins
       PROVE  /\ bs2[p].begin <= bs2[p].end /\ bs2[p].end < n + Len(b)
              /\ bs2[p].begin < bs2[p].end => Nb(bs2, p) # None
  <2>1. bs[p].begin \in Nat /\ bs[p].end \in Nat
    BY <1>0 DEF BookState
  <2>2. /\ bs[p].begin <= bs[p].end /\ bs[p].end < n
        /\ bs[p].begin < bs[p].end => Nb(bs, p) # None
    BY DEF StorageOK
  <2>3. CASE p = o
    BY SMTT(30), <1>7, <1>8, <1>13, <2>1, <2>2, <2>3
  <2>4. CASE p # o
    <3>1. /\ bs2[p].begin = bs[p].begin /\ bs2[p].end = bs[p].end
          /\ Nb(bs2, p) = None <=> Nb(bs, p) = None
      BY SMTT(30), <1>13, <2>4
    <3> QED BY <1>7, <2>1, <2>2, <3>1
  <2> QED BY <2>3, <2>4
<1>16. Keeps(bs, pg, bs2, pg2)
  <2> SUFFICES ASSUME NEW p \in Origins
               PROVE  /\ bs2[p].begin = bs[p].begin /\ bs2[p].end >= bs[p].end
                      /\ Nb(bs, p) # None => Nb(bs2, p) # None
                      /\ \A i \in PageIndex : i < bs[p].end => Grown(pg[p][i], pg2[p][i])
    BY Zenon DEF Keeps
  <2>1. bs[p].end \in Nat
    BY <1>0 DEF BookState
  <2>2. \A i \in PageIndex : pg[p][i] \in Page \cup {None}
    BY <1>0 DEF Pages
  <2> QED BY <1>8, <1>13, <1>14, <2>1, <2>2, GrownReflexive
<1> QED BY <1>12, <1>13, <1>14, <1>15, <1>16 DEF StorageOK

\* Writing a book back whose links are the stored ones.
LEMMA WriteBackStorage ==
  ASSUME NEW bs, NEW pg, NEW head, NEW n \in Nat, StorageOK(bs, pg, head, n),
         NEW o \in Origins, NEW book \in BookState,
         book.ready_neighbours = Nb(bs, o), book.begin <= book.end, book.end < n,
         book.begin < book.end => Nb(bs, o) # None
  PROVE  StorageOK([bs EXCEPT ![o] = book], pg, head, n)
<1>1. PICK bs2 : bs2 = [bs EXCEPT ![o] = book]
  BY Zenon
<1>2. Ring(bs, head) /\ bs \in [Origins -> BookState]
  BY DEF StorageOK, Ring
<1>3. Ring(bs2, head)
  BY Zenon, <1>1, <1>2, WriteBack
<1>4. bs2[o] = book /\ \A p \in Origins : p # o => bs2[p] = bs[p]
  BY <1>1, <1>2
<1>5. \A p \in Origins : /\ bs2[p].begin <= bs2[p].end /\ bs2[p].end < n
                         /\ bs2[p].begin < bs2[p].end => Nb(bs2, p) # None
  BY Zenon, <1>4 DEF StorageOK, Nb
<1> QED BY Zenon, <1>1, <1>3, <1>5 DEF StorageOK

\* Taking an empty queue off the ring.
LEMMA UnknitStorage ==
  ASSUME NEW bs, NEW pg, NEW head, NEW n \in Nat, StorageOK(bs, pg, head, n),
         NEW o \in Origins, NEW book \in BookState, Nb(bs, o) # None,
         book.begin = book.end, book.end < n
  PROVE  StorageOK(Unknitted(bs, head, o, book), pg,
                   ready_ring_unknit(bs, head, o, Nb(bs, o)).head, n)
<1>1. PICK bs2, head2 : /\ bs2 = Unknitted(bs, head, o, book)
                        /\ head2 = ready_ring_unknit(bs, head, o, Nb(bs, o)).head
  OBVIOUS
<1>2. Ring(bs, head) /\ head \in Origins \cup {None} /\ book.end \in Nat
  BY DEF StorageOK, BookState
<1>3. /\ Ring(bs2, head2) /\ head2 \in Origins \cup {None}
      /\ bs2[o].begin = book.begin /\ bs2[o].end = book.end
      /\ \A p \in Origins \ {o} :
           /\ bs2[p].begin = bs[p].begin /\ bs2[p].end = bs[p].end
           /\ (Nb(bs2, p) = None) <=> (Nb(bs, p) = None)
  BY <1>1, <1>2, UnknitKeepsRing
<1>4. \A p \in Origins : /\ bs2[p].begin <= bs2[p].end /\ bs2[p].end < n
                         /\ bs2[p].begin < bs2[p].end => Nb(bs2, p) # None
  <2> TAKE p \in Origins
  <2>1. CASE p = o
    BY <1>2, <1>3, <2>1
  <2>2. CASE p # o
    <3>1. /\ bs[p].begin <= bs[p].end /\ bs[p].end < n
          /\ bs[p].begin < bs[p].end => Nb(bs, p) # None
      BY DEF StorageOK
    <3>2. /\ bs2[p].begin = bs[p].begin /\ bs2[p].end = bs[p].end
          /\ Nb(bs2, p) = None <=> Nb(bs, p) = None
      BY <1>3, <2>2
    <3> QED BY <3>1, <3>2
  <2> QED BY <2>1, <2>2
<1> QED BY <1>1, <1>3, <1>4 DEF StorageOK

\* The counters of a book do not matter to the ring.
SameWindow(book, book2) ==
  /\ book2 \in BookState /\ book2.begin = book.begin /\ book2.end = book.end
  /\ book2.ready_neighbours = book.ready_neighbours

LEMMA CountersStorage ==
  ASSUME NEW bs, NEW pg, NEW head, NEW n \in Nat, StorageOK(bs, pg, head, n),
         NEW o \in Origins, NEW book, SameWindow(bs[o], book)
  PROVE  StorageOK([bs EXCEPT ![o] = book], pg, head, n)
<1>1. /\ book.begin <= book.end /\ book.end < n /\ book \in BookState
      /\ book.ready_neighbours = Nb(bs, o)
      /\ book.begin < book.end => Nb(bs, o) # None
  BY DEF StorageOK, SameWindow, Nb
<1> QED BY <1>1, WriteBackStorage

LEMMA SetPage ==
  ASSUME NEW pg \in [Origins -> Pages], NEW o \in Origins, NEW i, NEW page \in Page \cup {None}
  PROVE  [pg EXCEPT ![o][i] = page] \in [Origins -> Pages]
<1>1. PICK ps : ps = [pg[o] EXCEPT ![i] = page]
  BY Zenon
<1>2. ps \in Pages
  BY Zenon, <1>1 DEF Pages
<1>3. [pg EXCEPT ![o][i] = page] = [pg EXCEPT ![o] = ps]
  BY <1>1
<1> QED BY <1>2, <1>3

LEMMA PagesStorage ==
  ASSUME NEW bs, NEW pg, NEW head, NEW n, StorageOK(bs, pg, head, n),
         NEW o \in Origins, NEW i, NEW page \in Page \cup {None}
  PROVE  StorageOK(bs, [pg EXCEPT ![o][i] = page], head, n)
<1>1. [pg EXCEPT ![o][i] = page] \in [Origins -> Pages]
  BY Zenon, SetPage DEF StorageOK
<1> QED BY <1>1 DEF StorageOK

LEMMA BookWithout ==
  ASSUME NEW book \in BookState, NEW page \in Page
  PROVE  SameWindow(book, book_without(book, page))
<1>1. PICK c, n, z : /\ c = SaturatingSub(book.count, 1)
                     /\ n = SaturatingSub(book.message_count, page.remaining)
                     /\ z = SaturatingSub(book.size, page.remaining_size)
  OBVIOUS
<1>2. c \in Nat /\ n \in Nat /\ z \in Nat
  BY SMTT(30), <1>1, SaturatingSubType DEF BookState, Page
<1>3. book_without(book, page) = [book EXCEPT !.count = c, !.message_count = n, !.size = z]
  BY <1>1 DEF book_without
<1> QED BY Zenon, <1>2, <1>3 DEF BookState, SameWindow

LEMMA NextOf ==
  ASSUME NEW book \in BookState
  PROVE  next_of(book) \in Origins \cup {None}
  BY DEF next_of, BookState, Neighbours

LEMMA KeepsItself ==
  ASSUME NEW bs, NEW pg, NEW head, NEW n, StorageOK(bs, pg, head, n)
  PROVE  Keeps(bs, pg, bs, pg)
<1> SUFFICES ASSUME NEW p \in Origins
             PROVE  bs[p].end >= bs[p].end /\ \A i \in PageIndex : Grown(pg[p][i], pg[p][i])
  BY Zenon DEF Keeps
<1>1. bs[p].end \in Nat
  BY DEF StorageOK, Ring, BookState
<1>2. \A i \in PageIndex : pg[p][i] \in Page \cup {None}
  BY DEF StorageOK, Pages
<1> QED BY <1>1, <1>2, GrownReflexive

=============================================================================
