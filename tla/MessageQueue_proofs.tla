------------------------- MODULE MessageQueue_proofs -------------------------
(***************************************************************************)
(* Invariants of the message queue pallet, for any set of origins,         *)
(* messages and weights.                                                   *)
(***************************************************************************)
EXTENDS MessageQueue, QueueStorage_proofs

(* The inductive invariant                                                   *)

LEMMA NoneNotService == None \notin Service
  BY ConstantsAssumption

\* While service_queue runs, its local book differs from the stored one only in
\* its counters and in how far `begin' has moved; links and end are the stored
\* ones, because every processed message makes it read the book again.
LocalBookOK ==
  /\ svc.book.ready_neighbours = Nb(books, svc.origin)
  /\ svc.book.end = books[svc.origin].end
  /\ books[svc.origin].begin <= svc.book.begin
  /\ svc.book.begin <= svc.book.end
  /\ pc = "item" => svc.book.begin < svc.book.end

IInv ==
  /\ TypeOK
  /\ StorageOK(books, pages, serviceHead, nextId)
  /\ pc \in {"page", "item", "unknit"} => LocalBookOK

LEMMA BatchType ==
  ASSUME TypeOK, NEW max \in Nat, NEW b \in Batches(max)
  PROVE  IsBatch(b) /\ nextId + Len(b) \in 1 .. MaxMessages + 1
<1>0. nextId \in Nat /\ nextId + 1 \in Nat /\ MaxMessages \in Nat /\ nextId >= 1
      /\ nextId <= MaxMessages + 1
  BY ConstantsAssumption, StorageAssumption DEF TypeOK
<1>1. CASE b = <<>>
  BY <1>0, <1>1 DEF IsBatch
<1>2. ASSUME NEW k \in Kinds, nextId <= MaxMessages,
             b = <<[id |-> nextId, kind |-> k, is_processed |-> FALSE]>>
      PROVE  IsBatch(b) /\ nextId + Len(b) \in 1 .. MaxMessages + 1
  <2>1. [id |-> nextId, kind |-> k, is_processed |-> FALSE] \in Item
    BY <1>0 DEF Item
  <2> QED BY <1>0, <1>2, <2>1 DEF IsBatch
<1>3. ASSUME NEW kk \in Kinds \X Kinds, nextId < MaxMessages,
             b = <<[id |-> nextId, kind |-> kk[1], is_processed |-> FALSE],
                   [id |-> nextId + 1, kind |-> kk[2], is_processed |-> FALSE]>>
      PROVE  IsBatch(b) /\ nextId + Len(b) \in 1 .. MaxMessages + 1
  <2>1. /\ [id |-> nextId, kind |-> kk[1], is_processed |-> FALSE] \in Item
        /\ [id |-> nextId + 1, kind |-> kk[2], is_processed |-> FALSE] \in Item
    BY <1>0 DEF Item
  <2> QED BY <1>0, <1>3, <2>1 DEF IsBatch
<1> QED BY <1>1, <1>2, <1>3 DEF Batches

\* The parts of a step that only changes the storage, with the mutex free.
LEMMA StorageStep ==
  ASSUME IInv, pc = "idle", UNCHANGED <<paused, pc, svc, lastServed>>,
         nextId' \in 1 .. MaxMessages + 1,
         StorageOK(books', pages', serviceHead', nextId')
  PROVE  IInv'
<1>1. TypeOK'
  BY DEF IInv, TypeOK, StorageOK, Ring, Pages
<1> QED BY <1>1 DEF IInv

LEMMA EnqueueStep ==
  ASSUME IInv, NEW o \in Origins, NEW b \in Batches(2), EnqueueMessages(o, b)
  PROVE  IInv'
<1>1. IsBatch(b) /\ nextId + Len(b) \in 1 .. MaxMessages + 1
  BY BatchType DEF IInv
<1>2. PICK s2 : s2 = do_enqueue_messages(Stored, o, b)
  OBVIOUS
<1>3. nextId \in 1 .. MaxMessages + 1 /\ StorageOK(books, pages, serviceHead, nextId)
  BY DEF IInv, TypeOK
<1>4. StorageOK(s2.books, s2.pages, s2.head, nextId + Len(b))
  BY <1>1, <1>2, <1>3, Enqueue DEF Stored
<1>5. /\ books' = s2.books /\ pages' = s2.pages /\ serviceHead' = s2.head
      /\ nextId' = nextId + Len(b) /\ pc = "idle"
      /\ UNCHANGED <<paused, pc, svc, lastServed>>
  BY <1>2 DEF EnqueueMessages, Store
<1> QED BY <1>1, <1>4, <1>5, StorageStep

LEMMA SweepStep ==
  ASSUME IInv, NEW o \in Origins, SweepQueue(o)
  PROVE  IInv'
<1>1. PICK book : book = [books[o] EXCEPT !.begin = books[o].end]
  BY Zenon
<1>2. StorageOK(books, pages, serviceHead, nextId) /\ books[o] \in BookState /\ nextId \in Nat
      /\ nextId \in 1 .. MaxMessages + 1
  BY ConstantsAssumption, StorageAssumption DEF IInv, TypeOK
<1>3. book \in BookState /\ book.begin = book.end /\ book.end = books[o].end /\ book.end \in Nat
  BY <1>1, <1>2 DEF BookState
<1>4. books[o].end < nextId
  BY <1>2 DEF StorageOK
<1>5. UNCHANGED <<pages, paused, pc, svc, nextId, lastServed>> /\ pc = "idle"
  BY DEF SweepQueue
<1>6. CASE Nb(books, o) = None
  <2>0. PICK empty : empty = with_links(book, None)
    OBVIOUS
  <2>1. books' = [books EXCEPT ![o] = empty] /\ serviceHead' = serviceHead
    BY <1>1, <1>6, <2>0 DEF SweepQueue, Nb
  <2>2. /\ empty \in BookState /\ empty.begin <= empty.end /\ empty.end < nextId
        /\ ~(empty.begin < empty.end) /\ empty.ready_neighbours = Nb(books, o)
    BY <1>3, <1>4, <1>6, <2>0, WithLinks
  <2>3. StorageOK(books', pages, serviceHead, nextId)
    BY Zenon, <1>2, <2>1, <2>2, WriteBackStorage
  <2> QED BY <1>2, <1>5, <2>1, <2>3, StorageStep
<1>7. CASE Nb(books, o) # None
  <2>1. /\ books' = Unknitted(books, serviceHead, o, book)
        /\ serviceHead' = ready_ring_unknit(books, serviceHead, o, Nb(books, o)).head
    BY <1>1, <1>7 DEF SweepQueue, Nb, Unknitted
  <2>2. StorageOK(books', pages, serviceHead', nextId)
    BY <1>2, <1>3, <1>4, <1>7, <2>1, UnknitStorage
  <2> QED BY <1>2, <1>5, <2>1, <2>2, StorageStep
<1> QED BY <1>6, <1>7

LEMMA ForceSetHeadStep ==
  ASSUME IInv, NEW o \in Origins, ForceSetHead(o)
  PROVE  IInv'
<1>1. /\ StorageOK(books, pages, serviceHead, nextId) /\ nextId \in 1 .. MaxMessages + 1
      /\ UNCHANGED <<books, pages, paused, pc, svc, nextId, lastServed>> /\ pc = "idle"
      /\ serviceHead' = o /\ o \in ready_queues(books)
  BY DEF IInv, TypeOK, ForceSetHead, history, ready_queues
<1>2. Ring(books, o)
  BY <1>1, NoneDistinct DEF StorageOK, Ring, links_consistent
<1>3. StorageOK(books, pages, o, nextId)
  BY <1>1, <1>2 DEF StorageOK
<1> QED BY <1>1, <1>3, StorageStep

LEMMA ReapStep ==
  ASSUME IInv, NEW o \in Origins, NEW i \in PageIndex, ReapPage(o, i)
  PROVE  IInv'
<1>1. PICK left : left = book_without(books[o], pages[o][i])
  OBVIOUS
<1>2. /\ StorageOK(books, pages, serviceHead, nextId) /\ nextId \in 1 .. MaxMessages + 1
      /\ books[o] \in BookState /\ pages[o][i] \in Page \cup {None} /\ nextId \in Nat
  BY ConstantsAssumption, StorageAssumption DEF IInv, TypeOK
<1>3. /\ pages[o][i] # None /\ pc = "idle"
      /\ UNCHANGED <<serviceHead, paused, pc, svc, nextId, lastServed>>
      /\ pages' = [pages EXCEPT ![o][i] = None]
      /\ books' = [books EXCEPT ![o] = left]
  BY <1>1 DEF ReapPage
<1>4. SameWindow(books[o], left)
  BY <1>1, <1>2, <1>3, BookWithout
<1>5. StorageOK(books', pages, serviceHead, nextId)
  BY Zenon, <1>2, <1>3, <1>4, CountersStorage
<1>6. StorageOK(books', pages', serviceHead, nextId)
  BY Zenon, <1>3, <1>5, PagesStorage
<1> QED BY <1>2, <1>3, <1>6, StorageStep

LEMMA ExecuteOverweightStep ==
  ASSUME IInv, NEW o \in Origins, NEW i \in PageIndex, NEW j \in 0 .. MaxMessages - 1,
         ExecuteOverweight(o, i, j)
  PROVE  IInv'
<1>1. PICK page, book, m : page = pages[o][i] /\ book = books[o] /\ m = page.items[j + 1]
  OBVIOUS
<1>2. PICK page2 : page2 = note_processed(page, j)
  BY SMTT(30)
<1>3. PICK n, z, c : /\ n = SaturatingSub(book.message_count, 1)
                     /\ z = SaturatingSub(book.size, m.kind.len)
                     /\ c = IF is_complete(page2) THEN SaturatingSub(book.count, 1)
                            ELSE book.count
  OBVIOUS
<1>4. PICK book2 : book2 = [book EXCEPT !.message_count = n, !.size = z, !.count = c]
  OBVIOUS
<1>5. PICK page3 : page3 = IF is_complete(page2) THEN None ELSE page2
  BY SMTT(30)
<1>6. /\ page # None /\ j < Len(page.items) /\ pc = "idle"
      /\ UNCHANGED <<serviceHead, paused, pc, svc, lastServed>> /\ nextId' = nextId + 0
      /\ books' = [books EXCEPT ![o] = book2]
      /\ pages' = [pages EXCEPT ![o][i] = page3]
  BY Zenon, <1>1, <1>2, <1>3, <1>4, <1>5
     DEF ExecuteOverweight, ExecuteOverweightWith, Store, Stored
<1>7. /\ StorageOK(books, pages, serviceHead, nextId) /\ nextId \in 1 .. MaxMessages + 1
      /\ book \in BookState /\ page \in Page /\ nextId \in Nat /\ nextId' = nextId
  BY SMTT(30), <1>1, <1>6, ConstantsAssumption, StorageAssumption DEF IInv, TypeOK
<1>8. page2 \in Page
  BY SMTT(30), <1>2, <1>6, <1>7, NoteProcessed, ConstantsAssumption, StorageAssumption
<1>9. SameWindow(books[o], book2)
  <2>1. m \in Item
    <3>1. page.items \in Seq(Item) /\ Len(page.items) \in Nat
      BY <1>7 DEF Page
    <3>2. j + 1 \in 1 .. Len(page.items)
      BY SMTT(30), <1>6, <3>1, ConstantsAssumption, StorageAssumption
    <3> QED BY <1>1, <3>1, <3>2
  <2>2. book.message_count \in Nat /\ book.size \in Nat /\ book.count \in Nat
    BY <1>7 DEF BookState
  <2>3. n \in Nat /\ z \in Nat /\ c \in Nat
    BY <1>3, <2>1, <2>2, KindType, SaturatingSubType
  <2> QED BY Zenon, <1>1, <1>4, <1>7, <2>3 DEF SameWindow, BookState
<1>10. StorageOK(books', pages, serviceHead, nextId)
  BY Zenon, <1>6, <1>7, <1>9, CountersStorage
<1>11. StorageOK(books', pages', serviceHead, nextId)
  BY Zenon, <1>5, <1>6, <1>8, <1>10, PagesStorage
<1> QED BY <1>6, <1>7, <1>11, StorageStep

LEMMA TogglePausedStep ==
  ASSUME IInv, NEW o \in Pausable, TogglePaused(o)
  PROVE  IInv'
  BY DEF IInv, TypeOK, TogglePaused, storage, history, LocalBookOK

LEMMA MinMaxType ==
  ASSUME NEW a \in Nat, NEW b \in Nat
  PROVE  Min({a, b}) \in Nat /\ Max({a, b}) \in Nat
<1>1. (\E x \in {a, b} : \A y \in {a, b} : x =< y) => Min({a, b}) \in {a, b}
  BY DEF Min
<1>2. (\E x \in {a, b} : \A y \in {a, b} : x >= y) => Max({a, b}) \in {a, b}
  BY DEF Max
<1> QED BY <1>1, <1>2

LEMMA LimitType ==
  ASSUME NEW limit \in Nat
  PROVE  max_message_weight(limit) \in Nat
<1>1. PICK c : c = Max({ServiceWeight, IdleMaxServiceWeight})
  OBVIOUS
<1>2. c \in Nat /\ single_msg_overhead \in Nat
  BY SMTT(60), <1>1, MinMaxType, ConstantsAssumption, StorageAssumption DEF single_msg_overhead
<1>3. max_message_weight(limit) = SaturatingSub(IF c = 0 THEN limit ELSE c, single_msg_overhead)
  BY <1>1 DEF max_message_weight
<1> QED BY Zenon, <1>2, <1>3, SaturatingSubType

LEMMA StartStep ==
  ASSUME IInv, NEW limit \in Nat, StartService(limit)
  PROVE  IInv'
<1>1. PICK meter, most : meter = limit - BumpWeight /\ most = max_message_weight(limit)
  OBVIOUS
<1>2. meter \in Nat /\ most \in Nat
  BY <1>1, LimitType, ConstantsAssumption, StorageAssumption DEF StartService
<1>3. /\ StorageOK(books, pages, serviceHead, nextId) /\ serviceHead \in ready_queues(books)
      /\ UNCHANGED <<books, pages, paused, nextId, lastServed>> /\ pc' = "queue"
      /\ serviceHead' = books[serviceHead].ready_neighbours.next
      /\ svc' = [origin |-> serviceHead, last_no_progress |-> None, meter |-> meter,
                 overweight_limit |-> most, book |-> None, page |-> None,
                 processed |-> FALSE]
  <2>1. serviceHead \in Origins
    BY DEF IInv, TypeOK, StartService
  <2> QED BY <1>1, <2>1 DEF IInv, StartService, ready_queues, bump_service_head, history
<1>4. serviceHead \in Origins /\ svc' \in Service
  BY <1>2, <1>3 DEF ready_queues, Service
<1>5. serviceHead' \in ready_queues(books) /\ serviceHead' \in Origins
  BY <1>3 DEF StorageOK, Ring, links_consistent, ready_queues
<1>6. Ring(books, serviceHead')
  BY SMTT(30), <1>3, <1>5, NoneDistinct DEF StorageOK, Ring, links_consistent
<1>7. StorageOK(books', pages', serviceHead', nextId')
  BY <1>3, <1>5, <1>6 DEF StorageOK
<1>8. TypeOK'
  BY Zenon, <1>3, <1>4, <1>5, NoneNotStored, NoneNotService DEF IInv, TypeOK
<1> QED BY <1>3, <1>7, <1>8 DEF IInv

\* The loop of service_queues_impl goes on with another queue, or ends.
LEMMA ContinueType ==
  ASSUME svc \in Service, NEW progressed \in BOOLEAN, NEW next \in Origins \cup {None},
         NEW meter \in Nat, ContinueWith(progressed, next, meter)
  PROVE  \/ pc' = "idle" /\ svc' = None
         \/ pc' = "queue" /\ svc' \in Service
<1>1. CASE next = None \/ (~progressed /\ svc.last_no_progress = next)
  BY <1>1 DEF ContinueWith
<1>2. CASE ~(next = None \/ (~progressed /\ svc.last_no_progress = next))
  <2>1. PICK mark : mark = IF progressed THEN None
                           ELSE IF svc.last_no_progress = None THEN svc.origin
                           ELSE svc.last_no_progress
    OBVIOUS
  <2>2. /\ pc' = "queue"
        /\ svc' = [svc EXCEPT !.origin = next, !.last_no_progress = mark, !.meter = meter,
                              !.book = None, !.page = None, !.processed = FALSE]
    BY <1>2, <2>1 DEF ContinueWith
  <2>3. mark \in Origins \cup {None} /\ next \in Origins
    BY <1>2, <2>1 DEF Service
  <2> QED BY Zenon, <2>2, <2>3 DEF Service
<1> QED BY <1>1, <1>2

\* A step of servicing that is back at the loop of service_queues_impl.
LEMMA BetweenQueues ==
  ASSUME IInv, UNCHANGED <<pages, paused, nextId, lastServed>>,
         StorageOK(books', pages', serviceHead', nextId'),
         (pc' = "idle" /\ svc' = None) \/ (pc' = "queue" /\ svc' \in Service)
  PROVE  IInv'
<1>1. TypeOK'
  BY NoneNotStored, NoneNotService DEF IInv, TypeOK, StorageOK, Ring
<1> QED BY <1>1 DEF IInv

LEMMA ServiceQueueStep ==
  ASSUME IInv, ServiceQueue
  PROVE  IInv'
<1>0. /\ svc \in Service /\ svc.origin \in Origins /\ svc.meter \in Nat /\ QueueWeight \in Nat
      /\ books[svc.origin] \in BookState /\ pc = "queue"
      /\ StorageOK(books, pages, serviceHead, nextId)
      /\ UNCHANGED <<books, pages, serviceHead, paused, nextId, lastServed>>
  <2>1. svc \in Service
    BY DEF IInv, TypeOK, ServiceQueue
  <2> QED BY <2>1, ConstantsAssumption, StorageAssumption
          DEF IInv, TypeOK, ServiceQueue, Service, storage, history
<1>1. PICK meter, book : meter = svc.meter - QueueWeight /\ book = books[svc.origin]
  OBVIOUS
<1>2. CASE meter < 0 /\ ContinueWith(FALSE, None, svc.meter)
  BY Zenon, <1>0, <1>2, ContinueType, BetweenQueues
<1>3. CASE meter >= 0 /\ ContinueWith(FALSE, next_of(book), meter)
  <2>1. meter \in Nat /\ next_of(book) \in Origins \cup {None}
    BY <1>0, <1>1, <1>3, NextOf
  <2> QED BY Zenon, <1>0, <1>3, <2>1, ContinueType, BetweenQueues
<1>4. CASE meter >= 0 /\ pc' = "page" /\ svc' = [svc EXCEPT !.book = book, !.meter = meter]
  <2>1. meter \in Nat /\ book \in BookState
    BY <1>0, <1>1, <1>4
  <2>2. svc' \in Service /\ svc'.origin = svc.origin /\ svc'.book = book
    BY Zenon, <1>0, <1>4, <2>1 DEF Service
  <2>3. TypeOK'
    BY <1>0, <1>4, <2>1, <2>2, NoneNotStored, NoneNotService DEF IInv, TypeOK
  <2>4. /\ book.begin <= book.end /\ book.begin \in Nat
    BY <1>0, <1>1 DEF StorageOK, BookState
  <2>5. books' = books /\ svc'.book = books[svc.origin] /\ pc' # "item"
    BY <1>0, <1>1, <1>4, <2>2
  <2>6. LocalBookOK'
    BY <1>1, <2>2, <2>4, <2>5 DEF LocalBookOK, Nb
  <2> QED BY <1>0, <2>3, <2>6 DEF IInv
<1> QED BY Zenon, <1>1, <1>2, <1>3, <1>4 DEF ServiceQueue

\* What is known while service_queue has a local book.
LEMMA Locals ==
  ASSUME IInv, pc \in {"page", "item", "unknit"}
  PROVE  /\ svc \in Service /\ svc.origin \in Origins /\ svc.meter \in Nat
         /\ svc.book \in BookState /\ svc.book.begin \in Nat /\ svc.book.end \in Nat
         /\ svc.page \in Page \cup {None} /\ svc.processed \in BOOLEAN
         /\ pc = "item" => svc.page \in Page
         /\ StorageOK(books, pages, serviceHead, nextId) /\ LocalBookOK
         /\ books \in [Origins -> BookState] /\ nextId \in 1 .. MaxMessages + 1
         /\ books[svc.origin].begin \in Nat /\ books[svc.origin].end < nextId
<1>1. svc \in Service
  BY DEF IInv, TypeOK
<1>2. /\ svc.origin \in Origins /\ svc.meter \in Nat /\ svc.book \in BookState
      /\ svc.page \in Page \cup {None} /\ svc.processed \in BOOLEAN
  BY <1>1 DEF IInv, TypeOK, Service
<1>3. pc = "item" => svc.page \in Page
  BY <1>2 DEF IInv, TypeOK
<1>4. svc.book.begin \in Nat /\ svc.book.end \in Nat
  BY <1>2 DEF BookState
<1>5. /\ StorageOK(books, pages, serviceHead, nextId) /\ LocalBookOK
      /\ books \in [Origins -> BookState] /\ nextId \in 1 .. MaxMessages + 1
  BY DEF IInv, TypeOK
<1>6. books[svc.origin].begin \in Nat
  BY <1>2, <1>5 DEF BookState
<1>7. books[svc.origin].end < nextId
  BY <1>2, <1>5 DEF StorageOK
<1> QED BY <1>1, <1>2, <1>3, <1>4, <1>5, <1>6, <1>7

\* A step that leaves the books alone and moves the local book to `book'.
LEMMA LocalStep ==
  ASSUME IInv, pc \in {"page", "item", "unknit"}, pc' \in {"page", "item", "unknit"},
         UNCHANGED <<books, serviceHead, paused, nextId, lastServed>>,
         StorageOK(books, pages', serviceHead, nextId),
         svc' \in Service, svc'.origin = svc.origin, svc'.book \in BookState,
         pc' = "item" => svc'.page \in Page,
         svc'.book.ready_neighbours = svc.book.ready_neighbours,
         svc'.book.end = svc.book.end, svc.book.begin <= svc'.book.begin,
         svc'.book.begin <= svc'.book.end,
         pc' = "item" => svc'.book.begin < svc'.book.end
  PROVE  IInv'
<1>1. TypeOK'
  BY NoneNotStored, NoneNotService DEF IInv, TypeOK, StorageOK, Pages
<1>2. svc'.book.begin \in Nat
  BY DEF BookState
<1>3. LocalBookOK'
  BY <1>2, Locals DEF LocalBookOK, Nb
<1> QED BY SMTT(30), <1>1, <1>3 DEF IInv

LEMMA ServicePageStep ==
  ASSUME IInv, ServicePage
  PROVE  IInv'
<1>0. /\ svc \in Service /\ svc.origin \in Origins /\ svc.meter \in Nat
      /\ svc.book \in BookState /\ svc.book.begin \in Nat /\ svc.book.end \in Nat
      /\ StorageOK(books, pages, serviceHead, nextId) /\ LocalBookOK
      /\ PageWeight \in Nat /\ pc = "page"
      /\ UNCHANGED <<books, pages, serviceHead, paused, nextId, lastServed>>
  BY Locals, ConstantsAssumption, StorageAssumption DEF ServicePage, storage, history
<1>1. PICK meter, page : meter = svc.meter - PageWeight /\ page = pages[svc.origin][svc.book.begin]
  BY SMTT(30)
<1>2. CASE pc' = "unknit" /\ UNCHANGED svc
  BY <1>0, <1>2, LocalStep DEF LocalBookOK
<1>3. CASE /\ svc.book.end > svc.book.begin /\ meter >= 0 /\ pc' = pc
           /\ svc' = [svc EXCEPT !.meter = meter, !.book = [svc.book EXCEPT !.begin = @ + 1]]
  <2>1. PICK i : i = svc.book.begin + 1
    OBVIOUS
  <2>2. PICK book : book = [svc.book EXCEPT !.begin = i]
    BY Zenon
  <2>3. i \in Nat /\ meter \in Nat /\ svc.book.begin <= i /\ i <= svc.book.end
    BY <1>0, <1>1, <1>3, <2>1
  <2>4. /\ book \in BookState /\ book.begin = i /\ book.end = svc.book.end
        /\ book.ready_neighbours = svc.book.ready_neighbours
    BY <1>0, <2>2, <2>3 DEF BookState
  <2>5. svc' = [svc EXCEPT !.meter = meter, !.book = book]
    BY <1>3, <2>1, <2>2
  <2>6. svc' \in Service /\ svc'.origin = svc.origin /\ svc'.book = book
    BY Zenon, <1>0, <2>3, <2>4, <2>5 DEF Service
  <2> QED BY <1>0, <1>3, <2>3, <2>4, <2>6, LocalStep
<1>4. CASE /\ svc.book.end > svc.book.begin /\ meter >= 0 /\ page # None /\ pc' = "item"
           /\ svc' = [svc EXCEPT !.meter = meter, !.page = page]
  <2>1. meter \in Nat
    BY <1>0, <1>1, <1>4
  <2>2. svc.book.begin \in PageIndex
    BY <1>0, <1>4, Locals, ConstantsAssumption, StorageAssumption DEF LocalBookOK, PageIndex
  <2>3. page \in Page
    BY <1>0, <1>1, <1>4, <2>2 DEF StorageOK, Pages
  <2>4. svc' \in Service /\ svc'.origin = svc.origin /\ svc'.book = svc.book /\ svc'.page = page
    BY Zenon, <1>0, <1>4, <2>1, <2>3 DEF Service
  <2> QED BY <1>0, <1>4, <2>3, <2>4, LocalStep DEF LocalBookOK
<1> QED BY <1>1, <1>2, <1>3, <1>4 DEF ServicePage

LEMMA LeavePageType ==
  ASSUME IInv, pc = "item", NEW no_more \in BOOLEAN, NEW meter \in Nat,
         LeavePage(no_more, meter)
  PROVE  /\ svc' \in Service /\ svc'.origin = svc.origin /\ svc'.book \in BookState
         /\ svc'.book.ready_neighbours = svc.book.ready_neighbours
         /\ svc'.book.end = svc.book.end
         /\ svc.book.begin <= svc'.book.begin /\ svc'.book.begin <= svc'.book.end
         /\ ~no_more => svc'.book.begin = svc.book.begin
         /\ pc' \in {"page", "unknit"}
         /\ \A bs : StorageOK(bs, pages, serviceHead, nextId)
                       => StorageOK(bs, pages', serviceHead, nextId)
<1>0. /\ svc \in Service /\ svc.origin \in Origins /\ svc.page \in Page
      /\ svc.book \in BookState /\ svc.book.begin \in Nat /\ svc.book.end \in Nat
      /\ svc.book.begin < svc.book.end
  BY Locals DEF LocalBookOK
<1>1. PICK i, c, page :
        /\ i = begin_after(svc.book.begin, no_more)
        /\ c = IF is_complete(svc.page) THEN SaturatingSub(svc.book.count, 1)
               ELSE svc.book.count
        /\ page = IF is_complete(svc.page) THEN None ELSE svc.page
  OBVIOUS
<1>2. /\ i \in Nat /\ svc.book.begin <= i /\ i <= svc.book.end
      /\ ~no_more => i = svc.book.begin
  BY <1>0, <1>1 DEF begin_after
<1>3. c \in Nat /\ page \in Page \cup {None}
  <2>1. svc.book.count \in Nat
    BY <1>0 DEF BookState
  <2> QED BY Zenon, <1>0, <1>1, <2>1, SaturatingSubType
<1>4. PICK book : book = [svc.book EXCEPT !.count = c, !.begin = i]
  OBVIOUS
<1>5. /\ book \in BookState /\ book.begin = i /\ book.end = svc.book.end
      /\ book.ready_neighbours = svc.book.ready_neighbours
  BY Zenon, <1>0, <1>2, <1>3, <1>4 DEF BookState
<1>6. /\ svc' = [svc EXCEPT !.meter = meter, !.book = book, !.page = None]
      /\ pages' = [pages EXCEPT ![svc.origin][svc.book.begin] = page]
      /\ pc' \in {"page", "unknit"}
  BY <1>1, <1>4 DEF LeavePage
<1>7. svc' \in Service /\ svc'.origin = svc.origin /\ svc'.book = book
  BY Zenon, <1>0, <1>5, <1>6 DEF Service
<1>8. ASSUME NEW bs, StorageOK(bs, pages, serviceHead, nextId)
      PROVE  StorageOK(bs, pages', serviceHead, nextId)
  BY Zenon, <1>0, <1>3, <1>6, <1>8, PagesStorage
<1> QED BY Zenon, <1>2, <1>5, <1>6, <1>7, <1>8

LEMMA NoItemStep ==
  ASSUME IInv, NoItem
  PROVE  IInv'
<1>1. PICK meter : meter = svc.meter - ItemWeight
  OBVIOUS
<1>2. pc = "item" /\ UNCHANGED <<books, serviceHead, paused, nextId, lastServed>>
  BY DEF NoItem, history
<1>3. svc.meter \in Nat /\ StorageOK(books, pages, serviceHead, nextId) /\ ItemWeight \in Nat
  BY <1>2, Locals, ConstantsAssumption, StorageAssumption
<1>4. PICK no_more \in BOOLEAN, left \in Nat : LeavePage(no_more, left)
  <2>1. \/ LeavePage(TRUE, svc.meter)
        \/ LeavePage(FALSE, svc.meter)
        \/ meter >= 0 /\ LeavePage(TRUE, meter)
    BY Zenon, <1>1 DEF NoItem
  <2>2. meter >= 0 => meter \in Nat
    BY <1>1, <1>3
  <2> QED BY Zenon, <1>3, <2>1, <2>2
<1> QED BY <1>2, <1>3, <1>4, LeavePageType, LocalStep

\* The storage a message is processed on: the local book and page are written.
LEMMA StoredForProcessingOK ==
  ASSUME IInv, pc = "item"
  PROVE  /\ StoredForProcessing.books = [books EXCEPT ![svc.origin] = svc.book]
         /\ StoredForProcessing.pages = [pages EXCEPT ![svc.origin][svc.book.begin] = svc.page]
         /\ StoredForProcessing.head = serviceHead
         /\ StoredForProcessing = [books |-> StoredForProcessing.books,
                                   pages |-> StoredForProcessing.pages,
                                   head |-> StoredForProcessing.head]
         /\ StorageOK(StoredForProcessing.books, pages, serviceHead, nextId)
         /\ StorageOK(StoredForProcessing.books, StoredForProcessing.pages,
                      StoredForProcessing.head, nextId)
         /\ StoredForProcessing.books[svc.origin] = svc.book
         /\ StoredForProcessing.pages[svc.origin][svc.book.begin] = svc.page
         /\ svc.book.begin \in PageIndex
<1>0. /\ svc.origin \in Origins /\ svc.page \in Page /\ svc.book \in BookState
      /\ svc.book.begin \in Nat /\ svc.book.end \in Nat
      /\ books[svc.origin].begin \in Nat
      /\ StorageOK(books, pages, serviceHead, nextId) /\ LocalBookOK
      /\ books \in [Origins -> BookState] /\ nextId \in 1 .. MaxMessages + 1
      /\ nextId \in Nat /\ MaxMessages \in Nat
      /\ books[svc.origin].end < nextId /\ svc.book.end = books[svc.origin].end
      /\ svc.book.begin < svc.book.end
  BY Locals, ConstantsAssumption, StorageAssumption DEF LocalBookOK
<1>1. PICK bs, pg : /\ bs = [books EXCEPT ![svc.origin] = svc.book]
                    /\ pg = [pages EXCEPT ![svc.origin][svc.book.begin] = svc.page]
  BY Zenon
<1>2. StoredForProcessing = [books |-> bs, pages |-> pg, head |-> serviceHead]
  BY <1>1 DEF StoredForProcessing
<1>3. /\ svc.book.ready_neighbours = Nb(books, svc.origin)
      /\ svc.book.begin <= svc.book.end /\ svc.book.end < nextId
      /\ Nb(books, svc.origin) # None
  BY <1>0 DEF LocalBookOK, StorageOK
<1>4. StorageOK(bs, pages, serviceHead, nextId)
  BY Zenon, <1>0, <1>1, <1>3, WriteBackStorage
<1>5. StorageOK(bs, pg, serviceHead, nextId)
  BY Zenon, <1>0, <1>1, <1>4, PagesStorage
<1>6. svc.book.begin \in PageIndex
  BY <1>0 DEF PageIndex
<1>7. bs[svc.origin] = svc.book /\ pg[svc.origin][svc.book.begin] = svc.page
  <2>1. pages \in [Origins -> Pages]
    BY <1>0 DEF StorageOK
  <2> QED BY <1>0, <1>1, <1>6, <2>1 DEF Pages
<1> QED BY <1>1, <1>2, <1>4, <1>5, <1>6, <1>7

LEMMA RetryStep ==
  ASSUME IInv, RetryItemLater
  PROVE  IInv'
<1>1. /\ pc = "item" /\ UNCHANGED <<serviceHead, paused, nextId, lastServed>>
      /\ books' = StoredForProcessing.books /\ LeavePage(FALSE, MessageMeter)
      /\ svc.meter >= ItemWeight
  BY Zenon DEF RetryItemLater, HasItem, history
<1>2. MessageMeter \in Nat
  BY <1>1, Locals, ConstantsAssumption, StorageAssumption DEF MessageMeter
<1>3. /\ svc' \in Service /\ svc'.origin = svc.origin /\ svc'.book \in BookState
      /\ svc'.book.ready_neighbours = svc.book.ready_neighbours
      /\ svc'.book.end = svc.book.end /\ svc'.book.begin = svc.book.begin
      /\ pc' \in {"page", "unknit"}
      /\ \A bs : StorageOK(bs, pages, serviceHead, nextId)
                    => StorageOK(bs, pages', serviceHead, nextId)
  BY Zenon, <1>1, <1>2, LeavePageType
<1>4. StorageOK(books', pages', serviceHead', nextId')
  BY <1>1, <1>3, StoredForProcessingOK
<1>5. TypeOK'
  BY SMTT(30), <1>1, <1>3, <1>4, NoneNotStored, NoneNotService DEF IInv, TypeOK, StorageOK, Ring, Pages
<1>6. books'[svc.origin] = svc.book
  BY SMTT(30), <1>1, StoredForProcessingOK
<1>7. LocalBookOK'
  BY <1>1, <1>3, <1>6, Locals DEF LocalBookOK, Nb
<1> QED BY <1>4, <1>5, <1>7 DEF IInv

\* Moving past an item, on whatever storage its processing left: the page that held
\* it is still there, still with the item, and the book read again is in order.
LEMMA MoveOnStep ==
  ASSUME IInv, HasItem, NEW s, NEW b \in BOOLEAN, NEW meter \in Nat, MoveOn(s, b, meter),
         nextId' \in 1 .. MaxMessages + 1,
         StorageOK(s.books, s.pages, s.head, nextId'),
         Keeps(StoredForProcessing.books, StoredForProcessing.pages, s.books, s.pages)
  PROVE  IInv'
<1>0. /\ pc = "item" /\ has_first(svc.page) /\ svc \in Service /\ svc.origin \in Origins
      /\ svc.page \in Page /\ svc.book.begin \in Nat /\ svc.book.end \in Nat
      /\ svc.book.begin < svc.book.end /\ svc.processed \in BOOLEAN
  BY SMTT(30), Locals DEF HasItem, LocalBookOK
<1>1. PICK m, book, page : /\ m = peek_first(svc.page) /\ book = s.books[svc.origin]
                           /\ page = s.pages[svc.origin][svc.book.begin]
  OBVIOUS
<1>2. m \in Item
  <2>1. svc.page.items \in Seq(Item) /\ svc.page.first_index \in Nat /\ Len(svc.page.items) \in Nat
    BY <1>0 DEF Page
  <2>2. svc.page.first_index + 1 \in 1 .. Len(svc.page.items)
    BY SMTT(30), <1>0, <2>1 DEF has_first
  <2> QED BY <1>1, <2>1, <2>2 DEF peek_first
<1>3. book \in BookState /\ book.begin \in Nat /\ book.end \in Nat /\ page \in Page \cup {None}
  <2>1. svc.book.begin \in PageIndex
    BY SMTT(30), <1>0, StoredForProcessingOK
  <2> QED BY <1>0, <1>1, <2>1 DEF StorageOK, Ring, Pages, BookState
<1>4. /\ book.begin = svc.book.begin /\ book.end >= svc.book.end
      /\ Grown(svc.page, page)
  <2>1. /\ StoredForProcessing.books[svc.origin] = svc.book
        /\ StoredForProcessing.pages[svc.origin][svc.book.begin] = svc.page
        /\ svc.book.begin \in PageIndex
    BY <1>0, StoredForProcessingOK
  <2> QED BY <1>0, <1>1, <2>1 DEF Keeps
<1>5. page \in Page /\ has_first(page)
  <2>1. page \in Page /\ page.first_index = svc.page.first_index
        /\ Len(page.items) >= Len(svc.page.items)
    BY SMTT(30), <1>0, <1>3, <1>4, NoneNotStored, NoneNotService DEF Grown
  <2>2. /\ Len(page.items) \in Nat /\ Len(svc.page.items) \in Nat
        /\ svc.page.first_index \in Nat
    BY SMTT(30), <1>0, <2>1 DEF Page
  <2> QED BY <1>0, <2>1, <2>2 DEF has_first
<1>6. PICK n, z : /\ n = SaturatingSub(book.message_count, 1)
                  /\ z = SaturatingSub(book.size, m.kind.len)
  OBVIOUS
<1>7. n \in Nat /\ z \in Nat
  <2>1. book.message_count \in Nat /\ book.size \in Nat
    BY <1>3 DEF BookState
  <2> QED BY Zenon, <1>2, <1>6, <2>1, KindType, SaturatingSubType
<1>8. PICK book2 : book2 = IF b THEN [book EXCEPT !.message_count = n, !.size = z] ELSE book
  OBVIOUS
<1>9. SameWindow(book, book2)
  <2>1. CASE b
    BY Zenon, <1>3, <1>7, <1>8, <2>1 DEF SameWindow, BookState
  <2>2. CASE ~b
    BY <1>3, <1>8, <2>2 DEF SameWindow
  <2> QED BY <2>1, <2>2
<1>10. PICK page2, done : page2 = skip_first(page, b) /\ done = (svc.processed \/ b)
  OBVIOUS
<1>11. page2 \in Page /\ done \in BOOLEAN
  BY <1>0, <1>5, <1>10, SkipFirst
<1>12. /\ svc' = [svc EXCEPT !.book = book2, !.page = page2, !.meter = meter,
                             !.processed = done]
       /\ books' = s.books /\ pages' = s.pages /\ serviceHead' = s.head
       /\ pc' = pc /\ paused' = paused
       /\ lastServed' = [lastServed EXCEPT ![svc.origin] = m.id]
  BY <1>1, <1>6, <1>8, <1>10 DEF MoveOn, Store, page_after
<1>13. /\ svc' \in Service /\ svc'.origin = svc.origin /\ svc'.book = book2
       /\ svc'.page = page2
  BY Zenon, <1>0, <1>9, <1>11, <1>12 DEF Service, SameWindow
<1>14. StorageOK(books', pages', serviceHead', nextId')
  BY <1>12
<1>15. lastServed' \in [Origins -> Nat]
  BY <1>0, <1>2, <1>12, KindType DEF IInv, TypeOK
<1>16. TypeOK'
  BY <1>0, <1>9, <1>11, <1>12, <1>13, <1>14, <1>15, NoneNotStored, NoneNotService
     DEF IInv, TypeOK, StorageOK, Ring, Pages, SameWindow
<1>17. LocalBookOK'
  <2>1. books'[svc.origin] = book
    BY <1>1, <1>12
  <2> QED BY <1>0, <1>3, <1>4, <1>9, <1>13, <2>1 DEF LocalBookOK, SameWindow, Nb
<1> QED BY SMTT(30), <1>14, <1>16, <1>17 DEF IInv

LEMMA SkipOrDropStep ==
  ASSUME IInv, SkipOverweight \/ DropItem
  PROVE  IInv'
<1>1. /\ HasItem /\ pc = "item" /\ svc.meter >= ItemWeight /\ nextId' = nextId
      /\ MoveOn(StoredForProcessing, FALSE, MessageMeter)
         \/ MoveOn(StoredForProcessing, TRUE, MessageMeter)
  BY Zenon DEF SkipOverweight, DropItem, HasItem
<1>2. MessageMeter \in Nat /\ nextId' \in 1 .. MaxMessages + 1
  BY <1>1, Locals, ConstantsAssumption, StorageAssumption DEF MessageMeter
<1>3. StorageOK(StoredForProcessing.books, StoredForProcessing.pages,
                StoredForProcessing.head, nextId')
  BY <1>1, StoredForProcessingOK
<1> QED BY Zenon, <1>1, <1>2, <1>3, KeepsItself, MoveOnStep

LEMMA ProcessStep ==
  ASSUME IInv, NEW target \in Origins, NEW b, b \in Batches(1) \/ b = <<>>,
         ProcessItem(target, b)
  PROVE  IInv'
<1>1. PICK weight, ran :
        /\ weight = peek_first(svc.page).kind.weight
        /\ ran = IF b = <<>> THEN StoredForProcessing
                 ELSE do_enqueue_messages(StoredForProcessing, target, b)
  BY SMTT(30)
<1>2. /\ HasItem /\ pc = "item" /\ svc.meter >= ItemWeight /\ nextId' = nextId + Len(b)
      /\ weight <= MessageMeter /\ MoveOn(ran, TRUE, MessageMeter - weight)
  BY Zenon, <1>1 DEF ProcessItem, HasItem
<1>3. MessageMeter - weight \in Nat
  <2>1. svc.page \in Page /\ has_first(svc.page) /\ svc.meter \in Nat
    BY <1>2, Locals DEF HasItem
  <2>2. svc.page.items \in Seq(Item) /\ svc.page.first_index \in Nat /\ Len(svc.page.items) \in Nat
    BY <2>1 DEF Page
  <2>3. svc.page.first_index + 1 \in 1 .. Len(svc.page.items)
    BY <2>1, <2>2 DEF has_first
  <2>4. peek_first(svc.page) \in Item
    BY <2>2, <2>3 DEF peek_first
  <2>5. weight \in Nat
    BY SMTT(30), <1>1, <2>4, KindType
  <2> QED BY <1>2, <2>1, <2>5, ConstantsAssumption, StorageAssumption DEF MessageMeter
<1>4. /\ StorageOK(StoredForProcessing.books, StoredForProcessing.pages,
                   StoredForProcessing.head, nextId)
      /\ StoredForProcessing = [books |-> StoredForProcessing.books,
                                pages |-> StoredForProcessing.pages,
                                head |-> StoredForProcessing.head]
      /\ nextId \in 1 .. MaxMessages + 1
  BY SMTT(30), <1>2, StoredForProcessingOK, Locals
<1>5. CASE b = <<>>
  <2>1. ran = StoredForProcessing /\ nextId' = nextId
    BY <1>1, <1>2, <1>4, <1>5
  <2> QED BY Zenon, <1>2, <1>3, <1>4, <2>1, KeepsItself, MoveOnStep
<1>6. CASE b # <<>>
  <2>1. ran = do_enqueue_messages(StoredForProcessing, target, b)
    BY <1>1, <1>6
  <2>2. IsBatch(b) /\ nextId' \in 1 .. MaxMessages + 1
    BY <1>2, <1>6, BatchType DEF IInv
  <2>3. /\ StorageOK(ran.books, ran.pages, ran.head, nextId')
        /\ Keeps(StoredForProcessing.books, StoredForProcessing.pages, ran.books, ran.pages)
    BY <1>2, <1>4, <2>1, <2>2, Enqueue
  <2> QED BY Zenon, <1>2, <1>3, <2>2, <2>3, MoveOnStep
<1> QED BY <1>5, <1>6

LEMMA FinishStep ==
  ASSUME IInv, FinishQueue
  PROVE  IInv'
<1>0. /\ pc = "unknit" /\ svc \in Service /\ svc.origin \in Origins /\ svc.meter \in Nat
      /\ svc.book \in BookState /\ svc.book.begin \in Nat /\ svc.book.end \in Nat
      /\ svc.processed \in BOOLEAN /\ StorageOK(books, pages, serviceHead, nextId)
      /\ svc.book.ready_neighbours = Nb(books, svc.origin) /\ svc.book.end < nextId
      /\ svc.book.begin <= svc.book.end /\ nextId \in Nat
      /\ svc.book.begin < svc.book.end => Nb(books, svc.origin) # None
      /\ UNCHANGED <<pages, paused, nextId, lastServed>>
  <2>1. pc = "unknit" /\ UNCHANGED <<pages, paused, nextId, lastServed>>
    BY SMTT(30) DEF FinishQueue
  <2>2. LocalBookOK /\ StorageOK(books, pages, serviceHead, nextId) /\ svc.origin \in Origins
    BY SMTT(30), <2>1, Locals
  <2>3. books[svc.origin].begin < books[svc.origin].end => Nb(books, svc.origin) # None
    BY <2>2 DEF StorageOK
  <2> QED BY SMTT(30), <2>1, <2>2, <2>3, Locals, ConstantsAssumption, StorageAssumption DEF LocalBookOK
<1>1. StorageOK(books', pages', serviceHead', nextId')
  <2>1. CASE drained(svc.book) /\ Nb(books, svc.origin) # None
    <3>1. /\ books' = Unknitted(books, serviceHead, svc.origin, svc.book)
          /\ serviceHead' = ready_ring_unknit(books, serviceHead, svc.origin,
                                              Nb(books, svc.origin)).head
      BY Zenon, <1>0, <2>1 DEF FinishQueue, Unknitted
    <3>2. svc.book.begin = svc.book.end
      BY SMTT(30), <1>0, <2>1 DEF drained
    <3> QED BY SMTT(30), <1>0, <2>1, <3>1, <3>2, UnknitStorage
  <2>2. CASE drained(svc.book) /\ Nb(books, svc.origin) = None
    <3>1. PICK left : left = with_links(svc.book, None)
      BY SMTT(30)
    <3>2. books' = [books EXCEPT ![svc.origin] = left] /\ serviceHead' = serviceHead
      <4>1. ~(drained(svc.book) /\ svc.book.ready_neighbours # None)
        BY Zenon, <1>0, <2>2
      <4> PICK ring : ring = [books |-> books, head |-> serviceHead]
        BY Zenon
      <4>2. books' = [ring.books EXCEPT ![svc.origin] = left] /\ serviceHead' = ring.head
        BY Zenon, <2>2, <3>1, <4>1 DEF FinishQueue
      <4> QED BY <4>2
    <3>3. SameWindow(svc.book, left)
      BY Zenon, <1>0, <2>2, <3>1, WithLinks DEF SameWindow
    <3>4. StorageOK(books', pages, serviceHead, nextId)
      BY Zenon, <1>0, <3>2, <3>3, WriteBackStorage DEF SameWindow
    <3> QED BY <1>0, <3>2, <3>4
  <2>3. CASE ~drained(svc.book)
    <3>1. books' = [books EXCEPT ![svc.origin] = svc.book] /\ serviceHead' = serviceHead
      BY <1>0, <2>3 DEF FinishQueue
    <3>2. StorageOK(books', pages, serviceHead, nextId)
      BY Zenon, <1>0, <3>1, WriteBackStorage
    <3> QED BY <1>0, <3>1, <3>2
  <2> QED BY SMTT(30), <2>1, <2>2, <2>3
<1>2. next_of(svc.book) \in Origins \cup {None}
  BY <1>0, NextOf
<1>3. ContinueWith(svc.processed, next_of(svc.book), svc.meter)
  BY DEF FinishQueue
<1> QED BY SMTT(30), <1>0, <1>1, <1>2, <1>3, ContinueType, BetweenQueues

-----------------------------------------------------------------------------
(* The theorems                                                              *)

LEMMA InitInv == Init => IInv
<1> SUFFICES ASSUME Init PROVE IInv
  OBVIOUS
<1>1. books = [o \in Origins |-> default_book] /\ default_book \in BookState
      /\ default_book.ready_neighbours = None /\ default_book.begin = 0 /\ default_book.end = 0
  BY DEF Init, default_book, BookState
<1>2. ready_queues(books) = {}
  BY SMTT(30), <1>1 DEF ready_queues
<1>3. Ring(books, serviceHead)
  BY <1>1, <1>2 DEF Init, Ring, links_consistent, single_ring
<1>4. StorageOK(books, pages, serviceHead, nextId)
  BY <1>1, <1>3 DEF Init, StorageOK, Pages
<1>5. TypeOK
  BY <1>1, ConstantsAssumption, StorageAssumption DEF Init, TypeOK
<1> QED BY <1>4, <1>5 DEF Init, IInv

LEMMA NextInv == IInv /\ [Next]_vars => IInv'
<1> SUFFICES ASSUME IInv, [Next]_vars PROVE IInv'
  BY SMTT(30)
<1>1. CASE UNCHANGED vars
  BY <1>1 DEF IInv, TypeOK, LocalBookOK, vars
<1>2. ASSUME NEW o \in Origins, NEW b \in Batches(2), EnqueueMessages(o, b) PROVE IInv'
  BY <1>2, EnqueueStep
<1>3. ASSUME NEW o \in Origins, SweepQueue(o) PROVE IInv'
  BY <1>3, SweepStep
<1>4. ASSUME NEW o \in Origins, NEW i \in PageIndex, ReapPage(o, i) PROVE IInv'
  BY <1>4, ReapStep
<1>5. ASSUME NEW o \in Origins, NEW i \in PageIndex, NEW j \in 0 .. MaxMessages - 1,
             ExecuteOverweight(o, i, j)
      PROVE  IInv'
  BY <1>5, ExecuteOverweightStep
<1>6. ASSUME NEW o \in Prioritised, ForceSetHead(o) PROVE IInv'
  BY SMTT(30), <1>6, ForceSetHeadStep, ConstantsAssumption, StorageAssumption
<1>7. ASSUME NEW o \in Pausable, TogglePaused(o) PROVE IInv'
  BY <1>7, TogglePausedStep
<1>8. CASE OnInitialize
  BY <1>8, StartStep, ConstantsAssumption, StorageAssumption DEF OnInitialize
<1>9. ASSUME NEW w \in IdleWeights, OnIdle(w) PROVE IInv'
  <2>1. Min({IdleMaxServiceWeight, w}) \in Nat
    BY MinMaxType, ConstantsAssumption, StorageAssumption
  <2> QED BY <1>9, <2>1, StartStep DEF OnIdle
<1>10. CASE ServiceQueue
  BY <1>10, ServiceQueueStep
<1>11. CASE ServicePage
  BY <1>11, ServicePageStep
<1>12. CASE NoItem
  BY <1>12, NoItemStep
<1>13. CASE Processing
  <2>1. CASE RetryItemLater
    BY <2>1, RetryStep
  <2>2. CASE SkipOverweight \/ DropItem
    BY SMTT(30), <2>2, SkipOrDropStep
  <2>3. CASE ProcessItem(svc.origin, <<>>)
    <3>1. pc = "item"
      BY <2>3 DEF ProcessItem, HasItem
    <3> QED BY SMTT(30), <2>3, <3>1, Locals, ProcessStep
  <2>4. ASSUME NEW target \in Nested, NEW b \in Batches(1) \ {<<>>}, ProcessItem(target, b)
        PROVE  IInv'
    BY <2>4, ProcessStep, ConstantsAssumption, StorageAssumption
  <2> QED BY <1>13, <2>1, <2>2, <2>3, <2>4 DEF Processing
<1>14. CASE FinishQueue
  BY <1>14, FinishStep
<1> QED BY SMTT(30), <1>1, <1>2, <1>3, <1>4, <1>5, <1>6, <1>7, <1>8, <1>9, <1>10, <1>11, <1>12,
           <1>13, <1>14 DEF Next, Calls, ServiceStep

\* The inductive invariant holds of every execution of the pallet.
THEOREM Invariant == Spec => []IInv
  BY InitInv, NextInv, PTL DEF Spec

\* Type correctness: every storage item and every local of service_queues_impl has
\* the code's type, and the locals exist exactly while the service mutex is held.
THEOREM TypeCorrect == Spec => []TypeOK
<1>1. IInv => TypeOK
  BY DEF IInv
<1> QED BY Invariant, <1>1, PTL

\* However enqueueing, servicing, sweeping, prioritising, reaping and overweight
\* execution interleave, ready_ring_knit and ready_ring_unknit keep the links of the
\* ready queues inverse to each other and the head on a ready queue.
THEOREM LinksAreConsistent == Spec => []LinksConsistent
<1>1. IInv => LinksConsistent
  BY DEF IInv, StorageOK, Ring, LinksConsistent
<1> QED BY Invariant, <1>1, PTL

\* The ready queues are always one ring, for any number of origins: bumping the
\* service head again and again gets to each of them.
THEOREM RingIsSingle == Spec => []SingleRing
<1>1. IInv => SingleRing
  BY SMTT(30) DEF IInv, StorageOK, Ring, SingleRing
<1> QED BY Invariant, <1>1, PTL

\* A queue with ready pages is in the ring, so that its messages are not forgotten;
\* in particular no re-entrant enqueue of a message being processed takes it out.
THEOREM ReadyQueuesAreInRing == Spec => []ReadyIfWindow
<1>1. IInv => ReadyIfWindow
  BY Zenon DEF IInv, StorageOK, ReadyIfWindow, Ready, ready_queues, Nb
<1> QED BY Invariant, <1>1, PTL

=============================================================================
