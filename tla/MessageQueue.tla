----------------------------- MODULE MessageQueue -----------------------------
(***************************************************************************)
(* The message queue pallet: paged queues, one per message origin, linked  *)
(* into a ready ring and serviced round-robin under a weight limit.        *)
(*                                                                         *)
(* The runtime is single threaded, so each dispatchable is one action.     *)
(* Servicing is the exception: service_queues_impl is split at its loops   *)
(* (one step per queue, page and item) and keeps the local copies of the   *)
(* book and the page the code keeps, because a message being processed may *)
(* re-enter enqueue_messages and change the stored originals.  The service *)
(* mutex is pc # "idle": no other entry point runs until it is idle again. *)
(***************************************************************************)
EXTENDS QueueStorage

CONSTANTS
  ServiceWeight,         \* T::ServiceWeight, 0 for None
  IdleMaxServiceWeight,  \* T::IdleMaxServiceWeight, 0 for None
  IdleWeights,           \* the weights a block may have left when on_idle runs
  BumpWeight, QueueWeight, PageWeight, ItemWeight,  \* T::WeightInfo
  Yielding,              \* origins whose messages may answer Yield
  Nested,                \* origins a message being processed may enqueue to
  Pausable,              \* origins whose QueuePausedQuery may change
  Prioritised            \* origins some pallet calls force_set_head for

VARIABLES
  books,        \* BookStateFor
  pages,        \* Pages; None where the double map has no entry
  serviceHead,  \* ServiceHead
  paused,       \* the origins QueuePausedQuery::is_paused answers true for
  pc,           \* where service_queues_impl stands, "idle" if the mutex is free
  svc,          \* its local variables, None if idle
  told,         \* history: last footprint passed to T::QueueChangeHandler
  nextId,       \* history: the messages enqueued are 1 .. nextId - 1
  executed,     \* history: messages marked as processed
  reaped,       \* history: unprocessed messages removed with their page
  swept,        \* history: messages that were ready when sweep_queue ran
  lastServed    \* history: the last message servicing moved past, by origin

storage == <<books, pages, serviceHead>>
history == <<told, nextId, executed, reaped, swept, lastServed>>
vars == <<books, pages, serviceHead, paused, pc, svc, told, nextId, executed,
          reaped, swept, lastServed>>

-----------------------------------------------------------------------------
(* Enqueueing                                                                *)

Stored == [books |-> books, pages |-> pages, head |-> serviceHead]

Store(s) == books' = s.books /\ pages' = s.pages /\ serviceHead' = s.head

\* The batches of at most two messages that MaxMessages still allows.
Batches(max) ==
  LET msg(id, k) == [id |-> id, kind |-> k, is_processed |-> FALSE]
  IN  {<<>>}
      \cup {<<msg(nextId, k)>> : k \in {k \in Kinds : max >= 1 /\ nextId <= MaxMessages}}
      \cup {<<msg(nextId, kk[1]), msg(nextId + 1, kk[2])>> :
              kk \in {kk \in Kinds \X Kinds : max >= 2 /\ nextId < MaxMessages}}

\* enqueue_message and enqueue_messages, from outside the service mutex.
EnqueueMessages(origin, batch) ==
  LET s == do_enqueue_messages(Stored, origin, batch)
  IN  /\ pc = "idle"
      /\ Store(s)
      /\ told' = [told EXCEPT ![origin] = footprint(s.books[origin])]
      /\ nextId' = nextId + Len(batch)
      /\ UNCHANGED <<paused, pc, svc, executed, reaped, swept, lastServed>>

-----------------------------------------------------------------------------
(* Views of the queues: the book and page servicing holds in local variables *)
(* supersede the stored ones until they are written back.                    *)

Servicing(origin) == pc \in {"page", "item", "unknit"} /\ svc.origin = origin

BookOf(origin) == IF Servicing(origin) THEN svc.book ELSE books[origin]

PageOf(origin, i) ==
  IF Servicing(origin) /\ pc = "item" /\ i = svc.book.begin
    THEN svc.page ELSE pages[origin][i]

StoredIndices(origin) == {i \in PageIndex : PageOf(origin, i) # None}

Unprocessed(page) ==
  {page.items[j] : j \in {j \in 1 .. Len(page.items) : ~page.items[j].is_processed}}

Ids(items) == {m.id : m \in items}

\* The items of a page that servicing has not moved past.
Ahead(origin, i) ==
  LET page == PageOf(origin, i)
      from == IF i < BookOf(origin).begin THEN Len(page.items) ELSE page.first_index
  IN  {page.items[j] : j \in (from + 1) .. Len(page.items)}

-----------------------------------------------------------------------------
(* Calls                                                                     *)

\* sweep_queue.  On a queue that was never used it writes the default book back.
SweepQueue(origin) ==
  LET book == books[origin]
      ring == IF book.ready_neighbours = None
                THEN [books |-> books, head |-> serviceHead]
                ELSE ready_ring_unknit(books, serviceHead, origin, book.ready_neighbours)
  IN  /\ pc = "idle"
      /\ books' = [ring.books EXCEPT ![origin] =
                     with_links([book EXCEPT !.begin = book.end], None)]
      /\ serviceHead' = ring.head
      /\ swept' = swept \cup UNION {Ids(Ahead(origin, i)) : i \in StoredIndices(origin)}
      /\ UNCHANGED <<pages, paused, pc, svc, told, nextId, executed, reaped, lastServed>>

\* force_set_head, called by a pallet that prioritises one queue.
ForceSetHead(origin) ==
  /\ pc = "idle"
  /\ books[origin].ready_neighbours # None
  /\ serviceHead' = origin
  /\ UNCHANGED <<books, pages, paused, pc, svc, history>>

\* reap_page.
ReapPage(origin, index) ==
  LET book == books[origin]
      page == pages[origin][index]
      left == book_without(book, page)
  IN  /\ pc = "idle"
      /\ index < book.begin
      /\ page # None
      /\ is_complete(page) \/ cullable(book, index)
      /\ pages' = [pages EXCEPT ![origin][index] = None]
      /\ books' = [books EXCEPT ![origin] = left]
      /\ told' = [told EXCEPT ![origin] = footprint(left)]
      /\ reaped' = reaped \cup Ids(Unprocessed(page))
      /\ UNCHANGED <<serviceHead, paused, pc, svc, nextId, executed, swept, lastServed>>

\* Fault: ready messages may be executed too.
fault_execute_queued(book, page, index, item) == TRUE

\* The `Queued' check of execute_overweight: servicing has moved past the item.
behind_service(book, page, index, item) ==
  index < book.begin \/ (index = book.begin /\ item < page.first_index)

\* execute_overweight of a message that is processed or fails for good; every
\* other answer is an error that changes nothing.  The message enqueues `batch'
\* to `target' while it runs.  The book and the page are read before that and
\* written back after it.
ExecuteOverweightWith(origin, index, item, target, batch) ==
  LET book == books[origin]
      page == pages[origin][index]
      m == page.items[item + 1]
      ran == IF batch = <<>> THEN Stored ELSE do_enqueue_messages(Stored, target, batch)
      page2 == note_processed(page, item)
      book2 == [book EXCEPT !.message_count = SaturatingSub(@, 1),
                            !.size = SaturatingSub(@, m.kind.len),
                            !.count = IF is_complete(page2) THEN SaturatingSub(@, 1) ELSE @]
  IN  /\ pc = "idle"
      /\ origin \notin paused
      /\ page # None
      /\ item < Len(page.items)
      /\ behind_service(book, page, index, item)
      /\ ~m.is_processed
      /\ Store([books |-> [ran.books EXCEPT ![origin] = book2],
                pages |-> [ran.pages EXCEPT ![origin][index] =
                             IF is_complete(page2) THEN None ELSE page2],
                head |-> ran.head])
      /\ told' = [[o \in Origins |-> IF batch # <<>> /\ o = target
                                       THEN footprint(ran.books[o]) ELSE told[o]]
                     EXCEPT ![origin] = footprint(book2)]
      /\ nextId' = nextId + Len(batch)
      /\ executed' = executed \cup {m.id}
      /\ UNCHANGED <<paused, pc, svc, reaped, swept, lastServed>>

ExecuteOverweight(origin, index, item) ==
  ExecuteOverweightWith(origin, index, item, origin, <<>>)

\* QueuePausedQuery is answered by another pallet and may change between calls.
TogglePaused(origin) ==
  /\ pc = "idle"
  /\ paused' = (paused \ {origin}) \cup ({origin} \ paused)
  /\ UNCHANGED <<storage, pc, svc, history>>

-----------------------------------------------------------------------------
(* Servicing                                                                 *)

single_msg_overhead == BumpWeight + QueueWeight + PageWeight + ItemWeight

\* A message whose weight is above this is permanently overweight.
max_message_weight(limit) ==
  LET configured == Max({ServiceWeight, IdleMaxServiceWeight})
  IN  SaturatingSub(IF configured = 0 THEN limit ELSE configured, single_msg_overhead)

\* The locals of service_queues_impl, service_queue and service_page; meter is
\* what the WeightMeter has left, processed is total_processed > 0.
Service == [origin: Origins, last_no_progress: Origins \cup {None},
            meter: Nat, overweight_limit: Nat, book: BookState \cup {None},
            page: Page \cup {None}, processed: BOOLEAN]

ASSUME ConstantsAssumption ==
  /\ None \notin Service
  /\ ServiceWeight \in Nat /\ IdleMaxServiceWeight \in Nat
  /\ IdleWeights \subseteq Nat
  /\ BumpWeight \in Nat /\ QueueWeight \in Nat
  /\ PageWeight \in Nat /\ ItemWeight \in Nat
  /\ Yielding \subseteq Origins /\ Nested \subseteq Origins
  /\ Pausable \subseteq Origins /\ Prioritised \subseteq Origins

\* Fault: bump_service_head returns the head without moving it.
fault_bump_stays(head) == head

bump_service_head(head) == books[head].ready_neighbours.next

\* service_queues_impl: take the mutex, bump the head.
StartService(limit) ==
  /\ pc = "idle"
  /\ limit >= BumpWeight
  /\ serviceHead # None
  /\ books[serviceHead].ready_neighbours # None
  /\ serviceHead' = bump_service_head(serviceHead)
  /\ svc' = [origin |-> serviceHead, last_no_progress |-> None,
             meter |-> limit - BumpWeight,
             overweight_limit |-> max_message_weight(limit),
             book |-> None, page |-> None, processed |-> FALSE]
  /\ pc' = "queue"
  /\ UNCHANGED <<books, pages, paused, history>>

OnInitialize == ServiceWeight > 0 /\ StartService(ServiceWeight)

OnIdle(remaining) ==
  IdleMaxServiceWeight > 0 /\ StartService(Min({IdleMaxServiceWeight, remaining}))

\* The loop of service_queues_impl once service_queue returned.
ContinueWith(progressed, next, meter) ==
  IF next = None \/ (~progressed /\ svc.last_no_progress = next)
    THEN pc' = "idle" /\ svc' = None
    ELSE /\ pc' = "queue"
         /\ svc' = [svc EXCEPT
                      !.origin = next,
                      !.last_no_progress = IF progressed THEN None
                                           ELSE IF @ = None THEN svc.origin ELSE @,
                      !.meter = meter, !.book = None, !.page = None,
                      !.processed = FALSE]

\* service_queue up to its loop.
ServiceQueue ==
  LET book == books[svc.origin]
      meter == svc.meter - QueueWeight
  IN  /\ pc = "queue"
      /\ \/ meter < 0 /\ ContinueWith(FALSE, None, svc.meter)
         \/ /\ meter >= 0 /\ svc.origin \in paused
            /\ ContinueWith(FALSE, next_of(book), meter)
         \/ /\ meter >= 0 /\ svc.origin \notin paused
            /\ pc' = "page"
            /\ svc' = [svc EXCEPT !.book = book, !.meter = meter]
      /\ UNCHANGED <<storage, paused, history>>

\* Fault: a page that is not found is serviced nevertheless.
fault_no_page_check ==
  /\ pc = "page"
  /\ \/ /\ ~(svc.book.end > svc.book.begin /\ svc.meter >= PageWeight)
        /\ pc' = "unknit" /\ UNCHANGED svc
     \/ /\ svc.book.end > svc.book.begin /\ svc.meter >= PageWeight
        /\ svc' = [svc EXCEPT !.meter = @ - PageWeight,
                              !.page = pages[svc.origin][svc.book.begin]]
        /\ pc' = "item"
  /\ UNCHANGED <<storage, paused, history>>

\* The loop condition of service_queue, and service_page up to its loop.
ServicePage ==
  LET book == svc.book
      page == pages[svc.origin][book.begin]
      meter == svc.meter - PageWeight
      ready == book.end > book.begin /\ meter >= 0
  IN  /\ pc = "page"
      /\ \/ ~ready /\ pc' = "unknit" /\ UNCHANGED svc
         \/ /\ ready /\ page = None
            /\ svc' = [svc EXCEPT !.meter = meter, !.book = [book EXCEPT !.begin = @ + 1]]
            /\ UNCHANGED pc
         \/ /\ ready /\ page # None
            /\ svc' = [svc EXCEPT !.meter = meter, !.page = page]
            /\ pc' = "item"
      /\ UNCHANGED <<storage, paused, history>>

\* Fault: service_queue goes to the next page even if it bailed on this one.
fault_begin_moves(begin, no_more) == begin + 1

\* `book_state.begin.saturating_inc()', reached only on NoMore.
begin_after(begin, no_more) == IF no_more THEN begin + 1 ELSE begin

\* The end of service_page: a page without messages is removed, and service_queue
\* goes on with the next page iff this one has no more items.
LeavePage(no_more, meter) ==
  LET done == is_complete(svc.page)
      i == svc.book.begin
  IN  /\ pages' = [pages EXCEPT ![svc.origin][i] = IF done THEN None ELSE svc.page]
      /\ svc' = [svc EXCEPT
                   !.meter = meter,
                   !.book = [svc.book EXCEPT
                               !.count = IF done THEN SaturatingSub(@, 1) ELSE @,
                               !.begin = begin_after(@, no_more)],
                   !.page = None]
      /\ pc' = IF no_more THEN "page" ELSE "unknit"

\* service_page_item finds no item.
NoItem ==
  LET empty == is_complete(svc.page)
      meter == svc.meter - ItemWeight
  IN  /\ pc = "item"
      /\ \/ empty /\ LeavePage(TRUE, svc.meter)
         \/ ~empty /\ meter < 0 /\ LeavePage(FALSE, svc.meter)
         \/ ~empty /\ meter >= 0 /\ ~has_first(svc.page) /\ LeavePage(TRUE, meter)
      /\ UNCHANGED <<books, serviceHead, paused, history>>

\* service_page_item has an item and the weight to look at it.
HasItem ==
  /\ pc = "item"
  /\ ~is_complete(svc.page)
  /\ svc.meter >= ItemWeight
  /\ has_first(svc.page)

\* What process_message may use of the weight.
MessageMeter == svc.meter - ItemWeight

\* The storage the processor runs on: local book and page are written first.
StoredForProcessing ==
  [books |-> [books EXCEPT ![svc.origin] = svc.book],
   pages |-> [pages EXCEPT ![svc.origin][svc.book.begin] = svc.page],
   head |-> serviceHead]

\* The item is left for later: it yields, or needs more weight than is left now.
\* What the processor changed was rolled back.
RetryItemLater ==
  LET weight == peek_first(svc.page).kind.weight
  IN  /\ HasItem
      /\ \/ weight > MessageMeter /\ weight <= svc.overweight_limit
         \/ weight <= MessageMeter /\ svc.origin \in Yielding
      /\ books' = StoredForProcessing.books
      /\ LeavePage(FALSE, MessageMeter)
      /\ UNCHANGED <<serviceHead, paused, history>>

\* Fault: the local page is not read again after processing.
fault_stale_page(s) == svc.page

\* `*page = new_page': the page as processing left it.
page_after(s) == s.pages[svc.origin][svc.book.begin]

\* Moves past the item: the book and the page are read again from the storage s
\* that processing left.
MoveOn(s, is_processed, meter) ==
  LET m == peek_first(svc.page)
      book == s.books[svc.origin]
      page == page_after(s)
  IN  /\ Store(s)
      /\ svc' = [svc EXCEPT
                   !.book = IF is_processed
                              THEN [book EXCEPT !.message_count = SaturatingSub(@, 1),
                                                !.size = SaturatingSub(@, m.kind.len)]
                              ELSE book,
                   !.page = skip_first(page, is_processed),
                   !.meter = meter,
                   !.processed = @ \/ is_processed]
      /\ executed' = IF is_processed THEN executed \cup {m.id} ELSE executed
      /\ lastServed' = [lastServed EXCEPT ![svc.origin] = m.id]
      /\ UNCHANGED <<paused, pc, reaped, swept>>

\* A permanently overweight message is skipped.
SkipOverweight ==
  LET weight == peek_first(svc.page).kind.weight
  IN  /\ HasItem
      /\ weight > MessageMeter /\ weight > svc.overweight_limit
      /\ MoveOn(StoredForProcessing, FALSE, MessageMeter)
      /\ UNCHANGED <<told, nextId>>

\* BadFormat, Corrupt, Unsupported and StackLimitReached: rolled back and dropped.
DropItem ==
  /\ HasItem
  /\ peek_first(svc.page).kind.weight <= MessageMeter
  /\ MoveOn(StoredForProcessing, TRUE, MessageMeter)
  /\ UNCHANGED <<told, nextId>>

\* The message is processed, and enqueues `batch' to `target' while it runs.
ProcessItem(target, batch) ==
  LET weight == peek_first(svc.page).kind.weight
      ran == IF batch = <<>> THEN StoredForProcessing
             ELSE do_enqueue_messages(StoredForProcessing, target, batch)
  IN  /\ HasItem
      /\ weight <= MessageMeter
      /\ MoveOn(ran, TRUE, MessageMeter - weight)
      /\ told' = IF batch = <<>> THEN told
                 ELSE [told EXCEPT ![target] = footprint(ran.books[target])]
      /\ nextId' = nextId + Len(batch)

\* Fault: a queue leaves the ring with one page still ready.
fault_drained_early(book) == book.begin + 1 >= book.end

drained(book) == book.begin >= book.end

\* Fault: servicing never tells the handler.
fault_no_notification(book) == told

\* on_queue_changed at the end of service_queue.
told_after_service(book) ==
  IF svc.processed THEN [told EXCEPT ![svc.origin] = footprint(book)] ELSE told

\* The end of service_queue: a queue without ready pages leaves the ring.
FinishQueue ==
  LET book == svc.book
      ring == IF drained(book) /\ book.ready_neighbours # None
                THEN ready_ring_unknit(books, serviceHead, svc.origin,
                                       book.ready_neighbours)
                ELSE [books |-> books, head |-> serviceHead]
      left == IF drained(book) THEN with_links(book, None) ELSE book
  IN  /\ pc = "unknit"
      /\ books' = [ring.books EXCEPT ![svc.origin] = left]
      /\ serviceHead' = ring.head
      /\ told' = told_after_service(left)
      /\ ContinueWith(svc.processed, next_of(book), svc.meter)
      /\ UNCHANGED <<pages, paused, nextId, executed, reaped, swept, lastServed>>

-----------------------------------------------------------------------------

Init ==
  /\ books = [o \in Origins |-> default_book]
  /\ pages = [o \in Origins |-> [i \in PageIndex |-> None]]
  /\ serviceHead = None
  /\ paused = {}
  /\ pc = "idle" /\ svc = None
  /\ told = [o \in Origins |-> footprint(default_book)]
  /\ nextId = 1
  /\ executed = {} /\ reaped = {} /\ swept = {}
  /\ lastServed = [o \in Origins |-> 0]

Processing ==
  \/ RetryItemLater \/ SkipOverweight \/ DropItem
  \/ ProcessItem(svc.origin, <<>>)
  \/ \E target \in Nested : \E batch \in Batches(1) \ {<<>>} : ProcessItem(target, batch)

ServiceStep == ServiceQueue \/ ServicePage \/ NoItem \/ Processing \/ FinishQueue

Calls ==
  \/ \E o \in Origins : \/ \E batch \in Batches(2) : EnqueueMessages(o, batch)
                        \/ SweepQueue(o)
                        \/ \E i \in PageIndex : ReapPage(o, i)
                        \/ \E i \in PageIndex, j \in 0 .. MaxMessages - 1 :
                             ExecuteOverweight(o, i, j)
  \/ \E o \in Prioritised : ForceSetHead(o)
  \/ \E o \in Pausable : TogglePaused(o)

Next == Calls \/ ServiceStep \/ OnInitialize \/ \E w \in IdleWeights : OnIdle(w)

Spec == Init /\ [][Next]_vars

\* Every block runs on_initialize, and nothing interrupts servicing once it runs.
\* on_idle, transactions and processors promise nothing.
FairSpec == Spec /\ WF_vars(ServiceStep) /\ SF_vars(OnInitialize)

\* The documented re-entrance of a processor into enqueue_messages, here from
\* execute_overweight.
ReentrantOverweight ==
  \E o \in Origins, i \in PageIndex, j \in 0 .. MaxMessages - 1, target \in Nested :
    \E batch \in Batches(1) \ {<<>>} : ExecuteOverweightWith(o, i, j, target, batch)

SpecReentrant == Init /\ [][Next \/ ReentrantOverweight]_vars

-----------------------------------------------------------------------------
(* Properties                                                                *)

\* Every variable holds a value of the code's type, and the locals of servicing
\* exist exactly while it runs.
TypeOK ==
  /\ books \in [Origins -> BookState]
  /\ pages \in [Origins -> [PageIndex -> Page \cup {None}]]
  /\ serviceHead \in Origins \cup {None}
  /\ paused \subseteq Pausable
  /\ pc \in {"idle", "queue", "page", "item", "unknit"}
  /\ svc \in Service \cup {None}
  /\ (svc = None) <=> (pc = "idle")
  /\ (pc \in {"page", "item", "unknit"}) => (svc.book # None)
  /\ (pc = "item") => (svc.page # None)
  /\ nextId \in 1 .. MaxMessages + 1
  /\ lastServed \in [Origins -> Nat]

Ready == ready_queues(books)

\* ready_ring_knit and ready_ring_unknit keep the doubly linked list intact: the
\* two links of every ready queue are inverse to each other and the service head
\* is a ready queue iff there is one.
LinksConsistent == links_consistent(books, serviceHead)

\* The ready queues form ONE ring: following `next' from any of them reaches all
\* of them, so bump_service_head gets to every ready queue.  Stated as: no proper
\* part of the ring is closed under `next'.
SingleRing == single_ring(books)

\* A queue with a page in its begin..end window is in the ready ring ("Must be in
\* ready ring if ready", the debug assertion of do_enqueue_messages).
ReadyIfWindow ==
  \A o \in Origins : /\ books[o].begin <= books[o].end
                     /\ books[o].begin < books[o].end => o \in Ready

\* The counters of a book agree with the pages stored for it, and those of a page
\* with the flags in its heap, whatever sequence of enqueue, service, overweight
\* execution, reaping and sweeping led here (no saturating_dec ever saturates).
Accounting ==
  \A o \in Origins :
    LET stored == StoredIndices(o)
        book == BookOf(o)
    IN  /\ book.count = Cardinality(stored)
        /\ book.message_count = MapThenSumSet(LAMBDA i : PageOf(o, i).remaining, stored)
        /\ book.size = MapThenSumSet(LAMBDA i : PageOf(o, i).remaining_size, stored)
        /\ \A i \in stored :
             LET left == Unprocessed(PageOf(o, i))
             IN  /\ PageOf(o, i).remaining = Cardinality(left)
                 /\ PageOf(o, i).remaining_size = MapThenSumSet(LAMBDA m : m.kind.len, left)

\* No message is lost or duplicated: every message ever enqueued is unprocessed in
\* exactly one page, or was marked as processed, or was reaped; never two of these.
Conservation ==
  LET places == {p \in Origins \X PageIndex : PageOf(p[1], p[2]) # None}
      waiting(p) == Ids(Unprocessed(PageOf(p[1], p[2])))
      all == UNION {waiting(p) : p \in places}
  IN  /\ all \cup executed \cup reaped = 1 .. nextId - 1
      /\ \A p, q \in places : p # q => waiting(p) \cap waiting(q) = {}
      /\ all \cap executed = {} /\ all \cap reaped = {} /\ executed \cap reaped = {}

\* Servicing goes through each queue in the order of enqueueing (ids are given in
\* that order) and moves past a message without processing it only if it can never
\* fit into the service weight, or the queue was swept.
ServedInOrder ==
  \A o \in Origins : \A i \in StoredIndices(o) :
    LET ahead == Ahead(o, i)
        limit == max_message_weight(0)
    IN  /\ \A m \in ahead : m.id > lastServed[o] /\ ~m.is_processed
        /\ \A m \in Unprocessed(PageOf(o, i)) \ ahead :
             m.kind.weight > limit \/ m.id \in swept

\* A ready page is never missing, except the first one of the window.  That one
\* can be removed by execute_overweight once servicing has moved past all its
\* items, which do_try_state does not expect; servicing then skips the hole.
WindowPagesExist ==
  \A o \in Origins :
    \A i \in BookOf(o).begin + 1 .. BookOf(o).end - 1 : PageOf(o, i) # None

\* T::QueueChangeHandler knows the exact number, size and pages of the stored
\* messages of every queue, and never believes that fewer pages are ready than are:
\* the handlers' backpressure errs on one side only.
HandlerInformed ==
  pc = "idle" =>
    \A o \in Origins :
      LET fp == footprint(books[o])
      IN  /\ [told[o] EXCEPT !.ready_pages = 0] = [fp EXCEPT !.ready_pages = 0]
          /\ told[o].ready_pages >= fp.ready_pages

\* Every message ready in a queue is eventually processed, or skipped as permanently
\* overweight, or swept ("Q[o] is now ready which will eventually result in m being
\* processed"), if its queue cannot be paused and its processor does not yield:
\* neither a paused queue nor one that yields forever starves the others.
Waiting(id) ==
  \E o \in Origins \ (Pausable \cup Yielding) :
    \E i \in StoredIndices(o) : id \in Ids(Ahead(o, i))

EventuallyServed == \A id \in 1 .. MaxMessages : Waiting(id) ~> ~Waiting(id)
=============================================================================
