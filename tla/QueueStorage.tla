---------------------------- MODULE QueueStorage ----------------------------
(***************************************************************************)
(* The storage of the message queue pallet as data: pages of messages,     *)
(* the books over them, and what enqueueing and reaping compute from them. *)
(***************************************************************************)
EXTENDS ReadyRing, Sequences, FiniteSets, FiniteSetsExt

CONSTANTS
  Kinds,       \* what a message costs: records [len, weight]
  HeapSize,    \* T::HeapSize, bytes in a page's heap
  HeaderLen,   \* ItemHeader::max_encoded_len()
  MaxStale,    \* T::MaxStale
  MaxMessages  \* bound: messages ever enqueued

PageIndex == 0 .. MaxMessages

-----------------------------------------------------------------------------
(* Pages                                                                     *)

\* A message in a heap: its identity, what it costs, and ItemHeader.is_processed.
Item == [id: Nat, kind: Kinds, is_processed: BOOLEAN]

\* `first' and `last' are heap offsets of items; with whole items in the heap
\* first is determined by first_index, and first > last means it is past the end.
Page == [remaining: Nat, remaining_size: Nat, first_index: Nat, heap_pos: Nat,
         items: Seq(Item)]

ItemLen(m) == HeaderLen + m.kind.len

from_message(m) ==
  [remaining |-> 1, remaining_size |-> m.kind.len, first_index |-> 0,
   heap_pos |-> ItemLen(m), items |-> <<m>>]

can_append(page, m) == page.heap_pos + ItemLen(m) <= HeapSize

append_message(page, m) ==
  [page EXCEPT !.items = Append(@, m),
               !.heap_pos = @ + ItemLen(m),
               !.remaining = @ + 1,
               !.remaining_size = @ + m.kind.len]

has_first(page) == page.first_index < Len(page.items)

peek_first(page) == page.items[page.first_index + 1]

\* Marks the item at a 0-based index; a second marking changes nothing.
note_processed(page, index) ==
  LET m == page.items[index + 1]
  IN  IF m.is_processed
        THEN page
        ELSE [page EXCEPT !.items[index + 1].is_processed = TRUE,
                          !.remaining = SaturatingSub(@, 1),
                          !.remaining_size = SaturatingSub(@, m.kind.len)]

skip_first(page, is_processed) ==
  LET marked == IF is_processed THEN note_processed(page, page.first_index)
                                ELSE page
  IN  [marked EXCEPT !.first_index = @ + 1]

is_complete(page) == page.remaining = 0

ASSUME StorageAssumption ==
  /\ None \notin Page
  /\ MaxMessages \in Nat /\ MaxStale \in Nat
  /\ HeapSize \in Nat /\ HeaderLen \in Nat \ {0}
  /\ Kinds \subseteq [len: Nat, weight: Nat]
  /\ \A k \in Kinds : HeaderLen + k.len <= HeapSize  \* MaxMessageLen

-----------------------------------------------------------------------------
(* Enqueueing                                                                *)

\* `if let Some(page) = maybe_page { Pages::insert(.., book.end - 1, page) }', where
\* acc.page is `maybe_page' and acc.pages the stored pages of the queue.
page_saved(acc) ==
  IF acc.page = None THEN acc.pages
  ELSE [acc.pages EXCEPT ![acc.book.end - 1] = acc.page]

\* One iteration of the loop of do_enqueue_messages.
add_message(acc, m) ==
  LET counted == [acc.book EXCEPT !.message_count = @ + 1, !.size = @ + m.kind.len]
  IN  IF acc.page # None /\ can_append(acc.page, m)
        THEN [book |-> counted, pages |-> acc.pages, page |-> append_message(acc.page, m)]
        ELSE [book |-> [counted EXCEPT !.end = @ + 1, !.count = @ + 1],
              pages |-> page_saved(acc), page |-> from_message(m)]

\* The loop itself, for the batches of at most two messages the model enqueues.
add_messages(acc, batch) ==
  CASE Len(batch) = 0 -> acc
    [] Len(batch) = 1 -> add_message(acc, batch[1])
    [] OTHER -> add_message(add_message(acc, batch[1]), batch[2])

\* do_enqueue_messages on the storage s.  An empty batch still knits the queue.
do_enqueue_messages(s, origin, batch) ==
  LET book == s.books[origin]
      start == [book |-> book, pages |-> s.pages[origin],
                page |-> IF book.end > book.begin
                           THEN s.pages[origin][book.end - 1] ELSE None]
      done == add_messages(start, batch)
      ring == IF done.book.ready_neighbours = None
                THEN ready_ring_knit(s.books, s.head, origin)
                ELSE [books |-> s.books, head |-> s.head,
                      neighbours |-> done.book.ready_neighbours]
  IN  [books |-> [ring.books EXCEPT ![origin] = with_links(done.book, ring.neighbours)],
       pages |-> [s.pages EXCEPT ![origin] = page_saved(done)],
       head |-> ring.head]

-----------------------------------------------------------------------------
(* Reaping                                                                   *)

\* The `cullable' closure of do_reap_page_inner.
cullable(book, index) ==
  LET ready_pages == Min({SaturatingSub(book.end, book.begin), book.count})
      stale_pages == book.count - ready_pages
      overflow == stale_pages - MaxStale
      backlog == Max({(MaxStale * MaxStale) \div overflow, MaxStale})
  IN  /\ stale_pages >= MaxStale + 1
      /\ index < SaturatingSub(book.begin, backlog)

\* Fault: the messages of a reaped page stay in the book's count.
fault_reap_keeps_messages(book, page) == [book EXCEPT !.count = SaturatingSub(@, 1)]

book_without(book, page) ==
  [book EXCEPT !.count = SaturatingSub(@, 1),
               !.message_count = SaturatingSub(@, page.remaining),
               !.size = SaturatingSub(@, page.remaining_size)]

=============================================================================
