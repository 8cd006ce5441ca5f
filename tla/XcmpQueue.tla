------------------------------ MODULE XcmpQueue ------------------------------
(***************************************************************************)
(* The storage of one xcmp-queue pallet and the operations on it: pages    *)
(* waiting to be sent to each sibling, flow control signals, and what is   *)
(* taken from them for the HRMP messages of a block.                       *)
(*                                                                         *)
(* OutboundXcmpStatus is a vector with at most one entry per recipient     *)
(* (every function looks the recipient up before it pushes).  It is kept   *)
(* as `out', the entry by recipient, and `order', the recipients in the    *)
(* order of the vector.  A storage s is a record                           *)
(*   [out, order, messages, signals, suspended].                           *)
(* DeliveryFeeFactor is left out: nothing here reads it.                   *)
(***************************************************************************)
EXTENDS Integers, Sequences, FiniteSets

CONSTANTS
  Paras,                      \* the sibling parachains
  None,                       \* no entry, page, signal or channel
  MaxActiveOutboundChannels,  \* T::MaxActiveOutboundChannels
  MaxInboundSuspended,        \* T::MaxInboundSuspended
  IndexMod,                   \* page indices are modulo this, 2^16 in the code
  MaxMessageSize,             \* max_message_size of the channels, at most MaxPageSize
  FragmentLens                \* encoded sizes of the XCMs sent

ASSUME XcmpAssumption ==
  /\ IndexMod \in Nat \ {0} /\ MaxMessageSize \in Nat /\ FragmentLens \subseteq Nat \ {0}
  /\ MaxActiveOutboundChannels \in Nat /\ MaxInboundSuspended \in Nat
  /\ IsFiniteSet(Paras)

-----------------------------------------------------------------------------
(* Types                                                                     *)

Index == 0 .. IndexMod - 1

\* ChannelSignal.
Signals == {"Suspend", "Resume"}

\* XcmpMessageFormat: ConcatenatedVersionedXcm, ConcatenatedOpaqueVersionedXcm, Signals.
Formats == {"Simple", "Opaque", "Signals"}

\* A page: its format, the fragments or signals after it, and its length in bytes.
format_size == 1
empty_page(format) == [format |-> format, items |-> <<>>, size |-> format_size]
signal_page(signal) == [format |-> "Signals", items |-> <<signal>>, size |-> format_size + 1]

\* OutboundChannelFlags.
Flags == {"support", "notification_sent"}

OutboundChannelDetails ==
  [state: {"Ok", "Suspended"}, signals_exist: BOOLEAN, first_index: Index,
   last_index: Index, flags: SUBSET Flags, queued_bytes: Nat]

\* OutboundChannelDetails::new.
new_details ==
  [state |-> "Ok", signals_exist |-> FALSE, first_index |-> 0, last_index |-> 0,
   flags |-> {}, queued_bytes |-> 0]

should_notify(flags) == flags \cap Flags = {}

SaturatingSub(m, n) == IF m > n THEN m - n ELSE 0

-----------------------------------------------------------------------------
(* Entries of OutboundXcmpStatus                                             *)

\* Whether the entry of q exists or can be pushed.
has_room(s, q) == s.out[q] # None \/ Len(s.order) < MaxActiveOutboundChannels

\* Finds the entry of q or pushes a new one (if there is room), and changes it to Change(it).
with_entry(s, q, Change(_)) ==
  IF s.out[q] # None THEN [s EXCEPT !.out[q] = Change(@)]
  ELSE IF has_room(s, q)
    THEN [s EXCEPT !.out[q] = Change(new_details), !.order = Append(@, q)]
    ELSE s

\* Fault: an entry is pushed without looking for the one there is.
fault_notice_support(s, q) ==
  [s EXCEPT !.out[q] = [new_details EXCEPT !.flags = {"support"}], !.order = Append(@, q)]

\* The support flag, noticed when a page of the opaque format arrives from q.
notice_support(s, q) ==
  with_entry(s, q, LAMBDA e : [e EXCEPT !.flags = @ \cup {"support"}])

-----------------------------------------------------------------------------
(* Sending                                                                   *)

\* deliver: the format depends on what the recipient is known to support.
delivery_format(s, q) ==
  IF s.out[q] # None /\ "support" \in s.out[q].flags THEN "Opaque" ELSE "Simple"

\* An opaque fragment is encoded twice, which adds a length prefix.
encoded_len(format, fragment) == fragment.len + IF format = "Opaque" THEN 1 ELSE 0

\* The errors of send_fragment, each of which leaves the storage as it was.
can_send_fragment(s, q, format, fragment) ==
  /\ encoded_len(format, fragment) + format_size <= MaxMessageSize
  /\ has_room(s, q)

\* Whether the fragment goes onto the last page.
fits_last_page(s, q, e, format, len) ==
  /\ e.last_index > e.first_index
  /\ LET page == s.messages[q][e.last_index - 1]
     IN  page.format = format /\ page.size + len <= MaxMessageSize

\* send_fragment.
send_fragment(s, q, format, fragment) ==
  LET e == IF s.out[q] = None THEN new_details ELSE s.out[q]
      len == encoded_len(format, fragment)
      append == fits_last_page(s, q, e, format, len)
      last == IF append THEN e.last_index ELSE (e.last_index + 1) % IndexMod
      at == (last - 1) % IndexMod
      page == IF append THEN s.messages[q][at] ELSE empty_page(format)
      added == len + IF append THEN 0 ELSE format_size
      t == with_entry(s, q, LAMBDA d :
             [d EXCEPT !.last_index = last, !.queued_bytes = @ + added,
                       !.flags = IF format = "Opaque" THEN @ \cup {"notification_sent"} ELSE @])
  IN  [t EXCEPT !.messages[q][at] =
         [page EXCEPT !.items = Append(@, fragment), !.size = @ + len]]

\* send_signal, which fails if there is no room for a new entry.
send_signal(s, q, signal) ==
  IF has_room(s, q)
    THEN [with_entry(s, q, LAMBDA e : [e EXCEPT !.signals_exist = TRUE])
            EXCEPT !.signals[q] = signal]
    ELSE s

-----------------------------------------------------------------------------
(* Flow control                                                              *)

\* Fault: the sibling is told to go on but still counts as suspended.
fault_still_suspended(s, q, ready_pages, config) ==
  IF q \in s.suspended /\ ready_pages <= config.resume_threshold THEN send_signal(s, q, "Resume")
  ELSE IF q \notin s.suspended /\ ready_pages >= config.suspend_threshold
    THEN [send_signal(s, q, "Suspend") EXCEPT !.suspended = @ \cup {q}]
  ELSE s

\* Fault: the sibling is resumed only when the threshold is hit exactly.
fault_resume_exactly(s, q, ready_pages, config) ==
  IF q \in s.suspended /\ ready_pages = config.resume_threshold
    THEN [send_signal(s, q, "Resume") EXCEPT !.suspended = @ \ {q}]
  ELSE IF q \notin s.suspended /\ ready_pages >= config.suspend_threshold
    THEN [send_signal(s, q, "Suspend") EXCEPT !.suspended = @ \cup {q}]
  ELSE s

\* on_queue_changed: the message queue tells how many pages of q are ready.
on_queue_changed(s, q, ready_pages, config) ==
  IF q \in s.suspended /\ ready_pages <= config.resume_threshold
    THEN IF has_room(s, q)
           THEN [send_signal(s, q, "Resume") EXCEPT !.suspended = @ \ {q}] ELSE s
  ELSE IF q \notin s.suspended /\ ready_pages >= config.suspend_threshold
    THEN IF has_room(s, q) /\ Cardinality(s.suspended) < MaxInboundSuspended
           THEN [send_signal(s, q, "Suspend") EXCEPT !.suspended = @ \cup {q}]
           ELSE send_signal(s, q, "Suspend")
  ELSE s

\* suspend_channel, when the signal arrives from q.
suspend_channel(s, q) == with_entry(s, q, LAMBDA e : [e EXCEPT !.state = "Suspended"])

\* Fault: the state of a queue that is not empty is not reset.
fault_resume_channel(s, q) ==
  IF s.out[q] # None /\ s.out[q].first_index = s.out[q].last_index
    THEN [s EXCEPT !.out[q] = None, !.order = SelectSeq(@, LAMBDA r : r # q)] ELSE s

\* resume_channel, when the signal arrives from q.
resume_channel(s, q) ==
  IF s.out[q] = None THEN s
  ELSE IF s.out[q].first_index = s.out[q].last_index
    THEN [s EXCEPT !.out[q] = None, !.order = SelectSeq(@, LAMBDA r : r # q)]
    ELSE [s EXCEPT !.out[q].state = "Ok"]

-----------------------------------------------------------------------------
(* take_outbound_messages.  `view[q]' is what the relay chain says about the *)
(* channel to q: None if it is closed, otherwise                             *)
(*   [full, max_size_now, max_size_ever].                                    *)

\* Fault: flow control does not stop the pages.
fault_fetch_suspended(s, q, max_size_now) ==
  LET e == s.out[q]
  IN  IF e.signals_exist THEN signal_page(s.signals[q])
      ELSE IF e.last_index > e.first_index THEN s.messages[q][e.first_index]
      ELSE IF should_notify(e.flags) THEN empty_page("Opaque") ELSE None

\* The page chosen for q, None if the entry is left as it is.
page_fetch(s, q, max_size_now) ==
  LET e == s.out[q]
      signals == signal_page(s.signals[q])
      first == s.messages[q][e.first_index]
  IN  IF e.signals_exist THEN IF signals.size < max_size_now THEN signals ELSE None
      ELSE IF e.state = "Suspended" THEN None
      ELSE IF e.last_index > e.first_index /\ first.size < max_size_now THEN first
      ELSE IF should_notify(e.flags) THEN empty_page("Opaque")
      ELSE None

\* An entry whose queue has become empty starts at index zero again.
reset_if_empty(e) ==
  IF e.first_index = e.last_index
    THEN [e EXCEPT !.first_index = 0, !.last_index = 0, !.queued_bytes = 0] ELSE e

\* The entry after `page' was taken.
entry_after(e, page) ==
  reset_if_empty(
    CASE page.format = "Signals" -> [e EXCEPT !.signals_exist = FALSE]
      [] page.items = <<>> -> [e EXCEPT !.flags = @ \cup {"notification_sent"}]
      [] OTHER -> [e EXCEPT !.first_index = (@ + 1) % IndexMod,
                            !.queued_bytes = SaturatingSub(@, page.size)])

\* The recipients for which a page is found, were it not for the limit.
eligible(s, view, excluded) ==
  {q \in Paras : /\ s.out[q] # None /\ view[q] # None
                 /\ ~view[q].full /\ q \notin excluded
                 /\ page_fetch(s, q, view[q].max_size_now) # None}

\* Those whose page is also sent; an oversize page is dropped.
sendable(s, view, excluded) ==
  {q \in eligible(s, view, excluded) :
     page_fetch(s, q, view[q].max_size_now).size <= view[q].max_size_ever}

before(order, q) == {order[i] : i \in {i \in 1 .. Len(order) :
                                         \E j \in i + 1 .. Len(order) : order[j] = q}}

\* The recipients whose page is taken: those found before `max' messages are sent.
taken(s, view, max, excluded) ==
  {q \in eligible(s, view, excluded) :
     Cardinality(before(s.order, q) \cap sendable(s, view, excluded)) < max}

\* Fault: the order stays as it is.
fault_no_rotation(order, n) == order

rotate_left(order, n) == SubSeq(order, n + 1, Len(order)) \o SubSeq(order, 1, n)

\* The entries, pages and signals of q after its page was taken ...
page_removed(s, q, page) ==
  LET t == [s EXCEPT !.out[q] = entry_after(@, page)]
  IN  CASE page.format = "Signals" -> [t EXCEPT !.signals[q] = None]
        [] page.items = <<>> -> t
        [] OTHER -> [t EXCEPT !.messages[q][s.out[q].first_index] = None]

\* Fault: the last page of a closed channel is left in storage.
fault_entry_discarded(s, q) ==
  LET e == s.out[q]
  IN  [s EXCEPT !.out[q] = None,
         !.messages[q] = [i \in Index |->
             IF e.first_index <= i /\ i + 1 < e.last_index THEN None ELSE @[i]]]

\* ... and after its channel was found closed.
entry_discarded(s, q) ==
  LET e == s.out[q]
  IN  [s EXCEPT !.out[q] = None,
         !.messages[q] = [i \in Index |->
             IF e.first_index <= i /\ i < e.last_index THEN None ELSE @[i]],
         !.signals[q] = IF e.signals_exist THEN None ELSE @]

\* What becomes of the part of s that belongs to q.
after_take(s, q, view, chosen) ==
  CASE s.out[q] # None /\ view[q] = None -> entry_discarded(s, q)
    [] q \in chosen -> page_removed(s, q, page_fetch(s, q, view[q].max_size_now))
    [] OTHER -> s

\* take_outbound_messages: the storage it leaves.
storage_after_take(s, view, max, excluded) ==
  LET chosen == taken(s, view, max, excluded)
      pruned == {q \in Paras : s.out[q] # None /\ view[q] = None}
      kept == SelectSeq(s.order, LAMBDA q : q \notin pruned)
      sent == Cardinality(chosen \cap sendable(s, view, excluded))
  IN  [out |-> [q \in Paras |-> after_take(s, q, view, chosen).out[q]],
       messages |-> [q \in Paras |-> after_take(s, q, view, chosen).messages[q]],
       signals |-> [q \in Paras |-> after_take(s, q, view, chosen).signals[q]],
       order |-> rotate_left(kept, SaturatingSub(sent, Cardinality(pruned))),
       suspended |-> s.suspended]

\* take_outbound_messages: the pages it returns, by recipient.
outbound_messages(s, view, max, excluded) ==
  [q \in taken(s, view, max, excluded) \cap sendable(s, view, excluded) |->
     page_fetch(s, q, view[q].max_size_now)]

=============================================================================
