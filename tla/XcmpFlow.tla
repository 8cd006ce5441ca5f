------------------------------- MODULE XcmpFlow -------------------------------
(***************************************************************************)
(* Sibling parachains that exchange XCMs through their xcmp-queue pallets, *)
(* over HRMP channels the relay chain keeps.                               *)
(*                                                                         *)
(* A block of a chain reads the channels at its relay parent, when the     *)
(* inherent starts, and takes effect on them when it is finished, so the   *)
(* blocks of two chains overlap.  Within a block the message queue is      *)
(* serviced and XCMs are delivered before and after the inherent.  The     *)
(* message queue is external: it is the sequence of messages of a sibling  *)
(* not serviced yet, each filling a page of its own.  Weight is abstracted *)
(* to whether it suffices.                                                 *)
(***************************************************************************)
EXTENDS XcmpQueue, SequencesExt

CONSTANTS
  Scenarios,     \* the circumstances considered, see `scenario'
  MaxTotalSize,  \* max_total_size of the channels
  MaxFragments   \* bound: XCMs sent on one link, in any scenario

VARIABLES
  scenario,   \* the circumstances of this behaviour, chosen once
  xq,         \* storage of the xcmp-queue pallet, by chain
  config,     \* QueueConfig, by chain
  paused,     \* the chains with QueueSuspended
  queue,      \* queue[p][q]: the messages of q in the message queue of p
  block,      \* the block under construction, by chain
  view,       \* egress channels of RelevantMessagingState, by chain and recipient
  open,       \* relay chain: the open channels
  inbox,      \* relay chain: the pages in channels to a chain, in order of sent_at
  sent,       \* history: number of fragments sent on a link
  served,     \* history: served[p][q] the fragments of q that were serviced
  lost,       \* history: lost[p][q] the fragments from q to p dropped, by cause
  bypassed    \* history: blocks that passed over a recipient they could have served

relay == <<open, inbox>>
vars == <<scenario, xq, config, paused, queue, block, view, open, inbox, sent, served, lost,
          bypassed>>

\* What a scenario fixes.
Links == scenario.links                   \* the pairs <<p, q>> such that p sends XCMs to q
Fragments == scenario.fragments           \* bound: XCMs sent on one link
MaxCapacity == scenario.max_capacity      \* of the channels
ChannelLimits == scenario.limits          \* of the messages of a block, to all recipients
Exclusions == scenario.exclusions         \* recipients earlier blocks of a PoV have sent to
NewThresholds == scenario.new_thresholds  \* values the owner sets thresholds to
Pausable == scenario.pausable             \* chains whose execution of XCMs may be suspended
Closable == scenario.closable             \* channels that may be closed and opened again
WeightScarce == scenario.scarce           \* whether max_weight may be too little for a page
Overweight == scenario.overweight         \* whether servicing may skip messages as overweight

\* Siblings have a channel each way if one of them sends to the other.
Connected == Links \cup {<<l[2], l[1]>> : l \in Links}

-----------------------------------------------------------------------------
(* The relay chain as a block sees it                                        *)

PagesFrom(p, q) == SelectSeq(inbox[q], LAMBDA m : m.sender = p)

TotalSize(ms) == SumFunction([i \in DOMAIN ms |-> ms[i].page.size])

\* get_channel_status.
get_channel_status(p, q) ==
  IF <<p, q>> \notin open THEN None
  ELSE [full |-> Len(PagesFrom(p, q)) + 1 > MaxCapacity,
        max_size_now |-> MaxTotalSize - TotalSize(PagesFrom(p, q)),
        max_size_ever |-> MaxMessageSize]

-----------------------------------------------------------------------------
(* Calls and hooks of a block of p, outside the inherent                     *)

\* deliver, by an extrinsic or by an XCM being executed.
Deliver(p, q, len) ==
  LET fragment == [id |-> sent[p][q] + 1, len |-> len]
      format == delivery_format(xq[p], q)
  IN  /\ block[p].phase # "inherent"
      /\ sent[p][q] < Fragments
      /\ view[p][q] # None
      /\ can_send_fragment(xq[p], q, format, fragment)
      /\ xq' = [xq EXCEPT ![p] = send_fragment(@, q, format, fragment)]
      /\ sent' = [sent EXCEPT ![p][q] = @ + 1]
      /\ UNCHANGED <<scenario, config, paused, queue, block, view, relay, served, lost,
                     bypassed>>

\* The message queue services n messages of q and tells the pallet, unless none was
\* processed because all were overweight.  is_paused stops it.
Service(p, q, n, informed) ==
  LET rest == SubSeq(queue[p][q], n + 1, Len(queue[p][q]))
  IN  /\ block[p].phase # "inherent"
      /\ p \notin paused
      /\ queue' = [queue EXCEPT ![p][q] = rest]
      /\ xq' = IF informed
                 THEN [xq EXCEPT ![p] = on_queue_changed(@, q, Len(rest), config[p])]
                 ELSE xq
      /\ served' = [served EXCEPT ![p][q] = @ \o SubSeq(queue[p][q], 1, n)]
      /\ UNCHANGED <<scenario, config, paused, block, view, relay, sent, lost, bypassed>>

\* QueueConfigData::validate.
validate(data) ==
  /\ data.resume_threshold < data.suspend_threshold
  /\ data.suspend_threshold <= data.drop_threshold
  /\ data.resume_threshold > 0

\* update_suspend_threshold, update_drop_threshold and update_resume_threshold.
UpdateThreshold(p, field, new) ==
  LET changed == [config[p] EXCEPT ![field] = new]
  IN  /\ block[p].phase = "calls"
      /\ validate(changed)
      /\ config' = [config EXCEPT ![p] = changed]
      /\ UNCHANGED <<scenario, xq, paused, queue, block, view, relay, sent, served, lost,
                     bypassed>>

\* suspend_xcm_execution and resume_xcm_execution.
SetPaused(p) ==
  /\ block[p].phase = "calls"
  /\ paused' = IF p \in paused THEN paused \ {p} ELSE paused \cup {p}
  /\ UNCHANGED <<scenario, xq, config, queue, block, view, relay, sent, served, lost,
                 bypassed>>

-----------------------------------------------------------------------------
(* The inherent                                                              *)

\* The relay parent is fixed; handle_xcmp_messages gets the pages that arrived by then.
\* (A chain without channels is left out.)
StartInherent(p) ==
  /\ block[p].phase = "init"
  /\ \E l \in Connected : l[1] = p
  /\ block' = [block EXCEPT ![p] =
                  [phase |-> "inherent", handled |-> 0, arrived |-> Len(inbox[p])]]
  /\ view' = [view EXCEPT ![p] = [q \in Paras |-> get_channel_status(p, q)]]
  /\ UNCHANGED <<scenario, xq, config, paused, queue, relay, sent, served, lost, bypassed>>

NextPage(p) == inbox[p][block[p].handled + 1]

\* Whether handle_xcmp_messages has a page of one of the formats to handle next.
HandlesPage(p, formats) ==
  /\ block[p].phase = "inherent"
  /\ block[p].handled < block[p].arrived
  /\ NextPage(p).page.format \in formats

\* "We can retry a page only if it's not the first one."
can_retry_page(p) == block[p].handled > 0

PageHandled(p) == block' = [block EXCEPT ![p].handled = @ + 1]

\* handle_signals_page with enough weight.
HandleSignals(p) ==
  LET q == NextPage(p).sender
      signal == NextPage(p).page.items[1]
  IN  /\ HandlesPage(p, {"Signals"})
      /\ PageHandled(p)
      /\ xq' = [xq EXCEPT ![p] = IF signal = "Suspend" THEN suspend_channel(@, q)
                                 ELSE resume_channel(@, q)]
      /\ UNCHANGED <<scenario, config, paused, queue, view, relay, sent, served, lost,
                     bypassed>>

\* How many of n messages fit under the drop threshold (get_batches_footprints).
fitting(p, q, n) ==
  LET room == SaturatingSub(config[p].drop_threshold, Len(queue[p][q]))
  IN  IF n < room THEN n ELSE room

IdsOf(items) == {items[i].id : i \in 1 .. Len(items)}

XcmsOn(page) == IF page.format = "Signals" THEN {} ELSE IdsOf(page.items)

Lost(p, q, ids, cause) ==
  lost' = [lost EXCEPT ![p][q] = @ \cup {[id |-> i, cause |-> cause] : i \in ids}]

\* handle_xcms_page when the weight allows for `n' messages of those that fit.  The
\* message queue is told its new length also if no message was enqueued.
EnqueueMessages(p, n, cause) ==
  LET q == NextPage(p).sender
      page == NextPage(p).page
      s == IF page.format = "Opaque" THEN notice_support(xq[p], q) ELSE xq[p]
      after == queue[p][q] \o SubSeq(page.items, 1, n)
  IN  /\ queue' = [queue EXCEPT ![p][q] = after]
      /\ xq' = [xq EXCEPT ![p] = IF page.items = <<>> THEN s
                                 ELSE on_queue_changed(s, q, Len(after), config[p])]
      /\ Lost(p, q, IdsOf(SubSeq(page.items, n + 1, Len(page.items))), cause)
      /\ PageHandled(p)
      /\ UNCHANGED <<scenario, config, paused, view, relay, sent, served, bypassed>>

HandleXcms(p) ==
  /\ HandlesPage(p, {"Simple", "Opaque"})
  /\ EnqueueMessages(p, fitting(p, NextPage(p).sender, Len(NextPage(p).page.items)), "full")

\* The first page does not get enough weight: it is left partially processed.  If
\* nothing is enqueued at all, the message queue may not even be called.
FirstPageOutOfWeight(p) ==
  LET q == NextPage(p).sender
      page == NextPage(p).page
  IN  /\ WeightScarce
      /\ HandlesPage(p, Formats)
      /\ ~can_retry_page(p)
      /\ \/ /\ page.format # "Signals"
            /\ \E n \in 0 .. fitting(p, q, Len(page.items)) - 1 :
                 EnqueueMessages(p, n, "weight")
         \/ /\ PageHandled(p)
            /\ xq' = IF page.format = "Opaque"
                       THEN [xq EXCEPT ![p] = notice_support(@, q)] ELSE xq
            /\ Lost(p, q, XcmsOn(page), "weight")
            /\ UNCHANGED <<scenario, config, paused, queue, view, relay, sent, served,
                           bypassed>>

\* Fault: what was enqueued before the weight ran out is not rolled back.
fault_RetryPage(p) ==
  LET q == NextPage(p).sender
      page == NextPage(p).page
  IN  /\ WeightScarce
      /\ HandlesPage(p, {"Simple", "Opaque"})
      /\ can_retry_page(p)
      /\ queue' = [queue EXCEPT ![p][q] = @ \o page.items]
      /\ block' = [block EXCEPT ![p].phase = "calls"]
      /\ UNCHANGED <<scenario, xq, config, paused, view, relay, sent, served, lost,
                     bypassed>>

\* A later page does not get enough weight.  It is rolled back and stays in the channel
\* with the pages behind it; only the support flag is set outside the transaction.
RetryPage(p) ==
  /\ WeightScarce
  /\ HandlesPage(p, Formats)
  /\ can_retry_page(p)
  /\ block' = [block EXCEPT ![p].phase = "calls"]
  /\ xq' = IF NextPage(p).page.format = "Opaque"
             THEN [xq EXCEPT ![p] = notice_support(@, NextPage(p).sender)] ELSE xq
  /\ UNCHANGED <<scenario, config, paused, queue, view, relay, sent, served, lost,
                 bypassed>>

EndInherent(p) ==
  /\ block[p].phase = "inherent"
  /\ block[p].handled = block[p].arrived
  /\ block' = [block EXCEPT ![p].phase = "calls"]
  /\ UNCHANGED <<scenario, xq, config, paused, queue, view, relay, sent, served, lost,
                 bypassed>>

-----------------------------------------------------------------------------
(* The end of the block, and the relay chain                                 *)

\* The fragments on the pages kept for q.
IdsKept(s, q) == UNION {XcmsOn(s.messages[q][i]) : i \in {i \in Index : s.messages[q][i] # None}}

\* on_finalize calls take_outbound_messages.  When the block is included the relay
\* chain prunes the handled pages and queues the new ones, if the channel is still there.
Finalize(p, limit, excluded) ==
  LET max == SaturatingSub(limit, Cardinality(excluded))
      result == outbound_messages(xq[p], view[p], max, excluded)
      passed == eligible(xq[p], view[p], excluded) \ DOMAIN result
      arriving == {q \in DOMAIN result : <<p, q>> \in open}
      unread == SubSeq(inbox[p], block[p].handled + 1, Len(inbox[p]))
      closed == {q \in Paras : view[p][q] = None \/ <<p, q>> \notin open}
      gone(q) == IF q \in closed THEN IdsKept(xq[p], q) \ IdsKept(xq'[p], q) ELSE {}
  IN  /\ block[p].phase = "calls"
      /\ xq' = [xq EXCEPT ![p] = storage_after_take(@, view[p], max, excluded)]
      /\ inbox' = [q \in Paras |-> (IF q = p THEN unread ELSE inbox[q]) \o
                     IF q \in arriving THEN <<[sender |-> p, page |-> result[q]]>> ELSE <<>>]
      /\ block' = [block EXCEPT ![p] = [phase |-> "init", handled |-> 0, arrived |-> 0]]
      /\ bypassed' = [bypassed EXCEPT ![p] = [q \in Paras |->
           IF q \notin passed THEN 0 ELSE IF result = <<>> THEN @[q] ELSE @[q] + 1]]
      /\ lost' = [q \in Paras |-> [lost[q] EXCEPT ![p] =
           @ \cup {[id |-> i, cause |-> "closed"] : i \in gone(q)}]]
      /\ UNCHANGED <<scenario, config, paused, queue, view, open, sent, served>>

\* close_hrmp_channel of the relay chain, between two blocks of the recipient.
CloseChannel(p, q) ==
  LET dropped == PagesFrom(p, q)
  IN  /\ <<p, q>> \in open
      /\ block[q].phase = "init"
      /\ open' = open \ {<<p, q>>}
      /\ inbox' = [inbox EXCEPT ![q] = SelectSeq(@, LAMBDA m : m.sender # p)]
      /\ Lost(q, p, UNION {XcmsOn(dropped[j].page) : j \in DOMAIN dropped}, "closed")
      /\ UNCHANGED <<scenario, xq, config, paused, queue, block, view, sent, served,
                     bypassed>>

OpenChannel(p, q) ==
  /\ <<p, q>> \notin open
  /\ open' = open \cup {<<p, q>>}
  /\ UNCHANGED <<scenario, xq, config, paused, queue, block, view, inbox, sent, served,
                 lost, bypassed>>

-----------------------------------------------------------------------------

EmptyStorage ==
  [out |-> [q \in Paras |-> None], order |-> <<>>,
   messages |-> [q \in Paras |-> [i \in Index |-> None]],
   signals |-> [q \in Paras |-> None], suspended |-> {}]

ByPair(v) == [p \in Paras |-> [q \in Paras |-> v]]

Init ==
  /\ scenario \in Scenarios
  /\ xq = [p \in Paras |-> EmptyStorage]
  /\ config = [p \in Paras |-> scenario.config]
  /\ paused = {}
  /\ queue = ByPair(<<>>)
  /\ block = [p \in Paras |-> [phase |-> "init", handled |-> 0, arrived |-> 0]]
  /\ view = ByPair(None)
  /\ open = Connected
  /\ inbox = [p \in Paras |-> <<>>]
  /\ sent = ByPair(0) /\ served = ByPair(<<>>) /\ lost = ByPair({})
  /\ bypassed = ByPair(0)

Fields == {"suspend_threshold", "drop_threshold", "resume_threshold"}

Informed == IF Overweight THEN BOOLEAN ELSE {TRUE}

ServiceSome(p, q) ==
  \E n \in 1 .. Len(queue[p][q]), informed \in Informed : Service(p, q, n, informed)

FinalizeSome(p) ==
  \E limit \in ChannelLimits, excluded \in Exclusions : Finalize(p, limit, excluded)

\* What the block of p does whatever its users do.
BlockStep(p) ==
  \/ StartInherent(p) \/ HandleSignals(p) \/ HandleXcms(p) \/ FirstPageOutOfWeight(p)
  \/ RetryPage(p) \/ EndInherent(p) \/ FinalizeSome(p)

Next ==
  \/ \E l \in Links, len \in FragmentLens : Deliver(l[1], l[2], len)
  \/ \E p, q \in Paras : ServiceSome(p, q)
  \/ \E p \in Paras, field \in Fields, new \in NewThresholds : UpdateThreshold(p, field, new)
  \/ \E p \in Pausable : SetPaused(p)
  \/ \E p \in Paras : BlockStep(p)
  \/ \E l \in Closable : CloseChannel(l[1], l[2]) \/ OpenChannel(l[1], l[2])

Spec == Init /\ [][Next]_vars

\* Every chain keeps building blocks, and services each queue again and again.
FairSpec ==
  /\ Spec
  /\ \A p \in Paras : WF_vars(BlockStep(p))
  /\ \A p, q \in Paras : SF_vars(ServiceSome(p, q))

-----------------------------------------------------------------------------
(* Properties                                                                *)

Fragment == [id: 1 .. MaxFragments, len: FragmentLens]

IsPage(page) ==
  /\ page.format \in Formats /\ page.size \in Nat
  /\ page.items \in IF page.format = "Signals" THEN Seq(Signals) ELSE Seq(Fragment)

\* Every variable holds a value of the code's type; the vector OutboundXcmpStatus has
\* one entry per recipient, within its bound.
TypeOK ==
  /\ \A p \in Paras :
       /\ xq[p].out \in [Paras -> OutboundChannelDetails \cup {None}]
       /\ xq[p].signals \in [Paras -> Signals \cup {None}]
       /\ xq[p].suspended \in SUBSET Paras
       /\ xq[p].order \in Seq(Paras) /\ IsInjective(xq[p].order)
       /\ Range(xq[p].order) = {q \in Paras : xq[p].out[q] # None}
       /\ Len(xq[p].order) <= MaxActiveOutboundChannels
       /\ Cardinality(xq[p].suspended) <= MaxInboundSuspended
       /\ block[p].phase \in {"init", "inherent", "calls"}
       /\ \A i \in DOMAIN inbox[p] : inbox[p][i].sender \in Paras /\ IsPage(inbox[p][i].page)
       /\ block[p].handled <= block[p].arrived /\ block[p].arrived <= Len(inbox[p])
  /\ \A <<p, q>> \in Connected, i \in Index :
       xq[p].messages[q][i] # None => IsPage(xq[p].messages[q][i])
  /\ \A <<p, q>> \in (Paras \X Paras) \ Connected :
       xq[p].messages[q] = [i \in Index |-> None]
  /\ queue \in [Paras -> [Paras -> Seq(Fragment)]]
  /\ open \subseteq Connected /\ paused \subseteq Paras

\* The indices of pages in OutboundXcmpMessages.
Stored(p, q) == {i \in Index : xq[p].messages[q][i] # None}

\* Pages are stored for exactly the indices between first_index and last_index of the
\* entry, none is left behind when an entry goes, none exceeds what the channel takes,
\* and queued_bytes, on which fees depend, is their total size.
PagesInWindow ==
  \A <<p, q>> \in Connected :
    LET e == xq[p].out[q]
        stored == Stored(p, q)
        size == [i \in stored |-> xq[p].messages[q][i].size]
    IN  IF e = None THEN stored = {}
        ELSE /\ stored = e.first_index .. e.last_index - 1
             /\ \A i \in stored : size[i] <= MaxMessageSize
             /\ e.queued_bytes = SumFunction(size)

\* The pages from q that p has not handled yet: in the channel, then still at q.
PagesAhead(p, q) ==
  LET unread == SubSeq(inbox[p], block[p].handled + 1, Len(inbox[p]))
      arrived == SelectSeq(unread, LAMBDA m : m.sender = q)
      e == xq[q].out[p]
      kept == IF e = None THEN 0 ELSE e.last_index - e.first_index
  IN  [i \in 1 .. Len(arrived) |-> arrived[i].page]
      \o [i \in 1 .. kept |-> xq[q].messages[p][e.first_index + i - 1]]

\* The fragments from q to p that were not lost, in the order of being serviced.
Pipeline(p, q) ==
  LET xcms == SelectSeq(PagesAhead(p, q), LAMBDA page : page.format # "Signals")
  IN  FlattenSeq(<<served[p][q], queue[p][q]>> \o [i \in DOMAIN xcms |-> xcms[i].items])

\* Every XCM sent to a sibling is serviced there once and in the order of sending,
\* unless it was dropped, for one of the causes the code has for that; also when pages
\* are handled partially or retried, and when the channel is closed meanwhile.
OnceInOrder ==
  \A <<p, q>> \in Connected :
    LET xcms == Pipeline(p, q)
        gone == {l.id : l \in lost[p][q]}
    IN  /\ \A i \in 1 .. Len(xcms) - 1 : xcms[i].id < xcms[i + 1].id
        /\ IdsOf(xcms) \cap gone = {}
        /\ IdsOf(xcms) \cup gone = 1 .. sent[q][p]

\* Whether drop_threshold leaves room for a full channel and one page more, each with as
\* many fragments as fit, on top of a queue just below suspend_threshold.
Roomy(data) ==
  LET per_page == MaxMessageSize - format_size
  IN  data.drop_threshold >= data.suspend_threshold - 1 + (MaxCapacity + 1) * per_page

\* "This should normally not happen since the `suspend_threshold` can be used to
\* suspend the channel": if drop_threshold leaves room for what is sent before the
\* signal takes effect, nothing is ever dropped because a queue is full, also if the
\* signal is held up in the channel back.
NeverFull ==
  \A p, q \in Paras : Roomy(config[p]) => \A l \in lost[p][q] : l.cause # "full"

\* The signal for q that take_outbound_messages is going to find, None if there is none.
Waiting(p, q) ==
  IF xq[p].out[q] # None /\ xq[p].out[q].signals_exist THEN xq[p].signals[q] ELSE None

\* The last thing q was told, or is going to be told, by p.
LastWord(p, q) ==
  LET unread == SubSeq(inbox[q], block[q].handled + 1, Len(inbox[q]))
      signals == SelectSeq(unread, LAMBDA m : m.sender = p /\ m.page.format = "Signals")
  IN  IF Waiting(p, q) # None THEN Waiting(p, q)
      ELSE IF signals # <<>> THEN Last(signals).page.items[1]
      ELSE IF xq[q].out[p] # None /\ xq[q].out[p].state = "Suspended" THEN "Suspend"
      ELSE "Resume"

\* A signal is stored that nothing leads to: see SignalsAreFlagged.
Forgotten(p, q) == xq[p].signals[q] # None /\ Waiting(p, q) = None

\* Both ends agree on whether the channel is suspended, once the signals under way have
\* arrived, also if both chains suspend each other: the one way a signal is lost is that
\* resume_channel forgets it, and the ends agree again as soon as another takes its place.
\* A page left for lack of weight, and a closed channel, may take a signal with them.
EndsAgree ==
  ~WeightScarce /\ Closable = {} =>
    \A <<p, q>> \in Connected :
      Forgotten(p, q) \/ (q \in xq[p].suspended <=> LastWord(p, q) = "Suspend")

\* A sibling is kept suspended only while messages of it wait in the message queue, whose
\* servicing makes on_queue_changed resume it, whatever the thresholds are set to and
\* however long execution was suspended.  (resume_threshold is "the number of pages which
\* the queue must be reduced to before it signals that message sending may recommence".)
\* It breaks if messages are skipped as overweight: service_queue does not report that,
\* and as the suspended sibling sends nothing more, nothing but a manual execution will.
SuspendedHasWork ==
  ~Overweight => \A p \in Paras : \A q \in xq[p].suspended : queue[p][q] # <<>>

\* The rotation of the entries is fair: a channel that can be served is passed over by
\* at most as many blocks as there are other entries.
BoundedBypass ==
  Closable = {} => \A p, q \in Paras : bypassed[p][q] < Cardinality(Paras) - 1

\* Every XCM sent is eventually serviced or dropped; a suspended channel is resumed.
EventuallyServiced ==
  \A p \in Paras : \A q \in Paras \ {p}, n \in 1 .. MaxFragments :
    sent[p][q] >= n ~> n \in IdsOf(served[q][p]) \cup {l.id : l \in lost[q][p]}

\* OutboundXcmpStatus: "The bool is true if there is a signal message waiting to be
\* sent."  resume_channel breaks it: it removes the entry of an empty queue with the bool.
SignalsAreFlagged == \A p, q \in Paras : ~Forgotten(p, q)

=============================================================================
