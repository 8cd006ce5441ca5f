# The messaging layer of the Polkadot SDK in TLA+

The Polkadot SDK is a framework for blockchains and the implementation of a
relay chain, its parachains and the bridges between such systems. This project
specifies and verifies the part of it that moves messages: the pallets and
programs through which one chain sends a message to another, and which must not
lose it, repeat it, reorder it or stop delivering it, whatever blocks, proofs and
signals arrive in whatever order.

Contents: [Inventory](#inventory) · [Modules](#modules) · [Runs](#runs) ·
[Findings](#findings) · [Fairness](#fairness) · [Proofs](#proofs) ·
[What is left out](#what-is-left-out) · [Further work](#further-work)

## Inventory

Messages take the following way. A pallet sends an XCM; it leaves the parachain
through the *xcmp-queue* (to a sibling parachain), as an upward message (to the
relay chain), or through *xcm-bridge-hub* and the *bridge messages* pallet (to
another consensus system). *parachain-system* hands messages from and to the
relay chain, whose *HRMP* and *DMP* modules carry them. At the receiving chain
they are put into the *message-queue* pallet, which processes them with the
weight that blocks have left, and tells the pallet in front of it how long its
queues are.

| component | state | operations that change it | interactions |
|---|---|---|---|
| message-queue pallet (`substrate/frame/message-queue`) | a book per origin, pages of messages, the ready ring and its service head | `enqueue_message(s)`, `sweep_queue`, servicing in `on_initialize`/`on_idle`, `execute_overweight`, `reap_page`, `force_set_head` | messages processed may enqueue again; tells `OnQueueChanged`; asks `QueuePausedQuery` |
| bridge messages pallet (`bridges/modules/messages`) | outbound lanes and messages, inbound lanes with unrewarded relayers, operating mode | `send_message`, `receive_messages_proof`, `receive_messages_delivery_proof`, `set_operating_mode`, opening and closing lanes | each end reads proofs of the other's storage at headers its finality pallet knows |
| bridge finality pallets (`bridges/modules/{grandpa,parachains}`) | a ring of imported headers, the authority set | `submit_finality_proof`, `submit_parachain_heads` | gives the messages pallet the state roots |
| bridge relayers pallet | rewards, registrations, stakes | `register_relayer_reward`, `claim_rewards`, `slash_and_deregister` | paid from delivery confirmations |
| xcm-bridge-hub (`bridges/modules/xcm-bridge-hub`) | bridges, their lanes, suspension | `open_bridge`, `close_bridge`, exporter, congestion signals | opens, closes and prunes lanes |
| xcmp-queue (`cumulus/pallets/xcmp-queue`) | outbound pages and signals per sibling, suspended inbound channels | `send_fragment`, `handle_xcmp_messages`, `on_queue_changed`, `take_outbound_messages`, suspend and resume | signals to the sibling's xcmp-queue; enqueues into message-queue |
| parachain-system (`cumulus/pallets/parachain-system`) | unincluded segment, message queue chain heads, watermark, pending upward messages, pending upgrades | `set_validation_data`, `on_initialize`, `on_finalize`, `schedule_code_upgrade` | relay chain state proofs; xcmp-queue; message-queue |
| HRMP and DMP of the relay chain (`polkadot/runtime/parachains`) | channels, open and close requests, contents, digests; downward queues | channel requests at session changes, `prune_hrmp`, `queue_outbound_hrmp`, `queue_downward_message`, `prune_dmq` | called when a parachain block is included |
| bridge relayers off chain (`bridges/relays`) | races of source and target nonces, headers required | race loops, finality loop | submit the proofs |
| the rest of the repository | | | listed in `PROJECT.json`, not part of the messaging layer |

What makes it hard, per component:

* **message-queue**: the ready ring is a doubly linked list stored in pieces; a
  message being processed may enqueue into the queue it came from while its book
  and page are in local variables; permanently overweight messages leave their page
  behind and are executed much later, out of order with servicing; weight runs out at
  any point; several counters must agree with what is stored.
* **bridge lanes**: a relayer may submit any proof at any header still known, so
  state arrives old, twice and out of order; confirmations cover parts of what one
  relayer delivered; both the number of entries and the number of unconfirmed
  messages are limited and freed only by a round trip; either end may be halted or
  closed on its own at any moment.
* **xcmp-queue**: flow control between two chains by signals that share a table with
  the messages of the opposite direction; thresholds; out-of-weight pages are retried;
  blocks of two chains overlap, each with its own view of the channels.
* **HRMP**: a deposit may be held on another chain, so that the second half of a call
  runs whenever an answer arrives, in a storage that calls, governance, prices and
  offboardings have changed; candidates are checked when they are backed and take effect
  when they are included.
* **parachain-system, DMP**: limits checked on both sides a block apart; asynchronous
  backing puts several unincluded blocks between the two views.

The properties that make each component correct are listed with the
[runs](#runs) and, for those not modelled, under [further work](#further-work).
`PROJECT.json` lists the hazards at their source lines with the properties that
would catch them going wrong.

## Modules

### The message queue pallet

| module | models |
|---|---|
| `ReadyRing` | book states and the doubly linked ready ring: `ready_ring_knit`, `ready_ring_unknit` |
| `QueueStorage` | pages, their items, appending, peeking, skipping, marking as processed; `do_enqueue_messages`; the reaping rule |
| `MessageQueue` | the pallet: every dispatchable and trait method as an action, servicing as a sequence of steps |
| `MCMessageQueue` | small instances |
| `ReadyRing_proofs`, `QueueStorage_proofs`, `MessageQueue_proofs` | lemmas and theorems |

`books`, `pages` and `serviceHead` are the storage items `BookStateFor`, `Pages` and
`ServiceHead`. A message is an identity with a length and a weight; a page is the
sequence of its items with the flag of each, the index of the first one not yet
passed and the two counters, so its encoding is left out but `HeapSize` and
`HeaderLen` decide what fits, as in `can_append_message_at`.

The runtime executes one call at a time, so a call is one action. Servicing is
split at the loops of `service_queues_impl`: `pc` says where it stands and `svc`
holds its locals, the copies of the book and the page among them. They matter because
`ProcessItem` may enqueue to any origin in `Nested` while they are held. `paused` is the
answer of `QueuePausedQuery`, which other pallets give. `told` is the last footprint
given to `QueueChangeHandler`. The remaining variables are history: which messages
were executed, reaped or swept, and the last one that servicing moved past.

Message processors are abstracted to their answers: processed, `Yield`, or too heavy
for the weight left. Weights are one-dimensional.

### Bridge lanes

| module | models |
|---|---|
| `InboundLane` | `receive_state_update`, `receive_message`, the unrewarded relayers and their limits |
| `OutboundLane` | `send_message`, `confirm_delivery` with its checks, the rewards calculation, pruning |
| `MessageChannel` | the abstract specification: an exactly-once, in-order channel with confirmations |
| `BridgeMessages` | the two ends of a lane, the finality pallets between them, halting and closing |
| `MCBridgeMessages` | small instances |
| `OutboundLane_proofs`, `BridgeMessages_proofs` | lemmas and theorems |

`outLane`, `outMessages`, `sourceMode` and `rewards` are the storage of the source chain;
`inLane` and `targetMode` that of the target chain. `sourceHeaders` is what the target
chain can verify: the storage of the source at the last `HeadersToKeep` headers that
were imported, oldest first. `targetHeaders` is the same for the other direction. A
proof is a choice of one of these headers and a range of messages, so delivered
state may be old, repeated and out of order. That a proof cannot contain anything
else is the job of the trie verification, which is not modelled.

`receive_messages_proof` reads the lane once, then handles its messages one by
one; `delivery` is the rest of that loop. A call that returns an error is rolled back
with its transaction and is not a step. The dispatcher's `is_active` is taken to be
true, and weight sufficient for the messages declared.

`close_bridge` of `xcm-bridge-hub` is modelled where it meets the lane: it closes both
lanes of the end, prunes at most `may_prune_messages` messages and removes the lanes
when none is left. Opening a lane again is not modelled.

### XCMP between siblings

| module | models |
|---|---|
| `XcmpQueue` | the storage of one xcmp-queue pallet: `send_fragment`, `send_signal`, `on_queue_changed`, `suspend_channel`, `resume_channel`, `take_outbound_messages` |
| `XcmpFlow` | sibling chains with such a pallet each, the channels between them, the inherent, thresholds, pausing, closing |
| `MCXcmpFlow` | the scenarios |

`xq[p]` is the storage of the pallet of chain `p`. `OutboundXcmpStatus` is kept as `out`, the
entry by recipient, and `order`, the recipients in the order of the vector; `messages`,
`signals` and `suspended` are `OutboundXcmpMessages`, `SignalMessages` and
`InboundXcmpSuspended`. `config[p]` and `paused` are `QueueConfig` and `QueueSuspended`.
A page is its format, the fragments or signals on it and its size in bytes, so that
what fits onto a page and through a channel is decided as in the code.

A block of a chain has three phases. Before the inherent the message queue may be
serviced; `StartInherent` fixes the relay parent, which is when the channels are read
(`view`); then `handle_xcmp_messages` handles the pages that had arrived by then, one step
each, with `HandleSignals`, `HandleXcms`, and `FirstPageOutOfWeight` and `RetryPage` for the
two ways of running out of weight; calls follow; `Finalize` is `on_finalize` and the inclusion
of the block. Blocks of different chains overlap arbitrarily, which is where signals and
pages cross. `take_outbound_messages` is a loop with a limit on its output; the model says for
each recipient whether its page is taken (`taken`) and what is left of it (`after_take`).

The message queue pallet is abstracted to the sequence of messages of each sibling that are
not serviced yet, one message a page, and to its duty to report the length; it is modelled in
full by `MessageQueue`, whose `HandlerInformed` says when the report is made. The relay chain
is abstracted to open channels and their pages, modelled in full by `Hrmp`.

### HRMP channels of the relay chain

| module | models |
|---|---|
| `HrmpStorage` | the storage of the pallet and of the deposit provider, and every function that changes it |
| `Hrmp` | the calls, the answers of the provider, session changes, candidates |
| `MCHrmp` | the scenarios |
| `HrmpStorage_proofs`, `Hrmp_proofs`, `HrmpWatermark_proofs` | lemmas and theorems |

`s` holds the storage items of `hrmp.rs`, as the module comment lists them. A channel is a
pair of paras, and a storage map a function whose domain are the keys there are. A set and
the list that goes with it (`HrmpOpenChannelRequestsList`, `HrmpCloseChannelRequestsList`) are
one. The deposit provider is the pallet itself, which reserves within the call, or one on
another chain (`remote`), which works off the requests `asked`, in any order among those that
do not concern the same side, may refuse, and sends `answers` that arrive in any order and at
any time (`ProcessRequest`, `OnDepositSet`). `set_deposit` is the point where a call goes on at once or
only when the answer is there, with all of its checks made again (`can_resume`).

Every dispatchable is an action of `Hrmp`. `InitializerOnNewSession` is the session change
in the order of `initializer.rs`: configuration, lifecycles, then cleanup after outgoing paras, opening,
closing. Of inclusion, `BackCandidate` makes the checks against the storage when a candidate is
backed, `EnactCandidate` is `prune_hrmp` and `queue_outbound_hrmp` when it is included, and
`DropCandidates` is a timeout or a dispute. In a block, candidates are enacted before others are backed
(`backing`). Of the paras pallet, `lifecycle`, `due` and `context` are `ParaLifecycles`,
`ActionsQueue` and `MostRecentContext`: a para leaves and comes back two session changes after
that was scheduled, or later. `starts` has the first relay parent of every session kept
(`MinimumRelayParentNumber`): a candidate may be built on any relay parent since, and a
session change forgets those of sessions older than `max_relay_parent_session_age`.

## Runs

| run | expects | shows |
|---|---|---|
| `mq_storage` | pass | `Accounting`, `Conservation`, `ServedInOrder`, `WindowPagesExist`, `HandlerInformed`, `TypeOK` with every operation of the pallet |
| `mq_ring` | pass | `LinksConsistent`, `SingleRing`, `ReadyIfWindow` with three queues |
| `mq_live` | pass | `EventuallyServed` without `on_idle` |
| `mq_idle_starves` | violation | `EventuallyServed` with `on_idle` |
| `mq_reentrant` | violation | `Conservation` when a message run by `execute_overweight` enqueues |
| `bridge_lane` | pass | `NonceOrder`, `EntriesTellWhoDelivered`, `WithinLimits`, `ConfirmationNeverFails`, `UnconfirmedAreStored`, `RewardedOnce`, `TypeOK`, and `ChannelSpec`, the refinement of the channel, with halting and closing of both ends |
| `bridge_live` | pass | `EventuallyConfirmed` with the tightest limits |
| `xcmp_flow` | pass | `OnceInOrder`, `PagesInWindow`, `NeverFull`, `EndsAgree`, `SuspendedHasWork`, `BoundedBypass`, `TypeOK` in six scenarios |
| `xcmp_live` | pass | `EventuallyServiced` through suspension and resumption |
| `xcmp_flagged` | violation | `SignalsAreFlagged`, stated by the storage documentation |
| `hrmp` | pass | `DepositsAccounted`, `FailedResumeOwesNothing`, `CountsMatch`, `IndexesMatch`, `WithinChannelLimits`, `ParticipantsExist`, `ContentsCounted`, `DigestCovers`, `OvershootBounded`, `LeavesOnlyRead`, `WatermarkNeverBack`, `TypeOK` in twelve scenarios |
| `hrmp_deposits` | violation | `DepositsHeld`, stated by the documentation of `sender_deposit` |

Each property is stated in words above its definition. Every property of a passing
run has a mutant of the code (the operators named `fault_...`) that breaks it.

The circumstances that multiply the states of XCMP and HRMP (a remote deposit provider, forced
calls, closing, scarce weight, several pending candidates) are the fields of a record
`scenario`, chosen once in the initial state. A run checks all its scenarios together. Every
scenario turns on what interacts, so that each has a question of its own.

Bounds, and why they suffice:

* **Message queue.** Three messages and pages that hold two of them give queues of two
  pages, pages partly processed, pages behind the window and a re-entrant enqueue onto
  each kind. One message in `mq_storage` may be too heavy to be serviced ever.
  `MaxStale` 1 makes reaping reachable. A service weight of 6 suffices for one
  message, so that servicing bails at every place it can. The ring needs three
  queues, since with two the neighbours on both sides coincide; `mq_ring` has them,
  with light messages only.
* **Bridge.** Three messages, two relayers, at most two entries and two unconfirmed messages
  let a lane reach both limits, entries of two messages be confirmed in parts, and a
  second round begin after the first is confirmed. Two headers give a proof older than the
  newest one; older still adds nothing new, since every step of a lane moves its nonces
  forward and stale state is told only by being behind. Relayers are interchangeable,
  and `bridge_lane` uses that symmetry; the liveness run does not. Closing prunes one
  message at a time, so that either end is closed in several calls, at any moment.
* **XCMP.** A page takes two fragments of the simple format and one of the opaque one, a
  channel one page (two in `Scarce`), suspension begins at two messages and ends at one.
  `Congested` sends six fragments, more than `drop_threshold`, so that something would be
  dropped if a signal came late. `Scarce` has two pages in the channel, hence a first page
  that is lost and a second one that is retried; there servicing may also skip messages as
  overweight, unreported. `Closing` closes and opens the channel and has blocks that may
  not send to the recipient again. `Configured` moves thresholds and pauses execution.
  `Fan` has two recipients for one message a block. In `Mutually` each chain sends the
  other enough to be suspended by it, so that signals cross messages and other signals,
  and some are forgotten. Page indices are modulo 8, or 4, and do not wrap in
  these runs. `MaxActiveOutboundChannels` and `MaxInboundSuspended` are two, which three
  chains with these links never exceed: the refusals at these limits are in the model,
  and no run takes them. To exceed them takes three siblings of a chain, or two that both
  send until they are suspended, with more states than a run of some minutes visits.
* **HRMP.** Two paras and two system chains, limits of one or two channels. `Priced` and
  `Free` have a remote provider, changing prices, offboarding and forced calls; `Reserved`
  the same with deposits in the pallet; `Cleaned` adds `force_clean_hrmp`; in `Outbound1`
  and `Inbound1` a deposit arrives after the last place is taken; `WithSystem` has the calls
  for system chains. `Fan`, `Elastic` and `Reopened` have messages over four
  blocks: two senders to one recipient, two pending candidates, and a channel that is closed
  and opened again, or whose para leaves, between candidates. `Returning` has a para that leaves,
  comes back and is built on again, which takes seven blocks, with relay parents kept for two
  past sessions and for three. In the last block nothing is backed,
  as it would not be enacted. A session does not lower the limits of the configuration, as
  the code does not enforce a lower limit on the channels there are.

Deadlock is checked in every run: blocks, headers and sessions keep coming, so none of the
systems ever stops.

## Findings

Four runs end in a violation of something the repository says of itself.

* `mq_idle_starves`: every service attempt moves the service head on before it knows
  whether its weight suffices for a message. An `on_idle` that never has enough
  weight, alternating with `on_initialize`, can keep the head at a queue that yields
  whenever there is weight, so the message of another ready queue is never
  processed. Without `on_idle` (`mq_live`) it always is.
* `mq_reentrant`: `execute_overweight` writes back the book and the page it read
  before running the message, over what the message enqueued to the same origin.
* `xcmp_flagged`: a Resume that finds an empty queue removes the entry of the sibling, also if
  a signal to it waits. `take_outbound_messages` looks at entries only, so the signal
  is not sent until something else makes an entry that flags it. `EndsAgree` says that
  this is all that goes wrong: unless a signal is forgotten in this way the two ends agree.
* `hrmp_deposits`: a release names a side without deposit too, so a remote provider gives back
  a deposit whose answer is under way; the answer then makes a request that records a
  deposit nobody holds. It takes a channel that was free of deposits at some time.

What the properties had to leave room for, read in the code while modelling and kept
here for its readers:

* *message-queue*: `do_try_state` expects messages in every queue on the ring
  (lib.rs:1449), but an empty batch puts an empty queue there (1049) until the next service;
  and it expects the first page of the window, which `execute_overweight` removes
  (1125) if servicing passed its items but had no weight left to move `begin`.
* *bridge messages*: a confirmation on a lane being closed moves `oldest_unpruned_nonce` back
  over messages already pruned (outbound_lane.rs:174); the next `close_bridge` counts
  them again.
* *xcmp-queue*: servicing does not report messages it skips as overweight
  (message-queue lib.rs:1263), so a sibling may stay suspended with an empty queue;
  `SuspendedHasWork` excludes that. Beyond `MaxInboundSuspended` a Suspend
  is sent and not remembered (xcmp-queue lib.rs:1069), so `EndsAgree` is about
  configurations where it suffices; with two chains that send to a third which can
  remember one, TLC finds the ends to disagree. A page index that leaves its 16 bits stops a channel (629).
* *HRMP*: `msg_count` "should be less or equal to `max_capacity`" (hrmp.rs:156), and is with one pending candidate;
  with several, each is checked against the same storage, and the excess is what
  `OvershootBounded` bounds. The watermark may move back in that case too, although "we require
  each parablock's watermark to be greater than the last one" (1181). With one pending candidate it may
  move back with the first candidate of a para that was offboarded and onboarded again, if relay
  parents are kept for three past sessions or more: `WatermarkNeverBack` says that this is the only
  case, and `Returning(3)` reaches it. The participants of a channel "should satisfy
  `Paras::is_valid_para(P)` within a session" (452), which paras being offboarded do not; these
  keep their channels until they go, so `ParticipantsExist` includes them.
  `force_clean_hrmp` resets the counters of requests that stay. Offboarding leaves
  `HrmpWatermarks` and `HrmpChannelDigests` behind, which a comment (1912) denies.

## Fairness

`mq_live` assumes `WF(ServiceStep)`, as nothing interrupts servicing once a block runs
it, and `SF(OnInitialize)`, as every block runs the hook. The fairness is strong
because the hook is disabled while servicing runs. Nothing is assumed of transactions,
of `on_idle` or of what processors answer.

`bridge_live` assumes `WF(ReceiveMessage)`, as a block executes its calls to the end;
that headers of either chain keep being imported; and that some relayer keeps
submitting the two proofs of `RelayMessages` and `RelayConfirmations` at the newest
header, as the relayer in `bridges/relays/messages` does. The latter three are strong
where other steps disable them again and again, such as another relayer's delivery. Any
other relayer may interfere with any proof at any time. In this run
the source may reject new messages but no pallet is halted and no lane closed, since
both stop a lane by design.

`xcmp_live` assumes `WF(BlockStep)` for each chain, as chains keep building blocks and the inherent
is mandatory, and `SF(ServiceSome)` for each queue, as the message queue services in every
block's `on_initialize` and goes round its queues (`mq_live`). It is strong because the
inherent disables servicing. Nothing is assumed of senders. Weight suffices and no channel is
closed in this run, since both may take a signal with them.

`Hrmp` has no fairness: whether a para accepts, a provider answers or a candidate is backed is
up to others, and every call comes back with its result at once.

## Proofs

TLAPS checks the theorems for every value of the constants that satisfies the named
`ASSUME`s (`RingAssumption`, `StorageAssumption`, `ConstantsAssumption`,
`BridgeAssumption`, and those of HRMP below): limits are naturals, at least one header is
kept, `None` is no value of the program. These hold of every configuration of the pallets.

**Message queue** (`MessageQueue_proofs`): `TypeCorrect`, `LinksAreConsistent`,
`RingIsSingle` and `ReadyQueuesAreInRing`, from `Invariant`, which is `Spec => []IInv`.
The ring properties are not inductive on their own: the books that
`service_queue` writes back are copies read earlier, so the invariant has to say that
the copy has the links of the stored book, and that its window lies within what was
ever enqueued (`LocalBookOK`); and the window, the pages and the ring must be known to
agree (`StorageOK`) for a queue without window to be taken off the ring. The
argument has three layers, one per module:

1. `ReadyRing_proofs`: knitting, unknitting and rewriting a book keep the links inverse
   to each other and the ring single. `SingleRing` says that no proper non-empty part of
   the ready queues is closed under `next`, which avoids any count of steps along the
   ring; a part that is closed after unknitting is mapped to one that was closed before.
2. `QueueStorage_proofs`: pages keep their type under every page operation,
   and `do_enqueue_messages` keeps `StorageOK` and changes an existing book or
   page only by growing it (`Keeps`), which is what makes it safe to call while
   servicing holds copies.
3. `MessageQueue_proofs`: one lemma per action.

**Bridge lanes** (`BridgeMessages_proofs`): `TypeCorrect`, `NoncesInOrder`,
`EntriesCorrect`, `LimitsKept`, `NothingUnconfirmedLost`, `ConfirmationsAccepted` and
`ImplementsChannel`, from `Agreement`, which is `Spec => []IInv`. `IInv` relates each end to
what the other end knows of it: every imported header holds a lane that the other chain
really had, hence one whose nonces are behind the present ones and whose entries name
the relayers of `dispatched` (`SourceHeadersOK`, `TargetHeadersOK`), and the rest of a
delivery loop lies within what was sent (`DeliveryOK`). `InboundOK`, the shape of the
entries, is stated against the history of dispatched messages, so it is stable when
the history grows; that is why any old inbound lane can still be confirmed.
`OutboundLane_proofs` has the lemmas on the lane operations. `ImplementsChannel` maps
`sent` to `latest_generated_nonce` and `confirmed` to `latest_received_nonce`: sending,
an accepted message and a confirmation are the three steps of the channel, everything
else stutters.

**HRMP** (`Hrmp_proofs`): `IndexesAlwaysMatch`, `ParticipantsAlwaysExist`, `CountsAlwaysMatch` and
`AlwaysWithinChannelLimits`, from `AlwaysInv`, which is `Spec => []IInv`, for any finite set
of paras, any channels and any scenarios, hence any mix of calls, prices, answers,
sessions and candidates. The properties need one another: the code checks limits by the length of
an index plus a counter, so `Limited` holds only as long as the indexes list the channels
(`Indexed`) and the counters count the requests (`Counted`); an answer that arrives late must be
for a known channel and is checked again against all of it; and the counters and limits
are claimed only where `force_clean_hrmp` is not called. Layers:

1. `HrmpStorage_proofs`: one lemma per storage operation, among them `SessionKeeps`: cleaning up
   after outgoing paras, opening and closing keep a storage in order and leave nothing of
   an outgoing para behind.
2. `Hrmp_proofs`: genesis, and one lemma per group of actions.
3. `HrmpWatermark_proofs`: `WatermarkAlwaysForward`, with an invariant of its own.
   `check_hrmp_watermark` accepts a watermark equal to the relay parent of the candidate, whatever the stored one
   is. That it is not behind follows from the history: `MarksInv` says that the stored watermark
   is at most the relay parent of the candidate enacted last, or else the para was away since and
   the watermark is no newer than the sessions started meanwhile (`MarkBehind`); and that the
   watermark of a pending candidate lies between the stored one and its own relay parent, or relay
   parents outlast the absence. A para is away for at least two session changes, so that relay parents kept
   for two past sessions are all newer (`NewSessionForward`). This needs a single pending
   candidate.

The named assumptions are `HrmpAssumption` (channels connect different paras, of which there are
finitely many), `ScenarioAssumption` (scenarios are about these channels), `AgeAssumption` (ages of sessions
are naturals) and `LimitsAssumption` (limits do not change and genesis respects them). The last one is a
restriction: see [runs](#runs).

Model-checked only:

* liveness (`EventuallyServed`, `EventuallyConfirmed`, `EventuallyServiced`), which the proof
  system does not support;
* `Accounting`, `HandlerInformed`, `RewardedOnce`, `DepositsAccounted` and `ContentsCounted`, which
  equate a counter with a sum or a cardinality of what is stored;
* the properties of XCMP: the vector of entries and the pages in a channel are filtered with
  `SelectSeq`, a recursive definition the provers can neither expand nor cite a fact about;
* `Conservation`, `ServedInOrder`, `WindowPagesExist`, `FailedResumeOwesNothing`, `DigestCovers`,
  `OvershootBounded` and `LeavesOnlyRead`, whose inductive strengthenings are not worked out.

## What is left out

Of the modelled pallets: encodings, events, errors that only report, weights in two dimensions,
migrations, `try_state` (its conditions are properties here), benchmarks; the verification of
storage and finality proofs; fees and transaction extensions. Further:

* *message-queue*: what processors do besides answering and enqueueing.
* *bridge lanes*: opening a lane again after it was closed; of xcm-bridge-hub only closing
  is modelled, of the relayers pallet only the registration of rewards, of the finality pallets
  only the ring of headers.
* *xcmp-queue*: the delivery fee factor, which nothing in the flow of messages reads; migrations;
  pages that do not decode, which the sibling's pallet does not produce. Several
  messages on a page of the message queue, so the thresholds count messages. A block is included
  when it is finished.
* *HRMP*: the notifications sent down to the paras and the MQC heads, which nothing in the
  pallet reads; witness counts of calls; the order of the request lists, whose items touch
  different entries.
* *inclusion and the paras registry*: only what HRMP sees of them. Availability votes,
  backing groups, code upgrades and pre-validation are not modelled.

Not modelled at all: parachain-system, DMP, the off-chain relayers (see below), and what is
not part of the messaging layer: the XCM executor (a large sequential interpreter), Snowbridge
(its other end is a contract outside the repository), disputes, scheduling, the node, the client,
the application pallets, runtimes and tools. `PROJECT.json` gives the reason for each.

## Further work

1. **DMP and UMP with parachain-system**: message queue chains, the
   unincluded segment and its bandwidth. Properties: aggregated bandwidth is the sum of
   the segment, a block built within the adjusted limits is accepted when it is
   included, messages are processed exactly once across relay parents.
2. **Composition of `XcmpFlow` and `Hrmp`**, in place of the abstraction each has of the other:
   several unincluded blocks, and channels opened and closed by the calls of `Hrmp`.
3. **Message relayer**: the race loop against `BridgeMessages`, to
   discharge the assumption that some relayer keeps relaying.
4. **xcm-bridge-hub**: opening, reopening and congestion signals, composed with the
   lane and with `XcmpQueue`.
5. **Proofs**: `Conservation` and `ServedInOrder` of the message queue; `ContentsCounted` and
   `DigestCovers` of HRMP; `RewardedOnce` with cardinalities of intervals.
