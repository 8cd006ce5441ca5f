-------------------------------- MODULE Hrmp ---------------------------------
(***************************************************************************)
(* The relay chain's hrmp pallet at work: paras, governance and anyone     *)
(* call it, the deposit provider answers late or never, sessions change    *)
(* prices, limits and the paras there are, and candidates are backed,      *)
(* enacted or dropped.                                                     *)
(*                                                                         *)
(* One of the Scenarios is chosen at the start and says which of this      *)
(* happens.  A call that fails has no effect and is no step.  Blocks are   *)
(* counted, up to scenario.max_block, only where there are candidates.     *)
(***************************************************************************)
EXTENDS HrmpStorage

CONSTANTS Scenarios   \* records, see MCHrmp

ASSUME ScenarioAssumption ==
  \A sc \in Scenarios : sc.calls \cup sc.links \cup DOMAIN sc.preopen \subseteq Channels

\* The limits on channels do not change, and genesis respects them.
ASSUME LimitsAssumption ==
  \A sc \in Scenarios :
    /\ sc.config.max_outbound \in Nat /\ sc.config.max_inbound \in Nat
    /\ \A cfg \in sc.configs : /\ cfg.max_outbound = sc.config.max_outbound
                               /\ cfg.max_inbound = sc.config.max_inbound
    /\ \A p \in Paras :
         /\ Cardinality(of_side(DOMAIN sc.preopen, p, 1)) <= sc.config.max_outbound
         /\ Cardinality(of_side(DOMAIN sc.preopen, p, 2)) <= sc.config.max_inbound

\* max_relay_parent_session_age is unsigned.
ASSUME AgeAssumption ==
  \A sc \in Scenarios : \A cfg \in sc.configs : cfg.session_age \in Nat

VARIABLES
  scenario,       \* the one chosen
  s,              \* the storage of the pallet and the deposit provider
  config,         \* configuration::ActiveConfig
  lifecycle,      \* paras::ParaLifecycles: "valid", "offboarding", "gone", "onboarding"
  due,            \* paras::ActionsQueue: in how many session changes the lifecycle goes on
  now,            \* the number of the block
  starts,         \* shared::MinimumRelayParentNumber: the first relay parent of each session
                  \* whose relay parents are kept, the current session last
  backed,         \* inclusion::PendingAvailability: the candidates of each para
  backing,        \* whether this block's inherent is past enacting candidates
  context         \* paras::MostRecentContext, 0 if there is none

vars == <<scenario, s, config, lifecycle, due, now, starts, backed, backing, context>>
paras == <<lifecycle, due>>
inclusion == <<now, starts, backed, backing, context>>
environment == <<scenario, config, paras, inclusion>>

valid == {p \in Paras : lifecycle[p] = "valid"}
exists(p) == lifecycle[p] \in {"valid", "offboarding"}

Last(seq) == seq[Len(seq)]

-----------------------------------------------------------------------------
(* Deposit requests of the calls                                             *)

with_total(limits, cfg) ==
  [capacity |-> limits.capacity, message_size |-> limits.message_size,
   total_size |-> cfg.max_total_size]

init_request(ch, limits, cfg) ==
  [changes |-> <<change(0, required_deposits(ch, cfg)[1]), None>>,
   action |-> "InitOpenChannel", limits |-> with_total(limits, cfg)]

init_and_accept_request(ch, limits, cfg) ==
  [changes |-> [i \in Sides |-> change(0, required_deposits(ch, cfg)[i])],
   action |-> "InitAndAcceptOpenChannel", limits |-> with_total(limits, cfg)]

accept_request(st, ch, cfg) ==
  [changes |-> <<None, change(0, required_deposits(ch, cfg)[2])>>,
   action |-> "AcceptOpenChannel", limits |-> st.open_requests[ch].limits]

poke_request(st, ch, cfg) ==
  [changes |-> [i \in Sides |-> change(st.channels[ch].deposits[i], required_deposits(ch, cfg)[i])],
   action |-> "PokeChannelDeposits", limits |-> None]

\* init_open_channel, accept_open_channel and init_and_accept_open_channel: whether they
\* succeed in storage st, and the storage they leave.
can_init(st, ch, limits) ==
  /\ check_init_open_channel(st, ch, limits, config, valid)
  /\ can_set_deposit(st, ch, init_request(ch, limits, config), config, valid)
init_open_channel(st, ch, limits) == set_deposit(st, ch, init_request(ch, limits, config))

can_accept(st, ch) ==
  /\ check_accept_open_channel(st, ch, config)
  /\ can_set_deposit(st, ch, accept_request(st, ch, config), config, valid)
accept_open_channel(st, ch) == set_deposit(st, ch, accept_request(st, ch, config))

can_init_and_accept(st, ch, limits) ==
  /\ check_init_open_channel(st, ch, limits, config, valid)
  /\ check_accept_limit(st, ch[2], config)
  /\ can_set_deposit(st, ch, init_and_accept_request(ch, limits, config), config, valid)
init_and_accept_open_channel(st, ch, limits, cfg) ==
  set_deposit(st, ch, init_and_accept_request(ch, limits, cfg))

-----------------------------------------------------------------------------
(* Genesis: initialize_storage makes and accepts requests for the channels   *)
(* of scenario.preopen, a function from channels to limits, and opens them.  *)

initialize_storage(sc, cfg) ==
  LET requests == [ch \in DOMAIN sc.preopen |-> init_and_accept_request(ch, sc.preopen[ch], cfg)]
      done == {ch \in DOMAIN requests : ~sc.remote \/ unchanged(requests[ch])}
      preopened == [ask(empty_storage(sc.remote), requests) EXCEPT
        !.open_requests = [ch \in done |-> [confirmed |-> TRUE, limits |-> requests[ch].limits,
                                            deposit |-> required_deposits(ch, cfg)[1]]],
        !.open_count = [p \in Paras |-> Cardinality(of_side(done, p, 1))],
        !.accepted_count = [p \in Paras |-> Cardinality(of_side(done, p, 2))]]
  IN  process_hrmp_open_channel_requests(preopened, cfg, Paras)

Init ==
  /\ scenario \in Scenarios
  /\ config = scenario.config
  /\ s = initialize_storage(scenario, scenario.config)
  /\ lifecycle = [p \in Paras |-> "valid"] /\ due = [p \in Paras |-> 0]
  /\ now = 1 /\ starts = <<0>>
  /\ backed = [p \in Paras |-> <<>>] /\ backing = FALSE
  /\ context = [p \in Paras |-> 0]

-----------------------------------------------------------------------------
(* Calls                                                                     *)

HrmpInitOpenChannel(ch, limits) ==
  /\ can_init(s, ch, limits)
  /\ s' = init_open_channel(s, ch, limits)
  /\ UNCHANGED environment

HrmpAcceptOpenChannel(ch) ==
  /\ exists(ch[2])
  /\ can_accept(s, ch)
  /\ s' = accept_open_channel(s, ch)
  /\ UNCHANGED environment

\* Either participant may close, at the next session change.
HrmpCloseChannel(ch) ==
  /\ exists(ch[1]) \/ exists(ch[2])
  /\ ch \in opened(s)
  /\ ch \notin s.close_requests
  /\ s' = [s EXCEPT !.close_requests = @ \cup {ch}]
  /\ UNCHANGED environment

\* Either participant may cancel a request that is not accepted.
HrmpCancelOpenRequest(ch) ==
  /\ exists(ch[1]) \/ exists(ch[2])
  /\ ch \in requested(s)
  /\ ~s.open_requests[ch].confirmed
  /\ s' = cancel_open_request(s, ch)
  /\ UNCHANGED environment

ForceCleanHrmp(p) ==
  /\ s' = clean_hrmp_after_outgoing(s, {p})
  /\ UNCHANGED environment

ForceProcessHrmpOpen ==
  /\ s' = process_hrmp_open_channel_requests(s, config, valid)
  /\ UNCHANGED environment

ForceProcessHrmpClose ==
  /\ s' = process_hrmp_close_channel_requests(s)
  /\ UNCHANGED environment

\* A request there is is cancelled first, which fails if it is confirmed.
ForceOpenHrmpChannel(ch, limits) ==
  LET st == IF ch \notin requested(s) THEN s ELSE cancel_open_request(s, ch)
  IN  /\ ch \notin confirmed(s)
      /\ can_init_and_accept(st, ch, limits)
      /\ s' = init_and_accept_open_channel(st, ch, limits, config)
      /\ UNCHANGED environment

EstablishSystemChannel(ch) ==
  LET limits == [capacity |-> config.max_capacity, message_size |-> config.max_message_size]
      st == init_open_channel(s, ch, limits)
  IN  /\ {ch[1], ch[2]} \subseteq System
      /\ can_init(s, ch, limits)
      /\ can_accept(st, ch)
      /\ s' = accept_open_channel(st, ch)
      /\ UNCHANGED environment

PokeChannelDeposits(ch) ==
  /\ ch \in opened(s)
  /\ s.channels[ch].deposits # required_deposits(ch, config)
  /\ can_set_deposit(s, ch, poke_request(s, ch, config), config, valid)
  /\ s' = set_deposit(s, ch, poke_request(s, ch, config))
  /\ UNCHANGED environment

\* Opens the channel ch to a system chain and the one back; limits are those of
\* T::DefaultChannelSizeAndCapacityWithSystem.
EstablishChannelWithSystem(ch, limits) ==
  LET back == <<ch[2], ch[1]>>
      st1 == init_open_channel(s, ch, limits)
      st2 == accept_open_channel(st1, ch)
      st3 == init_open_channel(st2, back, limits)
  IN  /\ exists(ch[1]) /\ ch[2] \in System /\ back \in Channels
      /\ can_init(s, ch, limits) /\ can_accept(st1, ch)
      /\ can_init(st2, back, limits) /\ can_accept(st3, back)
      /\ s' = accept_open_channel(st3, back)
      /\ UNCHANGED environment

-----------------------------------------------------------------------------
(* The remote deposit provider                                               *)

\* Works off the k-th request for a channel, if none before it is for one of its sides.  It goes
\* by its own records, may refuse, and answers all but a release, which it always applies.
ProcessRequest(ch, k, ok) ==
  LET request == s.asked[ch][k]
      moved == [i \in Sides |-> IF request.changes[i] = None THEN s.held[ch][i]
                                ELSE request.changes[i].target]
  IN  /\ \A j \in 1 .. k - 1, i \in Sides : ~(names(s.asked[ch][j], i) /\ names(request, i))
      /\ request.action = "Release" => ok
      /\ s' = [s EXCEPT
           !.asked[ch] = SubSeq(@, 1, k - 1) \o SubSeq(@, k + 1, Len(@)),
           !.held[ch] = IF ok THEN moved ELSE @,
           !.answers = IF request.action = "Release" THEN @
                       ELSE @ \cup {[channel |-> ch, request |-> request, ok |-> ok]}]
      /\ UNCHANGED environment

OnDepositSet(answer) ==
  /\ s' = on_deposit_set([s EXCEPT !.answers = @ \ {answer}], answer.channel, answer.request,
                         answer.ok, config, valid)
  /\ UNCHANGED environment

-----------------------------------------------------------------------------
(* Sessions                                                                  *)

SESSION_DELAY == 2

\* The para leaves two session changes later ...
ScheduleParaCleanup(p) ==
  /\ lifecycle[p] = "valid"
  /\ lifecycle' = [lifecycle EXCEPT ![p] = "offboarding"]
  /\ due' = [due EXCEPT ![p] = SESSION_DELAY]
  /\ UNCHANGED <<scenario, s, config, inclusion>>

\* ... and comes back two session changes after it is registered, or more if the check of its code
\* takes longer: meanwhile it counts as gone, as it is not valid and no call is open to it.
ScheduleParaInitialize(p) ==
  /\ lifecycle[p] = "gone"
  /\ lifecycle' = [lifecycle EXCEPT ![p] = "onboarding"]
  /\ due' = [due EXCEPT ![p] = SESSION_DELAY]
  /\ UNCHANGED <<scenario, s, config, inclusion>>

\* Relay parents are forgotten of sessions older than max_relay_parent_session_age; a higher age
\* brings none back.
kept_starts(cfg) ==
  LET all == Append(starts, now)
  IN  SubSeq(all, SaturatingSub(Len(all), cfg.session_age + 1) + 1, Len(all))

\* The new configuration is active and the lifecycles have changed when the pallet is called, with
\* the configuration before.  Candidates that are not enacted are dropped.  Every session has a
\* block; those after max_block are not counted.
InitializerOnNewSession(new_config) ==
  LET outgoing == {p \in Paras : lifecycle[p] = "offboarding" /\ due[p] = 1}
      incoming == {p \in Paras : lifecycle[p] = "onboarding" /\ due[p] = 1}
      after == [p \in Paras |-> IF p \in outgoing THEN "gone"
                                ELSE IF p \in incoming THEN "valid" ELSE lifecycle[p]]
      cleaned == perform_outgoing_para_cleanup(s, config, outgoing)
      enacted == process_hrmp_open_channel_requests(cleaned, config, {p \in Paras : after[p] = "valid"})
  IN  /\ Last(starts) < now \/ now = scenario.max_block
      /\ config' = new_config
      /\ lifecycle' = after
      /\ due' = [p \in Paras |-> SaturatingSub(due[p], 1)]
      /\ s' = process_hrmp_close_channel_requests(enacted)
      /\ starts' = kept_starts(new_config)
      /\ backed' = [p \in Paras |-> <<>>]
      /\ context' = reset(context, outgoing, 0)
      /\ UNCHANGED <<scenario, now, backing>>

-----------------------------------------------------------------------------
(* Candidates.  In a block, candidates are enacted or dropped first, then    *)
(* new ones are checked against the storage and backed.                      *)

\* shared::AllowedRelayParents: of every session kept, the parents of its blocks.
allowed_relay_parents == Head(starts) .. now - 1

\* Fault: a candidate may be built on an older relay parent than the one before.
fault_most_recent_context(p) == 0

para_most_recent_context(p) ==
  IF backed[p] = <<>> THEN context[p] ELSE Last(backed[p]).relay_parent

BackCandidate(p, relay_parent, watermark, msgs) ==
  /\ exists(p)
  /\ relay_parent \in allowed_relay_parents
  /\ Len(backed[p]) < scenario.cores
  /\ relay_parent >= para_most_recent_context(p)
  /\ check_hrmp_watermark(s, p, relay_parent, watermark)
  /\ check_outbound_hrmp(s, config, p, msgs)
  /\ backed' = [backed EXCEPT ![p] = Append(@,
       [relay_parent |-> relay_parent, watermark |-> watermark, msgs |-> msgs])]
  /\ backing' = TRUE
  /\ UNCHANGED <<scenario, s, config, paras, now, starts, context>>

EnactCandidate(p) ==
  LET candidate == Head(backed[p])
  IN  /\ ~backing
      /\ backed[p] # <<>>
      /\ s' = queue_outbound_hrmp(prune_hrmp(s, p, candidate.watermark), now, p, candidate.msgs)
      /\ backed' = [backed EXCEPT ![p] = Tail(@)]
      /\ context' = [context EXCEPT ![p] = candidate.relay_parent]
      /\ UNCHANGED <<scenario, config, paras, now, starts, backing>>

\* free_failed_cores: the k-th candidate timed out or is disputed, those after it go too.
DropCandidates(p, k) ==
  /\ ~backing
  /\ backed' = [backed EXCEPT ![p] = SubSeq(@, 1, k - 1)]
  /\ UNCHANGED <<scenario, s, config, paras, now, starts, backing, context>>

NextBlock ==
  /\ now < scenario.max_block
  /\ now' = now + 1
  /\ backing' = FALSE
  /\ UNCHANGED <<scenario, s, config, paras, starts, backed, context>>

-----------------------------------------------------------------------------
(* Specification                                                             *)

\* What a candidate of p may send.
Outbound(p) ==
  UNION {[R -> scenario.sizes] : R \in SUBSET {ch[2] : ch \in of_side(scenario.links, p, 1)}}

ParaCalls ==
  \E ch \in scenario.calls :
    \/ \E limits \in scenario.limits : HrmpInitOpenChannel(ch, limits)
    \/ HrmpAcceptOpenChannel(ch)
    \/ HrmpCloseChannel(ch)
    \/ HrmpCancelOpenRequest(ch)
    \/ PokeChannelDeposits(ch)

ManagerCalls ==
  \/ \E p \in scenario.cleaned : ForceCleanHrmp(p)
  \/ /\ scenario.forced
     /\ \/ ForceProcessHrmpOpen
        \/ ForceProcessHrmpClose
        \/ \E ch \in scenario.links, limits \in scenario.limits : ForceOpenHrmpChannel(ch, limits)

SystemCalls ==
  \E ch \in scenario.links :
    \/ EstablishSystemChannel(ch)
    \/ \E limits \in scenario.limits : EstablishChannelWithSystem(ch, limits)

Provider ==
  \/ \E ch \in Channels : \E k \in 1 .. Len(s.asked[ch]), ok \in BOOLEAN : ProcessRequest(ch, k, ok)
  \/ \E answer \in s.answers : OnDepositSet(answer)

Sessions ==
  \/ \E p \in scenario.leaving : ScheduleParaCleanup(p) \/ ScheduleParaInitialize(p)
  \/ \E new_config \in scenario.configs : InitializerOnNewSession(new_config)

\* The relay parents and watermarks a candidate of p comes with: any if p receives messages, the
\* latest block if it only sends.  In the last block none is backed: it would not be enacted any
\* more.
Contexts(p) ==
  LET parents == IF now < scenario.max_block THEN 0 .. now - 1 ELSE {}
  IN  IF of_side(scenario.links, p, 2) # {} THEN parents \X (0 .. now)
      ELSE {<<block, block>> : block \in IF scenario.sizes = {} THEN {} ELSE parents \cap {now - 1}}

Candidates ==
  \E p \in {ch[i] : ch \in scenario.links, i \in Sides} :
    \/ \E ctx \in Contexts(p), msgs \in Outbound(p) : BackCandidate(p, ctx[1], ctx[2], msgs)
    \/ EnactCandidate(p)
    \/ scenario.failing /\ \E k \in 1 .. Len(backed[p]) : DropCandidates(p, k)

Next ==
  ParaCalls \/ ManagerCalls \/ SystemCalls \/ Provider \/ Sessions \/ Candidates \/ NextBlock

Spec == Init /\ [][Next]_vars

-----------------------------------------------------------------------------
(* Properties                                                                *)

Limit == [capacity: Nat, message_size: Nat, total_size: Nat]

\* Types of the storage.  The counters of a channel are unsigned: that prune_hrmp never takes
\* more from them than they count is part of it (hrmp.rs:1374).
TypeOK ==
  /\ requested(s) \cup opened(s) \subseteq Channels
  /\ \A ch \in requested(s) :
       s.open_requests[ch] \in [confirmed: BOOLEAN, deposit: Nat, limits: Limit]
  /\ \A ch \in opened(s) :
       s.channels[ch] \in [deposits: [Sides -> Nat], limits: Limit, msg_count: Nat, total_size: Nat]
  /\ s.close_requests \subseteq Channels
  /\ {s.open_count, s.accepted_count, s.reserved} \subseteq [Paras -> Nat]
  /\ {s.ingress, s.egress} \subseteq [Paras -> SUBSET Paras]
  /\ s.watermarks \in [Paras -> Nat \cup {None}]
  /\ lifecycle \in [Paras -> {"valid", "offboarding", "gone", "onboarding"}]

unsettled(ch, i) ==
  awaits_answer(s, ch, i) \/ \E k \in 1 .. Len(s.asked[ch]) : names(s.asked[ch][k], i)

recorded(ch, i) == recorded_deposits(s, ch, config)[i]
AlwaysPriced == \A cfg \in scenario.configs, i \in Sides : cfg.deposits[i] > 0

\* No deposit is lost, kept or given back twice: what is reserved on a para's account is the sum
\* of what its requests and channels record; a remote provider holds, for every side about which
\* nothing is under way, what the pallet records (deposits.rs, release_deposits and resume), however
\* calls, late answers, price changes and offboardings meet.  It may hold less, but never keeps
\* more, if channels are free of deposits at times: see DepositsHeld.
DepositsAccounted ==
  IF s.remote
  THEN \A ch \in Channels, i \in Sides :
         \/ unsettled(ch, i)
         \/ s.held[ch][i] = recorded(ch, i)
         \/ ~AlwaysPriced /\ s.held[ch][i] < recorded(ch, i)
  ELSE LET amount(side) == recorded(side[1], side[2])
       IN  \A p \in Paras : s.reserved[p] =
             MapThenSumSet(amount, {side \in Channels \X Sides : side[1][side[2]] = p})

\* The sender_deposit of a request is "the amount that the sender supplied at the time of creation
\* of this request" (hrmp.rs:129), and those of a channel likewise: the provider holds what is
\* recorded, unless something about the side is under way.
DepositsHeld ==
  s.remote => \A ch \in Channels, i \in Sides : unsettled(ch, i) \/ s.held[ch][i] >= recorded(ch, i)

\* A deposit that was taken for an action that cannot resume any more can be given back: no deposit
\* is recorded on a side it names, so that on_deposit_set never comes to its "a failed resume left
\* a deposit recorded" (deposits.rs:192).
FailedResumeOwesNothing ==
  \A answer \in s.answers :
    answer.ok /\ ~can_resume(s, answer.channel, answer.request, config, valid) =>
      \A i \in Sides : names(answer.request, i) => recorded(answer.channel, i) = 0

\* The counters of requests made and accepted agree with the requests, unless force_clean_hrmp
\* reset them (storage documentation, hrmp.rs:418).
CountsMatch ==
  scenario.cleaned = {} =>
    \A p \in Paras : /\ s.open_count[p] = Cardinality(of_side(requested(s), p, 1))
                     /\ s.accepted_count[p] = Cardinality(of_side(confirmed(s), p, 2))

\* Ingress and egress index list the open channels and nothing else (hrmp.rs:462).
IndexesMatch ==
  \A p \in Paras : /\ s.egress[p] = {ch[2] : ch \in of_side(opened(s), p, 1)}
                   /\ s.ingress[p] = {ch[1] : ch \in of_side(opened(s), p, 2)}

\* No para has more channels and requests than the configuration allows, also if deposits asked
\* for when there was room arrive when there is none (resume checks again).
WithinChannelLimits ==
  scenario.cleaned = {} =>
    \A p \in Paras :
      /\ Cardinality(of_side(opened(s) \cup requested(s), p, 1)) <= config.max_outbound
      /\ Cardinality(of_side(opened(s) \cup confirmed(s), p, 2)) <= config.max_inbound

\* Offboarding leaves no channel and no request of the para behind, whatever answer arrives later.
ParticipantsExist ==
  \A ch \in opened(s) \cup requested(s) : exists(ch[1]) /\ exists(ch[2])

\* The counters of a channel are those of its contents, and a closed channel has none.
ContentsCounted ==
  \A ch \in Channels :
    IF ch \notin opened(s) THEN s.contents[ch] = <<>>
    ELSE /\ s.channels[ch].msg_count = Len(s.contents[ch])
         /\ s.channels[ch].total_size = total(s.contents[ch])

\* The recipient's digest names the block and sender of every message in a channel, so that pruning
\* up to any watermark finds it (prune_hrmp looks no further than the digest).
DigestCovers ==
  \A ch \in Channels : \A k \in DOMAIN s.contents[ch] :
    <<s.contents[ch][k].sent_at, ch[1]>> \in s.digests[ch[2]]

waiting(ch) == {k \in DOMAIN backed[ch[1]] : ch[2] \in DOMAIN backed[ch[1]][k].msgs}

\* A channel holds at most one message more than its capacity for every candidate that may be
\* pending besides the first, each being checked against the same storage; the capacity itself
\* if a para has one core.
OvershootBounded ==
  \A ch \in opened(s) :
    s.channels[ch].msg_count + Cardinality(waiting(ch))
      <= s.channels[ch].limits.capacity + scenario.cores - 1

\* A message leaves an open channel only when a candidate of the recipient is enacted that was
\* built on a block in which the message was there to be read.
LeavesOnlyRead ==
  [][\A ch \in opened(s) \cap opened(s') :
         \A k \in DOMAIN s.contents[ch] :
           \/ \E j \in DOMAIN s'.contents[ch] : s'.contents[ch][j] = s.contents[ch][k]
           \/ /\ Len(backed'[ch[2]]) < Len(backed[ch[2]])
              /\ s.contents[ch][k].sent_at <= Head(backed[ch[2]]).relay_parent]_vars

\* Whether relay parents are kept no longer than a change of the paras is delayed.
RelayParentsExpire ==
  \A cfg \in scenario.configs : cfg.session_age <= SESSION_DELAY

\* "we require each parablock's watermark to be greater than the last one" (hrmp.rs:1181), but
\* check_hrmp_watermark lets any relay parent through.  With one candidate pending at a time the
\* watermark of a para moves back at most with its first candidate after it was onboarded again,
\* and only if relay parents outlast the delay of its leaving and returning: its watermark is left
\* behind when it goes, the context that keeps relay parents in order is not.
WatermarkNeverBack ==
  [][scenario.cores = 1 =>
       \A p \in Paras : s.watermarks[p] # None =>
         \/ s'.watermarks[p] >= s.watermarks[p]
         \/ ~RelayParentsExpire /\ context[p] < s.watermarks[p]]_vars
==============================================================================
