----------------------------- MODULE HrmpStorage -----------------------------
(***************************************************************************)
(* The storage of the relay chain's hrmp pallet and the operations on it,  *)
(* with the holder of the channel deposits.                                *)
(*                                                                         *)
(* A channel is a pair <<sender, recipient>>; its two sides are 1 and 2,   *)
(* so that ch[i] is the para of side i.  A storage s is a record           *)
(*   [open_requests, open_count, accepted_count, close_requests, channels, *)
(*    ingress, egress, contents, digests, watermarks,                      *)
(*    remote, asked, answers, held, reserved].                             *)
(* The last five are the deposit provider.  Either the pallet itself       *)
(* (remote = FALSE), which reserves on the paras' accounts within the      *)
(* call, or a provider on another chain, which holds an amount for each    *)
(* side of a channel, works off the requests `asked' and sends `answers'.  *)
(*                                                                         *)
(* A storage map is a function whose domain are the keys that are there.   *)
(* A set and the list that accompanies it for iteration are kept as one,   *)
(* and what iterates over the list is written for all its items at once:   *)
(* no two of them touch the same entry.  Left out: the notifications sent  *)
(* down to the paras and the MQC heads, which nothing here reads, and the  *)
(* witness counts of calls.                                                *)
(***************************************************************************)
EXTENDS Integers, Sequences, FiniteSets, FiniteSetsExt

CONSTANTS
  Paras,     \* the parachains
  System,    \* those that are system chains
  Channels,  \* pairs of different paras that may be connected
  None       \* no watermark, no change of a deposit

ASSUME HrmpAssumption ==
  /\ IsFiniteSet(Paras) /\ System \subseteq Paras
  /\ Channels \subseteq {ch \in Paras \X Paras : ch[1] # ch[2]}

Sides == 1 .. 2

SaturatingSub(m, n) == IF m > n THEN m - n ELSE 0

\* The channels of `set' of which p is the para of side i.
of_side(set, p, i) == {ch \in set : ch[i] = p}

requested(s) == DOMAIN s.open_requests
confirmed(s) == {ch \in requested(s) : s.open_requests[ch].confirmed}
opened(s) == DOMAIN s.channels

\* The map f with the key k, and without the keys of `set'.
with(f, k, v) == [j \in DOMAIN f \cup {k} |-> IF j = k THEN v ELSE f[j]]
without(f, set) == [k \in DOMAIN f \ set |-> f[k]]

\* The map f, whose keys have a default, with the keys of `set' removed.
reset(f, set, default) == [k \in DOMAIN f |-> IF k \in set THEN default ELSE f[k]]

empty_storage(remote) ==
  [open_requests |-> [ch \in {} |-> None], open_count |-> [p \in Paras |-> 0],
   accepted_count |-> [p \in Paras |-> 0], close_requests |-> {},
   channels |-> [ch \in {} |-> None],
   ingress |-> [p \in Paras |-> {}], egress |-> [p \in Paras |-> {}],
   contents |-> [ch \in Channels |-> <<>>], digests |-> [p \in Paras |-> {}],
   watermarks |-> [p \in Paras |-> None],
   remote |-> remote, asked |-> [ch \in Channels |-> <<>>],
   answers |-> {}, held |-> [ch \in Channels |-> <<0, 0>>],
   reserved |-> [p \in Paras |-> 0]]

-----------------------------------------------------------------------------
(* Deposits                                                                  *)

\* DepositChange, and what a request says of the side it leaves alone.
change(current, target) == [current |-> current, target |-> target]

required_deposits(ch, config) ==
  IF {ch[1], ch[2]} \cap System # {} THEN <<0, 0>> ELSE config.deposits

recorded_deposits(s, ch, config) ==
  IF ch \in opened(s) THEN s.channels[ch].deposits
  ELSE IF ch \notin requested(s) THEN <<0, 0>>
  ELSE <<s.open_requests[ch].deposit,
         IF s.open_requests[ch].confirmed THEN required_deposits(ch, config)[2] ELSE 0>>

unchanged(request) ==
  \A i \in Sides : request.changes[i] = None \/ request.changes[i].current = request.changes[i].target

names(request, i) == request.changes[i] # None

\* try_set_deposit of the pallet: what the changes add to and take from the account of p.
\* An unreserve takes no more than there is.
reserved_after(s, p, requests) ==
  LET changes == {side \in (DOMAIN requests) \X Sides :
                    side[1][side[2]] = p /\ names(requests[side[1]], side[2])}
      delta(side) == requests[side[1]].changes[side[2]].target - requests[side[1]].changes[side[2]].current
  IN  SaturatingSub(s.reserved[p] + MapThenSumSet(delta, changes), 0)

\* The provider applies or takes in a request for each of the channels of `requests'.
ask(s, requests) ==
  IF s.remote
  THEN [s EXCEPT !.asked = [ch \in Channels |->
         IF ch \in DOMAIN requests /\ ~unchanged(requests[ch])
         THEN Append(@[ch], requests[ch]) ELSE @[ch]]]
  ELSE [s EXCEPT !.reserved = [p \in Paras |-> reserved_after(s, p, requests)]]

\* Whether a remote provider still owes the answer to a request for side i of ch.
awaits_answer(s, ch, i) ==
  \/ \E k \in 1 .. Len(s.asked[ch]) : s.asked[ch][k].action # "Release" /\ names(s.asked[ch][k], i)
  \/ \E answer \in s.answers : answer.channel = ch /\ names(answer.request, i)

\* release_deposits for each channel of `set'; Currents(ch)[i] is what side i holds, None to
\* leave it alone.
release_deposits(s, set, Currents(_)) ==
  ask(s, [ch \in set |->
    [changes |-> [i \in Sides |-> IF Currents(ch)[i] = None THEN None
                                  ELSE change(Currents(ch)[i], 0)],
     action |-> "Release", limits |-> None]])

-----------------------------------------------------------------------------
(* Opening and closing                                                       *)

\* Fault: the counters are not kept from going below zero.
fault_decreased(counts, set, i) ==
  [p \in Paras |-> counts[p] - Cardinality(of_side(set, p, i))]

\* decrease_open_channel_request_count, decrease_accepted_channel_request_count: counts
\* less the channels of `set' by their para of side i, zero at least.
decreased(counts, set, i) ==
  [p \in Paras |-> SaturatingSub(counts[p], Cardinality(of_side(set, p, i)))]

\* Fault: the sender's index keeps the channels.
fault_index_kept(index, set, i) ==
  IF i = 1 THEN index ELSE [p \in Paras |-> index[p] \ {ch[3 - i] : ch \in of_side(set, p, i)}]

\* An index by the para of side i with the channels of `set' taken out, or put in.
index_without(index, set, i) == [p \in Paras |-> index[p] \ {ch[3 - i] : ch \in of_side(set, p, i)}]
index_with(index, set, i) == [p \in Paras |-> index[p] \cup {ch[3 - i] : ch \in of_side(set, p, i)}]

\* close_hrmp_channel for each channel of `set', open or not.
close_hrmp_channels(s, set) ==
  LET rel == release_deposits(s, set \cap opened(s), LAMBDA ch : s.channels[ch].deposits)
  IN  [rel EXCEPT !.channels = without(@, set),
                  !.contents = reset(@, set, <<>>),
                  !.egress = index_without(@, set, 1),
                  !.ingress = index_without(@, set, 2)]

\* Fault: a deposit of the recipient is given back although it did not accept yet.
fault_taken_always(s, ch, config) == required_deposits(ch, config)[2]

\* What the recipient of an open request deposited.
recipient_taken(s, ch, config) ==
  IF s.open_requests[ch].confirmed THEN required_deposits(ch, config)[2] ELSE None

\* The requests of `go' are removed and the deposits of both sides given back.
without_requests(s, config, go, outgoing) ==
  LET rel == release_deposits(s, go, LAMBDA ch :
               <<s.open_requests[ch].deposit, recipient_taken(s, ch, config)>>)
  IN  [rel EXCEPT !.open_requests = without(@, go),
                  !.accepted_count = decreased(@, go \cap confirmed(s), 2),
                  !.open_count = decreased(@, {ch \in go : ch[1] \notin outgoing}, 1)]

\* Fault: only the requests that an outgoing para made are removed.
fault_clean_own_requests(s, config, outgoing) ==
  without_requests(s, config, {ch \in requested(s) : ch[1] \in outgoing}, outgoing)

clean_open_channel_requests(s, config, outgoing) ==
  without_requests(s, config, {ch \in requested(s) : {ch[1], ch[2]} \cap outgoing # {}}, outgoing)

\* clean_hrmp_after_outgoing for each para of `outgoing'.
clean_hrmp_after_outgoing(s, outgoing) ==
  LET to_close == {ch \in Channels : \/ ch[2] \in outgoing /\ ch[1] \in s.ingress[ch[2]]
                                     \/ ch[1] \in outgoing /\ ch[2] \in s.egress[ch[1]]}
  IN  close_hrmp_channels(
        [s EXCEPT !.open_count = reset(@, outgoing, 0),
                  !.accepted_count = reset(@, outgoing, 0),
                  !.ingress = reset(@, outgoing, {}),
                  !.egress = reset(@, outgoing, {})], to_close)

perform_outgoing_para_cleanup(s, config, outgoing) ==
  clean_hrmp_after_outgoing(clean_open_channel_requests(s, config, outgoing), outgoing)

new_channel(request, recipient_deposit) ==
  [deposits |-> <<request.deposit, recipient_deposit>>, limits |-> request.limits,
   msg_count |-> 0, total_size |-> 0]

\* Confirmed requests become channels, or are given back if a para is not valid any more.
process_hrmp_open_channel_requests(s, config, valid) ==
  LET done == confirmed(s)
      enacted == {ch \in done : ch[1] \in valid /\ ch[2] \in valid}
      price(ch) == required_deposits(ch, config)[2]
      rel == release_deposits(s, done \ enacted, LAMBDA ch : <<s.open_requests[ch].deposit, price(ch)>>)
  IN  [rel EXCEPT
         !.channels = [ch \in DOMAIN @ \cup enacted |->
           IF ch \in enacted THEN new_channel(s.open_requests[ch], price(ch)) ELSE @[ch]],
         !.ingress = index_with(@, enacted, 2),
         !.egress = index_with(@, enacted, 1),
         !.open_count = decreased(@, done, 1),
         !.accepted_count = decreased(@, done, 2),
         !.open_requests = without(@, done)]

process_hrmp_close_channel_requests(s) ==
  close_hrmp_channels([s EXCEPT !.close_requests = {}], s.close_requests)

-----------------------------------------------------------------------------
(* Requests that are resumed once their deposits are set                     *)

check_init_open_channel(s, ch, limits, config, valid) ==
  /\ ch[1] \in valid /\ ch[2] \in valid
  /\ limits.capacity \in 1 .. config.max_capacity
  /\ limits.message_size \in 1 .. config.max_message_size
  /\ ch \notin requested(s)
  /\ ch \notin opened(s)
  /\ Cardinality(s.egress[ch[1]]) + s.open_count[ch[1]] < config.max_outbound

finish_init_open_channel(s, ch, sender_deposit, limits) ==
  [s EXCEPT !.open_count[ch[1]] = @ + 1,
            !.open_requests =
              with(@, ch, [confirmed |-> FALSE, deposit |-> sender_deposit, limits |-> limits])]

check_accept_limit(s, p, config) ==
  Cardinality(s.ingress[p]) + s.accepted_count[p] < config.max_inbound

check_accept_open_channel(s, ch, config) ==
  /\ ch \in requested(s)
  /\ ~s.open_requests[ch].confirmed
  /\ check_accept_limit(s, ch[2], config)

finish_accept_open_channel(s, ch) ==
  [s EXCEPT !.open_requests[ch].confirmed = TRUE, !.accepted_count[ch[2]] = @ + 1]

check_recipient_deposit(request, ch, config) ==
  request.changes[2].target = required_deposits(ch, config)[2]

\* Fault: the deposits of a channel that is about to close are not recorded any more.
fault_check_poke(s, ch, request) ==
  /\ ch \in opened(s) /\ ch \notin s.close_requests
  /\ \A i \in Sides : request.changes[i] = None \/ request.changes[i].current = s.channels[ch].deposits[i]

\* The checks of finish_poke_channel_deposits and what it writes.
check_poke(s, ch, request) ==
  /\ ch \in opened(s)
  /\ \A i \in Sides : request.changes[i] = None \/ request.changes[i].current = s.channels[ch].deposits[i]

finish_poke_channel_deposits(s, ch, request) ==
  [s EXCEPT !.channels[ch].deposits =
     [i \in Sides |-> IF request.changes[i] = None THEN @[i] ELSE request.changes[i].target]]

\* Fault: the number of channels is only checked when the deposit is asked for.
fault_check_init(s, ch, request, config, valid) ==
  check_init_open_channel([s EXCEPT !.open_count[ch[1]] = -100], ch, request.limits, config, valid)

check_init(s, ch, request, config, valid) ==
  check_init_open_channel(s, ch, request.limits, config, valid)

\* Whether the action of a request passes its checks now.
can_resume(s, ch, request, config, valid) ==
  \/ /\ request.action = "InitOpenChannel"
     /\ check_init(s, ch, request, config, valid)
  \/ /\ request.action = "InitAndAcceptOpenChannel"
     /\ check_init(s, ch, request, config, valid)
     /\ check_accept_limit(s, ch[2], config)
     /\ check_recipient_deposit(request, ch, config)
  \/ /\ request.action = "AcceptOpenChannel"
     /\ check_accept_open_channel(s, ch, config)
     /\ s.open_requests[ch].limits.capacity = request.limits.capacity
     /\ s.open_requests[ch].limits.message_size = request.limits.message_size
     /\ check_recipient_deposit(request, ch, config)
  \/ /\ request.action = "PokeChannelDeposits"
     /\ check_poke(s, ch, request)

resume(s, ch, request) ==
  LET init == finish_init_open_channel(s, ch, request.changes[1].target, request.limits)
  IN  CASE request.action = "InitOpenChannel" -> init
        [] request.action = "InitAndAcceptOpenChannel" -> finish_accept_open_channel(init, ch)
        [] request.action = "AcceptOpenChannel" -> finish_accept_open_channel(s, ch)
        [] request.action = "PokeChannelDeposits" -> finish_poke_channel_deposits(s, ch, request)

\* Whether set_deposit succeeds: the provider takes the request in and, if it applies it within
\* the call, the action resumes.
can_set_deposit(s, ch, request, config, valid) ==
  IF s.remote /\ ~unchanged(request)
  THEN \A i \in Sides : names(request, i) => ~awaits_answer(s, ch, i)
  ELSE can_resume(s, ch, request, config, valid)

set_deposit(s, ch, request) ==
  LET asked == ask(s, [c \in {ch} |-> request])
  IN  IF s.remote /\ ~unchanged(request) THEN asked ELSE resume(asked, ch, request)

\* What on_deposit_set gives back of a side if the action does not resume: nothing if a
\* deposit is recorded there.
give_back(s, ch, request, config) ==
  [i \in Sides |-> IF request.changes[i] = None \/ recorded_deposits(s, ch, config)[i] # 0 THEN None
                   ELSE request.changes[i].target]

on_deposit_set(s, ch, request, ok, config, valid) ==
  IF ~ok THEN s
  ELSE IF can_resume(s, ch, request, config, valid) THEN resume(s, ch, request)
  ELSE release_deposits(s, {ch}, LAMBDA c : give_back(s, ch, request, config))

\* Fault: the request still counts as one of its sender's.
fault_cancel(s, ch) ==
  release_deposits([s EXCEPT !.open_requests = without(@, {ch})],
                   {ch}, LAMBDA c : <<s.open_requests[ch].deposit, None>>)

cancel_open_request(s, ch) ==
  release_deposits([s EXCEPT !.open_requests = without(@, {ch}),
                             !.open_count[ch[1]] = SaturatingSub(@, 1)],
                   {ch}, LAMBDA c : <<s.open_requests[ch].deposit, None>>)

-----------------------------------------------------------------------------
(* Messages.  A candidate sends at most one message to a recipient: msgs is  *)
(* a function from recipients to sizes.  digests[p] holds the pairs of a     *)
(* block and a para that sent p a message in it; the vector in storage may   *)
(* name a para twice for a block, which prune_hrmp does not notice.          *)

\* Fault: a watermark ahead of the relay parent is not refused.
fault_check_ahead(s, p, relay_parent, watermark) ==
  \/ watermark >= relay_parent
  \/ s.watermarks[p] # None /\ watermark = s.watermarks[p]
  \/ /\ s.watermarks[p] # None => watermark > s.watermarks[p]
     /\ \E entry \in s.digests[p] : entry[1] = watermark

check_hrmp_watermark(s, p, relay_parent, watermark) ==
  \/ watermark = relay_parent
  \/ /\ watermark < relay_parent
     /\ \/ s.watermarks[p] # None /\ watermark = s.watermarks[p]
        \/ /\ s.watermarks[p] # None => watermark > s.watermarks[p]
           /\ \E entry \in s.digests[p] : entry[1] = watermark

\* Fault: a message is let in when the channel is full already.
fault_check_capacity(channel, size) ==
  /\ size <= channel.limits.message_size
  /\ channel.total_size + size <= channel.limits.total_size
  /\ channel.msg_count <= channel.limits.capacity

has_capacity(channel, size) ==
  /\ size <= channel.limits.message_size
  /\ channel.total_size + size <= channel.limits.total_size
  /\ channel.msg_count + 1 <= channel.limits.capacity

check_outbound_hrmp(s, config, p, msgs) ==
  /\ Cardinality(DOMAIN msgs) <= config.max_message_num
  /\ \A q \in DOMAIN msgs :
       <<p, q>> \in opened(s) /\ has_capacity(s.channels[<<p, q>>], msgs[q])

total(contents) ==
  LET size(k) == contents[k].size IN MapThenSumSet(size, DOMAIN contents)

\* Fault: the size of what is pruned stays counted.
fault_channel_pruned(channel, pruned) == [channel EXCEPT !.msg_count = @ - Len(pruned)]

channel_pruned(channel, pruned) ==
  [channel EXCEPT !.msg_count = @ - Len(pruned), !.total_size = @ - total(pruned)]

prune_hrmp(s, p, watermark) ==
  LET done == {entry \in s.digests[p] : entry[1] <= watermark}
      to_prune == {ch \in Channels : ch[2] = p /\ \E entry \in done : entry[2] = ch[1]}
      pruned(ch) == SelectSeq(s.contents[ch], LAMBDA msg : msg.sent_at <= watermark)
      leftover(ch) == SelectSeq(s.contents[ch], LAMBDA msg : msg.sent_at > watermark)
  IN  [s EXCEPT
         !.digests[p] = @ \ done,
         !.contents = [ch \in Channels |-> IF ch \in to_prune THEN leftover(ch) ELSE @[ch]],
         !.channels = [ch \in DOMAIN @ |-> IF ch \in to_prune
                                           THEN channel_pruned(@[ch], pruned(ch)) ELSE @[ch]],
         !.watermarks[p] = watermark]

\* Fault: only the first para that sends to a recipient in a block is noted.
fault_noted(digest, now, p) == IF \E entry \in digest : entry[1] = now THEN digest ELSE digest \cup {<<now, p>>}

noted(digest, now, p) == digest \cup {<<now, p>>}

channel_queued(channel, size) == [channel EXCEPT !.msg_count = @ + 1, !.total_size = @ + size]

\* Messages to channels that are gone since the candidate was checked are dropped.
queue_outbound_hrmp(s, now, p, msgs) ==
  LET sent == {ch \in opened(s) : ch[1] = p /\ ch[2] \in DOMAIN msgs}
  IN  [s EXCEPT
         !.channels = [ch \in DOMAIN @ |-> IF ch \in sent
            THEN channel_queued(@[ch], msgs[ch[2]]) ELSE @[ch]],
         !.contents = [ch \in Channels |-> IF ch \in sent
            THEN Append(@[ch], [sent_at |-> now, size |-> msgs[ch[2]]]) ELSE @[ch]],
         !.digests = [q \in Paras |-> IF <<p, q>> \in sent THEN noted(@[q], now, p) ELSE @[q]]]
==============================================================================
