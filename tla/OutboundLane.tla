---------------------------- MODULE OutboundLane ----------------------------
(***************************************************************************)
(* The sending end of a bridge lane, as data, and what it makes of the     *)
(* state of the receiving end when that is proved to it.                   *)
(***************************************************************************)
EXTENDS InboundLane

OutboundLaneData ==
  [oldest_unpruned_nonce: Nat, latest_received_nonce: Nat,
   latest_generated_nonce: Nat, state: LaneState]

opened_outbound_lane ==
  [oldest_unpruned_nonce |-> 1, latest_received_nonce |-> 0,
   latest_generated_nonce |-> 0, state |-> "Opened"]

\* OutboundLane::send_message; the message itself is saved by the caller.
send_message(lane) == [lane EXCEPT !.latest_generated_nonce = @ + 1]

\* None of the errors of ensure_unrewarded_relayers_are_correct: no empty entry,
\* each entry follows the one before it, none goes beyond the last delivered nonce.
unrewarded_relayers_are_correct(latest_delivered, relayers) ==
  \A i \in 1 .. Len(relayers) :
    /\ relayers[i].begin <= relayers[i].end
    /\ i > 1 => relayers[i].begin = relayers[i - 1].end + 1
    /\ relayers[i].end <= latest_delivered

\* What confirm_delivery answers for a proved inbound lane: "Nothing" is Ok(None),
\* "Confirmed" is Ok(Some(..)), "Error" is Err(_).  The relayer declares the number
\* of messages of the proved lane (UnrewardedRelayersState::is_valid checks it).
confirmation(lane, inbound) ==
  LET latest_delivered == last_delivered_nonce(inbound)
      total == saturating_len(lane.latest_received_nonce + 1, latest_delivered)
  IN  IF total = 0 THEN "Nothing"
      ELSE IF /\ latest_delivered <= lane.latest_generated_nonce
              /\ total <= total_unrewarded_messages(inbound)
              /\ unrewarded_relayers_are_correct(latest_delivered, inbound.relayers)
        THEN "Confirmed" ELSE "Error"

\* Fault: everything sent so far is pruned.
fault_prune_unconfirmed(lane, inbound) ==
  lane.latest_received_nonce + 1 .. lane.latest_generated_nonce

confirmed_messages(lane, inbound) ==
  lane.latest_received_nonce + 1 .. last_delivered_nonce(inbound)

\* Fault: the nonce after the last delivered one is taken for received.
fault_confirm_one_more(lane, inbound) ==
  [lane EXCEPT !.latest_received_nonce = last_delivered_nonce(inbound) + 1,
               !.oldest_unpruned_nonce = last_delivered_nonce(inbound) + 2]

confirm_delivery(lane, inbound) ==
  [lane EXCEPT !.latest_received_nonce = last_delivered_nonce(inbound),
               !.oldest_unpruned_nonce = last_delivered_nonce(inbound) + 1]

\* Fault: entries are rewarded whole.
fault_reward_whole_entries(relayers, begin, end) ==
  [r \in Relayers |->
     MapThenSumSet(LAMBDA i : saturating_len(relayers[i].begin, relayers[i].end),
                   {i \in 1 .. Len(relayers) : relayers[i].relayer = r})]

\* The number of messages each relayer is rewarded for, of those in begin .. end.
calc_relayers_rewards(relayers, begin, end) ==
  [r \in Relayers |->
     MapThenSumSet(LAMBDA i : saturating_len(Max({relayers[i].begin, begin}),
                                             Min({relayers[i].end, end})),
                   {i \in 1 .. Len(relayers) : relayers[i].relayer = r})]

\* How many messages one call of close_bridge prunes.
prunable(lane, may_prune) ==
  Min({may_prune, saturating_len(lane.oldest_unpruned_nonce, lane.latest_generated_nonce)})

\* close_bridge: the lane is closed, and purged once it has no messages left.
close(lane, pruned) ==
  LET oldest == lane.oldest_unpruned_nonce + pruned
  IN  [lane EXCEPT !.oldest_unpruned_nonce = oldest,
                   !.state = IF oldest <= lane.latest_generated_nonce
                               THEN "Closed" ELSE "Purged"]

=============================================================================
