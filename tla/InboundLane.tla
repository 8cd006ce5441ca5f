----------------------------- MODULE InboundLane -----------------------------
(***************************************************************************)
(* The receiving end of a bridge lane, as data: who delivered which        *)
(* messages, and how far the sending end is known to have confirmed them.  *)
(***************************************************************************)
EXTENDS Integers, Sequences, FiniteSetsExt

CONSTANTS
  Relayers,
  MaxUnrewardedRelayers,   \* MAX_UNREWARDED_RELAYERS_IN_CONFIRMATION_TX
  MaxUnconfirmedMessages   \* MAX_UNCONFIRMED_MESSAGES_IN_CONFIRMATION_TX

\* A lane without an entry in the storage map is "Purged"; the record then holds
\* what it was when it was removed, which no operation reads any more.
LaneState == {"Opened", "Closed", "Purged"}

UnrewardedRelayer == [relayer: Relayers, begin: Nat, end: Nat]

InboundLaneData ==
  [relayers: Seq(UnrewardedRelayer), last_confirmed_nonce: Nat, state: LaneState]

opened_inbound_lane ==
  [relayers |-> <<>>, last_confirmed_nonce |-> 0, state |-> "Opened"]

\* RangeInclusiveExt::saturating_len.
saturating_len(begin, end) == IF end >= begin THEN end - begin + 1 ELSE 0

last_delivered_nonce(lane) ==
  IF lane.relayers = <<>> THEN lane.last_confirmed_nonce
  ELSE lane.relayers[Len(lane.relayers)].end

\* Fault: only the oldest entry is counted.
fault_front_only(lane) ==
  IF lane.relayers = <<>> THEN 0
  ELSE saturating_len(lane.relayers[1].begin, lane.relayers[1].end)

total_unrewarded_messages(lane) ==
  IF lane.relayers = <<>> THEN 0
  ELSE saturating_len(lane.relayers[1].begin, lane.relayers[Len(lane.relayers)].end)

\* Fault: the partly confirmed entry keeps its confirmed messages.
fault_no_trim(entry, nonce) == entry

\* The front entry once the messages up to `nonce' are confirmed.
trimmed(entry, nonce) ==
  IF entry.begin <= nonce THEN [entry EXCEPT !.begin = nonce + 1] ELSE entry

\* The entries left when everything up to `nonce' is confirmed: whole entries are
\* popped from the front, then the front one is trimmed.
unconfirmed(relayers, nonce) ==
  LET popped == Min({k \in 0 .. Len(relayers) :
                       k = Len(relayers) \/ relayers[k + 1].end > nonce})
      left == SubSeq(relayers, popped + 1, Len(relayers))
  IN  IF left = <<>> THEN left ELSE [left EXCEPT ![1] = trimmed(left[1], nonce)]

\* The two early returns of receive_state_update.
is_news(lane, latest_received) ==
  /\ latest_received <= last_delivered_nonce(lane)
  /\ latest_received > lane.last_confirmed_nonce

receive_state_update(lane, latest_received) ==
  IF is_news(lane, latest_received)
    THEN [lane EXCEPT !.last_confirmed_nonce = latest_received,
                      !.relayers = unconfirmed(@, latest_received)]
    ELSE lane

\* Fault: a message delivered before is accepted again.
fault_accept_old(lane, nonce) == nonce <= last_delivered_nonce(lane) + 1

is_next_nonce(lane, nonce) == nonce = last_delivered_nonce(lane) + 1

\* Fault: the number of entries is not limited.
fault_no_limit(lane, nonce) == TRUE

\* Fault: one entry less than configured fits.
fault_limit_off_by_one(lane, nonce) == Len(lane.relayers) + 1 < MaxUnrewardedRelayers

within_limits(lane, nonce) ==
  /\ Len(lane.relayers) < MaxUnrewardedRelayers
  /\ nonce <= lane.last_confirmed_nonce + MaxUnconfirmedMessages

\* receive_message dispatches the message ...
accepts(lane, nonce) == is_next_nonce(lane, nonce) /\ within_limits(lane, nonce)

\* ... and notes who delivered it.
noted(relayers, relayer, nonce) ==
  LET n == Len(relayers)
  IN  IF n > 0 /\ relayers[n].relayer = relayer
        THEN [relayers EXCEPT ![n].end = @ + 1]
        ELSE Append(relayers, [relayer |-> relayer, begin |-> nonce, end |-> nonce])

receive_message(lane, relayer, nonce) ==
  IF accepts(lane, nonce)
    THEN [lane EXCEPT !.relayers = noted(@, relayer, nonce)]
    ELSE lane

=============================================================================
