--------------------------- MODULE BridgeMessages ---------------------------
(***************************************************************************)
(* Two instances of the bridge messages pallet at the two ends of a lane,  *)
(* the source chain that sends and the target chain that receives, and     *)
(* the finality pallets that let each chain verify proofs of the other's   *)
(* storage.                                                                *)
(*                                                                         *)
(* A relayer may prove anything that was in the storage of the other chain *)
(* at one of the last HeadersToKeep headers imported from it, so what the  *)
(* calls receive may be old, repeated and out of order, never invented.    *)
(* Calls are atomic, except that the loop of receive_messages_proof takes  *)
(* one step per message; headers are imported only between calls.  A call  *)
(* that returns an error is rolled back, so it is no step at all.          *)
(***************************************************************************)
EXTENDS OutboundLane, FiniteSets

CONSTANTS
  None,
  HeadersToKeep,   \* T::HeadersToKeep of the finality pallets
  Modes,           \* the operating modes the pallets' owners use
  ClosableEnds,    \* the ends of the lane, "source" or "target", that may be closed
  MayPrune,        \* the may_prune_messages arguments of close_bridge
  MaxMessages      \* bound: messages ever sent

VARIABLES
  outLane,        \* OutboundLanes of the source
  outMessages,    \* OutboundMessages of the source: the nonces stored
  sourceMode,     \* PalletOperatingMode of the source
  inLane,         \* InboundLanes of the target
  targetMode,     \* PalletOperatingMode of the target
  delivery,       \* the loop of receive_messages_proof, None outside it
  sourceHeaders,  \* source storage at the headers the target knows, oldest first
  targetHeaders,  \* target storage at the headers the source knows, oldest first
  rewards,        \* RelayerRewards, in messages
  dispatched      \* history: messages dispatched, with the relayer of each

source == <<outLane, outMessages, sourceMode, rewards>>
target == <<inLane, targetMode, delivery, dispatched>>
vars == <<outLane, outMessages, sourceMode, inLane, targetMode, delivery,
          sourceHeaders, targetHeaders, rewards, dispatched>>

ASSUME BridgeAssumption ==
  /\ MaxMessages \in Nat /\ HeadersToKeep \in Nat \ {0}
  /\ MaxUnrewardedRelayers \in Nat /\ MaxUnconfirmedMessages \in Nat
  /\ MayPrune \subseteq Nat
  /\ None \notin [relayer: Relayers, next: Nat, end: Nat]

-----------------------------------------------------------------------------
(* The source chain                                                          *)

\* validate_message and send_message.
SendMessage ==
  /\ sourceMode = "Normal"
  /\ outLane.state = "Opened"
  /\ outLane.latest_generated_nonce < MaxMessages
  /\ outLane' = send_message(outLane)
  /\ outMessages' = outMessages \cup {outLane'.latest_generated_nonce}
  /\ UNCHANGED <<sourceMode, rewards, target, sourceHeaders, targetHeaders>>

\* receive_messages_delivery_proof of an inbound lane read at a known header.  The
\* answers "Nothing" and "Error" change nothing.
ReceiveMessagesDeliveryProof(header) ==
  LET inbound == header.lane
      confirmed == confirmed_messages(outLane, inbound)
      earned == calc_relayers_rewards(inbound.relayers, outLane.latest_received_nonce + 1,
                                      last_delivered_nonce(inbound))
  IN  /\ sourceMode # "Halted"
      /\ inbound.state # "Purged"
      /\ outLane.state # "Purged"
      /\ confirmation(outLane, inbound) = "Confirmed"
      /\ outLane' = confirm_delivery(outLane, inbound)
      /\ outMessages' = outMessages \ confirmed
      /\ rewards' = [r \in Relayers |-> rewards[r] + earned[r]]
      /\ UNCHANGED <<sourceMode, target, sourceHeaders, targetHeaders>>

\* close_bridge at the source.
CloseSource(may_prune) ==
  LET pruned == prunable(outLane, may_prune)
      oldest == outLane.oldest_unpruned_nonce
  IN  /\ "source" \in ClosableEnds
      /\ outLane.state # "Purged"
      /\ outLane' = close(outLane, pruned)
      /\ outMessages' = outMessages \ (oldest .. oldest + pruned - 1)
      /\ UNCHANGED <<sourceMode, rewards, target, sourceHeaders, targetHeaders>>

-----------------------------------------------------------------------------
(* The target chain                                                          *)

\* Fault: the loop is entered without a message.
fault_no_empty_check(relayer, begin, end) ==
  [relayer |-> relayer, next |-> begin, end |-> end]

\* The loop over the messages of a proof, which may have none.
messages_of_proof(relayer, begin, end) ==
  IF begin <= end THEN [relayer |-> relayer, next |-> begin, end |-> end] ELSE None

\* receive_messages_proof up to its loop: messages begin .. end, and the outbound
\* lane if with_state, read at a known header.
ReceiveMessagesProof(relayer, header, begin, end, with_state) ==
  /\ delivery = None
  /\ targetMode # "Halted"
  /\ saturating_len(begin, end) <= MaxUnconfirmedMessages
  /\ begin .. end \subseteq header.messages
  /\ with_state \/ begin <= end
  /\ with_state => header.lane.state # "Purged"
  /\ inLane.state = "Opened"
  /\ inLane' = IF with_state
                 THEN receive_state_update(inLane, header.lane.latest_received_nonce)
                 ELSE inLane
  /\ delivery' = messages_of_proof(relayer, begin, end)
  /\ UNCHANGED <<targetMode, dispatched, source, sourceHeaders, targetHeaders>>

\* One round of its loop.
ReceiveMessage ==
  LET nonce == delivery.next
      relayer == delivery.relayer
  IN  /\ delivery # None
      /\ inLane' = receive_message(inLane, relayer, nonce)
      /\ dispatched' = IF accepts(inLane, nonce)
                         THEN Append(dispatched, [nonce |-> nonce, relayer |-> relayer])
                         ELSE dispatched
      /\ delivery' = IF nonce = delivery.end THEN None
                     ELSE [delivery EXCEPT !.next = @ + 1]
      /\ UNCHANGED <<targetMode, source, sourceHeaders, targetHeaders>>

\* close_bridge at the target closes its inbound lane, and purges it if the lane in
\* the other direction has no messages left.
CloseTarget(state) ==
  /\ "target" \in ClosableEnds
  /\ delivery = None
  /\ inLane.state # "Purged"
  /\ inLane' = [inLane EXCEPT !.state = state]
  /\ UNCHANGED <<targetMode, delivery, dispatched, source, sourceHeaders, targetHeaders>>

-----------------------------------------------------------------------------
(* Finality and operation                                                    *)

\* insert_header of the finality pallet: the oldest header is pruned.
insert_header(headers, header) ==
  Append(IF Len(headers) = HeadersToKeep THEN Tail(headers) ELSE headers, header)

ImportSourceHeader ==
  /\ sourceHeaders' = insert_header(sourceHeaders, [lane |-> outLane, messages |-> outMessages])
  /\ UNCHANGED <<source, target, targetHeaders>>

ImportTargetHeader ==
  /\ delivery = None
  /\ targetHeaders' = insert_header(targetHeaders, [lane |-> inLane])
  /\ UNCHANGED <<source, target, sourceHeaders>>

SetOperatingMode ==
  \/ /\ sourceMode' \in Modes
     /\ UNCHANGED <<outLane, outMessages, rewards, target, sourceHeaders, targetHeaders>>
  \/ /\ delivery = None
     /\ targetMode' \in Modes
     /\ UNCHANGED <<inLane, delivery, dispatched, source, sourceHeaders, targetHeaders>>

-----------------------------------------------------------------------------

\* Both ends opened, as by the genesis configuration or by open_bridge.
Init ==
  /\ outLane = opened_outbound_lane
  /\ outMessages = {}
  /\ inLane = opened_inbound_lane
  /\ sourceMode = "Normal" /\ targetMode = "Normal"
  /\ delivery = None
  /\ sourceHeaders = <<>> /\ targetHeaders = <<>>
  /\ rewards = [r \in Relayers |-> 0]
  /\ dispatched = <<>>

Deliver ==
  \E r \in Relayers, i \in 1 .. Len(sourceHeaders), with_state \in BOOLEAN :
    \E begin \in 1 .. MaxMessages : \E end \in begin - 1 .. MaxMessages :
      ReceiveMessagesProof(r, sourceHeaders[i], begin, end, with_state)

Confirm == \E i \in 1 .. Len(targetHeaders) : ReceiveMessagesDeliveryProof(targetHeaders[i])

Next ==
  \/ SendMessage \/ Confirm \/ \E n \in MayPrune : CloseSource(n)
  \/ Deliver \/ ReceiveMessage \/ \E s \in {"Closed", "Purged"} : CloseTarget(s)
  \/ ImportSourceHeader \/ ImportTargetHeader \/ SetOperatingMode

Spec == Init /\ [][Next]_vars

\* What a relayer does over and over: it delivers the messages that follow the last
\* delivered one, with the state of the lane, and confirms what was delivered, each
\* proved at the newest header the other chain knows.
RelayMessages ==
  LET header == sourceHeaders[Len(sourceHeaders)]
      begin == last_delivered_nonce(inLane) + 1
      end == Min({header.lane.latest_generated_nonce,
                  last_delivered_nonce(inLane) + MaxUnconfirmedMessages})
  IN  /\ sourceHeaders # <<>>
      /\ \E r \in Relayers : ReceiveMessagesProof(r, header, begin, end, TRUE)

RelayConfirmations ==
  /\ targetHeaders # <<>>
  /\ ReceiveMessagesDeliveryProof(targetHeaders[Len(targetHeaders)])

\* A block executes the calls in it to the end, finality relayers keep importing
\* headers, and some relayer keeps relaying whatever others do.  Neither senders
\* nor the pallets' owners promise anything.
FairSpec ==
  /\ Spec
  /\ WF_vars(ReceiveMessage) /\ WF_vars(ImportSourceHeader) /\ SF_vars(ImportTargetHeader)
  /\ SF_vars(RelayMessages) /\ SF_vars(RelayConfirmations)

-----------------------------------------------------------------------------
(* Properties                                                                *)

InboundStates == {inLane} \cup {targetHeaders[i].lane : i \in 1 .. Len(targetHeaders)}

\* Every variable holds a value of the code's type; nonces are of sent messages.
\* (RewardedOnce says what the rewards are.)
TypeOK ==
  /\ outLane \in OutboundLaneData
  /\ outMessages \subseteq 1 .. MaxMessages
  /\ inLane \in InboundLaneData
  /\ sourceMode \in Modes \cup {"Normal"} /\ targetMode \in Modes \cup {"Normal"}
  /\ delivery \in [relayer: Relayers, next: 1 .. MaxMessages, end: 1 .. MaxMessages] \cup {None}
  /\ sourceHeaders \in Seq([lane: OutboundLaneData, messages: SUBSET (1 .. MaxMessages)])
  /\ targetHeaders \in Seq([lane: InboundLaneData])
  /\ DOMAIN rewards = Relayers
  /\ dispatched \in Seq([nonce: Nat, relayer: Relayers])

\* The two ends agree on the order of what happened to a message, whatever proofs
\* arrive late, twice or out of order: generated, then delivered, then confirmed at
\* the source, then known to the target as confirmed.
NonceOrder ==
  /\ inLane.last_confirmed_nonce <= outLane.latest_received_nonce
  /\ outLane.latest_received_nonce <= last_delivered_nonce(inLane)
  /\ last_delivered_nonce(inLane) <= outLane.latest_generated_nonce

\* The unrewarded entries cover exactly the nonces after the last confirmed one, in
\* order and without overlap ("all nonces in this queue are in range"), and each
\* names the relayer who really delivered them.
EntriesTellWhoDelivered ==
  LET entries == inLane.relayers
  IN  \A i \in 1 .. Len(entries) :
        /\ entries[i].begin = IF i = 1 THEN inLane.last_confirmed_nonce + 1
                                ELSE entries[i - 1].end + 1
        /\ entries[i].begin <= entries[i].end
        /\ \A n \in entries[i].begin .. entries[i].end :
             dispatched[n].relayer = entries[i].relayer

\* What a confirmation transaction must handle is bounded: the inbound lane never
\* has more unrewarded entries or unconfirmed messages than configured.
WithinLimits ==
  /\ Len(inLane.relayers) <= MaxUnrewardedRelayers
  /\ last_delivered_nonce(inLane) <= inLane.last_confirmed_nonce + MaxUnconfirmedMessages

\* No proof of the inbound lane, however old, is refused by confirm_delivery: its
\* errors are only for corrupted storage ("May be a result of invalid bridged chain
\* storage").
ConfirmationNeverFails == \A lane \in InboundStates : confirmation(outLane, lane) # "Error"

\* Unless its lane is closed, the source keeps exactly the messages that are not
\* confirmed: nothing undelivered is pruned, nothing confirmed is kept.
UnconfirmedAreStored ==
  outLane.state = "Opened" =>
    outMessages = outLane.latest_received_nonce + 1 .. outLane.latest_generated_nonce

\* Every confirmed message is rewarded once, to the relayer who delivered it, also
\* when entries are confirmed in parts and old entries are proved again.
RewardedOnce ==
  \A r \in Relayers :
    rewards[r] = Cardinality({n \in 1 .. outLane.latest_received_nonce :
                                dispatched[n].relayer = r})

Channel == INSTANCE MessageChannel WITH
  sent <- outLane.latest_generated_nonce, confirmed <- outLane.latest_received_nonce

\* The lane implements the channel: every message is dispatched exactly once, in the
\* order of sending, and confirmed only after that.
ChannelSpec == Channel!Spec

\* While the lane is open and no pallet is halted, every message sent is eventually
\* delivered and confirmed, also one sent before the source started to reject new
\* messages, and although the limits make the target refuse messages meanwhile.
EventuallyConfirmed ==
  \A n \in 1 .. MaxMessages :
    outLane.latest_generated_nonce >= n ~> outLane.latest_received_nonce >= n

=============================================================================
