----------------------- MODULE BridgeMessages_proofs -----------------------
(***************************************************************************)
(* The two ends of a bridge lane stay in agreement, for any number of      *)
(* relayers, messages and headers kept, and the lane implements the        *)
(* channel.                                                                *)
(***************************************************************************)
EXTENDS BridgeMessages, OutboundLane_proofs

Dispatched == [nonce: Nat, relayer: Relayers]
SourceHeader == [lane: OutboundLaneData, messages: SUBSET (1 .. MaxMessages)]
TargetHeader == [lane: InboundLaneData]

\* The target holds what it dispatched, in order; the messages the source stores
\* and the nonces are within what was generated.
LanesAgree ==
  /\ InboundOK(inLane, dispatched)
  /\ Len(dispatched) = last_delivered_nonce(inLane)
  /\ NonceOrder
  /\ outLane.latest_generated_nonce <= MaxMessages
  /\ outMessages \subseteq 1 .. outLane.latest_generated_nonce

\* What a header proves was so in the past, and both lanes only move forward.
SourceHeadersOK ==
  \A i \in 1 .. Len(sourceHeaders) :
    /\ sourceHeaders[i].lane.latest_received_nonce <= outLane.latest_received_nonce
    /\ sourceHeaders[i].messages \subseteq 1 .. outLane.latest_generated_nonce

TargetHeadersOK ==
  \A i \in 1 .. Len(targetHeaders) :
    /\ InboundOK(targetHeaders[i].lane, dispatched)
    /\ last_delivered_nonce(targetHeaders[i].lane) <= Len(dispatched)
    /\ targetHeaders[i].lane.last_confirmed_nonce <= inLane.last_confirmed_nonce

\* The loop only has messages that were generated.
DeliveryOK ==
  delivery # None =>
    delivery.next <= delivery.end /\ delivery.end <= outLane.latest_generated_nonce

IInv ==
  /\ TypeOK /\ LanesAgree /\ SourceHeadersOK /\ TargetHeadersOK /\ DeliveryOK
  /\ WithinLimits /\ UnconfirmedAreStored

-----------------------------------------------------------------------------

\* insert_header keeps headers that were there and the new one.
LEMMA HeaderInserted ==
  ASSUME NEW T, NEW headers \in Seq(T), NEW header \in T
  PROVE  /\ insert_header(headers, header) \in Seq(T)
         /\ \A i \in 1 .. Len(insert_header(headers, header)) :
              \/ insert_header(headers, header)[i] = header
              \/ \E j \in 1 .. Len(headers) : insert_header(headers, header)[i] = headers[j]
<1>1. CASE Len(headers) = HeadersToKeep
  <2>1. Len(headers) > 0 /\ headers # <<>>
    BY <1>1, BridgeAssumption
  <2> DEFINE t == Tail(headers)
  <2>2. /\ t \in Seq(T) /\ Len(t) = Len(headers) - 1
        /\ \A i \in 1 .. Len(headers) - 1 : t[i] = headers[i + 1]
    BY <2>1
  <2>3. insert_header(headers, header) = Append(t, header)
    BY <1>1 DEF insert_header
  <2> HIDE DEF t
  <2>4. /\ Append(t, header) \in Seq(T) /\ Len(Append(t, header)) = Len(headers)
        /\ \A i \in 1 .. Len(headers) :
             Append(t, header)[i] = IF i = Len(headers) THEN header ELSE t[i]
    BY <2>1, <2>2
  <2>5. ASSUME NEW i \in 1 .. Len(headers), i # Len(headers)
        PROVE  \E j \in 1 .. Len(headers) : t[i] = headers[j]
    <3>1. i + 1 \in 1 .. Len(headers) /\ i \in 1 .. Len(headers) - 1
      BY <2>5
    <3> QED BY <2>2, <3>1
  <2> QED BY <2>3, <2>4, <2>5
<1>2. CASE Len(headers) # HeadersToKeep
  BY <1>2 DEF insert_header
<1> QED BY <1>1, <1>2

LEMMA InitIInv == Init => IInv
<1> SUFFICES ASSUME Init PROVE IInv
  OBVIOUS
<1>1. inLane \in InboundLaneData /\ inLane.relayers = <<>> /\ inLane.last_confirmed_nonce = 0
  BY DEF Init, opened_inbound_lane, InboundLaneData, LaneState
<1>2. /\ outLane \in OutboundLaneData /\ outLane.latest_generated_nonce = 0
      /\ outLane.latest_received_nonce = 0
  BY DEF Init, opened_outbound_lane, OutboundLaneData, LaneState
<1>3. TypeOK
  BY <1>1, <1>2 DEF Init, TypeOK
<1>4. last_delivered_nonce(inLane) = 0
  BY <1>1 DEF last_delivered_nonce
<1>5. LanesAgree
  BY <1>1, <1>2, <1>4, BridgeAssumption DEF Init, LanesAgree, NonceOrder, InboundOK
<1>6. SourceHeadersOK /\ TargetHeadersOK /\ DeliveryOK
  BY DEF Init, SourceHeadersOK, TargetHeadersOK, DeliveryOK
<1>7. WithinLimits
  BY <1>1, <1>4, BridgeAssumption DEF WithinLimits
<1>8. UnconfirmedAreStored
  BY <1>2 DEF Init, UnconfirmedAreStored
<1> QED BY <1>3, <1>5, <1>6, <1>7, <1>8 DEF IInv

\* The types of the nonces, as the steps use them.
LEMMA Nonces ==
  ASSUME IInv
  PROVE  /\ outLane \in OutboundLaneData /\ inLane \in InboundLaneData
         /\ outLane.latest_generated_nonce \in Nat /\ outLane.latest_received_nonce \in Nat
         /\ inLane.last_confirmed_nonce \in Nat /\ last_delivered_nonce(inLane) \in Nat
         /\ Len(inLane.relayers) \in Nat
         /\ dispatched \in Seq(Dispatched)
         /\ sourceHeaders \in Seq(SourceHeader) /\ targetHeaders \in Seq(TargetHeader)
         /\ MaxMessages \in Nat
<1>1. /\ outLane \in OutboundLaneData /\ inLane \in InboundLaneData
      /\ dispatched \in Seq(Dispatched)
      /\ sourceHeaders \in Seq(SourceHeader) /\ targetHeaders \in Seq(TargetHeader)
  BY DEF IInv, TypeOK, Dispatched, SourceHeader, TargetHeader
<1>2. /\ inLane.last_confirmed_nonce \in Nat /\ Len(inLane.relayers) \in Nat
      /\ last_delivered_nonce(inLane) \in Nat
  <2>1. inLane.relayers \in Seq(UnrewardedRelayer)
    BY <1>1 DEF InboundLaneData
  <2> QED BY <2>1, LastDelivered DEF IInv, LanesAgree
<1>3. outLane.latest_generated_nonce \in Nat /\ outLane.latest_received_nonce \in Nat
  BY <1>1 DEF OutboundLaneData
<1> QED BY <1>1, <1>2, <1>3, BridgeAssumption

-----------------------------------------------------------------------------
(* The source chain                                                          *)

\* A step of the source that only moves its nonces forward keeps what the headers
\* and the loop rely on.
LEMMA SourceStep ==
  ASSUME IInv, UNCHANGED <<target, sourceHeaders, targetHeaders>>,
         outLane' \in OutboundLaneData, DOMAIN rewards' = Relayers,
         sourceMode' \in Modes \cup {"Normal"},
         outLane'.latest_generated_nonce <= MaxMessages,
         outLane.latest_generated_nonce <= outLane'.latest_generated_nonce,
         outLane.latest_received_nonce <= outLane'.latest_received_nonce,
         outLane'.latest_received_nonce <= last_delivered_nonce(inLane),
         outMessages' \subseteq 1 .. outLane'.latest_generated_nonce,
         UnconfirmedAreStored'
  PROVE  IInv'
<1> USE Nonces
<1>1. outLane'.latest_generated_nonce \in Nat /\ outLane'.latest_received_nonce \in Nat
  BY DEF OutboundLaneData
<1>2. outMessages' \subseteq 1 .. MaxMessages
  BY <1>1
<1>3. TypeOK'
  BY <1>2 DEF IInv, TypeOK, target
<1>4. LanesAgree'
  <2>1. last_delivered_nonce(inLane)' = last_delivered_nonce(inLane)
    BY DEF target, last_delivered_nonce
  <2>2. InboundOK(inLane, dispatched)'
    BY DEF target, InboundOK, IInv, LanesAgree
  <2>3. NonceOrder'
    BY SMTT(30), <1>1, <2>1 DEF NonceOrder, IInv, LanesAgree, target
  <2> QED BY <2>1, <2>2, <2>3 DEF LanesAgree, IInv, target
<1>5. SourceHeadersOK'
  <2> SUFFICES ASSUME NEW i \in 1 .. Len(sourceHeaders)
               PROVE  /\ sourceHeaders[i].lane.latest_received_nonce <= outLane'.latest_received_nonce
                      /\ sourceHeaders[i].messages \subseteq 1 .. outLane'.latest_generated_nonce
    BY DEF SourceHeadersOK
  <2>1. sourceHeaders[i] \in SourceHeader
    OBVIOUS
  <2>2. sourceHeaders[i].lane.latest_received_nonce \in Nat
    BY Zenon, <2>1 DEF SourceHeader, OutboundLaneData
  <2>3. /\ sourceHeaders[i].lane.latest_received_nonce <= outLane.latest_received_nonce
        /\ sourceHeaders[i].messages \subseteq 1 .. outLane.latest_generated_nonce
    BY DEF IInv, SourceHeadersOK
  <2>4. 1 .. outLane.latest_generated_nonce \subseteq 1 .. outLane'.latest_generated_nonce
    BY SMTT(30), <1>1
  <2> QED BY SMTT(30), <1>1, <2>2, <2>3, <2>4
<1>6. TargetHeadersOK'
  <2>1. inLane' = inLane /\ dispatched' = dispatched /\ targetHeaders' = targetHeaders
    BY DEF target
  <2> QED BY <2>1 DEF IInv, TargetHeadersOK
<1>7. DeliveryOK'
  <2>1. delivery # None => delivery.end \in Nat
    BY DEF IInv, TypeOK
  <2> QED BY SMTT(30), <1>1, <2>1 DEF IInv, DeliveryOK, target
<1>8. WithinLimits'
  BY DEF IInv, WithinLimits, target, last_delivered_nonce
<1> QED BY <1>3, <1>4, <1>5, <1>6, <1>7, <1>8 DEF IInv

LEMMA SendMessageIInv == IInv /\ SendMessage => IInv'
<1> SUFFICES ASSUME IInv, SendMessage PROVE IInv'
  OBVIOUS
<1>1. /\ outLane' \in OutboundLaneData
      /\ outLane'.latest_generated_nonce = outLane.latest_generated_nonce + 1
      /\ outLane'.latest_received_nonce = outLane.latest_received_nonce
      /\ outLane'.state = outLane.state
  BY Nonces, Sent DEF SendMessage
<1>2. outMessages' \subseteq 1 .. outLane'.latest_generated_nonce
  <2>1. outMessages' = outMessages \cup {outLane'.latest_generated_nonce}
    BY DEF SendMessage
  <2>2. outMessages \subseteq 1 .. outLane.latest_generated_nonce
    BY DEF IInv, LanesAgree
  <2>3. /\ outLane'.latest_generated_nonce \in 1 .. outLane'.latest_generated_nonce
        /\ 1 .. outLane.latest_generated_nonce \subseteq 1 .. outLane'.latest_generated_nonce
    <3> DEFINE g == outLane.latest_generated_nonce
    <3>1. g \in Nat /\ outLane'.latest_generated_nonce = g + 1
      BY <1>1, Nonces
    <3> HIDE DEF g
    <3> QED BY <3>1 DEF g
  <2> QED BY Zenon, <2>1, <2>2, <2>3
<1>3. /\ sourceMode' \in Modes \cup {"Normal"} /\ DOMAIN rewards' = Relayers
      /\ UNCHANGED <<target, sourceHeaders, targetHeaders>>
  BY DEF SendMessage, IInv, TypeOK
<1>4. outLane'.latest_generated_nonce <= MaxMessages
  BY <1>1, Nonces DEF SendMessage
<1>5. outLane'.latest_received_nonce <= last_delivered_nonce(inLane)
  BY <1>1 DEF IInv, LanesAgree, NonceOrder
<1>6. UnconfirmedAreStored'
  <2> SUFFICES ASSUME outLane.state = "Opened"
               PROVE  outMessages' = outLane'.latest_received_nonce + 1 .. outLane'.latest_generated_nonce
    BY <1>1 DEF UnconfirmedAreStored
  <2> DEFINE g == outLane.latest_generated_nonce
             l == outLane.latest_received_nonce
  <2>1. outMessages = l + 1 .. g
    BY DEF IInv, UnconfirmedAreStored
  <2>2. outMessages' = outMessages \cup {g + 1} /\ g \in Nat /\ l \in Nat /\ l <= g
    <3>1. l <= g
      BY Nonces DEF IInv, LanesAgree, NonceOrder
    <3> QED BY <1>1, <3>1, Nonces DEF SendMessage
  <2> HIDE DEF g, l
  <2>3. outMessages' = l + 1 .. g + 1
    BY <2>1, <2>2
  <2> QED BY <1>1, <2>3 DEF g, l
<1> QED BY <1>1, <1>2, <1>3, <1>4, <1>5, <1>6, Nonces, SourceStep

\* What the source learns from a header it knows.
LEMMA ProvedLane ==
  ASSUME IInv, NEW i \in 1 .. Len(targetHeaders)
  PROVE  /\ confirmation(outLane, targetHeaders[i].lane) # "Error"
         /\ confirmation(outLane, targetHeaders[i].lane) = "Confirmed" =>
              outLane.latest_received_nonce < last_delivered_nonce(targetHeaders[i].lane)
         /\ last_delivered_nonce(targetHeaders[i].lane) \in Nat
         /\ last_delivered_nonce(targetHeaders[i].lane) <= last_delivered_nonce(inLane)
<1> DEFINE lane == targetHeaders[i].lane
<1>1. /\ InboundOK(lane, dispatched)
      /\ last_delivered_nonce(lane) <= last_delivered_nonce(inLane)
      /\ lane.last_confirmed_nonce <= inLane.last_confirmed_nonce
  BY DEF IInv, TargetHeadersOK, LanesAgree
<1> HIDE DEF lane
<1>2. last_delivered_nonce(lane) \in Nat /\ lane.last_confirmed_nonce \in Nat
  BY <1>1, LastDelivered
<1>3. /\ lane.last_confirmed_nonce <= outLane.latest_received_nonce
      /\ last_delivered_nonce(lane) <= outLane.latest_generated_nonce
  BY SMTT(30), <1>1, <1>2, Nonces DEF IInv, LanesAgree, NonceOrder
<1>4. outLane \in OutboundLaneData
  BY Nonces
<1>5. /\ confirmation(outLane, lane) # "Error"
      /\ confirmation(outLane, lane) = "Confirmed" =>
           outLane.latest_received_nonce < last_delivered_nonce(lane)
  BY <1>1, <1>3, <1>4, ConfirmationSucceeds
<1> QED BY <1>1, <1>2, <1>5 DEF lane

LEMMA ConfirmIInv == IInv /\ Confirm => IInv'
<1> SUFFICES ASSUME IInv, NEW i \in 1 .. Len(targetHeaders),
                    ReceiveMessagesDeliveryProof(targetHeaders[i])
             PROVE  IInv'
  BY DEF Confirm
<1> DEFINE delivered == last_delivered_nonce(targetHeaders[i].lane)
<1>1. /\ outLane.latest_received_nonce < delivered /\ delivered \in Nat
      /\ delivered <= last_delivered_nonce(inLane)
  BY ProvedLane DEF ReceiveMessagesDeliveryProof
<1>2. /\ outLane' \in OutboundLaneData
      /\ outLane'.latest_generated_nonce = outLane.latest_generated_nonce
      /\ outLane'.latest_received_nonce = delivered
      /\ outLane'.state = outLane.state
  BY SMTT(30), <1>1, Nonces, DeliveryConfirmed DEF ReceiveMessagesDeliveryProof
<1>3. /\ sourceMode' \in Modes \cup {"Normal"}
      /\ UNCHANGED <<target, sourceHeaders, targetHeaders>>
  BY DEF ReceiveMessagesDeliveryProof, IInv, TypeOK
<1>4. DOMAIN rewards' = Relayers
  BY DEF ReceiveMessagesDeliveryProof
<1>5. outMessages' \subseteq 1 .. outLane'.latest_generated_nonce
  BY Zenon, <1>2 DEF ReceiveMessagesDeliveryProof, IInv, LanesAgree
<1>6. outLane'.latest_generated_nonce <= MaxMessages
  BY <1>2 DEF IInv, LanesAgree
<1>7. UnconfirmedAreStored'
  <2> SUFFICES ASSUME outLane.state = "Opened"
               PROVE  outMessages' = delivered + 1 .. outLane.latest_generated_nonce
    BY <1>2 DEF UnconfirmedAreStored
  <2> DEFINE g == outLane.latest_generated_nonce
             l == outLane.latest_received_nonce
  <2>1. outMessages = l + 1 .. g /\ g \in Nat /\ l \in Nat
    BY Nonces DEF IInv, UnconfirmedAreStored
  <2>2. outMessages' = outMessages \ (l + 1 .. delivered)
    BY DEF ReceiveMessagesDeliveryProof, confirmed_messages
  <2>3. l < delivered /\ delivered \in Nat
    BY <1>1
  <2> HIDE DEF g, l, delivered
  <2>4. outMessages' = delivered + 1 .. g
    BY <2>1, <2>2, <2>3
  <2> QED BY <2>4 DEF g
<1> HIDE DEF delivered
<1> QED BY SMTT(30), <1>1, <1>2, <1>3, <1>4, <1>5, <1>6, <1>7, Nonces, SourceStep

LEMMA CloseSourceIInv == ASSUME IInv, NEW n \in MayPrune, CloseSource(n) PROVE IInv'
<1>1. /\ outLane' \in OutboundLaneData
      /\ outLane'.latest_generated_nonce = outLane.latest_generated_nonce
      /\ outLane'.latest_received_nonce = outLane.latest_received_nonce
      /\ outLane'.state # "Opened"
  BY Zenon, Nonces, BridgeAssumption, LaneClosed DEF CloseSource
<1>2. /\ sourceMode' \in Modes \cup {"Normal"} /\ DOMAIN rewards' = Relayers
      /\ UNCHANGED <<target, sourceHeaders, targetHeaders>>
  BY DEF CloseSource, IInv, TypeOK
<1>3. outMessages' \subseteq 1 .. outLane'.latest_generated_nonce
  BY Zenon, <1>1 DEF CloseSource, IInv, LanesAgree
<1>4. /\ outLane'.latest_generated_nonce <= MaxMessages
      /\ outLane'.latest_received_nonce <= last_delivered_nonce(inLane)
  BY <1>1 DEF IInv, LanesAgree, NonceOrder
<1>5. UnconfirmedAreStored'
  BY <1>1 DEF UnconfirmedAreStored
<1> QED BY SMTT(30), <1>1, <1>2, <1>3, <1>4, <1>5, Nonces, SourceStep

-----------------------------------------------------------------------------
(* The target chain                                                          *)

DeliveryLoop == [relayer: Relayers, next: 1 .. MaxMessages, end: 1 .. MaxMessages]

\* A step of the target that keeps its own lane in order keeps what the headers
\* rely on, as it confirms no less and dispatches at most one message more.
LEMMA TargetStep ==
  ASSUME IInv, UNCHANGED <<source, sourceHeaders, targetHeaders>>,
         InboundOK(inLane', dispatched'), Len(dispatched') = last_delivered_nonce(inLane'),
         inLane'.last_confirmed_nonce >= inLane.last_confirmed_nonce,
         inLane'.last_confirmed_nonce <= outLane.latest_received_nonce,
         last_delivered_nonce(inLane') >= last_delivered_nonce(inLane),
         last_delivered_nonce(inLane') <= outLane.latest_generated_nonce,
         \/ dispatched' = dispatched
         \/ \E x \in Dispatched : dispatched' = Append(dispatched, x),
         delivery' \in DeliveryLoop \cup {None}, DeliveryOK',
         targetMode' \in Modes \cup {"Normal"}, WithinLimits'
  PROVE  IInv'
<1> USE Nonces
<1>1. /\ inLane' \in InboundLaneData /\ inLane'.last_confirmed_nonce \in Nat
      /\ last_delivered_nonce(inLane') \in Nat
  BY Zenon, LastDelivered DEF InboundOK
<1>2. dispatched' \in Seq(Dispatched)
  <2>1. CASE dispatched' = dispatched
    BY <2>1
  <2>2. ASSUME NEW x \in Dispatched, dispatched' = Append(dispatched, x)
        PROVE  dispatched' \in Seq(Dispatched)
    BY <2>2
  <2> QED BY <2>1, <2>2
<1>3. TypeOK'
  BY <1>1, <1>2 DEF IInv, TypeOK, source, DeliveryLoop, Dispatched
<1>4. NonceOrder'
  BY <1>1 DEF IInv, LanesAgree, NonceOrder, source
<1>5. LanesAgree'
  BY <1>4 DEF IInv, LanesAgree, source
<1>6. SourceHeadersOK'
  BY SMTT(30) DEF IInv, SourceHeadersOK, source
<1>7. TargetHeadersOK'
  <2> SUFFICES ASSUME NEW i \in 1 .. Len(targetHeaders)
               PROVE  /\ InboundOK(targetHeaders[i].lane, dispatched')
                      /\ last_delivered_nonce(targetHeaders[i].lane) <= Len(dispatched')
                      /\ targetHeaders[i].lane.last_confirmed_nonce <= inLane'.last_confirmed_nonce
    BY DEF TargetHeadersOK
  <2> DEFINE lane == targetHeaders[i].lane
  <2>1. /\ InboundOK(lane, dispatched)
        /\ last_delivered_nonce(lane) <= Len(dispatched)
        /\ lane.last_confirmed_nonce <= inLane.last_confirmed_nonce
    BY DEF IInv, TargetHeadersOK
  <2> HIDE DEF lane
  <2>2. last_delivered_nonce(lane) \in Nat /\ lane.last_confirmed_nonce \in Nat
    BY <2>1, LastDelivered
  <2>3. InboundOK(lane, dispatched')
    BY Zenon, <2>1, OldEntriesStay
  <2>4. last_delivered_nonce(lane) <= Len(dispatched')
    BY <1>1, <2>1, <2>2 DEF IInv, LanesAgree
  <2>5. lane.last_confirmed_nonce <= inLane'.last_confirmed_nonce
    BY SMTT(30), <1>1, <2>1, <2>2
  <2> QED BY <2>3, <2>4, <2>5 DEF lane
<1>8. UnconfirmedAreStored'
  BY DEF IInv, UnconfirmedAreStored, source
<1> QED BY <1>3, <1>5, <1>6, <1>7, <1>8 DEF IInv

LEMMA DeliverIInv == IInv /\ Deliver => IInv'
<1> SUFFICES ASSUME IInv, NEW r \in Relayers, NEW i \in 1 .. Len(sourceHeaders),
                    NEW with_state \in BOOLEAN, NEW begin \in 1 .. MaxMessages,
                    NEW end \in begin - 1 .. MaxMessages,
                    ReceiveMessagesProof(r, sourceHeaders[i], begin, end, with_state)
             PROVE  IInv'
  BY DEF Deliver
<1> USE Nonces
<1> DEFINE received == sourceHeaders[i].lane.latest_received_nonce
<1>1. received \in Nat /\ received <= outLane.latest_received_nonce
      /\ sourceHeaders[i].messages \subseteq 1 .. outLane.latest_generated_nonce
  <2>1. sourceHeaders[i] \in SourceHeader
    OBVIOUS
  <2>2. received \in Nat
    BY Zenon, <2>1 DEF SourceHeader, OutboundLaneData
  <2> QED BY SMTT(30), <2>2 DEF IInv, SourceHeadersOK
<1>2. InboundOK(inLane, dispatched) /\ Len(dispatched) = last_delivered_nonce(inLane) /\ NonceOrder
  BY DEF IInv, LanesAgree
<1>3. /\ dispatched' = dispatched
      /\ UNCHANGED <<source, sourceHeaders, targetHeaders>>
      /\ targetMode' \in Modes \cup {"Normal"}
      /\ delivery' = messages_of_proof(r, begin, end)
  BY DEF ReceiveMessagesProof, IInv, TypeOK
<1>4. \/ inLane' = inLane
      \/ inLane' = receive_state_update(inLane, received)
  BY DEF ReceiveMessagesProof
<1> HIDE DEF received
<1>5. /\ InboundOK(inLane', dispatched)
      /\ last_delivered_nonce(inLane') = last_delivered_nonce(inLane)
      /\ inLane'.last_confirmed_nonce >= inLane.last_confirmed_nonce
      /\ inLane'.last_confirmed_nonce <= outLane.latest_received_nonce
      /\ Len(inLane'.relayers) <= Len(inLane.relayers)
  <2>1. CASE inLane' = inLane
    BY <1>2, <2>1 DEF NonceOrder
  <2>2. CASE inLane' = receive_state_update(inLane, received)
    <3>1. /\ InboundOK(inLane', dispatched)
          /\ last_delivered_nonce(inLane') = last_delivered_nonce(inLane)
          /\ inLane'.last_confirmed_nonce =
               IF is_news(inLane, received) THEN received ELSE inLane.last_confirmed_nonce
          /\ Len(inLane'.relayers) <= Len(inLane.relayers)
      BY SMTT(30), <1>1, <1>2, <2>2, StateUpdate
    <3>2. is_news(inLane, received) => received > inLane.last_confirmed_nonce
      BY DEF is_news
    <3> QED BY SMTT(30), <1>1, <1>2, <3>1, <3>2 DEF NonceOrder
  <2> QED BY <1>4, <2>1, <2>2
<1>6. delivery' \in DeliveryLoop \cup {None} /\ DeliveryOK'
  <2>1. CASE begin <= end
    <3>1. end \in 1 .. outLane.latest_generated_nonce
      <4>1. end \in begin .. end
        BY <2>1
      <4> QED BY <1>1, <4>1 DEF ReceiveMessagesProof
    <3>2. delivery' = [relayer |-> r, next |-> begin, end |-> end] /\ end \in 1 .. MaxMessages
      BY <1>3, <2>1 DEF messages_of_proof
    <3> QED BY SMTT(30), <1>3, <2>1, <3>1, <3>2 DEF DeliveryLoop, DeliveryOK, source
  <2>2. CASE ~(begin <= end)
    BY <1>3, <2>2 DEF messages_of_proof, DeliveryOK
  <2> QED BY <2>1, <2>2
<1>7. WithinLimits'
  <2>1. /\ Len(inLane.relayers) <= MaxUnrewardedRelayers
        /\ last_delivered_nonce(inLane) <= inLane.last_confirmed_nonce + MaxUnconfirmedMessages
    BY DEF IInv, WithinLimits
  <2>2. inLane'.relayers \in Seq(UnrewardedRelayer) /\ inLane'.last_confirmed_nonce \in Nat
    BY <1>5 DEF InboundOK, InboundLaneData
  <2>3. Len(inLane'.relayers) \in Nat
    BY <2>2
  <2>4. Len(inLane'.relayers) <= MaxUnrewardedRelayers
    BY SMTT(30), <1>5, <2>1, <2>3, BridgeAssumption
  <2>5. last_delivered_nonce(inLane') <= inLane'.last_confirmed_nonce + MaxUnconfirmedMessages
    BY SMTT(30), <1>5, <2>1, <2>2, BridgeAssumption
  <2> QED BY <2>4, <2>5 DEF WithinLimits
<1>8. last_delivered_nonce(inLane') <= outLane.latest_generated_nonce
  BY <1>2, <1>5 DEF NonceOrder
<1> QED BY <1>2, <1>3, <1>5, <1>6, <1>7, <1>8, TargetStep

LEMMA ReceiveMessageIInv == IInv /\ ReceiveMessage => IInv'
<1> SUFFICES ASSUME IInv, ReceiveMessage PROVE IInv'
  OBVIOUS
<1> USE Nonces
<1> DEFINE nonce == delivery.next
           relayer == delivery.relayer
           x == [nonce |-> nonce, relayer |-> relayer]
<1>1. /\ delivery # None /\ delivery \in DeliveryLoop
      /\ delivery.next <= delivery.end /\ delivery.end <= outLane.latest_generated_nonce
  BY DEF ReceiveMessage, IInv, TypeOK, DeliveryOK, DeliveryLoop
<1>2. nonce \in 1 .. MaxMessages /\ relayer \in Relayers /\ delivery.end \in 1 .. MaxMessages
  BY <1>1 DEF DeliveryLoop
<1>3. /\ InboundOK(inLane, dispatched) /\ Len(dispatched) = last_delivered_nonce(inLane)
      /\ NonceOrder
  BY DEF IInv, LanesAgree
<1>4. /\ UNCHANGED <<source, sourceHeaders, targetHeaders>>
      /\ targetMode' \in Modes \cup {"Normal"}
  BY DEF ReceiveMessage, IInv, TypeOK
<1>5. delivery' \in DeliveryLoop \cup {None} /\ DeliveryOK'
  <2>1. CASE nonce = delivery.end
    BY <2>1 DEF ReceiveMessage, DeliveryOK
  <2>2. CASE nonce # delivery.end
    <3>1. delivery' = [delivery EXCEPT !.next = delivery.next + 1]
      BY <2>2 DEF ReceiveMessage
    <3>2. delivery.next + 1 \in 1 .. MaxMessages /\ delivery.next + 1 <= delivery.end
      BY SMTT(30), <1>1, <1>2, <2>2
    <3>3. /\ delivery' \in DeliveryLoop /\ delivery'.next = delivery.next + 1
          /\ delivery'.end = delivery.end
      BY Zenon, <1>1, <3>1, <3>2 DEF DeliveryLoop
    <3>4. outLane' = outLane
      BY <1>4 DEF source
    <3> QED BY <1>1, <3>2, <3>3, <3>4 DEF DeliveryOK
  <2> QED BY <2>1, <2>2
<1>6. CASE accepts(inLane, nonce)
  <2>1. inLane' = receive_message(inLane, relayer, nonce) /\ dispatched' = Append(dispatched, x)
    BY <1>6 DEF ReceiveMessage
  <2>2. x \in Dispatched /\ nonce \in Nat
    BY <1>2 DEF Dispatched
  <2> HIDE DEF nonce, relayer
  <2>3. /\ InboundOK(inLane', dispatched') /\ last_delivered_nonce(inLane') = nonce
        /\ nonce = last_delivered_nonce(inLane) + 1
        /\ inLane'.last_confirmed_nonce = inLane.last_confirmed_nonce
        /\ Len(inLane'.relayers) <= Len(inLane.relayers) + 1
    <3>1. dispatched \in Seq([nonce: Nat, relayer: Relayers])
      BY DEF Dispatched
    <3>2. /\ InboundOK(inLane', Append(dispatched, x)) /\ last_delivered_nonce(inLane') = nonce
          /\ nonce = last_delivered_nonce(inLane) + 1
          /\ inLane'.last_confirmed_nonce = inLane.last_confirmed_nonce
          /\ Len(inLane'.relayers) <= Len(inLane.relayers) + 1
      BY Zenon, <1>2, <1>3, <1>6, <2>1, <2>2, <3>1, MessageNoted
    <3> QED BY <2>1, <3>2
  <2> HIDE DEF x
  <2>4. Len(dispatched') = last_delivered_nonce(inLane')
    BY SMTT(30), <1>3, <2>1, <2>2, <2>3
  <2>5. WithinLimits'
    <3>1. /\ Len(inLane.relayers) < MaxUnrewardedRelayers
          /\ nonce <= inLane.last_confirmed_nonce + MaxUnconfirmedMessages
      BY <1>6 DEF accepts, within_limits
    <3>2. Len(inLane'.relayers) \in Nat
      <4>1. inLane'.relayers \in Seq(UnrewardedRelayer)
        BY <2>3 DEF InboundOK, InboundLaneData
      <4> QED BY <4>1
    <3> QED BY SMTT(30), <2>3, <3>1, <3>2, BridgeAssumption DEF WithinLimits
  <2>6. nonce <= outLane.latest_generated_nonce
    BY <1>1, <1>2 DEF nonce
  <2>7. /\ inLane'.last_confirmed_nonce >= inLane.last_confirmed_nonce
        /\ inLane'.last_confirmed_nonce <= outLane.latest_received_nonce
        /\ last_delivered_nonce(inLane') >= last_delivered_nonce(inLane)
        /\ last_delivered_nonce(inLane') <= outLane.latest_generated_nonce
    BY SMTT(30), <1>3, <2>3, <2>6 DEF NonceOrder
  <2> QED BY <1>4, <1>5, <2>1, <2>2, <2>3, <2>4, <2>5, <2>7, TargetStep
<1>7. CASE ~accepts(inLane, nonce)
  <2>1. inLane' = inLane /\ dispatched' = dispatched
    BY <1>7 DEF ReceiveMessage, receive_message
  <2>2. WithinLimits'
    BY SMTT(30), <2>1 DEF WithinLimits, IInv
  <2> QED BY <1>3, <1>4, <1>5, <2>1, <2>2, TargetStep DEF NonceOrder
<1> QED BY <1>6, <1>7

LEMMA CloseTargetIInv ==
  ASSUME IInv, NEW s \in {"Closed", "Purged"}, CloseTarget(s) PROVE IInv'
<1>1. /\ inLane' \in InboundLaneData /\ inLane'.relayers = inLane.relayers
      /\ inLane'.last_confirmed_nonce = inLane.last_confirmed_nonce
  BY Zenon, Nonces DEF CloseTarget, InboundLaneData, LaneState
<1>2. last_delivered_nonce(inLane') = last_delivered_nonce(inLane)
  BY <1>1 DEF last_delivered_nonce
<1>3. /\ UNCHANGED <<source, sourceHeaders, targetHeaders, dispatched>>
      /\ targetMode' \in Modes \cup {"Normal"} /\ delivery' = None
  BY DEF CloseTarget, IInv, TypeOK
<1>4. InboundOK(inLane', dispatched')
  BY <1>1, <1>3, SameEntries DEF IInv, LanesAgree
<1>5. WithinLimits' /\ DeliveryOK'
  BY <1>1, <1>2, <1>3 DEF IInv, WithinLimits, DeliveryOK
<1> QED BY <1>1, <1>2, <1>3, <1>4, <1>5, Nonces, TargetStep DEF IInv, LanesAgree, NonceOrder

-----------------------------------------------------------------------------
(* Finality and operation                                                    *)

LEMMA ImportSourceHeaderIInv == IInv /\ ImportSourceHeader => IInv'
<1> SUFFICES ASSUME IInv, ImportSourceHeader PROVE IInv'
  OBVIOUS
<1> DEFINE header == [lane |-> outLane, messages |-> outMessages]
<1>1. sourceHeaders' = insert_header(sourceHeaders, header)
  BY DEF ImportSourceHeader
<1>2. /\ header \in SourceHeader /\ header.lane.latest_received_nonce <= outLane.latest_received_nonce
      /\ header.messages \subseteq 1 .. outLane.latest_generated_nonce
  <2>1. outMessages \subseteq 1 .. MaxMessages
    BY DEF IInv, TypeOK
  <2> QED BY <2>1, Nonces DEF SourceHeader, IInv, LanesAgree
<1> HIDE DEF header
<1>3. /\ sourceHeaders' \in Seq(SourceHeader)
      /\ \A i \in 1 .. Len(sourceHeaders') :
           \/ sourceHeaders'[i] = header
           \/ \E j \in 1 .. Len(sourceHeaders) : sourceHeaders'[i] = sourceHeaders[j]
  <2>1. sourceHeaders \in Seq(SourceHeader) /\ header \in SourceHeader
    BY <1>2, Nonces
  <2> DEFINE new == insert_header(sourceHeaders, header)
  <2>2. /\ new \in Seq(SourceHeader)
        /\ \A i \in 1 .. Len(new) :
             new[i] = header \/ \E j \in 1 .. Len(sourceHeaders) : new[i] = sourceHeaders[j]
    BY <2>1, HeaderInserted
  <2> HIDE DEF new
  <2>3. sourceHeaders' = new
    BY <1>1 DEF new
  <2> QED BY <2>2, <2>3
<1>4. UNCHANGED <<outLane, outMessages, sourceMode, inLane, targetMode, delivery,
                  targetHeaders, rewards, dispatched>>
  BY DEF ImportSourceHeader, source, target
<1>5. TypeOK'
  BY SMTT(30), <1>3, <1>4 DEF IInv, TypeOK, SourceHeader
<1>6. SourceHeadersOK'
  BY <1>2, <1>3, <1>4 DEF IInv, SourceHeadersOK
<1>7. LanesAgree' /\ DeliveryOK' /\ WithinLimits' /\ UnconfirmedAreStored'
  BY <1>4 DEF IInv, LanesAgree, NonceOrder, DeliveryOK, WithinLimits, UnconfirmedAreStored
<1>8. TargetHeadersOK'
  BY <1>4 DEF IInv, TargetHeadersOK
<1> QED BY <1>5, <1>6, <1>7, <1>8 DEF IInv

LEMMA ImportTargetHeaderIInv == IInv /\ ImportTargetHeader => IInv'
<1> SUFFICES ASSUME IInv, ImportTargetHeader PROVE IInv'
  OBVIOUS
<1> DEFINE header == [lane |-> inLane]
<1>1. targetHeaders' = insert_header(targetHeaders, header)
  BY DEF ImportTargetHeader
<1>2. header \in TargetHeader /\ header.lane = inLane
  BY Nonces DEF TargetHeader
<1> HIDE DEF header
<1>3. /\ targetHeaders' \in Seq(TargetHeader)
      /\ \A i \in 1 .. Len(targetHeaders') :
           \/ targetHeaders'[i] = header
           \/ \E j \in 1 .. Len(targetHeaders) : targetHeaders'[i] = targetHeaders[j]
  <2>1. targetHeaders \in Seq(TargetHeader) /\ header \in TargetHeader
    BY <1>2, Nonces
  <2> DEFINE new == insert_header(targetHeaders, header)
  <2>2. /\ new \in Seq(TargetHeader)
        /\ \A i \in 1 .. Len(new) :
             new[i] = header \/ \E j \in 1 .. Len(targetHeaders) : new[i] = targetHeaders[j]
    BY <2>1, HeaderInserted
  <2> HIDE DEF new
  <2>3. targetHeaders' = new
    BY <1>1 DEF new
  <2> QED BY <2>2, <2>3
<1>4. UNCHANGED <<outLane, outMessages, sourceMode, inLane, targetMode, delivery,
                  sourceHeaders, rewards, dispatched>>
  BY DEF ImportTargetHeader, source, target
<1>5. TypeOK'
  BY <1>3, <1>4 DEF IInv, TypeOK, TargetHeader
<1>6. TargetHeadersOK'
  <2>1. /\ InboundOK(inLane, dispatched) /\ last_delivered_nonce(inLane) <= Len(dispatched)
        /\ inLane.last_confirmed_nonce <= inLane.last_confirmed_nonce
    BY Nonces DEF IInv, LanesAgree
  <2> QED BY <1>2, <1>3, <1>4, <2>1 DEF IInv, TargetHeadersOK
<1>7. LanesAgree' /\ DeliveryOK' /\ WithinLimits' /\ UnconfirmedAreStored'
  BY <1>4 DEF IInv, LanesAgree, NonceOrder, DeliveryOK, WithinLimits, UnconfirmedAreStored
<1>8. SourceHeadersOK'
  BY <1>4 DEF IInv, SourceHeadersOK
<1> QED BY <1>5, <1>6, <1>7, <1>8 DEF IInv

\* Neither a change of the operating modes nor a stuttering step touches the lanes.
LEMMA QuietIInv ==
  ASSUME IInv, UNCHANGED <<outLane, outMessages, inLane, delivery, sourceHeaders,
                           targetHeaders, rewards, dispatched>>,
         sourceMode' \in Modes \cup {"Normal"}, targetMode' \in Modes \cup {"Normal"}
  PROVE  IInv'
<1>1. TypeOK'
  BY DEF IInv, TypeOK
<1>2. LanesAgree' /\ DeliveryOK' /\ WithinLimits' /\ UnconfirmedAreStored'
  BY DEF IInv, LanesAgree, NonceOrder, DeliveryOK, WithinLimits, UnconfirmedAreStored
<1>3. SourceHeadersOK' /\ TargetHeadersOK'
  BY DEF IInv, SourceHeadersOK, TargetHeadersOK
<1> QED BY <1>1, <1>2, <1>3 DEF IInv

LEMMA SetOperatingModeIInv == IInv /\ SetOperatingMode => IInv'
<1> SUFFICES ASSUME IInv, SetOperatingMode PROVE IInv'
  OBVIOUS
<1>1. sourceMode \in Modes \cup {"Normal"} /\ targetMode \in Modes \cup {"Normal"}
  BY DEF IInv, TypeOK
<1>2. /\ UNCHANGED <<outLane, outMessages, inLane, delivery, sourceHeaders,
                     targetHeaders, rewards, dispatched>>
      /\ sourceMode' \in Modes \cup {"Normal"} /\ targetMode' \in Modes \cup {"Normal"}
  BY <1>1 DEF SetOperatingMode, source, target
<1> QED BY <1>2, QuietIInv

LEMMA NextIInv == IInv /\ [Next]_vars => IInv'
<1> SUFFICES ASSUME IInv, [Next]_vars PROVE IInv'
  OBVIOUS
<1>1. CASE SendMessage \/ Confirm \/ \E n \in MayPrune : CloseSource(n)
  BY <1>1, SendMessageIInv, ConfirmIInv, CloseSourceIInv
<1>2. CASE Deliver \/ ReceiveMessage \/ \E s \in {"Closed", "Purged"} : CloseTarget(s)
  BY <1>2, DeliverIInv, ReceiveMessageIInv, CloseTargetIInv
<1>3. CASE ImportSourceHeader \/ ImportTargetHeader \/ SetOperatingMode
  BY <1>3, ImportSourceHeaderIInv, ImportTargetHeaderIInv, SetOperatingModeIInv
<1>4. CASE UNCHANGED vars
  <2>1. sourceMode \in Modes \cup {"Normal"} /\ targetMode \in Modes \cup {"Normal"}
    BY DEF IInv, TypeOK
  <2> QED BY <1>4, <2>1, QuietIInv DEF vars
<1> QED BY <1>1, <1>2, <1>3, <1>4 DEF Next

\* The inductive invariant holds in every reachable state.
THEOREM Agreement == Spec => []IInv
BY InitIInv, NextIInv, PTL DEF Spec

-----------------------------------------------------------------------------
(* Theorems                                                                  *)

\* Every variable always holds a value of its type.
THEOREM TypeCorrect == Spec => []TypeOK
<1>1. IInv => TypeOK
  BY DEF IInv
<1> QED BY <1>1, Agreement, PTL

\* The two ends agree on the order of what happened to a message, whatever proofs
\* arrive late, twice or out of order, for any number of headers kept.
THEOREM NoncesInOrder == Spec => []NonceOrder
<1>1. IInv => NonceOrder
  BY SMTT(30) DEF IInv, LanesAgree
<1> QED BY <1>1, Agreement, PTL

\* The unrewarded entries of the inbound lane cover exactly what is delivered and
\* not known to be confirmed, and name the relayers who delivered it.
THEOREM EntriesCorrect == Spec => []EntriesTellWhoDelivered
<1>1. IInv => EntriesTellWhoDelivered
  BY DEF IInv, LanesAgree, InboundOK, EntriesTellWhoDelivered
<1> QED BY <1>1, Agreement, PTL

\* The limits on unrewarded entries and unconfirmed messages are kept.
THEOREM LimitsKept == Spec => []WithinLimits
<1>1. IInv => WithinLimits
  BY DEF IInv
<1> QED BY <1>1, Agreement, PTL

\* An open outbound lane stores exactly the messages that are not confirmed.
THEOREM NothingUnconfirmedLost == Spec => []UnconfirmedAreStored
<1>1. IInv => UnconfirmedAreStored
  BY DEF IInv
<1> QED BY <1>1, Agreement, PTL

\* confirm_delivery accepts the inbound lane of every header the source knows, and
\* the present one.
THEOREM ConfirmationsAccepted == Spec => []ConfirmationNeverFails
<1>1. IInv => ConfirmationNeverFails
  <2> SUFFICES ASSUME IInv, NEW lane \in InboundStates
               PROVE  confirmation(outLane, lane) # "Error"
    BY DEF ConfirmationNeverFails
  <2>1. CASE lane = inLane
    <3>1. /\ InboundOK(inLane, dispatched) /\ outLane \in OutboundLaneData
          /\ inLane.last_confirmed_nonce <= outLane.latest_received_nonce
          /\ last_delivered_nonce(inLane) <= outLane.latest_generated_nonce
      BY DEF IInv, TypeOK, LanesAgree, NonceOrder
    <3> QED BY <2>1, <3>1, ConfirmationSucceeds
  <2>2. CASE \E i \in 1 .. Len(targetHeaders) : lane = targetHeaders[i].lane
    BY <2>2, ProvedLane
  <2> QED BY <2>1, <2>2 DEF InboundStates
<1> QED BY <1>1, Agreement, PTL

-----------------------------------------------------------------------------
(* The lane implements the channel                                           *)

\* A step of the lane is a step of the channel or leaves the channel alone: only a
\* confirmed delivery, a sent and an accepted message show.
LEMMA ChannelStep == IInv /\ IInv' /\ [Next]_vars => [Channel!Next]_(Channel!channel)
<1> SUFFICES ASSUME IInv, IInv', [Next]_vars PROVE [Channel!Next]_(Channel!channel)
  OBVIOUS
<1> USE DEF Channel!Next, Channel!channel
<1>1. CASE SendMessage
  <2>1. /\ outLane'.latest_generated_nonce = outLane.latest_generated_nonce + 1
        /\ outLane'.latest_received_nonce = outLane.latest_received_nonce
        /\ dispatched' = dispatched
    BY <1>1, Nonces, Sent DEF SendMessage, target
  <2> QED BY <2>1 DEF Channel!Send
<1>2. ASSUME NEW i \in 1 .. Len(targetHeaders), ReceiveMessagesDeliveryProof(targetHeaders[i])
      PROVE  [Channel!Next]_(Channel!channel)
  <2> DEFINE n == last_delivered_nonce(targetHeaders[i].lane)
  <2>1. /\ outLane.latest_received_nonce < n /\ n \in Nat
        /\ n <= last_delivered_nonce(inLane)
    BY SMTT(30), <1>2, ProvedLane DEF ReceiveMessagesDeliveryProof
  <2>2. /\ outLane'.latest_generated_nonce = outLane.latest_generated_nonce
        /\ outLane'.latest_received_nonce = n
        /\ dispatched' = dispatched
    BY SMTT(30), <1>2, <2>1, Nonces, DeliveryConfirmed DEF ReceiveMessagesDeliveryProof, target
  <2> HIDE DEF n
  <2>3. n \in 1 .. Len(dispatched)
    BY <2>1, Nonces DEF IInv, LanesAgree
  <2>4. Channel!Confirm(n)
    BY <2>1, <2>2, <2>3 DEF Channel!Confirm
  <2> QED BY SMTT(30), <2>3, <2>4
<1>3. ASSUME NEW n \in MayPrune, CloseSource(n)
      PROVE  UNCHANGED Channel!channel
  <2>1. /\ outLane'.latest_generated_nonce = outLane.latest_generated_nonce
        /\ outLane'.latest_received_nonce = outLane.latest_received_nonce
    BY Zenon, <1>3, Nonces, BridgeAssumption, LaneClosed DEF CloseSource
  <2> QED BY <1>3, <2>1 DEF CloseSource, target
<1>4. CASE ReceiveMessage
  <2> DEFINE nonce == delivery.next
             relayer == delivery.relayer
  <2>1. outLane' = outLane
    BY <1>4 DEF ReceiveMessage, source
  <2>2. CASE ~accepts(inLane, nonce)
    BY <1>4, <2>1, <2>2 DEF ReceiveMessage
  <2>3. CASE accepts(inLane, nonce)
    <3>1. dispatched' = Append(dispatched, [nonce |-> nonce, relayer |-> relayer])
      BY <1>4, <2>3 DEF ReceiveMessage
    <3>2. /\ nonce = Len(dispatched) + 1 /\ nonce <= outLane.latest_generated_nonce
          /\ relayer \in Relayers /\ Len(dispatched) \in Nat
      <4>1. nonce = Len(dispatched) + 1
        BY <2>3 DEF accepts, is_next_nonce, IInv, LanesAgree
      <4>2. delivery \in DeliveryLoop
        BY <1>4 DEF ReceiveMessage, IInv, TypeOK, DeliveryLoop
      <4>3. relayer \in Relayers /\ nonce \in Nat /\ delivery.end \in Nat
        BY <4>2 DEF DeliveryLoop
      <4>4. nonce <= outLane.latest_generated_nonce
        BY <1>4, <4>3, Nonces DEF ReceiveMessage, IInv, DeliveryOK
      <4> QED BY <4>1, <4>3, <4>4, Nonces
    <3> HIDE DEF nonce, relayer
    <3>3. Channel!Dispatch(relayer)
      BY <2>1, <3>1, <3>2, Nonces DEF Channel!Dispatch
    <3> QED BY <3>2, <3>3
  <2> QED BY <2>2, <2>3
<1>5. CASE \/ Deliver \/ \E s \in {"Closed", "Purged"} : CloseTarget(s)
           \/ ImportSourceHeader \/ ImportTargetHeader \/ SetOperatingMode \/ UNCHANGED vars
  <2>1. outLane' = outLane /\ dispatched' = dispatched
    BY <1>5 DEF Deliver, ReceiveMessagesProof, CloseTarget, ImportSourceHeader,
                ImportTargetHeader, SetOperatingMode, vars, source, target
  <2> QED BY <2>1
<1> QED BY <1>1, <1>2, <1>3, <1>4, <1>5 DEF Next, Confirm

\* The lane implements the channel: every message is dispatched exactly once and in
\* order, and confirmed only after that, whatever relayers prove in whatever order.
THEOREM ImplementsChannel == Spec => ChannelSpec
<1>1. Init => Channel!Init
  BY DEF Init, Channel!Init, opened_outbound_lane
<1> QED BY <1>1, Agreement, ChannelStep, PTL DEF Spec, ChannelSpec, Channel!Spec

=============================================================================
