------------------------ MODULE OutboundLane_proofs ------------------------
(***************************************************************************)
(* What the operations on the two ends of a bridge lane keep in order.     *)
(***************************************************************************)
EXTENDS OutboundLane, TLAPS, WellFoundedInduction

\* A non-empty set of natural numbers has a least element.
LEMMA MinOfNaturals ==
  ASSUME NEW S \in SUBSET Nat, S # {}
  PROVE  Min(S) \in S /\ \A x \in S : Min(S) <= x
<1>1. PICK x \in S : \A y \in S : ~(<<y, x>> \in OpToRel(<, Nat))
  BY NatLessThanWellFounded, WFMin, Zenon
<1>2. \A y \in S : x <= y
  <2> TAKE y \in S
  <2>1. ~(y < x)
    BY Zenon, <1>1 DEF OpToRel
  <2> QED BY <2>1
<1> QED BY Zenon, <1>2 DEF Min

-----------------------------------------------------------------------------
(* The unrewarded entries                                                    *)

\* The entries of the inbound lane follow each other from the last confirmed nonce
\* on, and name the relayers of the messages d dispatched so far.  The pairwise
\* order follows from the rest by induction; it is stated to avoid that induction.
InboundOK(lane, d) ==
  LET rs == lane.relayers
  IN  /\ lane \in InboundLaneData
      /\ \A i \in 1 .. Len(rs) :
           /\ rs[i].begin <= rs[i].end
           /\ lane.last_confirmed_nonce < rs[i].begin
           /\ i = 1 => rs[i].begin = lane.last_confirmed_nonce + 1
           /\ i > 1 => rs[i].begin = rs[i - 1].end + 1
           /\ \A n \in rs[i].begin .. rs[i].end : d[n].relayer = rs[i].relayer
      /\ \A i, j \in 1 .. Len(rs) : i < j => rs[i].end < rs[j].begin

\* Replacing one element of a sequence.
LEMMA Replaced ==
  ASSUME NEW T, NEW s \in Seq(T), NEW i \in 1 .. Len(s), NEW x \in T
  PROVE  /\ [s EXCEPT ![i] = x] \in Seq(T)
         /\ Len([s EXCEPT ![i] = x]) = Len(s)
         /\ \A j \in 1 .. Len(s) : [s EXCEPT ![i] = x][j] = IF j = i THEN x ELSE s[j]
OBVIOUS

\* The fields of an entry.
LEMMA EntryFields ==
  ASSUME NEW rs \in Seq(UnrewardedRelayer), NEW i \in 1 .. Len(rs)
  PROVE  /\ rs[i] \in UnrewardedRelayer
         /\ rs[i].relayer \in Relayers /\ rs[i].begin \in Nat /\ rs[i].end \in Nat
<1>1. rs[i] \in UnrewardedRelayer
  OBVIOUS
<1> QED BY <1>1 DEF UnrewardedRelayer

\* No entry reaches beyond the last delivered nonce.
LEMMA LastDelivered ==
  ASSUME NEW d, NEW lane, InboundOK(lane, d)
  PROVE  /\ last_delivered_nonce(lane) \in Nat
         /\ lane.last_confirmed_nonce \in Nat
         /\ lane.last_confirmed_nonce <= last_delivered_nonce(lane)
         /\ lane.relayers # <<>> => lane.last_confirmed_nonce < last_delivered_nonce(lane)
         /\ \A i \in 1 .. Len(lane.relayers) : lane.relayers[i].end <= last_delivered_nonce(lane)
<1> DEFINE rs == lane.relayers
<1>1. rs \in Seq(UnrewardedRelayer) /\ lane.last_confirmed_nonce \in Nat
  BY DEF InboundOK, InboundLaneData
<1>2. \A i \in 1 .. Len(rs) : rs[i].begin \in Nat /\ rs[i].end \in Nat
  BY <1>1, EntryFields
<1>3. Len(rs) \in Nat /\ (rs # <<>> => Len(rs) > 0)
  BY <1>1
<1>4. CASE rs = <<>>
  BY <1>1, <1>4 DEF last_delivered_nonce
<1>5. CASE rs # <<>>
  <2>1. last_delivered_nonce(lane) = rs[Len(rs)].end
    BY <1>5 DEF last_delivered_nonce
  <2>2. /\ rs[Len(rs)].begin <= rs[Len(rs)].end
        /\ lane.last_confirmed_nonce < rs[Len(rs)].begin
        /\ \A i \in 1 .. Len(rs) : i < Len(rs) => rs[i].end < rs[Len(rs)].begin
    BY <1>3, <1>5 DEF InboundOK
  <2>3. /\ rs[Len(rs)].begin \in Nat /\ rs[Len(rs)].end \in Nat /\ Len(rs) \in 1 .. Len(rs)
    BY <1>2, <1>3, <1>5
  <2>4. lane.last_confirmed_nonce < last_delivered_nonce(lane) /\ last_delivered_nonce(lane) \in Nat
    BY <1>1, <2>1, <2>2, <2>3
  <2>5. ASSUME NEW i \in 1 .. Len(rs) PROVE rs[i].end <= rs[Len(rs)].end
    <3>1. CASE i = Len(rs)
      BY <2>3, <3>1
    <3>2. CASE i # Len(rs)
      <4>1. i < Len(rs)
        BY <1>3, <3>2
      <4>2. rs[i].end < rs[Len(rs)].begin /\ rs[i].end \in Nat
        BY <1>2, <2>2, <4>1
      <4> QED BY <2>2, <2>3, <4>2
    <3> QED BY <3>1, <3>2
  <2> QED BY <1>1, <2>1, <2>4, <2>5
<1> QED BY <1>4, <1>5

\* What receive_state_update leaves of the entries: a tail, its front trimmed.
LEMMA Unconfirmed ==
  ASSUME NEW rs \in Seq(UnrewardedRelayer), NEW nonce \in Nat
  PROVE  /\ unconfirmed(rs, nonce) \in Seq(UnrewardedRelayer)
         /\ \E k \in 0 .. Len(rs) :
              /\ \A i \in 1 .. k : rs[i].end <= nonce
              /\ k < Len(rs) => rs[k + 1].end > nonce
              /\ Len(unconfirmed(rs, nonce)) = Len(rs) - k
              /\ \A i \in 1 .. Len(rs) - k :
                   /\ unconfirmed(rs, nonce)[i].relayer = rs[k + i].relayer
                   /\ unconfirmed(rs, nonce)[i].end = rs[k + i].end
                   /\ unconfirmed(rs, nonce)[i].begin =
                        IF i = 1 /\ rs[k + i].begin <= nonce THEN nonce + 1
                        ELSE rs[k + i].begin
<1> DEFINE S == {k \in 0 .. Len(rs) : k = Len(rs) \/ rs[k + 1].end > nonce}
           k == Min(S)
           left == SubSeq(rs, k + 1, Len(rs))
<1>1. \A i \in 1 .. Len(rs) : rs[i].end \in Nat /\ rs[i].begin \in Nat
  BY EntryFields
<1>2. k \in S /\ \A x \in S : k <= x
  <2>1. Len(rs) \in S /\ S \subseteq Nat
    OBVIOUS
  <2> QED BY Zenon, <2>1, MinOfNaturals
<1> HIDE DEF k
<1>3. k \in 0 .. Len(rs) /\ Len(rs) \in Nat
  BY <1>2
<1>4. k < Len(rs) => rs[k + 1].end > nonce
  BY <1>2, <1>3
<1>5. ASSUME NEW i \in 1 .. k PROVE rs[i].end <= nonce
  <2>1. i \in 1 .. Len(rs) /\ i - 1 \in 0 .. Len(rs) /\ (i - 1) + 1 = i
    BY <1>3
  <2>2. ~(k <= i - 1)
    BY <1>3
  <2>3. i - 1 \notin S
    BY <1>2, <2>2
  <2>4. ~(rs[i].end > nonce)
    BY <2>1, <2>3
  <2> QED BY <1>1, <2>1, <2>4
<1>6. /\ left \in Seq(UnrewardedRelayer) /\ Len(left) = Len(rs) - k
      /\ \A i \in 1 .. Len(rs) - k : left[i] = rs[k + i]
  BY SMTT(30), <1>3, <1>4
<1>7. unconfirmed(rs, nonce) =
        IF left = <<>> THEN left ELSE [left EXCEPT ![1] = trimmed(left[1], nonce)]
  BY DEF unconfirmed, k
<1> HIDE DEF left
<1>8. CASE left = <<>>
  BY <1>3, <1>4, <1>5, <1>6, <1>7, <1>8
<1>9. CASE left # <<>>
  <2> DEFINE t == trimmed(left[1], nonce)
  <2>1. Len(left) > 0 /\ left[1] \in UnrewardedRelayer
    BY <1>6, <1>9
  <2>2. /\ t \in UnrewardedRelayer /\ t.relayer = left[1].relayer /\ t.end = left[1].end
        /\ t.begin = IF left[1].begin <= nonce THEN nonce + 1 ELSE left[1].begin
    BY <2>1 DEF trimmed, UnrewardedRelayer
  <2> HIDE DEF t
  <2>3. unconfirmed(rs, nonce) = [left EXCEPT ![1] = t]
    BY <1>7, <1>9 DEF t
  <2>4. /\ [left EXCEPT ![1] = t] \in Seq(UnrewardedRelayer)
        /\ Len([left EXCEPT ![1] = t]) = Len(left)
        /\ \A i \in 1 .. Len(left) : [left EXCEPT ![1] = t][i] = IF i = 1 THEN t ELSE left[i]
    BY <1>6, <2>1, <2>2
  <2>5. ASSUME NEW i \in 1 .. Len(rs) - k
        PROVE  /\ unconfirmed(rs, nonce)[i].relayer = rs[k + i].relayer
               /\ unconfirmed(rs, nonce)[i].end = rs[k + i].end
               /\ unconfirmed(rs, nonce)[i].begin =
                    IF i = 1 /\ rs[k + i].begin <= nonce THEN nonce + 1 ELSE rs[k + i].begin
    <3>1. left[i] = rs[k + i]
      BY <1>6
    <3>2. CASE i = 1
      BY <1>6, <2>2, <2>3, <2>4, <3>1, <3>2
    <3>3. CASE i # 1
      BY <1>6, <2>3, <2>4, <3>1, <3>3
    <3> QED BY <3>2, <3>3
  <2> QED BY Zenon, <1>3, <1>4, <1>5, <1>6, <2>3, <2>4, <2>5
<1> QED BY <1>8, <1>9

\* receive_state_update drops what is confirmed and keeps the order of the rest; it
\* never changes what was delivered.
LEMMA StateUpdate ==
  ASSUME NEW d, NEW lane, InboundOK(lane, d), NEW nonce \in Nat,
         NEW new, new = receive_state_update(lane, nonce)
  PROVE  /\ InboundOK(new, d)
         /\ last_delivered_nonce(new) = last_delivered_nonce(lane)
         /\ new.last_confirmed_nonce =
              IF is_news(lane, nonce) THEN nonce ELSE lane.last_confirmed_nonce
         /\ Len(new.relayers) <= Len(lane.relayers)
<1> DEFINE rs == lane.relayers
           us == unconfirmed(rs, nonce)
<1>1. lane \in InboundLaneData /\ rs \in Seq(UnrewardedRelayer) /\ Len(rs) \in Nat
  BY DEF InboundOK, InboundLaneData
<1>2. CASE ~is_news(lane, nonce)
  BY <1>1, <1>2 DEF receive_state_update
<1>3. CASE is_news(lane, nonce)
  <2>1. us \in Seq(UnrewardedRelayer)
    BY <1>1, Unconfirmed
  <2>2. PICK k \in 0 .. Len(rs) :
          /\ \A i \in 1 .. k : rs[i].end <= nonce
          /\ k < Len(rs) => rs[k + 1].end > nonce
          /\ Len(us) = Len(rs) - k
          /\ \A i \in 1 .. Len(rs) - k :
               /\ us[i].relayer = rs[k + i].relayer
               /\ us[i].end = rs[k + i].end
               /\ us[i].begin = IF i = 1 /\ rs[k + i].begin <= nonce THEN nonce + 1
                                ELSE rs[k + i].begin
    BY Zenon, <1>1, Unconfirmed
  <2>len. k \in 0 .. Len(rs) /\ Len(us) = Len(rs) - k
    BY <2>2
  <2> HIDE DEF us
  <2>3. /\ new \in InboundLaneData /\ new.relayers = us /\ new.last_confirmed_nonce = nonce
    BY Zenon, <1>1, <1>3, <2>1 DEF receive_state_update, InboundLaneData, us
  <2>4. \A i \in 1 .. Len(rs) : rs[i].begin \in Nat /\ rs[i].end \in Nat
    BY <1>1, EntryFields
  <2>5. \A i \in 1 .. Len(us) : us[i].begin \in Nat /\ us[i].end \in Nat
    BY <2>1, EntryFields
  <2>6. /\ lane.last_confirmed_nonce < nonce /\ nonce <= last_delivered_nonce(lane)
        /\ lane.last_confirmed_nonce \in Nat
    BY <1>1, <1>3 DEF is_news, InboundLaneData
  <2>7. \A i \in 1 .. Len(rs) :
          /\ rs[i].begin <= rs[i].end
          /\ lane.last_confirmed_nonce < rs[i].begin
          /\ i = 1 => rs[i].begin = lane.last_confirmed_nonce + 1
          /\ i > 1 => rs[i].begin = rs[i - 1].end + 1
          /\ \A n \in rs[i].begin .. rs[i].end : d[n].relayer = rs[i].relayer
    BY DEF InboundOK
  <2>8. \A i, j \in 1 .. Len(rs) : i < j => rs[i].end < rs[j].begin
    BY DEF InboundOK
  \* The first entry left begins at the nonce after the confirmed one.
  <2>9. k < Len(rs) => us[1].begin = nonce + 1
    <3>1. CASE k = 0
      BY <2>2, <2>4, <2>6, <2>7, <3>1
    <3>2. CASE k > 0 /\ k < Len(rs)
      <4>1. rs[k].end <= nonce /\ rs[k + 1].begin = rs[k].end + 1
        BY <2>2, <2>7, <3>2
      <4>4. 1 \in 1 .. Len(rs) - k
        BY <1>1, <3>2
      <4>2. us[1].begin = IF rs[k + 1].begin <= nonce THEN nonce + 1 ELSE rs[k + 1].begin
        BY <2>2, <4>4
      <4>3. rs[k + 1].begin \in Nat /\ rs[k].end \in Nat
        BY <2>4, <3>2
      <4> QED BY <4>1, <4>2, <4>3
    <3> QED BY <3>1, <3>2
  <2>10. ASSUME NEW i \in 1 .. Len(us)
         PROVE  /\ us[i].begin <= us[i].end
                /\ nonce < us[i].begin
                /\ i = 1 => us[i].begin = nonce + 1
                /\ i > 1 => us[i].begin = us[i - 1].end + 1
                /\ us[i].begin >= rs[k + i].begin
    <3>1. CASE i = 1
      BY SMTT(30), <2>2, <2>4, <2>7, <2>9, <3>1
    <3>2. CASE i > 1
      <4>1. us[i].begin = rs[k + i].begin /\ us[i].end = rs[k + i].end
            /\ us[i - 1].end = rs[k + (i - 1)].end
        <5>1. i \in 1 .. Len(rs) - k /\ i - 1 \in 1 .. Len(rs) - k /\ i # 1
          BY <1>1, <2>len, <3>2
        <5> QED BY Zenon, <2>2, <5>1
      <4>2. rs[k + i].begin = rs[k + (i - 1)].end + 1 /\ rs[k + i].begin <= rs[k + i].end
        <5>1. k + i \in 1 .. Len(rs) /\ k + i > 1 /\ (k + i) - 1 = k + (i - 1)
          BY <1>1, <2>len, <3>2
        <5>2. rs[k + i].begin = rs[(k + i) - 1].end + 1 /\ rs[k + i].begin <= rs[k + i].end
          BY <2>7, <5>1
        <5> QED BY <5>1, <5>2
      <4>3. /\ k + 1 \in 1 .. Len(rs) /\ k + i \in 1 .. Len(rs) /\ k + 1 < k + i
            /\ k + (i - 1) \in 1 .. Len(rs) /\ k < Len(rs)
        BY <1>1, <2>len, <3>2
      <4> DEFINE first == rs[k + 1].end
                 begin == rs[k + i].begin
      <4>4. first < begin /\ first > nonce
        BY <2>2, <2>8, <4>3
      <4>5. first \in Nat /\ begin \in Nat /\ rs[k + i].end \in Nat /\ rs[k + (i - 1)].end \in Nat
        BY Zenon, <2>4, <4>3
      <4> HIDE DEF first, begin
      <4>6. nonce < begin /\ begin >= begin
        BY SMTT(30), <4>4, <4>5
      <4>7. /\ us[i].begin = begin /\ us[i].begin <= us[i].end
            /\ us[i].begin = us[i - 1].end + 1
        BY <4>1, <4>2 DEF begin
      <4> QED BY <3>2, <4>6, <4>7 DEF begin
    <3> QED BY <3>1, <3>2
  <2>11. ASSUME NEW i \in 1 .. Len(us), NEW n \in us[i].begin .. us[i].end
         PROVE  d[n].relayer = us[i].relayer
    <3>1. k + i \in 1 .. Len(rs) /\ us[i].relayer = rs[k + i].relayer /\ us[i].end = rs[k + i].end
      <4>1. i \in 1 .. Len(rs) - k
        BY <2>len
      <4>2. k + i \in 1 .. Len(rs)
        BY <1>1, <2>len, <4>1
      <4> QED BY Zenon, <2>2, <4>1, <4>2
    <3>2. n \in rs[k + i].begin .. rs[k + i].end
      <4> DEFINE was == rs[k + i]
                 left == us[i]
      <4>1. /\ was.begin \in Nat /\ was.end \in Nat
            /\ left.begin \in Nat /\ left.end = was.end
        BY Zenon, <2>4, <2>5, <3>1
      <4>2. left.begin >= was.begin /\ n \in left.begin .. left.end
        BY Zenon, <2>10
      <4> HIDE DEF was, left
      <4>3. n \in was.begin .. was.end
        BY <4>1, <4>2
      <4> QED BY Zenon, <4>3 DEF was
    <3> QED BY <2>7, <3>1, <3>2
  <2>12. ASSUME NEW i \in 1 .. Len(us), NEW j \in 1 .. Len(us), i < j
         PROVE  us[i].end < us[j].begin
    <3>1. /\ k + i \in 1 .. Len(rs) /\ k + j \in 1 .. Len(rs) /\ k + i < k + j
          /\ us[i].end = rs[k + i].end /\ us[j].begin = rs[k + j].begin
      <4>1. /\ i \in 1 .. Len(rs) - k /\ j \in 1 .. Len(rs) - k /\ j # 1
            /\ k + i \in 1 .. Len(rs) /\ k + j \in 1 .. Len(rs) /\ k + i < k + j
        BY <1>1, <2>len, <2>12
      <4> QED BY Zenon, <2>2, <4>1
    <3> QED BY <2>8, <3>1
  <2>13. InboundOK(new, d)
    BY <2>3, <2>10, <2>11, <2>12 DEF InboundOK
  <2>14. last_delivered_nonce(new) = last_delivered_nonce(lane)
    <3>1. CASE k = Len(rs)
      <4>1. rs # <<>> /\ last_delivered_nonce(lane) = rs[Len(rs)].end
        BY <1>1, <2>6 DEF last_delivered_nonce
      <4>2. Len(rs) \in 1 .. k
        BY <1>1, <3>1, <4>1
      <4>5. rs[Len(rs)].end <= nonce /\ rs[Len(rs)].end \in Nat
        BY Zenon, <2>2, <2>4, <3>1, <4>2
      <4>3. last_delivered_nonce(lane) = nonce
        BY <2>6, <4>1, <4>5
      <4>4. us = <<>>
        BY <2>1, <2>2, <3>1
      <4> QED BY <2>3, <4>3, <4>4 DEF last_delivered_nonce
    <3>2. CASE k < Len(rs)
      <4>1. us # <<>> /\ rs # <<>> /\ Len(us) \in 1 .. Len(rs) - k /\ k + Len(us) = Len(rs)
        BY <1>1, <2>1, <2>2, <3>2
      <4>2. us[Len(us)].end = rs[Len(rs)].end
        BY Zenon, <2>2, <4>1
      <4> QED BY <2>3, <4>1, <4>2 DEF last_delivered_nonce
    <3> QED BY <1>1, <3>1, <3>2
  <2> QED BY <1>1, <1>3, <2>2, <2>3, <2>13, <2>14
<1> QED BY <1>2, <1>3

\* receive_message extends the entries by the message it dispatches.
LEMMA MessageNoted ==
  ASSUME NEW d \in Seq([nonce: Nat, relayer: Relayers]), NEW lane, InboundOK(lane, d),
         Len(d) = last_delivered_nonce(lane),
         NEW relayer \in Relayers, NEW nonce \in Nat, accepts(lane, nonce)
  PROVE  /\ InboundOK(receive_message(lane, relayer, nonce), Append(d, [nonce |-> nonce, relayer |-> relayer]))
         /\ last_delivered_nonce(receive_message(lane, relayer, nonce)) = nonce
         /\ nonce = last_delivered_nonce(lane) + 1
         /\ receive_message(lane, relayer, nonce).last_confirmed_nonce = lane.last_confirmed_nonce
         /\ Len(receive_message(lane, relayer, nonce).relayers) <= Len(lane.relayers) + 1
<1> DEFINE rs == lane.relayers
           ns == noted(rs, relayer, nonce)
           e == Append(d, [nonce |-> nonce, relayer |-> relayer])
           last == Len(rs)
           new == receive_message(lane, relayer, nonce)
<1>1. lane \in InboundLaneData /\ rs \in Seq(UnrewardedRelayer) /\ last \in Nat
  BY DEF InboundOK, InboundLaneData
<1>2. nonce = last_delivered_nonce(lane) + 1
  BY DEF accepts, is_next_nonce
<1>3. /\ last_delivered_nonce(lane) \in Nat /\ lane.last_confirmed_nonce \in Nat
      /\ lane.last_confirmed_nonce < nonce
      /\ \A i \in 1 .. last : rs[i].end < nonce
  <2>1. \A i \in 1 .. last : rs[i].end \in Nat
    BY <1>1, EntryFields
  <2> QED BY <1>2, <2>1, LastDelivered
<1>4. /\ e[nonce].relayer = relayer
      /\ \A n \in 1 .. nonce - 1 : e[n] = d[n]
  <2>1. Len(d) = nonce - 1 /\ Len(d) \in Nat
    BY <1>2, <1>3
  <2> QED BY <2>1
<1> HIDE DEF e
<1>5. \A i \in 1 .. last : rs[i].begin \in Nat /\ rs[i].end \in Nat /\ rs[i] \in UnrewardedRelayer
  BY <1>1, EntryFields
<1>6. \A i \in 1 .. last :
        /\ rs[i].begin <= rs[i].end
        /\ lane.last_confirmed_nonce < rs[i].begin
        /\ i = 1 => rs[i].begin = lane.last_confirmed_nonce + 1
        /\ i > 1 => rs[i].begin = rs[i - 1].end + 1
        /\ \A n \in rs[i].begin .. rs[i].end : d[n].relayer = rs[i].relayer
  BY SMTT(30) DEF InboundOK
<1>7. \A i, j \in 1 .. last : i < j => rs[i].end < rs[j].begin
  BY DEF InboundOK
<1>8. ASSUME NEW i \in 1 .. last, NEW n \in rs[i].begin .. rs[i].end
      PROVE  e[n].relayer = rs[i].relayer
  <2>1. n \in 1 .. nonce - 1
    BY SMTT(30), <1>3, <1>5, <1>6
  <2> QED BY <1>4, <1>6, <2>1
<1>9. ns \in Seq(UnrewardedRelayer) =>
        new \in InboundLaneData /\ new.relayers = ns
        /\ new.last_confirmed_nonce = lane.last_confirmed_nonce
  BY <1>1 DEF receive_message, InboundLaneData
<1> HIDE DEF new
\* The relayer of the last entry delivers again: the entry grows.
<1>10. CASE last > 0 /\ rs[last].relayer = relayer
  <2> DEFINE back == [rs[last] EXCEPT !.end = rs[last].end + 1]
  <2>1. /\ back \in UnrewardedRelayer /\ back.relayer = relayer /\ back.begin = rs[last].begin
        /\ back.end = rs[last].end + 1 /\ rs[last].end + 1 = nonce
    <3>1. rs[last] \in UnrewardedRelayer /\ rs[last].end \in Nat
      BY <1>1, <1>5, <1>10
    <3>2. last_delivered_nonce(lane) = rs[last].end
      BY <1>1, <1>10 DEF last_delivered_nonce
    <3> QED BY <1>2, <1>10, <3>1, <3>2 DEF UnrewardedRelayer
  <2>2. ns = [rs EXCEPT ![last] = back]
    BY <1>10 DEF noted
  <2> HIDE DEF back, ns
  <2>3. /\ ns \in Seq(UnrewardedRelayer) /\ Len(ns) = last
        /\ \A i \in 1 .. last : ns[i] = IF i = last THEN back ELSE rs[i]
    <3>1. last \in 1 .. Len(rs)
      BY <1>1, <1>10
    <3> QED BY <1>1, <2>1, <2>2, <3>1, Replaced
  <2>4. \A i \in 1 .. last : i # last => ns[i] = rs[i]
    BY <2>3
  <2>5. /\ ns[last].relayer = relayer /\ ns[last].begin = rs[last].begin
        /\ ns[last].end = nonce /\ last \in 1 .. last
    BY <1>1, <1>10, <2>1, <2>3
  <2>6. ASSUME NEW i \in 1 .. Len(ns)
        PROVE  /\ ns[i].begin <= ns[i].end
               /\ lane.last_confirmed_nonce < ns[i].begin
               /\ i = 1 => ns[i].begin = lane.last_confirmed_nonce + 1
               /\ i > 1 => ns[i].begin = ns[i - 1].end + 1
    <3>1. ns[i].begin = rs[i].begin
      BY <2>3, <2>4, <2>5
    <3>2. ns[i].end >= rs[i].end
      BY <1>3, <1>5, <2>3, <2>4, <2>5
    <3>3. i > 1 => ns[i - 1] = rs[i - 1]
      <4>1. i > 1 => i - 1 \in 1 .. last /\ i - 1 # last
        BY <1>1, <2>3
      <4> QED BY Zenon, <2>4, <4>1
    <3>4. ns[i].end \in Nat
      BY <2>3, EntryFields
    <3> QED BY SMTT(30), <1>5, <1>6, <2>3, <3>1, <3>2, <3>3, <3>4
  <2>7. ASSUME NEW i \in 1 .. Len(ns), NEW n \in ns[i].begin .. ns[i].end
        PROVE  e[n].relayer = ns[i].relayer
    <3>1. CASE i # last
      BY <1>8, <2>3, <2>4, <3>1
    <3>2. CASE i = last /\ n = nonce
      BY <1>4, <2>5, <3>2
    <3>3. CASE i = last /\ n # nonce
      <4>1. n \in rs[last].begin .. rs[last].end
        <5>1. rs[last].begin \in Nat /\ rs[last].end \in Nat
          BY <1>5, <2>5
        <5>2. n \in rs[last].begin .. nonce
          BY <2>5, <3>3
        <5> QED BY <2>1, <3>3, <5>1, <5>2
      <4> QED BY <1>8, <1>10, <2>5, <3>3, <4>1
    <3> QED BY <3>1, <3>2, <3>3
  <2>8. ASSUME NEW i \in 1 .. Len(ns), NEW j \in 1 .. Len(ns), i < j
        PROVE  ns[i].end < ns[j].begin
    <3>1. ns[i] = rs[i] /\ ns[j].begin = rs[j].begin
      BY SMTT(30), <1>1, <2>3, <2>4, <2>5, <2>8
    <3> QED BY <1>7, <2>3, <2>8, <3>1
  <2>9. InboundOK(new, e)
    <3>1. /\ new \in InboundLaneData /\ new.relayers = ns
          /\ new.last_confirmed_nonce = lane.last_confirmed_nonce
      BY <1>9, <2>3
    <3> HIDE DEF ns
    <3> QED BY <3>1, <2>6, <2>7, <2>8 DEF InboundOK
  <2>10. last_delivered_nonce(new) = nonce
    BY <1>9, <1>10, <2>3, <2>5 DEF last_delivered_nonce, ns
  <2> QED BY <1>1, <1>2, <1>9, <2>3, <2>9, <2>10 DEF e, ns, new
\* Otherwise the message gets an entry of its own.
<1>11. CASE ~(last > 0 /\ rs[last].relayer = relayer)
  <2> DEFINE back == [relayer |-> relayer, begin |-> nonce, end |-> nonce]
  <2>1. back \in UnrewardedRelayer /\ ns = Append(rs, back)
    BY <1>11 DEF noted, UnrewardedRelayer
  <2>2. back.relayer = relayer /\ back.begin = nonce /\ back.end = nonce
    OBVIOUS
  <2> HIDE DEF back, ns
  <2>3. /\ ns \in Seq(UnrewardedRelayer) /\ Len(ns) = last + 1
        /\ ns[last + 1] = back /\ \A i \in 1 .. last : ns[i] = rs[i]
    BY <1>1, <2>1
  <2>4. ASSUME NEW i \in 1 .. Len(ns)
        PROVE  /\ ns[i].begin <= ns[i].end
               /\ lane.last_confirmed_nonce < ns[i].begin
               /\ i = 1 => ns[i].begin = lane.last_confirmed_nonce + 1
               /\ i > 1 => ns[i].begin = ns[i - 1].end + 1
    <3>1. CASE i \in 1 .. last
      <4>1. ns[i] = rs[i] /\ (i > 1 => ns[i - 1] = rs[i - 1])
        <5>1. i > 1 => i - 1 \in 1 .. last
          BY <1>1, <3>1
        <5> QED BY <2>3, <3>1, <5>1
      <4> QED BY <1>6, <3>1, <4>1
    <3>2. CASE i = last + 1
      <4>1. ns[i].begin = nonce /\ ns[i].end = nonce
        BY <2>2, <2>3, <3>2
      <4>2. CASE last = 0
        <5>1. rs = <<>>
          BY <1>1, <4>2
        <5> QED BY <1>2, <1>3, <3>2, <4>1, <4>2, <5>1 DEF last_delivered_nonce
      <4>3. CASE last > 0
        <5>1. i - 1 = last /\ last \in 1 .. last /\ rs # <<>>
          BY <1>1, <3>2, <4>3
        <5>2. last_delivered_nonce(lane) = rs[last].end /\ ns[i - 1] = rs[last]
          BY <2>3, <5>1 DEF last_delivered_nonce
        <5> QED BY <1>1, <1>2, <1>3, <3>2, <4>1, <4>3, <5>2
      <4> QED BY <1>1, <4>2, <4>3
    <3> QED BY <1>1, <2>3, <3>1, <3>2
  <2>5. ASSUME NEW i \in 1 .. Len(ns), NEW n \in ns[i].begin .. ns[i].end
        PROVE  e[n].relayer = ns[i].relayer
    <3>1. CASE i \in 1 .. last
      BY SMTT(30), <1>8, <2>3, <3>1
    <3>2. CASE i = last + 1
      <4>1. n = nonce
        BY <2>2, <2>3, <3>2
      <4> QED BY <1>4, <2>2, <2>3, <3>2, <4>1
    <3> QED BY <1>1, <2>3, <3>1, <3>2
  <2>6. ASSUME NEW i \in 1 .. Len(ns), NEW j \in 1 .. Len(ns), i < j
        PROVE  ns[i].end < ns[j].begin
    <3>1. i \in 1 .. last /\ ns[i] = rs[i]
      BY <1>1, <2>3, <2>6
    <3>2. CASE j \in 1 .. last
      BY Zenon, <1>7, <2>3, <2>6, <3>1, <3>2
    <3>3. CASE j = last + 1
      BY <1>3, <2>2, <2>3, <3>1, <3>3
    <3> QED BY SMTT(30), <1>1, <2>3, <3>2, <3>3
  <2>7. InboundOK(new, e)
    <3>1. /\ new \in InboundLaneData /\ new.relayers = ns
          /\ new.last_confirmed_nonce = lane.last_confirmed_nonce
      BY <1>9, <2>3
    <3> HIDE DEF ns
    <3> QED BY <3>1, <2>4, <2>5, <2>6 DEF InboundOK
  <2>8. last_delivered_nonce(new) = nonce
    <3>1. new.relayers = ns /\ ns # <<>> /\ ns[Len(ns)].end = nonce
      BY <1>1, <1>9, <2>2, <2>3 DEF ns
    <3> QED BY <3>1 DEF last_delivered_nonce
  <2> QED BY <1>1, <1>2, <1>9, <2>3, <2>7, <2>8 DEF e, ns, new
<1> QED BY <1>10, <1>11

\* The entries of an older state of the lane stay true when more is dispatched.
LEMMA OldEntriesStay ==
  ASSUME NEW T, NEW d \in Seq(T), NEW x \in T, NEW lane, InboundOK(lane, d),
         last_delivered_nonce(lane) <= Len(d)
  PROVE  InboundOK(lane, Append(d, x))
<1> DEFINE rs == lane.relayers
<1>1. rs \in Seq(UnrewardedRelayer) /\ lane.last_confirmed_nonce \in Nat
  BY DEF InboundOK, InboundLaneData
<1>2. ASSUME NEW i \in 1 .. Len(rs), NEW n \in rs[i].begin .. rs[i].end
      PROVE  Append(d, x)[n].relayer = rs[i].relayer
  <2>1. /\ rs[i].begin \in Nat /\ rs[i].end \in Nat
    BY <1>1, EntryFields
  <2>2. /\ rs[i].end <= last_delivered_nonce(lane) /\ last_delivered_nonce(lane) \in Nat
        /\ lane.last_confirmed_nonce < rs[i].begin
    BY Zenon, LastDelivered DEF InboundOK
  <2>3. n \in 1 .. Len(d)
    BY <1>1, <2>1, <2>2
  <2>4. d[n].relayer = rs[i].relayer
    BY DEF InboundOK
  <2> QED BY <2>3, <2>4
<1> QED BY Zenon, <1>2 DEF InboundOK

\* Only the entries and the last confirmed nonce matter, not the state of the lane.
LEMMA SameEntries ==
  ASSUME NEW d, NEW lane, InboundOK(lane, d), NEW new \in InboundLaneData,
         new.relayers = lane.relayers, new.last_confirmed_nonce = lane.last_confirmed_nonce
  PROVE  InboundOK(new, d)
<1> DEFINE rs == lane.relayers
<1>1. /\ \A i \in 1 .. Len(rs) :
           /\ rs[i].begin <= rs[i].end
           /\ new.last_confirmed_nonce < rs[i].begin
           /\ i = 1 => rs[i].begin = new.last_confirmed_nonce + 1
           /\ i > 1 => rs[i].begin = rs[i - 1].end + 1
           /\ \A n \in rs[i].begin .. rs[i].end : d[n].relayer = rs[i].relayer
      /\ \A i, j \in 1 .. Len(rs) : i < j => rs[i].end < rs[j].begin
  BY DEF InboundOK
<1>2. new.relayers = rs
  OBVIOUS
<1> HIDE DEF rs
<1> QED BY <1>1, <1>2 DEF InboundOK

\* confirm_delivery does not fail on an inbound lane in order that knows of no more
\* confirmations than the outbound lane and of no more messages.
LEMMA ConfirmationSucceeds ==
  ASSUME NEW d, NEW lane, InboundOK(lane, d), NEW out \in OutboundLaneData,
         lane.last_confirmed_nonce <= out.latest_received_nonce,
         last_delivered_nonce(lane) <= out.latest_generated_nonce
  PROVE  /\ confirmation(out, lane) # "Error"
         /\ confirmation(out, lane) = "Confirmed" =>
              out.latest_received_nonce < last_delivered_nonce(lane)
<1> DEFINE rs == lane.relayers
           delivered == last_delivered_nonce(lane)
           received == out.latest_received_nonce
<1>1. rs \in Seq(UnrewardedRelayer) /\ received \in Nat /\ lane.last_confirmed_nonce \in Nat
  BY DEF InboundOK, InboundLaneData, OutboundLaneData
<1>2. delivered \in Nat /\ \A i \in 1 .. Len(rs) : rs[i].end <= delivered
  BY LastDelivered
<1>3. saturating_len(received + 1, delivered) = IF delivered > received THEN delivered - received ELSE 0
  BY <1>1, <1>2 DEF saturating_len
<1>4. CASE delivered <= received
  BY <1>1, <1>2, <1>3, <1>4 DEF confirmation
<1>5. CASE delivered > received
  <2>1. rs # <<>>
    BY <1>1, <1>2, <1>5 DEF last_delivered_nonce
  <2>2. /\ Len(rs) \in Nat \ {0} /\ delivered = rs[Len(rs)].end
        /\ rs[1].begin = lane.last_confirmed_nonce + 1
    BY <1>1, <2>1 DEF last_delivered_nonce, InboundOK
  <2>3. total_unrewarded_messages(lane) = delivered - lane.last_confirmed_nonce
    BY SMTT(30), <1>1, <1>2, <1>5, <2>1, <2>2 DEF total_unrewarded_messages, saturating_len
  <2>4. unrewarded_relayers_are_correct(delivered, rs)
    BY <1>2 DEF unrewarded_relayers_are_correct, InboundOK
  <2>5. /\ saturating_len(received + 1, delivered) # 0
        /\ saturating_len(received + 1, delivered) <= total_unrewarded_messages(lane)
    BY <1>1, <1>2, <1>3, <1>5, <2>3
  <2>6. confirmation(out, lane) = "Confirmed"
    BY <2>4, <2>5 DEF confirmation
  <2> QED BY <1>5, <2>6
<1> QED BY <1>1, <1>2, <1>4, <1>5

-----------------------------------------------------------------------------
(* The operations of the outbound lane                                       *)

\* send_message generates the next nonce.
LEMMA Sent ==
  ASSUME NEW lane \in OutboundLaneData
  PROVE  /\ send_message(lane) \in OutboundLaneData
         /\ send_message(lane).latest_generated_nonce = lane.latest_generated_nonce + 1
         /\ send_message(lane).latest_received_nonce = lane.latest_received_nonce
         /\ send_message(lane).state = lane.state
BY DEF send_message, OutboundLaneData

\* confirm_delivery takes the last delivered nonce of the proved lane for received.
LEMMA DeliveryConfirmed ==
  ASSUME NEW lane \in OutboundLaneData, NEW inbound, last_delivered_nonce(inbound) \in Nat
  PROVE  /\ confirm_delivery(lane, inbound) \in OutboundLaneData
         /\ confirm_delivery(lane, inbound).latest_generated_nonce = lane.latest_generated_nonce
         /\ confirm_delivery(lane, inbound).latest_received_nonce = last_delivered_nonce(inbound)
         /\ confirm_delivery(lane, inbound).state = lane.state
<1> DEFINE n == last_delivered_nonce(inbound)
<1>1. n + 1 \in Nat /\ n \in Nat
  OBVIOUS
<1>2. confirm_delivery(lane, inbound) =
        [lane EXCEPT !.latest_received_nonce = n, !.oldest_unpruned_nonce = n + 1]
  BY DEF confirm_delivery
<1> HIDE DEF n
<1> DEFINE new == [lane EXCEPT !.latest_received_nonce = n, !.oldest_unpruned_nonce = n + 1]
<1>3. /\ new \in OutboundLaneData /\ new.latest_generated_nonce = lane.latest_generated_nonce
      /\ new.latest_received_nonce = n /\ new.state = lane.state
  BY Zenon, <1>1 DEF OutboundLaneData
<1> QED BY <1>2, <1>3 DEF n

\* close_bridge leaves the nonces of the messages generated and received alone.
LEMMA LaneClosed ==
  ASSUME NEW lane \in OutboundLaneData, NEW may_prune \in Nat,
         NEW new, new = close(lane, prunable(lane, may_prune))
  PROVE  /\ new \in OutboundLaneData
         /\ new.latest_generated_nonce = lane.latest_generated_nonce
         /\ new.latest_received_nonce = lane.latest_received_nonce
         /\ new.state # "Opened"
<1> DEFINE left == saturating_len(lane.oldest_unpruned_nonce, lane.latest_generated_nonce)
           pruned == prunable(lane, may_prune)
<1>1. left \in Nat
  BY DEF saturating_len, OutboundLaneData
<1> HIDE DEF left
<1>2. pruned \in Nat
  BY <1>1, MinOfNaturals DEF prunable, left
<1> DEFINE oldest == lane.oldest_unpruned_nonce + pruned
           state == IF oldest <= lane.latest_generated_nonce THEN "Closed" ELSE "Purged"
<1>3. oldest \in Nat /\ state \in LaneState /\ state # "Opened"
  BY <1>2 DEF OutboundLaneData, LaneState
<1>4. new = [lane EXCEPT !.oldest_unpruned_nonce = oldest, !.state = state]
  BY DEF close
<1> HIDE DEF oldest, state
<1> QED BY Zenon, <1>3, <1>4 DEF OutboundLaneData

=============================================================================
