-------------------------- MODULE HrmpStorage_proofs --------------------------
(***************************************************************************)
(* What the operations of the hrmp pallet keep of its storage, for any     *)
(* paras and channels.                                                     *)
(***************************************************************************)
EXTENDS HrmpStorage, FiniteSetTheorems, TLAPS

\* The para at the other end of each channel of `set' that has p at side 1, or at side 2.
recipients(set, p) == {ch[2] : ch \in of_side(set, p, 1)}
senders(set, p) == {ch[1] : ch \in of_side(set, p, 2)}

\* A storage has its fields.
IsStorage(st) ==
  st = [open_requests |-> st.open_requests, open_count |-> st.open_count,
        accepted_count |-> st.accepted_count, close_requests |-> st.close_requests,
        channels |-> st.channels, ingress |-> st.ingress, egress |-> st.egress,
        contents |-> st.contents, digests |-> st.digests, watermarks |-> st.watermarks,
        remote |-> st.remote, asked |-> st.asked, answers |-> st.answers, held |-> st.held,
        reserved |-> st.reserved]

IsRequest(request) ==
  request = [confirmed |-> request.confirmed, deposit |-> request.deposit, limits |-> request.limits]

\* The indexes are those of the open channels.
Indexed(st) ==
  /\ st.egress = [p \in Paras |-> recipients(opened(st), p)]
  /\ st.ingress = [p \in Paras |-> senders(opened(st), p)]

Good(st) ==
  /\ IsStorage(st) /\ Indexed(st)
  /\ opened(st) \cup requested(st) \cup st.close_requests \subseteq Channels
  /\ \A ch \in requested(st) : IsRequest(st.open_requests[ch])
  /\ \A answer \in st.answers : answer.channel \in Channels

-----------------------------------------------------------------------------

\* A channel is what its two paras are.
LEMMA ChannelIsPair ==
  ASSUME NEW c \in Channels, NEW d \in Channels, c[1] = d[1], c[2] = d[2]
  PROVE  c = d
BY HrmpAssumption

\* Taking channels out of an index.
LEMMA IndexRemoval ==
  ASSUME NEW open \in SUBSET Channels, NEW set \in SUBSET Channels, NEW p
  PROVE  /\ recipients(open \ set, p) = recipients(open, p) \ recipients(set, p)
         /\ senders(open \ set, p) = senders(open, p) \ senders(set, p)
BY ChannelIsPair DEF recipients, senders, of_side

\* The deposit provider leaves the storage of the pallet alone.
LEMMA AskFrame ==
  ASSUME NEW st, IsStorage(st), NEW requests
  PROVE  LET new == ask(st, requests)
         IN  /\ IsStorage(new)
             /\ new.open_requests = st.open_requests /\ new.channels = st.channels
             /\ new.open_count = st.open_count /\ new.accepted_count = st.accepted_count
             /\ new.ingress = st.ingress /\ new.egress = st.egress
             /\ new.close_requests = st.close_requests /\ new.answers = st.answers
BY DEF ask, IsStorage

\* Closing channels removes them and their index entries, and touches no request.
LEMMA CloseFrame ==
  ASSUME NEW st, IsStorage(st), NEW set
  PROVE  LET new == close_hrmp_channels(st, set)
         IN  /\ IsStorage(new)
             /\ new.open_requests = st.open_requests
             /\ new.open_count = st.open_count /\ new.accepted_count = st.accepted_count
             /\ new.channels = without(st.channels, set)
             /\ new.ingress = index_without(st.ingress, set, 2)
             /\ new.egress = index_without(st.egress, set, 1)
             /\ new.close_requests = st.close_requests /\ new.answers = st.answers
<1> DEFINE requests == [ch \in set \cap opened(st) |->
             [changes |-> [i \in Sides |-> IF st.channels[ch].deposits[i] = None THEN None
                                           ELSE change(st.channels[ch].deposits[i], 0)],
              action |-> "Release", limits |-> None]]
           rel == ask(st, requests)
<1>1. close_hrmp_channels(st, set) =
        [rel EXCEPT !.channels = without(@, set), !.contents = reset(@, set, <<>>),
                    !.egress = index_without(@, set, 1), !.ingress = index_without(@, set, 2)]
  BY DEF close_hrmp_channels, release_deposits
<1>2. /\ IsStorage(rel) /\ rel.channels = st.channels /\ rel.open_requests = st.open_requests
      /\ rel.open_count = st.open_count /\ rel.accepted_count = st.accepted_count
      /\ rel.ingress = st.ingress /\ rel.egress = st.egress
      /\ rel.close_requests = st.close_requests /\ rel.answers = st.answers
  BY AskFrame
<1> HIDE DEF rel
<1> DEFINE new == close_hrmp_channels(st, set)
<1> HIDE DEF new
<1>3. new = [rel EXCEPT !.channels = without(rel.channels, set), !.contents = reset(rel.contents, set, <<>>),
                    !.egress = index_without(rel.egress, set, 1), !.ingress = index_without(rel.ingress, set, 2)]
  BY <1>1 DEF new
<1>4. IsStorage(new)
  BY <1>2, <1>3 DEF IsStorage
<1>5. /\ new.open_requests = st.open_requests
             /\ new.open_count = st.open_count /\ new.accepted_count = st.accepted_count
             /\ new.channels = without(st.channels, set)
             /\ new.ingress = index_without(st.ingress, set, 2)
             /\ new.egress = index_without(st.egress, set, 1)
             /\ new.close_requests = st.close_requests /\ new.answers = st.answers
  BY <1>2, <1>3 DEF IsStorage
<1> QED
  BY <1>4, <1>5 DEF new

-----------------------------------------------------------------------------

\* The counters are those of the requests.
CountOf(counts, set, i) == counts = [p \in Paras |-> Cardinality(of_side(set, p, i))]
Counted(st) ==
  /\ CountOf(st.open_count, requested(st), 1)
  /\ CountOf(st.accepted_count, confirmed(st), 2)

\* Which requests there are, accepted or not, is the same.
SameRequests(st, new) == requested(new) = requested(st) /\ confirmed(new) = confirmed(st)

\* The channels of a para are finitely many.
LEMMA SidesFinite ==
  ASSUME NEW set \in SUBSET Channels, NEW p, NEW i
  PROVE  /\ IsFiniteSet(set) /\ IsFiniteSet(of_side(set, p, i))
         /\ Cardinality(of_side(set, p, i)) \in Nat
<1>1. IsFiniteSet(Paras \X Paras)
  BY HrmpAssumption, FS_Product
<1>2. set \subseteq Paras \X Paras /\ of_side(set, p, i) \subseteq set
  BY HrmpAssumption DEF of_side
<1> QED
  BY <1>1, <1>2, FS_Subset, FS_CardinalityType

\* Counters less what is removed.
LEMMA CountRemoval ==
  ASSUME NEW set \in SUBSET Channels, NEW gone \in SUBSET set, NEW i,
         NEW counts, CountOf(counts, set, i)
  PROVE  CountOf(decreased(counts, gone, i), set \ gone, i)
<1> SUFFICES ASSUME NEW p \in Paras
             PROVE  SaturatingSub(Cardinality(of_side(set, p, i)), Cardinality(of_side(gone, p, i)))
                      = Cardinality(of_side(set \ gone, p, i))
  BY DEF decreased, CountOf
<1> DEFINE S == of_side(set, p, i)  T == of_side(gone, p, i)
<1>1. IsFiniteSet(S) /\ Cardinality(S) \in Nat /\ Cardinality(T) \in Nat
  BY SidesFinite
<1>2. T \in SUBSET S /\ of_side(set \ gone, p, i) = S \ T /\ S \cap T = T
  BY DEF of_side
<1>3. Cardinality(S \ T) = Cardinality(S) - Cardinality(S \cap T) /\ Cardinality(T) <= Cardinality(S)
  BY <1>1, <1>2, FS_Difference, FS_Subset
<1> HIDE DEF S, T
<1>4. Cardinality(S \cap T) = Cardinality(T)
  BY <1>2
<1>5. SaturatingSub(Cardinality(S), Cardinality(T)) = Cardinality(S \ T)
  BY <1>1, <1>3, <1>4 DEF SaturatingSub
<1> QED
  BY <1>2, <1>5 DEF S, T

\* Closing channels leaves the storage in order.
LEMMA CloseKeeps ==
  ASSUME NEW st, Good(st), NEW set \in SUBSET Channels
  PROVE  LET new == close_hrmp_channels(st, set)
         IN  /\ Good(new) /\ opened(new) = opened(st) \ set /\ SameRequests(st, new)
             /\ new.open_count = st.open_count /\ new.accepted_count = st.accepted_count
<1> DEFINE new == close_hrmp_channels(st, set)
<1>1. /\ IsStorage(new) /\ new.open_requests = st.open_requests
      /\ new.open_count = st.open_count /\ new.accepted_count = st.accepted_count
      /\ new.channels = without(st.channels, set)
      /\ new.ingress = index_without(st.ingress, set, 2)
      /\ new.egress = index_without(st.egress, set, 1)
      /\ new.close_requests = st.close_requests /\ new.answers = st.answers
  BY CloseFrame DEF Good
<1> HIDE DEF new
<1>2. opened(new) = opened(st) \ set
  BY <1>1 DEF opened, without
<1>3. SameRequests(st, new)
  BY <1>1 DEF SameRequests, requested, confirmed
<1>4. Indexed(new)
  <2>1. \A p \in Paras : /\ new.egress[p] = recipients(opened(st), p) \ recipients(set, p)
                         /\ new.ingress[p] = senders(opened(st), p) \ senders(set, p)
    BY <1>1 DEF Good, Indexed, index_without, recipients, senders
  <2>2. opened(st) \in SUBSET Channels
    BY DEF Good
  <2>3. \A p \in Paras : /\ new.egress[p] = recipients(opened(new), p)
                         /\ new.ingress[p] = senders(opened(new), p)
    <3> TAKE p \in Paras
    <3>1. /\ recipients(opened(st) \ set, p) = recipients(opened(st), p) \ recipients(set, p)
          /\ senders(opened(st) \ set, p) = senders(opened(st), p) \ senders(set, p)
      BY ONLY <2>2, set \in SUBSET Channels, IndexRemoval
    <3> QED
      BY <1>2, <2>1, <3>1
  <2> QED
    BY <1>1, <2>3 DEF Indexed, index_without
<1> QED
  BY <1>1, <1>2, <1>3, <1>4 DEF new, Good, SameRequests

\* The requests of the paras of `outgoing', and those of them that others made.
requests_of(st, outgoing) == {ch \in requested(st) : {ch[1], ch[2]} \cap outgoing # {}}
requests_to(st, outgoing) == {ch \in requests_of(st, outgoing) : ch[1] \notin outgoing}

\* The paras of `outgoing' have no request any more, the others keep theirs.
LEMMA CleanRequestsKeeps ==
  ASSUME NEW st, Good(st), NEW config, NEW outgoing
  PROVE  LET new == clean_open_channel_requests(st, config, outgoing)
             go == requests_of(st, outgoing)
         IN  /\ Good(new) /\ opened(new) = opened(st) /\ requested(new) = requested(st) \ go
             /\ confirmed(new) = confirmed(st) \ go
             /\ new.open_count = decreased(st.open_count, requests_to(st, outgoing), 1)
             /\ new.accepted_count = decreased(st.accepted_count, go \cap confirmed(st), 2)
<1> DEFINE go == requests_of(st, outgoing)
           requests == [ch \in go |->
             [changes |-> [i \in Sides |->
                 IF <<st.open_requests[ch].deposit, recipient_taken(st, ch, config)>>[i] = None THEN None
                 ELSE change(<<st.open_requests[ch].deposit, recipient_taken(st, ch, config)>>[i], 0)],
              action |-> "Release", limits |-> None]]
           rel == ask(st, requests)
           new == clean_open_channel_requests(st, config, outgoing)
<1>1. new = [rel EXCEPT !.open_requests = without(@, go),
                        !.accepted_count = decreased(@, go \cap confirmed(st), 2),
                        !.open_count = decreased(@, requests_to(st, outgoing), 1)]
  BY DEF clean_open_channel_requests, without_requests, release_deposits, requests_of, requests_to
<1>2. /\ IsStorage(rel) /\ rel.channels = st.channels /\ rel.open_requests = st.open_requests
      /\ rel.open_count = st.open_count /\ rel.accepted_count = st.accepted_count
      /\ rel.ingress = st.ingress /\ rel.egress = st.egress
      /\ rel.close_requests = st.close_requests /\ rel.answers = st.answers
  BY AskFrame DEF Good
<1> HIDE DEF rel, new, go
<1>3. IsStorage(new)
  BY <1>1, <1>2 DEF IsStorage
<1>4. /\ new.open_requests = without(st.open_requests, go) /\ new.channels = st.channels
      /\ new.accepted_count = decreased(st.accepted_count, go \cap confirmed(st), 2)
      /\ new.open_count = decreased(st.open_count, requests_to(st, outgoing), 1)
      /\ new.ingress = st.ingress /\ new.egress = st.egress
      /\ new.close_requests = st.close_requests /\ new.answers = st.answers
  BY <1>1, <1>2 DEF IsStorage
<1>5. /\ opened(new) = opened(st) /\ requested(new) = requested(st) \ go
      /\ confirmed(new) = confirmed(st) \ go
      /\ \A ch \in requested(new) : new.open_requests[ch] = st.open_requests[ch]
  BY <1>4 DEF opened, requested, confirmed, without
<1>6. Good(new)
  BY <1>3, <1>4, <1>5 DEF Good, Indexed
<1> QED
  BY <1>4, <1>5, <1>6 DEF new, go

\* The paras of `outgoing' have no channel any more, the others keep theirs.
LEMMA CleanChannelsKeeps ==
  ASSUME NEW st, Good(st), NEW outgoing
  PROVE  LET new == clean_hrmp_after_outgoing(st, outgoing)
         IN  /\ Good(new) /\ SameRequests(st, new)
             /\ opened(new) = {ch \in opened(st) : ch[1] \notin outgoing /\ ch[2] \notin outgoing}
             /\ new.open_count = reset(st.open_count, outgoing, 0)
             /\ new.accepted_count = reset(st.accepted_count, outgoing, 0)
<1> DEFINE to_close == {ch \in Channels : \/ ch[2] \in outgoing /\ ch[1] \in st.ingress[ch[2]]
                                          \/ ch[1] \in outgoing /\ ch[2] \in st.egress[ch[1]]}
           cut == [st EXCEPT !.open_count = reset(@, outgoing, 0),
                             !.accepted_count = reset(@, outgoing, 0),
                             !.ingress = reset(@, outgoing, {}), !.egress = reset(@, outgoing, {})]
           new == clean_hrmp_after_outgoing(st, outgoing)
<1>1. new = close_hrmp_channels(cut, to_close)
  BY DEF clean_hrmp_after_outgoing
<1>2. /\ IsStorage(cut) /\ cut.open_requests = st.open_requests /\ cut.channels = st.channels
      /\ cut.open_count = reset(st.open_count, outgoing, 0)
      /\ cut.accepted_count = reset(st.accepted_count, outgoing, 0)
      /\ cut.ingress = reset(st.ingress, outgoing, {}) /\ cut.egress = reset(st.egress, outgoing, {})
      /\ cut.close_requests = st.close_requests /\ cut.answers = st.answers
  <2>1. IsStorage(st)
    BY DEF Good
  <2>2. cut = [st EXCEPT !.open_count = reset(@, outgoing, 0),
                         !.accepted_count = reset(@, outgoing, 0),
                         !.ingress = reset(@, outgoing, {}), !.egress = reset(@, outgoing, {})]
    OBVIOUS
  <2> HIDE DEF cut
  <2>3. IsStorage(cut)
    BY <2>1, <2>2 DEF IsStorage
  <2> QED
    BY <2>1, <2>2, <2>3 DEF IsStorage
<1> HIDE DEF cut, new
<1>3. /\ IsStorage(new) /\ new.open_requests = st.open_requests
      /\ new.open_count = cut.open_count /\ new.accepted_count = cut.accepted_count
      /\ new.channels = without(st.channels, to_close)
      /\ new.ingress = index_without(cut.ingress, to_close, 2)
      /\ new.egress = index_without(cut.egress, to_close, 1)
      /\ new.close_requests = st.close_requests /\ new.answers = st.answers
  BY <1>1, <1>2, CloseFrame
<1>4. \A ch \in opened(st) : ch \in to_close <=> ch[1] \in outgoing \/ ch[2] \in outgoing
  BY HrmpAssumption DEF Good, Indexed, recipients, senders, of_side
<1>5. to_close \subseteq opened(st)
  BY HrmpAssumption, ChannelIsPair DEF Good, Indexed, recipients, senders, of_side
<1> HIDE DEF to_close
<1>6. opened(new) = {ch \in opened(st) : ch[1] \notin outgoing /\ ch[2] \notin outgoing}
  BY <1>3, <1>4 DEF opened, without
<1>7. SameRequests(st, new)
  BY <1>3 DEF SameRequests, requested, confirmed
<1>8. Indexed(new)
  <2>1. \A p \in Paras : /\ new.egress[p] = recipients(opened(new), p)
                         /\ new.ingress[p] = senders(opened(new), p)
    <3> TAKE p \in Paras
    <3>1. /\ new.egress[p] = cut.egress[p] \ recipients(to_close, p)
          /\ new.ingress[p] = cut.ingress[p] \ senders(to_close, p)
      BY <1>3 DEF index_without, recipients, senders
    <3>2. /\ cut.egress[p] = IF p \in outgoing THEN {} ELSE recipients(opened(st), p)
          /\ cut.ingress[p] = IF p \in outgoing THEN {} ELSE senders(opened(st), p)
      BY <1>2 DEF reset, Good, Indexed
    <3>3. opened(st) \in SUBSET Channels
      BY DEF Good
    <3> QED
      BY <1>4, <1>5, <1>6, <3>1, <3>2, <3>3, ChannelIsPair DEF recipients, senders, of_side
  <2> QED
    BY <1>3, <2>1 DEF Indexed, index_without
<1> QED
  BY <1>2, <1>3, <1>6, <1>7, <1>8 DEF new, Good, SameRequests

\* Offboarding leaves nothing of the paras that go, all of the others, and the counters right.
LEMMA CleanupKeeps ==
  ASSUME NEW st, Good(st), NEW config, NEW outgoing
  PROVE  LET new == perform_outgoing_para_cleanup(st, config, outgoing)
             stays(ch) == ch[1] \notin outgoing /\ ch[2] \notin outgoing
         IN  /\ Good(new)
             /\ opened(new) = {ch \in opened(st) : stays(ch)}
             /\ requested(new) = {ch \in requested(st) : stays(ch)}
             /\ confirmed(new) = {ch \in confirmed(st) : stays(ch)}
             /\ Counted(st) => Counted(new)
<1> DEFINE mid == clean_open_channel_requests(st, config, outgoing)
           new == perform_outgoing_para_cleanup(st, config, outgoing)
           go == requests_of(st, outgoing)
           own == requests_to(st, outgoing)
<1>1. /\ Good(mid) /\ opened(mid) = opened(st) /\ requested(mid) = requested(st) \ go
      /\ confirmed(mid) = confirmed(st) \ go
      /\ mid.open_count = decreased(st.open_count, own, 1)
      /\ mid.accepted_count = decreased(st.accepted_count, go \cap confirmed(st), 2)
  BY CleanRequestsKeeps
<1> HIDE DEF mid
<1>2. /\ Good(new) /\ SameRequests(mid, new)
      /\ opened(new) = {ch \in opened(mid) : ch[1] \notin outgoing /\ ch[2] \notin outgoing}
      /\ new.open_count = reset(mid.open_count, outgoing, 0)
      /\ new.accepted_count = reset(mid.accepted_count, outgoing, 0)
  BY <1>1, CleanChannelsKeeps DEF perform_outgoing_para_cleanup, mid
<1> HIDE DEF new
<1>3. /\ opened(new) = {ch \in opened(st) : ch[1] \notin outgoing /\ ch[2] \notin outgoing}
      /\ requested(new) = {ch \in requested(st) : ch[1] \notin outgoing /\ ch[2] \notin outgoing}
      /\ confirmed(new) = {ch \in confirmed(st) : ch[1] \notin outgoing /\ ch[2] \notin outgoing}
  BY <1>1, <1>2 DEF SameRequests, confirmed, requests_of
<1>4. ASSUME Counted(st)
      PROVE  Counted(new)
  <2>1. /\ requested(st) \in SUBSET Channels /\ own \in SUBSET requested(st)
        /\ confirmed(st) \in SUBSET Channels /\ go \cap confirmed(st) \in SUBSET confirmed(st)
    BY DEF Good, confirmed, requests_of, requests_to
  <2>2. /\ CountOf(mid.open_count, requested(st) \ own, 1)
        /\ CountOf(mid.accepted_count, confirmed(st) \ (go \cap confirmed(st)), 2)
    BY ONLY <1>1, <1>4, <2>1, CountRemoval DEF Counted
  <2>3. \A p \in Paras :
          /\ new.open_count[p] =
               IF p \in outgoing THEN 0 ELSE Cardinality(of_side(requested(st) \ own, p, 1))
          /\ new.accepted_count[p] = IF p \in outgoing THEN 0
               ELSE Cardinality(of_side(confirmed(st) \ (go \cap confirmed(st)), p, 2))
    BY <1>2, <2>2 DEF reset, CountOf
  <2>4. ASSUME NEW p \in Paras
        PROVE  /\ new.open_count[p] = Cardinality(of_side(requested(new), p, 1))
               /\ new.accepted_count[p] = Cardinality(of_side(confirmed(new), p, 2))
    <3>1. CASE p \in outgoing
      <4>1. of_side(requested(new), p, 1) = {} /\ of_side(confirmed(new), p, 2) = {}
        BY <1>3, <3>1 DEF of_side
      <4> QED
        BY <2>3, <3>1, <4>1, FS_EmptySet
    <3>2. CASE p \notin outgoing
      <4>1. /\ of_side(requested(new), p, 1) = of_side(requested(st) \ own, p, 1)
            /\ of_side(confirmed(new), p, 2) = of_side(confirmed(st) \ (go \cap confirmed(st)), p, 2)
        BY <1>3, <3>2 DEF of_side, confirmed, requests_of, requests_to
      <4> QED
        BY <2>3, <3>2, <4>1
    <3> QED
      BY <3>1, <3>2
  <2>5. DOMAIN new.open_count = Paras /\ DOMAIN new.accepted_count = Paras
    BY <1>2, <2>2 DEF reset, CountOf
  <2> QED
    BY <1>2, <2>2, <2>4, <2>5 DEF Counted, CountOf, reset
<1> QED
  BY <1>2, <1>3, <1>4 DEF new

\* Confirmed requests are gone and open if both paras are valid.
LEMMA OpenKeeps ==
  ASSUME NEW st, Good(st), NEW config, NEW valid
  PROVE  LET new == process_hrmp_open_channel_requests(st, config, valid)
         IN  /\ Good(new)
             /\ opened(new) = opened(st) \cup {ch \in confirmed(st) : ch[1] \in valid /\ ch[2] \in valid}
             /\ requested(new) = requested(st) \ confirmed(st) /\ confirmed(new) = {}
             /\ Counted(st) => Counted(new)
<1> DEFINE done == confirmed(st)
           enacted == {ch \in done : ch[1] \in valid /\ ch[2] \in valid}
           price(ch) == required_deposits(ch, config)[2]
           requests == [ch \in done \ enacted |->
             [changes |-> [i \in Sides |->
                 IF <<st.open_requests[ch].deposit, price(ch)>>[i] = None THEN None
                 ELSE change(<<st.open_requests[ch].deposit, price(ch)>>[i], 0)],
              action |-> "Release", limits |-> None]]
           rel == ask(st, requests)
           now_open == [ch \in DOMAIN rel.channels \cup enacted |->
             IF ch \in enacted THEN new_channel(st.open_requests[ch], price(ch)) ELSE rel.channels[ch]]
           new == process_hrmp_open_channel_requests(st, config, valid)
<1>1. new = [rel EXCEPT !.channels = now_open,
                        !.ingress = index_with(@, enacted, 2), !.egress = index_with(@, enacted, 1),
                        !.open_count = decreased(@, done, 1), !.accepted_count = decreased(@, done, 2),
                        !.open_requests = without(@, done)]
  BY DEF process_hrmp_open_channel_requests, release_deposits
<1>2. /\ IsStorage(rel) /\ rel.channels = st.channels /\ rel.open_requests = st.open_requests
      /\ rel.open_count = st.open_count /\ rel.accepted_count = st.accepted_count
      /\ rel.ingress = st.ingress /\ rel.egress = st.egress
      /\ rel.close_requests = st.close_requests /\ rel.answers = st.answers
  BY AskFrame DEF Good
<1>3. DOMAIN now_open = opened(st) \cup enacted
  BY <1>2 DEF opened
<1> HIDE DEF rel, new, now_open
<1>4. IsStorage(new)
  BY <1>1, <1>2 DEF IsStorage
<1>5. /\ new.open_requests = without(st.open_requests, done) /\ new.channels = now_open
      /\ new.accepted_count = decreased(st.accepted_count, done, 2)
      /\ new.open_count = decreased(st.open_count, done, 1)
      /\ new.ingress = index_with(st.ingress, enacted, 2)
      /\ new.egress = index_with(st.egress, enacted, 1)
      /\ new.close_requests = st.close_requests /\ new.answers = st.answers
  BY <1>1, <1>2 DEF IsStorage
<1>6. /\ opened(new) = opened(st) \cup enacted /\ requested(new) = requested(st) \ done
      /\ confirmed(new) = {}
      /\ \A ch \in requested(new) : new.open_requests[ch] = st.open_requests[ch]
  BY <1>3, <1>5 DEF opened, requested, confirmed, without
<1>7. Indexed(new)
  <2>1. ASSUME NEW p \in Paras
        PROVE  /\ new.egress[p] = recipients(opened(new), p)
               /\ new.ingress[p] = senders(opened(new), p)
    <3>1. /\ new.egress[p] = recipients(opened(st), p) \cup recipients(enacted, p)
          /\ new.ingress[p] = senders(opened(st), p) \cup senders(enacted, p)
      BY <1>5 DEF Good, Indexed, index_with, recipients, senders
    <3>2. /\ recipients(opened(st) \cup enacted, p) = recipients(opened(st), p) \cup recipients(enacted, p)
          /\ senders(opened(st) \cup enacted, p) = senders(opened(st), p) \cup senders(enacted, p)
      BY DEF recipients, senders, of_side
    <3> QED
      BY <1>6, <3>1, <3>2
  <2> QED
    BY <1>5, <2>1 DEF Indexed, index_with
<1>8. Good(new)
  BY <1>4, <1>5, <1>6, <1>7 DEF Good, confirmed
<1>9. ASSUME Counted(st)
      PROVE  Counted(new)
  <2>1. requested(st) \in SUBSET Channels /\ done \in SUBSET requested(st) /\ done \in SUBSET Channels
    BY DEF Good, confirmed
  <2>2. /\ CountOf(new.open_count, requested(st) \ done, 1)
        /\ CountOf(new.accepted_count, done \ done, 2)
    BY ONLY <1>5, <1>9, <2>1, CountRemoval DEF Counted
  <2>3. done \ done = {}
    OBVIOUS
  <2> QED
    BY <1>6, <2>2, <2>3 DEF Counted
<1> QED
  BY <1>6, <1>8, <1>9 DEF new

\* So does processing the close requests.
LEMMA CloseRequestsKeeps ==
  ASSUME NEW st, Good(st)
  PROVE  LET new == process_hrmp_close_channel_requests(st)
         IN  /\ Good(new) /\ opened(new) = opened(st) \ st.close_requests /\ SameRequests(st, new)
             /\ Counted(st) => Counted(new)
<1> DEFINE taken == [st EXCEPT !.close_requests = {}]
<1>1. /\ IsStorage(taken) /\ taken.channels = st.channels /\ taken.open_requests = st.open_requests
      /\ taken.open_count = st.open_count /\ taken.accepted_count = st.accepted_count
      /\ taken.ingress = st.ingress /\ taken.egress = st.egress
      /\ taken.close_requests = {} /\ taken.answers = st.answers
  BY DEF Good, IsStorage
<1> HIDE DEF taken
<1>2. Good(taken) /\ SameRequests(st, taken) /\ opened(taken) = opened(st)
  BY <1>1 DEF Good, Indexed, SameRequests, requested, confirmed, opened
<1>3. st.close_requests \in SUBSET Channels
  BY DEF Good
<1> DEFINE new == close_hrmp_channels(taken, st.close_requests)
<1>4. /\ Good(new) /\ opened(new) = opened(taken) \ st.close_requests /\ SameRequests(taken, new)
      /\ new.open_count = taken.open_count /\ new.accepted_count = taken.accepted_count
  BY ONLY <1>2, <1>3, CloseKeeps
<1>5. process_hrmp_close_channel_requests(st) = new
  BY DEF process_hrmp_close_channel_requests, taken
<1> HIDE DEF new
<1> QED
  BY <1>1, <1>2, <1>4, <1>5 DEF SameRequests, Counted

\* A session change: what is left are channels and requests of paras that stay.
LEMMA SessionKeeps ==
  ASSUME NEW st, Good(st), NEW config, NEW outgoing, NEW valid
  PROVE  LET new == process_hrmp_close_channel_requests(process_hrmp_open_channel_requests(
                      perform_outgoing_para_cleanup(st, config, outgoing), config, valid))
         IN  /\ Good(new) /\ opened(new) \subseteq opened(st) \cup confirmed(st)
             /\ requested(new) \subseteq requested(st) /\ confirmed(new) = {}
             /\ \A ch \in opened(new) \cup requested(new) : ch[1] \notin outgoing /\ ch[2] \notin outgoing
             /\ Counted(st) => Counted(new)
<1> DEFINE one == perform_outgoing_para_cleanup(st, config, outgoing)
           two == process_hrmp_open_channel_requests(one, config, valid)
           new == process_hrmp_close_channel_requests(two)
<1>1. /\ Good(one) /\ opened(one) = {ch \in opened(st) : ch[1] \notin outgoing /\ ch[2] \notin outgoing}
      /\ requested(one) = {ch \in requested(st) : ch[1] \notin outgoing /\ ch[2] \notin outgoing}
      /\ confirmed(one) = {ch \in confirmed(st) : ch[1] \notin outgoing /\ ch[2] \notin outgoing}
      /\ Counted(st) => Counted(one)
  BY CleanupKeeps
<1> HIDE DEF one
<1>2. /\ Good(two)
      /\ opened(two) = opened(one) \cup {ch \in confirmed(one) : ch[1] \in valid /\ ch[2] \in valid}
      /\ requested(two) = requested(one) \ confirmed(one) /\ confirmed(two) = {}
      /\ Counted(one) => Counted(two)
  BY <1>1, OpenKeeps
<1> HIDE DEF two
<1>3. /\ Good(new) /\ opened(new) = opened(two) \ two.close_requests /\ SameRequests(two, new)
      /\ Counted(two) => Counted(new)
  BY <1>2, CloseRequestsKeeps
<1> HIDE DEF new
<1>4. Good(new) /\ confirmed(new) = {} /\ (Counted(st) => Counted(new))
  BY <1>1, <1>2, <1>3 DEF SameRequests
<1>5. /\ opened(new) \subseteq opened(st) \cup confirmed(st)
      /\ requested(new) \subseteq requested(st)
      /\ \A ch \in opened(new) \cup requested(new) : ch[1] \notin outgoing /\ ch[2] \notin outgoing
  BY <1>1, <1>2, <1>3 DEF SameRequests
<1> QED
  BY <1>4, <1>5 DEF one, two, new

-----------------------------------------------------------------------------

\* What neither opens nor closes nor requests anything.
SameBooks(st, new) ==
  /\ IsStorage(new) /\ opened(new) = opened(st) /\ new.open_requests = st.open_requests
  /\ new.open_count = st.open_count /\ new.accepted_count = st.accepted_count
  /\ new.ingress = st.ingress /\ new.egress = st.egress

\* A storage with the same books is in order too.
LEMMA SameBooksKeep ==
  ASSUME NEW st, Good(st), NEW new, SameBooks(st, new), new.close_requests \subseteq Channels,
         \A answer \in new.answers : answer.channel \in Channels
  PROVE  Good(new) /\ SameRequests(st, new) /\ (Counted(st) => Counted(new))
<1>1. SameRequests(st, new)
  BY DEF SameBooks, SameRequests, requested, confirmed
<1>2. Indexed(new)
  BY DEF SameBooks, Good, Indexed
<1>3. Good(new)
  BY <1>1, <1>2 DEF Good, SameBooks, SameRequests
<1> QED
  BY <1>1, <1>3 DEF Counted, SameBooks, SameRequests

\* Asking the deposit provider keeps the books.
LEMMA AskKeeps ==
  ASSUME NEW st, Good(st), NEW requests
  PROVE  /\ SameBooks(st, ask(st, requests)) /\ Good(ask(st, requests))
         /\ ask(st, requests).channels = st.channels
<1>1. /\ SameBooks(st, ask(st, requests)) /\ ask(st, requests).channels = st.channels
      /\ ask(st, requests).close_requests = st.close_requests
      /\ ask(st, requests).answers = st.answers
  BY AskFrame DEF Good, SameBooks, opened
<1>2. Good(ask(st, requests))
  BY <1>1, SameBooksKeep DEF Good
<1> QED
  BY <1>1, <1>2

\* Pruning and queueing messages open and close no channel.
LEMMA MessagesKeep ==
  ASSUME NEW st, IsStorage(st), NEW p, NEW watermark, NEW now, NEW msgs
  PROVE  /\ SameBooks(st, prune_hrmp(st, p, watermark))
         /\ SameBooks(st, queue_outbound_hrmp(st, now, p, msgs))
         /\ prune_hrmp(st, p, watermark).close_requests = st.close_requests
         /\ prune_hrmp(st, p, watermark).answers = st.answers
         /\ queue_outbound_hrmp(st, now, p, msgs).close_requests = st.close_requests
         /\ queue_outbound_hrmp(st, now, p, msgs).answers = st.answers
<1> DEFINE pruned == prune_hrmp(st, p, watermark)
           queued == queue_outbound_hrmp(st, now, p, msgs)
<1>1. IsStorage(pruned)
  <2> DEFINE done == {entry \in st.digests[p] : entry[1] <= watermark}
             to_prune == {ch \in Channels : ch[2] = p /\ \E entry \in done : entry[2] = ch[1]}
             gone(ch) == SelectSeq(st.contents[ch], LAMBDA msg : msg.sent_at <= watermark)
             leftover(ch) == SelectSeq(st.contents[ch], LAMBDA msg : msg.sent_at > watermark)
             D == [st.digests EXCEPT ![p] = @ \ done]
             C == [ch \in Channels |-> IF ch \in to_prune THEN leftover(ch) ELSE st.contents[ch]]
             H == [ch \in DOMAIN st.channels |-> IF ch \in to_prune THEN channel_pruned(st.channels[ch], gone(ch))
                                                 ELSE st.channels[ch]]
             W == [st.watermarks EXCEPT ![p] = watermark]
  <2>1. pruned = [st EXCEPT !.digests = D, !.contents = C, !.channels = H, !.watermarks = W]
    BY DEF prune_hrmp, IsStorage
  <2> HIDE DEF pruned, D, C, H, W
  <2> QED
    BY <2>1 DEF IsStorage
<1>2. IsStorage(queued)
  <2> DEFINE sent == {ch \in opened(st) : ch[1] = p /\ ch[2] \in DOMAIN msgs}
             H == [ch \in DOMAIN st.channels |-> IF ch \in sent
                     THEN channel_queued(st.channels[ch], msgs[ch[2]])
                     ELSE st.channels[ch]]
             C == [ch \in Channels |-> IF ch \in sent
                     THEN Append(st.contents[ch], [sent_at |-> now, size |-> msgs[ch[2]]])
                     ELSE st.contents[ch]]
             D == [q \in Paras |-> IF <<p, q>> \in sent THEN noted(st.digests[q], now, p) ELSE st.digests[q]]
  <2>1. queued = [st EXCEPT !.channels = H, !.contents = C, !.digests = D]
    BY DEF queue_outbound_hrmp, IsStorage
  <2> HIDE DEF queued, D, C, H
  <2> QED
    BY <2>1 DEF IsStorage
<1>3. DOMAIN pruned.channels = DOMAIN st.channels
  BY DEF prune_hrmp, IsStorage
<1>4. DOMAIN queued.channels = DOMAIN st.channels
  BY DEF queue_outbound_hrmp, IsStorage
<1>5. /\ pruned.open_requests = st.open_requests /\ pruned.open_count = st.open_count
      /\ pruned.accepted_count = st.accepted_count /\ pruned.ingress = st.ingress
      /\ pruned.egress = st.egress
      /\ pruned.close_requests = st.close_requests /\ pruned.answers = st.answers
  BY DEF prune_hrmp, IsStorage
<1>6. /\ queued.open_requests = st.open_requests /\ queued.open_count = st.open_count
      /\ queued.accepted_count = st.accepted_count /\ queued.ingress = st.ingress
      /\ queued.egress = st.egress
      /\ queued.close_requests = st.close_requests /\ queued.answers = st.answers
  BY DEF queue_outbound_hrmp, IsStorage
<1> QED
  BY <1>1, <1>2, <1>3, <1>4, <1>5, <1>6 DEF SameBooks, opened

\* A new open request leaves the storage in order, and counted.
LEMMA InitKeeps ==
  ASSUME NEW st, Good(st), NEW ch \in Channels, ch \notin requested(st), NEW deposit, NEW limits
  PROVE  LET new == finish_init_open_channel(st, ch, deposit, limits)
         IN  /\ Good(new) /\ opened(new) = opened(st) /\ requested(new) = requested(st) \cup {ch}
             /\ confirmed(new) = confirmed(st) /\ new.channels = st.channels
             /\ new.ingress = st.ingress /\ new.accepted_count = st.accepted_count
             /\ ~new.open_requests[ch].confirmed
             /\ Counted(st) => Counted(new)
<1> DEFINE request == [confirmed |-> FALSE, deposit |-> deposit, limits |-> limits]
           count == [st.open_count EXCEPT ![ch[1]] = @ + 1]
           new == finish_init_open_channel(st, ch, deposit, limits)
<1>1. new = [st EXCEPT !.open_count = count, !.open_requests = with(st.open_requests, ch, request)]
  BY DEF finish_init_open_channel, Good, IsStorage
<1> HIDE DEF new, count, request
<1>2. IsStorage(new)
  BY <1>1 DEF Good, IsStorage
<1>3. /\ new.open_requests = with(st.open_requests, ch, request) /\ new.channels = st.channels
      /\ new.open_count = count /\ new.accepted_count = st.accepted_count
      /\ new.ingress = st.ingress /\ new.egress = st.egress
      /\ new.close_requests = st.close_requests /\ new.answers = st.answers
  BY <1>1 DEF Good, IsStorage
<1>4. /\ opened(new) = opened(st) /\ requested(new) = requested(st) \cup {ch}
      /\ \A c \in requested(st) : new.open_requests[c] = st.open_requests[c]
      /\ new.open_requests[ch] = request
  BY <1>3 DEF opened, requested, with
<1>5. ~request.confirmed /\ IsRequest(request)
  BY DEF request, IsRequest
<1>6. confirmed(new) = confirmed(st)
  BY <1>4, <1>5 DEF confirmed
<1>7. Good(new)
  BY <1>2, <1>3, <1>4, <1>5 DEF Good, Indexed
<1>8. ASSUME Counted(st)
      PROVE  Counted(new)
  <2>1. ch[1] \in Paras /\ requested(st) \in SUBSET Channels
    BY HrmpAssumption DEF Good
  <2>2. ASSUME NEW p \in Paras
        PROVE  count[p] = Cardinality(of_side(requested(new), p, 1))
    <3>1. /\ IsFiniteSet(of_side(requested(st), p, 1))
          /\ st.open_count[p] = Cardinality(of_side(requested(st), p, 1))
      BY <1>8, <2>1, SidesFinite DEF Counted, CountOf
    <3>2. CASE p = ch[1]
      <4>1. /\ of_side(requested(new), p, 1) = of_side(requested(st), p, 1) \cup {ch}
            /\ ch \notin of_side(requested(st), p, 1)
        BY <1>4, <3>2 DEF of_side
      <4>2. count[p] = st.open_count[p] + 1
        BY <1>8, <3>2 DEF count, Counted, CountOf
      <4> QED
        BY <3>1, <4>1, <4>2, FS_AddElement
    <3>3. CASE p # ch[1]
      <4>1. of_side(requested(new), p, 1) = of_side(requested(st), p, 1)
        BY <1>4, <3>3 DEF of_side
      <4> QED
        BY <1>8, <3>1, <3>3, <4>1 DEF count, Counted, CountOf
    <3> QED
      BY <3>2, <3>3
  <2>3. count = [p \in Paras |-> count[p]]
    BY <1>8 DEF count, Counted, CountOf
  <2> QED
    BY <1>3, <1>6, <1>8, <2>2, <2>3 DEF Counted, CountOf
<1> QED
  BY <1>3, <1>4, <1>5, <1>6, <1>7, <1>8 DEF new

\* So does accepting one.
LEMMA AcceptKeeps ==
  ASSUME NEW st, Good(st), NEW ch \in requested(st), ~st.open_requests[ch].confirmed
  PROVE  LET new == finish_accept_open_channel(st, ch)
         IN  /\ Good(new) /\ opened(new) = opened(st) /\ requested(new) = requested(st)
             /\ confirmed(new) = confirmed(st) \cup {ch}
             /\ Counted(st) => Counted(new)
<1> DEFINE requests == [st.open_requests EXCEPT ![ch].confirmed = TRUE]
           count == [st.accepted_count EXCEPT ![ch[2]] = @ + 1]
           new == finish_accept_open_channel(st, ch)
<1>1. new = [st EXCEPT !.open_requests = requests, !.accepted_count = count]
  BY DEF finish_accept_open_channel, Good, IsStorage
<1>2. /\ DOMAIN requests = requested(st)
      /\ \A c \in requested(st) : c # ch => requests[c] = st.open_requests[c]
      /\ requests[ch] = [st.open_requests[ch] EXCEPT !.confirmed = TRUE]
  BY DEF requested
<1> HIDE DEF new, count, requests
<1>3. requests[ch].confirmed = TRUE /\ IsRequest(requests[ch])
  <2>1. IsRequest(st.open_requests[ch])
    BY DEF Good
  <2> QED
    BY <1>2, <2>1 DEF IsRequest
<1>4. IsStorage(new)
  BY <1>1 DEF Good, IsStorage
<1>5. /\ new.open_requests = requests /\ new.channels = st.channels
      /\ new.open_count = st.open_count /\ new.accepted_count = count
      /\ new.ingress = st.ingress /\ new.egress = st.egress
      /\ new.close_requests = st.close_requests /\ new.answers = st.answers
  BY <1>1 DEF Good, IsStorage
<1>6. opened(new) = opened(st) /\ requested(new) = requested(st)
  BY <1>2, <1>5 DEF opened, requested
<1>7. confirmed(new) = confirmed(st) \cup {ch}
  BY <1>2, <1>3, <1>5, <1>6 DEF confirmed
<1>8. Good(new)
  BY <1>2, <1>3, <1>4, <1>5, <1>6 DEF Good, Indexed
<1>9. ASSUME Counted(st)
      PROVE  Counted(new)
  <2>1. /\ ch[2] \in Paras /\ confirmed(st) \in SUBSET Channels /\ ch \notin confirmed(st)
    BY HrmpAssumption DEF Good, confirmed
  <2>2. ASSUME NEW p \in Paras
        PROVE  count[p] = Cardinality(of_side(confirmed(new), p, 2))
    <3>1. /\ IsFiniteSet(of_side(confirmed(st), p, 2))
          /\ st.accepted_count[p] = Cardinality(of_side(confirmed(st), p, 2))
      BY <1>9, <2>1, SidesFinite DEF Counted, CountOf
    <3>2. CASE p = ch[2]
      <4>1. /\ of_side(confirmed(new), p, 2) = of_side(confirmed(st), p, 2) \cup {ch}
            /\ ch \notin of_side(confirmed(st), p, 2)
        BY <1>7, <2>1, <3>2 DEF of_side
      <4>2. count[p] = st.accepted_count[p] + 1
        BY <1>9, <3>2 DEF count, Counted, CountOf
      <4> QED
        BY <3>1, <4>1, <4>2, FS_AddElement
    <3>3. CASE p # ch[2]
      <4>1. of_side(confirmed(new), p, 2) = of_side(confirmed(st), p, 2)
        BY <1>7, <3>3 DEF of_side
      <4> QED
        BY <1>9, <3>1, <3>3, <4>1 DEF count, Counted, CountOf
    <3> QED
      BY <3>2, <3>3
  <2>3. count = [p \in Paras |-> count[p]]
    BY <1>9 DEF count, Counted, CountOf
  <2> QED
    BY <1>5, <1>6, <1>9, <2>2, <2>3 DEF Counted, CountOf
<1> QED
  BY <1>6, <1>7, <1>8, <1>9 DEF new

\* So does cancelling one.
LEMMA CancelKeeps ==
  ASSUME NEW st, Good(st), NEW ch \in requested(st), ~st.open_requests[ch].confirmed
  PROVE  LET new == cancel_open_request(st, ch)
         IN  /\ Good(new) /\ opened(new) = opened(st) /\ requested(new) = requested(st) \ {ch}
             /\ confirmed(new) = confirmed(st)
             /\ Counted(st) => Counted(new)
<1> DEFINE count == [st.open_count EXCEPT ![ch[1]] = SaturatingSub(@, 1)]
           mid == [st EXCEPT !.open_requests = without(@, {ch}), !.open_count = count]
           requests == [c \in {ch} |->
             [changes |-> [i \in Sides |->
                 IF <<st.open_requests[ch].deposit, None>>[i] = None THEN None
                 ELSE change(<<st.open_requests[ch].deposit, None>>[i], 0)],
              action |-> "Release", limits |-> None]]
           new == cancel_open_request(st, ch)
<1>1. new = ask(mid, requests)
  BY DEF cancel_open_request, release_deposits, Good, IsStorage
<1>2. mid = [st EXCEPT !.open_requests = without(st.open_requests, {ch}), !.open_count = count]
  OBVIOUS
<1> HIDE DEF new, count, mid, requests
<1>3. IsStorage(mid)
  BY <1>2 DEF Good, IsStorage
<1>4. /\ mid.open_requests = without(st.open_requests, {ch}) /\ mid.channels = st.channels
      /\ mid.open_count = count /\ mid.accepted_count = st.accepted_count
      /\ mid.ingress = st.ingress /\ mid.egress = st.egress
      /\ mid.close_requests = st.close_requests /\ mid.answers = st.answers
  BY <1>2 DEF Good, IsStorage
<1>5. /\ opened(mid) = opened(st) /\ requested(mid) = requested(st) \ {ch}
      /\ \A c \in requested(mid) : mid.open_requests[c] = st.open_requests[c]
      /\ confirmed(mid) = confirmed(st)
  BY <1>4 DEF opened, requested, without, confirmed
<1>6. Good(mid)
  BY <1>3, <1>4, <1>5 DEF Good, Indexed
<1>7. ASSUME Counted(st)
      PROVE  Counted(mid)
  <2>1. ch[1] \in Paras /\ requested(st) \in SUBSET Channels
    BY HrmpAssumption DEF Good
  <2>2. ASSUME NEW p \in Paras
        PROVE  count[p] = Cardinality(of_side(requested(mid), p, 1))
    <3>1. /\ IsFiniteSet(of_side(requested(st), p, 1))
          /\ Cardinality(of_side(requested(st), p, 1)) \in Nat
          /\ st.open_count[p] = Cardinality(of_side(requested(st), p, 1))
      BY <1>7, <2>1, SidesFinite DEF Counted, CountOf
    <3>2. CASE p = ch[1]
      <4>1. /\ of_side(requested(mid), p, 1) = of_side(requested(st), p, 1) \ {ch}
            /\ ch \in of_side(requested(st), p, 1)
        BY <1>5, <3>2 DEF of_side
      <4>2. count[p] = SaturatingSub(st.open_count[p], 1)
        BY <1>7, <3>2 DEF count, Counted, CountOf
      <4>3. /\ Cardinality(of_side(requested(st), p, 1) \ {ch}) =
                 Cardinality(of_side(requested(st), p, 1)) - 1
            /\ IsFiniteSet(of_side(requested(st), p, 1) \ {ch})
        BY <3>1, <4>1, FS_RemoveElement
      <4>4. Cardinality(of_side(requested(st), p, 1) \ {ch}) \in Nat
        BY <4>3, FS_CardinalityType
      <4>5. Cardinality(of_side(requested(mid), p, 1)) = Cardinality(of_side(requested(st), p, 1) \ {ch})
        BY <4>1
      <4> QED
        BY <3>1, <4>2, <4>3, <4>4, <4>5 DEF SaturatingSub
    <3>3. CASE p # ch[1]
      <4>1. of_side(requested(mid), p, 1) = of_side(requested(st), p, 1)
        BY <1>5, <3>3 DEF of_side
      <4> QED
        BY <1>7, <3>1, <3>3, <4>1 DEF count, Counted, CountOf
    <3> QED
      BY <3>2, <3>3
  <2>3. count = [p \in Paras |-> count[p]]
    BY <1>7 DEF count, Counted, CountOf
  <2> QED
    BY <1>4, <1>5, <1>7, <2>2, <2>3 DEF Counted, CountOf
<1>8. SameBooks(mid, new) /\ Good(new)
  BY <1>1, <1>6, AskKeeps
<1> QED
  BY <1>5, <1>7, <1>8 DEF SameBooks, Counted, requested, confirmed, new

-----------------------------------------------------------------------------

\* No para has more channels and requests than config allows.
Limited(st, config) ==
  \A p \in Paras :
    /\ Cardinality(of_side(opened(st) \cup requested(st), p, 1)) <= config.max_outbound
    /\ Cardinality(of_side(opened(st) \cup confirmed(st), p, 2)) <= config.max_inbound

\* A para has no more channels than its indexes list.
LEMMA IndexSizes ==
  ASSUME NEW st, Good(st), NEW p \in Paras
  PROVE  /\ Cardinality(st.egress[p]) \in Nat /\ Cardinality(st.ingress[p]) \in Nat
         /\ Cardinality(of_side(opened(st), p, 1)) <= Cardinality(st.egress[p])
         /\ Cardinality(of_side(opened(st), p, 2)) <= Cardinality(st.ingress[p])
<1> DEFINE out == of_side(opened(st), p, 1)   f == [ch \in out |-> ch[2]]
           in == of_side(opened(st), p, 2)    g == [ch \in in |-> ch[1]]
<1>1. st.egress[p] = {ch[2] : ch \in out} /\ st.ingress[p] = {ch[1] : ch \in in}
  BY DEF Good, Indexed, recipients, senders
<1>2. out \subseteq Channels /\ in \subseteq Channels
  BY DEF Good, of_side
<1>3. st.egress[p] \in SUBSET Paras /\ st.ingress[p] \in SUBSET Paras
  BY <1>1, <1>2, HrmpAssumption
<1>4. IsFiniteSet(st.egress[p]) /\ IsFiniteSet(st.ingress[p])
  BY <1>3, HrmpAssumption, FS_Subset
<1>5. f \in Injection(out, st.egress[p])
  BY <1>1, <1>2, ChannelIsPair DEF Injection, IsInjective, of_side
<1>6. g \in Injection(in, st.ingress[p])
  BY <1>1, <1>2, ChannelIsPair DEF Injection, IsInjective, of_side
<1> HIDE DEF f, g, out, in
<1>7. Cardinality(out) <= Cardinality(st.egress[p])
  BY <1>4, <1>5, FS_Injection
<1>8. Cardinality(in) <= Cardinality(st.ingress[p])
  BY <1>4, <1>6, FS_Injection
<1> QED
  BY <1>4, <1>7, <1>8, FS_CardinalityType DEF in, out

\* The sum of two sets of channels of p and one more.
LEMMA OneMore ==
  ASSUME NEW A \in SUBSET Channels, NEW B \in SUBSET Channels, NEW ch, NEW p, NEW i,
         NEW m \in Nat, NEW n \in Nat, NEW max \in Nat, m + n < max,
         Cardinality(of_side(A, p, i)) <= m, Cardinality(of_side(B, p, i)) <= n
  PROVE  Cardinality(of_side(A \cup (B \cup {ch}), p, i)) <= max
<1> DEFINE SA == of_side(A, p, i)   SB == of_side(B, p, i)   U == SA \cup SB
<1>1. /\ IsFiniteSet(SA) /\ IsFiniteSet(SB)
      /\ Cardinality(SA) \in Nat /\ Cardinality(SB) \in Nat
  BY SidesFinite
<1>2. of_side(A \cup (B \cup {ch}), p, i) \subseteq U \cup {ch}
  BY DEF of_side
<1> HIDE DEF SA, SB
<1>3. IsFiniteSet(U) /\ Cardinality(U) = Cardinality(SA) + Cardinality(SB) - Cardinality(SA \cap SB)
  BY <1>1, FS_Union
<1>4. Cardinality(SA \cap SB) \in Nat /\ Cardinality(U) \in Nat
  BY <1>1, <1>3, FS_Intersection, FS_CardinalityType
<1>5. Cardinality(U) <= m + n
  BY <1>1, <1>3, <1>4 DEF SA, SB
<1> HIDE DEF U
<1>6. IsFiniteSet(U \cup {ch}) /\ Cardinality(U \cup {ch}) <= Cardinality(U) + 1
  <2>1. /\ IsFiniteSet(U \cup {ch})
        /\ Cardinality(U \cup {ch}) = IF ch \in U THEN Cardinality(U) ELSE Cardinality(U) + 1
    BY ONLY <1>3, FS_AddElement, Zenon
  <2> QED
    BY ONLY <2>1, <1>4
<1> DEFINE V == of_side(A \cup (B \cup {ch}), p, i)
<1>7. Cardinality(V) <= Cardinality(U \cup {ch}) /\ IsFiniteSet(V)
  BY <1>2, <1>6, FS_Subset
<1>8. Cardinality(V) \in Nat /\ Cardinality(U \cup {ch}) \in Nat
  BY <1>6, <1>7, FS_CardinalityType
<1> HIDE DEF V
<1>9. Cardinality(V) <= max
  BY <1>4, <1>5, <1>6, <1>7, <1>8
<1> QED
  BY <1>9 DEF V

\* Fewer channels and requests are within the limits too.
LEMMA FewerLimited ==
  ASSUME NEW st, Good(st), NEW new, NEW config, Limited(st, config),
         config.max_outbound \in Nat, config.max_inbound \in Nat,
         opened(new) \cup requested(new) \subseteq opened(st) \cup requested(st),
         opened(new) \cup confirmed(new) \subseteq opened(st) \cup confirmed(st)
  PROVE  Limited(new, config)
<1> SUFFICES ASSUME NEW p \in Paras
             PROVE  /\ Cardinality(of_side(opened(new) \cup requested(new), p, 1)) <= config.max_outbound
                    /\ Cardinality(of_side(opened(new) \cup confirmed(new), p, 2)) <= config.max_inbound
  BY DEF Limited
<1> DEFINE out == of_side(opened(st) \cup requested(st), p, 1)
           in == of_side(opened(st) \cup confirmed(st), p, 2)
           out2 == of_side(opened(new) \cup requested(new), p, 1)
           in2 == of_side(opened(new) \cup confirmed(new), p, 2)
<1>1. out2 \subseteq out /\ in2 \subseteq in
  BY DEF of_side
<1>2. opened(st) \cup requested(st) \in SUBSET Channels /\ opened(st) \cup confirmed(st) \in SUBSET Channels
  BY DEF Good, confirmed
<1>3. IsFiniteSet(out) /\ IsFiniteSet(in) /\ Cardinality(out) \in Nat /\ Cardinality(in) \in Nat
  BY <1>2, SidesFinite
<1>4. Cardinality(out) <= config.max_outbound /\ Cardinality(in) <= config.max_inbound
  BY DEF Limited
<1> HIDE DEF out, in, out2, in2
<1>5. /\ Cardinality(out2) <= Cardinality(out) /\ Cardinality(in2) <= Cardinality(in)
      /\ IsFiniteSet(out2) /\ IsFiniteSet(in2)
  BY <1>1, <1>3, FS_Subset
<1>6. Cardinality(out2) \in Nat /\ Cardinality(in2) \in Nat
  BY <1>5, FS_CardinalityType
<1>7. Cardinality(out2) <= config.max_outbound /\ Cardinality(in2) <= config.max_inbound
  BY <1>3, <1>4, <1>5, <1>6
<1> QED
  BY <1>7 DEF out2, in2

\* What the calls about requests keep: no channel opens or closes, new requests are between valid
\* paras, and the counters and limits hold on.
Keeps(st, new, config, valid) ==
  /\ Good(new) /\ opened(new) = opened(st)
  /\ \A ch \in requested(new) \ requested(st) : ch[1] \in valid /\ ch[2] \in valid
  /\ Counted(st) => Counted(new)
  /\ Counted(st) /\ Limited(st, config) => Limited(new, config)

HasLimits(config) == config.max_outbound \in Nat /\ config.max_inbound \in Nat

\* One call after another.
LEMMA KeepsAgain ==
  ASSUME NEW a, NEW b, NEW c, NEW config, NEW valid,
         Keeps(a, b, config, valid), Keeps(b, c, config, valid)
  PROVE  Keeps(a, c, config, valid)
BY DEF Keeps

\* An answer less, a deposit asked for or recorded.
LEMMA SameBooksKeeps ==
  ASSUME NEW st, Good(st), NEW new, SameBooks(st, new), new.close_requests \subseteq Channels,
         \A answer \in new.answers : answer.channel \in Channels, NEW config, NEW valid
  PROVE  Keeps(st, new, config, valid)
<1>1. Good(new) /\ SameRequests(st, new) /\ (Counted(st) => Counted(new)) /\ opened(new) = opened(st)
  BY SameBooksKeep DEF SameBooks
<1>2. requested(new) = requested(st) /\ confirmed(new) = confirmed(st)
  BY DEF SameBooks, requested, confirmed
<1> QED
  BY <1>1, <1>2 DEF Keeps, Limited

\* finish_init_open_channel after its checks.
LEMMA InitStep ==
  ASSUME NEW st, Good(st), NEW ch \in Channels, NEW deposit, NEW limits, NEW config, NEW valid,
         HasLimits(config), check_init_open_channel(st, ch, limits, config, valid), NEW more
  PROVE  Keeps(st, finish_init_open_channel(st, ch, deposit, more), config, valid)
<1> DEFINE new == finish_init_open_channel(st, ch, deposit, more)
<1>1. /\ ch[1] \in valid /\ ch[2] \in valid /\ ch \notin requested(st)
      /\ Cardinality(st.egress[ch[1]]) + st.open_count[ch[1]] < config.max_outbound
  BY DEF check_init_open_channel
<1>2. /\ Good(new) /\ opened(new) = opened(st) /\ requested(new) = requested(st) \cup {ch}
      /\ confirmed(new) = confirmed(st)
      /\ Counted(st) => Counted(new)
  BY <1>1, InitKeeps
<1> HIDE DEF new
<1>3. ASSUME Counted(st), Limited(st, config), NEW p \in Paras
      PROVE  /\ Cardinality(of_side(opened(new) \cup requested(new), p, 1)) <= config.max_outbound
             /\ Cardinality(of_side(opened(new) \cup confirmed(new), p, 2)) <= config.max_inbound
  <2>1. opened(st) \in SUBSET Channels /\ requested(st) \in SUBSET Channels
    BY DEF Good
  <2>2. CASE p = ch[1]
    <3>1. /\ st.open_count[p] = Cardinality(of_side(requested(st), p, 1))
          /\ Cardinality(of_side(requested(st), p, 1)) \in Nat
      BY <1>3, <2>1, SidesFinite DEF Counted, CountOf
    <3>2. /\ Cardinality(st.egress[p]) \in Nat
          /\ Cardinality(of_side(opened(st), p, 1)) <= Cardinality(st.egress[p])
      BY IndexSizes
    <3>3. Cardinality(of_side(opened(st) \cup (requested(st) \cup {ch}), p, 1)) <= config.max_outbound
      <4>1. Cardinality(st.egress[p]) + st.open_count[p] < config.max_outbound
        BY <1>1, <2>2
      <4>2. st.open_count[p] \in Nat /\ Cardinality(of_side(requested(st), p, 1)) <= st.open_count[p]
        BY <3>1
      <4>3. config.max_outbound \in Nat
        BY DEF HasLimits
      <4> HIDE DEF HasLimits
      <4> QED
        BY ONLY <2>1, <3>2, <4>1, <4>2, <4>3, OneMore
    <3> QED
      BY <1>2, <1>3, <3>3 DEF Limited
  <2>3. CASE p # ch[1]
    <3>1. of_side(opened(new) \cup requested(new), p, 1) = of_side(opened(st) \cup requested(st), p, 1)
      BY <1>2, <2>3 DEF of_side
    <3> QED
      BY <1>2, <1>3, <3>1 DEF Limited
  <2> QED
    BY <2>2, <2>3
<1> QED
  BY <1>1, <1>2, <1>3 DEF Keeps, Limited, new

\* finish_accept_open_channel after its checks.
LEMMA AcceptStep ==
  ASSUME NEW st, Good(st), NEW ch, NEW config, NEW valid, HasLimits(config),
         check_accept_open_channel(st, ch, config)
  PROVE  Keeps(st, finish_accept_open_channel(st, ch), config, valid)
<1> DEFINE new == finish_accept_open_channel(st, ch)
<1>1. /\ ch \in requested(st) /\ ~st.open_requests[ch].confirmed
      /\ Cardinality(st.ingress[ch[2]]) + st.accepted_count[ch[2]] < config.max_inbound
  BY DEF check_accept_open_channel, check_accept_limit
<1>2. /\ Good(new) /\ opened(new) = opened(st) /\ requested(new) = requested(st)
      /\ confirmed(new) = confirmed(st) \cup {ch}
      /\ Counted(st) => Counted(new)
  BY <1>1, AcceptKeeps
<1> HIDE DEF new
<1>3. ASSUME Counted(st), Limited(st, config), NEW p \in Paras
      PROVE  /\ Cardinality(of_side(opened(new) \cup requested(new), p, 1)) <= config.max_outbound
             /\ Cardinality(of_side(opened(new) \cup confirmed(new), p, 2)) <= config.max_inbound
  <2>1. opened(st) \in SUBSET Channels /\ confirmed(st) \in SUBSET Channels
    BY DEF Good, confirmed
  <2>2. CASE p = ch[2]
    <3>1. /\ st.accepted_count[p] = Cardinality(of_side(confirmed(st), p, 2))
          /\ Cardinality(of_side(confirmed(st), p, 2)) \in Nat
      BY <1>3, <2>1, SidesFinite DEF Counted, CountOf
    <3>2. /\ Cardinality(st.ingress[p]) \in Nat
          /\ Cardinality(of_side(opened(st), p, 2)) <= Cardinality(st.ingress[p])
      BY IndexSizes
    <3>3. Cardinality(of_side(opened(st) \cup (confirmed(st) \cup {ch}), p, 2)) <= config.max_inbound
      <4>1. Cardinality(st.ingress[p]) + st.accepted_count[p] < config.max_inbound
        BY <1>1, <2>2
      <4>2. st.accepted_count[p] \in Nat /\ Cardinality(of_side(confirmed(st), p, 2)) <= st.accepted_count[p]
        BY <3>1
      <4>3. config.max_inbound \in Nat
        BY DEF HasLimits
      <4> QED
        BY ONLY <2>1, <3>2, <4>1, <4>2, <4>3, OneMore
    <3> QED
      BY <1>2, <1>3, <3>3 DEF Limited
  <2>3. CASE p # ch[2]
    <3>1. of_side(opened(new) \cup confirmed(new), p, 2) = of_side(opened(st) \cup confirmed(st), p, 2)
      BY <1>2, <2>3 DEF of_side
    <3> QED
      BY <1>2, <1>3, <3>1 DEF Limited
  <2> QED
    BY <2>2, <2>3
<1> QED
  BY <1>2, <1>3 DEF Keeps, Limited, new

\* The new deposits of a channel.
LEMMA PokeStep ==
  ASSUME NEW st, Good(st), NEW ch \in opened(st), NEW request, NEW config, NEW valid
  PROVE  Keeps(st, finish_poke_channel_deposits(st, ch, request), config, valid)
<1> DEFINE new == finish_poke_channel_deposits(st, ch, request)
           chans == [st.channels EXCEPT ![ch].deposits = [i \in Sides |->
                      IF request.changes[i] = None THEN @[i] ELSE request.changes[i].target]]
<1>1. new = [st EXCEPT !.channels = chans]
  BY DEF finish_poke_channel_deposits, Good, IsStorage
<1>2. DOMAIN chans = opened(st)
  BY DEF opened
<1> HIDE DEF new, chans
<1>3. IsStorage(new)
  BY <1>1 DEF Good, IsStorage
<1>4. /\ new.open_requests = st.open_requests /\ new.channels = chans
      /\ new.open_count = st.open_count /\ new.accepted_count = st.accepted_count
      /\ new.ingress = st.ingress /\ new.egress = st.egress
      /\ new.close_requests = st.close_requests /\ new.answers = st.answers
  BY <1>1 DEF Good, IsStorage
<1>5. SameBooks(st, new)
  BY <1>2, <1>3, <1>4 DEF SameBooks, opened
<1>6. Keeps(st, new, config, valid)
  BY <1>4, <1>5, SameBooksKeeps DEF Good
<1> QED
  BY <1>6 DEF new

\* An action that passes its checks.
LEMMA ResumeStep ==
  ASSUME NEW st, Good(st), NEW ch \in Channels, NEW request, NEW config, NEW valid,
         HasLimits(config), can_resume(st, ch, request, config, valid)
  PROVE  Keeps(st, resume(st, ch, request), config, valid)
<1> DEFINE init == finish_init_open_channel(st, ch, request.changes[1].target, request.limits)
<1>1. ASSUME check_init(st, ch, request, config, valid)
      PROVE  Keeps(st, init, config, valid)
  BY <1>1, InitStep DEF check_init
<1>2. CASE request.action = "InitOpenChannel"
  <2>1. check_init(st, ch, request, config, valid) /\ resume(st, ch, request) = init
    BY <1>2 DEF can_resume, resume
  <2> QED
    BY <1>1, <2>1
<1>3. CASE request.action = "InitAndAcceptOpenChannel"
  <2>1. /\ check_init(st, ch, request, config, valid) /\ check_accept_limit(st, ch[2], config)
        /\ resume(st, ch, request) = finish_accept_open_channel(init, ch)
    BY <1>3 DEF can_resume, resume
  <2>2. ch \notin requested(st)
    BY <2>1 DEF check_init, check_init_open_channel
  <2>3. /\ ch \in requested(init) /\ ~init.open_requests[ch].confirmed
        /\ init.ingress = st.ingress /\ init.accepted_count = st.accepted_count
    BY <2>2, InitKeeps
  <2>4. check_accept_open_channel(init, ch, config)
    BY <2>1, <2>3 DEF check_accept_open_channel, check_accept_limit
  <2>5. Keeps(st, init, config, valid)
    BY <1>1, <2>1
  <2> HIDE DEF init
  <2>6. Keeps(init, finish_accept_open_channel(init, ch), config, valid)
    BY <2>4, <2>5, AcceptStep DEF Keeps
  <2> QED
    BY <2>1, <2>5, <2>6, KeepsAgain
<1>4. CASE request.action = "AcceptOpenChannel"
  BY <1>4, AcceptStep DEF can_resume, resume
<1>5. CASE request.action = "PokeChannelDeposits"
  BY <1>5, PokeStep DEF can_resume, resume, check_poke
<1> QED
  BY <1>2, <1>3, <1>4, <1>5 DEF can_resume

\* The checks of an action do not look at the deposit provider.
LEMMA ResumeAfterAsk ==
  ASSUME NEW st, Good(st), NEW requests, NEW ch, NEW request, NEW config, NEW valid,
         can_resume(st, ch, request, config, valid)
  PROVE  can_resume(ask(st, requests), ch, request, config, valid)
<1> DEFINE new == ask(st, requests)
<1>1. /\ new.open_requests = st.open_requests /\ new.channels = st.channels
      /\ new.open_count = st.open_count /\ new.accepted_count = st.accepted_count
      /\ new.ingress = st.ingress /\ new.egress = st.egress
  BY AskFrame DEF Good
<1> HIDE DEF new
<1>2. requested(new) = requested(st) /\ opened(new) = opened(st)
  BY <1>1 DEF requested, opened
<1>3. can_resume(new, ch, request, config, valid)
  BY <1>1, <1>2 DEF can_resume, check_init, check_init_open_channel, check_accept_open_channel,
                    check_accept_limit, check_poke
<1> QED
  BY <1>3 DEF new

\* set_deposit, whether the deposit is set within the call or not.
LEMMA SetDepositStep ==
  ASSUME NEW st, Good(st), NEW ch \in Channels, NEW request, NEW config, NEW valid,
         HasLimits(config), can_set_deposit(st, ch, request, config, valid)
  PROVE  Keeps(st, set_deposit(st, ch, request), config, valid)
<1> DEFINE asked == ask(st, [c \in {ch} |-> request])
<1>1. SameBooks(st, asked) /\ Good(asked)
  BY AskKeeps
<1>2. Keeps(st, asked, config, valid)
  BY <1>1, SameBooksKeeps DEF Good
<1>3. CASE st.remote /\ ~unchanged(request)
  BY <1>2, <1>3 DEF set_deposit
<1>4. CASE ~(st.remote /\ ~unchanged(request))
  <2>1. can_resume(asked, ch, request, config, valid)
    BY <1>4, ResumeAfterAsk DEF can_set_deposit
  <2>2. set_deposit(st, ch, request) = resume(asked, ch, request)
    BY <1>4 DEF set_deposit
  <2> HIDE DEF asked
  <2>3. Keeps(asked, resume(asked, ch, request), config, valid)
    BY <1>1, <2>1, ResumeStep
  <2> QED
    BY <1>2, <2>2, <2>3, KeepsAgain
<1> QED
  BY <1>3, <1>4

\* An answer of the provider.
LEMMA OnDepositSetStep ==
  ASSUME NEW st, Good(st), NEW ch \in Channels, NEW request, NEW ok, NEW config, NEW valid,
         HasLimits(config)
  PROVE  Keeps(st, on_deposit_set(st, ch, request, ok, config, valid), config, valid)
<1> DEFINE new == on_deposit_set(st, ch, request, ok, config, valid)
<1>1. CASE ~ok
  <2>1. new = st
    BY <1>1 DEF on_deposit_set
  <2> QED
    BY <2>1 DEF Keeps
<1>2. CASE ok /\ can_resume(st, ch, request, config, valid)
  BY <1>2, ResumeStep DEF on_deposit_set
<1>3. CASE ok /\ ~can_resume(st, ch, request, config, valid)
  <2>1. PICK requests : new = ask(st, requests)
    BY <1>3 DEF on_deposit_set, release_deposits
  <2>2. SameBooks(st, new) /\ Good(new)
    BY <2>1, AskKeeps
  <2> HIDE DEF new
  <2>3. Keeps(st, new, config, valid)
    BY <2>2, SameBooksKeeps DEF Good
  <2> QED
    BY <2>3 DEF new
<1> QED
  BY <1>1, <1>2, <1>3

\* A request that is cancelled.
LEMMA CancelStep ==
  ASSUME NEW st, Good(st), NEW ch \in requested(st), ~st.open_requests[ch].confirmed,
         NEW config, NEW valid, HasLimits(config)
  PROVE  Keeps(st, cancel_open_request(st, ch), config, valid)
<1> DEFINE new == cancel_open_request(st, ch)
<1>1. /\ Good(new) /\ opened(new) = opened(st) /\ requested(new) = requested(st) \ {ch}
      /\ confirmed(new) = confirmed(st) /\ (Counted(st) => Counted(new))
  BY CancelKeeps
<1> HIDE DEF new
<1>2. Limited(st, config) => Limited(new, config)
  BY <1>1, FewerLimited DEF HasLimits
<1> QED
  BY <1>1, <1>2 DEF Keeps, new
==============================================================================
