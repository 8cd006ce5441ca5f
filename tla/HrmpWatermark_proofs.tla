------------------------ MODULE HrmpWatermark_proofs -------------------------
(***************************************************************************)
(* When HRMP watermarks move back if a para has one candidate pending at a *)
(* time, for any paras, channels and scenarios.                            *)
(***************************************************************************)
EXTENDS Hrmp, HrmpStorage_proofs

\* The step leaves the watermarks alone.
SameMarks(st, new) == IsStorage(st) => IsStorage(new) /\ new.watermarks = st.watermarks

\* Two such steps in a row.
LEMMA SameMarksAgain ==
  ASSUME NEW st, NEW mid, NEW new, SameMarks(st, mid), SameMarks(mid, new)
  PROVE  SameMarks(st, new)
BY DEF SameMarks

\* The deposit provider has nothing to do with watermarks.
LEMMA AskMarks ==
  ASSUME NEW st, NEW requests
  PROVE  SameMarks(st, ask(st, requests))
BY DEF ask, IsStorage, SameMarks

\* Closing channels.
LEMMA CloseMarks ==
  ASSUME NEW st, NEW set
  PROVE  SameMarks(st, close_hrmp_channels(st, set))
<1> DEFINE requests == [ch \in set \cap opened(st) |->
             [changes |-> [i \in Sides |-> IF st.channels[ch].deposits[i] = None THEN None
                                           ELSE change(st.channels[ch].deposits[i], 0)],
              action |-> "Release", limits |-> None]]
           rel == ask(st, requests)
           new == close_hrmp_channels(st, set)
<1>1. new = [rel EXCEPT !.channels = without(@, set), !.contents = reset(@, set, <<>>),
                        !.egress = index_without(@, set, 1), !.ingress = index_without(@, set, 2)]
  BY DEF close_hrmp_channels, release_deposits
<1>2. SameMarks(st, rel)
  BY AskMarks
<1> HIDE DEF rel, new
<1>3. SameMarks(rel, new)
  BY <1>1 DEF SameMarks, IsStorage
<1> QED
  BY <1>2, <1>3, SameMarksAgain DEF new

\* Removing open requests.
LEMMA CleanRequestsMarks ==
  ASSUME NEW st, NEW cfg, NEW outgoing
  PROVE  SameMarks(st, clean_open_channel_requests(st, cfg, outgoing))
<1> DEFINE go == {ch \in requested(st) : {ch[1], ch[2]} \cap outgoing # {}}
           amounts(ch) == <<st.open_requests[ch].deposit, recipient_taken(st, ch, cfg)>>
           requests == [ch \in go |->
             [changes |-> [i \in Sides |-> IF amounts(ch)[i] = None THEN None
                                           ELSE change(amounts(ch)[i], 0)],
              action |-> "Release", limits |-> None]]
           rel == ask(st, requests)
           new == clean_open_channel_requests(st, cfg, outgoing)
<1>1. new = [rel EXCEPT !.open_requests = without(@, go),
                        !.accepted_count = decreased(@, go \cap confirmed(st), 2),
                        !.open_count = decreased(@, {ch \in go : ch[1] \notin outgoing}, 1)]
  BY DEF clean_open_channel_requests, without_requests, release_deposits
<1>2. SameMarks(st, rel)
  BY AskMarks
<1> HIDE DEF rel, new, go
<1>3. SameMarks(rel, new)
  BY <1>1 DEF SameMarks, IsStorage
<1> QED
  BY <1>2, <1>3, SameMarksAgain DEF new

\* Removing the channels of paras, by force or because they go.
LEMMA CleanChannelsMarks ==
  ASSUME NEW st, NEW outgoing
  PROVE  SameMarks(st, clean_hrmp_after_outgoing(st, outgoing))
<1> DEFINE mid == [st EXCEPT !.open_count = reset(@, outgoing, 0),
                             !.accepted_count = reset(@, outgoing, 0),
                             !.ingress = reset(@, outgoing, {}),
                             !.egress = reset(@, outgoing, {})]
<1>1. PICK to_close : clean_hrmp_after_outgoing(st, outgoing) = close_hrmp_channels(mid, to_close)
  BY DEF clean_hrmp_after_outgoing
<1> DEFINE A == reset(st.open_count, outgoing, 0)   B == reset(st.accepted_count, outgoing, 0)
           C == reset(st.ingress, outgoing, {})     D == reset(st.egress, outgoing, {})
<1>2. mid = [st EXCEPT !.open_count = A, !.accepted_count = B, !.ingress = C, !.egress = D]
  OBVIOUS
<1> HIDE DEF mid, A, B, C, D
<1>3. SameMarks(st, mid)
  BY <1>2 DEF SameMarks, IsStorage
<1> QED
  BY <1>1, <1>3, CloseMarks, SameMarksAgain

\* Opening the channels that were asked for.
LEMMA OpenMarks ==
  ASSUME NEW st, NEW cfg, NEW able
  PROVE  SameMarks(st, process_hrmp_open_channel_requests(st, cfg, able))
<1> DEFINE done == confirmed(st)
           enacted == {ch \in done : ch[1] \in able /\ ch[2] \in able}
           price(ch) == required_deposits(ch, cfg)[2]
           amounts(ch) == <<st.open_requests[ch].deposit, price(ch)>>
           requests == [ch \in done \ enacted |->
             [changes |-> [i \in Sides |-> IF amounts(ch)[i] = None THEN None
                                           ELSE change(amounts(ch)[i], 0)],
              action |-> "Release", limits |-> None]]
           rel == ask(st, requests)
           new == process_hrmp_open_channel_requests(st, cfg, able)
<1>1. new = [rel EXCEPT
         !.channels = [ch \in DOMAIN @ \cup enacted |->
           IF ch \in enacted THEN new_channel(st.open_requests[ch], price(ch)) ELSE @[ch]],
         !.ingress = index_with(@, enacted, 2),
         !.egress = index_with(@, enacted, 1),
         !.open_count = decreased(@, done, 1),
         !.accepted_count = decreased(@, done, 2),
         !.open_requests = without(@, done)]
  BY DEF process_hrmp_open_channel_requests, release_deposits
<1>2. SameMarks(st, rel)
  BY AskMarks
<1> HIDE DEF rel, new, done, enacted, price
<1>3. SameMarks(rel, new)
  BY <1>1 DEF SameMarks, IsStorage
<1> QED
  BY <1>2, <1>3, SameMarksAgain DEF new

\* Closing the channels that were asked to be.
LEMMA CloseRequestsMarks ==
  ASSUME NEW st
  PROVE  SameMarks(st, process_hrmp_close_channel_requests(st))
<1> DEFINE mid == [st EXCEPT !.close_requests = {}]
<1>1. SameMarks(st, mid)
  BY DEF SameMarks, IsStorage
<1>2. process_hrmp_close_channel_requests(st) = close_hrmp_channels(mid, st.close_requests)
  BY DEF process_hrmp_close_channel_requests
<1> HIDE DEF mid
<1> QED
  BY <1>1, <1>2, CloseMarks, SameMarksAgain

\* Cancelling a request.
LEMMA CancelMarks ==
  ASSUME NEW st, NEW ch
  PROVE  SameMarks(st, cancel_open_request(st, ch))
<1> DEFINE A == without(st.open_requests, {ch})
           B == [st.open_count EXCEPT ![ch[1]] = SaturatingSub(@, 1)]
           mid == [st EXCEPT !.open_requests = A, !.open_count = B]
           amounts == <<st.open_requests[ch].deposit, None>>
           requests == [c \in {ch} |->
             [changes |-> [i \in Sides |-> IF amounts[i] = None THEN None
                                           ELSE change(amounts[i], 0)],
              action |-> "Release", limits |-> None]]
<1>1. cancel_open_request(st, ch) = ask(mid, requests)
  BY DEF cancel_open_request, release_deposits
<1>2. mid = [st EXCEPT !.open_requests = A, !.open_count = B]
  OBVIOUS
<1> HIDE DEF A, B, requests, mid
<1>3. SameMarks(st, mid)
  BY <1>2 DEF SameMarks, IsStorage
<1> QED
  BY <1>1, <1>3, AskMarks, SameMarksAgain

\* An action that resumes.
LEMMA ResumeMarks ==
  ASSUME NEW st, NEW ch, NEW request,
         request.action \in {"InitOpenChannel", "InitAndAcceptOpenChannel", "AcceptOpenChannel",
                             "PokeChannelDeposits"}
  PROVE  SameMarks(st, resume(st, ch, request))
<1>1. ASSUME NEW sender_deposit, NEW limits
      PROVE  SameMarks(st, finish_init_open_channel(st, ch, sender_deposit, limits))
  <2> DEFINE new == finish_init_open_channel(st, ch, sender_deposit, limits)
             A == [st.open_count EXCEPT ![ch[1]] = @ + 1]
             B == with(st.open_requests, ch,
                       [confirmed |-> FALSE, deposit |-> sender_deposit, limits |-> limits])
  <2>1. IsStorage(st) => new = [st EXCEPT !.open_count = A, !.open_requests = B]
    BY DEF finish_init_open_channel, IsStorage
  <2> HIDE DEF new, A, B
  <2>2. SameMarks(st, new)
    BY <2>1 DEF SameMarks, IsStorage
  <2> QED
    BY <2>2 DEF new
<1>2. ASSUME NEW mid
      PROVE  SameMarks(mid, finish_accept_open_channel(mid, ch))
  <2> DEFINE new == finish_accept_open_channel(mid, ch)
             A == [mid.open_requests EXCEPT ![ch].confirmed = TRUE]
             B == [mid.accepted_count EXCEPT ![ch[2]] = @ + 1]
  <2>1. IsStorage(mid) => new = [mid EXCEPT !.open_requests = A, !.accepted_count = B]
    BY DEF finish_accept_open_channel, IsStorage
  <2> HIDE DEF new, A, B
  <2>2. SameMarks(mid, new)
    BY <2>1 DEF SameMarks, IsStorage
  <2> QED
    BY <2>2 DEF new
<1>3. SameMarks(st, finish_poke_channel_deposits(st, ch, request))
  BY DEF finish_poke_channel_deposits, SameMarks, IsStorage
<1> DEFINE init == finish_init_open_channel(st, ch, request.changes[1].target, request.limits)
<1>4. SameMarks(st, init) /\ SameMarks(init, finish_accept_open_channel(init, ch))
  BY <1>1, <1>2
<1>5. SameMarks(st, finish_accept_open_channel(init, ch))
  BY <1>4, SameMarksAgain
<1>6. resume(st, ch, request) \in
        {init, finish_accept_open_channel(init, ch), finish_accept_open_channel(st, ch),
         finish_poke_channel_deposits(st, ch, request)}
  BY DEF resume
<1> HIDE DEF init
<1> QED
  BY <1>2, <1>3, <1>4, <1>5, <1>6

\* Setting a deposit, within the call or by a request to the provider.
LEMMA SetDepositMarks ==
  ASSUME NEW st, NEW ch, NEW request, NEW cfg, NEW able,
         can_set_deposit(st, ch, request, cfg, able)
  PROVE  SameMarks(st, set_deposit(st, ch, request))
<1> DEFINE asked == ask(st, [c \in {ch} |-> request])
<1>1. SameMarks(st, asked)
  BY AskMarks
<1>2. CASE st.remote /\ ~unchanged(request)
  BY <1>1, <1>2 DEF set_deposit
<1>3. CASE ~(st.remote /\ ~unchanged(request))
  <2>1. request.action \in {"InitOpenChannel", "InitAndAcceptOpenChannel", "AcceptOpenChannel",
                            "PokeChannelDeposits"}
    BY <1>3 DEF can_set_deposit, can_resume
  <2>2. set_deposit(st, ch, request) = resume(asked, ch, request)
    BY <1>3 DEF set_deposit
  <2> HIDE DEF asked
  <2>3. SameMarks(asked, resume(asked, ch, request))
    BY <2>1, ResumeMarks
  <2> QED
    BY <1>1, <2>2, <2>3, SameMarksAgain
<1> QED
  BY <1>2, <1>3

\* An answer of the provider.
LEMMA OnDepositSetMarks ==
  ASSUME NEW st, NEW ch, NEW request, NEW ok, NEW cfg, NEW able
  PROVE  SameMarks(st, on_deposit_set(st, ch, request, ok, cfg, able))
<1> DEFINE amounts == give_back(st, ch, request, cfg)
           requests == [c \in {ch} |->
             [changes |-> [i \in Sides |-> IF amounts[i] = None THEN None
                                           ELSE change(amounts[i], 0)],
              action |-> "Release", limits |-> None]]
<1>1. CASE ~ok
  BY <1>1 DEF on_deposit_set, SameMarks
<1>2. CASE ok /\ can_resume(st, ch, request, cfg, able)
  <2>1. request.action \in {"InitOpenChannel", "InitAndAcceptOpenChannel", "AcceptOpenChannel",
                            "PokeChannelDeposits"}
    BY <1>2 DEF can_resume
  <2> QED
    BY <1>2, <2>1, ResumeMarks DEF on_deposit_set
<1>3. CASE ok /\ ~can_resume(st, ch, request, cfg, able)
  <2>1. on_deposit_set(st, ch, request, ok, cfg, able) = ask(st, requests)
    BY <1>3 DEF on_deposit_set, release_deposits
  <2> HIDE DEF requests
  <2> QED
    BY <2>1, AskMarks
<1> QED
  BY <1>1, <1>2, <1>3

-----------------------------------------------------------------------------
(* The system                                                                *)

\* The property, of a step: p was away, and relay parents from before are still allowed.
MayMoveBack(p) == ~RelayParentsExpire /\ context[p] < s.watermarks[p]

\* The pending candidate of p was built on a block no older than the one before, and its watermark
\* is between the one stored and that block.
PendingAhead(p) ==
  LET candidate == backed[p][1]
  IN  /\ backed[p] = <<candidate>>
      /\ candidate.relay_parent \in 0 .. now /\ candidate.watermark \in 0 .. candidate.relay_parent
      /\ s.watermarks[p] # None => s.watermarks[p] <= candidate.watermark \/ MayMoveBack(p)

\* How many sessions have started since a para that is not there, or was away, went.
SessionsAway(p) ==
  IF lifecycle[p] = "gone" THEN 0
  ELSE IF lifecycle[p] = "onboarding" THEN SESSION_DELAY - due[p] ELSE SESSION_DELAY

\* The watermark is no newer than the first relay parent of any of the last n + 1 sessions, which
\* `first' lists.
BeforeSessions(first, w, n) == \A i \in 1 .. Len(first) : i + n >= Len(first) => w <= first[i]

\* A watermark is no newer than the relay parent of the candidate enacted last, or else the para
\* was away after that candidate, and the watermark is older than the sessions since then.
MarkBehind(p) ==
  LET w == s.watermarks[p]
  IN  w # None => w <= now /\ (w <= context[p] \/ BeforeSessions(starts, w, SessionsAway(p)))

\* The relay parents kept and the paras on their way.
AwayInv ==
  /\ now \in Nat /\ starts \in Seq(Nat) /\ Len(starts) >= 1
  /\ RelayParentsExpire => Len(starts) <= SESSION_DELAY + 1
  /\ lifecycle \in [Paras -> {"valid", "offboarding", "gone", "onboarding"}]
  /\ due \in [Paras -> 0 .. SESSION_DELAY]
  /\ \A p \in Paras : lifecycle[p] = "onboarding" => due[p] # 0

\* The inductive invariant.
MarksInv ==
  /\ scenario \in Scenarios
  /\ AwayInv
  /\ scenario.cores = 1 =>
       /\ IsStorage(s) /\ s.watermarks \in [Paras -> Nat \cup {None}]
       /\ context \in [Paras -> 0 .. now]
       /\ backed = [p \in Paras |-> backed[p]]
       /\ \A p \in Paras : MarkBehind(p) /\ (backed[p] = <<>> \/ PendingAhead(p))

\* What a step does.
Forward ==
  /\ MarksInv'
  /\ scenario.cores = 1 =>
       \A p \in Paras : s.watermarks[p] # None =>
         s'.watermarks[p] >= s.watermarks[p] \/ MayMoveBack(p)

\* Steps that change neither the sessions nor the paras.
LEMMA SameAway ==
  ASSUME AwayInv, UNCHANGED <<scenario, lifecycle, due, starts>>, now' \in Nat
  PROVE  AwayInv' /\ (RelayParentsExpire <=> RelayParentsExpire')
BY DEF AwayInv, RelayParentsExpire

\* Such steps, of a para whose watermark and context stay what they are.
LEMMA SameMark ==
  ASSUME UNCHANGED <<scenario, lifecycle, due, starts>>, now \in Nat, now' \in Nat, now <= now',
         NEW p, s'.watermarks[p] = s.watermarks[p], s.watermarks[p] \in Nat \cup {None},
         context'[p] = context[p], MarkBehind(p)
  PROVE  MarkBehind(p)'
<1>1. SessionsAway(p)' = SessionsAway(p)
  BY DEF SessionsAway
<1> QED
  BY <1>1 DEF MarkBehind

\* And of its candidate.
LEMMA SamePending ==
  ASSUME UNCHANGED scenario, now \in Nat, now' \in Nat, now <= now',
         NEW p, s'.watermarks[p] = s.watermarks[p], context'[p] = context[p],
         backed'[p] = backed[p], PendingAhead(p)
  PROVE  PendingAhead(p)'
<1>1. MayMoveBack(p) => MayMoveBack(p)'
  BY DEF MayMoveBack, RelayParentsExpire
<1> QED
  BY <1>1 DEF PendingAhead

\* No para has a watermark at genesis.
LEMMA GenesisMarks ==
  ASSUME NEW sc
  PROVE  LET new == initialize_storage(sc, sc.config)
         IN  IsStorage(new) /\ new.watermarks = [p \in Paras |-> None]
<1> DEFINE cfg == sc.config
           requests == [ch \in DOMAIN sc.preopen |-> init_and_accept_request(ch, sc.preopen[ch], cfg)]
           done == {ch \in DOMAIN requests : ~sc.remote \/ unchanged(requests[ch])}
           reqs == [ch \in done |-> [confirmed |-> TRUE, limits |-> requests[ch].limits,
                                     deposit |-> required_deposits(ch, cfg)[1]]]
           out == [p \in Paras |-> Cardinality(of_side(done, p, 1))]
           in == [p \in Paras |-> Cardinality(of_side(done, p, 2))]
           empty == empty_storage(sc.remote)
           asked == ask(empty, requests)
           pre == [asked EXCEPT !.open_requests = reqs, !.open_count = out, !.accepted_count = in]
           new == initialize_storage(sc, cfg)
<1>1. new = process_hrmp_open_channel_requests(pre, cfg, Paras)
  BY DEF initialize_storage
<1>2. IsStorage(empty) /\ empty.watermarks = [p \in Paras |-> None]
  BY DEF empty_storage, IsStorage
<1>3. pre = [asked EXCEPT !.open_requests = reqs, !.open_count = out, !.accepted_count = in]
  OBVIOUS
<1>4. SameMarks(empty, asked)
  BY AskMarks
<1> HIDE DEF new, pre, asked, empty, reqs, out, in
<1>5. SameMarks(asked, pre)
  BY <1>3 DEF SameMarks, IsStorage
<1>6. SameMarks(pre, new)
  BY <1>1, OpenMarks
<1> QED
  BY <1>2, <1>4, <1>5, <1>6 DEF SameMarks, new

\* The program starts with the invariant.
LEMMA InitMarks == Init => MarksInv
<1> SUFFICES ASSUME Init
             PROVE  MarksInv
  OBVIOUS
<1>1. IsStorage(s) /\ s.watermarks = [p \in Paras |-> None]
  BY GenesisMarks DEF Init
<1> QED
  BY <1>1 DEF Init, MarksInv, AwayInv, MarkBehind, SESSION_DELAY

\* Steps that have to do with neither watermarks nor candidates.
LEMMA SameMarksForward ==
  ASSUME MarksInv, UNCHANGED environment, SameMarks(s, s')
  PROVE  Forward
<1>1. UNCHANGED <<scenario, lifecycle, due, now, starts, backed, context>>
  BY DEF environment, paras, inclusion
<1>2. scenario.cores = 1 => IsStorage(s') /\ s'.watermarks = s.watermarks
  BY DEF MarksInv, SameMarks
<1>3. MarksInv'
  <2>1. AwayInv' /\ now \in Nat
    BY <1>1, SameAway DEF MarksInv, AwayInv
  <2>2. ASSUME scenario.cores = 1, NEW p \in Paras
        PROVE  MarkBehind(p)' /\ (backed'[p] = <<>> \/ PendingAhead(p)')
    BY <1>1, <1>2, <2>1, <2>2, SameMark, SamePending DEF MarksInv
  <2> QED
    BY <1>1, <1>2, <2>1, <2>2 DEF MarksInv
<1>4. ASSUME scenario.cores = 1, NEW p \in Paras, s.watermarks[p] # None
      PROVE  s'.watermarks[p] >= s.watermarks[p]
  <2>1. s.watermarks[p] \in Nat /\ s'.watermarks[p] = s.watermarks[p]
    BY <1>2, <1>4 DEF MarksInv
  <2> QED
    BY <2>1
<1> QED
  BY <1>3, <1>4 DEF Forward

\* The parts of calls.
LEMMA CallMarks ==
  ASSUME NEW st, NEW ch, NEW limits
  PROVE  /\ can_init(st, ch, limits) => SameMarks(st, init_open_channel(st, ch, limits))
         /\ can_accept(st, ch) => SameMarks(st, accept_open_channel(st, ch))
         /\ can_init_and_accept(st, ch, limits)
              => SameMarks(st, init_and_accept_open_channel(st, ch, limits, config))
BY SetDepositMarks DEF can_init, init_open_channel, can_accept, accept_open_channel,
                       can_init_and_accept, init_and_accept_open_channel

\* The calls of paras.
LEMMA ParaCallsForward == MarksInv /\ ParaCalls => Forward
<1> SUFFICES ASSUME MarksInv, NEW ch \in scenario.calls,
                    \/ \E limits \in scenario.limits : HrmpInitOpenChannel(ch, limits)
                    \/ HrmpAcceptOpenChannel(ch)
                    \/ HrmpCloseChannel(ch)
                    \/ HrmpCancelOpenRequest(ch)
                    \/ PokeChannelDeposits(ch)
             PROVE  UNCHANGED environment /\ SameMarks(s, s')
  BY SameMarksForward DEF ParaCalls
<1>1. CASE \E limits \in scenario.limits : HrmpInitOpenChannel(ch, limits)
  BY <1>1, CallMarks DEF HrmpInitOpenChannel
<1>2. CASE HrmpAcceptOpenChannel(ch)
  BY <1>2, CallMarks DEF HrmpAcceptOpenChannel
<1>3. CASE HrmpCloseChannel(ch)
  BY <1>3 DEF HrmpCloseChannel, SameMarks, IsStorage
<1>4. CASE HrmpCancelOpenRequest(ch)
  BY <1>4, CancelMarks DEF HrmpCancelOpenRequest
<1>5. CASE PokeChannelDeposits(ch)
  BY <1>5, SetDepositMarks DEF PokeChannelDeposits
<1> QED
  BY <1>1, <1>2, <1>3, <1>4, <1>5

\* The calls of governance.
LEMMA ManagerCallsForward == MarksInv /\ ManagerCalls => Forward
<1> SUFFICES ASSUME MarksInv, ManagerCalls
             PROVE  UNCHANGED environment /\ SameMarks(s, s')
  BY SameMarksForward
<1>1. CASE \E p \in scenario.cleaned : ForceCleanHrmp(p)
  BY <1>1, CleanChannelsMarks DEF ForceCleanHrmp
<1>2. CASE ForceProcessHrmpOpen
  BY <1>2, OpenMarks DEF ForceProcessHrmpOpen
<1>3. CASE ForceProcessHrmpClose
  BY <1>3, CloseRequestsMarks DEF ForceProcessHrmpClose
<1>4. ASSUME NEW ch \in scenario.links, NEW limits \in scenario.limits, ForceOpenHrmpChannel(ch, limits)
      PROVE  UNCHANGED environment /\ SameMarks(s, s')
  <2> DEFINE st == IF ch \notin requested(s) THEN s ELSE cancel_open_request(s, ch)
  <2>1. /\ can_init_and_accept(st, ch, limits) /\ UNCHANGED environment
        /\ s' = init_and_accept_open_channel(st, ch, limits, config)
    BY <1>4 DEF ForceOpenHrmpChannel
  <2>2. SameMarks(s, st)
    BY CancelMarks DEF SameMarks
  <2> HIDE DEF st
  <2>3. SameMarks(st, s')
    BY <2>1, CallMarks
  <2> QED
    BY <2>1, <2>2, <2>3, SameMarksAgain
<1> QED
  BY <1>1, <1>2, <1>3, <1>4 DEF ManagerCalls

\* The calls for system chains.
LEMMA SystemCallsForward == MarksInv /\ SystemCalls => Forward
<1> SUFFICES ASSUME MarksInv, NEW ch \in scenario.links,
                    \/ EstablishSystemChannel(ch)
                    \/ \E limits \in scenario.limits : EstablishChannelWithSystem(ch, limits)
             PROVE  UNCHANGED environment /\ SameMarks(s, s')
  BY SameMarksForward DEF SystemCalls
<1>1. CASE EstablishSystemChannel(ch)
  <2> DEFINE limits == [capacity |-> config.max_capacity, message_size |-> config.max_message_size]
             st == init_open_channel(s, ch, limits)
  <2>1. /\ can_init(s, ch, limits) /\ can_accept(st, ch) /\ s' = accept_open_channel(st, ch)
        /\ UNCHANGED environment
    BY <1>1 DEF EstablishSystemChannel
  <2> HIDE DEF limits
  <2>2. SameMarks(s, st)
    BY <2>1, CallMarks
  <2> HIDE DEF st
  <2>3. SameMarks(st, s')
    BY <2>1, CallMarks
  <2> QED
    BY <2>1, <2>2, <2>3, SameMarksAgain
<1>2. ASSUME NEW limits, EstablishChannelWithSystem(ch, limits)
      PROVE  UNCHANGED environment /\ SameMarks(s, s')
  <2> DEFINE back == <<ch[2], ch[1]>>
             st1 == init_open_channel(s, ch, limits)
             st2 == accept_open_channel(st1, ch)
             st3 == init_open_channel(st2, back, limits)
  <2>1. /\ can_init(s, ch, limits) /\ can_accept(st1, ch)
        /\ can_init(st2, back, limits) /\ can_accept(st3, back)
        /\ s' = accept_open_channel(st3, back) /\ UNCHANGED environment
    BY <1>2 DEF EstablishChannelWithSystem
  <2> HIDE DEF back
  <2>2. SameMarks(s, st1)
    BY <2>1, CallMarks
  <2> HIDE DEF st1
  <2>3. SameMarks(st1, st2)
    BY <2>1, CallMarks
  <2> HIDE DEF st2
  <2>4. SameMarks(st2, st3)
    BY <2>1, CallMarks
  <2> HIDE DEF st3
  <2>5. SameMarks(st3, s')
    BY <2>1, CallMarks
  <2> QED
    BY <2>1, <2>2, <2>3, <2>4, <2>5 DEF SameMarks
<1> QED
  BY <1>1, <1>2

\* The deposit provider and its answers.
LEMMA ProviderForward == MarksInv /\ Provider => Forward
<1> SUFFICES ASSUME MarksInv, Provider
             PROVE  UNCHANGED environment /\ SameMarks(s, s')
  BY SameMarksForward
<1>1. ASSUME NEW ch, NEW k, NEW ok, ProcessRequest(ch, k, ok)
      PROVE  UNCHANGED environment /\ SameMarks(s, s')
  <2>1. ASSUME IsStorage(s)
        PROVE  \E asked, held, answers :
                 s' = [s EXCEPT !.asked = asked, !.held = held, !.answers = answers]
    BY <1>1, <2>1 DEF ProcessRequest, IsStorage
  <2>2. SameMarks(s, s')
    BY <2>1 DEF SameMarks, IsStorage
  <2> QED
    BY <1>1, <2>2 DEF ProcessRequest
<1>2. ASSUME NEW answer \in s.answers, OnDepositSet(answer)
      PROVE  UNCHANGED environment /\ SameMarks(s, s')
  <2> DEFINE st == [s EXCEPT !.answers = @ \ {answer}]
  <2>1. /\ s' = on_deposit_set(st, answer.channel, answer.request, answer.ok, config, valid)
        /\ UNCHANGED environment
    BY <1>2 DEF OnDepositSet
  <2>2. SameMarks(s, st)
    BY DEF SameMarks, IsStorage
  <2> HIDE DEF st
  <2>3. SameMarks(st, s')
    BY <2>1, OnDepositSetMarks
  <2> QED
    BY <2>1, <2>2, <2>3, SameMarksAgain
<1> QED
  BY <1>1, <1>2 DEF Provider

\* What is left of the starts of sessions is the last of them, and the new session's.
LEMMA KeptStarts ==
  ASSUME NEW cfg, cfg.session_age \in Nat, now \in Nat, starts \in Seq(Nat), Len(starts) >= 1
  PROVE  LET new == kept_starts(cfg)
         IN  /\ new \in Seq(Nat) /\ Len(new) >= 1 /\ Len(new) <= cfg.session_age + 1
             /\ Len(new) <= Len(starts) + 1
             /\ \A j \in 1 .. Len(new) :
                  LET i == j + Len(starts) + 1 - Len(new)
                  IN  new[j] = IF i <= Len(starts) THEN starts[i] ELSE now
<1> DEFINE all == Append(starts, now)
           n == Len(starts)
           d == SaturatingSub(n + 1, cfg.session_age + 1)
           new == kept_starts(cfg)
<1>1. all \in Seq(Nat) /\ Len(all) = n + 1 /\ n \in Nat
  OBVIOUS
<1>2. \A i \in 1 .. n + 1 : all[i] = IF i <= n THEN starts[i] ELSE now
  OBVIOUS
<1>3. d \in 0 .. n /\ n + 1 - d <= cfg.session_age + 1
  BY <1>1 DEF SaturatingSub
<1>4. new = SubSeq(all, d + 1, n + 1)
  BY <1>1 DEF kept_starts
<1> HIDE DEF all, d, new, n
<1>5. new \in Seq(Nat) /\ Len(new) = n + 1 - d /\ \A j \in 1 .. n + 1 - d : new[j] = all[j + d]
  <2>1. \A i \in d + 1 .. n + 1 : all[i] \in Nat
    BY <1>1, <1>3
  <2>2. /\ SubSeq(all, d + 1, n + 1) \in Seq(Nat)
        /\ Len(SubSeq(all, d + 1, n + 1)) = n + 1 - d
        /\ \A j \in 1 .. n + 1 - d : SubSeq(all, d + 1, n + 1)[j] = all[j + d]
    BY <1>1, <1>3, <2>1
  <2> QED
    BY <1>4, <2>2
<1>6. ASSUME NEW j \in 1 .. Len(new)
      PROVE  LET i == j + n + 1 - Len(new)
             IN  new[j] = IF i <= n THEN starts[i] ELSE now
  <2>1. j \in 1 .. n + 1 - d /\ j + d \in 1 .. n + 1 /\ j + n + 1 - Len(new) = j + d
    BY <1>1, <1>3, <1>5
  <2> QED
    BY <1>2, <1>5, <2>1
<1>7. /\ new \in Seq(Nat) /\ Len(new) >= 1 /\ Len(new) <= cfg.session_age + 1
      /\ Len(new) <= n + 1
  BY <1>1, <1>3, <1>5
<1> QED
  BY <1>6, <1>7 DEF new, n

\* The paras that leave or come back, and those on their way.
LEMMA ScheduleForward ==
  ASSUME MarksInv, NEW p, ScheduleParaCleanup(p) \/ ScheduleParaInitialize(p)
  PROVE  Forward
<1>1. /\ \/ lifecycle[p] = "valid" /\ lifecycle' = [lifecycle EXCEPT ![p] = "offboarding"]
         \/ lifecycle[p] = "gone" /\ lifecycle' = [lifecycle EXCEPT ![p] = "onboarding"]
      /\ due' = [due EXCEPT ![p] = SESSION_DELAY]
      /\ UNCHANGED <<scenario, s, now, starts, backed, context>>
  BY DEF ScheduleParaCleanup, ScheduleParaInitialize, inclusion
<1>2. AwayInv'
  <2>1. lifecycle' \in [Paras -> {"valid", "offboarding", "gone", "onboarding"}]
    BY <1>1 DEF MarksInv, AwayInv
  <2>2. due' \in [Paras -> 0 .. SESSION_DELAY]
    <3>1. SESSION_DELAY \in 0 .. SESSION_DELAY
      BY DEF SESSION_DELAY
    <3> QED
      BY <1>1, <3>1 DEF MarksInv, AwayInv
  <2>3. \A q \in Paras : lifecycle'[q] = "onboarding" => due'[q] # 0
    BY <1>1 DEF MarksInv, AwayInv, SESSION_DELAY
  <2> QED
    BY <1>1, <2>1, <2>2, <2>3 DEF MarksInv, AwayInv, RelayParentsExpire
<1>3. ASSUME NEW q \in Paras
      PROVE  SessionsAway(q)' = SessionsAway(q)
  BY <1>1 DEF MarksInv, AwayInv, SessionsAway, SESSION_DELAY
<1>4. ASSUME NEW q \in Paras, scenario.cores = 1
      PROVE  MarkBehind(q)' /\ (backed'[q] = <<>> \/ PendingAhead(q)')
  <2>1. MarkBehind(q)'
    BY <1>1, <1>3, <1>4 DEF MarksInv, MarkBehind
  <2> QED
    BY <1>1, <1>4, <2>1, SamePending DEF MarksInv, AwayInv
<1>5. MarksInv'
  BY <1>1, <1>2, <1>4 DEF MarksInv
<1> QED
  BY <1>1, <1>5 DEF Forward, MarksInv

\* A session change: a watermark older than the sessions since p went is older than the new one,
\* and the para has been away for one session more at most.
LEMMA NewSessionForward ==
  ASSUME MarksInv, NEW new_config \in scenario.configs, InitializerOnNewSession(new_config)
  PROVE  Forward
<1> DEFINE outgoing == {p \in Paras : lifecycle[p] = "offboarding" /\ due[p] = 1}
           incoming == {p \in Paras : lifecycle[p] = "onboarding" /\ due[p] = 1}
           cleaned == perform_outgoing_para_cleanup(s, config, outgoing)
<1>1. PICK able : s' = process_hrmp_close_channel_requests(
                         process_hrmp_open_channel_requests(cleaned, config, able))
  BY DEF InitializerOnNewSession
<1>2. /\ lifecycle' = [p \in Paras |-> IF p \in outgoing THEN "gone"
                                       ELSE IF p \in incoming THEN "valid" ELSE lifecycle[p]]
      /\ due' = [p \in Paras |-> SaturatingSub(due[p], 1)]
      /\ starts' = kept_starts(new_config) /\ now' = now /\ scenario' = scenario
      /\ backed' = [p \in Paras |-> <<>>] /\ context' = reset(context, outgoing, 0)
  BY DEF InitializerOnNewSession
<1>3. SameMarks(s, cleaned)
  BY CleanRequestsMarks, CleanChannelsMarks, SameMarksAgain DEF perform_outgoing_para_cleanup
<1> HIDE DEF cleaned
<1>4. SameMarks(s, s')
  BY <1>1, <1>3, OpenMarks, CloseRequestsMarks, SameMarksAgain
<1>5. /\ scenario \in Scenarios /\ new_config.session_age \in Nat
      /\ RelayParentsExpire => new_config.session_age <= SESSION_DELAY
      /\ starts \in Seq(Nat) /\ Len(starts) >= 1
  BY AgeAssumption DEF MarksInv, AwayInv, RelayParentsExpire
<1>6. ASSUME now \in Nat
      PROVE  /\ starts' \in Seq(Nat) /\ Len(starts') >= 1
             /\ Len(starts') <= new_config.session_age + 1
             /\ \A j \in 1 .. Len(starts') :
                  LET i == j + Len(starts) + 1 - Len(starts')
                  IN  starts'[j] = IF i <= Len(starts) THEN starts[i] ELSE now
             /\ Len(starts') <= Len(starts) + 1
  BY <1>2, <1>5, <1>6, KeptStarts
<1>7. now \in Nat
  BY DEF MarksInv, AwayInv
<1>8. AwayInv'
  <2>1. RelayParentsExpire' => Len(starts') <= SESSION_DELAY + 1
    <3>1. RelayParentsExpire' => RelayParentsExpire
      BY <1>2 DEF RelayParentsExpire
    <3>2. Len(starts') \in Nat /\ Len(starts') <= new_config.session_age + 1
      BY <1>6, <1>7
    <3> QED
      BY <1>5, <3>1, <3>2 DEF SESSION_DELAY
  <2>2. \A p \in Paras : due'[p] \in 0 .. SESSION_DELAY
    BY <1>2 DEF MarksInv, AwayInv, SaturatingSub, SESSION_DELAY
  <2>3. \A p \in Paras : lifecycle'[p] = "onboarding" => due'[p] # 0
    BY <1>2 DEF MarksInv, AwayInv, SaturatingSub, SESSION_DELAY
  <2>4. lifecycle' \in [Paras -> {"valid", "offboarding", "gone", "onboarding"}]
    BY <1>2 DEF MarksInv, AwayInv
  <2> QED
    BY <1>2, <1>6, <1>7, <2>1, <2>2, <2>3, <2>4 DEF AwayInv
<1>9. ASSUME NEW w \in Nat, w <= now, NEW n \in Nat, NEW m \in Nat,
             m = 0 \/ (BeforeSessions(starts, w, n) /\ m <= n + 1)
      PROVE  BeforeSessions(starts', w, m)
  <2> SUFFICES ASSUME NEW j \in 1 .. Len(starts'), j + m >= Len(starts')
               PROVE  w <= starts'[j]
    BY DEF BeforeSessions
  <2> DEFINE i == j + Len(starts) + 1 - Len(starts')
  <2>1. starts'[j] = IF i <= Len(starts) THEN starts[i] ELSE now
    BY <1>6, <1>7
  <2>2. i \in 1 .. Len(starts) + 1 /\ i + m >= Len(starts) + 1
    BY <1>5, <1>6, <1>7
  <2> HIDE DEF i
  <2>3. CASE i <= Len(starts)
    <3>1. m # 0 /\ i + n >= Len(starts) /\ i \in 1 .. Len(starts)
      BY <1>5, <1>9, <2>2, <2>3
    <3> QED
      BY <1>9, <2>1, <2>3, <3>1 DEF BeforeSessions
  <2>4. CASE ~(i <= Len(starts))
    BY <1>9, <2>1, <2>4
  <2> QED
    BY <2>3, <2>4
<1>10. ASSUME NEW p \in Paras
       PROVE  /\ SessionsAway(p) \in Nat /\ SessionsAway(p)' \in Nat
              /\ p \in outgoing => SessionsAway(p)' = 0
              /\ SessionsAway(p)' <= SessionsAway(p) + 1
  BY <1>2 DEF MarksInv, AwayInv, SessionsAway, SaturatingSub, SESSION_DELAY
<1> SUFFICES ASSUME scenario.cores = 1
             PROVE  Forward
  BY <1>2, <1>5, <1>8 DEF Forward, MarksInv
<1>11. /\ IsStorage(s') /\ s'.watermarks = s.watermarks
       /\ s.watermarks \in [Paras -> Nat \cup {None}] /\ context \in [Paras -> 0 .. now]
       /\ \A p \in Paras : MarkBehind(p)
  BY <1>4 DEF MarksInv, SameMarks
<1>12. context' \in [Paras -> 0 .. now]
  BY <1>2, <1>7, <1>11 DEF reset
<1>13. ASSUME NEW p \in Paras, s.watermarks[p] # None
       PROVE  MarkBehind(p)'
  <2> DEFINE w == s.watermarks[p]
  <2>1. w \in Nat /\ w <= now /\ (w <= context[p] \/ BeforeSessions(starts, w, SessionsAway(p)))
    BY <1>11, <1>13 DEF MarkBehind
  <2>2. p \in outgoing \/ context'[p] = context[p]
    BY <1>2, <1>11 DEF reset
  <2> HIDE DEF w, outgoing
  <2>3. w <= context'[p] \/ BeforeSessions(starts', w, SessionsAway(p)')
    BY <1>9, <1>10, <2>1, <2>2
  <2> QED
    BY <1>2, <1>11, <2>1, <2>3 DEF MarkBehind, w
<1>14. \A p \in Paras : MarkBehind(p)'
  BY <1>11, <1>13 DEF MarkBehind
<1>15. MarksInv'
  BY <1>2, <1>5, <1>7, <1>8, <1>11, <1>12, <1>14 DEF MarksInv
<1> QED
  BY <1>11, <1>15 DEF Forward

\* Sessions, and what is due at them.
LEMMA SessionsForward == MarksInv /\ Sessions => Forward
BY ScheduleForward, NewSessionForward DEF Sessions

\* The checks of a candidate keep it ahead of the watermark stored.
LEMMA BackForward ==
  ASSUME MarksInv, NEW p \in Paras, NEW ctx \in Contexts(p), NEW msgs,
         BackCandidate(p, ctx[1], ctx[2], msgs)
  PROVE  Forward
<1> DEFINE candidate == [relay_parent |-> ctx[1], watermark |-> ctx[2], msgs |-> msgs]
<1>1. /\ UNCHANGED <<scenario, s, lifecycle, due, now, starts, context>>
      /\ Len(backed[p]) < scenario.cores /\ ctx[1] >= para_most_recent_context(p)
      /\ check_hrmp_watermark(s, p, ctx[1], ctx[2]) /\ ctx[1] \in Head(starts) .. now - 1
      /\ backed' = [backed EXCEPT ![p] = Append(@, candidate)]
  BY DEF BackCandidate, paras, allowed_relay_parents
<1>2. ASSUME scenario.cores = 1
      PROVE  backed' = [q \in Paras |-> backed'[q]] /\ \A q \in Paras : backed[q] = <<>> \/ PendingAhead(q)
  BY <1>1, <1>2 DEF MarksInv
<1>3. ASSUME scenario.cores = 1
      PROVE  PendingAhead(p)'
  <2>1. /\ now \in Nat /\ context[p] \in 0 .. now
        /\ s.watermarks[p] \in Nat \cup {None} /\ MarkBehind(p)
        /\ starts \in Seq(Nat) /\ Len(starts) >= 1
        /\ RelayParentsExpire => Len(starts) <= SESSION_DELAY + 1
    BY <1>3 DEF MarksInv, AwayInv
  <2>2. backed[p] = <<>>
    BY <1>1, <1>2, <1>3 DEF PendingAhead
  <2>3. backed'[p] = <<candidate>>
    BY <1>1, <2>2, <1>3 DEF MarksInv
  <2>4. ctx[1] \in starts[1] .. now - 1 /\ starts[1] \in Nat /\ ctx[2] \in 0 .. now
    BY <1>1, <2>1 DEF Contexts
  <2>5. ctx[1] >= context[p]
    BY <1>1, <2>2 DEF para_most_recent_context
  <2>6. ctx[2] <= ctx[1]
    BY <1>1, <2>1, <2>4 DEF check_hrmp_watermark
  <2>7. ASSUME s.watermarks[p] # None
        PROVE  s.watermarks[p] <= ctx[2] \/ MayMoveBack(p)
    <3>1. s.watermarks[p] \in Nat /\ context[p] \in Nat
      BY <2>1, <2>7
    <3>2. ASSUME RelayParentsExpire, BeforeSessions(starts, s.watermarks[p], SessionsAway(p))
          PROVE  s.watermarks[p] <= starts[1]
      <4>1. lifecycle[p] \in {"valid", "offboarding"}
        BY DEF BackCandidate, exists
      <4>2. SessionsAway(p) = SESSION_DELAY
        BY <4>1 DEF SessionsAway
      <4> QED
        BY <2>1, <3>2, <4>2 DEF BeforeSessions, SESSION_DELAY
    <3>3. s.watermarks[p] <= ctx[1] \/ MayMoveBack(p)
      BY <2>1, <2>4, <2>5, <2>7, <3>1, <3>2 DEF MarkBehind, MayMoveBack
    <3> QED
      BY <1>1, <2>4, <2>7, <3>1, <3>3 DEF check_hrmp_watermark
  <2> HIDE DEF candidate
  <2>8. candidate.relay_parent = ctx[1] /\ candidate.watermark = ctx[2]
    BY DEF candidate
  <2>9. backed'[p][1] = candidate
    BY <2>3
  <2>10. candidate.relay_parent \in 0 .. now /\ candidate.watermark \in 0 .. candidate.relay_parent
    BY <2>1, <2>4, <2>6, <2>8
  <2>11. MayMoveBack(p) => MayMoveBack(p)'
    BY <1>1 DEF MayMoveBack, RelayParentsExpire
  <2> QED
    BY <1>1, <2>3, <2>7, <2>8, <2>9, <2>10, <2>11 DEF PendingAhead
<1>4. ASSUME scenario.cores = 1, NEW q \in Paras
      PROVE  MarkBehind(q)' /\ (backed'[q] = <<>> \/ PendingAhead(q)')
  <2>1. MarkBehind(q)' /\ now \in Nat
    BY <1>1, <1>4, SameMark DEF MarksInv, AwayInv
  <2>2. CASE q = p
    BY <1>3, <1>4, <2>1, <2>2
  <2>3. CASE q # p
    BY <1>1, <1>2, <1>4, <2>1, <2>3, SamePending
  <2> QED
    BY <2>2, <2>3
<1>5. AwayInv'
  BY <1>1, SameAway DEF MarksInv, AwayInv
<1>6. MarksInv'
  BY <1>1, <1>2, <1>4, <1>5 DEF MarksInv
<1> QED
  BY <1>1, <1>6 DEF Forward, MarksInv

\* The watermark stored becomes that of the candidate, which is ahead of it.
LEMMA EnactForward ==
  ASSUME MarksInv, NEW p \in Paras, EnactCandidate(p)
  PROVE  Forward
<1> DEFINE candidate == Head(backed[p])
           st == prune_hrmp(s, p, candidate.watermark)
<1>1. /\ backed[p] # <<>> /\ s' = queue_outbound_hrmp(st, now, p, candidate.msgs)
      /\ backed' = [backed EXCEPT ![p] = Tail(@)]
      /\ context' = [context EXCEPT ![p] = candidate.relay_parent]
      /\ UNCHANGED <<scenario, lifecycle, due, now, starts>>
  BY DEF EnactCandidate, paras
<1>a. AwayInv'
  BY <1>1, SameAway DEF MarksInv, AwayInv
<1> SUFFICES ASSUME scenario.cores = 1
             PROVE  Forward
  BY <1>1, <1>a DEF Forward, MarksInv
<1>2. /\ IsStorage(s) /\ s.watermarks \in [Paras -> Nat \cup {None}] /\ now \in Nat
      /\ context \in [Paras -> 0 .. now]
      /\ backed = [q \in Paras |-> backed[q]] /\ PendingAhead(p)
      /\ \A q \in Paras : MarkBehind(q) /\ (backed[q] = <<>> \/ PendingAhead(q))
  BY <1>1 DEF MarksInv, AwayInv
<1>3. /\ backed[p] = <<candidate>> /\ candidate.relay_parent \in 0 .. now
      /\ candidate.watermark \in 0 .. candidate.relay_parent
      /\ s.watermarks[p] # None => s.watermarks[p] <= candidate.watermark \/ MayMoveBack(p)
  BY <1>2 DEF PendingAhead
<1>4. IsStorage(st) /\ IsStorage(s')
  BY <1>1, <1>2, MessagesKeep DEF SameBooks
<1>5. st.watermarks = [s.watermarks EXCEPT ![p] = candidate.watermark]
  BY <1>2 DEF prune_hrmp, IsStorage
<1> HIDE DEF candidate, st
<1>6. s'.watermarks = st.watermarks
  BY <1>1, <1>4 DEF queue_outbound_hrmp, IsStorage
<1>7. s'.watermarks = [s.watermarks EXCEPT ![p] = candidate.watermark]
  BY <1>5, <1>6
<1>8. backed'[p] = <<>> /\ backed' = [q \in Paras |-> backed'[q]]
  <2>1. Tail(<<candidate>>) = <<>>
    OBVIOUS
  <2>2. backed' = [q \in Paras |-> IF q = p THEN <<>> ELSE backed[q]]
    BY <1>1, <1>2, <1>3, <2>1
  <2> QED
    BY <2>2
<1>9. ASSUME NEW q \in Paras
      PROVE  /\ MarkBehind(q)' /\ (backed'[q] = <<>> \/ PendingAhead(q)')
             /\ s.watermarks[q] # None => s'.watermarks[q] >= s.watermarks[q] \/ MayMoveBack(q)
  <2>1. CASE q = p
    BY <1>1, <1>2, <1>3, <1>7, <1>8, <2>1 DEF MarkBehind
  <2>2. CASE q # p
    <3>1. /\ s'.watermarks[q] = s.watermarks[q] /\ context'[q] = context[q] /\ backed'[q] = backed[q]
          /\ s.watermarks[q] \in Nat \cup {None}
      BY <1>1, <1>2, <1>7, <2>2
    <3> QED
      BY <1>1, <1>2, <3>1, SameMark, SamePending
  <2> QED
    BY <2>1, <2>2
<1>10. s'.watermarks \in [Paras -> Nat \cup {None}] /\ context' \in [Paras -> 0 .. now]
  BY <1>1, <1>2, <1>3, <1>7
<1> QED
  BY <1>1, <1>2, <1>4, <1>8, <1>9, <1>10, <1>a DEF Forward, MarksInv

\* Dropping candidates leaves none pending.
LEMMA DropForward ==
  ASSUME MarksInv, NEW p \in Paras, NEW k \in 1 .. Len(backed[p]), DropCandidates(p, k)
  PROVE  Forward
<1>1. /\ UNCHANGED <<scenario, s, lifecycle, due, now, starts, context>>
      /\ backed' = [backed EXCEPT ![p] = SubSeq(@, 1, k - 1)]
  BY DEF DropCandidates, paras
<1>a. AwayInv' /\ now \in Nat
  BY <1>1, SameAway DEF MarksInv, AwayInv
<1> SUFFICES ASSUME scenario.cores = 1
             PROVE  Forward
  BY <1>1, <1>a DEF Forward, MarksInv
<1>2. backed = [q \in Paras |-> backed[q]] /\ \A q \in Paras : backed[q] = <<>> \/ PendingAhead(q)
  BY DEF MarksInv
<1>3. SubSeq(backed[p], 1, k - 1) = <<>>
  <2>1. CASE backed[p] = <<>>
    BY <2>1
  <2>2. CASE PendingAhead(p)
    <3>1. PICK candidate : backed[p] = <<candidate>>
      BY <2>2 DEF PendingAhead
    <3>2. Len(<<candidate>>) = 1 /\ SubSeq(<<candidate>>, 1, 0) = <<>>
      OBVIOUS
    <3>3. Len(backed[p]) = 1
      BY <3>1, <3>2
    <3>4. k = 1
      BY <3>3
    <3> QED
      BY <3>1, <3>2, <3>4
  <2> QED
    BY <1>2, <2>1, <2>2
<1>4. backed' = [q \in Paras |-> IF q = p THEN <<>> ELSE backed[q]]
  BY <1>1, <1>2, <1>3
<1>5. backed' = [q \in Paras |-> backed'[q]]
  BY <1>4
<1>6. ASSUME NEW q \in Paras
      PROVE  MarkBehind(q)' /\ (backed'[q] = <<>> \/ PendingAhead(q)')
  BY <1>1, <1>2, <1>4, <1>a, SameMark, SamePending DEF MarksInv
<1>7. MarksInv'
  BY <1>1, <1>5, <1>6, <1>a DEF MarksInv
<1> QED
  BY <1>1, <1>7 DEF Forward, MarksInv

\* The candidates are those of paras.
LEMMA CandidatesForward == MarksInv /\ Candidates => Forward
<1> SUFFICES ASSUME MarksInv, NEW p \in {ch[i] : ch \in scenario.links, i \in Sides},
                    \/ \E ctx \in Contexts(p), msgs \in Outbound(p) : BackCandidate(p, ctx[1], ctx[2], msgs)
                    \/ EnactCandidate(p)
                    \/ \E k \in 1 .. Len(backed[p]) : DropCandidates(p, k)
             PROVE  Forward
  BY DEF Candidates
<1>1. p \in Paras
  BY ScenarioAssumption, HrmpAssumption DEF MarksInv, Sides
<1> QED
  BY <1>1, BackForward, EnactForward, DropForward

\* The next block.
LEMMA NextBlockForward == MarksInv /\ NextBlock => Forward
<1> SUFFICES ASSUME MarksInv, NextBlock
             PROVE  Forward
  OBVIOUS
<1>1. now' = now + 1 /\ UNCHANGED <<scenario, s, lifecycle, due, starts, backed, context>>
  BY DEF NextBlock, paras
<1>2. now \in Nat /\ now' \in Nat /\ now <= now'
  BY <1>1 DEF MarksInv, AwayInv
<1>3. AwayInv'
  BY <1>1, <1>2, SameAway DEF MarksInv
<1>4. ASSUME scenario.cores = 1, NEW p \in Paras
      PROVE  MarkBehind(p)' /\ (backed'[p] = <<>> \/ PendingAhead(p)')
  BY <1>1, <1>2, <1>4, SameMark, SamePending DEF MarksInv
<1>5. scenario.cores = 1 => context' \in [Paras -> 0 .. now']
  BY <1>1, <1>2 DEF MarksInv
<1>6. MarksInv'
  BY <1>1, <1>3, <1>4, <1>5 DEF MarksInv
<1> QED
  BY <1>1, <1>6 DEF Forward, MarksInv

\* Every step keeps the invariant and moves no watermark back.
LEMMA NextForward == MarksInv /\ [Next]_vars => Forward
<1>1. ASSUME MarksInv, UNCHANGED vars
      PROVE  Forward
  <2>1. UNCHANGED environment /\ SameMarks(s, s')
    BY <1>1 DEF vars, environment, paras, inclusion, SameMarks
  <2> QED
    BY <1>1, <2>1, SameMarksForward
<1> QED
  BY <1>1, ParaCallsForward, ManagerCallsForward, SystemCallsForward, ProviderForward,
     SessionsForward, CandidatesForward, NextBlockForward DEF Next

\* With one candidate pending at a time, and relay parents of any of the sessions kept, the watermark
\* of a para moves back only with the first candidate after the para was away, and only if relay
\* parents are kept for more sessions than its leaving and returning takes.  check_hrmp_watermark
\* does not see to it: para_most_recent_context keeps relay parents in order between two candidates,
\* and once that is reset the expiry of relay parents has to.
THEOREM WatermarkAlwaysForward == Spec => WatermarkNeverBack
<1>1. MarksInv /\ [Next]_vars => MarksInv'
  BY NextForward DEF Forward
<1>2. MarksInv /\ [Next]_vars =>
        [scenario.cores = 1 =>
           \A p \in Paras : s.watermarks[p] # None =>
             \/ s'.watermarks[p] >= s.watermarks[p]
             \/ ~RelayParentsExpire /\ context[p] < s.watermarks[p]]_vars
  BY NextForward DEF Forward, MayMoveBack
<1> QED
  BY <1>1, <1>2, InitMarks, PTL DEF Spec, WatermarkNeverBack
==============================================================================
