------------------------------ MODULE Hrmp_proofs ------------------------------
(***************************************************************************)
(* Indexes, counters, limits and participants of HRMP channels, for any    *)
(* paras, channels and scenarios.                                          *)
(***************************************************************************)
EXTENDS Hrmp, HrmpStorage_proofs

\* The inductive invariant.
IInv ==
  /\ scenario \in Scenarios
  /\ HasLimits(config)
  /\ config.max_outbound = scenario.config.max_outbound
  /\ config.max_inbound = scenario.config.max_inbound
  /\ lifecycle \in [Paras -> {"valid", "offboarding", "gone", "onboarding"}]
  /\ Good(s)
  /\ ParticipantsExist
  /\ scenario.cleaned = {} => Counted(s) /\ Limited(s, config)

-----------------------------------------------------------------------------
(* Genesis                                                                   *)

\* The storage that genesis starts from is in order.
LEMMA EmptyGood ==
  ASSUME NEW remote
  PROVE  Good(empty_storage(remote))
<1> DEFINE st == empty_storage(remote)
<1>1. /\ IsStorage(st) /\ opened(st) = {} /\ requested(st) = {} /\ st.close_requests = {}
      /\ st.answers = {}
  BY DEF empty_storage, IsStorage, opened, requested
<1>2. st.egress = [p \in Paras |-> {}] /\ st.ingress = [p \in Paras |-> {}]
  BY DEF empty_storage
<1>3. Indexed(st)
  BY <1>1, <1>2 DEF Indexed, recipients, senders, of_side
<1> QED
  BY <1>1, <1>3 DEF Good

\* Genesis opens channels and leaves no request, within the limits.
LEMMA GenesisGood ==
  ASSUME NEW sc \in Scenarios
  PROVE  LET new == initialize_storage(sc, sc.config)
         IN  /\ Good(new) /\ opened(new) \cup requested(new) \subseteq Channels
             /\ Counted(new) /\ Limited(new, sc.config)
<1> DEFINE cfg == sc.config
           requests == [ch \in DOMAIN sc.preopen |-> init_and_accept_request(ch, sc.preopen[ch], cfg)]
           done == {ch \in DOMAIN requests : ~sc.remote \/ unchanged(requests[ch])}
           reqs == [ch \in done |-> [confirmed |-> TRUE, limits |-> requests[ch].limits,
                                     deposit |-> required_deposits(ch, cfg)[1]]]
           out == [p \in Paras |-> Cardinality(of_side(done, p, 1))]
           in == [p \in Paras |-> Cardinality(of_side(done, p, 2))]
           asked == ask(empty_storage(sc.remote), requests)
           pre == [asked EXCEPT !.open_requests = reqs, !.open_count = out, !.accepted_count = in]
           new == initialize_storage(sc, cfg)
<1>1. new = process_hrmp_open_channel_requests(pre, cfg, Paras)
  BY DEF initialize_storage
<1>2. done \subseteq DOMAIN sc.preopen /\ DOMAIN sc.preopen \subseteq Channels
  BY ScenarioAssumption
<1>3. DOMAIN reqs = done /\ \A ch \in done : IsRequest(reqs[ch]) /\ reqs[ch].confirmed
  BY DEF IsRequest
<1>4. Good(asked) /\ opened(asked) = {}
  <2>1. Good(empty_storage(sc.remote)) /\ opened(empty_storage(sc.remote)) = {}
    BY EmptyGood DEF empty_storage, opened
  <2> QED
    BY <2>1, AskKeeps DEF SameBooks
<1>counted. CountOf(out, done, 1) /\ CountOf(in, done, 2)
  BY DEF CountOf
<1> HIDE DEF new, reqs, done, asked, requests, out, in
<1>fields. IsStorage(asked)
  BY <1>4 DEF Good
<1>updated. pre = [asked EXCEPT !.open_requests = reqs, !.open_count = out, !.accepted_count = in]
  OBVIOUS
<1> HIDE DEF pre
<1>5. IsStorage(pre)
  BY <1>fields, <1>updated DEF IsStorage
<1>6. /\ pre.open_requests = reqs /\ pre.channels = asked.channels
      /\ pre.open_count = out /\ pre.accepted_count = in
      /\ pre.ingress = asked.ingress /\ pre.egress = asked.egress
      /\ pre.close_requests = asked.close_requests /\ pre.answers = asked.answers
  BY <1>fields, <1>updated DEF IsStorage
<1>7. opened(pre) = {} /\ requested(pre) = done /\ confirmed(pre) = done
  BY <1>3, <1>4, <1>6 DEF opened, requested, confirmed
<1>8. Good(pre)
  BY <1>2, <1>3, <1>4, <1>5, <1>6, <1>7 DEF Good, Indexed
<1>9. Counted(pre)
  BY <1>6, <1>7, <1>counted DEF Counted
<1>10. /\ Good(new) /\ opened(new) \subseteq done /\ requested(new) = {} /\ confirmed(new) = {}
       /\ Counted(new)
  BY <1>1, <1>7, <1>8, <1>9, OpenKeeps
<1>11. ASSUME NEW set, set \subseteq DOMAIN sc.preopen, NEW p \in Paras, NEW i \in {1, 2}
       PROVE  /\ Cardinality(of_side(set, p, i)) <= Cardinality(of_side(DOMAIN sc.preopen, p, i))
              /\ Cardinality(of_side(set, p, i)) \in Nat
              /\ Cardinality(of_side(DOMAIN sc.preopen, p, i)) \in Nat
  <2>1. of_side(set, p, i) \subseteq of_side(DOMAIN sc.preopen, p, i)
    BY <1>11 DEF of_side
  <2>2. IsFiniteSet(of_side(DOMAIN sc.preopen, p, i))
    BY <1>2, SidesFinite
  <2>3. IsFiniteSet(of_side(set, p, i))
    BY <2>1, <2>2, FS_Subset
  <2> QED
    BY <2>1, <2>2, <2>3, FS_Subset, FS_CardinalityType
<1>12. Limited(new, cfg)
  <2> SUFFICES ASSUME NEW p \in Paras
               PROVE  /\ Cardinality(of_side(opened(new) \cup requested(new), p, 1)) <= cfg.max_outbound
                      /\ Cardinality(of_side(opened(new) \cup confirmed(new), p, 2)) <= cfg.max_inbound
    BY DEF Limited
  <2>1. /\ opened(new) \cup requested(new) \subseteq DOMAIN sc.preopen
        /\ opened(new) \cup confirmed(new) \subseteq DOMAIN sc.preopen
    BY <1>2, <1>10
  <2>2. /\ Cardinality(of_side(DOMAIN sc.preopen, p, 1)) <= cfg.max_outbound
        /\ Cardinality(of_side(DOMAIN sc.preopen, p, 2)) <= cfg.max_inbound
        /\ cfg.max_outbound \in Nat /\ cfg.max_inbound \in Nat
    BY LimitsAssumption
  <2> DEFINE U == opened(new) \cup requested(new)   V == opened(new) \cup confirmed(new)
  <2> HIDE DEF U, V, cfg
  <2>3. U \subseteq DOMAIN sc.preopen /\ V \subseteq DOMAIN sc.preopen
    BY <2>1 DEF U, V
  <2>4. Cardinality(of_side(U, p, 1)) <= cfg.max_outbound
    BY <1>11, <2>2, <2>3
  <2>5. Cardinality(of_side(V, p, 2)) <= cfg.max_inbound
    BY <1>11, <2>2, <2>3
  <2> QED
    BY <2>4, <2>5 DEF U, V
<1> QED
  BY <1>2, <1>10, <1>12 DEF new

\* The program starts with the invariant.
LEMMA InitInv == Init => IInv
<1> SUFFICES ASSUME Init
             PROVE  IInv
  OBVIOUS
<1>1. /\ scenario \in Scenarios /\ config = scenario.config
      /\ s = initialize_storage(scenario, scenario.config) /\ lifecycle = [p \in Paras |-> "valid"]
  BY DEF Init
<1>2. /\ Good(s) /\ opened(s) \cup requested(s) \subseteq Channels
      /\ Counted(s) /\ Limited(s, config)
  BY <1>1, GenesisGood
<1>3. ParticipantsExist
  BY <1>1, <1>2, HrmpAssumption DEF ParticipantsExist, exists
<1>4. HasLimits(config)
  BY <1>1, LimitsAssumption DEF HasLimits
<1> QED
  BY <1>1, <1>2, <1>3, <1>4 DEF IInv

-----------------------------------------------------------------------------
(* Steps                                                                     *)

\* Steps that keep which channels there are and ask for none but between valid paras.
LEMMA StepInv ==
  ASSUME IInv, UNCHANGED <<scenario, config, lifecycle>>, Keeps(s, s', config, valid)
  PROVE  IInv'
<1>1. /\ Good(s') /\ opened(s') = opened(s)
      /\ \A ch \in requested(s') \ requested(s) : ch[1] \in valid /\ ch[2] \in valid
      /\ Counted(s) => Counted(s')
      /\ Counted(s) /\ Limited(s, config) => Limited(s', config)
  BY DEF Keeps
<1>2. ParticipantsExist'
  <2>1. \A p \in valid : exists(p)
    BY DEF valid, exists
  <2> QED
    BY <1>1, <2>1 DEF IInv, ParticipantsExist, exists
<1> QED
  BY <1>1, <1>2 DEF IInv

\* Calls about requests.
LEMMA KeepsInv ==
  ASSUME IInv, UNCHANGED environment, Keeps(s, s', config, valid)
  PROVE  IInv'
<1>1. UNCHANGED <<scenario, config, lifecycle>>
  BY DEF environment, paras
<1> QED
  BY <1>1, StepInv

\* Calls that open no channel but for a confirmed request.
LEMMA FewerInv ==
  ASSUME IInv, UNCHANGED environment, Good(s'),
         opened(s') \cup requested(s') \subseteq opened(s) \cup requested(s),
         opened(s') \cup confirmed(s') \subseteq opened(s) \cup confirmed(s),
         scenario.cleaned = {} /\ Counted(s) => Counted(s')
  PROVE  IInv'
<1>1. UNCHANGED <<scenario, config, lifecycle>>
  BY DEF environment, paras
<1>2. ParticipantsExist'
  BY <1>1 DEF IInv, ParticipantsExist, exists
<1>3. scenario.cleaned = {} => Limited(s', config)
  BY FewerLimited DEF IInv, HasLimits
<1> QED
  BY <1>1, <1>2, <1>3 DEF IInv

\* The parts of calls: what they do to a storage that is in order.
LEMMA CallSteps ==
  ASSUME HasLimits(config), NEW st, Good(st), NEW ch \in Channels, NEW limits
  PROVE  /\ can_init(st, ch, limits) => Keeps(st, init_open_channel(st, ch, limits), config, valid)
         /\ can_accept(st, ch) => Keeps(st, accept_open_channel(st, ch), config, valid)
         /\ can_init_and_accept(st, ch, limits)
              => Keeps(st, init_and_accept_open_channel(st, ch, limits, config), config, valid)
BY SetDepositStep DEF can_init, init_open_channel, can_accept, accept_open_channel,
                      can_init_and_accept, init_and_accept_open_channel

\* The calls of paras.
LEMMA ParaCallsInv == IInv /\ ParaCalls => IInv'
<1> SUFFICES ASSUME IInv, NEW ch \in scenario.calls,
                    \/ \E limits \in scenario.limits : HrmpInitOpenChannel(ch, limits)
                    \/ HrmpAcceptOpenChannel(ch)
                    \/ HrmpCloseChannel(ch)
                    \/ HrmpCancelOpenRequest(ch)
                    \/ PokeChannelDeposits(ch)
             PROVE  IInv'
  BY DEF ParaCalls
<1>1. ch \in Channels /\ Good(s) /\ HasLimits(config)
  BY ScenarioAssumption DEF IInv
<1>2. CASE \E limits \in scenario.limits : HrmpInitOpenChannel(ch, limits)
  BY <1>1, <1>2, CallSteps, KeepsInv DEF HrmpInitOpenChannel
<1>3. CASE HrmpAcceptOpenChannel(ch)
  BY <1>1, <1>3, CallSteps, KeepsInv DEF HrmpAcceptOpenChannel
<1>4. CASE HrmpCloseChannel(ch)
  <2>1. s' = [s EXCEPT !.close_requests = @ \cup {ch}] /\ UNCHANGED environment
    BY <1>4 DEF HrmpCloseChannel
  <2>2. IsStorage(s) /\ s.close_requests \subseteq Channels
    BY <1>1 DEF Good
  <2>3. IsStorage(s')
    BY <2>1, <2>2 DEF IsStorage
  <2>4. /\ s'.open_requests = s.open_requests /\ s'.channels = s.channels
        /\ s'.open_count = s.open_count /\ s'.accepted_count = s.accepted_count
        /\ s'.ingress = s.ingress /\ s'.egress = s.egress
        /\ s'.close_requests = s.close_requests \cup {ch} /\ s'.answers = s.answers
    BY <2>1, <2>2 DEF IsStorage
  <2>5. SameBooks(s, s')
    BY <2>3, <2>4 DEF SameBooks, opened
  <2>6. Keeps(s, s', config, valid)
    BY <1>1, <2>2, <2>4, <2>5, SameBooksKeeps DEF Good
  <2> QED
    BY <2>1, <2>6, KeepsInv
<1>5. CASE HrmpCancelOpenRequest(ch)
  <2>1. /\ ch \in requested(s) /\ ~s.open_requests[ch].confirmed
        /\ s' = cancel_open_request(s, ch) /\ UNCHANGED environment
    BY <1>5 DEF HrmpCancelOpenRequest
  <2>2. Keeps(s, s', config, valid)
    BY <1>1, <2>1, CancelStep
  <2> QED
    BY <2>1, <2>2, KeepsInv
<1>6. CASE PokeChannelDeposits(ch)
  <2>1. /\ can_set_deposit(s, ch, poke_request(s, ch, config), config, valid)
        /\ s' = set_deposit(s, ch, poke_request(s, ch, config)) /\ UNCHANGED environment
    BY <1>6 DEF PokeChannelDeposits
  <2>2. Keeps(s, s', config, valid)
    BY <1>1, <2>1, SetDepositStep
  <2> QED
    BY <2>1, <2>2, KeepsInv
<1> QED
  BY <1>2, <1>3, <1>4, <1>5, <1>6

\* The calls of governance.
LEMMA ManagerCallsInv == IInv /\ ManagerCalls => IInv'
<1> SUFFICES ASSUME IInv, ManagerCalls
             PROVE  IInv'
  OBVIOUS
<1>1. Good(s) /\ HasLimits(config) /\ scenario.links \subseteq Channels
  BY ScenarioAssumption DEF IInv
<1>2. CASE \E p \in scenario.cleaned : ForceCleanHrmp(p)
  <2>1. PICK p \in scenario.cleaned : ForceCleanHrmp(p)
    BY <1>2
  <2>2. s' = clean_hrmp_after_outgoing(s, {p}) /\ UNCHANGED environment
    BY <2>1 DEF ForceCleanHrmp
  <2>3. Good(s') /\ SameRequests(s, s') /\ opened(s') \subseteq opened(s)
    BY <1>1, <2>2, CleanChannelsKeeps
  <2> QED
    BY <2>1, <2>2, <2>3, FewerInv DEF SameRequests
<1>3. CASE ForceProcessHrmpOpen
  <2>1. s' = process_hrmp_open_channel_requests(s, config, valid) /\ UNCHANGED environment
    BY <1>3 DEF ForceProcessHrmpOpen
  <2>2. /\ Good(s') /\ opened(s') \subseteq opened(s) \cup confirmed(s)
        /\ requested(s') \subseteq requested(s) /\ confirmed(s') = {}
        /\ Counted(s) => Counted(s')
    BY <1>1, <2>1, OpenKeeps
  <2>3. confirmed(s) \subseteq requested(s)
    BY DEF confirmed
  <2> QED
    BY <2>1, <2>2, <2>3, FewerInv
<1>4. CASE ForceProcessHrmpClose
  <2>1. s' = process_hrmp_close_channel_requests(s) /\ UNCHANGED environment
    BY <1>4 DEF ForceProcessHrmpClose
  <2>2. /\ Good(s') /\ opened(s') \subseteq opened(s) /\ SameRequests(s, s')
        /\ Counted(s) => Counted(s')
    BY <1>1, <2>1, CloseRequestsKeeps
  <2> QED
    BY <2>1, <2>2, FewerInv DEF SameRequests
<1>5. ASSUME NEW ch \in scenario.links, NEW limits \in scenario.limits, ForceOpenHrmpChannel(ch, limits)
      PROVE  IInv'
  <2> DEFINE st == IF ch \notin requested(s) THEN s ELSE cancel_open_request(s, ch)
  <2>1. /\ ch \notin confirmed(s) /\ can_init_and_accept(st, ch, limits)
        /\ s' = init_and_accept_open_channel(st, ch, limits, config) /\ UNCHANGED environment
    BY <1>5 DEF ForceOpenHrmpChannel
  <2>2. Keeps(s, st, config, valid)
    BY <1>1, <2>1, CancelStep DEF confirmed, Keeps
  <2> HIDE DEF st
  <2>3. Keeps(st, s', config, valid)
    BY <1>1, <2>1, <2>2, CallSteps DEF Keeps
  <2> QED
    BY <2>1, <2>2, <2>3, KeepsAgain, KeepsInv
<1> QED
  BY <1>2, <1>3, <1>4, <1>5 DEF ManagerCalls

\* The calls for system chains.
LEMMA SystemCallsInv == IInv /\ SystemCalls => IInv'
<1> SUFFICES ASSUME IInv, NEW ch \in scenario.links,
                    \/ EstablishSystemChannel(ch)
                    \/ \E limits \in scenario.limits : EstablishChannelWithSystem(ch, limits)
             PROVE  IInv'
  BY DEF SystemCalls
<1>1. Good(s) /\ HasLimits(config) /\ ch \in Channels
  BY ScenarioAssumption DEF IInv
<1>2. CASE EstablishSystemChannel(ch)
  <2> DEFINE limits == [capacity |-> config.max_capacity, message_size |-> config.max_message_size]
             st == init_open_channel(s, ch, limits)
  <2>1. /\ can_init(s, ch, limits) /\ can_accept(st, ch) /\ s' = accept_open_channel(st, ch)
        /\ UNCHANGED environment
    BY <1>2 DEF EstablishSystemChannel
  <2> HIDE DEF limits
  <2>2. Keeps(s, st, config, valid)
    BY <1>1, <2>1, CallSteps
  <2> HIDE DEF st
  <2>3. Keeps(st, s', config, valid)
    BY <1>1, <2>1, <2>2, CallSteps DEF Keeps
  <2> QED
    BY <2>1, <2>2, <2>3, KeepsAgain, KeepsInv
<1>3. ASSUME NEW limits, EstablishChannelWithSystem(ch, limits)
      PROVE  IInv'
  <2> DEFINE back == <<ch[2], ch[1]>>
             st1 == init_open_channel(s, ch, limits)
             st2 == accept_open_channel(st1, ch)
             st3 == init_open_channel(st2, back, limits)
  <2>1. /\ back \in Channels
        /\ can_init(s, ch, limits) /\ can_accept(st1, ch)
        /\ can_init(st2, back, limits) /\ can_accept(st3, back)
        /\ s' = accept_open_channel(st3, back) /\ UNCHANGED environment
    BY <1>3 DEF EstablishChannelWithSystem
  <2> HIDE DEF back
  <2>2. Keeps(s, st1, config, valid) /\ Good(st1)
    BY <1>1, <2>1, CallSteps DEF Keeps
  <2> HIDE DEF st1
  <2>3. Keeps(st1, st2, config, valid) /\ Good(st2)
    BY <1>1, <2>1, <2>2, CallSteps DEF Keeps
  <2> HIDE DEF st2
  <2>4. Keeps(st2, st3, config, valid) /\ Good(st3)
    BY <1>1, <2>1, <2>3, CallSteps DEF Keeps
  <2> HIDE DEF st3
  <2>5. Keeps(st3, s', config, valid)
    BY <1>1, <2>1, <2>4, CallSteps
  <2>6. Keeps(s, st2, config, valid)
    BY <2>2, <2>3, KeepsAgain
  <2>7. Keeps(s, st3, config, valid)
    BY <2>4, <2>6, KeepsAgain
  <2>8. Keeps(s, s', config, valid)
    BY <2>5, <2>7, KeepsAgain
  <2> QED
    BY <2>1, <2>8, KeepsInv
<1> QED
  BY <1>2, <1>3

\* The deposit provider and its answers.
LEMMA ProviderInv == IInv /\ Provider => IInv'
<1> SUFFICES ASSUME IInv, Provider
             PROVE  IInv'
  OBVIOUS
<1>1. /\ Good(s) /\ IsStorage(s) /\ HasLimits(config) /\ s.close_requests \subseteq Channels
      /\ \A answer \in s.answers : answer.channel \in Channels
  BY DEF IInv, Good
<1>2. ASSUME NEW ch \in Channels, NEW k \in 1 .. Len(s.asked[ch]), NEW ok \in BOOLEAN,
             ProcessRequest(ch, k, ok)
      PROVE  IInv'
  <2> DEFINE request == s.asked[ch][k]
             answer == [channel |-> ch, request |-> request, ok |-> ok]
             answers == IF request.action = "Release" THEN s.answers ELSE s.answers \cup {answer}
  <2>1. PICK asked, held : s' = [s EXCEPT !.asked = asked, !.held = held, !.answers = answers]
    BY <1>1, <1>2 DEF ProcessRequest, IsStorage
  <2>2. UNCHANGED environment
    BY <1>2 DEF ProcessRequest
  <2>3. \A answ \in answers : answ.channel \in Channels
    BY <1>1
  <2> HIDE DEF answers
  <2>4. IsStorage(s')
    BY <1>1, <2>1 DEF IsStorage
  <2>5. /\ s'.open_requests = s.open_requests /\ s'.channels = s.channels
        /\ s'.open_count = s.open_count /\ s'.accepted_count = s.accepted_count
        /\ s'.ingress = s.ingress /\ s'.egress = s.egress
        /\ s'.close_requests = s.close_requests /\ s'.answers = answers
    BY <1>1, <2>1 DEF IsStorage
  <2>6. SameBooks(s, s')
    BY <2>4, <2>5 DEF SameBooks, opened
  <2>7. Keeps(s, s', config, valid)
    BY <1>1, <2>3, <2>5, <2>6, SameBooksKeeps
  <2> QED
    BY <2>2, <2>7, KeepsInv
<1>3. ASSUME NEW answer \in s.answers, OnDepositSet(answer)
      PROVE  IInv'
  <2> DEFINE st == [s EXCEPT !.answers = @ \ {answer}]
  <2>1. /\ s' = on_deposit_set(st, answer.channel, answer.request, answer.ok, config, valid)
        /\ UNCHANGED environment
    BY <1>3 DEF OnDepositSet
  <2>2. IsStorage(st)
    BY <1>1 DEF IsStorage
  <2>3. /\ st.open_requests = s.open_requests /\ st.channels = s.channels
        /\ st.open_count = s.open_count /\ st.accepted_count = s.accepted_count
        /\ st.ingress = s.ingress /\ st.egress = s.egress
        /\ st.close_requests = s.close_requests /\ st.answers = s.answers \ {answer}
    BY <1>1 DEF IsStorage
  <2> HIDE DEF st
  <2>4. SameBooks(s, st)
    BY <2>2, <2>3 DEF SameBooks, opened
  <2>5. Keeps(s, st, config, valid)
    BY <1>1, <2>3, <2>4, SameBooksKeeps
  <2>6. Keeps(st, s', config, valid)
    BY <1>1, <2>1, <2>5, OnDepositSetStep DEF Keeps
  <2> QED
    BY <2>1, <2>5, <2>6, KeepsAgain, KeepsInv
<1> QED
  BY <1>2, <1>3 DEF Provider

\* Session changes.
LEMMA SessionsInv == IInv /\ Sessions => IInv'
<1> SUFFICES ASSUME IInv, Sessions
             PROVE  IInv'
  OBVIOUS
<1>1. ASSUME NEW p \in scenario.leaving, ScheduleParaCleanup(p) \/ ScheduleParaInitialize(p)
      PROVE  IInv'
  <2>1. /\ \/ lifecycle' = [lifecycle EXCEPT ![p] = "offboarding"]
           \/ lifecycle[p] = "gone" /\ lifecycle' = [lifecycle EXCEPT ![p] = "onboarding"]
        /\ UNCHANGED <<scenario, s, config>>
    BY <1>1 DEF ScheduleParaCleanup, ScheduleParaInitialize
  <2>2. \A q \in Paras : exists(q) => exists(q)'
    BY <2>1 DEF IInv, exists
  <2>3. \A ch \in opened(s) \cup requested(s) : ch[1] \in Paras /\ ch[2] \in Paras
    BY HrmpAssumption DEF IInv, Good
  <2>4. ParticipantsExist'
    BY <2>1, <2>2, <2>3 DEF IInv, ParticipantsExist
  <2> QED
    BY <2>1, <2>4 DEF IInv
<1>2. ASSUME NEW new_config \in scenario.configs, InitializerOnNewSession(new_config)
      PROVE  IInv'
  <2> DEFINE outgoing == {p \in Paras : lifecycle[p] = "offboarding" /\ due[p] = 1}
             incoming == {p \in Paras : lifecycle[p] = "onboarding" /\ due[p] = 1}
             after == [p \in Paras |-> IF p \in outgoing THEN "gone"
                                       ELSE IF p \in incoming THEN "valid" ELSE lifecycle[p]]
             valid_after == {p \in Paras : after[p] = "valid"}
  <2>1. /\ config' = new_config /\ lifecycle' = after /\ scenario' = scenario
        /\ s' = process_hrmp_close_channel_requests(process_hrmp_open_channel_requests(
                  perform_outgoing_para_cleanup(s, config, outgoing), config, valid_after))
    BY <1>2 DEF InitializerOnNewSession
  <2>2. /\ Good(s) /\ opened(s) \subseteq Channels /\ requested(s) \subseteq Channels
        /\ lifecycle \in [Paras -> {"valid", "offboarding", "gone", "onboarding"}]
    BY DEF IInv, Good
  <2> HIDE DEF valid_after
  <2>3. /\ Good(s') /\ opened(s') \subseteq opened(s) \cup confirmed(s)
        /\ requested(s') \subseteq requested(s) /\ confirmed(s') = {}
        /\ \A ch \in opened(s') \cup requested(s') : ch[1] \notin outgoing /\ ch[2] \notin outgoing
        /\ Counted(s) => Counted(s')
    BY ONLY <2>1, <2>2, SessionKeeps
  <2>4. /\ opened(s') \cup requested(s') \subseteq opened(s) \cup requested(s)
        /\ opened(s') \cup confirmed(s') \subseteq opened(s) \cup confirmed(s)
    BY <2>3 DEF confirmed
  <2>5. /\ new_config.max_outbound = config.max_outbound /\ new_config.max_inbound = config.max_inbound
        /\ HasLimits(new_config)
    BY LimitsAssumption DEF IInv, HasLimits
  <2>6. scenario.cleaned = {} => Limited(s', new_config)
    <3>1. ASSUME Limited(s, config)
          PROVE  Limited(s', config)
      BY <2>2, <2>4, <3>1, FewerLimited DEF IInv, HasLimits
    <3> QED
      BY <2>5, <3>1 DEF IInv, Limited
  <2>7. ParticipantsExist'
    <3>1. ASSUME NEW ch \in opened(s') \cup requested(s'), NEW i \in {1, 2}
          PROVE  after[ch[i]] \in {"valid", "offboarding"}
      <4>1. ch[i] \in Paras /\ ch[i] \notin outgoing
        BY <2>2, <2>3, <2>4, HrmpAssumption
      <4>2. lifecycle[ch[i]] \in {"valid", "offboarding"}
        BY <2>4 DEF IInv, ParticipantsExist, exists
      <4> QED
        BY <4>1, <4>2
    <3> QED
      BY <2>1, <3>1 DEF ParticipantsExist, exists
  <2>8. after \in [Paras -> {"valid", "offboarding", "gone", "onboarding"}]
    BY <2>2
  <2> QED
    BY <2>1, <2>3, <2>5, <2>6, <2>7, <2>8 DEF IInv
<1> QED
  BY <1>1, <1>2 DEF Sessions

\* Candidates send and receive messages in the channels there are.
LEMMA CandidatesInv == IInv /\ Candidates => IInv'
<1> SUFFICES ASSUME IInv, NEW p,
                    \/ \E ctx \in Contexts(p), msgs \in Outbound(p) : BackCandidate(p, ctx[1], ctx[2], msgs)
                    \/ EnactCandidate(p)
                    \/ \E k \in 1 .. Len(backed[p]) : DropCandidates(p, k)
             PROVE  IInv'
  BY DEF Candidates
<1>1. CASE UNCHANGED <<scenario, s, config, lifecycle>>
  BY <1>1 DEF IInv, ParticipantsExist, exists
<1>2. CASE EnactCandidate(p)
  <2> DEFINE candidate == Head(backed[p])
             st == prune_hrmp(s, p, candidate.watermark)
  <2>1. /\ s' = queue_outbound_hrmp(st, now, p, candidate.msgs)
        /\ UNCHANGED <<scenario, config, lifecycle>>
    BY <1>2 DEF EnactCandidate, paras
  <2>2. /\ Good(s) /\ IsStorage(s) /\ s.close_requests \subseteq Channels
        /\ \A answer \in s.answers : answer.channel \in Channels
    BY DEF IInv, Good
  <2>3. SameBooks(s, st) /\ st.close_requests = s.close_requests /\ st.answers = s.answers
    BY <2>2, MessagesKeep
  <2> HIDE DEF st, candidate
  <2>4. SameBooks(st, s') /\ s'.close_requests = s.close_requests /\ s'.answers = s.answers
    BY <2>1, <2>3, MessagesKeep DEF SameBooks
  <2>5. SameBooks(s, s')
    BY <2>3, <2>4 DEF SameBooks
  <2>6. Keeps(s, s', config, valid)
    BY <2>2, <2>4, <2>5, SameBooksKeeps
  <2> QED
    BY <2>1, <2>6, StepInv
<1> QED
  BY <1>1, <1>2 DEF BackCandidate, DropCandidates, paras

\* Every step keeps the invariant.
LEMMA NextInv == IInv /\ [Next]_vars => IInv'
<1> SUFFICES ASSUME IInv, [Next]_vars
             PROVE  IInv'
  OBVIOUS
<1>1. CASE UNCHANGED <<scenario, s, config, lifecycle>>
  BY <1>1 DEF IInv, ParticipantsExist, exists
<1>2. CASE NextBlock
  BY <1>1, <1>2 DEF NextBlock, paras
<1>3. CASE UNCHANGED vars
  BY <1>1, <1>3 DEF vars
<1> QED
  BY <1>2, <1>3, ParaCallsInv, ManagerCallsInv, SystemCallsInv, ProviderInv, SessionsInv,
     CandidatesInv DEF Next

\* The invariant holds throughout.
LEMMA AlwaysInv == Spec => []IInv
BY InitInv, NextInv, PTL DEF Spec

-----------------------------------------------------------------------------
(* Theorems                                                                  *)

\* The ingress and egress indexes list the open channels and nothing else, through calls, late
\* answers, forced cleanups, offboardings and session changes (close_hrmp_channel,
\* process_hrmp_open_channel_requests, clean_hrmp_after_outgoing).
THEOREM IndexesAlwaysMatch == Spec => []IndexesMatch
<1>1. IInv => IndexesMatch
  BY DEF IInv, Good, Indexed, IndexesMatch, recipients, senders
<1> QED
  BY <1>1, AlwaysInv, PTL

\* An offboarded para has no channel and no request, whatever answers of the deposit provider
\* arrive after it is gone (perform_outgoing_para_cleanup, resume).
THEOREM ParticipantsAlwaysExist == Spec => []ParticipantsExist
<1>1. IInv => ParticipantsExist
  BY DEF IInv
<1> QED
  BY <1>1, AlwaysInv, PTL

\* The counters of requests made and accepted are those of the requests, unless
\* force_clean_hrmp is used.
THEOREM CountsAlwaysMatch == Spec => []CountsMatch
<1>1. IInv => CountsMatch
  BY DEF IInv, Counted, CountOf, CountsMatch
<1> QED
  BY <1>1, AlwaysInv, PTL

\* No para ever has more channels and requests than the configuration allows, however late the
\* deposits arrive, unless force_clean_hrmp is used (check_init_open_channel, check_accept_limit).
THEOREM AlwaysWithinChannelLimits == Spec => []WithinChannelLimits
<1>1. IInv => WithinChannelLimits
  BY DEF IInv, Limited, WithinChannelLimits
<1> QED
  BY <1>1, AlwaysInv, PTL
==============================================================================
