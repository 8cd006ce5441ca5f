------------------------------- MODULE MCHrmp --------------------------------
(* Instances of Hrmp for TLC: the scenarios of the runs.                     *)
EXTENDS Hrmp, TLC

CONSTANTS a, b, x, y   \* two parachains, two system chains

Configuration(price, outbound, inbound) ==
  [deposits |-> <<price, price>>, max_capacity |-> 2, max_message_size |-> 2, max_total_size |-> 3,
   max_message_num |-> 2, max_outbound |-> outbound, max_inbound |-> inbound, session_age |-> 0]

\* Relay parents of earlier sessions are allowed.
Aged(age) == [Configuration(0, 1, 1) EXCEPT !.session_age = age]

Small == [capacity |-> 1, message_size |-> 1]
Large == [capacity |-> 2, message_size |-> 2]

\* Nothing happens but the calls of paras for one channel.  links are the channels messages and
\* the calls of governance and for system chains are about, calls those of the other calls.
Quiet ==
  [remote |-> FALSE, links |-> {<<a, b>>}, calls |-> {<<a, b>>}, preopen |-> <<>>,
   config |-> Configuration(1, 1, 1), configs |-> {Configuration(1, 1, 1)}, limits |-> {Small},
   leaving |-> {}, forced |-> FALSE, cleaned |-> {}, cores |-> 0, max_block |-> 1,
   sizes |-> {}, failing |-> FALSE]

Links == {<<a, b>>, <<b, a>>, <<a, x>>, <<x, a>>, <<x, y>>}

\* Deposits held on another chain, while prices change, b comes and goes and the manager
\* opens and closes; with channels that are free of deposits at times, and without.
Priced ==
  [Quiet EXCEPT !.remote = TRUE, !.configs = {Configuration(2, 1, 1), Configuration(1, 1, 1)},
                !.limits = {Small, Large}, !.leaving = {b}, !.forced = TRUE]
Free == [Priced EXCEPT !.configs = {Configuration(0, 1, 1), Configuration(1, 1, 1)}]

\* Deposits reserved by the pallet, the para of either side leaving.
Reserved ==
  [Priced EXCEPT !.remote = FALSE, !.links = {<<a, b>>, <<b, a>>}, !.calls = {<<a, b>>, <<b, a>>},
                 !.limits = {Small}, !.leaving = {a, b}]

\* The manager cleans up after one side.
Cleaned == [Free EXCEPT !.cleaned = {a}, !.limits = {Small}, !.leaving = {}]

\* A deposit arrives when a channel with a system chain has taken the last place.
Outbound1 == [Quiet EXCEPT !.remote = TRUE, !.links = {<<a, b>>, <<a, x>>},
                           !.calls = {<<a, b>>, <<a, x>>}]
Inbound1 == [Quiet EXCEPT !.remote = TRUE, !.links = {<<b, a>>, <<x, a>>},
                          !.calls = {<<b, a>>, <<x, a>>}]

\* Calls for system chains.
WithSystem ==
  [Quiet EXCEPT !.links = {<<a, x>>, <<x, a>>, <<x, y>>}, !.calls = {<<a, x>>},
                !.config = Configuration(1, 2, 1), !.configs = {Configuration(1, 2, 1)}, !.leaving = {a}]

\* Messages of two paras to a third.
Fan ==
  [Quiet EXCEPT !.links = {<<b, a>>, <<x, a>>}, !.calls = {},
                !.config = Configuration(0, 1, 2), !.configs = {Configuration(0, 1, 2)},
                !.preopen = (<<b, a>> :> Large) @@ (<<x, a>> :> Small),
                !.cores = 1, !.max_block = 4, !.sizes = {1}]

\* Several candidates of a para pending.
Elastic ==
  [Quiet EXCEPT !.config = Configuration(0, 1, 1), !.configs = {Configuration(0, 1, 1)},
                !.calls = {}, !.preopen = (<<a, b>> :> Large), !.cores = 2, !.max_block = 4, !.sizes = {1}]

\* A channel closed and opened again, or its para gone, between candidates.
Reopened ==
  [Quiet EXCEPT !.config = Aged(1), !.configs = {Aged(1)},
                !.preopen = (<<a, b>> :> Large), !.leaving = {b}, !.forced = TRUE,
                !.cores = 1, !.max_block = 4, !.sizes = {2}, !.failing = TRUE]

\* A para that leaves and returns, with relay parents that expire before and that do not.
Returning(age) ==
  [Quiet EXCEPT !.config = Aged(age), !.configs = {Aged(age)}, !.calls = {}, !.leaving = {b},
                !.cores = 1, !.max_block = 7]

Varied ==
  {Priced, Free, Reserved, Cleaned, Outbound1, Inbound1, WithSystem, Fan, Elastic, Reopened,
   Returning(2), Returning(3)}
AtTimesFree == {Free}
==============================================================================
