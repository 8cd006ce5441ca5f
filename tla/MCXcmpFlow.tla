------------------------------ MODULE MCXcmpFlow ------------------------------
(* Small instances of XcmpFlow.                                              *)
EXTENDS XcmpFlow

CONSTANTS a, b, c

\* Suspension at two pages, as early as validate allows.
TightConfig == [suspend_threshold |-> 2, drop_threshold |-> 2, resume_threshold |-> 1]

\* Room for what may still arrive after the suspension.
RoomyConfig == [TightConfig EXCEPT !.drop_threshold = 5]

\* No suspension for the few messages sent.
QuietConfig == [suspend_threshold |-> 3, drop_threshold |-> 3, resume_threshold |-> 1]

\* One chain sends to another, and nothing goes wrong.
Plain ==
  [links |-> {<<a, b>>}, fragments |-> 3, max_capacity |-> 1, limits |-> {2},
   exclusions |-> {{}}, config |-> RoomyConfig, new_thresholds |-> {}, pausable |-> {},
   closable |-> {}, scarce |-> FALSE, overweight |-> FALSE]

\* Enough fragments for the queue to pass drop_threshold if flow control failed.
Congested == [Plain EXCEPT !.fragments = 6]

\* Weight is short when pages are handled and when messages are serviced.
Scarce ==
  [Plain EXCEPT !.scarce = TRUE, !.overweight = TRUE, !.max_capacity = 2, !.config = TightConfig]

Closing ==
  [Plain EXCEPT !.closable = {<<a, b>>}, !.exclusions = {{}, {b}}, !.config = TightConfig]

Configured ==
  [Plain EXCEPT !.new_thresholds = {3}, !.pausable = {b}, !.config = TightConfig]

\* One chain sends to two, with room for one message in a block.
Fan ==
  [Plain EXCEPT !.links = {<<a, b>>, <<a, c>>}, !.fragments = 1, !.limits = {1},
                !.config = QuietConfig]

\* Both chains send.
BothWays == [Plain EXCEPT !.links = {<<a, b>>, <<b, a>>}]

\* As many messages as make both chains suspend each other.
Mutually == [BothWays EXCEPT !.fragments = 2]

Varied == {Congested, Scarce, Closing, Configured, Fan, Mutually}

Undisturbed == {Plain}

Mutual == {BothWays}

=============================================================================
