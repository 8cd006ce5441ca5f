---------------------------- MODULE MCMessageQueue ----------------------------
(* Small instances of MessageQueue.                                          *)
EXTENDS MessageQueue

\* A light message, and one whose weight never fits into ServiceWeight.
MCKinds == {[len |-> 1, weight |-> 1], [len |-> 1, weight |-> 9]}

\* Only light messages, for the runs about the ready ring.
MCLight == {[len |-> 1, weight |-> 1]}

=============================================================================
