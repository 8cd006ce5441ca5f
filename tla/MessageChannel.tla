--------------------------- MODULE MessageChannel ---------------------------
(***************************************************************************)
(* What a bridge lane promises: messages get consecutive nonces, each is   *)
(* dispatched exactly once and in order, by some relayer, and is confirmed *)
(* to the sender only after that.                                          *)
(***************************************************************************)
EXTENDS Integers, Sequences

CONSTANT Relayers

VARIABLES
  sent,        \* messages accepted for delivery
  dispatched,  \* the messages dispatched, each with the relayer who brought it
  confirmed    \* messages the sender knows to be dispatched

channel == <<sent, dispatched, confirmed>>

Init == sent = 0 /\ dispatched = <<>> /\ confirmed = 0

Send == sent' = sent + 1 /\ UNCHANGED <<dispatched, confirmed>>

Dispatch(relayer) ==
  /\ Len(dispatched) < sent
  /\ dispatched' = Append(dispatched, [nonce |-> Len(dispatched) + 1, relayer |-> relayer])
  /\ UNCHANGED <<sent, confirmed>>

Confirm(nonce) ==
  /\ confirmed < nonce /\ nonce <= Len(dispatched)
  /\ confirmed' = nonce
  /\ UNCHANGED <<sent, dispatched>>

Next ==
  \/ Send
  \/ \E r \in Relayers : Dispatch(r)
  \/ \E n \in 1 .. Len(dispatched) : Confirm(n)

Spec == Init /\ [][Next]_channel

=============================================================================
