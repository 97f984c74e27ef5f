----------------------------- MODULE FifoChannels -----------------------------
(***************************************************************************)
(* What an interconnection network promises to the nodes it joins: a       *)
(* channel from every node to every other one, which delivers each message *)
(* once and in the order in which it was sent.                             *)
(***************************************************************************)
EXTENDS Sequences

CONSTANTS Nets, Nodes, Messages

VARIABLE chan   \* chan[n][s][d]: the messages under way on net n from s to d

Init == chan = [n \in Nets |-> [s \in Nodes |-> [d \in Nodes |-> << >>]]]

Send(n, s, d) ==
  \E m \in Messages : chan'[n][s][d] = Append(chan[n][s][d], m)

Receive(n, s, d) ==
  chan[n][s][d] # << >> /\ chan'[n][s][d] = Tail(chan[n][s][d])

\* One channel changes at its end or at its front, and no other channel does.
Next ==
  \E n \in Nets, s \in Nodes, d \in Nodes :
    /\ Send(n, s, d) \/ Receive(n, s, d)
    /\ chan' = [chan EXCEPT ![n][s][d] = chan'[n][s][d]]

Spec == Init /\ [][Next]_chan

================================================================================
