------------------------------ MODULE MsgChannel ------------------------------
(***************************************************************************)
(* What the network threads and the Logic thread may expect of the message *)
(* queue between them: a channel that delivers what was pushed, once, in   *)
(* the order of the pushes and unchanged, and that is emptied only when it *)
(* is closed.  A message for which there is no memory never enters it.     *)
(***************************************************************************)
EXTENDS Sequences

CONSTANTS
    Messages,   \* what can be pushed
    NoMessage   \* nothing was delivered yet

VARIABLES
    chan,   \* pushed and not yet handled
    out,    \* the message that was handled last
    open    \* may the channel still be used?

chanVars == <<chan, out, open>>

ChanInit == chan = <<>> /\ out = NoMessage /\ open = TRUE

Send(m) ==
    /\ open
    /\ chan' = Append(chan, m)
    /\ UNCHANGED <<out, open>>

Receive ==
    /\ open /\ chan # <<>>
    /\ out' = Head(chan)
    /\ chan' = Tail(chan)
    /\ UNCHANGED open

Discard ==
    /\ open
    /\ chan' = <<>> /\ open' = FALSE
    /\ UNCHANGED out

ChanNext ==
    \/ \E m \in Messages : Send(m)
    \/ Receive
    \/ Discard

ChanSpec == ChanInit /\ [][ChanNext]_chanVars
===============================================================================
