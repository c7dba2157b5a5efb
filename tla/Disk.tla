-------------------------------- MODULE Disk --------------------------------
(***************************************************************************)
(* What the buffer cache and raw I/O expect of a block driver: a request   *)
(* that has been given to it is answered once, by an error or by the       *)
(* transfer of the blocks it asks for and the count of those it does not   *)
(* reach; and requests may be answered in any order.                       *)
(***************************************************************************)
EXTENDS Naturals, FiniteSets

CONSTANTS
  Bufs,           \* the buffers requests are made with
  Requests,
  NoRequest,
  Reach(_),       \* the blocks a request may transfer
  Count(_),       \* how many it asks for
  Whole(_)        \* whether all of them or none must be transferred

VARIABLES
  asked,      \* the request each buffer is under, or NoRequest
  answer      \* the answer to the last request; Error if there is none yet

Error == [err |-> TRUE, moved |-> {}, resid |-> 0]

Success(r) ==
  [err |-> FALSE, moved |-> Reach(r), resid |-> Count(r) - Cardinality(Reach(r))]

Init ==
  /\ asked = [b \in Bufs |-> NoRequest]
  /\ answer = [b \in Bufs |-> Error]

\* A right answer to r.
Answers(a, r) ==
  \/ a = Error
  \/ a = Success(r) /\ (Whole(r) => Cardinality(Reach(r)) = Count(r))

Stays(b) == asked'[b] = asked[b] /\ answer'[b] = answer[b]

Made(b) ==
  asked[b] = NoRequest /\ asked'[b] \in Requests /\ answer'[b] = Error

Answered(b) ==
  asked[b] # NoRequest /\ asked'[b] = NoRequest /\ Answers(answer'[b], asked[b])

\* A request that is answered as soon as it is made.
AnsweredAtOnce(b) ==
  /\ asked[b] = NoRequest /\ asked'[b] = NoRequest
  /\ \E r \in Requests : Answers(answer'[b], r)

\* Requests may be made, and any of the requests there are be answered.
Next ==
  \A b \in Bufs : Stays(b) \/ Made(b) \/ Answered(b) \/ AnsweredAtOnce(b)

Spec == Init /\ [][Next]_<<asked, answer>>
=============================================================================
