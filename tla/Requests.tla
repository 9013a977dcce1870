------------------------------ MODULE Requests ------------------------------
(***************************************************************************)
(* What maintainBroadcast and fillMissingBlocks (broadcast.go) rely on when *)
(* they talk to a peer: requests are answered one at a time and in order,   *)
(* each by the answer to itself.  A request that fails is made again, which *)
(* is not seen here.                                                        *)
(***************************************************************************)
EXTENDS Integers, Sequences

VARIABLES
    asked,    \* the number of the last request
    answers   \* answers[i]: the request that the i-th answer is to

requestVars == <<asked, answers>>

RequestsInit == asked = 0 /\ answers = <<>>

Ask ==
    /\ Len(answers) = asked
    /\ asked' = asked + 1
    /\ UNCHANGED answers

Answer ==
    /\ Len(answers) = asked - 1
    /\ answers' = Append(answers, asked)
    /\ UNCHANGED asked

RequestsNext == Ask \/ Answer

RequestsSpec == RequestsInit /\ [][RequestsNext]_requestVars
=============================================================================
