---------------------------- MODULE AnswerStream ----------------------------
(***************************************************************************)
(* What a client of the interaction API may rely on: the messages it gets  *)
(* for the questions of one connection.  The questions are answered one    *)
(* after the other, though one that was sent too early may be left out;    *)
(* the answer of a question begins with START (or is, at once, the error   *)
(* of an activation), goes on with intermediate messages and requests to   *)
(* the user, has one final ANSWER or ERROR, which agents left running by a *)
(* failed one may follow with messages of theirs, and ends with DONE; an   *)
(* ERROR of the API may cut it short before DONE.                          *)
(***************************************************************************)
EXTENDS Naturals, Sequences

CONSTANTS Questions, \* numbered in the order they are accepted
          MaxFeedback

VARIABLE out \* the messages sent for each question

Types == {"start", "step", "oauth", "request", "final", "done", "apierror"}
Output == [type : Types, k : 0..MaxFeedback]

LastType(q) == IF out[q] = <<>> THEN "nothing" ELSE out[q][Len(out[q])].type
Over(q) == LastType(q) \in {"done", "apierror"}
Begun(q) == out[q] # <<>> /\ ~Over(q)
Answered(q) == \E i \in DOMAIN out[q] : out[q][i].type = "final"

Send(q, m) ==
  /\ \A p \in Questions : (p < q => ~Begun(p)) /\ (p > q => out[p] = <<>>)
  /\ out' = [out EXCEPT ![q] = Append(@, m)]

Start(q) == out[q] = <<>> /\ Send(q, [type |-> "start", k |-> 0])

Progress(q) ==
  /\ Begun(q)
  /\ \/ \E t \in {"step", "oauth"} : Send(q, [type |-> t, k |-> 0])
     \/ \E k \in 1..MaxFeedback :
          /\ \A i \in DOMAIN out[q] : out[q][i].k < k
          /\ Send(q, [type |-> "request", k |-> k])

Final(q) ==
  /\ ~Over(q) /\ ~Answered(q)
  /\ Send(q, [type |-> "final", k |-> 0])

Done(q) == ~Over(q) /\ Answered(q) /\ Send(q, [type |-> "done", k |-> 0])

Fail(q) == ~Over(q) /\ Send(q, [type |-> "apierror", k |-> 0])

Init == out = [q \in Questions |-> <<>>]

Next == \E q \in Questions :
          Start(q) \/ Progress(q) \/ Final(q) \/ Done(q) \/ Fail(q)

Spec == Init /\ [][Next]_out
=============================================================================
