---------------------------- MODULE EventStream ----------------------------
(***************************************************************************)
(* What a client of POST /v1/chat in stream mode may rely on.  Frames are  *)
(* numbered 1, 2, ... by their SSE id.  Under back pressure the gateway    *)
(* drops frames, so a client sees some of the ids, in increasing order and *)
(* each at most once, and nothing after the stream has ended.              *)
(***************************************************************************)
EXTENDS Naturals, Sequences

CONSTANT LastFrame   (* how many frames one run may produce, terminal included *)

VARIABLES
  numbered,  (* how many ids have been given                               *)
  received,  (* the ids the client has received, in order                  *)
  open       (* the stream has not ended                                   *)

vars == <<numbered, received, open>>

(* The first frame, meta, exists before the stream opens.                  *)
Init == numbered = 1 /\ received = <<>> /\ open = TRUE

Number ==
  /\ numbered < LastFrame
  /\ numbered' = numbered + 1
  /\ UNCHANGED <<received, open>>

Receive(id) ==
  /\ open
  /\ \A i \in 1..Len(received) : received[i] < id
  /\ received' = Append(received, id)
  /\ UNCHANGED <<numbered, open>>

End == open /\ open' = FALSE /\ UNCHANGED <<numbered, received>>

Next == Number \/ (\E id \in 1..numbered : Receive(id)) \/ End

Spec == Init /\ [][Next]_vars
============================================================================
