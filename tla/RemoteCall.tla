------------------------------ MODULE RemoteCall ------------------------------
(***************************************************************************)
(* What genserver.Call promises, without helper processes, channels and    *)
(* messages: a call returns once.  It returns the server's answer, or that *)
(* the server has ended without answering in its lifetime, or it gives up. *)
(***************************************************************************)
CONSTANTS Calls

VARIABLES
  answer,   \* per call: "none", "given" by the living server, or "late"
  ended,    \* the reason the server has ended with, or "no"
  result    \* per call: what Call returned, or "none"

Init ==
  /\ answer = [k \in Calls |-> "none"]
  /\ ended = "no"
  /\ result = [k \in Calls |-> "none"]

Answer(k) ==
  /\ answer[k] = "none"
  /\ answer' = [answer EXCEPT ![k] = IF ended = "no" THEN "given" ELSE "late"]
  /\ UNCHANGED <<ended, result>>

End(reason) ==
  /\ ended = "no" /\ reason # "no"
  /\ ended' = reason
  /\ UNCHANGED <<answer, result>>

Returns(k, r) ==
  /\ result[k] = "none"
  /\ \/ r = "ok" /\ answer[k] # "none"
     \/ r = "stopped" /\ answer[k] # "given" /\ ended \in {"normal", "shutdown"}
     \/ r = "other" /\ answer[k] # "given" /\ ended # "no"
     \/ r = "timeout"
  /\ result' = [result EXCEPT ![k] = r]
  /\ UNCHANGED <<answer, ended>>

Next ==
  \/ \E k \in Calls : Answer(k) \/ \E r \in {"ok", "stopped", "other", "timeout"} : Returns(k, r)
  \/ \E reason \in {"normal", "shutdown", "supervisor", "error", "kill"} : End(reason)

CallSpec == Init /\ [][Next]_<<answer, ended, result>>
=============================================================================
