------------------------------ MODULE MCReceiver ------------------------------
(* Receiver for TLC: two expectations, of messages, or one of them of the       *)
(* dependency's ExitMsg; one may come after the other, and one may get stuck.   *)
EXTENDS Receiver

Counted(e) == {MaxTimes(e, 1), Times(e, 2), MinTimes(e, 1), AnyTimes(e)}
First == Counted(NewExpect("msg")) \cup {DoLocks(Times(NewExpect("msg"), 2))}
Second == UNION {Counted(NewExpect(t)) : t \in {"msg", "exit"}}
TwoExpectations ==
  {<<e1, e2>> : e1 \in First, e2 \in Second} \cup {<<e1, After(e2, 1)>> : e1 \in First, e2 \in Second}
===============================================================================
