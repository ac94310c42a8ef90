----------------------------- MODULE MCSupervisor -----------------------------
(***************************************************************************)
(* A supervisor of two children, in every strategy and with some mixtures  *)
(* of restart types, whose children die while others are being stopped and *)
(* started; and supervisors that Init calls off or refuses.                *)
(***************************************************************************)
EXTENDS Supervisor

With(s) == [supFlags |-> [NewSupFlags EXCEPT !.strategy = s, !.period = 1],
            childSpecs |-> <<"a", "b">>, ignore |-> FALSE]

Returned ==
  {With(s) : s \in Strategy}
    \cup {[With("one_for_one") EXCEPT !.ignore = TRUE],
          [With("one_for_all") EXCEPT !.childSpecs = <<"a", "b", "a">>],
          [With("rest_for_one") EXCEPT !.childSpecs = <<"a", Blank>>]}

Mixtures ==
  {[a |-> "permanent", b |-> "permanent"], [a |-> "permanent", b |-> "temporary"],
   [a |-> "transient", b |-> "permanent"]}
=============================================================================
