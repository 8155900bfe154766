---------------------------- MODULE MCSmoldotFfi ----------------------------
EXTENDS SmoldotFfi

(* A zero interval, and more seen statements than usize holds.             *)
MCStatementJson == {[interval |-> 0], [maxSeen |-> 9]}
=============================================================================
