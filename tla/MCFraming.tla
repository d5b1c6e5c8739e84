------------------------------ MODULE MCFraming -------------------------------
(* Small instances of Framing for TLC: a byte has three values, a uint16   *)
(* nine; the runner knows types 0 and 1, and 1 carries one byte.           *)
EXTENDS Framing

M(type, payload) == [type |-> type, payload |-> payload]
MCLegalSizes == [type \in {0, 1} |-> IF type = 0 THEN {0} ELSE {1, 3}]

(* Without payload, with one, with one that is illegal, of unknown type.   *)
MCMessages == {M(0, <<>>), M(1, <<2>>), M(1, <<0, 1>>), M(2, <<1, 0, 2>>)}

(* A message of nearly the greatest size, and a short one.                 *)
MCLarge == {M(0, <<>>), M(1, <<0, 0, 0, 0, 0, 0>>)}
===============================================================================
