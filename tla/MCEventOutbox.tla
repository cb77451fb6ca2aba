---------------------------- MODULE MCEventOutbox ----------------------------
(* Instances of EventOutbox for TLC.                                       *)
EXTENDS EventOutbox

CONSTANTS m1, m2, f1, f2, f3

(* The events of two facts are too large for one body.                     *)
NotBothLarge == {S \in SUBSET {f1, f2, f3} : ~({f1, f3} \subseteq S)}

(* Two machines, one of which sees one of the facts of the other.          *)
SharedFact == ({m1} \X {f1, f2, f3}) \cup {<<m2, f2>>}

(* The first machine may register again.                                   *)
OneRegistersAgain == [m \in {m1, m2} |-> IF m = m1 THEN 2 ELSE 1]
=============================================================================
