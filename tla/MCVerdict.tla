------------------------------ MODULE MCVerdict ------------------------------
(* Instances for TLC: of Verdict, with two processes, one tender and two     *)
(* profiles, and of the rules in Assessment.  A behaviour plays a scene of   *)
(* the engine or answers one question about the rules.                       *)
EXTENDS Verdict, Assessment, TLC

CONSTANTS worker, admin, t1, p1, p2

Nobody == [primary |-> None, fallback |-> None]
AssignedOf == {[primary |-> p1, fallback |-> p2], Nobody}
Two == {worker, admin}
\* two processes and one adverse event, or one process whose calls end in every
\* way; no process runs while a question is answered
Calls == {"transient", "refused", "too_large", "window", "unfit", "invalid"}
Quiet == [active |-> {}, free |-> {}, adverse |-> 0]
ScenesOf == {[active |-> Two, free |-> {}, adverse |-> 1],
             [active |-> {worker}, free |-> Calls, adverse |-> 1], Quiet}

Played == /\ Init
          /\ IF scene = Quiet THEN role = Nobody /\ Asked ELSE given = [about |-> "engine"]
SpecAll == Played /\ [][Next /\ UNCHANGED given]_<<vars, given>> /\ Fairness
=============================================================================
