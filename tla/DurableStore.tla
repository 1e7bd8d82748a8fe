---------------------------- MODULE DurableStore -----------------------------
(***************************************************************************)
(* What the engine promises about crashes: the store goes through versions *)
(* of its content; a crash takes it back to one of the versions since the  *)
(* last point at which durability was promised, and never to anything else.*)
(***************************************************************************)
EXTENDS Integers, Sequences

CONSTANTS Key, Content

VARIABLE versions   \* from the one promised to the present one

Init == \E m \in [Key -> Content] : versions = <<m>>

\* An operation or a whole transaction makes a new version ...
Change == \E m \in [Key -> Content] : versions' = Append(versions, m)

\* ... which a commit or a flush that returns has made durable.
Harden == versions' = <<versions[Len(versions)]>>

Crash == \E i \in 1..Len(versions) : versions' = <<versions[i]>>

Next == Change \/ Harden \/ Crash

Spec == Init /\ [][Next]_versions
=============================================================================
