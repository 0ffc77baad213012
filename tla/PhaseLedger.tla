----------------------------- MODULE PhaseLedger -----------------------------
(***************************************************************************)
(* What the phasic agent promises of the phases it keeps: a ledger that    *)
(* only grows.  Whatever clients ask, whatever fails and whenever the      *)
(* agent is constructed again, no phase is removed, changed or reopened,   *)
(* none is opened while another is open, and the MVP is declared once, on  *)
(* a ledger without an open phase.                                         *)
(***************************************************************************)
EXTENDS Naturals, Sequences

CONSTANT Names

VARIABLES
  phases,   \* the phases opened so far, each with its name and two flags
  mvp       \* the MVP has been declared

NoneOpen == \A i \in DOMAIN phases : phases[i].completed

\* An agent made by an import counts as one whose MVP was declared.
Init == phases = <<>> /\ mvp \in BOOLEAN

Open(name, last) ==
  /\ NoneOpen
  /\ phases' = Append(phases, [name |-> name, lastPhase |-> last, completed |-> FALSE])
  /\ mvp' = mvp

\* Only the newest phase can be open; the MVP may be declared with it.
Complete ==
  /\ phases # <<>> /\ ~phases[Len(phases)].completed
  /\ phases' = [phases EXCEPT ![Len(phases)].completed = TRUE]
  /\ mvp' \in {mvp, TRUE}

Declare ==
  /\ ~mvp /\ phases # <<>> /\ NoneOpen
  /\ mvp' = TRUE
  /\ phases' = phases

Next == (\E name \in Names, last \in BOOLEAN : Open(name, last)) \/ Complete \/ Declare

Spec == Init /\ [][Next]_<<phases, mvp>>
=============================================================================
