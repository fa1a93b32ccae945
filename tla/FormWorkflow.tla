---------------------------- MODULE FormWorkflow ----------------------------
(***************************************************************************)
(* What the digital form module promises its users, with no requests and   *)
(* no database: each form goes through its stages once, its content is     *)
(* open only while it is a draft, and it is handed in with content.        *)
(***************************************************************************)
CONSTANTS Forms, Items

VARIABLES
  stage,     \* where each form is in its life
  content    \* the combinations recorded on it

Stages == {"UNBORN", "DRAFT", "PENDING", "CONFIRMED", "REJECTED", "DELETED"}

Init ==
  /\ stage = [f \in Forms |-> "UNBORN"]
  /\ content = [f \in Forms |-> {}]

Move(f, from, to) ==
  /\ stage[f] = from
  /\ stage' = [stage EXCEPT ![f] = to]

Create(f) == Move(f, "UNBORN", "DRAFT") /\ UNCHANGED content

Edit(f) ==
  /\ stage[f] = "DRAFT"
  /\ \E S \in SUBSET Items : content' = [content EXCEPT ![f] = S]
  /\ UNCHANGED stage

Submit(f) ==
  /\ content[f] # {}
  /\ Move(f, "DRAFT", "PENDING")
  /\ UNCHANGED content

Decide(f) ==
  /\ \E verdict \in {"CONFIRMED", "REJECTED"} : Move(f, "PENDING", verdict)
  /\ UNCHANGED content

Delete(f) ==
  /\ Move(f, "DRAFT", "DELETED")
  /\ content' = [content EXCEPT ![f] = {}]

Next == \E f \in Forms :
  Create(f) \/ Edit(f) \/ Submit(f) \/ Decide(f) \/ Delete(f)

Spec == Init /\ [][Next]_<<stage, content>>
=============================================================================
