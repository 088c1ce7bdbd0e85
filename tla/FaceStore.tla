------------------------------ MODULE FaceStore ------------------------------
(***************************************************************************)
(* What the face database promises when every change is saved at once: a   *)
(* store of faces that survives restarts.  A call that reports success has *)
(* had its whole effect on the store, except that an update of a slot      *)
(* without a face reports success and has none; a call that reports        *)
(* failure, or is cut short by a restart, has had its effect or none       *)
(* (deleting all faces may have deleted some of them).                     *)
(***************************************************************************)
CONSTANTS Slots, Faces, NoFace

VARIABLES
  store,  \* the faces the next boot finds
  op,     \* the call in progress
  reply   \* what the last call, or the last boot, returned

vars == <<store, op, reply>>

Stores  == {"AddFace", "UpdateName", "UpdateFace"}
Deletes == {"DelFaceWithID", "DelFaceWithName"}
Others  == {"SaveFace", "Read"}
Skips   == {"UpdateUnused"}

Ops == [name : Stores, slot : Slots, want : Faces]
         \cup [name : Deletes \cup Skips, slot : Slots]
         \cup [name : Others \cup {"DelAll"}]
NoOp == [name |-> "none"]

Init ==
  /\ store = [s \in Slots |-> NoFace]
  /\ op = NoOp
  /\ reply = "None"

\* The boot has ended, with a usable database or without.
Boot ==
  /\ op = NoOp
  /\ reply = "None"
  /\ reply' \in {"Success", "Failed"}
  /\ UNCHANGED <<store, op>>

\* Only for a slot without a face may an update do nothing.
Begin ==
  /\ op = NoOp
  /\ op' \in Ops
  /\ op'.name \in Skips => store[op'.slot] = NoFace
  /\ reply' = "None"
  /\ UNCHANGED store

\* The effect the call is made for.
Effect ==
  \/ op.name \in Stores /\ store' = [store EXCEPT ![op.slot] = op.want]
  \/ op.name \in Deletes /\ store' = [store EXCEPT ![op.slot] = NoFace]
  \/ op.name = "DelAll" /\ store' = [s \in Slots |-> NoFace]
  \/ op.name \in Others \cup Skips /\ UNCHANGED store

\* Part of the effect: the faces that are already gone.
PartialEffect ==
  \/ op.name \in Stores \cup Deletes /\ Effect
  \/ op.name = "DelAll" /\ \E S \in SUBSET Slots :
        store' = [s \in Slots |-> IF s \in S THEN NoFace ELSE store[s]]

\* Something becomes durable before the call returns.
Work ==
  /\ PartialEffect
  /\ UNCHANGED <<op, reply>>

Succeed ==
  /\ Effect
  /\ op' = NoOp
  /\ reply' = "Success"

Fail ==
  /\ op # NoOp
  /\ PartialEffect \/ UNCHANGED store
  /\ op' = NoOp
  /\ reply' = "Failed"

Restart ==
  /\ op' = NoOp
  /\ reply' = "None"
  /\ UNCHANGED store

Next == Boot \/ Begin \/ Work \/ Succeed \/ Fail \/ Restart
Spec == Init /\ [][Next]_vars
=============================================================================
