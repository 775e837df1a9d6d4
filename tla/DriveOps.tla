------------------------------ MODULE DriveOps ------------------------------
(***************************************************************************)
(* What a call of the Graph adapter promises its caller: it takes effect   *)
(* on the drive at most once, at one instant between the call and its      *)
(* return, and it returns Ok only if it has.  An error says nothing: the   *)
(* answer may have been lost after the effect.  Other people change the    *)
(* drive at any time.                                                      *)
(***************************************************************************)
CONSTANTS
  Names   \* names in one folder of the drive

VARIABLES
  item,    \* what the drive has under each name
  call,    \* the call in progress
  effect,  \* it has taken effect
  answer   \* how the last call returned

vars == <<item, call, effect, answer>>

\* old: a file of somebody else; new: the complete file of an upload.
Value == {"none", "folder", "old", "new"}

NoCall == [op |-> "none"]

Op == {"upload", "mkdir", "delete", "rename"}

Call == {[op |-> o, name |-> n, to |-> m] : o \in Op, n \in Names, m \in Names}

Init ==
  /\ item \in [Names -> Value \ {"new"}] /\ call = NoCall /\ effect = FALSE /\ answer = "none"

Invoke ==
  /\ call = NoCall /\ call' \in Call /\ effect' = FALSE
  /\ UNCHANGED <<item, answer>>

\* The call changes the drive, or finds the folder it should make.
Effect ==
  /\ call \in Call /\ ~effect /\ effect' = TRUE
  /\ LET n == call.name IN
       \/ call.op = "upload" /\ item[n] # "folder" /\ item' = [item EXCEPT ![n] = "new"]
       \/ call.op = "mkdir" /\ item[n] \in {"none", "folder"}
          /\ item' = [item EXCEPT ![n] = "folder"]
       \/ call.op = "delete" /\ item[n] # "none" /\ item' = [item EXCEPT ![n] = "none"]
       \/ call.op = "rename" /\ item[n] # "none" /\ item[call.to] = "none"
          /\ item' = [item EXCEPT ![n] = "none", ![call.to] = item[n]]
  /\ UNCHANGED <<call, answer>>

Return ==
  /\ call \in Call /\ call' = NoCall /\ effect' = FALSE
  /\ answer' \in IF effect THEN {"ok", "error"} ELSE {"error"}
  /\ UNCHANGED item

\* Other people write their own files and folders, or delete and move this one.
Others ==
  /\ \E n \in Names, v \in Value \ {"new"} : item' = [item EXCEPT ![n] = v]
  /\ UNCHANGED <<call, effect, answer>>

Next == Invoke \/ Effect \/ Return \/ Others

Spec == Init /\ [][Next]_vars
=============================================================================
