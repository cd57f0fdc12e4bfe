---------------------------- MODULE FileRegister ----------------------------
(***************************************************************************)
(* What the code that reads and writes flow.toml, status.toml, batch.bash  *)
(* and the snapshot takes a file to be: a register.  A write replaces its  *)
(* value at once or not at all; a reader holds one whole value, the one    *)
(* the register had at a moment of the read; after a power loss the        *)
(* register holds a value it held before.                                  *)
(***************************************************************************)
CONSTANTS Writer, Reader, Body, None

VARIABLES
  value,     \* what a reader gets now, None when there is no file
  durable,   \* what a reader would get after a power loss
  pending,   \* what each writer is writing
  seen       \* what each reader holds

vars == <<value, durable, pending, seen>>

Init ==
  /\ value = None
  /\ durable = None
  /\ pending = [w \in Writer |-> None]
  /\ seen = [r \in Reader |-> None]

Call(w, b) ==
  /\ pending[w] = None
  /\ pending' = [pending EXCEPT ![w] = b]
  /\ UNCHANGED <<value, durable, seen>>

Commit(w) ==
  /\ pending[w] # None
  /\ value' = pending[w]
  /\ pending' = [pending EXCEPT ![w] = None]
  /\ UNCHANGED <<durable, seen>>

Fail(w) ==
  /\ pending' = [pending EXCEPT ![w] = None]
  /\ UNCHANGED <<value, durable, seen>>

Read(r) ==
  /\ seen[r] = None
  /\ seen' = [seen EXCEPT ![r] = value]
  /\ UNCHANGED <<value, durable, pending>>

Return(r) ==
  /\ seen' = [seen EXCEPT ![r] = None]
  /\ UNCHANGED <<value, durable, pending>>

Flush ==
  /\ durable' = value
  /\ UNCHANGED <<value, pending, seen>>

PowerLoss ==
  /\ value' = durable
  /\ pending' = [w \in Writer |-> None]
  /\ seen' = [r \in Reader |-> None]
  /\ UNCHANGED durable

Next ==
  \/ \E w \in Writer : (\E b \in Body : Call(w, b)) \/ Commit(w) \/ Fail(w)
  \/ \E r \in Reader : Read(r) \/ Return(r)
  \/ Flush \/ PowerLoss

Spec == Init /\ [][Next]_vars
=============================================================================
