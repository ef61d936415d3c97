----------------------------- MODULE StateStore -----------------------------
(***************************************************************************)
(* The state file of storage/state_store.py.  save opens the only copy for *)
(* writing, which empties it, and then writes the new state, so whatever   *)
(* ends the process in between leaves a torn file.                         *)
(*                                                                         *)
(* A state is [..., plain].  JSON keeps a plain state (dicts, numbers,     *)
(* strings) as it is.  The dataclass objects of sync_state it turns into   *)
(* their str(): read back they equal no object any more.                   *)
(***************************************************************************)
VARIABLE file          \* what StateStore.path names

Absent       == [status |-> "absent"]
Torn         == [status |-> "torn"]
Whole(state) == [status |-> "whole", state |-> state]

\* save, in two steps.
OpenForWriting == file' = Torn
Write(state)   == file' = Whole(state)

ReadsAnything == TRUE

\* load raises StateStoreError exactly when this is false.  A missing file is
\* the empty state.
CanLoad == file # Torn

LocalStateIsEmpty == file.status # "whole"

\* local_state == broker_state in reconcile.
Agrees(broker) == broker.plain /\ file.state = broker

\* reconcile's safe_mode for a state that can be loaded.  broker_state, with
\* its three entries, is never empty.
SafeMode(broker) == ~ LocalStateIsEmpty /\ ~ Agrees(broker)
=============================================================================
