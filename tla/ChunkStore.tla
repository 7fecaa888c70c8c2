----------------------------- MODULE ChunkStore -----------------------------
(***************************************************************************)
(* What a region file promises its callers: a durable map from chunk slots *)
(* to payloads.  A write that returns and leaves the store usable is       *)
(* durable.  A write may tear the one slot it is writing (the code writes  *)
(* in place and keeps no journal) only if it fails, which puts the store   *)
(* out of use until it is opened again, or if the process dies in it.      *)
(* Nothing ever changes a slot that is not being written.                  *)
(***************************************************************************)
CONSTANTS Slots,      \* chunk slots of the region
          Payloads,   \* chunk data
          Absent,     \* reading yields null: the slot holds no chunk
          Torn        \* reading yields neither null nor a written payload

VARIABLES contents,   \* what a reader of the file gets, per slot
          writing,    \* the write in progress, or Absent
          status      \* is the store in use: "closed", "open", or "failed"

storeVars == <<contents, writing, status>>

Readable == Payloads \cup {Absent, Torn}

StoreInit ==
    /\ contents = [c \in Slots |-> Absent]
    /\ writing = Absent
    /\ status = "closed"

(* The store is opened: what was durable is what a reader gets. *)
OpenStore ==
    /\ status = "closed"
    /\ status' = "open"
    /\ UNCHANGED <<contents, writing>>

(* A write of p to slot c starts. *)
BeginStore(c, p) ==
    /\ status = "open"
    /\ writing = Absent
    /\ writing' = <<c, p>>
    /\ UNCHANGED <<contents, status>>

(* While a slot is being written a reader of that slot may see anything. *)
Progress ==
    /\ writing # Absent
    /\ \E r \in Readable : contents' = [contents EXCEPT ![writing[1]] = r]
    /\ UNCHANGED <<writing, status>>

(* The write returns: its payload is what a reader gets.  No other step     *)
(* ends a write and leaves the store open.                                  *)
EndStore ==
    /\ writing # Absent
    /\ contents[writing[1]] = writing[2]
    /\ writing' = Absent
    /\ UNCHANGED <<contents, status>>

(* The write gives up: until it is opened again the store is not written. *)
FailStore ==
    /\ writing # Absent
    /\ writing' = Absent
    /\ status' = "failed"
    /\ UNCHANGED contents

(* The process dies, or the file is closed. *)
Stop ==
    /\ status # "closed"
    /\ status' = "closed"
    /\ writing' = Absent
    /\ UNCHANGED contents

StoreNext ==
    \/ OpenStore
    \/ \E c \in Slots, p \in Payloads : BeginStore(c, p)
    \/ Progress
    \/ EndStore
    \/ FailStore
    \/ Stop

StoreSpec == StoreInit /\ [][StoreNext]_storeVars
=============================================================================
