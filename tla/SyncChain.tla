------------------------------ MODULE SyncChain ------------------------------
(***************************************************************************)
(* What a sync chain promises its devices, without the server that keeps   *)
(* it: entities that are created, replaced by ever newer versions and      *)
(* deleted for good, one live entity to a unique tag, root folders that    *)
(* appear all at once, and a chain that is emptied only after it has been  *)
(* disabled.                                                               *)
(***************************************************************************)
EXTENDS SyncData

VARIABLES rows, disabled

Init ==
  /\ rows = [i \in Ids |-> NoRow]
  /\ disabled = FALSE

Present(i) == rows[i] # NoRow

\* No live entity holds the client tag of i.
TagFree(i) ==
  TagOf[i] \in ClientTags =>
    ~\E j \in Ids : Versioned(j) /\ TagOf[j] = TagOf[i] /\ Present(j) /\ ~rows[j].deleted

\* A device writes the row of i, and nothing else changes.
Write(i) ==
  /\ rows' = [rows EXCEPT ![i] = rows'[i]]
  /\ rows'[i] \in Row
  /\ rows'[i].by \in Devices
  /\ UNCHANGED disabled

\* A device creates an entity.
Create(i) ==
  /\ ~Present(i)
  /\ TagOf[i] \notin ServerTags
  /\ Versioned(i) => TagFree(i)
  /\ Write(i)
  /\ ~rows'[i].deleted

\* A device replaces or deletes a live entity; a tombstone is final.
Replace(i) ==
  /\ Versioned(i)
  /\ Present(i)
  /\ ~rows[i].deleted
  /\ Write(i)
  /\ rows'[i].version > rows[i].version

\* A history item is overwritten whatever its version.
Overwrite(i) ==
  /\ ~Versioned(i)
  /\ Present(i)
  /\ Write(i)
  /\ ~rows'[i].deleted

\* The root folders of a chain without any.
Plant(R) ==
  /\ \A i \in Ids : TagOf[i] \in ServerTags => ~Present(i)
  /\ {TagOf[i] : i \in R} = ServerTags
  /\ \A i, j \in R : TagOf[i] = TagOf[j] => i = j
  /\ \A i \in R : rows'[i] \in Row /\ rows'[i].by = Server
  /\ rows' = [i \in Ids |-> IF i \in R THEN rows'[i] ELSE rows[i]]
  /\ UNCHANGED disabled

Disable == disabled' = TRUE /\ UNCHANGED rows

Wipe ==
  /\ disabled
  /\ rows' = [i \in Ids |-> NoRow]
  /\ UNCHANGED disabled

Next ==
  \/ \E i \in Ids : Create(i) \/ Replace(i) \/ Overwrite(i)
  \/ \E R \in SUBSET Ids : Plant(R)
  \/ Disable
  \/ Wipe

Spec == Init /\ [][Next]_<<rows, disabled>>
=============================================================================
