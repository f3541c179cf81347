----------------------------- MODULE ServerState -----------------------------
(***************************************************************************)
(* The process around the three request handlers: the goroutines that      *)
(* serve requests over one store and one cache, the wall clock they stamp  *)
(* entities with, and the devices at the other end of the connections.     *)
(*                                                                         *)
(* A goroutine t is named by the device whose requests it serves and a     *)
(* slot: a device that gave up on a request may have another one served    *)
(* while the first still runs.  pc[t] names the call t makes next.  Each  *)
(* call on the store or the cache is one step; goroutines interleave       *)
(* between calls.                                                          *)
(***************************************************************************)
EXTENDS SQLiteStore, MemoryCache

CONSTANTS
  Slots,       \* requests of one device that may be in the server at the same time
  Serial,      \* TRUE if the whole server handles one request at a time
  RoundTrip,   \* least milliseconds from reading a version to committing on it
  StampGap,    \* least milliseconds between two stamps the server gives
  ClockGoesBack, \* TRUE if the wall clock may be set back
  MaxClock,    \* bound: the clock moves by itself up to this time
  Budget       \* bound: how often each thing outside the handlers may happen

\* The goroutines, and the device that t serves.
Threads == Devices \X Slots
Dev(t) == t[1]

Kinds == {"commit", "getUpdates", "clear", "storeError", "giveUp", "crash", "expire"}

ASSUME BoundAssumption ==
  /\ MaxClock \in Nat
  /\ RoundTrip \in Nat
  /\ StampGap \in Nat
  /\ Serial \in BOOLEAN
  /\ ClockGoesBack \in BOOLEAN
  /\ Budget \in [Kinds -> Nat]

VARIABLES
  clock,    \* time.Now().UnixMilli()
  left,     \* what is left of Budget
  pc,       \* per goroutine: the call it makes next
  awaited,  \* per goroutine: the device still waits for the response
  cm,       \* per goroutine: locals of handleCommitRequest
  gu,       \* per goroutine: locals of handleGetUpdatesRequest
  evict,    \* per goroutine: types whose keys handleClearServerData deletes
  known,    \* per device: what it knows of each entity
  token,    \* per device: its progress marker of each type
  used      \* the uuids drawn so far

clientVars == <<known, token>>
vars == <<rows, tagRows, disabled, itemCounts, typeMtime, interim, clock, left, pc,
          awaited, cm, gu, evict, known, token, used>>

Origins == {"NEW_CLIENT", "PERIODIC", "GU_TRIGGER"}

CommitPoints == {"count", "peekNormal", "peekHistory", "entries", "hasItem", "create",
                 "update", "countUp", "countDown", "drainHistory", "setMtime"}
GetUpdatesPoints == {"devices", "hasTag", "makeFolders", "insertFolders", "markers",
                     "query", "cacheSet"}
ClearPoints == {"disable", "scan", "wipe", "evict"}
Points == {"idle", "reply"} \cup CommitPoints \cup GetUpdatesPoints \cup ClearPoints

\* What an acknowledged entry tells the device, and what an update tells it.
Ack == [id: Ids, version: Nat, deleted: BOOLEAN]
Update == [id: Ids, version: Nat, deleted: BOOLEAN, by: Devices \cup {Server}]

\* Locals of handleCommitRequest.  cur is the entry being processed, if any.
CommitWork ==
  [todo: SUBSET Entry, cur: SUBSET Entry, stamp: Nat, counts: Counts, fresh: Counts,
   mtimes: [Types -> Nat \cup {Miss}], acks: SUBSET Ack]
NoCommit ==
  [todo |-> {}, cur |-> {}, stamp |-> 0, counts |-> NoCounts, fresh |-> NoCounts,
   mtimes |-> [ty \in Types |-> Miss], acks |-> {}]

\* Locals of handleGetUpdatesRequest.  cur is the marker being processed, if any.
GetUpdatesWork ==
  [origin: Origins, todo: SUBSET Types, cur: SUBSET Types, tok: [Types -> Nat],
   got: SUBSET Update, remaining: BOOLEAN, active: Nat, folders: SUBSET RootIds, stamp: Nat]
NoGetUpdates ==
  [origin |-> "PERIODIC", todo |-> {}, cur |-> {}, tok |-> [ty \in Types |-> 0],
   got |-> {}, remaining |-> FALSE, active |-> 0, folders |-> {}, stamp |-> 0]

StateTypeOK ==
  /\ clock \in Nat
  /\ left \in [Kinds -> Nat]
  /\ pc \in [Threads -> Points]
  /\ awaited \in [Threads -> BOOLEAN]
  /\ cm \in [Threads -> CommitWork]
  /\ gu \in [Threads -> GetUpdatesWork]
  /\ evict \in [Threads -> SUBSET Types]
  /\ known \in [Devices -> [Ids -> Known]]
  /\ token \in [Devices -> [Types -> Nat]]
  /\ used \subseteq Ids

TypeOK == StoreTypeOK /\ CacheTypeOK /\ StateTypeOK

Init ==
  /\ StoreInit
  /\ CacheInit
  /\ clock = 1
  /\ left = Budget
  /\ pc = [t \in Threads |-> "idle"]
  /\ awaited = [t \in Threads |-> FALSE]
  /\ cm = [t \in Threads |-> NoCommit]
  /\ gu = [t \in Threads |-> NoGetUpdates]
  /\ evict = [t \in Threads |-> {}]
  /\ known = [d \in Devices |-> [i \in Ids |-> Unknown]]
  /\ token = [d \in Devices |-> [ty \in Types |-> 0]]
  /\ used = {}

Spend(kind) ==
  /\ left[kind] > 0
  /\ left' = [left EXCEPT ![kind] = @ - 1]

At(t, point) == pc[t] = point
Goto(t, point) == pc' = [pc EXCEPT ![t] = point]

\* t is free, and no other request is in the way.
Free(t) ==
  /\ At(t, "idle")
  /\ \A u \in Threads : Dev(u) = Dev(t) => ~awaited[u]
  /\ Serial => \A u \in Threads : At(u, "idle")

\* commandHandler takes a request unless the chain is disabled (then it answers
\* DISABLED_BY_ADMIN and nothing changes).
Admit(t, point) ==
  /\ Free(t)
  /\ ~disabled
  /\ Goto(t, point)
  /\ awaited' = [awaited EXCEPT ![t] = TRUE]

\* time.Now() is read for a stamp.
Stamped == clock' = clock + StampGap

\* The goroutine ends; its locals go out of scope.
Finish(t) ==
  /\ Goto(t, "idle")
  /\ awaited' = [awaited EXCEPT ![t] = FALSE]
  /\ cm' = [cm EXCEPT ![t] = NoCommit]
  /\ gu' = [gu EXCEPT ![t] = NoGetUpdates]
  /\ evict' = [evict EXCEPT ![t] = {}]

\* The whole request fails: an error response, which teaches the device nothing.
Fail(t) ==
  /\ Finish(t)
  /\ UNCHANGED <<storeVars, cacheVars, clientVars, clock, used>>

\* A store call fails (SQLITE_BUSY, an I/O error, a cancelled context).
FailOnStoreError(t) == Spend("storeError") /\ Fail(t)
=============================================================================
