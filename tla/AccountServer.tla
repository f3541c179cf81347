---------------------------- MODULE AccountServer ----------------------------
(***************************************************************************)
(* The life of the sync-lite processes (main.go): open the database, serve, *)
(* and on SIGTERM drain, checkpoint and close.  What a request does is      *)
(* SyncServer's subject; here it runs, may write, and finishes or is cut.   *)
(***************************************************************************)
EXTENDS Integers

CONSTANTS
  N,            \* number of entries of the option "accounts"
  DatabaseOf,   \* the database file of an account: its name, slugified
  MaxRequests,  \* bound: requests a server handles at the same time
  MaxFaults     \* bound: files that are not there, calls that fail

Accounts == 1 .. N
Databases == {DatabaseOf[a] : a \in Accounts}

ASSUME AccountAssumption ==
  /\ N \in Nat
  /\ DatabaseOf = [a \in Accounts |-> DatabaseOf[a]]
  /\ MaxRequests \in Nat
  /\ MaxFaults \in Nat

VARIABLES
  server,     \* what the process of an account does
  signalled,  \* accounts whose process was sent a SIGTERM that it catches
  requests,   \* number of handlers that run in a process
  wal,        \* databases whose write-ahead log holds writes
  cut,        \* observer: accounts that lost a running request
  excused,    \* observer: accounts whose shutdown was not an orderly one
  faults

serverVars == <<server, signalled, requests, wal, cut, excused, faults>>

Gone == {"none", "stopped", "failed"}
Unprepared == {"forked", "opening"}              \* before signal.Notify
Stopping == {"draining", "checkpointing", "closing", "closed"}
States == Gone \cup Unprepared \cup Stopping \cup {"listening", "serving"}

ServerTypeOK ==
  /\ server \in [Accounts -> States]
  /\ signalled \subseteq Accounts
  /\ requests \in [Accounts -> 0 .. MaxRequests]
  /\ wal \subseteq Databases
  /\ cut \subseteq Accounts
  /\ excused \subseteq Accounts
  /\ faults \in 0 .. MaxFaults

ServerInit ==
  /\ server = [a \in Accounts |-> "none"]
  /\ signalled = {}
  /\ requests = [a \in Accounts |-> 0]
  /\ wal = {}
  /\ cut = {}
  /\ excused = {}
  /\ faults = 0

Running(a) == server[a] \notin Gone

Becomes(a, s) == server' = [server EXCEPT ![a] = s]

\* Something goes wrong outside the code.
Fault ==
  /\ faults < MaxFaults
  /\ faults' = faults + 1

\* The processes of A are over; the operating system ends their handlers.
End(A, s) ==
  /\ server' = [a \in Accounts |-> IF a \in A THEN s ELSE server[a]]
  /\ cut' = cut \cup {a \in A : requests[a] > 0}
  /\ requests' = [a \in Accounts |-> IF a \in A THEN 0 ELSE requests[a]]
  /\ signalled' = signalled \ A

(* Starting ----------------------------------------------------------------*)

\* The forked shell has set the environment and becomes sync-lite.
Exec(a) ==
  /\ server[a] = "forked"
  /\ Becomes(a, "opening")
  /\ UNCHANGED <<signalled, requests, wal, cut, excused, faults>>

\* NewSQLiteStore: the schema is there and the log is in the database file.
OpenDatabase(a) ==
  /\ server[a] = "opening"
  /\ Becomes(a, "listening")
  /\ wal' = wal \ {DatabaseOf[a]}
  /\ UNCHANGED <<signalled, requests, cut, excused, faults>>

\* ListenAndServe has its port.
Listen(a) ==
  /\ server[a] = "listening"
  /\ Becomes(a, "serving")
  /\ UNCHANGED <<signalled, requests, wal, cut, excused, faults>>

\* A certificate that is not there, a database that cannot be opened, a port that is
\* taken, a listener that breaks: the process exits at once.
Fails(a) ==
  /\ server[a] \in Unprepared \cup {"listening", "serving"}
  /\ Fault
  /\ End({a}, "failed")
  /\ excused' = excused \cup {a}
  /\ UNCHANGED wal

(* Serving -----------------------------------------------------------------*)

\* A connection brings a request; one that is open already may bring it while Shutdown
\* waits for the active connections.
Accept(a) ==
  /\ server[a] \in {"serving", "draining"}
  /\ requests[a] < MaxRequests
  /\ requests' = [requests EXCEPT ![a] = @ + 1]
  /\ UNCHANGED <<server, signalled, wal, cut, excused, faults>>

\* A handler writes; after db.Close its calls fail.
Write(a) ==
  /\ requests[a] > 0
  /\ server[a] # "closed"
  /\ wal' = wal \cup {DatabaseOf[a]}
  /\ UNCHANGED <<server, signalled, requests, cut, excused, faults>>

Answer(a) ==
  /\ requests[a] > 0
  /\ requests' = [requests EXCEPT ![a] = @ - 1]
  /\ UNCHANGED <<server, signalled, wal, cut, excused, faults>>

(* Stopping ----------------------------------------------------------------*)

\* The signals of kill -TERM to the processes of A arrive.
Signal(A) ==
  LET defenceless == {a \in A : server[a] \in Unprepared} IN
  /\ server' = [a \in Accounts |-> IF a \in defenceless THEN "failed" ELSE server[a]]
  /\ signalled' = signalled \cup {a \in A : Running(a) /\ a \notin defenceless}
  /\ UNCHANGED <<requests, wal, cut, excused, faults>>

\* Shutdown closes the listener, before or after ListenAndServe has opened it.
StopListening(a) ==
  /\ server[a] \in {"listening", "serving"}
  /\ a \in signalled
  /\ Becomes(a, "draining")
  /\ UNCHANGED <<signalled, requests, wal, cut, excused, faults>>

\* Mutant: connections are closed, as by http.Server.Close.
NotWaiting(a) == TRUE

\* Shutdown returns when no connection is active.
Drained(a) == requests[a] = 0

Drain(a) ==
  /\ server[a] = "draining"
  /\ Becomes(a, "checkpointing")
  /\ \/ /\ Drained(a)
        /\ UNCHANGED <<excused, faults>>
     \/ /\ ~Drained(a)        \* ten seconds
        /\ excused' = excused \cup {a}
        /\ UNCHANGED faults
  /\ UNCHANGED <<signalled, requests, wal, cut>>

\* An error, or five seconds without the lock, is logged.
Checkpoint(a) ==
  /\ server[a] = "checkpointing"
  /\ Becomes(a, "closing")
  /\ \/ /\ wal' = wal \ {DatabaseOf[a]}
        /\ UNCHANGED <<excused, faults>>
     \/ /\ Fault
        /\ excused' = excused \cup {a}
        /\ UNCHANGED wal
  /\ UNCHANGED <<signalled, requests, cut>>

CloseDatabase(a) ==
  /\ server[a] = "closing"
  /\ Becomes(a, "closed")
  /\ UNCHANGED <<signalled, requests, wal, cut, excused, faults>>

\* Mutant: main returns when ListenAndServe does.
ListenerClosed(a) == server[a] \in Stopping

\* main waits for the goroutine that stops the server.
ShutdownDone(a) == server[a] = "closed"

Exit(a) ==
  /\ ShutdownDone(a)
  /\ End({a}, "stopped")
  /\ UNCHANGED <<wal, excused, faults>>

(* The process -------------------------------------------------------------*)

\* What the process does without waiting for anybody; a drain waits ten seconds at most.
Proceed(a) ==
  \/ Exec(a) \/ OpenDatabase(a) \/ Listen(a) \/ StopListening(a)
  \/ Drain(a) \/ Checkpoint(a) \/ CloseDatabase(a) \/ Exit(a)

ServerStep(a) == Proceed(a) \/ Fails(a) \/ Accept(a) \/ Write(a) \/ Answer(a)
=============================================================================
