----------------------------- MODULE Supervisor -----------------------------
(***************************************************************************)
(* The add-on's container: run.sh starts a server for every enabled        *)
(* account, waits for the first one to exit and stops the others; on       *)
(* SIGTERM its trap stops all.  Home Assistant stops, kills and restarts it. *)
(***************************************************************************)
EXTENDS AccountServer, FiniteSets

CONSTANTS
  Enabled,    \* the accounts with enabled = true and a port
  EarlyTerm,  \* whether the add-on may be stopped while it starts its servers
  ErrExit,    \* whether bashio, which interprets run.sh, may have set errexit
  MaxTerms,   \* bound: SIGTERMs
  MaxKills,   \* bound: SIGKILLs
  MaxStarts   \* bound: starts of the container

ASSUME SupervisorAssumption ==
  /\ Enabled \subseteq Accounts
  /\ EarlyTerm \in BOOLEAN
  /\ ErrExit \in BOOLEAN
  /\ MaxTerms \in Nat
  /\ MaxKills \in Nat
  /\ MaxStarts \in Nat \ {0}

VARIABLES
  pc,         \* the command run.sh is at
  next,       \* the start loop's index
  childPids,  \* CHILD_PIDS
  reaped,     \* children whose exit a wait has returned
  todo,       \* children that terminate_children has still to signal
  resume,     \* where the trap goes on; NoTrap outside of it
  pending,    \* a SIGTERM that the shell has received and not yet handled
  announced,  \* observer: "All account servers stopped." was logged
  terms, kills, starts

shellVars == <<pc, next, childPids, reaped, todo, resume, pending, announced>>
budgetVars == <<terms, kills, starts>>
vars == <<serverVars, shellVars, budgetVars>>

Commands == {"start", "record", "wait", "signal", "join", "exit", "down"}
NoTrap == "none"

\* Children of the shell are the processes of this start of the container.
Children == {a \in Accounts : server[a] # "none"}

TypeOK ==
  /\ ServerTypeOK
  /\ pc \in Commands
  /\ next \in 1 .. N + 1
  /\ childPids \subseteq Accounts
  /\ reaped \subseteq Accounts
  /\ todo \subseteq childPids
  /\ resume \in Commands \cup {NoTrap}
  /\ pending \in BOOLEAN
  /\ announced \in BOOLEAN
  /\ terms \in 0 .. MaxTerms
  /\ kills \in 0 .. MaxKills
  /\ starts \in 1 .. MaxStarts

ShellInit ==
  /\ pc = "start"
  /\ next = 1
  /\ childPids = {}
  /\ reaped = {}
  /\ todo = {}
  /\ resume = NoTrap
  /\ pending = FALSE
  /\ announced = FALSE

Init == ServerInit /\ ShellInit /\ terms = 0 /\ kills = 0 /\ starts = 1

(* The start loop ----------------------------------------------------------*)

\* Mutant: the loop runs once too often.
OneMoreAccount == next <= N + 1

MoreAccounts == next <= N

\* start_account up to the fork; an account that is not enabled is skipped.
StartAccount ==
  /\ pc = "start"
  /\ MoreAccounts
  /\ \/ /\ next \in Enabled
        /\ Becomes(next, "forked")
        /\ pc' = "record"
        /\ UNCHANGED next
     \/ /\ next \notin Enabled
        /\ next' = next + 1
        /\ UNCHANGED <<server, pc>>
  /\ UNCHANGED <<signalled, requests, wal, cut, excused, faults,
                 childPids, reaped, todo, resume, pending, announced, budgetVars>>

\* CHILD_PIDS+=("$!")
RecordPid ==
  /\ pc = "record"
  /\ childPids' = childPids \cup {next}
  /\ next' = next + 1
  /\ pc' = "start"
  /\ UNCHANGED <<serverVars, reaped, todo, resume, pending, announced, budgetVars>>

\* Without a child there is nothing to wait for.
StartedAll ==
  /\ pc = "start"
  /\ ~MoreAccounts
  /\ pc' = IF childPids = {} THEN "exit" ELSE "wait"
  /\ UNCHANGED <<serverVars, next, childPids, reaped, todo, resume, pending, announced,
                 budgetVars>>

(* Waiting and stopping ----------------------------------------------------*)

Exited(a) == a \in Children /\ ~Running(a)

\* Mutant: wait without -n.
AllExited == \A a \in Children : Exited(a)

\* wait -n returns: a child has exited that no wait has returned, or none is left.
OneExited == Children \subseteq reaped \/ \E a \in Children \ reaped : Exited(a)

\* Mutant: "${CHILD_PIDS}" is the first element.
FirstPid == {a \in childPids : \A b \in childPids : a <= b}

\* "${CHILD_PIDS[@]}"
AllPids == childPids

TerminateChildren ==
  /\ pc' = "signal"
  /\ todo' = AllPids

WaitAny ==
  /\ pc = "wait"
  /\ OneExited
  /\ TerminateChildren
  /\ reaped' = reaped \cup {a \in Children : Exited(a)}
  /\ UNCHANGED <<serverVars, next, childPids, resume, pending, announced, budgetVars>>

\* With errexit the status of a failed child that wait -n returns ends the script, and
\* the other servers with the container.
EndOnError ==
  /\ ErrExit
  /\ pc = "wait"
  /\ OneExited
  /\ \E a \in Children \ reaped : server[a] = "failed"
  /\ pc' = "exit"
  /\ excused' = excused \cup {a \in Accounts : Running(a)}
  /\ UNCHANGED <<server, signalled, requests, wal, cut, faults, next, childPids, reaped,
                 todo, resume, pending, announced, budgetVars>>

\* The kill loop; a process that has exited takes no signal.
Kill ==
  /\ pc = "signal"
  /\ \/ /\ todo = {}
        /\ pc' = "join"
        /\ UNCHANGED <<serverVars, todo>>
     \/ \E a \in todo :
          /\ Signal({a})
          /\ todo' = todo \ {a}
          /\ UNCHANGED pc
  /\ UNCHANGED <<next, childPids, reaped, resume, pending, announced, budgetVars>>

\* wait without arguments waits for every child, recorded or not.
AllJoined == \A a \in Children : Exited(a)

\* terminate_children returns, into exit or to where the trap was taken.
Join ==
  /\ pc = "join"
  /\ AllJoined
  /\ reaped' = Children
  /\ announced' = TRUE
  /\ pc' = IF resume = NoTrap THEN "exit" ELSE resume
  /\ resume' = NoTrap
  /\ UNCHANGED <<serverVars, next, childPids, todo, pending, budgetVars>>

\* The trap is taken between two commands, or in a wait, which returns after it with
\* the status of the signal.
Trap ==
  /\ pending
  /\ pc \in {"start", "record", "wait", "signal", "join"}
  /\ resume = NoTrap
  /\ pending' = FALSE
  /\ resume' \in CASE pc = "wait" -> IF ErrExit THEN {"signal", "exit"} ELSE {"signal"}
                   [] pc = "join" -> {"exit"}
                   [] OTHER -> {pc}
  /\ TerminateChildren
  /\ UNCHANGED <<serverVars, next, childPids, reaped, announced, budgetVars>>

\* The container ends with its first process.
ExitShell ==
  /\ pc = "exit"
  /\ pc' = "down"
  /\ End({a \in Accounts : Running(a)}, "failed")
  /\ UNCHANGED <<wal, excused, faults>>
  /\ UNCHANGED <<next, childPids, reaped, todo, resume, pending, announced, budgetVars>>

ShellStep ==
  \/ StartAccount \/ RecordPid \/ StartedAll
  \/ WaitAny \/ EndOnError \/ Kill \/ Join \/ Trap \/ ExitShell

(* Home Assistant ----------------------------------------------------------*)

\* The add-on is stopped.
Stop ==
  /\ pc # "down"
  /\ EarlyTerm \/ pc \notin {"start", "record"}
  /\ terms < MaxTerms
  /\ terms' = terms + 1
  /\ pending' = TRUE
  /\ UNCHANGED <<serverVars, pc, next, childPids, reaped, todo, resume, announced, kills,
                 starts>>

\* The add-on takes too long to stop, or the host loses power.
KillAll ==
  /\ pc # "down"
  /\ kills < MaxKills
  /\ kills' = kills + 1
  /\ pc' = "down"
  /\ End({a \in Accounts : Running(a)}, "failed")
  /\ excused' = Accounts
  /\ UNCHANGED <<wal, faults, next, childPids, reaped, todo, resume, pending, announced,
                 terms, starts>>

Restart ==
  /\ pc = "down"
  /\ starts < MaxStarts
  /\ starts' = starts + 1
  /\ server' = [a \in Accounts |-> "none"]
  /\ cut' = {}
  /\ excused' = {}
  /\ pc' = "start"
  /\ next' = 1
  /\ childPids' = {}
  /\ reaped' = {}
  /\ todo' = {}
  /\ resume' = NoTrap
  /\ pending' = FALSE
  /\ announced' = FALSE
  /\ UNCHANGED <<signalled, requests, wal, faults, terms, kills>>

Host == Stop \/ KillAll \/ Restart

Next ==
  \/ ShellStep
  \/ \E a \in Accounts :
       /\ ServerStep(a)
       /\ UNCHANGED <<shellVars, budgetVars>>
  \/ Host

Spec == Init /\ [][Next]_vars

\* Processes run; opening a database waits five seconds for a lock at most.  Nothing
\* is assumed of the handlers.
Fairness ==
  /\ WF_vars(ShellStep)
  /\ \A a \in Accounts :
       WF_vars(Proceed(a) /\ UNCHANGED <<shellVars, budgetVars>>)

FairSpec == Spec /\ Fairness

(* Properties --------------------------------------------------------------*)

\* A running request is cut only where something failed, a drain took ten seconds, the
\* container was killed or errexit ended the script: the shell's waits and
\* main's wait for its shutdown goroutine leave no other way.
OnlyForceCutsRequests == cut \subseteq excused

\* A server that stopped in an orderly way leaves nothing in the write-ahead log:
\* the checkpoint comes after the last handler's last write.
StoppedIsCheckpointed ==
  \A a \in Accounts :
    server[a] = "stopped" /\ a \notin excused => DatabaseOf[a] \notin wal

\* When the log of terminate_children (run.sh:21) says that all account servers have
\* stopped, they have, and none is started afterwards: violated if EarlyTerm, as the
\* trap does not leave the start loop.
StoppedMeansStopped == announced => \A a \in Accounts : ~Running(a)

\* The script exits when it has shut down the rest (run.sh:108).
RestIsShutDown == pc = "exit" => \A a \in Accounts : ~Running(a)

\* Every enabled account has a database file of its own.
OwnDatabase ==
  \A a, b \in Accounts :
    Running(a) /\ Running(b) /\ DatabaseOf[a] = DatabaseOf[b] => a = b

\* If one server goes down, the container does.
OneDownAllDown == (\E a \in Accounts : Exited(a)) ~> pc = "down"

\* A container that is stopped once it waits for its servers goes down.
StopsOnTerm == (pending /\ pc = "wait") ~> pc = "down"
=============================================================================
