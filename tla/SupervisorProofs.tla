--------------------------- MODULE SupervisorProofs ---------------------------
(***************************************************************************)
(* The add-on's container: types and orderly shutdown, for any number of   *)
(* accounts and requests.                                                  *)
(***************************************************************************)
EXTENDS Supervisor, TLAPS

(* Processes ---------------------------------------------------------------*)

\* What a server's step leaves alone.
LEMMA ServerFrame ==
  ASSUME NEW a \in Accounts, ServerStep(a), ServerTypeOK
  PROVE  /\ \A b \in Accounts : b # a => server'[b] = server[b] /\ requests'[b] = requests[b]
         /\ excused \subseteq excused'
         /\ \A b \in Accounts : b # a => (b \in excused' <=> b \in excused)
<1> USE DEF ServerTypeOK, Becomes, Fault, End
<1>1. CASE Exec(a)
  BY <1>1 DEF Exec
<1>2. CASE OpenDatabase(a)
  BY <1>2 DEF OpenDatabase
<1>3. CASE Listen(a)
  BY <1>3 DEF Listen
<1>4. CASE StopListening(a)
  BY <1>4 DEF StopListening
<1>5. CASE Drain(a)
  BY <1>5 DEF Drain
<1>6. CASE Checkpoint(a)
  BY <1>6 DEF Checkpoint
<1>7. CASE CloseDatabase(a)
  BY <1>7 DEF CloseDatabase
<1>8. CASE Exit(a)
  BY <1>8 DEF Exit
<1>9. CASE Fails(a)
  BY <1>9 DEF Fails
<1>10. CASE Accept(a)
  BY <1>10 DEF Accept
<1>11. CASE Write(a)
  BY <1>11 DEF Write
<1>12. CASE Answer(a)
  BY <1>12 DEF Answer
<1> QED
  BY <1>1, <1>2, <1>3, <1>4, <1>5, <1>6, <1>7, <1>8, <1>9, <1>10, <1>11, <1>12
     DEF ServerStep, Proceed

\* A process that is over, or was never started, stays so.
LEMMA NotRevived ==
  ASSUME NEW a \in Accounts, ServerStep(a), ServerTypeOK,
         NEW b \in Accounts, server[b] \in Gone
  PROVE  server'[b] = server[b]
<1> USE DEF ServerTypeOK, Becomes, End, Gone, Unprepared, Stopping
<1>1. CASE b # a
  BY <1>1, ServerFrame
<1>2. CASE b = a
  <2>1. CASE Exec(a)
    BY <1>2, <2>1 DEF Exec
  <2>2. CASE OpenDatabase(a)
    BY <1>2, <2>2 DEF OpenDatabase
  <2>3. CASE Listen(a)
    BY <1>2, <2>3 DEF Listen
  <2>4. CASE StopListening(a)
    BY <1>2, <2>4 DEF StopListening
  <2>5. CASE Drain(a)
    BY <1>2, <2>5 DEF Drain
  <2>6. CASE Checkpoint(a)
    BY <1>2, <2>6 DEF Checkpoint
  <2>7. CASE CloseDatabase(a)
    BY <1>2, <2>7 DEF CloseDatabase
  <2>8. CASE Exit(a)
    BY <1>2, <2>8 DEF Exit, ShutdownDone
  <2>9. CASE Fails(a)
    BY <1>2, <2>9 DEF Fails
  <2>10. CASE Accept(a)
    BY <1>2, <2>10 DEF Accept
  <2>11. CASE Write(a)
    BY <1>2, <2>11 DEF Write
  <2>12. CASE Answer(a)
    BY <1>2, <2>12 DEF Answer
  <2> QED
    BY <2>1, <2>2, <2>3, <2>4, <2>5, <2>6, <2>7, <2>8, <2>9, <2>10, <2>11, <2>12
       DEF ServerStep, Proceed
<1> QED
  BY <1>1, <1>2

(* Types -------------------------------------------------------------------*)

\* A server's step keeps the types.
LEMMA ServerTypes ==
  ASSUME NEW a \in Accounts, ServerStep(a), ServerTypeOK
  PROVE  ServerTypeOK'
<1> USE AccountAssumption DEF ServerTypeOK, Becomes, Fault, End, States, Gone, Unprepared,
                              Stopping, Databases
<1>1. CASE Exec(a)
  BY <1>1 DEF Exec
<1>2. CASE OpenDatabase(a)
  BY <1>2 DEF OpenDatabase
<1>3. CASE Listen(a)
  BY <1>3 DEF Listen
<1>4. CASE StopListening(a)
  BY <1>4 DEF StopListening
<1>5. CASE Drain(a)
  BY <1>5 DEF Drain
<1>6. CASE Checkpoint(a)
  BY <1>6 DEF Checkpoint
<1>7. CASE CloseDatabase(a)
  BY <1>7 DEF CloseDatabase
<1>8. CASE Exit(a)
  BY <1>8 DEF Exit
<1>9. CASE Fails(a)
  BY <1>9 DEF Fails
<1>10. CASE Accept(a)
  BY <1>10 DEF Accept
<1>11. CASE Write(a)
  BY <1>11 DEF Write
<1>12. CASE Answer(a)
  BY <1>12 DEF Answer
<1> QED
  BY <1>1, <1>2, <1>3, <1>4, <1>5, <1>6, <1>7, <1>8, <1>9, <1>10, <1>11, <1>12
     DEF ServerStep, Proceed

\* So do the signals of the shell.
LEMMA SignalTypes ==
  ASSUME NEW A \in SUBSET Accounts, Signal(A), ServerTypeOK
  PROVE  ServerTypeOK'
<1>1. server' \in [Accounts -> States]
  BY DEF Signal, ServerTypeOK, States, Gone
<1>2. signalled' \subseteq Accounts
  BY DEF Signal, ServerTypeOK
<1> QED
  BY <1>1, <1>2 DEF Signal, ServerTypeOK

\* Where the trap may be taken, and which account is being started.
ShellOK ==
  /\ "record" \in {pc, resume} => next \in Accounts
  /\ resume # NoTrap => pc \in {"signal", "join", "down"}
  /\ resume \in {"start", "record", "signal", "exit", NoTrap}

TypeInv == TypeOK /\ ShellOK

\* The container starts with the types right.
LEMMA TypeInit == Init => TypeInv
<1> SUFFICES ASSUME Init PROVE TypeInv
  OBVIOUS
<1> USE AccountAssumption, SupervisorAssumption
<1>1. ServerTypeOK
  BY DEF Init, ServerInit, ServerTypeOK, States, Gone
<1>2. TypeOK
  <2>1. next \in 1 .. N + 1 /\ terms \in 0 .. MaxTerms /\ kills \in 0 .. MaxKills
        /\ starts \in 1 .. MaxStarts
    BY DEF Init, ShellInit
  <2> QED
    BY <1>1, <2>1 DEF Init, ShellInit, TypeOK, Commands
<1>3. ShellOK
  BY DEF Init, ShellInit, ShellOK, NoTrap
<1> QED
  BY <1>2, <1>3 DEF TypeInv

\* Every step keeps them right.
LEMMA TypeStep ==
  ASSUME TypeInv, [Next]_vars
  PROVE  TypeInv'
<1> USE AccountAssumption, SupervisorAssumption
<1>0. TypeOK /\ ServerTypeOK /\ ShellOK
  BY DEF TypeInv, TypeOK
<1>1. CASE StartAccount
  <2>1. ServerTypeOK'
    BY <1>0, <1>1 DEF StartAccount, Becomes, ServerTypeOK, States, Unprepared
  <2>2. ShellOK'
    BY <1>0, <1>1 DEF StartAccount, MoreAccounts, ShellOK, Accounts, NoTrap, TypeOK
  <2> QED
    BY <1>0, <1>1, <2>1, <2>2
       DEF StartAccount, MoreAccounts, TypeInv, TypeOK, Commands, budgetVars, Accounts
<1>2. CASE RecordPid
  <2>1. ServerTypeOK'
    BY <1>0, <1>2 DEF RecordPid, serverVars, ServerTypeOK
  <2>2. next \in Accounts
    BY <1>0, <1>2 DEF RecordPid, ShellOK
  <2> QED
    BY <1>0, <1>2, <2>1, <2>2, SMTT(20)
       DEF RecordPid, TypeInv, TypeOK, ShellOK, Commands, budgetVars, Accounts, NoTrap
<1>3. CASE StartedAll
  <2>1. ServerTypeOK'
    BY <1>0, <1>3 DEF StartedAll, serverVars, ServerTypeOK
  <2> QED
    BY <1>0, <1>3, <2>1
       DEF StartedAll, TypeInv, TypeOK, ShellOK, Commands, budgetVars, NoTrap
<1>4. CASE WaitAny
  <2>1. ServerTypeOK'
    BY <1>0, <1>4 DEF WaitAny, serverVars, ServerTypeOK
  <2> QED
    BY <1>0, <1>4, <2>1
       DEF WaitAny, TerminateChildren, AllPids, Children, TypeInv, TypeOK, ShellOK, Commands,
           budgetVars, NoTrap
<1>14. CASE EndOnError
  <2>1. ServerTypeOK'
    BY <1>0, <1>14 DEF EndOnError, ServerTypeOK
  <2> QED
    BY <1>0, <1>14, <2>1
       DEF EndOnError, TypeInv, TypeOK, ShellOK, Commands, budgetVars, NoTrap
<1>5. CASE Kill
  <2>1. ServerTypeOK'
    <3>1. CASE UNCHANGED serverVars
      BY <1>0, <3>1 DEF serverVars, ServerTypeOK
    <3>2. ASSUME NEW a \in todo, Signal({a}) PROVE ServerTypeOK'
      BY <1>0, <3>2, SignalTypes DEF TypeOK
    <3> QED
      BY <1>5, <3>1, <3>2 DEF Kill
  <2> QED
    BY <1>0, <1>5, <2>1 DEF Kill, TypeInv, TypeOK, ShellOK, Commands, budgetVars, NoTrap
<1>6. CASE Join
  <2>1. ServerTypeOK'
    BY <1>0, <1>6 DEF Join, serverVars, ServerTypeOK
  <2> QED
    BY <1>0, <1>6, <2>1
       DEF Join, Children, TypeInv, TypeOK, ShellOK, Commands, budgetVars, NoTrap
<1>7. CASE Trap
  <2>1. ServerTypeOK'
    BY <1>0, <1>7 DEF Trap, serverVars, ServerTypeOK
  <2>2. resume' \in {"start", "record", "signal", "exit"}
    BY <1>0, <1>7 DEF Trap
  <2>3. resume' = "record" => pc = "record"
    BY <1>0, <1>7 DEF Trap
  <2> QED
    BY <1>0, <1>7, <2>1, <2>2, <2>3
       DEF Trap, TerminateChildren, AllPids, TypeInv, TypeOK, ShellOK, Commands, budgetVars,
           NoTrap
<1>8. CASE ExitShell
  <2>1. ServerTypeOK'
    BY <1>0, <1>8 DEF ExitShell, End, ServerTypeOK, States, Gone
  <2> QED
    BY <1>0, <1>8, <2>1 DEF ExitShell, TypeInv, TypeOK, ShellOK, Commands, budgetVars, NoTrap
<1>9. ASSUME NEW a \in Accounts, ServerStep(a), UNCHANGED <<shellVars, budgetVars>>
      PROVE  TypeInv'
  <2>1. ServerTypeOK'
    BY <1>0, <1>9, ServerTypes
  <2> QED
    BY <1>0, <1>9, <2>1 DEF TypeInv, TypeOK, ShellOK, shellVars, budgetVars
<1>10. CASE Stop
  <2>1. ServerTypeOK'
    BY <1>0, <1>10 DEF Stop, serverVars, ServerTypeOK
  <2> QED
    <3>1. terms' \in 0 .. MaxTerms
      BY <1>0, <1>10 DEF Stop, TypeOK
    <3> QED
      BY <1>0, <1>10, <2>1, <3>1 DEF Stop, TypeInv, TypeOK, ShellOK
<1>11. CASE KillAll
  <2>1. ServerTypeOK'
    BY <1>0, <1>11 DEF KillAll, End, ServerTypeOK, States, Gone
  <2> QED
    <3>1. kills' \in 0 .. MaxKills
      BY <1>0, <1>11 DEF KillAll, TypeOK
    <3>2. ShellOK'
      BY <1>0, <1>11 DEF KillAll, ShellOK
    <3> QED
      BY <1>0, <1>11, <2>1, <3>1, <3>2 DEF KillAll, TypeInv, TypeOK, Commands
<1>12. CASE Restart
  <2>1. ServerTypeOK'
    BY <1>0, <1>12 DEF Restart, ServerTypeOK, States, Gone
  <2> QED
    <3>1. next' \in 1 .. N + 1 /\ starts' \in 1 .. MaxStarts
      BY <1>0, <1>12 DEF Restart, TypeOK
    <3>2. ShellOK'
      BY <1>12 DEF Restart, ShellOK, NoTrap
    <3> QED
      BY <1>0, <1>12, <2>1, <3>1, <3>2 DEF Restart, TypeInv, TypeOK, Commands
<1>13. CASE UNCHANGED vars
  BY <1>0, <1>13 DEF vars, serverVars, shellVars, budgetVars, TypeInv, TypeOK, ServerTypeOK,
                     ShellOK
<1> QED
  BY <1>1, <1>2, <1>3, <1>4, <1>5, <1>6, <1>7, <1>8, <1>9, <1>10, <1>11, <1>12, <1>13,
     <1>14
     DEF Next, ShellStep, Host

\* run.sh and main.go: every variable of the container keeps its type, however starts,
\* signals, failures and kills interleave.
THEOREM SupervisorTypeCorrect == Spec => []TypeOK
<1>1. TypeInv => TypeOK
  BY DEF TypeInv
<1> QED
  BY <1>1, TypeInit, TypeStep, PTL DEF Spec

(* Requests ----------------------------------------------------------------*)

\* A process runs a handler only from the time it serves until it is over, and none
\* after its drain if that did not run out of time.
HandlersOK ==
  /\ \A a \in Accounts :
       server[a] \in Gone \cup Unprepared \cup {"listening"} => requests[a] = 0
  /\ \A a \in Accounts :
       server[a] \in {"checkpointing", "closing", "closed"} /\ a \notin excused =>
         requests[a] = 0
  /\ OnlyForceCutsRequests

\* A server's step keeps it that way.
LEMMA ServerHandlers ==
  ASSUME NEW a \in Accounts, ServerStep(a), ServerTypeOK, HandlersOK
  PROVE  HandlersOK'
<1> USE DEF ServerTypeOK, HandlersOK, OnlyForceCutsRequests, Becomes, Fault, Gone, Unprepared
<1>0. /\ \A b \in Accounts : b # a => server'[b] = server[b] /\ requests'[b] = requests[b]
      /\ excused \subseteq excused'
      /\ \A b \in Accounts : b # a => (b \in excused' <=> b \in excused)
  BY ServerFrame
<1>1. CASE Exec(a)
  BY <1>0, <1>1 DEF Exec
<1>2. CASE OpenDatabase(a)
  BY <1>0, <1>2 DEF OpenDatabase
<1>3. CASE Listen(a)
  BY <1>0, <1>3 DEF Listen
<1>4. CASE StopListening(a)
  BY <1>0, <1>4 DEF StopListening
<1>5. CASE Drain(a)
  BY <1>0, <1>5 DEF Drain, Drained
<1>6. CASE Checkpoint(a)
  BY <1>0, <1>6 DEF Checkpoint
<1>7. CASE CloseDatabase(a)
  BY <1>0, <1>7 DEF CloseDatabase
<1>8. CASE Exit(a)
  <2>1. server'[a] = "stopped" /\ requests'[a] = 0
    BY <1>8 DEF Exit, End
  <2>2. cut' \subseteq excused'
    <3>1. server[a] = "closed" /\ excused' = excused
      BY <1>8 DEF Exit, ShutdownDone
    <3>2. cut' = cut \cup {b \in {a} : requests[b] > 0}
      BY <1>8 DEF Exit, End
    <3>3. requests[a] > 0 => a \in excused
      BY <3>1
    <3> QED
      BY <3>1, <3>2, <3>3
  <2> QED
    BY <1>0, <2>1, <2>2
<1>9. CASE Fails(a)
  <2>1. server'[a] = "failed" /\ requests'[a] = 0
    BY <1>9 DEF Fails, End
  <2>2. cut' \subseteq excused'
    BY <1>9 DEF Fails, End
  <2> QED
    BY <1>0, <2>1, <2>2
<1>10. CASE Accept(a)
  <2>1. server[a] \in {"serving", "draining"} /\ server' = server /\ cut' = cut
    BY <1>10 DEF Accept
  <2> QED
    BY <1>0, <2>1
<1>11. CASE Write(a)
  BY <1>0, <1>11 DEF Write
<1>12. CASE Answer(a)
  <2>1. requests'[a] = requests[a] - 1 /\ requests[a] > 0 /\ server' = server /\ cut' = cut
        /\ excused' = excused
    BY <1>12 DEF Answer
  <2>2. requests[a] \in Nat
    BY AccountAssumption
  <2> QED
    BY <1>0, <2>1, <2>2
<1> QED
  BY <1>1, <1>2, <1>3, <1>4, <1>5, <1>6, <1>7, <1>8, <1>9, <1>10, <1>11, <1>12
     DEF ServerStep, Proceed

\* The start loop goes through the accounts once; until the container is down, what
\* runs has its pid recorded or is the child just forked, and when the shell is
\* through, nothing runs but what errexit left running.
RecordedOK ==
  /\ pc # "down" =>
       \A a \in Accounts :
         a > next \/ (a = next /\ "record" \notin {pc, resume}) => server[a] = "none"
  /\ \A a \in Accounts :
       Running(a) => a \in childPids \/ (a = next /\ "record" \in {pc, resume})
  /\ pc = "exit" => \A a \in Accounts : Running(a) => a \in excused
  /\ pc = "down" => \A a \in Accounts : ~Running(a)

StopInv == TypeInv /\ HandlersOK /\ RecordedOK

\* It is so when the container is started.
LEMMA StopInit == Init => StopInv
<1> SUFFICES ASSUME Init PROVE StopInv
  OBVIOUS
<1>1. TypeInv
  BY TypeInit
<1>2. HandlersOK
  BY DEF Init, ServerInit, HandlersOK, OnlyForceCutsRequests
<1>3. RecordedOK
  BY DEF Init, ServerInit, ShellInit, RecordedOK, Running, Gone, NoTrap
<1> QED
  BY <1>1, <1>2, <1>3 DEF StopInv

\* Every step keeps it.
LEMMA StopStep ==
  ASSUME StopInv, [Next]_vars
  PROVE  StopInv'
<1> USE DEF HandlersOK, RecordedOK, OnlyForceCutsRequests
<1>0. TypeOK /\ ServerTypeOK /\ ShellOK /\ HandlersOK /\ RecordedOK /\ N \in Nat
  BY AccountAssumption DEF StopInv, TypeInv, TypeOK
<1>t. TypeInv'
  BY TypeStep DEF StopInv
<1>u. ASSUME UNCHANGED serverVars PROVE HandlersOK'
  BY <1>0, <1>u DEF serverVars
<1>s. SUFFICES HandlersOK' /\ RecordedOK'
  BY <1>t DEF StopInv
<1>1. CASE StartAccount
  <2>1. pc = "start" /\ resume = NoTrap /\ next \in Accounts /\ resume' = resume
        /\ childPids' = childPids /\ requests' = requests /\ excused' = excused /\ cut' = cut
    BY <1>0, <1>1 DEF StartAccount, ShellOK, TypeOK, MoreAccounts, Accounts
  <2>2. server[next] = "none" /\ requests[next] = 0
    BY <1>0, <2>1 DEF Accounts, NoTrap, Gone
  <2>3. CASE next \in Enabled
    <3>1. server' = [server EXCEPT ![next] = "forked"] /\ pc' = "record" /\ next' = next
      BY <1>1, <2>3 DEF StartAccount, Becomes
    <3> QED
      BY <1>0, <2>1, <2>2, <3>1 DEF ServerTypeOK, Running, Gone, Unprepared, Accounts, NoTrap
  <2>4. CASE next \notin Enabled
    <3>1. server' = server /\ pc' = pc /\ next' = next + 1
      BY <1>1, <2>4 DEF StartAccount
    <3> QED
      BY <1>0, <2>1, <2>2, <3>1 DEF Running, Accounts, NoTrap
  <2> QED
    BY <2>3, <2>4
<1>2. CASE RecordPid
  <2>1. pc = "record" /\ resume = NoTrap /\ next \in Accounts /\ resume' = resume
        /\ childPids' = childPids \cup {next} /\ next' = next + 1 /\ pc' = "start"
        /\ UNCHANGED serverVars
    BY <1>0, <1>2 DEF RecordPid, ShellOK
  <2> QED
    BY <1>0, <1>u, <2>1 DEF serverVars, Running, Accounts, NoTrap
<1>3. CASE StartedAll
  <2>1. pc = "start" /\ resume = NoTrap /\ next = N + 1 /\ resume' = resume
        /\ childPids' = childPids /\ next' = next /\ pc' \in {"exit", "wait"}
        /\ (pc' = "exit" => childPids = {}) /\ UNCHANGED serverVars
    BY <1>0, <1>3 DEF StartedAll, ShellOK, TypeOK, MoreAccounts
  <2> QED
    BY <1>0, <1>u, <2>1 DEF serverVars, Running, Accounts, NoTrap
<1>4. CASE WaitAny
  <2>1. pc = "wait" /\ resume' = resume /\ childPids' = childPids /\ next' = next
        /\ pc' = "signal" /\ UNCHANGED serverVars
    BY <1>0, <1>4 DEF WaitAny, TerminateChildren
  <2> QED
    BY <1>0, <1>u, <2>1 DEF serverVars, Running
<1>14. CASE EndOnError
  <2>1. pc = "wait" /\ pc' = "exit" /\ resume' = resume /\ childPids' = childPids
        /\ next' = next /\ server' = server /\ requests' = requests /\ cut' = cut
        /\ excused' = excused \cup {a \in Accounts : Running(a)}
    BY <1>14 DEF EndOnError
  <2> QED
    BY <1>0, <2>1 DEF Running
<1>5. CASE Kill
  <2>1. pc = "signal" /\ pc' \in {"signal", "join"} /\ resume' = resume
        /\ childPids' = childPids /\ next' = next
    BY <1>0, <1>5 DEF Kill
  <2>2. CASE UNCHANGED serverVars
    BY <1>0, <1>u, <2>1, <2>2 DEF serverVars, Running
  <2>3. ASSUME NEW a \in todo, Signal({a}) PROVE HandlersOK' /\ RecordedOK'
    <3>1. \A b \in Accounts :
            server'[b] = server[b] \/ (server[b] \in Unprepared /\ server'[b] = "failed")
      BY <2>3 DEF Signal
    <3>2. requests' = requests /\ cut' = cut /\ excused' = excused
      BY <2>3 DEF Signal
    <3> QED
      BY <1>0, <2>1, <3>1, <3>2 DEF Running, Gone, Unprepared
  <2> QED
    BY <1>5, <2>2, <2>3 DEF Kill
<1>6. CASE Join
  <2>1. pc = "join" /\ childPids' = childPids /\ next' = next /\ resume' = NoTrap
        /\ pc' = (IF resume = NoTrap THEN "exit" ELSE resume) /\ UNCHANGED serverVars
    BY <1>6 DEF Join
  <2>2. \A a \in Accounts : ~Running(a)
    BY <1>6 DEF Join, AllJoined, Exited, Children, Running, Gone
  <2>3. "record" \in {pc', resume'} <=> "record" \in {pc, resume}
    BY <1>0, <2>1 DEF NoTrap
  <2> QED
    BY <1>0, <1>u, <2>1, <2>2, <2>3 DEF serverVars, Running
<1>7. CASE Trap
  <2>1. childPids' = childPids /\ next' = next /\ resume = NoTrap /\ pc' = "signal"
        /\ pc \in {"start", "record", "wait", "signal", "join"} /\ UNCHANGED serverVars
    BY <1>7 DEF Trap, TerminateChildren
  <2>2. resume' = "record" <=> pc = "record"
    BY <1>7, <2>1 DEF Trap
  <2>3. "record" \in {pc', resume'} <=> "record" \in {pc, resume}
    BY <2>1, <2>2 DEF NoTrap
  <2> QED
    BY <1>0, <1>u, <2>1, <2>3 DEF serverVars, Running
<1>8. CASE ExitShell
  <2>1. pc = "exit" /\ pc' = "down" /\ childPids' = childPids /\ next' = next
        /\ excused' = excused
    BY <1>8 DEF ExitShell
  <2>2. \A a \in Accounts :
          IF Running(a) THEN server'[a] = "failed" /\ requests'[a] = 0
          ELSE server'[a] = server[a] /\ requests'[a] = requests[a]
    BY <1>0, <1>8 DEF ExitShell, End
  <2>3. cut' \subseteq excused'
    BY <1>0, <1>8, <2>1 DEF ExitShell, End
  <2> QED
    BY <1>0, <2>1, <2>2, <2>3 DEF Running, Gone
<1>9. ASSUME NEW a \in Accounts, ServerStep(a), UNCHANGED <<shellVars, budgetVars>>
      PROVE  HandlersOK' /\ RecordedOK'
  <2>1. HandlersOK'
    BY <1>0, <1>9, ServerHandlers
  <2>2. \A b \in Accounts : server[b] \in Gone => server'[b] = server[b]
    BY <1>0, <1>9, NotRevived
  <2>3. excused \subseteq excused'
    BY <1>0, <1>9, ServerFrame
  <2> QED
    BY <1>0, <1>9, <2>1, <2>2, <2>3 DEF shellVars, Running, Gone
<1>10. CASE Stop
  BY <1>0, <1>u, <1>10 DEF Stop, serverVars, Running
<1>11. CASE KillAll
  <2>1. pc' = "down" /\ excused' = Accounts /\ childPids' = childPids /\ next' = next
    BY <1>11 DEF KillAll
  <2>2. \A a \in Accounts : server'[a] \in Gone /\ requests'[a] = 0
    BY <1>0, <1>11 DEF KillAll, End, Running, Gone
  <2>3. cut' \subseteq Accounts
    BY <1>0, <1>11 DEF KillAll, End, ServerTypeOK
  <2> QED
    BY <1>0, <2>1, <2>2, <2>3 DEF Running, Gone
<1>12. CASE Restart
  <2>1. \A a \in Accounts : requests[a] = 0
    BY <1>0, <1>12 DEF Restart, Running
  <2> QED
    BY <1>0, <1>12, <2>1 DEF Restart, Running, Gone, NoTrap
<1>13. CASE UNCHANGED vars
  BY <1>0, <1>u, <1>13 DEF vars, serverVars, shellVars, Running
<1> QED
  BY <1>1, <1>2, <1>3, <1>4, <1>5, <1>6, <1>7, <1>8, <1>9, <1>10, <1>11, <1>12, <1>13,
     <1>14
     DEF Next, ShellStep, Host

\* main.go:65-99 and run.sh: main waits for the drain and the shell for its children, so
\* a request is cut only by a failure, a drain of ten seconds, a kill or errexit.
THEOREM OrderlyStopsCutNothing == Spec => []OnlyForceCutsRequests
<1>1. StopInv => OnlyForceCutsRequests
  BY DEF StopInv, HandlersOK
<1> QED
  BY <1>1, StopInit, StopStep, PTL DEF Spec

\* Without errexit no step of the container leaves a server running at the exit of the
\* script: it exits after a join, or when it has started nothing.
LEMMA RestStep ==
  ASSUME StopInv, RestIsShutDown, [Next]_vars, ~ErrExit
  PROVE  RestIsShutDown'
<1> USE DEF RestIsShutDown
<1>0. ServerTypeOK /\ RecordedOK /\ ShellOK
  BY DEF StopInv, TypeInv, TypeOK
<1>1. CASE StartAccount \/ RecordPid \/ WaitAny \/ Kill \/ Trap \/ ExitShell \/ KillAll \/ Restart
  <2>1. pc' # "exit"
    BY <1>1 DEF StartAccount, RecordPid, WaitAny, Kill, Trap, TerminateChildren, ExitShell,
                KillAll, Restart
  <2> QED
    BY <2>1
<1>2. CASE StartedAll
  BY <1>0, <1>2 DEF StartedAll, RecordedOK, ShellOK, serverVars, Running, NoTrap
<1>3. CASE Join
  <2>1. \A a \in Accounts : ~Running(a)'
    BY <1>3 DEF Join, AllJoined, Exited, Children, Running, Gone, serverVars
  <2> QED
    BY <2>1
<1>4. ASSUME NEW a \in Accounts, ServerStep(a), UNCHANGED <<shellVars, budgetVars>>
      PROVE  RestIsShutDown'
  <2>1. \A b \in Accounts : server[b] \in Gone => server'[b] = server[b]
    BY <1>0, <1>4, NotRevived
  <2> QED
    BY <1>4, <2>1 DEF shellVars, Running
<1>5. CASE Stop
  BY <1>5 DEF Stop, serverVars, Running
<1>6. CASE UNCHANGED vars
  BY <1>6 DEF vars, serverVars, shellVars, Running
<1> QED
  BY <1>1, <1>2, <1>3, <1>4, <1>5, <1>6 DEF Next, ShellStep, EndOnError, Host

\* run.sh:108, "shutting down the rest": without errexit the script exits only when no
\* server runs any more, whenever signals arrive.
THEOREM RestIsShutDownFirst ==
  ASSUME ~ErrExit
  PROVE  Spec => []RestIsShutDown
<1>1. Init => RestIsShutDown
  BY DEF Init, ShellInit, RestIsShutDown
<1>2. StopInv /\ RestIsShutDown /\ [Next]_vars => RestIsShutDown'
  BY RestStep
<1> QED
  BY <1>1, <1>2, StopInit, StopStep, PTL DEF Spec

(* The write-ahead log -----------------------------------------------------*)

\* No two accounts share a database file: the names' slugs differ.
Injective == \A a, b \in Accounts : DatabaseOf[a] = DatabaseOf[b] => a = b

\* From the checkpoint on, the log of an orderly shutdown is empty.
CheckpointOK ==
  \A a \in Accounts :
    server[a] \in {"closing", "closed", "stopped"} /\ a \notin excused =>
      DatabaseOf[a] \notin wal

WalInv == StopInv /\ CheckpointOK

\* No database has a log when the container is started for the first time.
LEMMA WalInit == Init => WalInv
<1>1. Init => CheckpointOK
  BY DEF Init, ServerInit, CheckpointOK
<1> QED
  BY <1>1, StopInit DEF WalInv

\* A server's step keeps the logs of the others, and its own.
LEMMA ServerCheckpoint ==
  ASSUME NEW a \in Accounts, ServerStep(a), ServerTypeOK, HandlersOK, CheckpointOK, Injective
  PROVE  CheckpointOK'
<1> USE DEF ServerTypeOK, CheckpointOK, Becomes, Fault
<1>0. /\ \A b \in Accounts : b # a => server'[b] = server[b]
      /\ \A b \in Accounts : b # a => (b \in excused' <=> b \in excused)
  BY ServerFrame
<1>1. CASE Exec(a)
  BY <1>0, <1>1 DEF Exec
<1>2. CASE OpenDatabase(a)
  BY <1>0, <1>2 DEF OpenDatabase
<1>3. CASE Listen(a)
  BY <1>0, <1>3 DEF Listen
<1>4. CASE StopListening(a)
  BY <1>0, <1>4 DEF StopListening
<1>5. CASE Drain(a)
  BY <1>0, <1>5 DEF Drain
<1>6. CASE Checkpoint(a)
  <2>1. \/ wal' = wal \ {DatabaseOf[a]} /\ excused' = excused
        \/ wal' = wal /\ a \in excused'
    BY <1>6 DEF Checkpoint
  <2> QED
    BY <1>0, <2>1
<1>7. CASE CloseDatabase(a)
  BY <1>0, <1>7 DEF CloseDatabase
<1>8. CASE Exit(a)
  BY <1>0, <1>8 DEF Exit, ShutdownDone
<1>9. CASE Fails(a)
  BY <1>0, <1>9 DEF Fails, End
<1>10. CASE Accept(a)
  BY <1>0, <1>10 DEF Accept
<1>11. CASE Write(a)
  <2>1. server' = server /\ excused' = excused /\ wal' = wal \cup {DatabaseOf[a]}
        /\ requests[a] > 0 /\ server[a] # "closed"
    BY <1>11 DEF Write
  <2>2. server[a] \in {"closing", "stopped"} => a \in excused
    BY <2>1 DEF HandlersOK, Gone
  <2>3. \A b \in Accounts : b # a => DatabaseOf[b] # DatabaseOf[a]
    BY DEF Injective
  <2> QED
    BY <2>1, <2>2, <2>3
<1>12. CASE Answer(a)
  BY <1>0, <1>12 DEF Answer
<1> QED
  BY <1>1, <1>2, <1>3, <1>4, <1>5, <1>6, <1>7, <1>8, <1>9, <1>10, <1>11, <1>12
     DEF ServerStep, Proceed

\* Every step does.
LEMMA WalStep ==
  ASSUME WalInv, [Next]_vars, Injective
  PROVE  WalInv'
<1> USE DEF CheckpointOK
<1>0. ServerTypeOK /\ HandlersOK /\ RecordedOK /\ CheckpointOK
  BY DEF WalInv, StopInv, TypeInv, TypeOK
<1>1. StopInv'
  BY StopStep DEF WalInv
<1>s. SUFFICES CheckpointOK'
  BY <1>1 DEF WalInv
<1>2. CASE UNCHANGED serverVars
  BY <1>0, <1>2 DEF serverVars
<1>3. CASE StartAccount \/ RecordPid \/ StartedAll \/ WaitAny \/ Join \/ Trap \/ Stop
  <2>1. UNCHANGED <<wal, excused>>
    BY <1>3 DEF StartAccount, RecordPid, StartedAll, WaitAny, Join, Trap, Stop, serverVars
  <2>2. \A a \in Accounts : server'[a] = server[a] \/ server'[a] = "forked"
    BY <1>0, <1>3 DEF StartAccount, RecordPid, StartedAll, WaitAny, Join, Trap, Stop,
                      serverVars, Becomes, ServerTypeOK
  <2> QED
    BY <1>0, <2>1, <2>2
<1>10. CASE EndOnError
  BY <1>0, <1>10 DEF EndOnError
<1>4. CASE Kill
  <2>1. ASSUME NEW a \in todo, Signal({a}) PROVE CheckpointOK'
    <3>1. \A b \in Accounts : server'[b] = server[b] \/ server'[b] = "failed"
      BY <2>1 DEF Signal
    <3> QED
      BY <1>0, <2>1, <3>1 DEF Signal
  <2> QED
    BY <1>2, <1>4, <2>1 DEF Kill
<1>5. CASE ExitShell
  <2>1. \A a \in Accounts : server'[a] = server[a] \/ server'[a] = "failed"
    BY <1>5 DEF ExitShell, End
  <2> QED
    BY <1>0, <1>5, <2>1 DEF ExitShell
<1>6. ASSUME NEW a \in Accounts, ServerStep(a) PROVE CheckpointOK'
  BY <1>0, <1>6, ServerCheckpoint
<1>7. CASE KillAll
  BY <1>7 DEF KillAll
<1>8. CASE Restart
  BY <1>8 DEF Restart
<1>9. CASE UNCHANGED vars
  BY <1>2, <1>9 DEF vars
<1> QED
  BY <1>3, <1>4, <1>5, <1>6, <1>7, <1>8, <1>9, <1>10 DEF Next, ShellStep, Host

\* sync-lite/README.md:47, "checkpoint on graceful shutdown": a server that shut down in
\* order leaves an empty log, if no two accounts have one database file.
THEOREM OrderlyStopsCheckpoint ==
  ASSUME Injective
  PROVE  Spec => []StoppedIsCheckpointed
<1>1. WalInv => StoppedIsCheckpointed
  BY DEF WalInv, CheckpointOK, StoppedIsCheckpointed
<1>2. WalInv /\ [Next]_vars => WalInv'
  BY WalStep
<1> QED
  BY <1>1, <1>2, WalInit, PTL DEF Spec
=============================================================================
