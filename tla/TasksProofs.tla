---------------------------- MODULE TasksProofs ----------------------------
(***************************************************************************)
(* Proofs about Tasks for any number of tasks, sessions and requests and   *)
(* any limit.  IndInv strengthens the checked invariants by what links the *)
(* program counters of a task's goroutines to its status.                  *)
(***************************************************************************)
EXTENDS Tasks, FiniteSetTheorems, TLAPS

\* A task exists exactly from its creation on; whatever works on it, or waits
\* for it, knows it exists.
Linked ==
  /\ \A t \in TaskIds :
       /\ call[t] \in {"idle", "rejected"} <=> status[t] = "none"
       /\ exec[t] # "none" => status[t] # "none"
       /\ call[t] \in {"idle", "rejected", "hook", "snapshot"} => exec[t] = "none"
       /\ t \in tasks => status[t] # "none"
       /\ call[t] = "hook" <=> status[t] # "none" /\ ~createdHookDone[t]
       /\ call[t] = "hook" => HasTaskHooks
       /\ status[t] = "none" => ~createdHookDone[t]
       /\ finish[t] = "none" <=> ~Completed(t)
       /\ Completed(t) => stored[t] # "nothing"
  /\ \A r \in Requests :
       req[r].pc = "end" => status[req[r].task] # "none"

\* Where the terminal hook of a task is, from its end to its run.
HookPlace ==
  \A t \in TaskIds :
    /\ ~HasTaskHooks => hooksRun[t] = <<>> /\ pendingHooks[t] = <<>>
    /\ HasTaskHooks /\ ~createdHookDone[t]
         => /\ hooksRun[t] = <<>>
            /\ pendingHooks[t] = IF finish[t] = "over" THEN <<status[t]>> ELSE <<>>
    /\ HasTaskHooks /\ createdHookDone[t]
         => /\ pendingHooks[t] = <<>>
            /\ hooksRun[t] = IF finish[t] = "over"
                             THEN <<"created", status[t]>> ELSE <<"created">>

\* A running handler has registered its cancel function, so whoever ends or
\* deletes its task afterwards reads it.
Reach ==
  \A t \in TaskIds :
    exec[t] = "running" =>
      /\ cancelFunc[t]
      /\ Completed(t) => taskDone[t] \/ finish[t] = "cancel"
      /\ t \notin tasks => Completed(t) \/ taskDone[t] \/ ttl[t] = "cancel"

\* What a request has established when it goes on after an unlock, and what
\* its answer says.
AskedOf(r) ==
  LET t == req[r].task
      a == req[r].answer
  IN  /\ req[r].pc \notin {"idle", "answered"}
           => status[t] # "none" /\ MayAccess(t, req[r].sess)
      /\ req[r].pc = "refetch" => Completed(t) /\ req[r].op = "result"
      /\ req[r].pc = "wait" => req[r].op = "result"
      /\ req[r].pc = "ending" => status[t] = "cancelled"
      /\ req[r].pc = "answered" =>
           /\ a \notin {"none", "nothing"}
           /\ a \in Stored => req[r].op = "result" /\ Completed(t) /\ a = stored[t]
           /\ a \in Terminal => a = status[t]
           /\ a = "working" => req[r].op = "get"
           /\ a = "notCancellable" => Completed(t)
           /\ a \notin {"notFound", "expired"}
                => status[t] # "none" /\ MayAccess(t, req[r].sess)

Asked == \A r \in Requests : AskedOf(r)

IndInv == TypeOK /\ Linked /\ SlotAccounting /\ HookPlace /\ Reach /\ Asked

-----------------------------------------------------------------------------
(* Counting the working tasks. *)

\* The number of working tasks is a natural number.
LEMMA WorkingFinite == IsFiniteSet(Working) /\ Cardinality(Working) \in Nat
  <1>1. Working \in SUBSET TaskIds
    BY DEF Working
  <1>2. IsFiniteSet(Working)
    BY <1>1, FS_Subset, TasksAssumption DEF TasksAssumption
  <1> QED BY <1>2, FS_CardinalityType

\* A task that starts adds one working task.
LEMMA StartCounts ==
  ASSUME TypeOK, NEW t \in TaskIds, status[t] = "none",
         status' = [status EXCEPT ![t] = "working"]
  PROVE  Cardinality(Working') = Cardinality(Working) + 1
  <1>1. Working' = Working \union {t}
    BY DEF Working, TypeOK
  <1>2. t \notin Working
    BY DEF Working
  <1> QED BY <1>1, <1>2, WorkingFinite, FS_AddElement

\* A task that ends was one of the working ones.
LEMMA EndCounts ==
  ASSUME TypeOK, NEW t \in TaskIds, status[t] = "working", NEW s \in Terminal,
         status' = [status EXCEPT ![t] = s]
  PROVE  /\ Cardinality(Working') = Cardinality(Working) - 1
         /\ Cardinality(Working) > 0
  <1>1. Working' = Working \ {t}
    BY DEF Working, TypeOK, Terminal
  <1>2. t \in Working
    BY DEF Working
  <1>3. Cardinality(Working') = Cardinality(Working) - 1
    BY <1>1, <1>2, WorkingFinite, FS_RemoveElement
  <1>4. Working # {}
    BY <1>2
  <1>5. Cardinality(Working) # 0
    BY <1>4, WorkingFinite, FS_EmptySet
  <1> QED BY <1>3, <1>5, WorkingFinite

\* A task that is ended, whoever ends it, was working.
LEMMA EndedWasWorking ==
  ASSUME IndInv, NEW t \in TaskIds, status[t] # "none", NEW s \in Terminal,
         NEW o, EndTask(t, s, o)
  PROVE  /\ status[t] = "working"
         /\ Cardinality(Working') = Cardinality(Working) - 1
         /\ activeTasks' \in Nat
         /\ activeTasks' = activeTasks - 1
  <1>1. status[t] = "working"
    BY DEF IndInv, TypeOK, EndTask, Completed, Statuses
  <1>2. /\ Cardinality(Working') = Cardinality(Working) - 1
        /\ Cardinality(Working) > 0
    BY <1>1, EndCounts DEF IndInv, EndTask
  <1> QED BY <1>1, <1>2, WorkingFinite DEF IndInv, SlotAccounting, EndTask

-----------------------------------------------------------------------------
(* The requests' records. *)

\* Reply changes the program counter and the answer of one request.
LEMMA ReplyFields ==
  ASSUME TypeOK, NEW r \in Requests, NEW a \in Answers, Reply(r, a)
  PROVE  /\ req' \in [Requests -> RequestStates]
         /\ req'[r] = [req[r] EXCEPT !.pc = "answered", !.answer = a]
         /\ \A q \in Requests : q # r => req'[q] = req[q]
  <1> DEFINE new == [req[r] EXCEPT !.pc = "answered", !.answer = a]
  <1>1. req \in [Requests -> RequestStates]
    BY DEF TypeOK
  <1>2. req' = [req EXCEPT ![r] = new]
    BY <1>1 DEF Reply, RequestStates
  <1>3. new \in RequestStates
    BY <1>1 DEF RequestStates
  <1> HIDE DEF new
  <1>4. /\ req' \in [Requests -> RequestStates]
        /\ req'[r] = new
        /\ \A q \in Requests : q # r => req'[q] = req[q]
    BY <1>1, <1>2, <1>3
  <1> QED BY <1>4 DEF new

\* Goto changes the program counter of one request.
LEMMA GotoFields ==
  ASSUME TypeOK, NEW r \in Requests,
         NEW pc \in {"idle", "wait", "refetch", "end", "ending", "answered"},
         Goto(r, pc)
  PROVE  /\ req' \in [Requests -> RequestStates]
         /\ req'[r] = [req[r] EXCEPT !.pc = pc]
         /\ \A q \in Requests : q # r => req'[q] = req[q]
  <1> DEFINE new == [req[r] EXCEPT !.pc = pc]
  <1>1. req \in [Requests -> RequestStates]
    BY DEF TypeOK
  <1>2. req' = [req EXCEPT ![r] = new]
    BY <1>1 DEF Goto, RequestStates
  <1>3. new \in RequestStates
    BY <1>1 DEF RequestStates
  <1> HIDE DEF new
  <1>4. /\ req' \in [Requests -> RequestStates]
        /\ req'[r] = new
        /\ \A q \in Requests : q # r => req'[q] = req[q]
    BY <1>1, <1>2, <1>3
  <1> QED BY <1>4 DEF new

-----------------------------------------------------------------------------
(* One step of the server preserves each part of the invariant. *)

\* The end of an existing task gives its slot back and closes done once.
LEMMA EndAccounted ==
  ASSUME IndInv, NEW t \in TaskIds, status[t] # "none", NEW s \in Terminal,
         NEW o, EndTask(t, s, o)
  PROVE  SlotAccounting'
  <1>1. /\ status[t] = "working"
        /\ Cardinality(Working') = Cardinality(Working) - 1
        /\ activeTasks' = activeTasks - 1
    BY EndedWasWorking
  <1>2. activeTasks' = Cardinality(Working')
    BY <1>1 DEF IndInv, SlotAccounting
  <1>3. MaxConcurrentTasks > 0 => activeTasks' <= MaxConcurrentTasks
    BY <1>1, TasksAssumption DEF IndInv, TypeOK, SlotAccounting,
       TasksAssumption
  <1>4. \A u \in TaskIds : doneCloses'[u] = IF Completed(u)' THEN 1 ELSE 0
    BY <1>1 DEF EndTask, IndInv, TypeOK, SlotAccounting, Completed, Terminal
  <1> QED BY <1>2, <1>3, <1>4 DEF SlotAccounting

\* Two-element sequences are equal when their elements are.
LEMMA PairsEqual ==
  ASSUME NEW S, NEW a \in Seq(S), NEW b \in Seq(S), Len(a) = 2, Len(b) = 2,
         a[1] = b[1], a[2] = b[2]
  PROVE  a = b
  OBVIOUS

\* The sequences of hooks that occur.
LEMMA HookSequences ==
  ASSUME NEW x \in Terminal
  PROVE  /\ Append(<<"created">>, x) = <<"created", x>>
         /\ Append(<<>>, x) = <<x>>
         /\ (<<>> \o <<"created">>) \o <<x>> = <<"created", x>>
  <1> DEFINE S == {"created"} \union Terminal
             a == Append(<<"created">>, x)
             b == <<"created", x>>
  <1>1. a \in Seq(S) /\ Len(a) = 2 /\ a[1] = "created" /\ a[2] = x
    OBVIOUS
  <1>2. b \in Seq(S) /\ Len(b) = 2 /\ b[1] = "created" /\ b[2] = x
    OBVIOUS
  <1>3. <<"created">> \o <<x>> = a
    OBVIOUS
  <1>4. <<>> \o <<"created">> = <<"created">>
    OBVIOUS
  <1>5. Append(<<>>, x) = <<x>>
    OBVIOUS
  <1> HIDE DEF S, a, b
  <1>6. a = b
    BY <1>1, <1>2, PairsEqual
  <1> QED BY <1>3, <1>4, <1>5, <1>6 DEF a, b

\* Without hooks no task ever waits for its created hook.
LEMMA HooksOnly ==
  ASSUME IndInv, NEW t \in TaskIds, call[t] = "hook"
  PROVE  HasTaskHooks
    BY DEF IndInv, Linked

\* Before a task exists it has no hooks.
LEMMA NoHooksYet ==
  ASSUME IndInv, NEW t \in TaskIds, status[t] = "none"
  PROVE  hooksRun[t] = <<>> /\ pendingHooks[t] = <<>>
    BY DEF IndInv, HookPlace, Linked, Completed, Terminal

\* What a request knows stays true while its record does not change and the
\* tasks only move on: existing tasks keep their owner, ended ones their end.
LEMMA AskedKept ==
  ASSUME NEW q, AskedOf(q), req'[q] = req[q],
         LET t == req[q].task
         IN  /\ status[t] # "none" => status'[t] # "none" /\ owner'[t] = owner[t]
             /\ Completed(t) => status'[t] = status[t] /\ stored'[t] = stored[t]
  PROVE  AskedOf(q)'
    BY DEF AskedOf, Completed, Terminal, MayAccess

\* Every step keeps the types; an end of a task finds it counted.
LEMMA TypeStep == IndInv /\ [Next]_vars => TypeOK'
  <1> SUFFICES ASSUME IndInv, [Next]_vars PROVE TypeOK'
    OBVIOUS
  <1>1. ASSUME NEW t \in TaskIds, NEW s \in Sessions, NEW h \in BOOLEAN,
               createTask(t, s, h)
        PROVE  TypeOK'
    BY <1>1 DEF createTask, mapVars, endVars, hookVars, callVars, IndInv,
       TypeOK, Completed, Terminal, Statuses, Stored, Answers, Outcomes,
       RequestStates
  <1>2. ASSUME NEW t \in TaskIds, RejectTask(t)
        PROVE  TypeOK'
    BY <1>2 DEF RejectTask, EndContext, mapVars, endVars, hookVars,
       callVars, IndInv, TypeOK, Completed, Terminal, Statuses, Stored,
       Answers, Outcomes, RequestStates
  <1>3. ASSUME NEW t \in TaskIds, CreatedHookReturns(t)
        PROVE  TypeOK'
    BY <1>3 DEF CreatedHookReturns, finishCreatedHook, mapVars, endVars,
       hookVars, callVars, IndInv, TypeOK, Completed, Terminal, Statuses,
       Stored, Answers, Outcomes, RequestStates
  <1>4. ASSUME NEW t \in TaskIds, CreatedHookPanics(t)
        PROVE  TypeOK'
    BY <1>4 DEF CreatedHookPanics, finishCreatedHook, EndContext, mapVars,
       endVars, hookVars, callVars, IndInv, TypeOK, Completed, Terminal,
       Statuses, Stored, Answers, Outcomes, RequestStates
  <1>5. ASSUME NEW t \in TaskIds, StartExecution(t)
        PROVE  TypeOK'
    BY <1>5 DEF StartExecution, mapVars, endVars, hookVars, callVars,
       IndInv, TypeOK, Completed, Terminal, Statuses, Stored, Answers,
       Outcomes, RequestStates
  <1>6. ASSUME NEW t \in TaskIds, CallReturns(t)
        PROVE  TypeOK'
    BY <1>6 DEF CallReturns, EndContext, mapVars, endVars, hookVars,
       callVars, IndInv, TypeOK, Completed, Terminal, Statuses, Stored,
       Answers, Outcomes, RequestStates
  <1>7. ASSUME NEW t \in TaskIds, CallCancelled(t)
        PROVE  TypeOK'
    BY <1>7 DEF CallCancelled, EndContext, mapVars, endVars, hookVars,
       callVars, IndInv, TypeOK, Completed, Terminal, Statuses, Stored,
       Answers, Outcomes, RequestStates
  <1>8. ASSUME NEW t \in TaskIds, RegisterCancel(t)
        PROVE  TypeOK'
    BY <1>8 DEF RegisterCancel, mapVars, endVars, hookVars, callVars,
       IndInv, TypeOK, Completed, Terminal, Statuses, Stored, Answers,
       Outcomes, RequestStates
  <1>9. ASSUME NEW t \in TaskIds, NEW o \in Outcomes, HandlerReturns(t, o)
        PROVE  TypeOK'
    <2>1. CASE Completed(t)
      BY <1>9, <2>1 DEF HandlerReturns, completeTask, cancelTaskEntry,
         EndTask, IndInv, TypeOK, mapVars, endVars, hookVars, callVars
    <2>2. CASE ~Completed(t)
      <3>1. PICK s \in Terminal, a \in Stored, f \in {"cancel", "observe"} :
              EndTask(t, s, a) /\ finish' = [finish EXCEPT ![t] = f]
        BY <1>9, <2>2 DEF HandlerReturns, completeTask,
           cancelTaskEntry, Terminal, Stored, Outcomes
      <3>2. status[t] # "none"
        BY <1>9 DEF HandlerReturns, IndInv, Linked
      <3>3. activeTasks' \in Nat
        BY <3>1, <3>2, EndedWasWorking
      <3>4. doneCloses[t] = 0
        BY <2>2 DEF IndInv, SlotAccounting
      <3>5. exec' \in [TaskIds -> {"none", "spawned", "running", "ending", "ended"}] /\ taskDone' \in [TaskIds -> BOOLEAN]
        BY <1>9 DEF HandlerReturns, IndInv, TypeOK
      <3> QED
        BY <1>9, <3>1, <3>3, <3>4, <3>5 DEF HandlerReturns, EndTask,
           Statuses, IndInv, TypeOK, mapVars, endVars, hookVars, callVars
    <2> QED BY <2>1, <2>2
  <1>10. ASSUME NEW t \in TaskIds, ExecutionEnds(t)
        PROVE  TypeOK'
    BY <1>10 DEF ExecutionEnds, mapVars, endVars, hookVars, callVars,
       IndInv, TypeOK, Completed, Terminal, Statuses, Stored, Answers,
       Outcomes, RequestStates
  <1>11. ASSUME NEW t \in TaskIds, FinishCancel(t)
        PROVE  TypeOK'
    BY <1>11 DEF FinishCancel, mapVars, endVars, hookVars, callVars,
       IndInv, TypeOK, Completed, Terminal, Statuses, Stored, Answers,
       Outcomes, RequestStates
  <1>12. ASSUME NEW t \in TaskIds, fireTaskHook(t)
        PROVE  TypeOK'
    <2>1. Completed(t)
      BY <1>12 DEF fireTaskHook, IndInv, Linked
    <2>2. Append(hooksRun[t], status[t]) \in Seq({"created"} \union Terminal)
      BY <2>1 DEF IndInv, TypeOK, Completed, Terminal
    <2>3. Append(pendingHooks[t], status[t]) \in Seq(Terminal)
      BY <2>1 DEF IndInv, TypeOK, Completed, Terminal
    <2> QED BY <1>12, <2>2, <2>3 DEF fireTaskHook, IndInv, TypeOK, mapVars,
               endVars, hookVars, callVars
  <1>13. ASSUME NEW t \in TaskIds, TaskExpires(t)
        PROVE  TypeOK'
    BY <1>13 DEF TaskExpires, mapVars, endVars, hookVars, callVars, IndInv,
       TypeOK, Completed, Terminal, Statuses, Stored, Answers, Outcomes,
       RequestStates
  <1>14. ASSUME NEW t \in TaskIds, ExpiryCancels(t)
        PROVE  TypeOK'
    BY <1>14 DEF ExpiryCancels, mapVars, endVars, hookVars, callVars,
       IndInv, TypeOK, Completed, Terminal, Statuses, Stored, Answers,
       Outcomes, RequestStates
  <1>15. ASSUME NEW t \in TaskIds, TombstoneRemoved(t)
        PROVE  TypeOK'
    BY <1>15 DEF TombstoneRemoved, mapVars, endVars, hookVars, callVars,
       IndInv, TypeOK, Completed, Terminal, Statuses, Stored, Answers,
       Outcomes, RequestStates
  <1>16. ASSUME NEW r \in Requests, NEW t \in TaskIds, NEW s \in Sessions,
                handleGetTask(r, t, s)
        PROVE  TypeOK'
    BY <1>16 DEF handleGetTask, LookupError, requestUnchanged, mapVars,
       endVars, hookVars, callVars, IndInv, TypeOK, Completed, Terminal,
       Statuses, Stored, Answers, Outcomes, RequestStates
  <1>17. ASSUME NEW r \in Requests, NEW t \in TaskIds, NEW s \in Sessions,
                handleTaskResult(r, t, s)
        PROVE  TypeOK'
    BY <1>17 DEF handleTaskResult, LookupError, requestUnchanged, mapVars,
       endVars, hookVars, callVars, IndInv, TypeOK, Completed, Terminal,
       Statuses, Stored, Answers, Outcomes, RequestStates
  <1>18. ASSUME NEW r \in Requests, NEW t \in TaskIds, NEW s \in Sessions,
                handleCancelTask(r, t, s)
        PROVE  TypeOK'
    BY <1>18 DEF handleCancelTask, LookupError, requestUnchanged, mapVars,
       endVars, hookVars, callVars, IndInv, TypeOK, Completed, Terminal,
       Statuses, Stored, Answers, Outcomes, RequestStates
  <1>19. ASSUME NEW r \in Requests, TaskResultWakes(r)
        PROVE  TypeOK'
    <2>1. req' \in [Requests -> RequestStates]
      BY <1>19, GotoFields DEF TaskResultWakes, IndInv, Answers
    <2> QED BY <1>19, <2>1 DEF TaskResultWakes, IndInv, TypeOK,
               requestUnchanged, mapVars, endVars, hookVars, callVars
  <1>20. ASSUME NEW r \in Requests, TaskResultInterrupted(r)
        PROVE  TypeOK'
    <2>1. req' \in [Requests -> RequestStates]
      BY <1>20, ReplyFields DEF TaskResultInterrupted, IndInv, Answers
    <2> QED BY <1>20, <2>1 DEF TaskResultInterrupted, IndInv, TypeOK,
               requestUnchanged, mapVars, endVars, hookVars, callVars
  <1>21. ASSUME NEW r \in Requests, TaskResultRefetches(r)
        PROVE  TypeOK'
    <2>1. req[r].task \in TaskIds
      BY DEF IndInv, TypeOK, RequestStates
    <2>2. stored[req[r].task] \in Answers
      BY <2>1, <1>21 DEF IndInv, TypeOK, Asked, AskedOf, Answers, Stored,
         Linked, TaskResultRefetches
    <2>3. \A e \in TaskIds, s \in Sessions \union {NoSession} : LookupError(e, s) \in Answers
      BY DEF LookupError, Answers
    <2>4. LookupError(req[r].task, req[r].sess) \in Answers
      BY <2>1, <2>3 DEF IndInv, TypeOK, RequestStates
    <2>5. req' \in [Requests -> RequestStates]
      BY <1>21, <2>2, <2>4, ReplyFields DEF TaskResultRefetches, IndInv
    <2> QED BY <1>21, <2>5 DEF TaskResultRefetches, requestUnchanged,
               IndInv, TypeOK, mapVars, endVars, hookVars, callVars
  <1>22. ASSUME NEW r \in Requests, CancelTaskEnds(r)
        PROVE  TypeOK'
    <2> DEFINE t == req[r].task
    <2>1. t \in TaskIds /\ status[t] # "none"
      BY <1>22 DEF CancelTaskEnds, IndInv, TypeOK, RequestStates, Linked
    <2>2. CASE Completed(t)
      <3>1. req' \in [Requests -> RequestStates] /\ UNCHANGED <<endVars, finish>>
        BY <1>22, <2>2, ReplyFields DEF CancelTaskEnds,
           cancelTaskEntry, EndTask, IndInv, Answers
      <3> QED BY <1>22, <3>1 DEF CancelTaskEnds, requestUnchanged,
                 IndInv, TypeOK, mapVars, endVars, hookVars, callVars
    <2>3. CASE ~Completed(t)
      <3>1. cancelTaskEntry(t) /\ Goto(r, "ending")
        BY <1>22, <2>3 DEF CancelTaskEnds
      <3>2. req' \in [Requests -> RequestStates]
        BY <3>1, GotoFields DEF IndInv
      <3>3. activeTasks' \in Nat
        BY <2>1, <3>1, EndedWasWorking DEF cancelTaskEntry, Terminal
      <3>4. doneCloses[t] = 0
        BY <2>1, <2>3 DEF IndInv, SlotAccounting
      <3> QED
        BY <1>22, <2>1, <3>1, <3>2, <3>3, <3>4 DEF CancelTaskEnds,
           cancelTaskEntry, EndTask, requestUnchanged, Terminal, Statuses,
           Stored, IndInv, TypeOK, mapVars, endVars, hookVars, callVars
    <2> QED BY <2>2, <2>3
  <1>23. ASSUME NEW r \in Requests, CancelTaskRereads(r)
        PROVE  TypeOK'
    <2>1. req[r].task \in TaskIds
      BY DEF IndInv, TypeOK, RequestStates
    <2>2. status[req[r].task] \in Answers
      BY <2>1 DEF IndInv, TypeOK, Answers
    <2>3. \A e \in TaskIds, s \in Sessions \union {NoSession} : LookupError(e, s) \in Answers
      BY DEF LookupError, Answers
    <2>4. LookupError(req[r].task, req[r].sess) \in Answers
      BY <2>1, <2>3 DEF IndInv, TypeOK, RequestStates
    <2>5. req' \in [Requests -> RequestStates]
      BY <1>23, <2>2, <2>4, ReplyFields DEF CancelTaskRereads, IndInv
    <2> QED BY <1>23, <2>5 DEF CancelTaskRereads, requestUnchanged, IndInv,
               TypeOK, mapVars, endVars, hookVars, callVars
  <1>24. CASE UNCHANGED vars
    BY <1>24 DEF vars, mapVars, endVars, hookVars, callVars, IndInv,
       TypeOK, Completed, Terminal, Statuses, Stored, Answers, Outcomes,
       RequestStates
  <1> QED
    BY <1>1, <1>2, <1>3, <1>4, <1>5, <1>6, <1>7, <1>8, <1>9, <1>10, <1>11,
       <1>12, <1>13, <1>14, <1>15, <1>16, <1>17, <1>18, <1>19, <1>20, <1>21,
       <1>22, <1>23, <1>24
    DEF Next, CallNext, ExecNext, FinishNext, TTLNext, RequestNext

\* Every step keeps the program counters and the statuses in line.
LEMMA LinkedStep == IndInv /\ [Next]_vars => Linked'
  <1> SUFFICES ASSUME IndInv, [Next]_vars PROVE Linked'
    OBVIOUS
  <1>1. ASSUME NEW t \in TaskIds, NEW s \in Sessions, NEW h \in BOOLEAN,
               createTask(t, s, h)
        PROVE  Linked'
    <2>1. HasTaskHooks \in BOOLEAN
      BY TasksAssumption DEF TasksAssumption
    <2>2. exec[t] = "none" /\ status[t] = "none"
      BY <1>1 DEF createTask, IndInv, Linked
    <2>3. CASE HasTaskHooks
      BY <1>1, <2>2, <2>3 DEF createTask, mapVars, endVars, hookVars,
         callVars, IndInv, TypeOK, Linked, Completed, Terminal, Statuses,
         RequestStates
    <2>4. CASE ~HasTaskHooks
      <3>1. createdHookDone'[t] = TRUE
        BY <1>1, <2>4 DEF createTask, IndInv, TypeOK
      <3>2. \A u \in TaskIds : u # t => createdHookDone'[u] = createdHookDone[u]
        BY <1>1 DEF createTask, IndInv, TypeOK
      <3> QED BY <1>1, <2>2, <2>4, <3>1, <3>2 DEF createTask, mapVars,
                 endVars, hookVars, callVars, IndInv, TypeOK, Linked, Completed,
                 Terminal, Statuses, RequestStates
    <2> QED BY <2>1, <2>3, <2>4
  <1>2. ASSUME NEW t \in TaskIds, RejectTask(t)
        PROVE  Linked'
    BY <1>2 DEF RejectTask, EndContext, mapVars, endVars, hookVars,
       callVars, IndInv, TypeOK, Linked, Completed, Terminal, Statuses,
       RequestStates
  <1>3. ASSUME NEW t \in TaskIds, CreatedHookReturns(t)
        PROVE  Linked'
    BY <1>3 DEF CreatedHookReturns, finishCreatedHook, mapVars, endVars,
       hookVars, callVars, IndInv, TypeOK, Linked, Completed, Terminal,
       Statuses, RequestStates
  <1>4. ASSUME NEW t \in TaskIds, CreatedHookPanics(t)
        PROVE  Linked'
    BY <1>4 DEF CreatedHookPanics, finishCreatedHook, EndContext, mapVars,
       endVars, hookVars, callVars, IndInv, TypeOK, Linked, Completed,
       Terminal, Statuses, RequestStates
  <1>5. ASSUME NEW t \in TaskIds, StartExecution(t)
        PROVE  Linked'
    BY <1>5 DEF StartExecution, mapVars, endVars, hookVars, callVars,
       IndInv, TypeOK, Linked, Completed, Terminal, Statuses, RequestStates
  <1>6. ASSUME NEW t \in TaskIds, CallReturns(t)
        PROVE  Linked'
    BY <1>6 DEF CallReturns, EndContext, mapVars, endVars, hookVars,
       callVars, IndInv, TypeOK, Linked, Completed, Terminal, Statuses,
       RequestStates
  <1>7. ASSUME NEW t \in TaskIds, CallCancelled(t)
        PROVE  Linked'
    BY <1>7 DEF CallCancelled, EndContext, mapVars, endVars, hookVars,
       callVars, IndInv, TypeOK, Linked, Completed, Terminal, Statuses,
       RequestStates
  <1>8. ASSUME NEW t \in TaskIds, RegisterCancel(t)
        PROVE  Linked'
    BY <1>8 DEF RegisterCancel, mapVars, endVars, hookVars, callVars,
       IndInv, TypeOK, Linked, Completed, Terminal, Statuses, RequestStates
  <1>9. ASSUME NEW t \in TaskIds, NEW o \in Outcomes, HandlerReturns(t, o)
        PROVE  Linked'
    BY <1>9 DEF HandlerReturns, completeTask, cancelTaskEntry, EndTask,
       mapVars, endVars, hookVars, callVars, IndInv, TypeOK, Linked,
       Completed, Terminal, Statuses, RequestStates
  <1>10. ASSUME NEW t \in TaskIds, ExecutionEnds(t)
        PROVE  Linked'
    BY <1>10 DEF ExecutionEnds, mapVars, endVars, hookVars, callVars,
       IndInv, TypeOK, Linked, Completed, Terminal, Statuses, RequestStates
  <1>11. ASSUME NEW t \in TaskIds, FinishCancel(t)
        PROVE  Linked'
    BY <1>11 DEF FinishCancel, mapVars, endVars, hookVars, callVars,
       IndInv, TypeOK, Linked, Completed, Terminal, Statuses, RequestStates
  <1>12. ASSUME NEW t \in TaskIds, fireTaskHook(t)
        PROVE  Linked'
    BY <1>12 DEF fireTaskHook, mapVars, endVars, hookVars, callVars,
       IndInv, TypeOK, Linked, Completed, Terminal, Statuses, RequestStates
  <1>13. ASSUME NEW t \in TaskIds, TaskExpires(t)
        PROVE  Linked'
    BY <1>13 DEF TaskExpires, mapVars, endVars, hookVars, callVars, IndInv,
       TypeOK, Linked, Completed, Terminal, Statuses, RequestStates
  <1>14. ASSUME NEW t \in TaskIds, ExpiryCancels(t)
        PROVE  Linked'
    BY <1>14 DEF ExpiryCancels, mapVars, endVars, hookVars, callVars,
       IndInv, TypeOK, Linked, Completed, Terminal, Statuses, RequestStates
  <1>15. ASSUME NEW t \in TaskIds, TombstoneRemoved(t)
        PROVE  Linked'
    BY <1>15 DEF TombstoneRemoved, mapVars, endVars, hookVars, callVars,
       IndInv, TypeOK, Linked, Completed, Terminal, Statuses, RequestStates
  <1>16. ASSUME NEW r \in Requests, NEW t \in TaskIds, NEW s \in Sessions,
                handleGetTask(r, t, s)
        PROVE  Linked'
    BY <1>16 DEF handleGetTask, LookupError, requestUnchanged, mapVars,
       endVars, hookVars, callVars, IndInv, TypeOK, Linked, Completed,
       Terminal, Statuses, RequestStates
  <1>17. ASSUME NEW r \in Requests, NEW t \in TaskIds, NEW s \in Sessions,
                handleTaskResult(r, t, s)
        PROVE  Linked'
    BY <1>17 DEF handleTaskResult, LookupError, requestUnchanged, mapVars,
       endVars, hookVars, callVars, IndInv, TypeOK, Linked, Completed,
       Terminal, Statuses, RequestStates
  <1>18. ASSUME NEW r \in Requests, NEW t \in TaskIds, NEW s \in Sessions,
                handleCancelTask(r, t, s)
        PROVE  Linked'
    BY <1>18 DEF handleCancelTask, LookupError, requestUnchanged, mapVars,
       endVars, hookVars, callVars, IndInv, TypeOK, Linked, Completed,
       Terminal, Statuses, RequestStates
  <1>19. ASSUME NEW r \in Requests, TaskResultWakes(r)
        PROVE  Linked'
    BY <1>19 DEF TaskResultWakes, Goto, requestUnchanged, mapVars, endVars,
       hookVars, callVars, IndInv, TypeOK, Linked, Completed, Terminal,
       Statuses, RequestStates
  <1>20. ASSUME NEW r \in Requests, TaskResultInterrupted(r)
        PROVE  Linked'
    BY <1>20 DEF TaskResultInterrupted, Reply, requestUnchanged, mapVars,
       endVars, hookVars, callVars, IndInv, TypeOK, Linked, Completed,
       Terminal, Statuses, RequestStates
  <1>21. ASSUME NEW r \in Requests, TaskResultRefetches(r)
        PROVE  Linked'
    BY <1>21 DEF TaskResultRefetches, Reply, LookupError, requestUnchanged,
       mapVars, endVars, hookVars, callVars, IndInv, TypeOK, Linked,
       Completed, Terminal, Statuses, RequestStates
  <1>22. ASSUME NEW r \in Requests, CancelTaskEnds(r)
        PROVE  Linked'
    <2> DEFINE t == req[r].task
    <2>1. t \in TaskIds /\ status[t] # "none"
      BY <1>22 DEF CancelTaskEnds, IndInv, TypeOK, RequestStates, Linked
    <2>2. CASE Completed(t)
      <3>1. Reply(r, "notCancellable") /\ UNCHANGED <<endVars, finish>>
        BY <1>22, <2>2 DEF CancelTaskEnds, cancelTaskEntry, EndTask
      <3>a. /\ req'[r] = [req[r] EXCEPT !.pc = "answered", !.answer = "notCancellable"]
            /\ \A q \in Requests : q # r => req'[q] = req[q]
        BY <3>1, ReplyFields DEF IndInv, Answers
      <3>2. \A q \in Requests : req'[q].pc = "end" => req[q].pc = "end" /\ req'[q].task = req[q].task
        <4>1. req'[r].pc # "end" /\ req[r] \in RequestStates
          BY <3>a DEF IndInv, TypeOK, RequestStates
        <4> QED BY <3>a, <4>1
      <3>3. UNCHANGED <<call, exec, status, tasks, createdHookDone, finish, stored>>
        BY <1>22, <3>1 DEF CancelTaskEnds, requestUnchanged, IndInv,
           TypeOK, mapVars, endVars, hookVars, callVars
      <3> QED BY <3>2, <3>3 DEF IndInv, Linked, Completed
    <2>3. CASE ~Completed(t)
      <3>1. cancelTaskEntry(t) /\ Goto(r, "ending")
        BY <1>22, <2>3 DEF CancelTaskEnds
      <3>a. /\ req'[r] = [req[r] EXCEPT !.pc = "ending"]
            /\ \A q \in Requests : q # r => req'[q] = req[q]
        BY <3>1, GotoFields DEF IndInv, Answers
      <3>2. \A q \in Requests : req'[q].pc = "end" => req[q].pc = "end" /\ req'[q].task = req[q].task
        <4>1. req'[r].pc # "end" /\ req[r] \in RequestStates
          BY <3>a DEF IndInv, TypeOK, RequestStates
        <4> QED BY <3>a, <4>1
      <3>3. \A q \in Requests : req[q].task \in TaskIds
        BY DEF IndInv, TypeOK, RequestStates
      <3>4. UNCHANGED <<call, exec, tasks, createdHookDone>>
        BY <1>22 DEF CancelTaskEnds, requestUnchanged, IndInv, TypeOK,
           mapVars, endVars, hookVars, callVars
      <3>5. /\ status' = [status EXCEPT ![t] = "cancelled"]
            /\ stored' = [stored EXCEPT ![t] = "canceled"]
            /\ \E f \in {"cancel", "observe"} : finish' = [finish EXCEPT ![t] = f]
        BY <3>1 DEF cancelTaskEntry, EndTask
      <3>6. \A u \in TaskIds : finish'[u] = "none" <=> ~Completed(u)'
        BY <2>1, <3>5 DEF IndInv, TypeOK, Linked, Completed, Terminal
      <3>7. \A u \in TaskIds : /\ status'[u] = "none" <=> status[u] = "none"
                               /\ Completed(u)' => stored'[u] # "nothing"
        BY <2>1, <3>5 DEF IndInv, TypeOK, Linked, Completed, Terminal
      <3> QED
        BY <3>2, <3>3, <3>4, <3>6, <3>7 DEF IndInv, Linked
    <2> QED BY <2>2, <2>3
  <1>23. ASSUME NEW r \in Requests, CancelTaskRereads(r)
        PROVE  Linked'
    BY <1>23 DEF CancelTaskRereads, Reply, LookupError, requestUnchanged,
       mapVars, endVars, hookVars, callVars, IndInv, TypeOK, Linked,
       Completed, Terminal, Statuses, RequestStates
  <1>24. CASE UNCHANGED vars
    BY <1>24 DEF vars, mapVars, endVars, hookVars, callVars, IndInv,
       TypeOK, Linked, Completed, Terminal, Statuses, RequestStates
  <1> QED
    BY <1>1, <1>2, <1>3, <1>4, <1>5, <1>6, <1>7, <1>8, <1>9, <1>10, <1>11,
       <1>12, <1>13, <1>14, <1>15, <1>16, <1>17, <1>18, <1>19, <1>20, <1>21,
       <1>22, <1>23, <1>24
    DEF Next, CallNext, ExecNext, FinishNext, TTLNext, RequestNext

\* Every step keeps the count of the working tasks and of the closes.
LEMMA AccountingStep == IndInv /\ [Next]_vars => SlotAccounting'
  <1> SUFFICES ASSUME IndInv, [Next]_vars PROVE SlotAccounting'
    OBVIOUS
  <1>1. ASSUME NEW t \in TaskIds, NEW s \in Sessions, NEW h \in BOOLEAN,
               createTask(t, s, h)
        PROVE  SlotAccounting'
    <2>1. status[t] = "none"
      BY <1>1 DEF createTask, IndInv, Linked
    <2>2. Cardinality(Working') = Cardinality(Working) + 1
      BY <1>1, <2>1, StartCounts DEF createTask, IndInv
    <2>3. activeTasks' = Cardinality(Working')
      BY <1>1, <2>2 DEF createTask, IndInv, SlotAccounting
    <2>4. MaxConcurrentTasks > 0 => activeTasks' <= MaxConcurrentTasks
      BY <1>1, TasksAssumption DEF createTask, IndInv, TypeOK, TasksAssumption
    <2>5. \A u \in TaskIds : doneCloses'[u] = IF Completed(u)' THEN 1 ELSE 0
      BY <1>1, <2>1 DEF createTask, IndInv, TypeOK, SlotAccounting,
         Completed, Terminal
    <2> QED BY <2>3, <2>4, <2>5 DEF SlotAccounting
  <1>2. ASSUME NEW t \in TaskIds, RejectTask(t)
        PROVE  SlotAccounting'
    BY <1>2 DEF RejectTask, EndContext, mapVars, endVars, hookVars,
       callVars, IndInv, TypeOK, SlotAccounting, Working, Completed
  <1>3. ASSUME NEW t \in TaskIds, CreatedHookReturns(t)
        PROVE  SlotAccounting'
    BY <1>3 DEF CreatedHookReturns, finishCreatedHook, mapVars, endVars,
       hookVars, callVars, IndInv, TypeOK, SlotAccounting, Working, Completed
  <1>4. ASSUME NEW t \in TaskIds, CreatedHookPanics(t)
        PROVE  SlotAccounting'
    BY <1>4 DEF CreatedHookPanics, finishCreatedHook, EndContext, mapVars,
       endVars, hookVars, callVars, IndInv, TypeOK, SlotAccounting, Working,
       Completed
  <1>5. ASSUME NEW t \in TaskIds, StartExecution(t)
        PROVE  SlotAccounting'
    BY <1>5 DEF StartExecution, mapVars, endVars, hookVars, callVars,
       IndInv, TypeOK, SlotAccounting, Working, Completed
  <1>6. ASSUME NEW t \in TaskIds, CallReturns(t)
        PROVE  SlotAccounting'
    BY <1>6 DEF CallReturns, EndContext, mapVars, endVars, hookVars,
       callVars, IndInv, TypeOK, SlotAccounting, Working, Completed
  <1>7. ASSUME NEW t \in TaskIds, CallCancelled(t)
        PROVE  SlotAccounting'
    BY <1>7 DEF CallCancelled, EndContext, mapVars, endVars, hookVars,
       callVars, IndInv, TypeOK, SlotAccounting, Working, Completed
  <1>8. ASSUME NEW t \in TaskIds, RegisterCancel(t)
        PROVE  SlotAccounting'
    BY <1>8 DEF RegisterCancel, mapVars, endVars, hookVars, callVars,
       IndInv, TypeOK, SlotAccounting, Working, Completed
  <1>9. ASSUME NEW t \in TaskIds, NEW o \in Outcomes, HandlerReturns(t, o)
        PROVE  SlotAccounting'
    <2>1. CASE Completed(t)
      <3>1. UNCHANGED endVars
        BY <1>9, <2>1 DEF HandlerReturns, completeTask,
           cancelTaskEntry, EndTask
      <3> QED BY <3>1 DEF endVars, IndInv, SlotAccounting, Working, Completed
    <2>2. CASE ~Completed(t)
      <3>1. PICK s \in Terminal, a \in Stored : EndTask(t, s, a)
        BY <1>9, <2>2 DEF HandlerReturns, completeTask,
           cancelTaskEntry, Terminal, Stored, Outcomes
      <3>2. status[t] # "none"
        BY <1>9 DEF HandlerReturns, IndInv, Linked
      <3> QED BY <3>1, <3>2, EndAccounted
    <2> QED BY <2>1, <2>2
  <1>10. ASSUME NEW t \in TaskIds, ExecutionEnds(t)
        PROVE  SlotAccounting'
    BY <1>10 DEF ExecutionEnds, mapVars, endVars, hookVars, callVars,
       IndInv, TypeOK, SlotAccounting, Working, Completed
  <1>11. ASSUME NEW t \in TaskIds, FinishCancel(t)
        PROVE  SlotAccounting'
    BY <1>11 DEF FinishCancel, mapVars, endVars, hookVars, callVars,
       IndInv, TypeOK, SlotAccounting, Working, Completed
  <1>12. ASSUME NEW t \in TaskIds, fireTaskHook(t)
        PROVE  SlotAccounting'
    BY <1>12 DEF fireTaskHook, mapVars, endVars, hookVars, callVars,
       IndInv, TypeOK, SlotAccounting, Working, Completed
  <1>13. ASSUME NEW t \in TaskIds, TaskExpires(t)
        PROVE  SlotAccounting'
    BY <1>13 DEF TaskExpires, mapVars, endVars, hookVars, callVars, IndInv,
       TypeOK, SlotAccounting, Working, Completed
  <1>14. ASSUME NEW t \in TaskIds, ExpiryCancels(t)
        PROVE  SlotAccounting'
    BY <1>14 DEF ExpiryCancels, mapVars, endVars, hookVars, callVars,
       IndInv, TypeOK, SlotAccounting, Working, Completed
  <1>15. ASSUME NEW t \in TaskIds, TombstoneRemoved(t)
        PROVE  SlotAccounting'
    BY <1>15 DEF TombstoneRemoved, mapVars, endVars, hookVars, callVars,
       IndInv, TypeOK, SlotAccounting, Working, Completed
  <1>16. ASSUME NEW r \in Requests, NEW t \in TaskIds, NEW s \in Sessions,
                handleGetTask(r, t, s)
        PROVE  SlotAccounting'
    BY <1>16 DEF handleGetTask, LookupError, requestUnchanged, mapVars,
       endVars, hookVars, callVars, IndInv, TypeOK, SlotAccounting, Working,
       Completed
  <1>17. ASSUME NEW r \in Requests, NEW t \in TaskIds, NEW s \in Sessions,
                handleTaskResult(r, t, s)
        PROVE  SlotAccounting'
    BY <1>17 DEF handleTaskResult, LookupError, requestUnchanged, mapVars,
       endVars, hookVars, callVars, IndInv, TypeOK, SlotAccounting, Working,
       Completed
  <1>18. ASSUME NEW r \in Requests, NEW t \in TaskIds, NEW s \in Sessions,
                handleCancelTask(r, t, s)
        PROVE  SlotAccounting'
    BY <1>18 DEF handleCancelTask, LookupError, requestUnchanged, mapVars,
       endVars, hookVars, callVars, IndInv, TypeOK, SlotAccounting, Working,
       Completed
  <1>19. ASSUME NEW r \in Requests, TaskResultWakes(r)
        PROVE  SlotAccounting'
    BY <1>19 DEF TaskResultWakes, Goto, requestUnchanged, mapVars, endVars,
       hookVars, callVars, IndInv, TypeOK, SlotAccounting, Working, Completed
  <1>20. ASSUME NEW r \in Requests, TaskResultInterrupted(r)
        PROVE  SlotAccounting'
    BY <1>20 DEF TaskResultInterrupted, Reply, requestUnchanged, mapVars,
       endVars, hookVars, callVars, IndInv, TypeOK, SlotAccounting, Working,
       Completed
  <1>21. ASSUME NEW r \in Requests, TaskResultRefetches(r)
        PROVE  SlotAccounting'
    BY <1>21 DEF TaskResultRefetches, Reply, LookupError, requestUnchanged,
       mapVars, endVars, hookVars, callVars, IndInv, TypeOK, SlotAccounting,
       Working, Completed
  <1>22. ASSUME NEW r \in Requests, CancelTaskEnds(r)
        PROVE  SlotAccounting'
    <2> DEFINE t == req[r].task
    <2>1. t \in TaskIds /\ status[t] # "none"
      BY <1>22 DEF CancelTaskEnds, IndInv, TypeOK, RequestStates, Linked
    <2>2. CASE UNCHANGED <<endVars, finish>>
      BY <2>2 DEF endVars, IndInv, SlotAccounting, Working, Completed
    <2>3. CASE cancelTaskEntry(t)
      BY <2>1, <2>3, EndAccounted DEF cancelTaskEntry, Terminal
    <2> QED BY <1>22, <2>2, <2>3 DEF CancelTaskEnds
  <1>23. ASSUME NEW r \in Requests, CancelTaskRereads(r)
        PROVE  SlotAccounting'
    BY <1>23 DEF CancelTaskRereads, Reply, LookupError, requestUnchanged,
       mapVars, endVars, hookVars, callVars, IndInv, TypeOK, SlotAccounting,
       Working, Completed
  <1>24. CASE UNCHANGED vars
    BY <1>24 DEF vars, mapVars, endVars, hookVars, callVars, IndInv,
       TypeOK, SlotAccounting, Working, Completed
  <1> QED
    BY <1>1, <1>2, <1>3, <1>4, <1>5, <1>6, <1>7, <1>8, <1>9, <1>10, <1>11,
       <1>12, <1>13, <1>14, <1>15, <1>16, <1>17, <1>18, <1>19, <1>20, <1>21,
       <1>22, <1>23, <1>24
    DEF Next, CallNext, ExecNext, FinishNext, TTLNext, RequestNext

\* Every step keeps track of the terminal hook.
LEMMA HookPlaceStep == IndInv /\ [Next]_vars => HookPlace'
  <1> SUFFICES ASSUME IndInv, [Next]_vars PROVE HookPlace'
    OBVIOUS
  <1>1. ASSUME NEW t \in TaskIds, NEW s \in Sessions, NEW h \in BOOLEAN,
               createTask(t, s, h)
        PROVE  HookPlace'
    <2>1. status[t] = "none" /\ finish[t] = "none"
      BY <1>1 DEF createTask, IndInv, Linked, Completed, Terminal
    <2>2. hooksRun[t] = <<>> /\ pendingHooks[t] = <<>>
      BY <1>1, <2>1, NoHooksYet DEF IndInv
    <2> QED BY <1>1, <2>1, <2>2, TasksAssumption DEF createTask,
               TasksAssumption, IndInv, TypeOK, HookPlace
  <1>2. ASSUME NEW t \in TaskIds, RejectTask(t)
        PROVE  HookPlace'
    BY <1>2 DEF RejectTask, EndContext, mapVars, endVars, hookVars,
       callVars, IndInv, TypeOK, HookPlace, Linked, Completed, Terminal
  <1>3. ASSUME NEW t \in TaskIds, CreatedHookReturns(t)
        PROVE  HookPlace'
    <2>1. HasTaskHooks /\ ~createdHookDone[t]
      BY <1>3, HooksOnly DEF CreatedHookReturns, IndInv, Linked
    <2>2. hooksRun[t] = <<>>
      BY <2>1 DEF IndInv, HookPlace
    <2>3. hooksRun'[t] = IF finish[t] = "over" THEN <<"created", status[t]>> ELSE <<"created">>
      <3>1. CASE finish[t] = "over"
        <4>1. pendingHooks[t] = <<status[t]>> /\ status[t] \in Terminal
          BY <2>1, <3>1 DEF IndInv, HookPlace, Linked, Completed
        <4>2. hooksRun'[t] = <<>> \o <<"created">> \o <<status[t]>>
          BY <1>3, <2>2, <4>1 DEF CreatedHookReturns,
             finishCreatedHook, IndInv, TypeOK
        <4> QED BY <3>1, <4>1, <4>2, HookSequences
      <3>2. CASE finish[t] # "over"
        <4>1. pendingHooks[t] = <<>>
          BY <2>1, <3>2 DEF IndInv, HookPlace
        <4>2. hooksRun'[t] = <<>> \o <<"created">> \o <<>>
          BY <1>3, <2>2, <4>1 DEF CreatedHookReturns,
             finishCreatedHook, IndInv, TypeOK
        <4> QED BY <3>2, <4>2
      <3> QED BY <3>1, <3>2
    <2>4. /\ createdHookDone'[t] /\ pendingHooks'[t] = <<>>
          /\ UNCHANGED <<finish, status>>
          /\ \A u \in TaskIds : u # t => /\ createdHookDone'[u] = createdHookDone[u]
                                      /\ pendingHooks'[u] = pendingHooks[u]
                                      /\ hooksRun'[u] = hooksRun[u]
      BY <1>3 DEF CreatedHookReturns, finishCreatedHook, IndInv, TypeOK,
         mapVars, endVars, hookVars, callVars
    <2> QED BY <2>1, <2>3, <2>4 DEF IndInv, HookPlace
  <1>4. ASSUME NEW t \in TaskIds, CreatedHookPanics(t)
        PROVE  HookPlace'
    <2>1. HasTaskHooks /\ ~createdHookDone[t]
      BY <1>4, HooksOnly DEF CreatedHookPanics, IndInv, Linked
    <2>2. hooksRun[t] = <<>>
      BY <2>1 DEF IndInv, HookPlace
    <2>3. hooksRun'[t] = IF finish[t] = "over" THEN <<"created", status[t]>> ELSE <<"created">>
      <3>1. CASE finish[t] = "over"
        <4>1. pendingHooks[t] = <<status[t]>> /\ status[t] \in Terminal
          BY <2>1, <3>1 DEF IndInv, HookPlace, Linked, Completed
        <4>2. hooksRun'[t] = <<>> \o <<"created">> \o <<status[t]>>
          BY <1>4, <2>2, <4>1 DEF CreatedHookPanics,
             finishCreatedHook, IndInv, TypeOK
        <4> QED BY <3>1, <4>1, <4>2, HookSequences
      <3>2. CASE finish[t] # "over"
        <4>1. pendingHooks[t] = <<>>
          BY <2>1, <3>2 DEF IndInv, HookPlace
        <4>2. hooksRun'[t] = <<>> \o <<"created">> \o <<>>
          BY <1>4, <2>2, <4>1 DEF CreatedHookPanics,
             finishCreatedHook, IndInv, TypeOK
        <4> QED BY <3>2, <4>2
      <3> QED BY <3>1, <3>2
    <2>4. /\ createdHookDone'[t] /\ pendingHooks'[t] = <<>>
          /\ UNCHANGED <<finish, status>>
          /\ \A u \in TaskIds : u # t => /\ createdHookDone'[u] = createdHookDone[u]
                                      /\ pendingHooks'[u] = pendingHooks[u]
                                      /\ hooksRun'[u] = hooksRun[u]
      BY <1>4 DEF CreatedHookPanics, finishCreatedHook, IndInv, TypeOK,
         mapVars, endVars, hookVars, callVars
    <2> QED BY <2>1, <2>3, <2>4 DEF IndInv, HookPlace
  <1>5. ASSUME NEW t \in TaskIds, StartExecution(t)
        PROVE  HookPlace'
    BY <1>5 DEF StartExecution, mapVars, endVars, hookVars, callVars,
       IndInv, TypeOK, HookPlace, Linked, Completed, Terminal
  <1>6. ASSUME NEW t \in TaskIds, CallReturns(t)
        PROVE  HookPlace'
    BY <1>6 DEF CallReturns, EndContext, mapVars, endVars, hookVars,
       callVars, IndInv, TypeOK, HookPlace, Linked, Completed, Terminal
  <1>7. ASSUME NEW t \in TaskIds, CallCancelled(t)
        PROVE  HookPlace'
    BY <1>7 DEF CallCancelled, EndContext, mapVars, endVars, hookVars,
       callVars, IndInv, TypeOK, HookPlace, Linked, Completed, Terminal
  <1>8. ASSUME NEW t \in TaskIds, RegisterCancel(t)
        PROVE  HookPlace'
    BY <1>8 DEF RegisterCancel, mapVars, endVars, hookVars, callVars,
       IndInv, TypeOK, HookPlace, Linked, Completed, Terminal
  <1>9. ASSUME NEW t \in TaskIds, NEW o \in Outcomes, HandlerReturns(t, o)
        PROVE  HookPlace'
    BY <1>9 DEF HandlerReturns, completeTask, cancelTaskEntry, EndTask,
       mapVars, endVars, hookVars, callVars, IndInv, TypeOK, HookPlace,
       Linked, Completed, Terminal
  <1>10. ASSUME NEW t \in TaskIds, ExecutionEnds(t)
        PROVE  HookPlace'
    BY <1>10 DEF ExecutionEnds, mapVars, endVars, hookVars, callVars,
       IndInv, TypeOK, HookPlace, Linked, Completed, Terminal
  <1>11. ASSUME NEW t \in TaskIds, FinishCancel(t)
        PROVE  HookPlace'
    BY <1>11 DEF FinishCancel, mapVars, endVars, hookVars, callVars,
       IndInv, TypeOK, HookPlace, Linked, Completed, Terminal
  <1>12. ASSUME NEW t \in TaskIds, fireTaskHook(t)
        PROVE  HookPlace'
    <2>1. CASE ~HasTaskHooks
      BY <1>12, <2>1 DEF fireTaskHook, mapVars, endVars, hookVars,
         callVars, IndInv, TypeOK, HookPlace, Linked, Completed, Terminal
    <2>2. CASE HasTaskHooks /\ createdHookDone[t]
      <3>1. hooksRun[t] = <<"created">> /\ status[t] \in Terminal
        BY <1>12, <2>2 DEF fireTaskHook, IndInv, HookPlace, Linked, Completed
      <3>2. hooksRun'[t] = Append(<<"created">>, status[t])
        BY <1>12, <2>2, <3>1 DEF fireTaskHook, IndInv, TypeOK
      <3>3. hooksRun'[t] = <<"created", status[t]>>
        BY <3>1, <3>2, HookSequences
      <3>4. \A u \in TaskIds : u # t => hooksRun'[u] = hooksRun[u] /\ finish'[u] = finish[u]
        BY <1>12, <2>2 DEF fireTaskHook, IndInv, TypeOK
      <3>5. UNCHANGED <<pendingHooks, createdHookDone, status>> /\ finish'[t] = "over"
        BY <1>12, <2>2 DEF fireTaskHook, IndInv, TypeOK, mapVars,
           endVars, hookVars, callVars
      <3> QED BY <2>2, <3>3, <3>4, <3>5 DEF IndInv, HookPlace
    <2>3. CASE HasTaskHooks /\ ~createdHookDone[t]
      <3>1. pendingHooks[t] = <<>> /\ status[t] \in Terminal
        BY <1>12, <2>3 DEF fireTaskHook, IndInv, HookPlace, Linked, Completed
      <3>2. pendingHooks'[t] = Append(<<>>, status[t])
        BY <1>12, <2>3, <3>1 DEF fireTaskHook, IndInv, TypeOK
      <3>3. pendingHooks'[t] = <<status[t]>>
        BY <3>1, <3>2, HookSequences
      <3>4. \A u \in TaskIds : u # t => pendingHooks'[u] = pendingHooks[u] /\ finish'[u] = finish[u]
        BY <1>12, <2>3 DEF fireTaskHook, IndInv, TypeOK
      <3>5. UNCHANGED <<hooksRun, createdHookDone, status>> /\ finish'[t] = "over"
        BY <1>12, <2>3 DEF fireTaskHook, IndInv, TypeOK, mapVars,
           endVars, hookVars, callVars
      <3>6. hooksRun[t] = <<>>
        BY <2>3 DEF IndInv, HookPlace
      <3> QED BY <2>3, <3>3, <3>4, <3>5, <3>6 DEF IndInv, HookPlace
    <2> QED BY <2>1, <2>2, <2>3
  <1>13. ASSUME NEW t \in TaskIds, TaskExpires(t)
        PROVE  HookPlace'
    BY <1>13 DEF TaskExpires, mapVars, endVars, hookVars, callVars, IndInv,
       TypeOK, HookPlace, Linked, Completed, Terminal
  <1>14. ASSUME NEW t \in TaskIds, ExpiryCancels(t)
        PROVE  HookPlace'
    BY <1>14 DEF ExpiryCancels, mapVars, endVars, hookVars, callVars,
       IndInv, TypeOK, HookPlace, Linked, Completed, Terminal
  <1>15. ASSUME NEW t \in TaskIds, TombstoneRemoved(t)
        PROVE  HookPlace'
    BY <1>15 DEF TombstoneRemoved, mapVars, endVars, hookVars, callVars,
       IndInv, TypeOK, HookPlace, Linked, Completed, Terminal
  <1>16. ASSUME NEW r \in Requests, NEW t \in TaskIds, NEW s \in Sessions,
                handleGetTask(r, t, s)
        PROVE  HookPlace'
    BY <1>16 DEF handleGetTask, LookupError, requestUnchanged, mapVars,
       endVars, hookVars, callVars, IndInv, TypeOK, HookPlace, Linked,
       Completed, Terminal
  <1>17. ASSUME NEW r \in Requests, NEW t \in TaskIds, NEW s \in Sessions,
                handleTaskResult(r, t, s)
        PROVE  HookPlace'
    BY <1>17 DEF handleTaskResult, LookupError, requestUnchanged, mapVars,
       endVars, hookVars, callVars, IndInv, TypeOK, HookPlace, Linked,
       Completed, Terminal
  <1>18. ASSUME NEW r \in Requests, NEW t \in TaskIds, NEW s \in Sessions,
                handleCancelTask(r, t, s)
        PROVE  HookPlace'
    BY <1>18 DEF handleCancelTask, LookupError, requestUnchanged, mapVars,
       endVars, hookVars, callVars, IndInv, TypeOK, HookPlace, Linked,
       Completed, Terminal
  <1>19. ASSUME NEW r \in Requests, TaskResultWakes(r)
        PROVE  HookPlace'
    BY <1>19 DEF TaskResultWakes, Goto, requestUnchanged, mapVars, endVars,
       hookVars, callVars, IndInv, TypeOK, HookPlace, Linked, Completed,
       Terminal
  <1>20. ASSUME NEW r \in Requests, TaskResultInterrupted(r)
        PROVE  HookPlace'
    BY <1>20 DEF TaskResultInterrupted, Reply, requestUnchanged, mapVars,
       endVars, hookVars, callVars, IndInv, TypeOK, HookPlace, Linked,
       Completed, Terminal
  <1>21. ASSUME NEW r \in Requests, TaskResultRefetches(r)
        PROVE  HookPlace'
    BY <1>21 DEF TaskResultRefetches, Reply, LookupError, requestUnchanged,
       mapVars, endVars, hookVars, callVars, IndInv, TypeOK, HookPlace,
       Linked, Completed, Terminal
  <1>22. ASSUME NEW r \in Requests, CancelTaskEnds(r)
        PROVE  HookPlace'
    BY <1>22 DEF CancelTaskEnds, Reply, Goto, requestUnchanged,
       cancelTaskEntry, EndTask, mapVars, endVars, hookVars, callVars, IndInv,
       TypeOK, HookPlace, Linked, Completed, Terminal
  <1>23. ASSUME NEW r \in Requests, CancelTaskRereads(r)
        PROVE  HookPlace'
    BY <1>23 DEF CancelTaskRereads, Reply, LookupError, requestUnchanged,
       mapVars, endVars, hookVars, callVars, IndInv, TypeOK, HookPlace,
       Linked, Completed, Terminal
  <1>24. CASE UNCHANGED vars
    BY <1>24 DEF vars, mapVars, endVars, hookVars, callVars, IndInv,
       TypeOK, HookPlace, Linked, Completed, Terminal
  <1> QED
    BY <1>1, <1>2, <1>3, <1>4, <1>5, <1>6, <1>7, <1>8, <1>9, <1>10, <1>11,
       <1>12, <1>13, <1>14, <1>15, <1>16, <1>17, <1>18, <1>19, <1>20, <1>21,
       <1>22, <1>23, <1>24
    DEF Next, CallNext, ExecNext, FinishNext, TTLNext, RequestNext

\* Every step keeps the cancel function within reach.
LEMMA ReachStep == IndInv /\ [Next]_vars => Reach'
  <1> SUFFICES ASSUME IndInv, [Next]_vars PROVE Reach'
    OBVIOUS
  <1>1. ASSUME NEW t \in TaskIds, NEW s \in Sessions, NEW h \in BOOLEAN,
               createTask(t, s, h)
        PROVE  Reach'
    BY <1>1 DEF createTask, mapVars, endVars, hookVars, callVars, IndInv,
       TypeOK, Reach, Linked, Completed, Terminal
  <1>2. ASSUME NEW t \in TaskIds, RejectTask(t)
        PROVE  Reach'
    BY <1>2 DEF RejectTask, EndContext, mapVars, endVars, hookVars,
       callVars, IndInv, TypeOK, Reach, Linked, Completed, Terminal
  <1>3. ASSUME NEW t \in TaskIds, CreatedHookReturns(t)
        PROVE  Reach'
    BY <1>3 DEF CreatedHookReturns, finishCreatedHook, mapVars, endVars,
       hookVars, callVars, IndInv, TypeOK, Reach, Linked, Completed, Terminal
  <1>4. ASSUME NEW t \in TaskIds, CreatedHookPanics(t)
        PROVE  Reach'
    BY <1>4 DEF CreatedHookPanics, finishCreatedHook, EndContext, mapVars,
       endVars, hookVars, callVars, IndInv, TypeOK, Reach, Linked, Completed,
       Terminal
  <1>5. ASSUME NEW t \in TaskIds, StartExecution(t)
        PROVE  Reach'
    BY <1>5 DEF StartExecution, mapVars, endVars, hookVars, callVars,
       IndInv, TypeOK, Reach, Linked, Completed, Terminal
  <1>6. ASSUME NEW t \in TaskIds, CallReturns(t)
        PROVE  Reach'
    BY <1>6 DEF CallReturns, EndContext, mapVars, endVars, hookVars,
       callVars, IndInv, TypeOK, Reach, Linked, Completed, Terminal
  <1>7. ASSUME NEW t \in TaskIds, CallCancelled(t)
        PROVE  Reach'
    BY <1>7 DEF CallCancelled, EndContext, mapVars, endVars, hookVars,
       callVars, IndInv, TypeOK, Reach, Linked, Completed, Terminal
  <1>8. ASSUME NEW t \in TaskIds, RegisterCancel(t)
        PROVE  Reach'
    <2>1. Completed(t) \/ t \notin tasks => taskDone'[t]
      BY <1>8 DEF RegisterCancel, IndInv, TypeOK
    <2>2. cancelFunc'[t] /\ UNCHANGED <<status, tasks, finish, ttl>>
      BY <1>8 DEF RegisterCancel, IndInv, TypeOK, mapVars, endVars,
         hookVars, callVars
    <2>3. \A u \in TaskIds : u # t => exec'[u] = exec[u] /\ cancelFunc'[u] = cancelFunc[u] /\ taskDone'[u] = taskDone[u]
      BY <1>8 DEF RegisterCancel, IndInv, TypeOK, mapVars, endVars,
         hookVars, callVars
    <2> QED BY <2>1, <2>2, <2>3 DEF IndInv, Reach, Completed
  <1>9. ASSUME NEW t \in TaskIds, NEW o \in Outcomes, HandlerReturns(t, o)
        PROVE  Reach'
    BY <1>9 DEF HandlerReturns, completeTask, cancelTaskEntry, EndTask,
       mapVars, endVars, hookVars, callVars, IndInv, TypeOK, Reach, Linked,
       Completed, Terminal
  <1>10. ASSUME NEW t \in TaskIds, ExecutionEnds(t)
        PROVE  Reach'
    BY <1>10 DEF ExecutionEnds, mapVars, endVars, hookVars, callVars,
       IndInv, TypeOK, Reach, Linked, Completed, Terminal
  <1>11. ASSUME NEW t \in TaskIds, FinishCancel(t)
        PROVE  Reach'
    BY <1>11 DEF FinishCancel, mapVars, endVars, hookVars, callVars,
       IndInv, TypeOK, Reach, Linked, Completed, Terminal
  <1>12. ASSUME NEW t \in TaskIds, fireTaskHook(t)
        PROVE  Reach'
    BY <1>12 DEF fireTaskHook, mapVars, endVars, hookVars, callVars,
       IndInv, TypeOK, Reach, Linked, Completed, Terminal
  <1>13. ASSUME NEW t \in TaskIds, TaskExpires(t)
        PROVE  Reach'
    BY <1>13 DEF TaskExpires, mapVars, endVars, hookVars, callVars, IndInv,
       TypeOK, Reach, Linked, Completed, Terminal
  <1>14. ASSUME NEW t \in TaskIds, ExpiryCancels(t)
        PROVE  Reach'
    BY <1>14 DEF ExpiryCancels, mapVars, endVars, hookVars, callVars,
       IndInv, TypeOK, Reach, Linked, Completed, Terminal
  <1>15. ASSUME NEW t \in TaskIds, TombstoneRemoved(t)
        PROVE  Reach'
    BY <1>15 DEF TombstoneRemoved, mapVars, endVars, hookVars, callVars,
       IndInv, TypeOK, Reach, Linked, Completed, Terminal
  <1>16. ASSUME NEW r \in Requests, NEW t \in TaskIds, NEW s \in Sessions,
                handleGetTask(r, t, s)
        PROVE  Reach'
    BY <1>16 DEF handleGetTask, LookupError, requestUnchanged, mapVars,
       endVars, hookVars, callVars, IndInv, TypeOK, Reach, Linked, Completed,
       Terminal
  <1>17. ASSUME NEW r \in Requests, NEW t \in TaskIds, NEW s \in Sessions,
                handleTaskResult(r, t, s)
        PROVE  Reach'
    BY <1>17 DEF handleTaskResult, LookupError, requestUnchanged, mapVars,
       endVars, hookVars, callVars, IndInv, TypeOK, Reach, Linked, Completed,
       Terminal
  <1>18. ASSUME NEW r \in Requests, NEW t \in TaskIds, NEW s \in Sessions,
                handleCancelTask(r, t, s)
        PROVE  Reach'
    BY <1>18 DEF handleCancelTask, LookupError, requestUnchanged, mapVars,
       endVars, hookVars, callVars, IndInv, TypeOK, Reach, Linked, Completed,
       Terminal
  <1>19. ASSUME NEW r \in Requests, TaskResultWakes(r)
        PROVE  Reach'
    BY <1>19 DEF TaskResultWakes, Goto, requestUnchanged, mapVars, endVars,
       hookVars, callVars, IndInv, TypeOK, Reach, Linked, Completed, Terminal
  <1>20. ASSUME NEW r \in Requests, TaskResultInterrupted(r)
        PROVE  Reach'
    BY <1>20 DEF TaskResultInterrupted, Reply, requestUnchanged, mapVars,
       endVars, hookVars, callVars, IndInv, TypeOK, Reach, Linked, Completed,
       Terminal
  <1>21. ASSUME NEW r \in Requests, TaskResultRefetches(r)
        PROVE  Reach'
    BY <1>21 DEF TaskResultRefetches, Reply, LookupError, requestUnchanged,
       mapVars, endVars, hookVars, callVars, IndInv, TypeOK, Reach, Linked,
       Completed, Terminal
  <1>22. ASSUME NEW r \in Requests, CancelTaskEnds(r)
        PROVE  Reach'
    BY <1>22 DEF CancelTaskEnds, Reply, Goto, requestUnchanged,
       cancelTaskEntry, EndTask, mapVars, endVars, hookVars, callVars, IndInv,
       TypeOK, Reach, Linked, Completed, Terminal
  <1>23. ASSUME NEW r \in Requests, CancelTaskRereads(r)
        PROVE  Reach'
    BY <1>23 DEF CancelTaskRereads, Reply, LookupError, requestUnchanged,
       mapVars, endVars, hookVars, callVars, IndInv, TypeOK, Reach, Linked,
       Completed, Terminal
  <1>24. CASE UNCHANGED vars
    BY <1>24 DEF vars, mapVars, endVars, hookVars, callVars, IndInv,
       TypeOK, Reach, Linked, Completed, Terminal
  <1> QED
    BY <1>1, <1>2, <1>3, <1>4, <1>5, <1>6, <1>7, <1>8, <1>9, <1>10, <1>11,
       <1>12, <1>13, <1>14, <1>15, <1>16, <1>17, <1>18, <1>19, <1>20, <1>21,
       <1>22, <1>23, <1>24
    DEF Next, CallNext, ExecNext, FinishNext, TTLNext, RequestNext

\* Every step keeps what the requests know.
LEMMA AskedStep == IndInv /\ [Next]_vars => Asked'
  <1> SUFFICES ASSUME IndInv, [Next]_vars PROVE Asked'
    OBVIOUS
  <1>1. ASSUME NEW t \in TaskIds, NEW s \in Sessions, NEW h \in BOOLEAN,
               createTask(t, s, h)
        PROVE  Asked'
    BY <1>1 DEF createTask, mapVars, endVars, hookVars, callVars, IndInv,
       TypeOK, Asked, AskedOf, Linked, Completed, Terminal, Statuses,
       MayAccess, RequestStates
  <1>2. ASSUME NEW t \in TaskIds, RejectTask(t)
        PROVE  Asked'
    BY <1>2 DEF RejectTask, EndContext, mapVars, endVars, hookVars,
       callVars, IndInv, TypeOK, Asked, AskedOf, Linked, Completed, Terminal,
       Statuses, MayAccess, RequestStates
  <1>3. ASSUME NEW t \in TaskIds, CreatedHookReturns(t)
        PROVE  Asked'
    BY <1>3 DEF CreatedHookReturns, finishCreatedHook, mapVars, endVars,
       hookVars, callVars, IndInv, TypeOK, Asked, AskedOf, Linked, Completed,
       Terminal, Statuses, MayAccess, RequestStates
  <1>4. ASSUME NEW t \in TaskIds, CreatedHookPanics(t)
        PROVE  Asked'
    BY <1>4 DEF CreatedHookPanics, finishCreatedHook, EndContext, mapVars,
       endVars, hookVars, callVars, IndInv, TypeOK, Asked, AskedOf, Linked,
       Completed, Terminal, Statuses, MayAccess, RequestStates
  <1>5. ASSUME NEW t \in TaskIds, StartExecution(t)
        PROVE  Asked'
    BY <1>5 DEF StartExecution, mapVars, endVars, hookVars, callVars,
       IndInv, TypeOK, Asked, AskedOf, Linked, Completed, Terminal, Statuses,
       MayAccess, RequestStates
  <1>6. ASSUME NEW t \in TaskIds, CallReturns(t)
        PROVE  Asked'
    BY <1>6 DEF CallReturns, EndContext, mapVars, endVars, hookVars,
       callVars, IndInv, TypeOK, Asked, AskedOf, Linked, Completed, Terminal,
       Statuses, MayAccess, RequestStates
  <1>7. ASSUME NEW t \in TaskIds, CallCancelled(t)
        PROVE  Asked'
    BY <1>7 DEF CallCancelled, EndContext, mapVars, endVars, hookVars,
       callVars, IndInv, TypeOK, Asked, AskedOf, Linked, Completed, Terminal,
       Statuses, MayAccess, RequestStates
  <1>8. ASSUME NEW t \in TaskIds, RegisterCancel(t)
        PROVE  Asked'
    BY <1>8 DEF RegisterCancel, mapVars, endVars, hookVars, callVars,
       IndInv, TypeOK, Asked, AskedOf, Linked, Completed, Terminal, Statuses,
       MayAccess, RequestStates
  <1>9. ASSUME NEW t \in TaskIds, NEW o \in Outcomes, HandlerReturns(t, o)
        PROVE  Asked'
    BY <1>9 DEF HandlerReturns, completeTask, cancelTaskEntry, EndTask,
       mapVars, endVars, hookVars, callVars, IndInv, TypeOK, Asked, AskedOf,
       Linked, Completed, Terminal, Statuses, MayAccess, RequestStates
  <1>10. ASSUME NEW t \in TaskIds, ExecutionEnds(t)
        PROVE  Asked'
    BY <1>10 DEF ExecutionEnds, mapVars, endVars, hookVars, callVars,
       IndInv, TypeOK, Asked, AskedOf, Linked, Completed, Terminal, Statuses,
       MayAccess, RequestStates
  <1>11. ASSUME NEW t \in TaskIds, FinishCancel(t)
        PROVE  Asked'
    BY <1>11 DEF FinishCancel, mapVars, endVars, hookVars, callVars,
       IndInv, TypeOK, Asked, AskedOf, Linked, Completed, Terminal, Statuses,
       MayAccess, RequestStates
  <1>12. ASSUME NEW t \in TaskIds, fireTaskHook(t)
        PROVE  Asked'
    BY <1>12 DEF fireTaskHook, mapVars, endVars, hookVars, callVars,
       IndInv, TypeOK, Asked, AskedOf, Linked, Completed, Terminal, Statuses,
       MayAccess, RequestStates
  <1>13. ASSUME NEW t \in TaskIds, TaskExpires(t)
        PROVE  Asked'
    BY <1>13 DEF TaskExpires, mapVars, endVars, hookVars, callVars, IndInv,
       TypeOK, Asked, AskedOf, Linked, Completed, Terminal, Statuses,
       MayAccess, RequestStates
  <1>14. ASSUME NEW t \in TaskIds, ExpiryCancels(t)
        PROVE  Asked'
    BY <1>14 DEF ExpiryCancels, mapVars, endVars, hookVars, callVars,
       IndInv, TypeOK, Asked, AskedOf, Linked, Completed, Terminal, Statuses,
       MayAccess, RequestStates
  <1>15. ASSUME NEW t \in TaskIds, TombstoneRemoved(t)
        PROVE  Asked'
    BY <1>15 DEF TombstoneRemoved, mapVars, endVars, hookVars, callVars,
       IndInv, TypeOK, Asked, AskedOf, Linked, Completed, Terminal, Statuses,
       MayAccess, RequestStates
  <1>16. ASSUME NEW r \in Requests, NEW t \in TaskIds, NEW s \in Sessions,
                handleGetTask(r, t, s)
        PROVE  Asked'
    <2> DEFINE e == LookupError(t, s)
               new == [op |-> "get", task |-> t, sess |-> s, pc |-> "answered", answer |-> IF e = "none" THEN status[t] ELSE e]
    <2>1. /\ req'[r] = new
          /\ \A q \in Requests : q # r => req'[q] = req[q]
      BY <1>16 DEF handleGetTask, IndInv, TypeOK
    <2>2. UNCHANGED <<status, stored, owner>>
      BY <1>16 DEF handleGetTask, requestUnchanged, endVars
    <2>3. e \in {"none", "expired", "notFound"} /\ (e = "none" => t \in tasks /\ MayAccess(t, s))
      BY DEF LookupError
    <2>4. status[t] \in Statuses /\ (t \in tasks => status[t] # "none")
      BY DEF IndInv, TypeOK, Linked
    <2>5. AskedOf(r)'
      <3> HIDE DEF e
      <3> QED BY <2>1, <2>2, <2>3, <2>4 DEF AskedOf, Completed, Terminal,
                 Statuses, Stored, MayAccess
    <2> QED BY <2>1, <2>2, <2>5, AskedKept DEF IndInv, Asked
  <1>17. ASSUME NEW r \in Requests, NEW t \in TaskIds, NEW s \in Sessions,
                handleTaskResult(r, t, s)
        PROVE  Asked'
    <2> DEFINE e == LookupError(t, s)
               new == [op |-> "result", task |-> t, sess |-> s, pc |-> IF e # "none" THEN "answered" ELSE IF Completed(t) THEN "refetch" ELSE "wait", answer |-> e]
    <2>1. /\ req'[r] = new
          /\ \A q \in Requests : q # r => req'[q] = req[q]
      BY <1>17 DEF handleTaskResult, IndInv, TypeOK
    <2>2. UNCHANGED <<status, stored, owner>>
      BY <1>17 DEF handleTaskResult, requestUnchanged, endVars
    <2>3. e \in {"none", "expired", "notFound"} /\ (e = "none" => t \in tasks /\ MayAccess(t, s))
      BY DEF LookupError
    <2>4. status[t] \in Statuses /\ (t \in tasks => status[t] # "none")
      BY DEF IndInv, TypeOK, Linked
    <2>5. AskedOf(r)'
      <3> HIDE DEF e
      <3> QED BY <2>1, <2>2, <2>3, <2>4 DEF AskedOf, Completed, Terminal,
                 Statuses, Stored, MayAccess
    <2> QED BY <2>1, <2>2, <2>5, AskedKept DEF IndInv, Asked
  <1>18. ASSUME NEW r \in Requests, NEW t \in TaskIds, NEW s \in Sessions,
                handleCancelTask(r, t, s)
        PROVE  Asked'
    <2> DEFINE e == LookupError(t, s)
               new == [op |-> "cancel", task |-> t, sess |-> s, pc |-> IF e = "none" THEN "end" ELSE "answered", answer |-> e]
    <2>1. /\ req'[r] = new
          /\ \A q \in Requests : q # r => req'[q] = req[q]
      BY <1>18 DEF handleCancelTask, IndInv, TypeOK
    <2>2. UNCHANGED <<status, stored, owner>>
      BY <1>18 DEF handleCancelTask, requestUnchanged, endVars
    <2>3. e \in {"none", "expired", "notFound"} /\ (e = "none" => t \in tasks /\ MayAccess(t, s))
      BY DEF LookupError
    <2>4. status[t] \in Statuses /\ (t \in tasks => status[t] # "none")
      BY DEF IndInv, TypeOK, Linked
    <2>5. AskedOf(r)'
      <3> HIDE DEF e
      <3> QED BY <2>1, <2>2, <2>3, <2>4 DEF AskedOf, Completed, Terminal,
                 Statuses, Stored, MayAccess
    <2> QED BY <2>1, <2>2, <2>5, AskedKept DEF IndInv, Asked
  <1>19. ASSUME NEW r \in Requests, TaskResultWakes(r)
        PROVE  Asked'
    <2> DEFINE t == req[r].task
    <2>1. t \in TaskIds /\ req[r] \in RequestStates
      BY DEF IndInv, TypeOK, RequestStates
    <2>2. Completed(t)
      BY <1>19, <2>1 DEF TaskResultWakes, IndInv, SlotAccounting
    <2>3. /\ req'[r] = [req[r] EXCEPT !.pc = "refetch"]
          /\ \A q \in Requests : q # r => req'[q] = req[q]
      BY <1>19, GotoFields DEF TaskResultWakes, IndInv
    <2>4. UNCHANGED <<status, stored, owner>>
      BY <1>19 DEF TaskResultWakes, requestUnchanged, endVars
    <2>5. /\ req'[r].pc = "refetch" /\ req'[r].task = t
          /\ req'[r].sess = req[r].sess /\ req'[r].op = req[r].op
      BY <2>1, <2>3 DEF RequestStates
    <2>6. AskedOf(r)
      BY DEF IndInv, Asked
    <2>7. AskedOf(r)'
      <3> HIDE DEF t
      <3> QED BY <1>19, <2>2, <2>4, <2>5, <2>6 DEF TaskResultWakes,
                 AskedOf, Completed, MayAccess, t
    <2> QED BY <2>3, <2>4, <2>7, AskedKept DEF IndInv, Asked
  <1>20. ASSUME NEW r \in Requests, TaskResultInterrupted(r)
        PROVE  Asked'
    <2> DEFINE t == req[r].task
               e == LookupError(t, req[r].sess)
    <2>1. t \in TaskIds /\ req[r].sess \in Sessions \union {NoSession} /\ req[r] \in RequestStates
      BY DEF IndInv, TypeOK, RequestStates
    <2>2. e \in {"none", "expired", "notFound"}
      BY DEF LookupError
    <2>3. AskedOf(r)
      BY DEF IndInv, Asked
    <2>4. "interrupted" \in Answers
      BY DEF Answers
    <2>5. /\ req'[r] = [req[r] EXCEPT !.pc = "answered", !.answer = "interrupted"]
          /\ \A q \in Requests : q # r => req'[q] = req[q]
      <3>1. "interrupted" \in Answers
      BY <2>1, <2>2, <2>4 DEF Answers, Statuses, Terminal, Stored
      <3> QED BY <1>20, <3>1, ReplyFields DEF TaskResultInterrupted, IndInv
    <2>6. UNCHANGED <<status, stored, owner>>
      BY <1>20 DEF TaskResultInterrupted, requestUnchanged, endVars
    <2>7. /\ req'[r].pc = "answered" /\ req'[r].answer = "interrupted"
          /\ req'[r].task = t /\ req'[r].sess = req[r].sess /\ req'[r].op = req[r].op
      BY <2>1, <2>5 DEF RequestStates
    <2>8. AskedOf(r)'
      <3> HIDE DEF e, t
      <3> QED BY <1>20, <2>2, <2>3, <2>4, <2>6, <2>7 DEF
                 TaskResultInterrupted, AskedOf, Completed, Terminal, Statuses,
                 Stored, MayAccess, t
    <2> QED BY <2>5, <2>6, <2>8, AskedKept DEF IndInv, Asked
  <1>21. ASSUME NEW r \in Requests, TaskResultRefetches(r)
        PROVE  Asked'
    <2> DEFINE t == req[r].task
               e == LookupError(t, req[r].sess)
    <2>1. t \in TaskIds /\ req[r].sess \in Sessions \union {NoSession} /\ req[r] \in RequestStates
      BY DEF IndInv, TypeOK, RequestStates
    <2>2. e \in {"none", "expired", "notFound"}
      BY DEF LookupError
    <2>3. AskedOf(r)
      BY DEF IndInv, Asked
    <2>4. Completed(t) /\ stored[t] \in Stored \ {"nothing"}
      BY <1>21, <2>1, <2>3 DEF TaskResultRefetches, AskedOf, IndInv,
         TypeOK, Linked
    <2>5. /\ req'[r] = [req[r] EXCEPT !.pc = "answered", !.answer = (IF e = "none" THEN stored[t] ELSE e)]
          /\ \A q \in Requests : q # r => req'[q] = req[q]
      <3>1. (IF e = "none" THEN stored[t] ELSE e) \in Answers
        BY <2>1, <2>2, <2>4 DEF Answers, Statuses, Terminal, Stored
      <3> QED BY <1>21, <3>1, ReplyFields DEF TaskResultRefetches, IndInv
    <2>6. UNCHANGED <<status, stored, owner>>
      BY <1>21 DEF TaskResultRefetches, requestUnchanged, endVars
    <2>7. /\ req'[r].pc = "answered" /\ req'[r].answer = (IF e = "none" THEN stored[t] ELSE e)
          /\ req'[r].task = t /\ req'[r].sess = req[r].sess /\ req'[r].op = req[r].op
      BY <2>1, <2>5 DEF RequestStates
    <2>8. AskedOf(r)'
      <3> HIDE DEF e, t
      <3> QED BY <1>21, <2>2, <2>3, <2>4, <2>6, <2>7 DEF
                 TaskResultRefetches, AskedOf, Completed, Terminal, Statuses, Stored,
                 MayAccess, t
    <2> QED BY <2>5, <2>6, <2>8, AskedKept DEF IndInv, Asked
  <1>22. ASSUME NEW r \in Requests, CancelTaskEnds(r)
        PROVE  Asked'
    <2> DEFINE t == req[r].task
    <2>1. t \in TaskIds /\ req[r] \in RequestStates /\ status[t] # "none"
      BY <1>22 DEF CancelTaskEnds, IndInv, TypeOK, RequestStates, Linked
    <2>2. AskedOf(r) /\ req[r].pc = "end"
      BY <1>22 DEF IndInv, Asked, CancelTaskEnds
    <2>3. UNCHANGED owner
      BY <1>22 DEF CancelTaskEnds, requestUnchanged
    <2>4. CASE Completed(t)
      <3>1. Reply(r, "notCancellable") /\ UNCHANGED <<status, stored>>
        BY <1>22, <2>4 DEF CancelTaskEnds, cancelTaskEntry, EndTask, endVars
      <3>2. /\ req'[r] = [req[r] EXCEPT !.pc = "answered", !.answer = "notCancellable"]
            /\ \A q \in Requests : q # r => req'[q] = req[q]
        BY <3>1, ReplyFields DEF IndInv, Answers
      <3>3. /\ req'[r].pc = "answered" /\ req'[r].answer = "notCancellable"
            /\ req'[r].task = t /\ req'[r].sess = req[r].sess
        BY <2>1, <3>2 DEF RequestStates
      <3>4. AskedOf(r)'
        <4> HIDE DEF t
        <4> QED BY <2>1, <2>2, <2>3, <2>4, <3>1, <3>3 DEF AskedOf,
                   Completed, Terminal, Stored, MayAccess, t
      <3> QED BY <2>3, <3>1, <3>2, <3>4, AskedKept DEF IndInv, Asked
    <2>5. CASE ~Completed(t)
      <3>1. cancelTaskEntry(t) /\ Goto(r, "ending")
        BY <1>22, <2>5 DEF CancelTaskEnds
      <3>2. /\ req'[r] = [req[r] EXCEPT !.pc = "ending"]
            /\ \A q \in Requests : q # r => req'[q] = req[q]
        BY <3>1, GotoFields DEF IndInv
      <3>3. /\ req'[r].pc = "ending"
            /\ req'[r].task = t /\ req'[r].sess = req[r].sess
        BY <2>1, <3>2 DEF RequestStates
      <3>4. /\ status' = [status EXCEPT ![t] = "cancelled"]
            /\ stored' = [stored EXCEPT ![t] = "canceled"]
        BY <3>1 DEF cancelTaskEntry, EndTask
      <3>5. AskedOf(r)'
        <4>1. status'[t] = "cancelled"
          BY <2>1, <3>4 DEF IndInv, TypeOK
        <4> HIDE DEF t
        <4> QED BY <2>2, <2>3, <3>3, <4>1 DEF AskedOf, MayAccess, t
      <3>6. \A q \in Requests : req[q].task \in TaskIds
        BY DEF IndInv, TypeOK, RequestStates
      <3>7. \A u \in TaskIds : /\ status[u] # "none" => status'[u] # "none"
                               /\ Completed(u) => status'[u] = status[u] /\ stored'[u] = stored[u]
        BY <2>1, <2>5, <3>4 DEF IndInv, TypeOK
      <3> QED BY <2>3, <3>2, <3>5, <3>6, <3>7, AskedKept DEF IndInv, Asked
    <2> QED BY <2>4, <2>5
  <1>23. ASSUME NEW r \in Requests, CancelTaskRereads(r)
        PROVE  Asked'
    <2> DEFINE t == req[r].task
               e == LookupError(t, req[r].sess)
    <2>1. t \in TaskIds /\ req[r].sess \in Sessions \union {NoSession} /\ req[r] \in RequestStates
      BY DEF IndInv, TypeOK, RequestStates
    <2>2. e \in {"none", "expired", "notFound"}
      BY DEF LookupError
    <2>3. AskedOf(r)
      BY DEF IndInv, Asked
    <2>4. status[t] = "cancelled"
      BY <1>23, <2>3 DEF CancelTaskRereads, AskedOf
    <2>5. /\ req'[r] = [req[r] EXCEPT !.pc = "answered", !.answer = (IF e = "none" THEN status[t] ELSE e)]
          /\ \A q \in Requests : q # r => req'[q] = req[q]
      <3>1. (IF e = "none" THEN status[t] ELSE e) \in Answers
        BY <2>1, <2>2, <2>4 DEF Answers, Statuses, Terminal, Stored
      <3> QED BY <1>23, <3>1, ReplyFields DEF CancelTaskRereads, IndInv
    <2>6. UNCHANGED <<status, stored, owner>>
      BY <1>23 DEF CancelTaskRereads, requestUnchanged, endVars
    <2>7. /\ req'[r].pc = "answered" /\ req'[r].answer = (IF e = "none" THEN status[t] ELSE e)
          /\ req'[r].task = t /\ req'[r].sess = req[r].sess /\ req'[r].op = req[r].op
      BY <2>1, <2>5 DEF RequestStates
    <2>8. AskedOf(r)'
      <3> HIDE DEF e, t
      <3> QED BY <1>23, <2>2, <2>3, <2>4, <2>6, <2>7 DEF
                 CancelTaskRereads, AskedOf, Completed, Terminal, Statuses, Stored,
                 MayAccess, t
    <2> QED BY <2>5, <2>6, <2>8, AskedKept DEF IndInv, Asked
  <1>24. CASE UNCHANGED vars
    BY <1>24 DEF vars, mapVars, endVars, hookVars, callVars, IndInv,
       TypeOK, Asked, AskedOf, Linked, Completed, Terminal, Statuses,
       MayAccess, RequestStates
  <1> QED
    BY <1>1, <1>2, <1>3, <1>4, <1>5, <1>6, <1>7, <1>8, <1>9, <1>10, <1>11,
       <1>12, <1>13, <1>14, <1>15, <1>16, <1>17, <1>18, <1>19, <1>20, <1>21,
       <1>22, <1>23, <1>24
    DEF Next, CallNext, ExecNext, FinishNext, TTLNext, RequestNext


-----------------------------------------------------------------------------
(* The theorems. *)

\* The initial state satisfies the invariant.
LEMMA InitInv == Init => IndInv
  <1> SUFFICES ASSUME Init PROVE IndInv
    OBVIOUS
  <1>1. TypeOK
    BY DEF Init, TypeOK, Statuses, Stored, RequestStates, Answers
  <1>2. Working = {}
    BY DEF Init, Working
  <1>3. SlotAccounting
    BY <1>2, FS_EmptySet, TasksAssumption DEF Init, SlotAccounting,
       Completed, Terminal, TasksAssumption
  <1>4. Linked /\ Reach
    BY DEF Init, Linked, Reach, Completed, Terminal
  <1>5. HookPlace
    BY DEF Init, HookPlace
  <1>6. Asked
    BY DEF Init, Asked, AskedOf
  <1> QED BY <1>1, <1>3, <1>4, <1>5, <1>6 DEF IndInv

\* Every reachable state satisfies the invariant.
LEMMA Invariance == Spec => []IndInv
  <1>1. IndInv /\ [Next]_vars => IndInv'
    BY TypeStep, LinkedStep, AccountingStep, HookPlaceStep, ReachStep,
       AskedStep DEF IndInv
  <1> QED BY InitInv, <1>1, PTL DEF Spec

\* For any tasks, sessions, requests and limit: the state has its type, the
\* counter never goes below zero and no done channel is closed twice.
THEOREM TypeCorrect == Spec => []TypeOK
  <1>1. IndInv => TypeOK
    BY DEF IndInv
  <1> QED BY Invariance, <1>1, PTL

\* activeTasks is the number of working tasks, within the limit of
\* WithMaxConcurrentTasks, and done is closed exactly for ended tasks.
THEOREM SlotsAccounted == Spec => []SlotAccounting
  <1>1. IndInv => SlotAccounting
    BY DEF IndInv
  <1> QED BY Invariance, <1>1, PTL

\* The hooks of a task run in order and none is forgotten.
THEOREM HooksOrdered == Spec => []HookOrder
  <1>1. IndInv => HookOrder
    <2> SUFFICES ASSUME IndInv, NEW t \in TaskIds
                 PROVE  /\ \/ hooksRun[t] = <<>>
                           \/ hooksRun[t] = <<"created">>
                           \/ hooksRun[t] = <<"created", status[t]>> /\ Completed(t)
                        /\ finish[t] = "over" /\ HasTaskHooks
                             => \/ Len(hooksRun[t]) = 2
                                \/ call[t] = "hook" /\ pendingHooks[t] = <<status[t]>>
      BY DEF HookOrder
    <2>1. finish[t] = "over" => Completed(t) /\ status[t] # "none"
      BY DEF IndInv, Linked, Completed, Terminal
    <2>2. hooksRun[t] = <<"created", status[t]>> => Len(hooksRun[t]) = 2
      OBVIOUS
    <2> QED BY <2>1, <2>2 DEF IndInv, HookPlace, Linked
  <1> QED BY Invariance, <1>1, PTL

\* No cancellation and no expiry misses a running handler.
THEOREM CancellationReaches == Spec => []CancellationReachesHandler
  <1>1. IndInv => CancellationReachesHandler
    BY DEF IndInv, Reach, CancellationReachesHandler
  <1> QED BY Invariance, <1>1, PTL

\* What clients were told about a task stays true.
THEOREM AnswersSound == Spec => []AnswersAgree
  <1>1. IndInv => AnswersAgree
    BY DEF IndInv, Asked, AskedOf, AnswersAgree
  <1> QED BY Invariance, <1>1, PTL

\* The end of an existing task is a Finish step of TaskLifecycle.
LEMMA EndRefines ==
  ASSUME IndInv, NEW t \in TaskIds, status[t] # "none",
         NEW s \in Terminal, NEW o \in Lifecycle!OutcomesOf(s), EndTask(t, s, o)
  PROVE  Lifecycle!LifecycleNext
  <1>1. status[t] = "working"
    BY EndedWasWorking
  <1>2. Lifecycle!Finish(t, s, o)
    BY <1>1 DEF EndTask, Lifecycle!Finish
  <1> QED BY <1>2 DEF Lifecycle!LifecycleNext, Terminal

\* The task facility implements its promise: statuses and outcomes change only
\* as TaskLifecycle allows, and the counter enforces the limit on working tasks.
THEOREM Refinement == Spec => ImplementsLifecycle
  <1>1. Init => Lifecycle!LifecycleInit
    BY DEF Init, Lifecycle!LifecycleInit
  <1>2. IndInv /\ [Next]_vars => [Lifecycle!LifecycleNext]_(Lifecycle!lifecycleVars)
    <2> SUFFICES ASSUME IndInv, [Next]_vars, ~ UNCHANGED
                        Lifecycle!lifecycleVars
                 PROVE  Lifecycle!LifecycleNext
      OBVIOUS
    <2>1. \/ \E t \in TaskIds, s \in Sessions, h \in BOOLEAN : createTask(t, s, h)
          \/ \E t \in TaskIds, o \in Outcomes : HandlerReturns(t, o)
          \/ \E r \in Requests : CancelTaskEnds(r)
      BY DEF Next, vars, Lifecycle!lifecycleVars, CallNext, ExecNext,
         FinishNext, TTLNext, RequestNext, RejectTask, CreatedHookReturns,
         CreatedHookPanics, StartExecution, CallReturns, CallCancelled,
         RegisterCancel, ExecutionEnds, FinishCancel, fireTaskHook,
         TaskExpires, ExpiryCancels, TombstoneRemoved, handleGetTask,
         handleTaskResult, handleCancelTask, TaskResultWakes,
         TaskResultInterrupted, TaskResultRefetches, CancelTaskRereads,
         endVars
    <2>2. ASSUME NEW t \in TaskIds, NEW s \in Sessions, NEW h \in BOOLEAN,
                 createTask(t, s, h)
          PROVE  Lifecycle!LifecycleNext
      <3>1. status[t] = "none"
        BY <2>2 DEF createTask, IndInv, Linked
      <3>2. MaxConcurrentTasks > 0 => Cardinality({u \in TaskIds : status[u] = "working"}) < MaxConcurrentTasks
        BY <2>2 DEF createTask, IndInv, SlotAccounting, Working
      <3>3. status' = [status EXCEPT ![t] = "working"] /\ UNCHANGED stored
        BY <2>2 DEF createTask
      <3>4. Lifecycle!Start(t)
        BY <3>1, <3>2, <3>3 DEF Lifecycle!Start, Cardinality,
           Lifecycle!Cardinality
      <3> QED BY <3>4 DEF Lifecycle!LifecycleNext
    <2>3. ASSUME NEW t \in TaskIds, NEW o \in Outcomes, HandlerReturns(t, o)
          PROVE  Lifecycle!LifecycleNext
      <3>1. ~Completed(t) /\ status[t] # "none"
        BY <2>3 DEF HandlerReturns, IndInv, Linked, endVars,
           Lifecycle!lifecycleVars, completeTask, cancelTaskEntry, EndTask
      <3>2. PICK s \in Terminal, a \in Stored : EndTask(t, s, a) /\ a \in Lifecycle!OutcomesOf(s)
        BY <2>3, <3>1 DEF HandlerReturns, completeTask,
           cancelTaskEntry, Terminal, Stored, Outcomes, Lifecycle!OutcomesOf
      <3> QED BY <3>1, <3>2, EndRefines
    <2>4. ASSUME NEW r \in Requests, CancelTaskEnds(r)
          PROVE  Lifecycle!LifecycleNext
      <3> DEFINE t == req[r].task
      <3>1. t \in TaskIds /\ status[t] # "none"
        BY <2>4 DEF CancelTaskEnds, IndInv, TypeOK, RequestStates, Linked
      <3>2. EndTask(t, "cancelled", "canceled")
        BY <2>4 DEF CancelTaskEnds, cancelTaskEntry, endVars,
           Lifecycle!lifecycleVars
      <3> QED BY <3>1, <3>2, EndRefines DEF Terminal, Lifecycle!OutcomesOf
    <2> QED BY <2>1, <2>2, <2>3, <2>4
  <1> QED BY <1>1, <1>2, Invariance, PTL DEF Spec, ImplementsLifecycle,
             Lifecycle!LifecycleSpec
=============================================================================
