------------------------------- MODULE Tasks -------------------------------
(***************************************************************************)
(* Task-augmented tool calls of the MCP server (server/server.go).         *)
(*                                                                         *)
(* A tools/call that asks for a task creates a task entry, starts the tool *)
(* handler on its own goroutine and answers at once.  The entry then ends  *)
(* in one of three ways: the handler returns (completeTask), a client      *)
(* sends tasks/cancel, or the handler gives up because its context ended   *)
(* (both cancelTaskEntry).  A TTL goroutine may delete the entry at any    *)
(* time, finished or not.  Goroutines meet only at tasksMu: every action   *)
(* below is one critical section of that lock, together with the local     *)
(* steps around it that no other goroutine can observe.                    *)
(***************************************************************************)
EXTENDS Integers, FiniteSets, Sequences

CONSTANTS
  TaskIds,            \* the UUIDs handed out by uuid.New; each names one task
  Sessions,           \* session IDs of the callers, NoSession possibly included
  NoSession,          \* getSessionID's "" of a context without a session
  Requests,           \* tasks/get, tasks/result and tasks/cancel requests
  MaxConcurrentTasks, \* WithMaxConcurrentTasks; 0 means no limit
  HasTaskHooks        \* whether WithTaskHooks was given

ASSUME TasksAssumption ==
  /\ IsFiniteSet(TaskIds)
  /\ MaxConcurrentTasks \in Nat
  /\ HasTaskHooks \in BOOLEAN

VARIABLES
  tasks,            \* the keys of s.tasks
  expiredTasks,     \* the keys of s.expiredTasks, the tombstones
  activeTasks,      \* s.activeTasks
  status,           \* entry.task.Status, "none" before the task exists
  stored,           \* entry.result or entry.resultErr
  owner,            \* entry.sessionID
  doneCloses,       \* how often entry.done was closed; a second close panics
  cancelFunc,       \* entry.cancelFunc # nil
  createdHookDone,  \* entry.createdHookDone
  pendingHooks,     \* entry.pendingHooks
  hooksRun,         \* the task hooks that ran for the entry, in order
  call,             \* program counter of the tools/call goroutine
  snapshot,         \* the status CreateTaskResult reports
  reqDone,          \* what ended the tools/call's context, "open" so far
  exec,             \* program counter of the handler's goroutine
  taskDone,         \* the handler's own cancellable context is cancelled
  ttl,              \* program counter of the task's TTL goroutine
  finish,           \* what the goroutine that ended the task has left to do
  req               \* the clients' task requests

callVars == <<call, snapshot, reqDone>>
hookVars == <<createdHookDone, pendingHooks, hooksRun>>
mapVars  == <<tasks, expiredTasks>>
endVars  == <<status, stored, doneCloses, activeTasks>>
vars == <<tasks, expiredTasks, activeTasks, status, stored, owner, doneCloses,
          cancelFunc, createdHookDone, pendingHooks, hooksRun, call, snapshot,
          reqDone, exec, taskDone, ttl, finish, req>>

-----------------------------------------------------------------------------
Terminal == {"completed", "failed", "cancelled"}
Statuses == {"none", "working"} \union Terminal
Stored   == {"nothing", "result", "toolError", "error", "canceled"}

\* What a tool handler can hand back.  "toolError" is a result that output
\* validation or the size limit replaces with an error result; "nil" is
\* neither a result nor an error; "ctxErr" wraps context.Canceled or
\* context.DeadlineExceeded, which is all the code looks at.
Outcomes == {"result", "toolError", "nil", "error", "panic", "ctxErr"}

Answers == {"none", "notFound", "expired", "interrupted", "notCancellable"}
             \union {"result", "toolError", "error", "canceled"} \union Statuses

\* IsTerminal of mcp.TaskStatus; entry.completed is set in the same critical
\* section, so it is the same predicate.
Completed(t) == status[t] \in Terminal

\* Cancelling a context that has ended already changes nothing.
EndContext(t, cause) ==
  reqDone' = [reqDone EXCEPT ![t] = IF @ = "open" THEN cause ELSE @]

\* Session isolation of getTask, getTaskEntry and listTasks: a task or a
\* caller without a session matches everything.
MayAccess(t, s) ==
  owner[t] = NoSession \/ s = NoSession \/ owner[t] = s

\* What getTask and getTaskEntry say of t to a caller of session s, when
\* they do not find the task.
LookupError(t, s) ==
  CASE t \notin tasks /\ t \in expiredTasks -> "expired"
    [] t \notin tasks /\ t \notin expiredTasks -> "notFound"
    [] t \in tasks /\ ~MayAccess(t, s) -> "notFound"
    [] OTHER -> "none"

\* A task request in progress.
RequestStates ==
  [op     : {"none", "get", "result", "cancel"},
   task   : TaskIds,
   sess   : Sessions \union {NoSession},
   pc     : {"idle", "wait", "refetch", "end", "ending", "answered"},
   answer : Answers]

\* Every variable has its type; the counter of running tasks is never
\* negative, and no done channel is closed twice (completeTask and
\* cancelTaskEntry would panic).
TypeOK ==
  /\ tasks \in SUBSET TaskIds
  /\ expiredTasks \in SUBSET TaskIds
  /\ activeTasks \in Nat
  /\ status \in [TaskIds -> Statuses]
  /\ stored \in [TaskIds -> Stored]
  /\ owner \in [TaskIds -> Sessions \union {NoSession}]
  /\ doneCloses \in [TaskIds -> {0, 1}]
  /\ cancelFunc \in [TaskIds -> BOOLEAN]
  /\ createdHookDone \in [TaskIds -> BOOLEAN]
  /\ pendingHooks \in [TaskIds -> Seq(Terminal)]
  /\ hooksRun \in [TaskIds -> Seq({"created"} \union Terminal)]
  /\ call \in [TaskIds -> {"idle", "hook", "snapshot", "respond", "returned",
                           "rejected"}]
  /\ snapshot \in [TaskIds -> Statuses]
  /\ reqDone \in [TaskIds -> {"open", "notified", "returned"}]
  /\ exec \in [TaskIds -> {"none", "spawned", "running", "ending", "ended"}]
  /\ taskDone \in [TaskIds -> BOOLEAN]
  /\ ttl \in [TaskIds -> {"none", "wanted", "sleeping", "cancel", "tombstone",
                          "gone"}]
  /\ finish \in [TaskIds -> {"none", "cancel", "observe", "over"}]
  /\ req \in [Requests -> RequestStates]

Init ==
  /\ tasks = {}
  /\ expiredTasks = {}
  /\ activeTasks = 0
  /\ status = [t \in TaskIds |-> "none"]
  /\ stored = [t \in TaskIds |-> "nothing"]
  /\ owner = [t \in TaskIds |-> NoSession]
  /\ doneCloses = [t \in TaskIds |-> 0]
  /\ cancelFunc = [t \in TaskIds |-> FALSE]
  /\ createdHookDone = [t \in TaskIds |-> FALSE]
  /\ pendingHooks = [t \in TaskIds |-> <<>>]
  /\ hooksRun = [t \in TaskIds |-> <<>>]
  /\ call = [t \in TaskIds |-> "idle"]
  /\ snapshot = [t \in TaskIds |-> "none"]
  /\ reqDone = [t \in TaskIds |-> "open"]
  /\ exec = [t \in TaskIds |-> "none"]
  /\ taskDone = [t \in TaskIds |-> FALSE]
  /\ ttl = [t \in TaskIds |-> "none"]
  /\ finish = [t \in TaskIds |-> "none"]
  /\ \E t0 \in TaskIds :
       req = [r \in Requests |->
                [op |-> "none", task |-> t0, sess |-> NoSession,
                 pc |-> "idle", answer |-> "none"]]

-----------------------------------------------------------------------------
(* The tools/call goroutine: handleTaskAugmentedToolCall inside            *)
(* HandleMessage.                                                          *)

\* createTask's critical section: check the limit, count, insert.  Without
\* hooks the call goes on at once; with hooks the created hook now runs,
\* outside the lock.
createTask(t, s, hasTTL) ==
  /\ call[t] = "idle"
  /\ MaxConcurrentTasks > 0 => activeTasks < MaxConcurrentTasks
  /\ activeTasks' = activeTasks + 1
  /\ tasks' = tasks \union {t}
  /\ status' = [status EXCEPT ![t] = "working"]
  /\ owner' = [owner EXCEPT ![t] = s]
  /\ createdHookDone' = [createdHookDone EXCEPT ![t] = ~HasTaskHooks]
  /\ call' = [call EXCEPT ![t] = IF HasTaskHooks THEN "hook" ELSE "snapshot"]
  /\ ttl' = [ttl EXCEPT ![t] = IF ~hasTTL THEN "none"
                               ELSE IF HasTaskHooks THEN "wanted" ELSE "sleeping"]
  /\ UNCHANGED <<expiredTasks, stored, doneCloses, cancelFunc, pendingHooks,
                 hooksRun, snapshot, reqDone, exec, taskDone, finish, req>>

\* createTask's refusal at the limit; the call ends with an internal error.
RejectTask(t) ==
  /\ call[t] = "idle"
  /\ MaxConcurrentTasks > 0
  /\ activeTasks >= MaxConcurrentTasks
  /\ call' = [call EXCEPT ![t] = "rejected"]
  /\ EndContext(t, "returned")
  /\ UNCHANGED <<mapVars, endVars, owner, cancelFunc, hookVars, snapshot, exec,
                 taskDone, ttl, finish, req>>

\* Mutant: the hooks that waited for the created hook are forgotten.
finishCreatedHook_Forgets(t) ==
  /\ createdHookDone' = [createdHookDone EXCEPT ![t] = TRUE]
  /\ pendingHooks' = [pendingHooks EXCEPT ![t] = <<>>]
  /\ hooksRun' = [hooksRun EXCEPT ![t] = Append(@, "created")]

\* finishCreatedHook: the hook has returned or panicked; it counts as run, the
\* hooks that waited for it run now, on this goroutine.
finishCreatedHook(t) ==
  /\ createdHookDone' = [createdHookDone EXCEPT ![t] = TRUE]
  /\ pendingHooks' = [pendingHooks EXCEPT ![t] = <<>>]
  /\ hooksRun' = [hooksRun EXCEPT ![t] = @ \o <<"created">> \o pendingHooks[t]]

\* The created hook returns; createTask starts the TTL goroutine, if any.
CreatedHookReturns(t) ==
  /\ call[t] = "hook"
  /\ finishCreatedHook(t)
  /\ call' = [call EXCEPT ![t] = "snapshot"]
  /\ ttl' = [ttl EXCEPT ![t] = IF @ = "wanted" THEN "sleeping" ELSE @]
  /\ UNCHANGED <<mapVars, endVars, owner, cancelFunc, snapshot, reqDone, exec,
                 taskDone, finish, req>>

\* The created hook panics: the deferred finishCreatedHook runs, then the
\* panic leaves createTask and HandleMessage, whose deferred cancel ends the
\* request's context.  Neither the TTL goroutine nor the handler is started.
CreatedHookPanics(t) ==
  /\ call[t] = "hook"
  /\ finishCreatedHook(t)
  /\ call' = [call EXCEPT ![t] = "returned"]
  /\ EndContext(t, "returned")
  /\ ttl' = [ttl EXCEPT ![t] = "none"]
  /\ UNCHANGED <<mapVars, endVars, owner, cancelFunc, snapshot, exec, taskDone,
                 finish, req>>

\* The answer's copy of the task is taken before the handler's goroutine is
\* started.
StartExecution(t) ==
  /\ call[t] = "snapshot"
  /\ snapshot' = [snapshot EXCEPT ![t] = status[t]]
  /\ exec' = [exec EXCEPT ![t] = "spawned"]
  /\ call' = [call EXCEPT ![t] = "respond"]
  /\ UNCHANGED <<mapVars, endVars, owner, cancelFunc, hookVars, reqDone,
                 taskDone, ttl, finish, req>>

\* HandleMessage returns the CreateTaskResult; its deferred cancel ends the
\* context the handler's context was derived from.
CallReturns(t) ==
  /\ call[t] = "respond"
  /\ call' = [call EXCEPT ![t] = "returned"]
  /\ EndContext(t, "returned")
  /\ UNCHANGED <<mapVars, endVars, owner, cancelFunc, hookVars, snapshot, exec,
                 taskDone, ttl, finish, req>>

\* The client cancels the tools/call itself while it is in flight: by
\* notifications/cancelled, or by dropping its connection.
CallCancelled(t) ==
  /\ call[t] \in {"hook", "snapshot", "respond"}
  /\ EndContext(t, "notified")
  /\ UNCHANGED <<mapVars, endVars, owner, cancelFunc, hookVars, call, snapshot,
                 exec, taskDone, ttl, finish, req>>

-----------------------------------------------------------------------------
(* The end of a task, and what the goroutine that ended it does next.      *)

\* Mutant: no guard against a second end of the task.
EndTask_Unguarded(t, newStatus, newStored) ==
  /\ status' = [status EXCEPT ![t] = newStatus]
  /\ stored' = [stored EXCEPT ![t] = newStored]
  /\ doneCloses' = [doneCloses EXCEPT ![t] = @ + 1]
  /\ activeTasks' = activeTasks - 1

\* Mutant: the task ends without closing its done channel.
EndTask_NotClosed(t, newStatus, newStored) ==
  /\ ~Completed(t)
  /\ status' = [status EXCEPT ![t] = newStatus]
  /\ stored' = [stored EXCEPT ![t] = newStored]
  /\ activeTasks' = activeTasks - 1
  /\ UNCHANGED doneCloses

\* Mutant: only a completed task gives its slot back.
EndTask_SlotLeaks(t, newStatus, newStored) ==
  /\ ~Completed(t)
  /\ status' = [status EXCEPT ![t] = newStatus]
  /\ stored' = [stored EXCEPT ![t] = newStored]
  /\ doneCloses' = [doneCloses EXCEPT ![t] = @ + 1]
  /\ activeTasks' = activeTasks - (IF newStatus = "completed" THEN 1 ELSE 0)

\* The part completeTask and cancelTaskEntry share, under tasksMu.
EndTask(t, newStatus, newStored) ==
  /\ ~Completed(t)
  /\ status' = [status EXCEPT ![t] = newStatus]
  /\ stored' = [stored EXCEPT ![t] = newStored]
  /\ doneCloses' = [doneCloses EXCEPT ![t] = @ + 1]
  /\ activeTasks' = activeTasks - 1

\* completeTask by the handler's goroutine: a result, or an error.
completeTask(t, newStored) ==
  /\ EndTask(t, IF newStored = "error" THEN "failed" ELSE "completed", newStored)
  /\ finish' = [finish EXCEPT ![t] = "observe"]

\* cancelTaskEntry: the cancel function is read in the critical section and
\* called after it.
cancelTaskEntry(t) ==
  /\ EndTask(t, "cancelled", "canceled")
  /\ finish' = [finish EXCEPT ![t] = IF cancelFunc[t] THEN "cancel" ELSE "observe"]

\* cancelTaskEntry calls the cancel function it read.
FinishCancel(t) ==
  /\ finish[t] = "cancel"
  /\ taskDone' = [taskDone EXCEPT ![t] = TRUE]
  /\ finish' = [finish EXCEPT ![t] = "observe"]
  /\ UNCHANGED <<mapVars, endVars, owner, cancelFunc, hookVars, callVars, exec,
                 ttl, req>>

\* Mutant: the terminal hook does not wait for the created hook.
fireTaskHook_NoWait(t) ==
  /\ finish[t] = "observe"
  /\ finish' = [finish EXCEPT ![t] = "over"]
  /\ hooksRun' = [hooksRun EXCEPT ![t] = Append(@, status[t])]
  /\ UNCHANGED <<mapVars, endVars, owner, cancelFunc, createdHookDone,
                 pendingHooks, callVars, exec, taskDone, ttl, req>>

\* sendTaskStatusNotification, a broadcast that never blocks, and fireTaskHook:
\* run the hook now, or leave it to the created hook.
fireTaskHook(t) ==
  /\ finish[t] = "observe"
  /\ finish' = [finish EXCEPT ![t] = "over"]
  /\ \/ ~HasTaskHooks /\ UNCHANGED <<pendingHooks, hooksRun>>
     \/ /\ HasTaskHooks
        /\ createdHookDone[t]
        /\ hooksRun' = [hooksRun EXCEPT ![t] = Append(@, status[t])]
        /\ UNCHANGED pendingHooks
     \/ /\ ~createdHookDone[t]
        /\ pendingHooks' = [pendingHooks EXCEPT ![t] = Append(@, status[t])]
        /\ UNCHANGED hooksRun
  /\ UNCHANGED <<mapVars, endVars, owner, cancelFunc, createdHookDone, callVars,
                 exec, taskDone, ttl, req>>

-----------------------------------------------------------------------------
(* The handler's goroutine: executeTaskTool and executeRegularToolAsTask.  *)

\* Mutant: only a deleted task is noticed, not one that was cancelled.
RegisterCancel_MissesEnded(t) ==
  /\ exec[t] = "spawned"
  /\ cancelFunc' = [cancelFunc EXCEPT ![t] = TRUE]
  /\ taskDone' = [taskDone EXCEPT ![t] = @ \/ t \notin tasks]
  /\ exec' = [exec EXCEPT ![t] = "running"]
  /\ UNCHANGED <<mapVars, endVars, owner, hookVars, callVars, ttl, finish, req>>

\* Register the cancel function; a task that was deleted or ended before is
\* cancelled on the spot.
RegisterCancel(t) ==
  /\ exec[t] = "spawned"
  /\ cancelFunc' = [cancelFunc EXCEPT ![t] = TRUE]
  /\ taskDone' = [taskDone EXCEPT ![t] = @ \/ t \notin tasks \/ Completed(t)]
  /\ exec' = [exec EXCEPT ![t] = "running"]
  /\ UNCHANGED <<mapVars, endVars, owner, hookVars, callVars, ttl, finish, req>>

\* Mutant: a handler that gave up with its context leaves the task to
\* tasks/cancel.
HandlerReturns_LeavesCancelled(t, o) ==
  /\ exec[t] = "running"
  /\ \/ /\ Completed(t) \/ o = "ctxErr"
        /\ exec' = [exec EXCEPT ![t] = "ended"]
        /\ taskDone' = [taskDone EXCEPT ![t] = TRUE]
        /\ UNCHANGED <<endVars, finish>>
     \/ /\ o # "ctxErr"
        /\ completeTask(t, IF o \in {"result", "toolError"} THEN o ELSE "error")
        /\ exec' = [exec EXCEPT ![t] = "ending"]
        /\ UNCHANGED taskDone
  /\ UNCHANGED <<mapVars, owner, cancelFunc, hookVars, callVars, ttl, req>>

\* The handler returns outcome o and its goroutine tries to end the task.  A
\* context error ends it as cancelled, be it that of the handler's own context,
\* a child of the tools/call's, or of one it made itself.  When it panics, the
\* deferred cancel runs before the recovery ends the task; the panic of a regular
\* tool without WithRecovery, which executeRegularToolAsTask does not recover,
\* ends the process and is not a step of this module.
HandlerReturns(t, o) ==
  /\ exec[t] = "running"
  /\ \/ /\ Completed(t)
        /\ exec' = [exec EXCEPT ![t] = "ended"]
        /\ taskDone' = [taskDone EXCEPT ![t] = TRUE]
        /\ UNCHANGED <<endVars, finish>>
     \/ /\ CASE o = "ctxErr" -> cancelTaskEntry(t)
             [] o \in {"result", "toolError"} -> completeTask(t, o)
             [] OTHER -> completeTask(t, "error")
        /\ exec' = [exec EXCEPT ![t] = "ending"]
        /\ taskDone' = [taskDone EXCEPT ![t] = @ \/ o = "panic"]
  /\ UNCHANGED <<mapVars, owner, cancelFunc, hookVars, callVars, ttl, req>>

\* The goroutine that ended the task itself returns; its deferred cancel runs.
ExecutionEnds(t) ==
  /\ exec[t] = "ending"
  /\ finish[t] = "over"
  /\ exec' = [exec EXCEPT ![t] = "ended"]
  /\ taskDone' = [taskDone EXCEPT ![t] = TRUE]
  /\ UNCHANGED <<mapVars, endVars, owner, cancelFunc, hookVars, callVars, ttl,
                 finish, req>>

-----------------------------------------------------------------------------
(* The TTL goroutine: scheduleTaskCleanup.                                 *)

\* The sleep is over: delete the entry, leave a tombstone, and read the cancel
\* function of an entry that has not ended.
TaskExpires(t) ==
  /\ ttl[t] = "sleeping"
  /\ tasks' = tasks \ {t}
  /\ expiredTasks' = expiredTasks \union {t}
  /\ ttl' = [ttl EXCEPT ![t] = IF ~Completed(t) /\ cancelFunc[t]
                               THEN "cancel" ELSE "tombstone"]
  /\ UNCHANGED <<endVars, owner, cancelFunc, hookVars, callVars, exec, taskDone,
                 finish, req>>

\* The goroutine calls the cancel function it read.
ExpiryCancels(t) ==
  /\ ttl[t] = "cancel"
  /\ taskDone' = [taskDone EXCEPT ![t] = TRUE]
  /\ ttl' = [ttl EXCEPT ![t] = "tombstone"]
  /\ UNCHANGED <<mapVars, endVars, owner, cancelFunc, hookVars, callVars, exec,
                 finish, req>>

\* Five minutes later the tombstone goes too.
TombstoneRemoved(t) ==
  /\ ttl[t] = "tombstone"
  /\ expiredTasks' = expiredTasks \ {t}
  /\ ttl' = [ttl EXCEPT ![t] = "gone"]
  /\ UNCHANGED <<tasks, endVars, owner, cancelFunc, hookVars, callVars, exec,
                 taskDone, finish, req>>

-----------------------------------------------------------------------------
(* The clients' requests about tasks.                                      *)

requestUnchanged ==
  UNCHANGED <<mapVars, owner, cancelFunc, hookVars, callVars, exec, taskDone, ttl>>

Reply(r, a) == req' = [req EXCEPT ![r].pc = "answered", ![r].answer = a]
Goto(r, pc) == req' = [req EXCEPT ![r].pc = pc]

\* handleGetTask: one read.
handleGetTask(r, t, s) ==
  /\ req[r].pc = "idle"
  /\ req' = [req EXCEPT ![r] =
               [op |-> "get", task |-> t, sess |-> s, pc |-> "answered",
                answer |-> IF LookupError(t, s) = "none"
                           THEN status[t] ELSE LookupError(t, s)]]
  /\ requestUnchanged
  /\ UNCHANGED <<endVars, finish>>

\* handleTaskResult, its getTask: the task must be found; a task that has not
\* ended is waited for.
handleTaskResult(r, t, s) ==
  /\ req[r].pc = "idle"
  /\ req' = [req EXCEPT ![r] =
               [op |-> "result", task |-> t, sess |-> s,
                pc |-> IF LookupError(t, s) # "none" THEN "answered"
                       ELSE IF Completed(t) THEN "refetch" ELSE "wait",
                answer |-> LookupError(t, s)]]
  /\ requestUnchanged
  /\ UNCHANGED <<endVars, finish>>

\* Mutant: the wait does not look at the done channel.
TaskResultWakes_Early(r) ==
  /\ req[r].pc = "wait"
  /\ Goto(r, "refetch")
  /\ requestUnchanged
  /\ UNCHANGED <<endVars, finish>>

\* handleTaskResult's wait ends: entry.done is closed ...
TaskResultWakes(r) ==
  /\ req[r].pc = "wait"
  /\ doneCloses[req[r].task] > 0
  /\ Goto(r, "refetch")
  /\ requestUnchanged
  /\ UNCHANGED <<endVars, finish>>

\* ... or the context of the tasks/result request itself ends.
TaskResultInterrupted(r) ==
  /\ req[r].pc = "wait"
  /\ Reply(r, "interrupted")
  /\ requestUnchanged
  /\ UNCHANGED <<endVars, finish>>

\* handleTaskResult looks the entry up again and reads its result.
TaskResultRefetches(r) ==
  LET t == req[r].task
      e == LookupError(t, req[r].sess)
  IN  /\ req[r].pc = "refetch"
      /\ Reply(r, IF e = "none" THEN stored[t] ELSE e)
      /\ requestUnchanged
      /\ UNCHANGED <<endVars, finish>>

\* handleCancelTask, its getTaskEntry.
handleCancelTask(r, t, s) ==
  /\ req[r].pc = "idle"
  /\ req' = [req EXCEPT ![r] =
               [op |-> "cancel", task |-> t, sess |-> s,
                pc |-> IF LookupError(t, s) = "none" THEN "end" ELSE "answered",
                answer |-> LookupError(t, s)]]
  /\ requestUnchanged
  /\ UNCHANGED <<endVars, finish>>

\* handleCancelTask ends the task, or is told that it has ended.
CancelTaskEnds(r) ==
  LET t == req[r].task
  IN  /\ req[r].pc = "end"
      /\ \/ Completed(t) /\ Reply(r, "notCancellable") /\ UNCHANGED <<endVars, finish>>
         \/ cancelTaskEntry(t) /\ Goto(r, "ending")
      /\ requestUnchanged

\* handleCancelTask reads the task again for its answer.
CancelTaskRereads(r) ==
  LET t == req[r].task
      e == LookupError(t, req[r].sess)
  IN  /\ req[r].pc = "ending"
      /\ finish[t] = "over"
      /\ Reply(r, IF e = "none" THEN status[t] ELSE e)
      /\ requestUnchanged
      /\ UNCHANGED <<endVars, finish>>

-----------------------------------------------------------------------------
CallNext(t) ==
  \/ \E s \in Sessions, hasTTL \in BOOLEAN : createTask(t, s, hasTTL)
  \/ RejectTask(t)
  \/ CreatedHookReturns(t)
  \/ CreatedHookPanics(t)
  \/ StartExecution(t)
  \/ CallReturns(t)
  \/ CallCancelled(t)

ExecNext(t) ==
  \/ RegisterCancel(t)
  \/ \E o \in Outcomes : HandlerReturns(t, o)
  \/ ExecutionEnds(t)

FinishNext(t) == FinishCancel(t) \/ fireTaskHook(t)

TTLNext(t) == TaskExpires(t) \/ ExpiryCancels(t) \/ TombstoneRemoved(t)

RequestNext(r) ==
  \/ \E t \in TaskIds, s \in Sessions :
       \/ handleGetTask(r, t, s)
       \/ handleTaskResult(r, t, s)
       \/ handleCancelTask(r, t, s)
  \/ TaskResultWakes(r)
  \/ TaskResultInterrupted(r)
  \/ TaskResultRefetches(r)
  \/ CancelTaskEnds(r)
  \/ CancelTaskRereads(r)

Next ==
  \/ \E t \in TaskIds : CallNext(t) \/ ExecNext(t) \/ FinishNext(t) \/ TTLNext(t)
  \/ \E r \in Requests : RequestNext(r)

Spec == Init /\ [][Next]_vars

\* The Go scheduler runs every goroutine that can take a step, timers fire,
\* and hooks and tool handlers return; a tool handler may take its time, and
\* no client has to send anything.
Fairness ==
  /\ \A t \in TaskIds :
       /\ WF_vars(CreatedHookReturns(t) \/ CreatedHookPanics(t))
       /\ WF_vars(StartExecution(t) \/ CallReturns(t))
       /\ WF_vars(ExecNext(t))
       /\ WF_vars(FinishNext(t))
       /\ WF_vars(TTLNext(t))
  /\ \A r \in Requests :
       WF_vars(TaskResultWakes(r) \/ TaskResultRefetches(r)
                 \/ CancelTaskEnds(r) \/ CancelTaskRereads(r))

FairSpec == Spec /\ Fairness

-----------------------------------------------------------------------------
Working == {t \in TaskIds : status[t] = "working"}

\* createTask counts a task in and whoever ends it counts it out, exactly
\* once: activeTasks is the number of working tasks, expired ones included,
\* and done is closed exactly when the task has ended.
SlotAccounting ==
  /\ activeTasks = Cardinality(Working)
  /\ MaxConcurrentTasks > 0 => activeTasks <= MaxConcurrentTasks
  /\ \A t \in TaskIds : doneCloses[t] = IF Completed(t) THEN 1 ELSE 0

\* Observers see a task's hooks in order: nothing before the created hook,
\* then at most one hook, that of the status the task ended with
\* (fireTaskHook, finishCreatedHook); and once the goroutine that ended the
\* task is through, that hook has run or the created hook will run it.
HookOrder ==
  \A t \in TaskIds :
    /\ \/ hooksRun[t] = <<>>
       \/ hooksRun[t] = <<"created">>
       \/ hooksRun[t] = <<"created", status[t]>> /\ Completed(t)
    /\ finish[t] = "over" /\ HasTaskHooks
         => \/ Len(hooksRun[t]) = 2
            \/ call[t] = "hook" /\ pendingHooks[t] = <<status[t]>>

\* A cancelled or expired task whose handler runs has the handler's context
\* cancelled, or somebody about to cancel it: neither tasks/cancel nor the TTL
\* can slip between the start of the goroutine and the registration of its
\* cancel function (executeTaskTool's check under tasksMu).
CancellationReachesHandler ==
  \A t \in TaskIds :
    exec[t] = "running" /\ (Completed(t) \/ t \notin tasks)
      => taskDone[t] \/ finish[t] = "cancel" \/ ttl[t] = "cancel"

\* What clients are told stays true: a tasks/result answer is the outcome the
\* task ended with, never an empty result; a terminal status, once reported,
\* is the task's status for good; and a client of another session learns
\* nothing (handleGetTask, handleTaskResult, handleCancelTask).
AnswersAgree ==
  \A r \in Requests :
    LET t == req[r].task
        a == req[r].answer
    IN  req[r].pc = "answered" =>
          /\ a \notin {"none", "nothing"}
          /\ a \in Stored => req[r].op = "result" /\ Completed(t) /\ a = stored[t]
          /\ a \in Terminal => a = status[t]
          /\ a = "working" => req[r].op = "get"
          /\ a = "notCancellable" => Completed(t)
          /\ a \notin {"notFound", "expired"} => MayAccess(t, req[r].sess)

\* Every execution that was started ends its task (executeTaskTool), whatever
\* the handler returns and whether or not the entry has expired meanwhile.
TaskEnds ==
  \A t \in TaskIds : exec[t] # "none" ~> Completed(t)

\* A tasks/result that waits for a started task is answered, also when the
\* entry is deleted under it (handleTaskResult).
WaiterAnswered ==
  \A r \in Requests :
    (\E t \in TaskIds : req[r].pc = "wait" /\ req[r].task = t /\ exec[t] # "none")
      ~> req[r].pc = "answered"

\* A task that ended has its terminal hook run, after the created hook, even
\* one that panics (createTask, finishCreatedHook).
TerminalHookRuns ==
  HasTaskHooks =>
    \A t \in TaskIds : Completed(t) ~> Len(hooksRun[t]) = 2

\* The clients' view of the tasks: the statuses and the stored outcomes.
Lifecycle == INSTANCE TaskLifecycle
               WITH Limit <- MaxConcurrentTasks, state <- status, outcome <- stored

\* Whatever goroutines end a task, its status and outcome go through the
\* promised life, and the counter keeps the limit on working tasks
\* (createTask, completeTask, cancelTaskEntry).
ImplementsLifecycle == Lifecycle!LifecycleSpec

\* The documentation's meaning of the status: a task is cancelled by the
\* client, that is by tasks/cancel or by notifications/cancelled for the call,
\* or else by its TTL.
CancelledByClient ==
  \A t \in TaskIds :
    status[t] = "cancelled" =>
      \/ \E r \in Requests : req[r].op = "cancel" /\ req[r].task = t
      \/ reqDone[t] = "notified"
      \/ t \notin tasks
=============================================================================
