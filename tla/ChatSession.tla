---------------------------- MODULE ChatSession ----------------------------
(***************************************************************************)
(* Chat sessions: the transcript of a session and its row in the list      *)
(* (transcript.py), the registry of what runs in it (run_state.py), the    *)
(* turns and the decisions about shell commands (api/chat_sessions.py,     *)
(* runtime.py, tools.py, approval.py, chat_turns.py), together with        *)
(* deletion and renaming, which run in threads, the emergency stop,        *)
(* shutdown and crashes.                                                   *)
(*                                                                         *)
(* A transcript is reduced to what is decided from it: whether its file    *)
(* is there, whether its last event is a runtime error, and which shell    *)
(* request it leaves unresolved.  A turn gives up the event loop while its *)
(* runtime is built and while the model answers, nowhere else: publishing  *)
(* an event never waits, and a command runs on the event loop.             *)
(* Not modelled: history and activity pages, search, titles, the sessions  *)
(* of hooks, and the job recorded for a command (JobQueue).                *)
(***************************************************************************)
EXTENDS Naturals, Sequences, FiniteSets, SequencesExt

CONSTANTS
  Sessions,     \* identifiers start_new may draw
  NoSession,    \* no active session
  MaxRequests,  \* chat turns and approvals that get under way
  MaxShells,    \* shell commands the model asks for
  MaxRuns,      \* how often one of them is run
  Iterations,   \* rounds of _run_model_loop (8)
  MaxLives,     \* how often the process is started
  Mishaps       \* which of "disk" (a write fails), "threads" (rename, activate) occur

ASSUME NoSessionIsNone == NoSession \notin Sessions /\ IsFiniteSet(Sessions)
ASSUME BoundsAreNat == {MaxRequests, MaxShells, MaxRuns, Iterations, MaxLives} \subseteq Nat \ {0}
ASSUME MishapsAreKnown == Mishaps \subseteq {"disk", "threads"}

VARIABLES
  born,      \* sessions that were ever started
  file,      \* the transcripts: <session>.jsonl
  row,       \* transcript_metadata, the rows of the session list
  active,    \* active.json
  upstream,  \* sessions linked to a session of the model gateway
  shells,    \* shell requests: their approval in memory and what became of them
  requests,  \* chat turns and approved commands under way, with their chat_turns rows
  registry,  \* SessionRunRegistry._running
  tasks,     \* SessionRunRegistry._tasks
  deletion,  \* DELETE requests in their threads, and SessionRunRegistry._deleting
  rename,    \* rename requests in their threads
  activate,  \* the session an activate request is about to make active
  gate,      \* IntakeGate._open
  stop,      \* the emergency stop or the shutdown under way
  muddled,   \* sessions whose row two writers wrote at once, or that a restart lists
  server, lives

disk == <<born, file, row, active, upstream>>
runs == <<registry, tasks>>
threads == <<deletion, rename, activate>>
intake == <<gate, stop>>
process == <<server, lives>>
vars == <<disk, shells, requests, runs, threads, intake, muddled, process>>

Ids == DOMAIN requests
Shells == DOMAIN shells

Absent == [there |-> FALSE, failed |-> FALSE, open |-> 0]
Fresh == [Absent EXCEPT !.there = TRUE]
NoDeletion == [at |-> "no", active |-> FALSE]
NoRename == [at |-> "no", seen |-> Absent]
NoStop == [at |-> "none", ids |-> {}]

Up == server = "up"
Serving == Up /\ stop.at # "exit"
InProgress(s) == {i \in Ids : requests[i].session = s /\ requests[i].at # "over"}

Init ==
  /\ born = {} /\ file = [s \in Sessions |-> Absent] /\ row = [s \in Sessions |-> Absent]
  /\ active = NoSession /\ upstream = {}
  /\ shells = <<>> /\ requests = <<>>
  /\ registry = [s \in Sessions |-> 0] /\ tasks = [s \in Sessions |-> 0]
  /\ deletion = [s \in Sessions |-> NoDeletion] /\ rename = [s \in Sessions |-> NoRename]
  /\ activate = NoSession
  /\ gate = "open" /\ stop = NoStop /\ muddled = {}
  /\ server = "down" /\ lives = 0

-----------------------------------------------------------------------------
(* The transcript and its row. *)

\* a file or a row after an event about shell request a (0: about none)
After(view, kind, a) ==
  [there |-> TRUE,
   failed |-> kind = "runtime_error",
   open |-> IF kind = "tool_request" THEN a
            ELSE IF kind \in {"tool_result", "tool_denial"} /\ view.open = a THEN 0
            ELSE view.open]

\* a row made from the file
Refreshed(f) == [f EXCEPT !.there = TRUE]

\* The row is updated from the event, or made from the file if there is none.
IndexEvent(s, kind, a) ==
  row' = [row EXCEPT ![s] = IF @.there THEN After(@, kind, a) ELSE Refreshed(file'[s])]

Muddles(s) ==
  muddled' = IF rename[s].at = "no" THEN muddled ELSE muddled \cup {s}

Append1(s, kind, a) ==
  /\ file' = [file EXCEPT ![s] = After(@, kind, a)]
  /\ IndexEvent(s, kind, a)
  /\ Muddles(s)
  /\ UNCHANGED <<born, active>>

NothingAppended == UNCHANGED <<disk, muddled>>

\* POST /api/reset, and /api/chat when no session is active
StartNew(s) ==
  /\ Serving /\ s \notin born
  /\ born' = born \cup {s} /\ active' = s
  /\ file' = [file EXCEPT ![s] = Fresh] /\ row' = [row EXCEPT ![s] = Fresh]
  /\ UNCHANGED <<upstream, shells, requests, runs, threads, intake, muddled, process>>

\* Rename and activate look for the file first; it may go before they write.
\* Bound: they come in the first life, and not while the process is stopped.
Races == Serving /\ "threads" \in Mishaps /\ lives = 1 /\ stop = NoStop

RenameBegins(s) ==
  /\ Races /\ file[s].there /\ rename[s].at = "no"
  /\ rename' = [rename EXCEPT ![s].at = "write"]
  /\ UNCHANGED <<disk, shells, requests, runs, deletion, activate, intake, muddled, process>>

RenameWrites(s) ==
  /\ Up /\ rename[s].at = "write"
  /\ file' = [file EXCEPT ![s] = After(@, "session_rename", 0)]
  /\ rename' = [rename EXCEPT ![s] = [at |-> "index", seen |-> row[s]]]
  /\ UNCHANGED <<born, row, active, upstream, shells, requests, runs, deletion, activate,
                 intake, muddled, process>>

RenameIndexes(s) ==
  /\ Up /\ rename[s].at = "index"
  /\ LET seen == rename[s].seen IN
     row' = [row EXCEPT ![s] = IF ~seen.there THEN Refreshed(file[s])
                               ELSE IF @.there THEN After(seen, "session_rename", 0) ELSE @]
  /\ rename' = [rename EXCEPT ![s] = NoRename]
  /\ UNCHANGED <<born, file, active, upstream, shells, requests, runs, deletion, activate,
                 intake, muddled, process>>

ActivateBegins(s) ==
  /\ Races /\ file[s].there /\ activate = NoSession
  /\ active # s
  /\ activate' = s
  /\ UNCHANGED <<disk, shells, requests, runs, deletion, rename, intake, muddled, process>>

Activates ==
  /\ Up /\ activate # NoSession
  /\ active' = activate /\ activate' = NoSession
  /\ UNCHANGED <<born, file, row, upstream, shells, requests, runs, deletion, rename, intake,
                 muddled, process>>

-----------------------------------------------------------------------------
(* The registry. *)

Free(s) == registry[s] = 0 /\ deletion[s].at = "no"

StartIfExists(s) == Free(s) /\ file[s].there

\* mutant of Finish: whatever runs in the session
FinishSession(ids) ==
  LET done == {s \in Sessions : \E i \in ids : requests[i].session = s} IN
  /\ registry' = [s \in Sessions |-> IF s \in done THEN 0 ELSE registry[s]]
  /\ tasks' = [s \in Sessions |-> IF s \in done THEN 0 ELSE tasks[s]]

\* finish takes the entry of this request only
Finish(ids) ==
  LET done == {s \in Sessions : registry[s] \in ids} IN
  /\ registry' = [s \in Sessions |-> IF s \in done THEN 0 ELSE registry[s]]
  /\ tasks' = [s \in Sessions |-> IF s \in done THEN 0 ELSE tasks[s]]

Request(s, kind, at) ==
  [session |-> s, kind |-> kind, at |-> at, left |-> Iterations, cancelled |-> FALSE,
   row |-> IF kind = "chat" /\ at # "stuck" THEN "running" ELSE "none"]

Register(s, request, task) ==
  LET i == Len(requests) + 1 IN
  /\ requests' = Append(requests, request)
  /\ registry' = [registry EXCEPT ![s] = i]
  /\ tasks' = [tasks EXCEPT ![s] = IF task THEN i ELSE 0]

Over(r, termination) ==
  [r EXCEPT !.at = "over", !.left = 0, !.cancelled = FALSE,
            !.row = IF r.kind = "chat" THEN termination ELSE @]

\* The end of a turn: its row, then the registry.  If the row cannot be
\* written, the exception leaves the session registered.
End(i, termination) ==
  \/ /\ requests' = [requests EXCEPT ![i] = Over(@, termination)]
     /\ Finish({i})
     /\ UNCHANGED <<threads, intake, process>>
  \/ /\ requests[i].kind = "chat" /\ "disk" \in Mishaps
     /\ requests' = [requests EXCEPT ![i] = [Over(@, @.row) EXCEPT !.at = "stuck"]]
     /\ UNCHANGED <<runs, threads, intake, process>>

\* What GET shows of a session, from its row in the list, from its transcript
\* on its own page.
Status(view, s) ==
  IF registry[s] # 0 THEN "running"
  ELSE IF view.failed THEN "failed"
  ELSE IF view.open # 0 THEN "waiting_approval" ELSE "idle"

Shown(view, s) == [there |-> view.there, status |-> Status(view, s), pending |-> view.open]

-----------------------------------------------------------------------------
(* A chat turn. *)

\* The turn's row is created outside the `try`: if that fails the session
\* stays registered, with a task that is over.
Chat(s) ==
  /\ Serving /\ gate = "open" /\ StartIfExists(s) /\ Len(requests) < MaxRequests
  /\ \E at \in {"building", "stuck"} :
       /\ at = "stuck" => "disk" \in Mishaps
       /\ Register(s, Request(s, "chat", at), TRUE)
  /\ UNCHANGED <<disk, shells, threads, intake, muddled, process>>

Continues(i, at) == Up /\ i \in Ids /\ requests[i].at = at /\ ~requests[i].cancelled

BuildFails(i) ==
  /\ Continues(i, "building")
  /\ End(i, "failed")
  /\ NothingAppended /\ UNCHANGED shells

Restored(a) == [shells EXCEPT ![a].memory = IF @ = "unknown" THEN "pending" ELSE @]

\* mutant of AnsweredByApproval
NeverAnswered(s) == FALSE

\* A message to a session whose request is undecided is not stored.
AnsweredByApproval(s) == file[s].open # 0

Reminds(i) ==
  /\ Continues(i, "building") /\ AnsweredByApproval(requests[i].session)
  /\ shells' = Restored(file[requests[i].session].open)
  /\ End(i, "completed")
  /\ NothingAppended

StoresMessage(i) ==
  /\ Continues(i, "building") /\ ~AnsweredByApproval(requests[i].session)
  /\ requests' = [requests EXCEPT ![i].at = "asking"]
  /\ Append1(requests[i].session, "user", 0)
  /\ UNCHANGED <<upstream, shells, runs, threads, intake, process>>

\* The gateway names its session while it answers; the callback keeps the link.
Links(i) ==
  /\ Continues(i, "asking") /\ requests[i].session \notin upstream
  /\ upstream' = upstream \cup {requests[i].session}
  /\ Append1(requests[i].session, "agent_session_link", 0)
  /\ UNCHANGED <<shells, requests, runs, threads, intake, process>>

Answers(i) ==
  /\ Continues(i, "asking")
  /\ Append1(requests[i].session, "assistant", 0)
  /\ End(i, "completed")
  /\ UNCHANGED <<upstream, shells>>

\* fs.list and fs.read: request and result are appended in one section
ReadsFiles(i) ==
  /\ Continues(i, "asking") /\ requests[i].left > 1
  /\ requests' = [requests EXCEPT ![i].left = @ - 1]
  /\ Append1(requests[i].session, "fs.read", 0)
  /\ UNCHANGED <<upstream, shells, runs, threads, intake, process>>

NewShell(s) == [session |-> s, memory |-> "pending", outcome |-> "none", ran |-> 0, cut |-> 0]

\* shell.run: further calls of the same response are dropped
AsksForShell(i) ==
  /\ Continues(i, "asking") /\ Len(shells) < MaxShells
  /\ shells' = Append(shells, NewShell(requests[i].session))
  /\ Append1(requests[i].session, "tool_request", Len(shells) + 1)
  /\ End(i, "completed")
  /\ UNCHANGED upstream

\* The model or a tool fails, or the loop has used up its rounds.
ErrorTerminations == {"failed", "timed_out"}

Fails(i) ==
  /\ Continues(i, "asking")
  /\ Append1(requests[i].session, "runtime_error", 0)
  /\ \E termination \in ErrorTerminations : End(i, termination)
  /\ UNCHANGED <<upstream, shells>>

\* A cancelled turn records that, unless its runtime was still being built.
IsCancelled(i) ==
  /\ Up /\ i \in Ids /\ requests[i].at \in {"building", "asking"} /\ requests[i].cancelled
  /\ IF requests[i].at = "building"
     THEN NothingAppended
     ELSE Append1(requests[i].session, "runtime_error", 0) /\ UNCHANGED upstream
  /\ End(i, "cancelled")
  /\ UNCHANGED shells

CancelTasks(ids) ==
  requests' = [i \in Ids |->
    [requests[i] EXCEPT !.cancelled = @ \/ (i \in ids /\ requests[i].at # "stuck")]]

Interrupt(s) ==
  /\ Serving /\ tasks[s] # 0 /\ ~requests[tasks[s]].cancelled
  /\ CancelTasks({tasks[s]})
  /\ UNCHANGED <<disk, shells, runs, threads, intake, muddled, process>>

-----------------------------------------------------------------------------
(* Decisions about a shell command.  They register without a task.  *)

Decidable(s, a) == Serving /\ StartIfExists(s) /\ a \in Shells

\* approve takes the one request the transcript leaves open, and memory must
\* have it pending: after a restart it is restored from the transcript.
Unresolved(s, a) == file[s].open = a

Pending(s, a) == Unresolved(s, a) /\ Restored(a)[a].memory = "pending"

Refused(s, a) ==
  /\ Decidable(s, a) /\ ~Pending(s, a)
  /\ shells' = IF Unresolved(s, a) THEN Restored(a) ELSE shells
  /\ Append1(s, "runtime_error", 0)
  /\ UNCHANGED <<upstream, requests, runs, threads, intake, process>>

Approvable(s, a) ==
  /\ Decidable(s, a) /\ gate = "open" /\ Pending(s, a)
  /\ Len(requests) < MaxRequests /\ shells[a].ran < MaxRuns

Ran(a, memory, cuts) ==
  [Restored(a) EXCEPT ![a].memory = memory, ![a].ran = @ + 1, ![a].cut = @ + cuts]

\* The command runs and its result is kept; the model goes on.
Approve(s, a) ==
  /\ Approvable(s, a)
  /\ shells' = [Ran(a, "approved", 0) EXCEPT ![a].outcome = "result"]
  /\ Append1(s, "tool_result", a)
  /\ Register(s, Request(s, "approve", "asking"), FALSE)
  /\ UNCHANGED <<upstream, threads, intake, process>>

\* It times out (or cannot be started): the approval is still pending.
CommandFails(s, a) ==
  /\ Approvable(s, a)
  /\ shells' = Ran(a, "pending", 1)
  /\ Append1(s, "runtime_error", 0)
  /\ UNCHANGED <<upstream, requests, runs, threads, intake, process>>

\* Its result cannot be written.
ResultIsLost(s, a) ==
  /\ Approvable(s, a) /\ "disk" \in Mishaps
  /\ shells' = Ran(a, "approved", 1)
  /\ NothingAppended
  /\ UNCHANGED <<requests, runs, threads, intake, process>>

Deny(s, a) ==
  /\ Decidable(s, a) /\ Pending(s, a)
  /\ shells' = [Restored(a) EXCEPT ![a].memory = "denied", ![a].outcome = "denial"]
  /\ Append1(s, "tool_denial", a)
  /\ UNCHANGED <<upstream, requests, runs, threads, intake, process>>

-----------------------------------------------------------------------------
(* Deletion, in a thread. *)

DeletionAt(s, at) == Up /\ deletion[s].at = at
Deleting(s, state) ==
  /\ deletion' = [deletion EXCEPT ![s] = state]
  /\ UNCHANGED <<born, requests, runs, rename, activate, intake, process>>

DeleteBegins(s) ==
  /\ Serving /\ Free(s) /\ file[s].there
  /\ Deleting(s, [NoDeletion EXCEPT !.at = "upstream"])
  /\ UNCHANGED <<file, row, active, upstream, shells, muddled>>

\* The linked sessions of the gateway go first, and their links with them.
UpstreamDeleted(s) ==
  /\ DeletionAt(s, "upstream") /\ s \in upstream
  /\ Append1(s, "agent_session_unlink", 0)
  /\ upstream' = upstream \ {s}
  /\ Deleting(s, [NoDeletion EXCEPT !.at = "file"])
  /\ UNCHANGED shells

\* mutant of UpstreamFails: the transcript goes all the same
UpstreamIgnored(s) ==
  /\ DeletionAt(s, "upstream") /\ s \in upstream
  /\ Deleting(s, [NoDeletion EXCEPT !.at = "file"])
  /\ UNCHANGED <<file, row, active, upstream, shells, muddled>>

\* A failure keeps the session (502).
UpstreamFails(s) ==
  /\ DeletionAt(s, "upstream") /\ s \in upstream
  /\ Deleting(s, NoDeletion)
  /\ UNCHANGED <<file, row, active, upstream, shells, muddled>>

NothingUpstream(s) ==
  /\ DeletionAt(s, "upstream") /\ s \notin upstream
  /\ Deleting(s, [NoDeletion EXCEPT !.at = "file"])
  /\ UNCHANGED <<file, row, active, upstream, shells, muddled>>

\* Which session is active is read before the file is removed.
FileDeleted(s) ==
  /\ DeletionAt(s, "file")
  /\ file' = [file EXCEPT ![s] = Absent]
  /\ shells' = [a \in Shells |->
       IF shells[a].session = s /\ shells[a].outcome = "none"
       THEN [shells[a] EXCEPT !.outcome = "dropped"] ELSE shells[a]]
  /\ Deleting(s, [at |-> "row", active |-> active = s])
  /\ Muddles(s)
  /\ UNCHANGED <<row, active, upstream>>

RowDeleted(s) ==
  /\ DeletionAt(s, "row")
  /\ row' = [row EXCEPT ![s] = Absent]
  /\ Deleting(s, IF deletion[s].active THEN [deletion[s] EXCEPT !.at = "active"] ELSE NoDeletion)
  /\ Muddles(s)
  /\ UNCHANGED <<file, active, upstream, shells>>

ActiveDeleted(s) ==
  /\ DeletionAt(s, "active")
  /\ active' = NoSession
  /\ Deleting(s, NoDeletion)
  /\ UNCHANGED <<file, row, upstream, shells, muddled>>

-----------------------------------------------------------------------------
(* Emergency stop, shutdown, crash, start. *)

EmergencyStop ==
  /\ Serving /\ stop = NoStop
  /\ gate' = "closed" /\ stop' = [NoStop EXCEPT !.at = "called"]
  /\ UNCHANGED <<disk, shells, requests, runs, threads, muddled, process>>

OpenIntake ==
  /\ Serving /\ gate = "closed"
  /\ gate' = "open"
  /\ UNCHANGED <<disk, shells, requests, runs, threads, stop, muddled, process>>

\* cancel_all: the tasks it lists are cancelled, awaited, and finished
Listed == {tasks[s] : s \in Sessions} \ {0}

\* The dispatcher and its loop are stopped before.
StopCancels ==
  /\ Up /\ stop.at = "called"
  /\ CancelTasks(Listed)
  /\ stop' = [at |-> "gather", ids |-> Listed]
  /\ UNCHANGED <<disk, shells, runs, threads, gate, muddled, process>>

AllOver(ids) == \A i \in ids : requests[i].at \in {"over", "stuck"}

\* A session that was left registered by a dead task is freed here.
Left(ids) == [i \in Ids |-> IF i \in ids THEN Over(requests[i], requests[i].row) ELSE requests[i]]

StopEnds ==
  /\ Up /\ stop.at = "gather" /\ AllOver(stop.ids)
  /\ Finish(stop.ids) /\ requests' = Left(stop.ids)
  /\ stop' = NoStop
  /\ UNCHANGED <<disk, shells, threads, gate, muddled, process>>

Shutdown ==
  /\ Serving /\ stop.at = "none"
  /\ CancelTasks(Listed)
  /\ stop' = [at |-> "exit", ids |-> Listed]
  /\ UNCHANGED <<disk, shells, runs, threads, gate, muddled, process>>

\* What was in memory is gone: the registry, the approvals, the threads.
Down(left) ==
  /\ server' = "down" /\ UNCHANGED <<disk, lives, gate, muddled>>
  /\ requests' = Left(Ids)
  /\ shells' = [a \in Shells |-> [left[a] EXCEPT !.memory = "unknown"]]
  /\ registry' = [s \in Sessions |-> 0] /\ tasks' = [s \in Sessions |-> 0]
  /\ deletion' = [s \in Sessions |-> NoDeletion] /\ rename' = [s \in Sessions |-> NoRename]
  /\ activate' = NoSession /\ stop' = NoStop

ShutdownEnds == Up /\ stop.at = "exit" /\ AllOver(stop.ids) /\ Down(shells)

\* A crash may also come after an approved command has run.
Crash ==
  /\ Up
  /\ \/ Down(shells)
     \/ \E s \in Sessions, a \in Shells : Approvable(s, a) /\ Down(Ran(a, "approved", 1))

\* The rows are made again, of the files and of the active session.
Known == {s \in Sessions : file[s].there} \cup ({active} \ {NoSession})

Start ==
  /\ server = "down" /\ lives < MaxLives
  /\ server' = "up" /\ lives' = lives + 1
  /\ row' = [s \in Sessions |-> IF s \in Known THEN Refreshed(file[s]) ELSE Absent]
  /\ muddled' = {s \in Known : ~file[s].there}
  /\ gate' = "open"
  /\ UNCHANGED <<born, file, active, upstream, shells, requests, runs, threads, stop>>

\* The process has ended for the last time.
Ended == server = "down" /\ lives = MaxLives /\ UNCHANGED vars

Next ==
  \/ \E s \in Sessions :
       \/ StartNew(s) \/ Chat(s) \/ Interrupt(s)
       \/ RenameBegins(s) \/ RenameWrites(s) \/ RenameIndexes(s) \/ ActivateBegins(s)
       \/ DeleteBegins(s) \/ UpstreamDeleted(s) \/ UpstreamFails(s) \/ NothingUpstream(s)
       \/ FileDeleted(s) \/ RowDeleted(s) \/ ActiveDeleted(s)
       \/ \E a \in Shells :
            Refused(s, a) \/ Approve(s, a) \/ CommandFails(s, a) \/ ResultIsLost(s, a) \/ Deny(s, a)
  \/ \E i \in Ids :
       \/ BuildFails(i) \/ Reminds(i) \/ StoresMessage(i) \/ Links(i) \/ Answers(i)
       \/ ReadsFiles(i) \/ AsksForShell(i) \/ Fails(i) \/ IsCancelled(i)
  \/ Activates
  \/ EmergencyStop \/ OpenIntake \/ StopCancels \/ StopEnds
  \/ Shutdown \/ ShutdownEnds \/ Crash \/ Start \/ Ended

Spec == Init /\ [][Next]_vars

-----------------------------------------------------------------------------
(* Properties. *)

\* One turn or approved command runs in a session, exactly while the registry
\* says so (or the session is stuck on a row that could not be written), on a
\* transcript that is there and that nobody is deleting.
RegistryIsExact ==
  \A s \in Sessions :
    /\ InProgress(s) = {registry[s]} \ {0}
    /\ registry[s] # 0 => file[s].there /\ deletion[s].at = "no"

\* Once an emergency stop has answered and until the intake opens, no chat
\* turn runs.  What an approval made the model go on with is out of its reach.
NoTurnOutlivesAStop ==
  gate = "closed" /\ stop = NoStop /\ Up
    => \A i \in Ids : requests[i].kind = "chat" => requests[i].at = "over"

\* Registry, turns, transcripts, deletions and stops agree at every moment.
TurnsAreExact == RegistryIsExact /\ NoTurnOutlivesAStop

\* A command ran once for the result that was kept, plus the times its result
\* was cut off by a timeout, a failed write or a crash; a denied one never ran
\* but for those; and a request that is undecided is the one its transcript
\* offers for a decision: the next message does not bury it.
ShellRunsAsDecided ==
  \A a \in Shells :
    /\ shells[a].ran = shells[a].cut + (IF shells[a].outcome = "result" THEN 1 ELSE 0)
    /\ shells[a].outcome = "none" => Unresolved(shells[a].session, a)

\* The session list shows the status and the undecided request that the page
\* of the session shows, except while a thread is writing, after a rename
\* raced with another write, and for an active session whose deletion a crash
\* cut short; a deleted session has left no linked session at the gateway.
ListingIsTrue ==
  /\ Up => \A s \in Sessions \ muddled :
             rename[s].at = "no" /\ deletion[s].at = "no" => Shown(row[s], s) = Shown(file[s], s)
  /\ \A s \in upstream : file[s].there
=============================================================================
