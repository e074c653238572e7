-------------------------- MODULE ChatSessionProofs --------------------------
(* What holds of ChatSession for every number of sessions, requests and      *)
(* commands, however often the process is started.                           *)
EXTENDS ChatSession, SequenceTheorems, TLAPS

Views == [there : BOOLEAN, failed : BOOLEAN, open : Nat]

ShellRows ==
  [session : Sessions, memory : {"unknown", "pending", "approved", "denied"},
   outcome : {"none", "result", "denial", "dropped"}, ran : Nat, cut : Nat]

Terminations == {"completed", "failed", "timed_out", "cancelled"}

RequestRows ==
  [session : Sessions, kind : {"chat", "approve"}, at : {"building", "asking", "stuck", "over"},
   left : Nat, cancelled : BOOLEAN, row : {"none", "running"} \cup Terminations]

DiskTypes ==
  /\ born \subseteq Sessions
  /\ file \in [Sessions -> Views] /\ row \in [Sessions -> Views]
  /\ active \in Sessions \cup {NoSession} /\ upstream \subseteq Sessions
  /\ muddled \subseteq Sessions

RunTypes ==
  /\ shells \in Seq(ShellRows) /\ requests \in Seq(RequestRows)
  /\ registry \in [Sessions -> Nat] /\ tasks \in [Sessions -> Nat]

ThreadTypes ==
  /\ deletion \in [Sessions -> [at : {"no", "upstream", "file", "row", "active"}, active : BOOLEAN]]
  /\ rename \in [Sessions -> [at : {"no", "write", "index"}, seen : Views]]
  /\ activate \in Sessions \cup {NoSession}
  /\ gate \in {"open", "closed"}
  /\ stop \in [at : {"none", "called", "gather", "exit"}, ids : SUBSET Nat]
  /\ server \in {"up", "down"} /\ lives \in Nat

TypeOK == DiskTypes /\ RunTypes /\ ThreadTypes

-----------------------------------------------------------------------------
(* Sequences as functions. *)

LEMMA SeqIsFunction ==
  ASSUME NEW S, NEW seq \in Seq(S)
  PROVE  /\ Len(seq) \in Nat /\ DOMAIN seq = 1..Len(seq) /\ seq \in [1..Len(seq) -> S]
         /\ \A i \in 1..Len(seq) : i \in Nat \ {0} /\ seq[i] \in S
OBVIOUS

LEMMA FunctionIsSeq ==
  ASSUME NEW S, NEW n \in Nat, NEW f \in [1..n -> S]
  PROVE  f \in Seq(S) /\ Len(f) = n /\ DOMAIN f = 1..n
BY IsASeq

LEMMA Longer ==
  ASSUME NEW S, NEW seq \in Seq(S), NEW e \in S
  PROVE  /\ Append(seq, e) \in Seq(S) /\ Len(Append(seq, e)) = Len(seq) + 1
         /\ DOMAIN Append(seq, e) = 1..(Len(seq) + 1)
         /\ DOMAIN Append(seq, e) = DOMAIN seq \cup {Len(seq) + 1} /\ Len(seq) + 1 \notin DOMAIN seq
         /\ \A i \in DOMAIN seq : Append(seq, e)[i] = seq[i]
         /\ Append(seq, e)[Len(seq) + 1] = e
OBVIOUS

-----------------------------------------------------------------------------
(* What the operators of the module do. *)

LEMMA AbsentViews ==
  /\ Absent \in Views /\ ~Absent.there /\ Absent.open = 0
  /\ Fresh \in Views /\ Fresh.there /\ Fresh.open = 0
<1>1. Absent \in Views /\ ~Absent.there /\ Absent.open = 0
  BY DEF Absent, Views
<1>2. Fresh \in Views /\ Fresh.there /\ Fresh.open = 0
  BY <1>1 DEF Fresh, Views
<1> QED BY <1>1, <1>2

LEMMA AfterIs ==
  ASSUME NEW view \in Views, NEW kind, NEW a \in Nat
  PROVE  /\ After(view, kind, a) \in Views /\ After(view, kind, a).there
         /\ kind \notin {"tool_request", "tool_result", "tool_denial"} =>
              After(view, kind, a).open = view.open
         /\ kind = "tool_request" => After(view, kind, a).open = a
         /\ kind \in {"tool_result", "tool_denial"} =>
              After(view, kind, a).open = IF view.open = a THEN 0 ELSE view.open
BY DEF After, Views

LEMMA RefreshedIs ==
  ASSUME NEW view \in Views
  PROVE  Refreshed(view) \in Views /\ Refreshed(view).there /\ (view.there => Refreshed(view) = view)
BY DEF Refreshed, Views

(* An event changes the transcript and the row of its session. *)
LEMMA Appended ==
  ASSUME DiskTypes, NEW s \in Sessions, NEW kind, NEW a \in Nat, Append1(s, kind, a)
  PROVE  /\ file' \in [Sessions -> Views] /\ row' \in [Sessions -> Views]
         /\ muddled' \subseteq Sessions /\ UNCHANGED <<born, active>>
         /\ file'[s] = After(file[s], kind, a)
         /\ row'[s] = IF row[s].there THEN After(row[s], kind, a) ELSE file'[s]
         /\ \A o \in Sessions : o # s => file'[o] = file[o] /\ row'[o] = row[o]
         /\ muddled' = IF rename[s].at = "no" THEN muddled ELSE muddled \cup {s}
<1>1. file[s] \in Views /\ row[s] \in Views
  BY DEF DiskTypes
<1>2. file' = [file EXCEPT ![s] = After(file[s], kind, a)]
  BY DEF Append1
<1>3. After(file[s], kind, a) \in Views /\ After(row[s], kind, a) \in Views
  BY <1>1, AfterIs
<1>4. file' \in [Sessions -> Views] /\ file'[s] = After(file[s], kind, a) /\ file'[s] \in Views
  BY <1>2, <1>3 DEF DiskTypes
<1>5. file'[s].there
  BY <1>1, <1>4, AfterIs
<1>6. Refreshed(file'[s]) = file'[s]
  BY <1>4, <1>5, RefreshedIs
<1>7. row' = [row EXCEPT ![s] = IF row[s].there THEN After(row[s], kind, a) ELSE Refreshed(file'[s])]
  BY DEF Append1, IndexEvent
<1>8. /\ row' \in [Sessions -> Views]
      /\ row'[s] = IF row[s].there THEN After(row[s], kind, a) ELSE file'[s]
  BY <1>3, <1>4, <1>6, <1>7 DEF DiskTypes
<1>9. \A o \in Sessions : o # s => file'[o] = file[o] /\ row'[o] = row[o]
  BY <1>2, <1>7 DEF DiskTypes
<1> QED BY <1>4, <1>8, <1>9 DEF Append1, Muddles, DiskTypes

LEMMA OverIs ==
  ASSUME NEW r \in RequestRows, NEW t \in {"none", "running"} \cup Terminations
  PROVE  /\ Over(r, t) \in RequestRows /\ Over(r, t).at = "over"
         /\ Over(r, t).session = r.session /\ Over(r, t).kind = r.kind
         /\ [Over(r, r.row) EXCEPT !.at = "stuck"] \in RequestRows
         /\ [Over(r, r.row) EXCEPT !.at = "stuck"].at = "stuck"
         /\ [Over(r, r.row) EXCEPT !.at = "stuck"].session = r.session
         /\ [Over(r, r.row) EXCEPT !.at = "stuck"].kind = r.kind
BY DEF Over, RequestRows

LEMMA Finished ==
  ASSUME RunTypes, NEW ids, Finish(ids)
  PROVE  /\ registry' \in [Sessions -> Nat] /\ tasks' \in [Sessions -> Nat]
         /\ \A s \in Sessions : /\ registry[s] \in ids => registry'[s] = 0 /\ tasks'[s] = 0
                                /\ registry[s] \notin ids => /\ registry'[s] = registry[s]
                                                             /\ tasks'[s] = tasks[s]
BY DEF Finish, RunTypes

(* One request changes, and stays what it is and of its session. *)
LEMMA OneRequest ==
  ASSUME RunTypes, NEW i \in Ids, NEW r \in RequestRows, requests' = [requests EXCEPT ![i] = r]
  PROVE  /\ requests' \in Seq(RequestRows) /\ Ids' = Ids /\ requests'[i] = r
         /\ \A j \in Ids : j # i => requests'[j] = requests[j]
<1>1. Len(requests) \in Nat /\ Ids = 1..Len(requests) /\ requests \in [1..Len(requests) -> RequestRows]
  BY SeqIsFunction DEF RunTypes, Ids
<1>2. requests' \in [1..Len(requests) -> RequestRows] /\ requests'[i] = r
      /\ \A j \in Ids : j # i => requests'[j] = requests[j]
  BY <1>1
<1> QED BY <1>1, <1>2, FunctionIsSeq DEF Ids

(* The end of a turn: it is over and its session is free, or its row could   *)
(* not be written and nothing of the registry changed.                       *)
LEMMA EndIs ==
  ASSUME RunTypes, NEW i \in Ids, NEW t \in Terminations, End(i, t)
  PROVE  /\ requests' \in Seq(RequestRows) /\ Ids' = Ids
         /\ registry' \in [Sessions -> Nat] /\ tasks' \in [Sessions -> Nat]
         /\ requests'[i].session = requests[i].session /\ requests'[i].kind = requests[i].kind
         /\ \A j \in Ids : j # i => requests'[j] = requests[j]
         /\ \/ requests'[i].at = "over" /\ Finish({i})
            \/ /\ requests[i].kind = "chat" /\ requests'[i].at = "stuck"
               /\ UNCHANGED <<registry, tasks>>
         /\ UNCHANGED <<threads, intake, process>>
<1>1. requests[i] \in RequestRows
  BY SeqIsFunction DEF RunTypes, Ids
<1>2. requests[i].row \in {"none", "running"} \cup Terminations
  BY <1>1 DEF RequestRows
<1>3. CASE requests' = [requests EXCEPT ![i] = Over(@, t)] /\ Finish({i})
           /\ UNCHANGED <<threads, intake, process>>
  <2>1. requests' = [requests EXCEPT ![i] = Over(requests[i], t)]
    BY <1>3
  <2>2. /\ Over(requests[i], t) \in RequestRows /\ Over(requests[i], t).at = "over"
        /\ Over(requests[i], t).session = requests[i].session
        /\ Over(requests[i], t).kind = requests[i].kind
    BY <1>1, OverIs
  <2>3. /\ requests' \in Seq(RequestRows) /\ Ids' = Ids /\ requests'[i] = Over(requests[i], t)
        /\ \A j \in Ids : j # i => requests'[j] = requests[j]
    BY <2>1, <2>2, OneRequest
  <2>4. registry' \in [Sessions -> Nat] /\ tasks' \in [Sessions -> Nat]
    BY <1>3, Finished
  <2> QED BY <1>3, <2>2, <2>3, <2>4
<1>4. CASE /\ requests[i].kind = "chat"
           /\ requests' = [requests EXCEPT ![i] = [Over(@, @.row) EXCEPT !.at = "stuck"]]
           /\ UNCHANGED <<runs, threads, intake, process>>
  <2>1. requests' = [requests EXCEPT ![i] = [Over(requests[i], requests[i].row) EXCEPT !.at = "stuck"]]
    BY <1>4
  <2>2. registry' = registry /\ tasks' = tasks
    BY <1>4 DEF runs
  <2> DEFINE stuck == [Over(requests[i], requests[i].row) EXCEPT !.at = "stuck"]
  <2>3. /\ stuck \in RequestRows /\ stuck.at = "stuck" /\ stuck.session = requests[i].session
        /\ stuck.kind = requests[i].kind
    BY <1>1, <1>2, OverIs
  <2>4. requests' = [requests EXCEPT ![i] = stuck]
    BY <2>1
  <2> HIDE DEF stuck
  <2>5. /\ requests' \in Seq(RequestRows) /\ Ids' = Ids /\ requests'[i] = stuck
        /\ \A j \in Ids : j # i => requests'[j] = requests[j]
    BY <2>3, <2>4, OneRequest
  <2> QED BY <1>4, <2>2, <2>3, <2>5 DEF RunTypes
<1> QED BY <1>3, <1>4 DEF End

LEMMA Registered ==
  ASSUME RunTypes, NEW s \in Sessions, NEW r \in RequestRows, NEW task \in BOOLEAN,
         Register(s, r, task)
  PROVE  /\ requests' \in Seq(RequestRows) /\ Ids' = Ids \cup {Len(requests) + 1}
         /\ Len(requests) + 1 \in Nat \ {0} /\ Len(requests) + 1 \notin Ids
         /\ requests'[Len(requests) + 1] = r /\ \A j \in Ids : requests'[j] = requests[j]
         /\ registry' \in [Sessions -> Nat] /\ tasks' \in [Sessions -> Nat]
         /\ registry'[s] = Len(requests) + 1 /\ tasks'[s] = IF task THEN Len(requests) + 1 ELSE 0
         /\ \A o \in Sessions : o # s => registry'[o] = registry[o] /\ tasks'[o] = tasks[o]
<1>1. requests' = Append(requests, r) /\ requests \in Seq(RequestRows) /\ Len(requests) \in Nat
  BY DEF Register, RunTypes
<1>2. /\ requests' \in Seq(RequestRows) /\ Ids' = Ids \cup {Len(requests) + 1}
      /\ Len(requests) + 1 \in Nat \ {0} /\ Len(requests) + 1 \notin Ids
      /\ requests'[Len(requests) + 1] = r /\ \A j \in Ids : requests'[j] = requests[j]
  BY <1>1, Longer DEF Ids
<1>3. /\ registry' = [registry EXCEPT ![s] = Len(requests) + 1]
      /\ tasks' = [tasks EXCEPT ![s] = IF task THEN Len(requests) + 1 ELSE 0]
  BY DEF Register
<1>4. (IF task THEN Len(requests) + 1 ELSE 0) \in Nat
  BY <1>1
<1> QED BY <1>1, <1>2, <1>3, <1>4 DEF RunTypes

LEMMA RequestIs ==
  ASSUME NEW s \in Sessions, NEW kind \in {"chat", "approve"},
         NEW at \in {"building", "asking", "stuck"}
  PROVE  /\ Request(s, kind, at) \in RequestRows
         /\ Request(s, kind, at).session = s /\ Request(s, kind, at).kind = kind
         /\ Request(s, kind, at).at = at
BY BoundsAreNat DEF Request, RequestRows

LEMMA TasksCancelled ==
  ASSUME RunTypes, NEW ids, CancelTasks(ids)
  PROVE  /\ requests' \in Seq(RequestRows) /\ Ids' = Ids
         /\ \A j \in Ids : /\ requests'[j].session = requests[j].session
                           /\ requests'[j].kind = requests[j].kind
                           /\ requests'[j].at = requests[j].at
<1>1. Len(requests) \in Nat /\ Ids = 1..Len(requests) /\ \A j \in Ids : requests[j] \in RequestRows
  BY SeqIsFunction DEF RunTypes, Ids
<1> DEFINE f == [j \in Ids |->
      [requests[j] EXCEPT !.cancelled = requests[j].cancelled \/ (j \in ids /\ requests[j].at # "stuck")]]
<1>2. requests' = f
  BY DEF CancelTasks
<1>3. ASSUME NEW j \in Ids
      PROVE  /\ f[j] \in RequestRows /\ f[j].session = requests[j].session
             /\ f[j].kind = requests[j].kind /\ f[j].at = requests[j].at
  <2>1. (requests[j].cancelled \/ (j \in ids /\ requests[j].at # "stuck")) \in BOOLEAN
    OBVIOUS
  <2> QED BY <1>1, <2>1 DEF RequestRows
<1>4. f \in [1..Len(requests) -> RequestRows]
  BY <1>1, <1>3
<1> HIDE DEF f
<1>5. requests' \in Seq(RequestRows) /\ DOMAIN requests' = 1..Len(requests)
  BY <1>1, <1>2, <1>4, FunctionIsSeq
<1> QED BY <1>1, <1>2, <1>3, <1>5 DEF Ids

LEMMA LeftIs ==
  ASSUME RunTypes, NEW ids, requests' = Left(ids)
  PROVE  /\ requests' \in Seq(RequestRows) /\ Ids' = Ids
         /\ \A j \in Ids : /\ requests'[j].session = requests[j].session
                           /\ requests'[j].kind = requests[j].kind
                           /\ requests'[j].at = IF j \in ids THEN "over" ELSE requests[j].at
<1>1. Len(requests) \in Nat /\ Ids = 1..Len(requests) /\ \A j \in Ids : requests[j] \in RequestRows
  BY SeqIsFunction DEF RunTypes, Ids
<1> DEFINE f == [j \in Ids |-> IF j \in ids THEN Over(requests[j], requests[j].row) ELSE requests[j]]
<1>2. requests' = f
  BY DEF Left
<1>3. ASSUME NEW j \in Ids
      PROVE  /\ f[j] \in RequestRows /\ f[j].session = requests[j].session
             /\ f[j].kind = requests[j].kind
             /\ f[j].at = IF j \in ids THEN "over" ELSE requests[j].at
  <2>1. requests[j].row \in {"none", "running"} \cup Terminations
    BY <1>1 DEF RequestRows
  <2> QED BY <1>1, <2>1, OverIs
<1>4. f \in [1..Len(requests) -> RequestRows]
  BY <1>1, <1>3
<1> HIDE DEF f
<1>5. requests' \in Seq(RequestRows) /\ DOMAIN requests' = 1..Len(requests)
  BY <1>1, <1>2, <1>4, FunctionIsSeq
<1> QED BY <1>1, <1>2, <1>3, <1>5 DEF Ids

(* A table of commands changes row by row; it is never shortened.  One row   *)
(* of a command keeps its session.                                           *)
LEMMA OneShell ==
  ASSUME RunTypes, NEW a \in Shells, NEW r \in ShellRows, NEW new, new = [shells EXCEPT ![a] = r]
  PROVE  /\ new \in Seq(ShellRows) /\ DOMAIN new = Shells /\ new[a] = r
         /\ \A b \in Shells : b # a => new[b] = shells[b]
<1>1. Len(shells) \in Nat /\ Shells = 1..Len(shells) /\ shells \in [1..Len(shells) -> ShellRows]
  BY SeqIsFunction DEF RunTypes, Shells
<1>2. new \in [1..Len(shells) -> ShellRows] /\ new[a] = r /\ \A b \in Shells : b # a => new[b] = shells[b]
  BY <1>1
<1> QED BY <1>1, <1>2, FunctionIsSeq

LEMMA RestoredIs ==
  ASSUME RunTypes, NEW a
  PROVE  /\ Restored(a) \in Seq(ShellRows) /\ DOMAIN Restored(a) = Shells
         /\ \A b \in Shells : /\ Restored(a)[b] \in ShellRows
                              /\ Restored(a)[b].session = shells[b].session
                              /\ Restored(a)[b].outcome = shells[b].outcome
                              /\ Restored(a)[b].ran = shells[b].ran
                              /\ Restored(a)[b].cut = shells[b].cut
<1>1. Len(shells) \in Nat /\ Shells = 1..Len(shells) /\ shells \in [1..Len(shells) -> ShellRows]
      /\ \A b \in Shells : shells[b] \in ShellRows
  BY SeqIsFunction DEF RunTypes, Shells
<1>2. CASE a \in Shells
  <2> DEFINE memory == IF shells[a].memory = "unknown" THEN "pending" ELSE shells[a].memory
             r == [shells[a] EXCEPT !.memory = memory]
  <2>1. memory \in {"unknown", "pending", "approved", "denied"}
    BY <1>1, <1>2 DEF ShellRows
  <2> HIDE DEF memory
  <2>2. /\ r \in ShellRows /\ r.session = shells[a].session /\ r.outcome = shells[a].outcome
        /\ r.ran = shells[a].ran /\ r.cut = shells[a].cut
    BY <1>1, <1>2, <2>1 DEF ShellRows
  <2>3. Restored(a) = [shells EXCEPT ![a] = r]
    BY DEF Restored, memory
  <2> HIDE DEF r
  <2>4. /\ Restored(a) \in Seq(ShellRows) /\ DOMAIN Restored(a) = Shells /\ Restored(a)[a] = r
        /\ \A b \in Shells : b # a => Restored(a)[b] = shells[b]
    BY <1>2, <2>2, <2>3, OneShell
  <2> QED BY <1>1, <2>2, <2>4
<1>3. CASE a \notin Shells
  <2>1. Restored(a) = shells
    BY <1>1, <1>3 DEF Restored
  <2> QED BY <1>1, <2>1 DEF RunTypes, Shells
<1> QED BY <1>2, <1>3

LEMMA RanIs ==
  ASSUME RunTypes, NEW a \in Shells, NEW memory \in {"pending", "approved"}, NEW cuts \in {0, 1}
  PROVE  /\ Ran(a, memory, cuts) \in Seq(ShellRows) /\ DOMAIN Ran(a, memory, cuts) = Shells
         /\ \A b \in Shells : /\ Ran(a, memory, cuts)[b] \in ShellRows
                              /\ Ran(a, memory, cuts)[b].session = shells[b].session
                              /\ Ran(a, memory, cuts)[b].outcome = shells[b].outcome
                              /\ Ran(a, memory, cuts)[b].ran = IF b = a THEN shells[b].ran + 1 ELSE shells[b].ran
                              /\ Ran(a, memory, cuts)[b].cut = IF b = a THEN shells[b].cut + cuts ELSE shells[b].cut
<1> DEFINE old == Restored(a)
           ran == old[a].ran + 1
           cut == old[a].cut + cuts
           r == [old[a] EXCEPT !.memory = memory, !.ran = ran, !.cut = cut]
<1>1. /\ old \in Seq(ShellRows) /\ DOMAIN old = Shells
      /\ \A b \in Shells : /\ old[b] \in ShellRows /\ old[b].session = shells[b].session
                           /\ old[b].outcome = shells[b].outcome
                           /\ old[b].ran = shells[b].ran /\ old[b].cut = shells[b].cut
  BY RestoredIs
<1>2. Ran(a, memory, cuts) = [old EXCEPT ![a].memory = memory, ![a].ran = @ + 1, ![a].cut = @ + cuts]
  BY DEF Ran
<1> HIDE DEF old
<1>3. /\ r \in ShellRows /\ r.session = old[a].session /\ r.outcome = old[a].outcome
      /\ r.ran = old[a].ran + 1 /\ r.cut = old[a].cut + cuts
  <2>1. old[a] \in ShellRows
    BY <1>1
  <2>2. ran \in Nat /\ cut \in Nat
    BY <2>1 DEF ShellRows
  <2> HIDE DEF ran, cut
  <2>3. /\ r \in ShellRows /\ r.session = old[a].session /\ r.outcome = old[a].outcome
        /\ r.ran = ran /\ r.cut = cut
    BY <2>1, <2>2 DEF ShellRows
  <2> QED BY <2>3 DEF ran, cut
<1>4. Len(old) \in Nat /\ Shells = 1..Len(old) /\ old \in [1..Len(old) -> ShellRows]
  BY <1>1, SeqIsFunction
<1>5. Ran(a, memory, cuts) = [old EXCEPT ![a] = r]
  BY <1>2, <1>4
<1> HIDE DEF r
<1>6. /\ Ran(a, memory, cuts) \in [1..Len(old) -> ShellRows] /\ Ran(a, memory, cuts)[a] = r
      /\ \A b \in Shells : b # a => Ran(a, memory, cuts)[b] = old[b]
  BY <1>3, <1>4, <1>5
<1>7. Ran(a, memory, cuts) \in Seq(ShellRows) /\ DOMAIN Ran(a, memory, cuts) = Shells
  BY <1>4, <1>6, FunctionIsSeq
<1> QED BY <1>1, <1>3, <1>6, <1>7

(* A decision: what became of one command. *)
LEMMA DecidedIs ==
  ASSUME NEW S, S = Shells, NEW old \in Seq(ShellRows), DOMAIN old = S, NEW a \in S,
         NEW outcome \in {"none", "result", "denial", "dropped"},
         NEW new, new = [old EXCEPT ![a].outcome = outcome]
  PROVE  /\ new \in Seq(ShellRows) /\ DOMAIN new = S
         /\ \A b \in S : /\ new[b] \in ShellRows /\ new[b].session = old[b].session
                         /\ new[b].outcome = IF b = a THEN outcome ELSE old[b].outcome
                         /\ new[b].ran = old[b].ran /\ new[b].cut = old[b].cut
<1>1. Len(old) \in Nat /\ S = 1..Len(old) /\ old \in [1..Len(old) -> ShellRows]
  BY SeqIsFunction
<1> DEFINE r == [old[a] EXCEPT !.outcome = outcome]
<1>2. /\ r \in ShellRows /\ r.session = old[a].session /\ r.outcome = outcome
      /\ r.ran = old[a].ran /\ r.cut = old[a].cut
  BY <1>1 DEF ShellRows
<1>3. new = [old EXCEPT ![a] = r]
  BY <1>1
<1> HIDE DEF r
<1>4. /\ new \in [1..Len(old) -> ShellRows] /\ new[a] = r
      /\ \A b \in S : b # a => new[b] = old[b]
  BY <1>1, <1>2, <1>3
<1>5. new \in Seq(ShellRows) /\ DOMAIN new = S
  BY <1>1, <1>4, FunctionIsSeq
<1>6. \A b \in S : old[b] \in ShellRows
  BY <1>1
<1> QED BY <1>2, <1>4, <1>5, <1>6

(* A table made row by row of another one. *)
LEMMA EveryShell ==
  ASSUME NEW old \in Seq(ShellRows), DOMAIN old = Shells, NEW new,
         new = [a \in Shells |-> new[a]], \A a \in Shells : new[a] \in ShellRows
  PROVE  new \in Seq(ShellRows) /\ DOMAIN new = Shells
<1>1. Len(old) \in Nat /\ Shells = 1..Len(old)
  BY SeqIsFunction
<1>2. new \in [1..Len(old) -> ShellRows]
  BY <1>1
<1> QED BY <1>1, <1>2, FunctionIsSeq

LEMMA DroppedIs ==
  ASSUME RunTypes, NEW s, FileDeleted(s)
  PROVE  /\ shells' \in Seq(ShellRows) /\ Shells' = Shells
         /\ \A a \in Shells :
              /\ shells'[a].session = shells[a].session
              /\ shells'[a].ran = shells[a].ran /\ shells'[a].cut = shells[a].cut
              /\ shells'[a].outcome = IF shells[a].session = s /\ shells[a].outcome = "none"
                                      THEN "dropped" ELSE shells[a].outcome
<1> DEFINE new == [a \in Shells |->
      IF shells[a].session = s /\ shells[a].outcome = "none"
      THEN [shells[a] EXCEPT !.outcome = "dropped"] ELSE shells[a]]
<1>1. shells' = new
  BY DEF FileDeleted
<1>2. \A a \in Shells : shells[a] \in ShellRows
  BY SeqIsFunction DEF RunTypes, Shells
<1>3. ASSUME NEW a \in Shells
      PROVE  /\ new[a] \in ShellRows /\ new[a].session = shells[a].session
             /\ new[a].ran = shells[a].ran /\ new[a].cut = shells[a].cut
             /\ new[a].outcome = IF shells[a].session = s /\ shells[a].outcome = "none"
                                 THEN "dropped" ELSE shells[a].outcome
  BY <1>2 DEF ShellRows
<1>4. new = [a \in Shells |-> new[a]]
  OBVIOUS
<1> HIDE DEF new
<1>5. new \in Seq(ShellRows) /\ DOMAIN new = Shells
  BY <1>3, <1>4, EveryShell DEF RunTypes, Shells
<1> QED BY <1>1, <1>3, <1>5 DEF Shells

(* The end of the process: memory is lost, the tables stay. *)
LEMMA DownIs ==
  ASSUME RunTypes, NEW left \in Seq(ShellRows), DOMAIN left = Shells, Down(left)
  PROVE  /\ shells' \in Seq(ShellRows) /\ Shells' = Shells
         /\ \A a \in Shells : /\ shells'[a].session = left[a].session
                              /\ shells'[a].outcome = left[a].outcome
                              /\ shells'[a].ran = left[a].ran /\ shells'[a].cut = left[a].cut
         /\ requests' = Left(Ids) /\ server' = "down" /\ UNCHANGED <<disk, lives, gate, muddled>>
         /\ registry' = [s \in Sessions |-> 0] /\ tasks' = [s \in Sessions |-> 0]
         /\ deletion' = [s \in Sessions |-> NoDeletion] /\ rename' = [s \in Sessions |-> NoRename]
         /\ activate' = NoSession /\ stop' = NoStop
<1> DEFINE new == [a \in Shells |-> [left[a] EXCEPT !.memory = "unknown"]]
<1>1. shells' = new
  BY DEF Down
<1>2. \A a \in Shells : left[a] \in ShellRows
  BY SeqIsFunction
<1>3. ASSUME NEW a \in Shells
      PROVE  /\ new[a] \in ShellRows /\ new[a].session = left[a].session
             /\ new[a].outcome = left[a].outcome
             /\ new[a].ran = left[a].ran /\ new[a].cut = left[a].cut
  BY <1>2 DEF ShellRows
<1>4. new = [a \in Shells |-> new[a]]
  OBVIOUS
<1> HIDE DEF new
<1>5. new \in Seq(ShellRows) /\ DOMAIN new = Shells
  BY <1>3, <1>4, EveryShell
<1> QED BY <1>1, <1>3, <1>5 DEF Shells, Down

(* A crash: an approved command may have run, its result cut off. *)
LEMMA CrashIs ==
  ASSUME RunTypes, Crash
  PROVE  \E left \in Seq(ShellRows) :
           /\ DOMAIN left = Shells /\ Down(left)
           /\ \A a \in Shells : /\ left[a].session = shells[a].session
                                /\ left[a].outcome = shells[a].outcome
                                /\ left[a].ran - left[a].cut = shells[a].ran - shells[a].cut
<1>0. \A a \in Shells : shells[a] \in ShellRows
  BY SeqIsFunction DEF RunTypes, Shells
<1>1. CASE Down(shells)
  BY <1>0, <1>1 DEF RunTypes, Shells, ShellRows
<1>2. CASE \E s \in Sessions, a \in Shells : Approvable(s, a) /\ Down(Ran(a, "approved", 1))
  <2>1. PICK a \in Shells : Down(Ran(a, "approved", 1))
    BY <1>2
  <2> DEFINE left == Ran(a, "approved", 1)
  <2>2. /\ left \in Seq(ShellRows) /\ DOMAIN left = Shells
        /\ \A b \in Shells : /\ left[b].session = shells[b].session
                             /\ left[b].outcome = shells[b].outcome
                             /\ left[b].ran = IF b = a THEN shells[b].ran + 1 ELSE shells[b].ran
                             /\ left[b].cut = IF b = a THEN shells[b].cut + 1 ELSE shells[b].cut
    BY RanIs
  <2>3. \A b \in Shells : shells[b].ran \in Nat /\ shells[b].cut \in Nat
    BY <1>0 DEF ShellRows
  <2> HIDE DEF left
  <2>4. ASSUME NEW b \in Shells
        PROVE  left[b].ran - left[b].cut = shells[b].ran - shells[b].cut
    <3>1. \A x, y \in Nat : (x + 1) - (y + 1) = x - y
      OBVIOUS
    <3> QED BY <2>2, <2>3, <3>1
  <2>5. Down(left)
    BY <2>1 DEF left
  <2> QED BY <2>2, <2>4, <2>5
<1> QED BY <1>1, <1>2 DEF Crash

-----------------------------------------------------------------------------
(* Types. *)

LEMMA TypeStep == TypeOK /\ [Next]_vars => TypeOK'
<1> SUFFICES ASSUME TypeOK, [Next]_vars PROVE TypeOK'
  OBVIOUS
<1> USE DEF TypeOK
<1>d. UNCHANGED <<disk, muddled>> => DiskTypes'
  BY DEF disk, DiskTypes
<1>r. UNCHANGED <<shells, requests, runs>> => RunTypes'
  BY DEF runs, RunTypes
<1>t. UNCHANGED <<threads, intake, process>> => ThreadTypes'
  BY DEF threads, intake, process, ThreadTypes
<1>a. ASSUME NEW s \in Sessions, NEW kind, NEW a \in Nat, Append1(s, kind, a),
             upstream' \subseteq Sessions
      PROVE  DiskTypes'
  BY <1>a, Appended DEF DiskTypes
<1>u. upstream \subseteq Sessions /\ 0 \in Nat
  BY DEF DiskTypes
<1>e. ASSUME NEW i \in Ids, NEW t \in Terminations, End(i, t), shells' \in Seq(ShellRows)
      PROVE  RunTypes' /\ UNCHANGED <<threads, intake, process>>
  BY <1>e, EndIs DEF RunTypes
<1>i. \A i \in Ids : requests[i] \in RequestRows /\ requests[i].session \in Sessions
  <2>1. \A i \in Ids : requests[i] \in RequestRows
    BY SeqIsFunction DEF RunTypes, Ids
  <2> QED BY <2>1 DEF RequestRows
<1>s. shells \in Seq(ShellRows) /\ Len(shells) \in Nat /\ \A a \in Shells : a \in Nat
  BY SeqIsFunction DEF RunTypes, Shells
<1>f. \A s \in Sessions : file[s].open \in Nat /\ file[s] \in Views /\ row[s] \in Views
  BY DEF DiskTypes, Views
<1>x. Terminations = {"completed", "failed", "timed_out", "cancelled"}
  BY DEF Terminations
<1>c. ASSUME NEW ids, CancelTasks(ids), UNCHANGED <<shells, runs>> PROVE RunTypes'
  BY <1>c, TasksCancelled DEF RunTypes, runs
<1>1. ASSUME NEW s \in Sessions, StartNew(s) PROVE TypeOK'
  <2>1. DiskTypes'
    BY <1>1, AbsentViews DEF StartNew, DiskTypes
  <2> QED BY <1>1, <2>1, <1>r, <1>t DEF StartNew
<1>2. ASSUME NEW s \in Sessions, Chat(s) PROVE TypeOK'
  <2>1. PICK at \in {"building", "stuck"} : Register(s, Request(s, "chat", at), TRUE)
    BY <1>2 DEF Chat
  <2>2. Request(s, "chat", at) \in RequestRows /\ TRUE \in BOOLEAN
    BY RequestIs
  <2>3. RunTypes'
    BY <1>2, <2>1, <2>2, Registered DEF Chat, RunTypes
  <2> QED BY <1>2, <2>3, <1>d, <1>t DEF Chat
<1>3. ASSUME NEW s \in Sessions, Interrupt(s) PROVE TypeOK'
  BY <1>3, <1>c, <1>d, <1>t DEF Interrupt
<1>4. ASSUME NEW s \in Sessions, RenameBegins(s) PROVE TypeOK'
  <2>1. ThreadTypes'
    BY <1>4 DEF RenameBegins, ThreadTypes, intake, process
  <2> QED BY <1>4, <2>1, <1>d, <1>r DEF RenameBegins
<1>5. ASSUME NEW s \in Sessions, RenameWrites(s) PROVE TypeOK'
  <2>1. DiskTypes'
    BY <1>5, <1>f, <1>u, AfterIs DEF RenameWrites, DiskTypes
  <2>2. ThreadTypes'
    BY <1>5, <1>f DEF RenameWrites, ThreadTypes, intake, process
  <2> QED BY <1>5, <2>1, <2>2, <1>r DEF RenameWrites
<1>6. ASSUME NEW s \in Sessions, RenameIndexes(s) PROVE TypeOK'
  <2>0. rename[s].seen \in Views
    BY DEF ThreadTypes
  <2>1. /\ After(rename[s].seen, "session_rename", 0) \in Views /\ Refreshed(file[s]) \in Views
        /\ row[s] \in Views
    BY <2>0, <1>f, <1>u, AfterIs, RefreshedIs
  <2>2. row' = [row EXCEPT ![s] = IF ~rename[s].seen.there THEN Refreshed(file[s])
                ELSE IF row[s].there THEN After(rename[s].seen, "session_rename", 0) ELSE row[s]]
    BY <1>6 DEF RenameIndexes
  <2>3. row' \in [Sessions -> Views]
    BY <2>1, <2>2 DEF DiskTypes
  <2>4. DiskTypes'
    BY <1>6, <2>3 DEF RenameIndexes, DiskTypes
  <2>5. ThreadTypes'
    BY <1>6, AbsentViews DEF RenameIndexes, NoRename, ThreadTypes, intake, process
  <2> QED BY <1>6, <2>4, <2>5, <1>r DEF RenameIndexes
<1>7. ASSUME NEW s \in Sessions, ActivateBegins(s) PROVE TypeOK'
  <2>1. ThreadTypes'
    BY <1>7 DEF ActivateBegins, ThreadTypes, intake, process
  <2> QED BY <1>7, <2>1, <1>d, <1>r DEF ActivateBegins
<1>l. ASSUME NEW s \in Sessions, NEW state, Deleting(s, state),
             state \in [at : {"no", "upstream", "file", "row", "active"}, active : BOOLEAN]
      PROVE  ThreadTypes' /\ UNCHANGED <<born, requests, registry, tasks, rename, activate>>
  <2>1. ThreadTypes'
    BY <1>l DEF Deleting, ThreadTypes, intake, process
  <2> QED BY <1>l, <2>1 DEF Deleting, runs
<1>m. ASSUME NEW s \in Sessions, NEW at \in {"no", "upstream", "file", "row", "active"}
      PROVE  /\ [NoDeletion EXCEPT !.at = at] \in
                  [at : {"no", "upstream", "file", "row", "active"}, active : BOOLEAN]
             /\ NoDeletion \in [at : {"no", "upstream", "file", "row", "active"}, active : BOOLEAN]
  BY DEF NoDeletion, ThreadTypes
<1>8. ASSUME NEW s \in Sessions, DeleteBegins(s) PROVE TypeOK'
  BY <1>8, <1>l, <1>m DEF DeleteBegins, DiskTypes, RunTypes
<1>9. ASSUME NEW s \in Sessions, UpstreamDeleted(s) PROVE TypeOK'
  <2>1. DiskTypes'
    BY <1>9, <1>a, <1>u DEF UpstreamDeleted
  <2> QED BY <1>9, <2>1, <1>l, <1>m DEF UpstreamDeleted, RunTypes
<1>10. ASSUME NEW s \in Sessions, UpstreamFails(s) PROVE TypeOK'
  BY <1>10, <1>l, <1>m DEF UpstreamFails, DiskTypes, RunTypes
<1>11. ASSUME NEW s \in Sessions, NothingUpstream(s) PROVE TypeOK'
  BY <1>11, <1>l, <1>m DEF NothingUpstream, DiskTypes, RunTypes
<1>12. ASSUME NEW s \in Sessions, FileDeleted(s) PROVE TypeOK'
  <2>1. [at |-> "row", active |-> active = s] \in
          [at : {"no", "upstream", "file", "row", "active"}, active : BOOLEAN]
    OBVIOUS
  <2>2. ThreadTypes' /\ UNCHANGED <<born, requests, registry, tasks>>
    BY <1>12, <2>1, <1>l DEF FileDeleted
  <2>3. RunTypes'
    BY <1>12, <2>2, DroppedIs DEF RunTypes
  <2>4. DiskTypes'
    BY <1>12, <2>2, AbsentViews DEF FileDeleted, Muddles, DiskTypes
  <2> QED BY <2>2, <2>3, <2>4
<1>13. ASSUME NEW s \in Sessions, RowDeleted(s) PROVE TypeOK'
  <2>0. (IF deletion[s].active THEN [deletion[s] EXCEPT !.at = "active"] ELSE NoDeletion) \in
          [at : {"no", "upstream", "file", "row", "active"}, active : BOOLEAN]
    <3>1. [deletion[s] EXCEPT !.at = "active"] \in
            [at : {"no", "upstream", "file", "row", "active"}, active : BOOLEAN]
      BY DEF ThreadTypes
    <3>2. NoDeletion \in [at : {"no", "upstream", "file", "row", "active"}, active : BOOLEAN]
      BY <1>m
    <3> QED BY <3>1, <3>2
  <2>1. ThreadTypes' /\ UNCHANGED <<born, requests, registry, tasks>>
    BY <1>13, <2>0, <1>l DEF RowDeleted
  <2>2. DiskTypes'
    BY <1>13, <2>1, AbsentViews DEF RowDeleted, Muddles, DiskTypes
  <2> QED BY <1>13, <2>1, <2>2 DEF RowDeleted, RunTypes
<1>14. ASSUME NEW s \in Sessions, ActiveDeleted(s) PROVE TypeOK'
  <2>1. ThreadTypes' /\ UNCHANGED <<born, requests, registry, tasks>>
    BY <1>14, <1>l, <1>m DEF ActiveDeleted
  <2> QED BY <1>14, <2>1 DEF ActiveDeleted, RunTypes, DiskTypes
<1>15. ASSUME NEW s \in Sessions, NEW a \in Shells, Refused(s, a) PROVE TypeOK'
  <2>1. DiskTypes'
    BY <1>15, <1>a, <1>u DEF Refused
  <2>2. RunTypes'
    BY <1>15, RestoredIs DEF Refused, RunTypes, runs
  <2> QED BY <1>15, <2>1, <2>2, <1>t DEF Refused
<1>16. ASSUME NEW s \in Sessions, NEW a \in Shells, Approve(s, a) PROVE TypeOK'
  <2>1. DiskTypes'
    BY <1>16, <1>a, <1>u, <1>s DEF Approve
  <2>2. Request(s, "approve", "asking") \in RequestRows /\ FALSE \in BOOLEAN
    BY RequestIs
  <2>3. shells' \in Seq(ShellRows)
    <3> DEFINE old == Ran(a, "approved", 0)
    <3>1. old \in Seq(ShellRows) /\ DOMAIN old = Shells
      BY RanIs
    <3>2. shells' = [old EXCEPT ![a].outcome = "result"]
      BY <1>16 DEF Approve
    <3> HIDE DEF old
    <3> QED BY <3>1, <3>2, DecidedIs
  <2>4. RunTypes'
    BY <1>16, <2>2, <2>3, Registered DEF Approve, RunTypes
  <2> QED BY <1>16, <2>1, <2>4, <1>t DEF Approve
<1>17. ASSUME NEW s \in Sessions, NEW a \in Shells, CommandFails(s, a) PROVE TypeOK'
  <2>1. DiskTypes'
    BY <1>17, <1>a, <1>u DEF CommandFails
  <2>2. RunTypes'
    BY <1>17, RanIs DEF CommandFails, RunTypes, runs
  <2> QED BY <1>17, <2>1, <2>2, <1>t DEF CommandFails
<1>18. ASSUME NEW s \in Sessions, NEW a \in Shells, ResultIsLost(s, a) PROVE TypeOK'
  <2>1. RunTypes'
    BY <1>18, RanIs DEF ResultIsLost, RunTypes, runs
  <2> QED BY <1>18, <2>1, <1>d, <1>t DEF ResultIsLost, NothingAppended
<1>19. ASSUME NEW s \in Sessions, NEW a \in Shells, Deny(s, a) PROVE TypeOK'
  <2>1. DiskTypes'
    BY <1>19, <1>a, <1>u, <1>s DEF Deny
  <2>2. shells' \in Seq(ShellRows)
    <3> DEFINE denied == [Restored(a)[a] EXCEPT !.memory = "denied", !.outcome = "denial"]
               old == Restored(a)
    <3>1. old \in Seq(ShellRows) /\ DOMAIN old = Shells /\ old[a] \in ShellRows
      BY RestoredIs
    <3>2. denied \in ShellRows
      BY <3>1 DEF ShellRows
    <3>3. shells' = [old EXCEPT ![a].memory = "denied", ![a].outcome = "denial"]
      BY <1>19 DEF Deny
    <3> HIDE DEF old
    <3>4. Len(old) \in Nat /\ old \in [1..Len(old) -> ShellRows]
      BY <3>1, SeqIsFunction
    <3>5. shells' = [old EXCEPT ![a] = denied]
      BY <3>1, <3>3, <3>4 DEF old
    <3> HIDE DEF denied
    <3> QED BY <3>2, <3>4, <3>5, FunctionIsSeq
  <2>3. RunTypes'
    BY <1>19, <2>2 DEF Deny, RunTypes, runs
  <2> QED BY <1>19, <2>1, <2>3, <1>t DEF Deny
<1>20. ASSUME NEW i \in Ids, BuildFails(i) PROVE TypeOK'
  BY <1>20, <1>e, <1>s, <1>x, <1>d, <1>t DEF BuildFails, NothingAppended
<1>21. ASSUME NEW i \in Ids, Reminds(i) PROVE TypeOK'
  <2>1. shells' \in Seq(ShellRows)
    BY <1>21, RestoredIs DEF Reminds
  <2> QED BY <1>21, <2>1, <1>e, <1>x, <1>d, <1>t DEF Reminds, NothingAppended
<1>22. ASSUME NEW i \in Ids, StoresMessage(i) PROVE TypeOK'
  <2>1. DiskTypes'
    BY <1>22, <1>a, <1>u, <1>i DEF StoresMessage
  <2>2. requests' = [requests EXCEPT ![i] = [requests[i] EXCEPT !.at = "asking"]]
    BY <1>22 DEF StoresMessage
  <2>3. [requests[i] EXCEPT !.at = "asking"] \in RequestRows
    BY <1>i DEF RequestRows
  <2>4. RunTypes'
    BY <1>22, <2>2, <2>3, OneRequest DEF StoresMessage, RunTypes, runs
  <2> QED BY <1>22, <2>1, <2>4, <1>t DEF StoresMessage
<1>23. ASSUME NEW i \in Ids, Links(i) PROVE TypeOK'
  <2>1. upstream' \subseteq Sessions
    BY <1>23, <1>u, <1>i DEF Links
  <2>2. DiskTypes'
    BY <1>23, <2>1, <1>a, <1>u, <1>i DEF Links
  <2> QED BY <1>23, <2>2, <1>r, <1>t DEF Links
<1>24. ASSUME NEW i \in Ids, Answers(i) PROVE TypeOK'
  <2>1. DiskTypes'
    BY <1>24, <1>a, <1>u, <1>i DEF Answers
  <2> QED BY <1>24, <2>1, <1>e, <1>s, <1>x, <1>t DEF Answers
<1>25. ASSUME NEW i \in Ids, ReadsFiles(i) PROVE TypeOK'
  <2>1. DiskTypes'
    BY <1>25, <1>a, <1>u, <1>i DEF ReadsFiles
  <2>2. /\ requests' = [requests EXCEPT ![i] = [requests[i] EXCEPT !.left = requests[i].left - 1]]
        /\ requests[i].left > 1
    BY <1>25 DEF ReadsFiles
  <2>3. [requests[i] EXCEPT !.left = requests[i].left - 1] \in RequestRows
    <3>1. requests[i].left - 1 \in Nat
      BY <2>2, <1>i DEF RequestRows
    <3> QED BY <3>1, <1>i DEF RequestRows
  <2>4. RunTypes'
    BY <1>25, <2>2, <2>3, OneRequest DEF ReadsFiles, RunTypes, runs
  <2> QED BY <1>25, <2>1, <2>4, <1>t DEF ReadsFiles
<1>26. ASSUME NEW i \in Ids, AsksForShell(i) PROVE TypeOK'
  <2>1. NewShell(requests[i].session) \in ShellRows
    BY <1>i DEF NewShell, ShellRows
  <2>2. shells' \in Seq(ShellRows)
    BY <1>26, <2>1, <1>s, Longer DEF AsksForShell
  <2>3. Len(shells) + 1 \in Nat
    BY <1>s
  <2>4. DiskTypes'
    BY <1>26, <2>3, <1>a, <1>u, <1>i DEF AsksForShell
  <2> QED BY <1>26, <2>2, <2>4, <1>e, <1>x, <1>t DEF AsksForShell
<1>27. ASSUME NEW i \in Ids, Fails(i) PROVE TypeOK'
  <2>1. DiskTypes'
    BY <1>27, <1>a, <1>u, <1>i DEF Fails
  <2> QED BY <1>27, <2>1, <1>e, <1>s, <1>x, <1>t DEF Fails, ErrorTerminations
<1>28. ASSUME NEW i \in Ids, IsCancelled(i) PROVE TypeOK'
  <2>1. DiskTypes'
    BY <1>28, <1>a, <1>u, <1>i, <1>d DEF IsCancelled, NothingAppended
  <2> QED BY <1>28, <2>1, <1>e, <1>s, <1>x, <1>t DEF IsCancelled
<1>29. CASE Activates
  <2>1. DiskTypes'
    BY <1>29 DEF Activates, DiskTypes, ThreadTypes
  <2>2. ThreadTypes'
    BY <1>29 DEF Activates, ThreadTypes, intake, process
  <2> QED BY <1>29, <2>1, <2>2, <1>r DEF Activates
<1>30. CASE EmergencyStop
  <2>1. ThreadTypes'
    BY <1>30 DEF EmergencyStop, NoStop, ThreadTypes, threads, process
  <2> QED BY <1>30, <2>1, <1>d, <1>r DEF EmergencyStop
<1>31. CASE OpenIntake
  <2>1. ThreadTypes'
    BY <1>31 DEF OpenIntake, ThreadTypes, threads, process
  <2> QED BY <1>31, <2>1, <1>d, <1>r DEF OpenIntake
<1>y. Listed \subseteq Nat
  BY DEF Listed, RunTypes
<1>32. CASE StopCancels
  <2>1. ThreadTypes'
    BY <1>32, <1>y DEF StopCancels, ThreadTypes, threads, process
  <2> QED BY <1>32, <2>1, <1>c, <1>d DEF StopCancels
<1>33. CASE StopEnds
  <2>1. RunTypes'
    BY <1>33, LeftIs, Finished DEF StopEnds, RunTypes
  <2>2. ThreadTypes'
    BY <1>33 DEF StopEnds, NoStop, ThreadTypes, threads, process
  <2> QED BY <1>33, <2>1, <2>2, <1>d DEF StopEnds
<1>34. CASE Shutdown
  <2>1. ThreadTypes'
    BY <1>34, <1>y DEF Shutdown, ThreadTypes, threads, process
  <2> QED BY <1>34, <2>1, <1>c, <1>d DEF Shutdown
<1>z. ASSUME NEW left \in Seq(ShellRows), DOMAIN left = Shells, Down(left) PROVE TypeOK'
  <2>1. RunTypes'
    <3>1. /\ shells' \in Seq(ShellRows) /\ requests' = Left(Ids)
          /\ registry' \in [Sessions -> Nat] /\ tasks' \in [Sessions -> Nat]
      BY <1>z, DownIs
    <3>2. requests' \in Seq(RequestRows)
      BY <3>1, LeftIs
    <3> QED BY <3>1, <3>2 DEF RunTypes
  <2>2. ThreadTypes'
    <3>1. /\ deletion' = [s \in Sessions |-> NoDeletion] /\ rename' = [s \in Sessions |-> NoRename]
          /\ activate' = NoSession /\ stop' = NoStop /\ server' = "down"
          /\ UNCHANGED <<lives, gate>>
      BY <1>z, DownIs
    <3> QED BY <3>1, AbsentViews DEF ThreadTypes, NoDeletion, NoRename, NoStop
  <2> QED BY <1>z, <2>1, <2>2, <1>d, DownIs
<1>35. CASE ShutdownEnds
  BY <1>35, <1>z DEF ShutdownEnds, RunTypes, Shells
<1>36. CASE Crash
  BY <1>36, <1>z, CrashIs
<1>37. CASE Start
  <2>1. DiskTypes'
    BY <1>37, AbsentViews, RefreshedIs DEF Start, Known, DiskTypes
  <2>2. ThreadTypes'
    BY <1>37 DEF Start, ThreadTypes, threads
  <2> QED BY <1>37, <2>1, <2>2, <1>r DEF Start
<1>38. CASE UNCHANGED vars
  BY <1>38, <1>d, <1>r, <1>t DEF vars
<1> QED BY <1>1, <1>2, <1>3, <1>4, <1>5, <1>6, <1>7, <1>8, <1>9, <1>10, <1>11, <1>12, <1>13,
            <1>14, <1>15, <1>16, <1>17, <1>18, <1>19, <1>20, <1>21, <1>22, <1>23, <1>24, <1>25,
            <1>26, <1>27, <1>28, <1>29, <1>30, <1>31, <1>32, <1>33, <1>34, <1>35, <1>36, <1>37,
            <1>38 DEF Next, Ended

LEMMA TypeInit == Init => TypeOK
<1> SUFFICES ASSUME Init PROVE TypeOK
  OBVIOUS
<1>1. DiskTypes
  BY AbsentViews DEF Init, DiskTypes
<1>2. <<>> \in Seq(ShellRows) /\ <<>> \in Seq(RequestRows)
  OBVIOUS
<1>3. RunTypes
  BY <1>2 DEF Init, RunTypes
<1>4. ThreadTypes
  BY AbsentViews DEF Init, ThreadTypes, NoDeletion, NoRename, NoStop
<1> QED BY <1>1, <1>3, <1>4 DEF TypeOK

(* Transcripts, their rows, commands, turns and the threads stay well typed. *)
THEOREM ChatTypes == Spec => []TypeOK
BY TypeInit, TypeStep, PTL DEF Spec

-----------------------------------------------------------------------------
(* Turns and the registry.  The entry of a session is the request under way  *)
(* in it; a turn of a chat has a task, so a stop lists all of them; nothing  *)
(* is under way while the process is down.                                   *)

Exact ==
  /\ \A i \in Ids : requests[i].at # "over" => registry[requests[i].session] = i
  /\ \A s \in Sessions : registry[s] # 0 =>
       /\ registry[s] \in Ids /\ requests[registry[s]].session = s
       /\ requests[registry[s]].at # "over" /\ file[s].there /\ deletion[s].at = "no"

ChatsHaveTasks ==
  \A i \in Ids : requests[i].kind = "chat" /\ requests[i].at # "over" =>
    tasks[requests[i].session] = i

TasksAreRegistered == \A s \in Sessions : tasks[s] \in {0, registry[s]}

NothingRunsDown == ~Up => \A i \in Ids : requests[i].at = "over"

StopListsChats ==
  gate = "closed" /\ stop.at = "gather" =>
    \A i \in Ids : requests[i].kind = "chat" /\ requests[i].at # "over" => i \in stop.ids

RunInv == Exact /\ ChatsHaveTasks /\ TasksAreRegistered /\ NothingRunsDown
TurnInv == RunInv /\ StopListsChats /\ NoTurnOutlivesAStop

LEMMA RequestParts ==
  ASSUME RunTypes
  PROVE  \A i \in Ids : /\ i \in Nat \ {0} /\ requests[i].session \in Sessions
                        /\ requests[i] \in RequestRows
<1>1. \A i \in Ids : i \in Nat \ {0} /\ requests[i] \in RequestRows
  BY SeqIsFunction DEF RunTypes, Ids
<1> QED BY <1>1 DEF RequestRows

LEMMA ExactIs == TypeOK /\ Exact => RegistryIsExact
<1> SUFFICES ASSUME TypeOK, Exact, NEW s \in Sessions
             PROVE  /\ InProgress(s) = {registry[s]} \ {0}
                    /\ registry[s] # 0 => file[s].there /\ deletion[s].at = "no"
  BY DEF RegistryIsExact
<1>1. \A i \in InProgress(s) : i = registry[s] /\ i # 0
  BY RequestParts DEF Exact, InProgress, TypeOK
<1>2. registry[s] # 0 => registry[s] \in InProgress(s)
  BY DEF Exact, InProgress
<1>3. InProgress(s) \subseteq {registry[s]} \ {0}
  BY <1>1
<1>4. {registry[s]} \ {0} \subseteq InProgress(s)
  BY <1>2
<1> QED BY <1>3, <1>4 DEF Exact

LEMMA TurnStep == TypeOK /\ TurnInv /\ [Next]_vars => TurnInv'
<1> SUFFICES ASSUME TypeOK, TurnInv, [Next]_vars PROVE TurnInv'
  OBVIOUS
<1> USE DEF TypeOK
<1> DEFINE FilesStay == \A s \in Sessions : registry[s] # 0 => file'[s].there /\ deletion'[s].at = "no"
           SameRequests == /\ Ids' = Ids
                           /\ \A j \in Ids : /\ requests'[j].session = requests[j].session
                                             /\ requests'[j].kind = requests[j].kind
                                             /\ requests'[j].at = "over" <=> requests[j].at = "over"
<1>i. \A i \in Ids : i \in Nat \ {0} /\ requests[i].session \in Sessions /\ requests[i] \in RequestRows
  BY RequestParts
<1>v. \A s \in Sessions : registry[s] # 0 => file[s].there /\ deletion[s].at = "no"
  BY DEF TurnInv, RunInv, Exact
\* steps that leave everything under way as it is
<1>k. ASSUME SameRequests, UNCHANGED <<registry, tasks>>, Up' <=> Up, FilesStay PROVE RunInv'
  <2>1. Exact'
    BY <1>k, <1>i DEF TurnInv, RunInv, Exact
  <2>2. ChatsHaveTasks' /\ TasksAreRegistered' /\ NothingRunsDown'
    BY <1>k, <1>i DEF TurnInv, RunInv, ChatsHaveTasks, TasksAreRegistered, NothingRunsDown
  <2> QED BY <2>1, <2>2 DEF RunInv
<1>w. ASSUME SameRequests, Up' => Up, UNCHANGED intake PROVE StopListsChats' /\ NoTurnOutlivesAStop'
  BY <1>w DEF TurnInv, StopListsChats, NoTurnOutlivesAStop, intake
<1>0. ASSUME SameRequests, UNCHANGED <<registry, tasks, server, intake>>, FilesStay PROVE TurnInv'
  BY <1>0, <1>k, <1>w DEF TurnInv, Up
<1>s. UNCHANGED requests => SameRequests
  BY DEF Ids
<1>f. UNCHANGED <<file, deletion>> => FilesStay
  BY <1>v
<1>a. ASSUME NEW s \in Sessions, NEW kind, NEW a \in Nat, Append1(s, kind, a), UNCHANGED deletion
      PROVE  FilesStay
  <2>1. \A o \in Sessions : o = s \/ file'[o] = file[o]
    BY <1>a, Appended
  <2>2. file'[s].there
    BY <1>a, Appended, AfterIs DEF DiskTypes
  <2> QED BY <1>a, <2>1, <2>2, <1>v
\* the end of a turn
<1>e. ASSUME NEW i \in Ids, NEW t \in Terminations, End(i, t), requests[i].at # "over", FilesStay
      PROVE  TurnInv'
  <2>1. /\ Ids' = Ids /\ requests'[i].session = requests[i].session
        /\ requests'[i].kind = requests[i].kind
        /\ \A j \in Ids : j # i => requests'[j] = requests[j]
        /\ UNCHANGED <<intake, server>>
    BY <1>e, EndIs DEF process
  <2>2. CASE requests'[i].at = "stuck" /\ UNCHANGED <<registry, tasks>>
    <3>1. SameRequests
      BY <1>e, <2>1, <2>2
    <3> QED BY <1>e, <2>1, <2>2, <3>1, <1>0
  <2>3. CASE requests'[i].at = "over" /\ Finish({i})
    <3>1. \A s \in Sessions : /\ registry[s] = i => registry'[s] = 0 /\ tasks'[s] = 0
                              /\ registry[s] # i => registry'[s] = registry[s] /\ tasks'[s] = tasks[s]
      BY <2>3, Finished
    <3>2. registry[requests[i].session] = i
      BY <1>e DEF TurnInv, RunInv, Exact
    <3>3. Exact'
      <4>1. ASSUME NEW j \in Ids', requests'[j].at # "over"
            PROVE  registry'[requests'[j].session] = j
        <5>1. j \in Ids /\ j # i /\ requests'[j] = requests[j]
          BY <2>1, <2>3, <4>1
        <5> QED BY <4>1, <5>1, <3>1, <1>i DEF TurnInv, RunInv, Exact
      <4>2. ASSUME NEW s \in Sessions, registry'[s] # 0
            PROVE  /\ registry'[s] \in Ids' /\ requests'[registry'[s]].session = s
                   /\ requests'[registry'[s]].at # "over" /\ file'[s].there /\ deletion'[s].at = "no"
        <5>1. registry[s] # i /\ registry'[s] = registry[s] /\ registry[s] \in Ids
          BY <3>1, <4>2 DEF TurnInv, RunInv, Exact
        <5>2. requests'[registry[s]] = requests[registry[s]]
          BY <2>1, <5>1
        <5> QED BY <1>e, <2>1, <4>2, <5>1, <5>2 DEF TurnInv, RunInv, Exact
      <4> QED BY <4>1, <4>2 DEF Exact
    <3>4. ChatsHaveTasks' /\ TasksAreRegistered'
      <4>1. ASSUME NEW j \in Ids', requests'[j].kind = "chat", requests'[j].at # "over"
            PROVE  tasks'[requests'[j].session] = j
        <5>1. j \in Ids /\ j # i /\ requests'[j] = requests[j]
          BY <2>1, <2>3, <4>1
        <5> QED BY <4>1, <5>1, <3>1, <1>i DEF TurnInv, RunInv, Exact, ChatsHaveTasks
      <4>2. \A s \in Sessions : tasks'[s] \in {0, registry'[s]}
        BY <3>1 DEF TurnInv, RunInv, TasksAreRegistered
      <4> QED BY <4>1, <4>2 DEF ChatsHaveTasks, TasksAreRegistered
    <3>5. NothingRunsDown'
      BY <2>1, <2>3 DEF TurnInv, RunInv, NothingRunsDown, Up
    <3>6. StopListsChats' /\ NoTurnOutlivesAStop'
      BY <2>1, <2>3 DEF TurnInv, StopListsChats, NoTurnOutlivesAStop, Up, intake
    <3> QED BY <3>3, <3>4, <3>5, <3>6 DEF TurnInv, RunInv
  <2> QED BY <1>e, <2>2, <2>3, EndIs
\* a request registers, while the intake is open
<1>r. ASSUME NEW s \in Sessions, NEW r \in RequestRows, NEW task \in BOOLEAN, Register(s, r, task),
             r.session = s, r.at # "over", r.kind = "chat" => task,
             Free(s), Up, Up', gate' = "open", file'[s].there, deletion'[s].at = "no", FilesStay
      PROVE  TurnInv'
  <2> DEFINE n == Len(requests) + 1
  <2>1. /\ Ids' = Ids \cup {n} /\ n \in Nat \ {0} /\ n \notin Ids
        /\ requests'[n] = r /\ \A j \in Ids : requests'[j] = requests[j]
        /\ registry'[s] = n /\ tasks'[s] = IF task THEN n ELSE 0
        /\ \A o \in Sessions : o # s => registry'[o] = registry[o] /\ tasks'[o] = tasks[o]
    BY <1>r, Registered
  <2> HIDE DEF n
  <2>2. \A j \in Ids : requests[j].at # "over" => requests[j].session # s
    BY <1>r, <1>i DEF TurnInv, RunInv, Exact, Free
  <2>3. Exact'
    <3>1. ASSUME NEW j \in Ids', requests'[j].at # "over"
          PROVE  registry'[requests'[j].session] = j
      BY <1>r, <2>1, <2>2, <3>1, <1>i DEF TurnInv, RunInv, Exact
    <3>2. ASSUME NEW o \in Sessions, registry'[o] # 0
          PROVE  /\ registry'[o] \in Ids' /\ requests'[registry'[o]].session = o
                 /\ requests'[registry'[o]].at # "over" /\ file'[o].there /\ deletion'[o].at = "no"
      <4>1. CASE o = s
        BY <1>r, <2>1, <4>1
      <4>2. CASE o # s
        <5>1. registry'[o] = registry[o] /\ registry[o] \in Ids
          BY <2>1, <3>2, <4>2 DEF TurnInv, RunInv, Exact
        <5>2. requests'[registry[o]] = requests[registry[o]]
          BY <2>1, <5>1
        <5> QED BY <1>r, <2>1, <3>2, <5>1, <5>2 DEF TurnInv, RunInv, Exact
      <4> QED BY <4>1, <4>2
    <3> QED BY <3>1, <3>2 DEF Exact
  <2>4. ChatsHaveTasks'
    BY <1>r, <2>1, <2>2, <1>i DEF TurnInv, RunInv, ChatsHaveTasks
  <2>5. TasksAreRegistered'
    BY <2>1 DEF TurnInv, RunInv, TasksAreRegistered
  <2> QED BY <1>r, <2>3, <2>4, <2>5
          DEF TurnInv, RunInv, NothingRunsDown, StopListsChats, NoTurnOutlivesAStop
<1>x. Terminations = {"completed", "failed", "timed_out", "cancelled"}
  BY DEF Terminations
<1>n. NothingAppended /\ UNCHANGED deletion => FilesStay
  BY <1>f DEF NothingAppended, disk
<1>h. UNCHANGED threads => UNCHANGED deletion
  BY DEF threads
<1>c. ASSUME NEW ids, CancelTasks(ids) PROVE SameRequests
  BY <1>c, TasksCancelled
<1>o. ASSUME NEW i \in Ids, NEW r \in RequestRows, requests' = [requests EXCEPT ![i] = r],
             r.session = requests[i].session, r.kind = requests[i].kind,
             r.at = "over" <=> requests[i].at = "over"
      PROVE  SameRequests
  <2>1. Ids' = Ids /\ requests'[i] = r /\ \A j \in Ids : j # i => requests'[j] = requests[j]
    BY <1>o, OneRequest
  <2> QED BY <1>o, <2>1
<1>1. ASSUME NEW s \in Sessions, StartNew(s) PROVE TurnInv'
  <2>1. \A o \in Sessions : file[o].there => file'[o].there
    BY <1>1, AbsentViews DEF StartNew, DiskTypes
  <2>2. FilesStay
    BY <1>1, <2>1, <1>v DEF StartNew, threads
  <2> QED BY <1>1, <2>2, <1>s, <1>0 DEF StartNew, runs, process
<1>2. ASSUME NEW s \in Sessions, Chat(s) PROVE TurnInv'
  <2>1. PICK at \in {"building", "stuck"} : Register(s, Request(s, "chat", at), TRUE)
    BY <1>2 DEF Chat
  <2>2. /\ Request(s, "chat", at) \in RequestRows /\ Request(s, "chat", at).session = s
        /\ Request(s, "chat", at).at # "over"
    BY RequestIs
  <2>3. /\ Free(s) /\ Up /\ Up' /\ gate' = "open" /\ file'[s].there /\ UNCHANGED <<file, deletion>>
    BY <1>2 DEF Chat, StartIfExists, Serving, Up, disk, threads, intake, process
  <2>4. deletion'[s].at = "no"
    BY <2>3 DEF Free
  <2> QED BY <2>1, <2>2, <2>3, <2>4, <1>f, <1>r
<1>3. ASSUME NEW s \in Sessions, Interrupt(s) PROVE TurnInv'
  BY <1>3, <1>c, <1>f, <1>0 DEF Interrupt, disk, runs, threads, process
<1>4. ASSUME NEW s \in Sessions, RenameBegins(s) PROVE TurnInv'
  BY <1>4, <1>s, <1>f, <1>0 DEF RenameBegins, disk, runs, process
<1>5. ASSUME NEW s \in Sessions, RenameWrites(s) PROVE TurnInv'
  <2>1. \A o \in Sessions : file[o].there => file'[o].there
    BY <1>5, AfterIs DEF RenameWrites, DiskTypes
  <2>2. FilesStay
    BY <1>5, <2>1, <1>v DEF RenameWrites
  <2> QED BY <1>5, <2>2, <1>s, <1>0 DEF RenameWrites, runs, process
<1>6. ASSUME NEW s \in Sessions, RenameIndexes(s) PROVE TurnInv'
  BY <1>6, <1>s, <1>f, <1>0 DEF RenameIndexes, runs, process
<1>7. ASSUME NEW s \in Sessions, ActivateBegins(s) PROVE TurnInv'
  BY <1>7, <1>s, <1>f, <1>0 DEF ActivateBegins, disk, runs, process
\* deletion: of a session where nothing is under way
<1>d. ASSUME NEW s \in Sessions, NEW state, Deleting(s, state), registry[s] = 0,
             \A o \in Sessions : o # s => file'[o] = file[o]
      PROVE  TurnInv'
  <2>1. \A o \in Sessions : o # s => deletion'[o] = deletion[o]
    BY <1>d DEF Deleting, ThreadTypes
  <2>2. FilesStay
    BY <1>d, <2>1, <1>v
  <2> QED BY <1>d, <2>2, <1>s, <1>0 DEF Deleting, runs, process
<1>y. \A s \in Sessions, at \in {"upstream", "file", "row", "active"} :
        DeletionAt(s, at) => registry[s] = 0
  BY <1>v DEF DeletionAt
<1>8. ASSUME NEW s \in Sessions, DeleteBegins(s) PROVE TurnInv'
  BY <1>8, <1>d DEF DeleteBegins, Free
<1>9. ASSUME NEW s \in Sessions, UpstreamDeleted(s) PROVE TurnInv'
  <2>1. \A o \in Sessions : o # s => file'[o] = file[o]
    BY <1>9, Appended DEF UpstreamDeleted
  <2> QED BY <1>9, <2>1, <1>y, <1>d DEF UpstreamDeleted
<1>10. ASSUME NEW s \in Sessions, UpstreamFails(s) PROVE TurnInv'
  BY <1>10, <1>y, <1>d DEF UpstreamFails
<1>11. ASSUME NEW s \in Sessions, NothingUpstream(s) PROVE TurnInv'
  BY <1>11, <1>y, <1>d DEF NothingUpstream
<1>12. ASSUME NEW s \in Sessions, FileDeleted(s) PROVE TurnInv'
  <2>1. \A o \in Sessions : o # s => file'[o] = file[o]
    BY <1>12 DEF FileDeleted, DiskTypes
  <2> QED BY <1>12, <2>1, <1>y, <1>d DEF FileDeleted
<1>13. ASSUME NEW s \in Sessions, RowDeleted(s) PROVE TurnInv'
  BY <1>13, <1>y, <1>d DEF RowDeleted
<1>14. ASSUME NEW s \in Sessions, ActiveDeleted(s) PROVE TurnInv'
  BY <1>14, <1>y, <1>d DEF ActiveDeleted
<1>15. ASSUME NEW s \in Sessions, NEW a \in Shells, Refused(s, a) PROVE TurnInv'
  BY <1>15, <1>a, <1>s, <1>h, <1>0 DEF Refused, runs, process
<1>16. ASSUME NEW s \in Sessions, NEW a \in Shells, Approve(s, a) PROVE TurnInv'
  <2>1. /\ Request(s, "approve", "asking") \in RequestRows
        /\ Request(s, "approve", "asking").session = s /\ FALSE \in BOOLEAN
        /\ Request(s, "approve", "asking").at # "over"
        /\ Request(s, "approve", "asking").kind # "chat"
    BY RequestIs
  <2>2. /\ Free(s) /\ Up /\ Up' /\ gate' = "open" /\ UNCHANGED deletion
    BY <1>16 DEF Approve, Approvable, Decidable, StartIfExists, Serving, Up, threads, intake, process
  <2>3. a \in Nat
    BY SeqIsFunction DEF RunTypes, Shells
  <2>4. file'[s].there /\ FilesStay
    <3>1. Append1(s, "tool_result", a)
      BY <1>16 DEF Approve
    <3>2. file'[s].there
      BY <2>3, <3>1, Appended, AfterIs DEF DiskTypes
    <3> QED BY <2>2, <2>3, <3>1, <3>2, <1>a
  <2>5. deletion'[s].at = "no"
    BY <2>2 DEF Free
  <2>6. Register(s, Request(s, "approve", "asking"), FALSE)
    BY <1>16 DEF Approve
  <2> QED BY <2>1, <2>2, <2>4, <2>5, <2>6, <1>r
<1>17. ASSUME NEW s \in Sessions, NEW a \in Shells, CommandFails(s, a) PROVE TurnInv'
  BY <1>17, <1>a, <1>s, <1>h, <1>0 DEF CommandFails, runs, process
<1>18. ASSUME NEW s \in Sessions, NEW a \in Shells, ResultIsLost(s, a) PROVE TurnInv'
  BY <1>18, <1>n, <1>s, <1>h, <1>0 DEF ResultIsLost, runs, process
<1>19. ASSUME NEW s \in Sessions, NEW a \in Shells, Deny(s, a) PROVE TurnInv'
  <2>1. a \in Nat
    BY SeqIsFunction DEF RunTypes, Shells
  <2> QED BY <1>19, <2>1, <1>a, <1>s, <1>h, <1>0 DEF Deny, runs, process
<1>b. \A i \in Ids, t \in Terminations : End(i, t) => UNCHANGED deletion
  BY EndIs DEF threads
<1>20. ASSUME NEW i \in Ids, BuildFails(i) PROVE TurnInv'
  BY <1>20, <1>n, <1>b, <1>e, <1>x DEF BuildFails, Continues
<1>21. ASSUME NEW i \in Ids, Reminds(i) PROVE TurnInv'
  BY <1>21, <1>n, <1>b, <1>e, <1>x DEF Reminds, Continues
<1>22. ASSUME NEW i \in Ids, StoresMessage(i) PROVE TurnInv'
  <2>1. /\ requests' = [requests EXCEPT ![i] = [requests[i] EXCEPT !.at = "asking"]]
        /\ requests[i].at = "building"
    BY <1>22 DEF StoresMessage, Continues
  <2> DEFINE r == [requests[i] EXCEPT !.at = "asking"]
  <2>2. r \in RequestRows /\ r.session = requests[i].session /\ r.kind = requests[i].kind
        /\ r.at = "asking"
    BY <1>i DEF RequestRows
  <2>4. requests' = [requests EXCEPT ![i] = r]
    BY <2>1
  <2> HIDE DEF r
  <2>3. SameRequests
    BY <2>1, <2>2, <2>4, <1>o
  <2> QED BY <1>22, <2>3, <1>i, <1>a, <1>h, <1>0 DEF StoresMessage, runs, process
<1>23. ASSUME NEW i \in Ids, Links(i) PROVE TurnInv'
  BY <1>23, <1>i, <1>a, <1>s, <1>h, <1>0 DEF Links, runs, process
<1>24. ASSUME NEW i \in Ids, Answers(i) PROVE TurnInv'
  BY <1>24, <1>i, <1>a, <1>b, <1>e, <1>x DEF Answers, Continues
<1>25. ASSUME NEW i \in Ids, ReadsFiles(i) PROVE TurnInv'
  <2>1. /\ requests' = [requests EXCEPT ![i] = [requests[i] EXCEPT !.left = requests[i].left - 1]]
        /\ requests[i].left > 1
    BY <1>25 DEF ReadsFiles
  <2>2. requests[i].left - 1 \in Nat
    BY <2>1, <1>i DEF RequestRows
  <2> DEFINE r == [requests[i] EXCEPT !.left = requests[i].left - 1]
  <2>3. r \in RequestRows /\ r.session = requests[i].session /\ r.kind = requests[i].kind
        /\ r.at = requests[i].at
    BY <2>2, <1>i DEF RequestRows
  <2>5. requests' = [requests EXCEPT ![i] = r]
    BY <2>1
  <2> HIDE DEF r
  <2>4. SameRequests
    BY <2>3, <2>5, <1>o
  <2> QED BY <1>25, <2>4, <1>i, <1>a, <1>h, <1>0 DEF ReadsFiles, runs, process
<1>26. ASSUME NEW i \in Ids, AsksForShell(i) PROVE TurnInv'
  <2>1. Len(shells) + 1 \in Nat
    BY SeqIsFunction DEF RunTypes
  <2> QED BY <1>26, <2>1, <1>i, <1>a, <1>b, <1>e, <1>x DEF AsksForShell, Continues
<1>27. ASSUME NEW i \in Ids, Fails(i) PROVE TurnInv'
  BY <1>27, <1>i, <1>a, <1>b, <1>e, <1>x DEF Fails, Continues, ErrorTerminations
<1>28. ASSUME NEW i \in Ids, IsCancelled(i) PROVE TurnInv'
  BY <1>28, <1>i, <1>a, <1>n, <1>b, <1>e, <1>x DEF IsCancelled
<1>29. CASE Activates
  BY <1>29, <1>s, <1>f, <1>0 DEF Activates, runs, process
<1>u. ASSUME UNCHANGED <<disk, threads, server>>, UNCHANGED runs, SameRequests PROVE RunInv'
  BY <1>u, <1>f, <1>k DEF disk, threads, runs, Up
<1>30. CASE EmergencyStop
  <2>1. RunInv'
    BY <1>30, <1>s, <1>u DEF EmergencyStop, process
  <2>2. stop'.at = "called" /\ NoStop.at = "none"
    BY <1>30 DEF EmergencyStop, NoStop
  <2> QED BY <2>1, <2>2 DEF TurnInv, StopListsChats, NoTurnOutlivesAStop
<1>31. CASE OpenIntake
  <2>1. RunInv'
    BY <1>31, <1>s, <1>u DEF OpenIntake, process
  <2> QED BY <1>31, <2>1 DEF OpenIntake, TurnInv, StopListsChats, NoTurnOutlivesAStop
<1>32. CASE StopCancels
  <2>1. CancelTasks(Listed)
    BY <1>32 DEF StopCancels
  <2>2. SameRequests
    BY <2>1, <1>c
  <2>3. RunInv'
    BY <1>32, <2>2, <1>u DEF StopCancels, process
  <2>4. stop'.at = "gather" /\ stop'.ids = Listed /\ NoStop.at = "none"
    BY <1>32 DEF StopCancels, NoStop
  <2>5. \A i \in Ids : requests[i].kind = "chat" /\ requests[i].at # "over" => i \in Listed
    BY <1>i DEF Listed, TurnInv, RunInv, ChatsHaveTasks
  <2> QED BY <2>2, <2>3, <2>4, <2>5 DEF TurnInv, StopListsChats, NoTurnOutlivesAStop
<1>33. CASE StopEnds
  <2>1. /\ stop.at = "gather" /\ Finish(stop.ids) /\ requests' = Left(stop.ids) /\ stop' = NoStop
        /\ UNCHANGED <<file, deletion, gate, server>>
    BY <1>33 DEF StopEnds, disk, threads, process
  <2>2. /\ Ids' = Ids
        /\ \A j \in Ids : /\ requests'[j].session = requests[j].session
                          /\ requests'[j].kind = requests[j].kind
                          /\ requests'[j].at = IF j \in stop.ids THEN "over" ELSE requests[j].at
    BY <2>1, LeftIs
  <2>3. \A s \in Sessions : /\ registry[s] \in stop.ids => registry'[s] = 0 /\ tasks'[s] = 0
                            /\ registry[s] \notin stop.ids => /\ registry'[s] = registry[s]
                                                              /\ tasks'[s] = tasks[s]
    BY <2>1, Finished
  <2>4. Exact'
    <3>1. ASSUME NEW j \in Ids', requests'[j].at # "over"
          PROVE  registry'[requests'[j].session] = j
      BY <2>2, <2>3, <3>1, <1>i DEF TurnInv, RunInv, Exact
    <3>2. ASSUME NEW s \in Sessions, registry'[s] # 0
          PROVE  /\ registry'[s] \in Ids' /\ requests'[registry'[s]].session = s
                 /\ requests'[registry'[s]].at # "over" /\ file'[s].there /\ deletion'[s].at = "no"
      BY <2>1, <2>2, <2>3, <3>2 DEF TurnInv, RunInv, Exact
    <3> QED BY <3>1, <3>2 DEF Exact
  <2>5. ChatsHaveTasks'
    BY <2>2, <2>3, <1>i DEF TurnInv, RunInv, Exact, ChatsHaveTasks
  <2>6. TasksAreRegistered' /\ NothingRunsDown'
    BY <2>1, <2>2, <2>3 DEF TurnInv, RunInv, TasksAreRegistered, NothingRunsDown, Up
  <2>7. StopListsChats' /\ NoTurnOutlivesAStop'
    <3>1. stop'.at = "none"
      BY <2>1 DEF NoStop
    <3> QED BY <2>1, <2>2, <3>1, <1>i DEF TurnInv, StopListsChats, NoTurnOutlivesAStop, RequestRows
  <2> QED BY <2>4, <2>5, <2>6, <2>7 DEF TurnInv, RunInv
<1>34. CASE Shutdown
  <2>1. CancelTasks(Listed)
    BY <1>34 DEF Shutdown
  <2>2. RunInv'
    BY <1>34, <2>1, <1>c, <1>u DEF Shutdown, process
  <2>3. stop'.at = "exit" /\ NoStop.at = "none"
    BY <1>34 DEF Shutdown, NoStop
  <2> QED BY <2>2, <2>3 DEF TurnInv, StopListsChats, NoTurnOutlivesAStop
<1>z. ASSUME NEW left \in Seq(ShellRows), DOMAIN left = Shells, Down(left) PROVE TurnInv'
  <2>1. /\ requests' = Left(Ids) /\ server' = "down" /\ stop' = NoStop
        /\ registry' = [s \in Sessions |-> 0] /\ tasks' = [s \in Sessions |-> 0]
    BY <1>z, DownIs
  <2>2. Ids' = Ids /\ \A j \in Ids : requests'[j].at = "over"
    BY <2>1, LeftIs
  <2>3. stop'.at = "none"
    BY <2>1 DEF NoStop
  <2>4. RunInv'
    BY <2>1, <2>2 DEF RunInv, Exact, ChatsHaveTasks, TasksAreRegistered, NothingRunsDown
  <2> QED BY <2>2, <2>3, <2>4 DEF TurnInv, StopListsChats, NoTurnOutlivesAStop
<1>35. CASE ShutdownEnds
  BY <1>35, <1>z DEF ShutdownEnds, RunTypes, Shells
<1>36. CASE Crash
  BY <1>36, <1>z, CrashIs
<1>37. CASE Start
  <2>1. /\ UNCHANGED <<requests, runs, file, deletion>> /\ gate' = "open" /\ Up' /\ ~Up
    BY <1>37 DEF Start, threads, Up
  <2>2. Exact' /\ ChatsHaveTasks' /\ TasksAreRegistered'
    BY <2>1 DEF TurnInv, RunInv, Exact, ChatsHaveTasks, TasksAreRegistered, runs, Ids
  <2> QED BY <2>1, <2>2 DEF TurnInv, RunInv, NothingRunsDown, StopListsChats, NoTurnOutlivesAStop
<1>38. CASE UNCHANGED vars
  BY <1>38, <1>s, <1>f, <1>0 DEF vars, disk, runs, threads, process
<1> QED BY <1>1, <1>2, <1>3, <1>4, <1>5, <1>6, <1>7, <1>8, <1>9, <1>10, <1>11, <1>12, <1>13,
            <1>14, <1>15, <1>16, <1>17, <1>18, <1>19, <1>20, <1>21, <1>22, <1>23, <1>24, <1>25,
            <1>26, <1>27, <1>28, <1>29, <1>30, <1>31, <1>32, <1>33, <1>34, <1>35, <1>36, <1>37,
            <1>38 DEF Next, Ended

LEMMA TurnInit == Init => TurnInv
<1> SUFFICES ASSUME Init PROVE TurnInv
  OBVIOUS
<1>1. Ids = {} /\ ~Up /\ gate = "open"
  BY DEF Init, Ids, Up
<1>2. \A s \in Sessions : registry[s] = 0 /\ tasks[s] = 0
  BY DEF Init
<1> QED BY <1>1, <1>2 DEF TurnInv, RunInv, Exact, ChatsHaveTasks, TasksAreRegistered,
                          NothingRunsDown, StopListsChats, NoTurnOutlivesAStop

LEMMA TurnsHold == Spec => []TurnInv
BY ChatTypes, TurnInit, TurnStep, PTL DEF Spec

(* One turn or approved command runs in a session, exactly while the         *)
(* registry says so, on a transcript that is there and that nobody deletes;  *)
(* no chat turn outlives an emergency stop: for every number of sessions,    *)
(* requests, stops and restarts.                                             *)
THEOREM TurnsStayExact == Spec => []TurnsAreExact
<1>1. TypeOK /\ TurnInv => TurnsAreExact
  BY ExactIs DEF TurnInv, RunInv, TurnsAreExact
<1> QED BY ChatTypes, TurnsHold, <1>1, PTL

-----------------------------------------------------------------------------
(* Decisions about commands.  The request a transcript offers is undecided   *)
(* and of that session; the model is asked only where none is offered; a     *)
(* session that was never started has neither transcript nor thread.         *)

OpenIsKnown ==
  \A s \in Sessions : file[s].open # 0 =>
    /\ file[s].open \in Shells
    /\ shells[file[s].open].session = s /\ shells[file[s].open].outcome = "none"

AskedIsSettled ==
  \A i \in Ids : requests[i].at = "asking" => file[requests[i].session].open = 0

UnbornIsNothing ==
  \A s \in Sessions \ born : file[s] = Absent /\ rename[s].at = "no" /\ deletion[s].at = "no"

ShellInv == OpenIsKnown /\ AskedIsSettled /\ UnbornIsNothing /\ ShellRunsAsDecided

LEMMA ShellParts ==
  ASSUME RunTypes
  PROVE  \A a \in Shells : /\ a \in Nat \ {0} /\ shells[a] \in ShellRows
                           /\ shells[a].ran \in Nat /\ shells[a].cut \in Nat
                           /\ shells[a].session \in Sessions
<1>1. \A a \in Shells : a \in Nat \ {0} /\ shells[a] \in ShellRows
  BY SeqIsFunction DEF RunTypes, Shells
<1> QED BY <1>1 DEF ShellRows

(* Steps that leave decisions alone: what is offered, what became of every   *)
(* command, and who asks the model.                                          *)
KeptShells ==
  /\ Shells' = Shells
  /\ \A a \in Shells : /\ shells'[a].session = shells[a].session
                       /\ shells'[a].outcome = shells[a].outcome
                       /\ shells'[a].ran - shells'[a].cut = shells[a].ran - shells[a].cut

SameOpen == \A s \in Sessions : file'[s].open = file[s].open

FewerAsk ==
  \A j \in Ids' : requests'[j].at = "asking" =>
    j \in Ids /\ requests[j].at = "asking" /\ requests'[j].session = requests[j].session

LEMMA DecisionsKept ==
  ASSUME TypeOK, TypeOK', ShellInv, KeptShells, SameOpen
  PROVE  OpenIsKnown' /\ ShellRunsAsDecided'
<1>1. \A a \in Shells : /\ shells[a].ran \in Nat /\ shells[a].cut \in Nat
                        /\ shells[a].session \in Sessions
  BY ShellParts DEF TypeOK
<1>2. RunTypes'
  BY DEF TypeOK
<1>3. \A a \in Shells' : shells'[a].ran \in Nat /\ shells'[a].cut \in Nat
  <2>1. \A a \in Shells' : shells'[a] \in ShellRows
    BY <1>2, SeqIsFunction DEF RunTypes, Shells
  <2> QED BY <2>1 DEF ShellRows
<1>4. OpenIsKnown'
  BY DEF ShellInv, OpenIsKnown, KeptShells, SameOpen
<1>5. ASSUME NEW a \in Shells'
      PROVE  /\ shells'[a].ran = shells'[a].cut + (IF shells'[a].outcome = "result" THEN 1 ELSE 0)
             /\ shells'[a].outcome = "none" => file'[shells'[a].session].open = a
  <2>1. /\ shells[a].ran = shells[a].cut + (IF shells[a].outcome = "result" THEN 1 ELSE 0)
        /\ shells[a].outcome = "none" => file[shells[a].session].open = a
    BY <1>5 DEF ShellInv, ShellRunsAsDecided, Unresolved, KeptShells
  <2>2. /\ a \in Shells /\ shells'[a].session = shells[a].session
        /\ shells'[a].outcome = shells[a].outcome
        /\ shells'[a].ran - shells'[a].cut = shells[a].ran - shells[a].cut
    BY <1>5 DEF KeptShells
  <2>3. \A x, y, u, v \in Nat, k \in {0, 1} : x = y + k /\ u - v = x - y => u = v + k
    OBVIOUS
  <2>4. (IF shells[a].outcome = "result" THEN 1 ELSE 0) \in {0, 1}
    OBVIOUS
  <2>5. shells'[a].ran = shells'[a].cut + (IF shells[a].outcome = "result" THEN 1 ELSE 0)
    BY <1>1, <1>3, <1>5, <2>1, <2>2, <2>3, <2>4
  <2>6. shells[a].session \in Sessions
    BY <1>1, <2>2
  <2> QED BY <2>1, <2>2, <2>5, <2>6 DEF SameOpen
<1> QED BY <1>4, <1>5 DEF ShellRunsAsDecided, Unresolved

(* The request a decision is about ends: the transcript offers none any more. *)
LEMMA DecisionMade ==
  ASSUME TypeOK, TypeOK', ShellInv, NEW s \in Sessions, NEW a \in Shells, file[s].open = a,
         NEW outcome \in {"result", "denial"}, Shells' = Shells,
         \A b \in Shells : /\ shells'[b].session = shells[b].session
                           /\ shells'[b].outcome = IF b = a THEN outcome ELSE shells[b].outcome
                           /\ shells'[b].cut = shells[b].cut
                           /\ shells'[b].ran = IF b = a /\ outcome = "result"
                                               THEN shells[b].ran + 1 ELSE shells[b].ran,
         file'[s].open = 0, \A o \in Sessions : o # s => file'[o] = file[o]
  PROVE  OpenIsKnown' /\ ShellRunsAsDecided'
<1>1. \A b \in Shells : /\ b # 0 /\ shells[b].ran \in Nat /\ shells[b].cut \in Nat
                        /\ shells[b].session \in Sessions
  BY ShellParts DEF TypeOK
<1>2. shells[a].session = s /\ shells[a].outcome = "none"
  BY <1>1 DEF ShellInv, OpenIsKnown
<1>3. shells[a].ran = shells[a].cut
  BY <1>1, <1>2 DEF ShellInv, ShellRunsAsDecided
<1>4. OpenIsKnown'
  <2>1. ASSUME NEW o \in Sessions, file'[o].open # 0
        PROVE  /\ file'[o].open \in Shells'
               /\ shells'[file'[o].open].session = o /\ shells'[file'[o].open].outcome = "none"
    <3>1. o # s /\ file'[o] = file[o]
      BY <2>1
    <3>2. file[o].open \in Shells /\ shells[file[o].open].session = o
          /\ shells[file[o].open].outcome = "none"
      BY <2>1, <3>1 DEF ShellInv, OpenIsKnown
    <3>3. file[o].open # a
      BY <1>2, <3>1, <3>2
    <3> QED BY <3>1, <3>2, <3>3
  <2> QED BY <2>1 DEF OpenIsKnown
<1>5. ASSUME NEW b \in Shells'
      PROVE  /\ shells'[b].ran = shells'[b].cut + (IF shells'[b].outcome = "result" THEN 1 ELSE 0)
             /\ shells'[b].outcome = "none" => file'[shells'[b].session].open = b
  <2>1. CASE b = a
    BY <1>1, <1>3, <2>1
  <2>2. CASE b # a
    <3>1. b \in Shells /\ shells'[b].session = shells[b].session
          /\ shells'[b].outcome = shells[b].outcome /\ shells'[b].ran = shells[b].ran
          /\ shells'[b].cut = shells[b].cut
      BY <1>5, <2>2
    <3>2. /\ shells[b].ran = shells[b].cut + (IF shells[b].outcome = "result" THEN 1 ELSE 0)
          /\ shells[b].outcome = "none" => file[shells[b].session].open = b
      BY <3>1 DEF ShellInv, ShellRunsAsDecided, Unresolved
    <3>3. shells[b].outcome = "none" => shells[b].session # s
      BY <2>2, <3>2
    <3>4. shells[b].session \in Sessions
      BY <1>1, <3>1
    <3> QED BY <3>1, <3>2, <3>3, <3>4
  <2> QED BY <2>1, <2>2
<1> QED BY <1>4, <1>5 DEF ShellRunsAsDecided, Unresolved

(* A run that was cut off, and a denial, change one command. *)
LEMMA CutShort ==
  ASSUME TypeOK, NEW a \in Shells, NEW memory \in {"pending", "approved"}, shells' = Ran(a, memory, 1)
  PROVE  KeptShells
<1>1. \A b \in Shells : shells[b].ran \in Nat /\ shells[b].cut \in Nat
  BY ShellParts DEF TypeOK
<1>2. /\ Shells' = Shells
      /\ \A b \in Shells : /\ shells'[b].session = shells[b].session
                           /\ shells'[b].outcome = shells[b].outcome
                           /\ shells'[b].ran = IF b = a THEN shells[b].ran + 1 ELSE shells[b].ran
                           /\ shells'[b].cut = IF b = a THEN shells[b].cut + 1 ELSE shells[b].cut
  BY RanIs DEF Shells, TypeOK
<1>3. \A x, y \in Nat : (x + 1) - (y + 1) = x - y
  OBVIOUS
<1> QED BY <1>1, <1>2, <1>3 DEF KeptShells

LEMMA DeniedIs ==
  ASSUME TypeOK, NEW a \in Shells,
         shells' = [Restored(a) EXCEPT ![a].memory = "denied", ![a].outcome = "denial"]
  PROVE  /\ Shells' = Shells
         /\ \A b \in Shells : /\ shells'[b].session = shells[b].session
                              /\ shells'[b].outcome = IF b = a THEN "denial" ELSE shells[b].outcome
                              /\ shells'[b].ran = shells[b].ran /\ shells'[b].cut = shells[b].cut
<1> DEFINE old == Restored(a)
<1>1. /\ DOMAIN old = Shells /\ old \in Seq(ShellRows)
      /\ \A b \in Shells : /\ old[b] \in ShellRows /\ old[b].session = shells[b].session
                           /\ old[b].outcome = shells[b].outcome
                           /\ old[b].ran = shells[b].ran /\ old[b].cut = shells[b].cut
  BY RestoredIs DEF TypeOK
<1>2. shells' = [old EXCEPT ![a].memory = "denied", ![a].outcome = "denial"]
  OBVIOUS
<1> HIDE DEF old
<1> DEFINE r == [old[a] EXCEPT !.memory = "denied", !.outcome = "denial"]
<1>3. /\ r.session = old[a].session /\ r.outcome = "denial"
      /\ r.ran = old[a].ran /\ r.cut = old[a].cut
  BY <1>1 DEF ShellRows
<1>4. old \in [Shells -> ShellRows]
  BY <1>1, SeqIsFunction
<1>5. shells' = [old EXCEPT ![a] = r]
  BY <1>2, <1>4
<1> HIDE DEF r
<1>6. DOMAIN shells' = Shells /\ shells'[a] = r /\ \A b \in Shells : b # a => shells'[b] = old[b]
  BY <1>4, <1>5
<1>7. Shells' = Shells
  BY <1>6 DEF Shells
<1>8. ASSUME NEW b \in Shells
      PROVE  /\ shells'[b].session = old[b].session
             /\ shells'[b].outcome = IF b = a THEN "denial" ELSE old[b].outcome
             /\ shells'[b].ran = old[b].ran /\ shells'[b].cut = old[b].cut
  BY <1>3, <1>6
<1> QED BY <1>1, <1>7, <1>8

LEMMA ShellStep == TypeOK /\ TypeOK' /\ TurnInv /\ ShellInv /\ [Next]_vars => ShellInv'
<1> SUFFICES ASSUME TypeOK, TypeOK', TurnInv, ShellInv, [Next]_vars PROVE ShellInv'
  OBVIOUS
<1>i. \A i \in Ids : i \in Nat \ {0} /\ requests[i].session \in Sessions /\ requests[i] \in RequestRows
  BY RequestParts DEF TypeOK
<1>p. \A a \in Shells : /\ a \in Nat \ {0} /\ shells[a] \in ShellRows
                        /\ shells[a].ran \in Nat /\ shells[a].cut \in Nat
                        /\ shells[a].session \in Sessions
  BY ShellParts DEF TypeOK
<1>v. \A s \in Sessions : /\ file[s] \in Views /\ file[s].open \in Nat
                          /\ registry[s] # 0 => file[s].there /\ deletion[s].at = "no"
  BY DEF TypeOK, DiskTypes, Views, TurnInv, RunInv, Exact
<1>g. \A i \in Ids : requests[i].at # "over" => file[requests[i].session].there
  BY <1>i, <1>v DEF TurnInv, RunInv, Exact
<1>t. RunTypes /\ DiskTypes /\ ThreadTypes
  BY DEF TypeOK
<1> DEFINE Quiet == /\ born \subseteq born'
                    /\ \A o \in Sessions \ born' :
                         file'[o] = file[o] /\ rename'[o].at = rename[o].at /\ deletion'[o].at = deletion[o].at
\* the parts
<1>q. Quiet => UnbornIsNothing'
  BY DEF ShellInv, UnbornIsNothing
<1>o. SameOpen /\ FewerAsk => AskedIsSettled'
  BY <1>i DEF ShellInv, AskedIsSettled, SameOpen, FewerAsk
<1>0. KeptShells /\ SameOpen /\ FewerAsk /\ Quiet => ShellInv'
  BY <1>q, <1>o, DecisionsKept DEF ShellInv
\* what leaves them alone
<1>b. \A s \in Sessions : file[s].there \/ rename[s].at # "no" \/ deletion[s].at # "no" => s \in born
  BY AbsentViews DEF ShellInv, UnbornIsNothing
<1>s. UNCHANGED shells => KeptShells
  BY DEF KeptShells, Shells
<1>k. ASSUME NEW a, shells' = Restored(a) PROVE KeptShells
  BY <1>k, <1>t, RestoredIs DEF KeptShells, Shells
<1>r. UNCHANGED requests => FewerAsk
  BY DEF FewerAsk, Ids
<1>c. ASSUME NEW ids, CancelTasks(ids) PROVE FewerAsk
  BY <1>c, <1>t, TasksCancelled DEF FewerAsk
<1>l. ASSUME NEW ids, requests' = Left(ids) PROVE FewerAsk
  BY <1>l, <1>t, LeftIs DEF FewerAsk
<1>e. ASSUME NEW i \in Ids, NEW t \in Terminations, End(i, t)
      PROVE  /\ FewerAsk /\ UNCHANGED <<deletion, rename>> /\ Ids' = Ids
             /\ requests'[i].at # "asking" /\ \A j \in Ids : j # i => requests'[j] = requests[j]
  BY <1>e, <1>t, EndIs DEF FewerAsk, threads
<1>x. Terminations = {"completed", "failed", "timed_out", "cancelled"}
  BY DEF Terminations
<1>f. UNCHANGED file => SameOpen
  BY DEF SameOpen
<1>d. UNCHANGED <<born, file, rename, deletion>> => Quiet
  OBVIOUS
\* an event of a session that was started
<1>a. ASSUME NEW s \in Sessions, NEW kind, NEW a \in Nat, Append1(s, kind, a), s \in born,
             UNCHANGED <<deletion, rename>>
      PROVE  Quiet
  BY <1>a, <1>t, Appended
<1>j. ASSUME NEW s \in Sessions, NEW kind, Append1(s, kind, 0),
             kind \notin {"tool_request", "tool_result", "tool_denial"}
      PROVE  SameOpen
  <2>1. /\ file'[s] = After(file[s], kind, 0)
        /\ \A o \in Sessions : o # s => file'[o] = file[o]
    BY <1>j, <1>t, Appended
  <2> QED BY <1>j, <1>v, <2>1, AfterIs DEF SameOpen
<1>h. UNCHANGED threads => UNCHANGED <<deletion, rename>>
  BY DEF threads
<1>n. NothingAppended => UNCHANGED <<born, file>>
  BY DEF NothingAppended, disk
<1>1. ASSUME NEW s \in Sessions, StartNew(s) PROVE ShellInv'
  <2>1. /\ s \notin born /\ born' = born \cup {s} /\ file' = [file EXCEPT ![s] = Fresh]
        /\ UNCHANGED <<shells, requests, rename, deletion>>
    BY <1>1 DEF StartNew, threads
  <2>2. file[s].open = 0
    BY <2>1, AbsentViews DEF ShellInv, UnbornIsNothing
  <2>3. SameOpen
    BY <2>1, <2>2, <1>t, AbsentViews DEF SameOpen, DiskTypes
  <2>4. Quiet
    BY <2>1, <1>t DEF DiskTypes
  <2> QED BY <2>1, <2>3, <2>4, <1>s, <1>r, <1>0
<1>2. ASSUME NEW s \in Sessions, Chat(s) PROVE ShellInv'
  <2>1. PICK at \in {"building", "stuck"} : Register(s, Request(s, "chat", at), TRUE)
    BY <1>2 DEF Chat
  <2>2. /\ Request(s, "chat", at) \in RequestRows /\ Request(s, "chat", at).at = at /\ TRUE \in BOOLEAN
    BY RequestIs
  <2> DEFINE n == Len(requests) + 1
             r == Request(s, "chat", at)
  <2>3. Ids' = Ids \cup {n} /\ requests'[n] = r /\ \A j \in Ids : requests'[j] = requests[j]
    BY <2>1, <2>2, <1>t, Registered
  <2> HIDE DEF n
  <2>4. FewerAsk
    BY <2>2, <2>3 DEF FewerAsk
  <2> QED BY <1>2, <2>4, <1>s, <1>f, <1>d, <1>0 DEF Chat, disk, threads
<1>3. ASSUME NEW s \in Sessions, Interrupt(s) PROVE ShellInv'
  BY <1>3, <1>c, <1>s, <1>f, <1>d, <1>0 DEF Interrupt, disk, threads
\* threads: renaming, activating, deleting
<1>4. ASSUME NEW s \in Sessions, RenameBegins(s) PROVE ShellInv'
  <2>1. Quiet
    BY <1>4, <1>b, <1>t DEF RenameBegins, disk, ThreadTypes
  <2> QED BY <1>4, <2>1, <1>s, <1>r, <1>f, <1>0 DEF RenameBegins, disk
<1>5. ASSUME NEW s \in Sessions, RenameWrites(s) PROVE ShellInv'
  <2>1. /\ file' = [file EXCEPT ![s] = After(file[s], "session_rename", 0)] /\ s \in born
        /\ UNCHANGED <<born, shells, requests, deletion>>
        /\ rename' = [rename EXCEPT ![s] = [at |-> "index", seen |-> row[s]]]
    BY <1>5, <1>b DEF RenameWrites
  <2>2. SameOpen
    BY <2>1, <1>t, <1>v, AfterIs DEF SameOpen, DiskTypes
  <2>3. Quiet
    BY <2>1, <1>t DEF DiskTypes, ThreadTypes
  <2> QED BY <2>1, <2>2, <2>3, <1>s, <1>r, <1>0
<1>6. ASSUME NEW s \in Sessions, RenameIndexes(s) PROVE ShellInv'
  <2>1. Quiet
    BY <1>6, <1>b, <1>t DEF RenameIndexes, ThreadTypes
  <2> QED BY <1>6, <2>1, <1>s, <1>r, <1>f, <1>0 DEF RenameIndexes
<1>7. ASSUME NEW s \in Sessions, ActivateBegins(s) PROVE ShellInv'
  BY <1>7, <1>s, <1>r, <1>f, <1>d, <1>0 DEF ActivateBegins, disk
<1>m. ASSUME NEW s \in Sessions, NEW state, Deleting(s, state), s \in born,
             \A o \in Sessions : o # s => file'[o] = file[o]
      PROVE  Quiet /\ FewerAsk
  <2>1. \A o \in Sessions : o # s => deletion'[o] = deletion[o]
    BY <1>m, <1>t DEF Deleting, ThreadTypes
  <2>2. UNCHANGED <<born, requests, rename>>
    BY <1>m DEF Deleting
  <2> QED BY <1>m, <2>1, <2>2, <1>r
<1>y. ASSUME NEW s \in Sessions, NEW at \in {"upstream", "file", "row", "active"}, DeletionAt(s, at)
      PROVE  s \in born
  BY <1>y, <1>b DEF DeletionAt
<1>z. ASSUME NEW s \in Sessions, NEW state, Deleting(s, state), s \in born, UNCHANGED <<file, shells>>
      PROVE  ShellInv'
  BY <1>z, <1>m, <1>s, <1>f, <1>0
<1>8. ASSUME NEW s \in Sessions, DeleteBegins(s) PROVE ShellInv'
  BY <1>8, <1>b, <1>z DEF DeleteBegins
<1>9. ASSUME NEW s \in Sessions, UpstreamDeleted(s) PROVE ShellInv'
  <2>1. Append1(s, "agent_session_unlink", 0) /\ UNCHANGED shells /\ s \in born
    BY <1>9, <1>y DEF UpstreamDeleted
  <2>2. \A o \in Sessions : o # s => file'[o] = file[o]
    BY <2>1, <1>t, Appended
  <2>3. Quiet /\ FewerAsk
    BY <1>9, <2>1, <2>2, <1>m DEF UpstreamDeleted
  <2> QED BY <2>1, <2>3, <1>j, <1>s, <1>0
<1>10. ASSUME NEW s \in Sessions, UpstreamFails(s) PROVE ShellInv'
  BY <1>10, <1>y, <1>z DEF UpstreamFails
<1>11. ASSUME NEW s \in Sessions, NothingUpstream(s) PROVE ShellInv'
  BY <1>11, <1>y, <1>z DEF NothingUpstream
<1>12. ASSUME NEW s \in Sessions, FileDeleted(s) PROVE ShellInv'
  <2>1. /\ file' = [file EXCEPT ![s] = Absent] /\ s \in born
        /\ Deleting(s, [at |-> "row", active |-> active = s])
    BY <1>12, <1>y DEF FileDeleted
  <2>2. file'[s].open = 0 /\ \A o \in Sessions : o # s => file'[o] = file[o]
    BY <2>1, <1>t, AbsentViews DEF DiskTypes
  <2>3. Quiet /\ FewerAsk
    BY <2>1, <2>2, <1>m
  <2>4. AskedIsSettled'
    BY <2>2, <2>3, <1>i DEF ShellInv, AskedIsSettled, FewerAsk
  <2>5. /\ Shells' = Shells
        /\ \A a \in Shells :
             /\ shells'[a].session = shells[a].session
             /\ shells'[a].ran = shells[a].ran /\ shells'[a].cut = shells[a].cut
             /\ shells'[a].outcome = IF shells[a].session = s /\ shells[a].outcome = "none"
                                     THEN "dropped" ELSE shells[a].outcome
    BY <1>12, <1>t, DroppedIs
  <2>6. OpenIsKnown'
    <3>1. ASSUME NEW o \in Sessions, file'[o].open # 0
          PROVE  /\ file'[o].open \in Shells'
                 /\ shells'[file'[o].open].session = o /\ shells'[file'[o].open].outcome = "none"
      <4>1. o # s /\ file'[o] = file[o]
        BY <2>2, <3>1
      <4>2. file[o].open \in Shells /\ shells[file[o].open].session = o
            /\ shells[file[o].open].outcome = "none"
        BY <3>1, <4>1 DEF ShellInv, OpenIsKnown
      <4> QED BY <2>5, <4>1, <4>2
    <3> QED BY <3>1 DEF OpenIsKnown
  <2>7. ShellRunsAsDecided'
    <3>1. ASSUME NEW a \in Shells'
          PROVE  /\ shells'[a].ran = shells'[a].cut + (IF shells'[a].outcome = "result" THEN 1 ELSE 0)
                 /\ shells'[a].outcome = "none" => file'[shells'[a].session].open = a
      <4>1. /\ shells[a].ran = shells[a].cut + (IF shells[a].outcome = "result" THEN 1 ELSE 0)
            /\ shells[a].outcome = "none" => file[shells[a].session].open = a
            /\ a \in Shells /\ shells[a].session \in Sessions
        BY <2>5, <3>1, <1>p DEF ShellInv, ShellRunsAsDecided, Unresolved
      <4>2. shells'[a].outcome = "result" <=> shells[a].outcome = "result"
        BY <2>5, <4>1
      <4>3. shells'[a].outcome = "none" => shells[a].outcome = "none" /\ shells[a].session # s
        BY <2>5, <4>1
      <4> QED BY <2>2, <2>5, <4>1, <4>2, <4>3
    <3> QED BY <3>1 DEF ShellRunsAsDecided, Unresolved
  <2> QED BY <2>3, <2>4, <2>6, <2>7, <1>q DEF ShellInv
<1>13. ASSUME NEW s \in Sessions, RowDeleted(s) PROVE ShellInv'
  BY <1>13, <1>y, <1>z DEF RowDeleted
<1>14. ASSUME NEW s \in Sessions, ActiveDeleted(s) PROVE ShellInv'
  BY <1>14, <1>y, <1>z DEF ActiveDeleted
\* decisions, in a session that is there
<1>u. ASSUME NEW s \in Sessions, NEW a, Decidable(s, a) \/ Approvable(s, a) PROVE s \in born
  BY <1>u, <1>b DEF Decidable, Approvable, StartIfExists
<1>15. ASSUME NEW s \in Sessions, NEW a \in Shells, Refused(s, a) PROVE ShellInv'
  <2>1. /\ s \in born /\ Append1(s, "runtime_error", 0) /\ UNCHANGED <<requests, deletion, rename>>
        /\ shells' = Restored(a) \/ UNCHANGED shells
    BY <1>15, <1>u DEF Refused, threads
  <2>2. KeptShells
    BY <2>1, <1>k, <1>s
  <2> QED BY <2>1, <2>2, <1>a, <1>j, <1>r, <1>0
<1>w. ASSUME NEW s \in Sessions, NEW a \in Shells, NEW kind \in {"tool_result", "tool_denial"},
             Append1(s, kind, a), file[s].open = a
      PROVE  file'[s].open = 0 /\ \A o \in Sessions : o # s => file'[o] = file[o]
  <2>1. /\ file'[s] = After(file[s], kind, a) /\ a \in Nat
        /\ \A o \in Sessions : o # s => file'[o] = file[o]
    BY <1>w, <1>t, <1>p, Appended
  <2> QED BY <1>w, <1>v, <2>1, AfterIs
<1>16. ASSUME NEW s \in Sessions, NEW a \in Shells, Approve(s, a) PROVE ShellInv'
  <2>1. /\ s \in born /\ file[s].open = a /\ Append1(s, "tool_result", a)
        /\ Register(s, Request(s, "approve", "asking"), FALSE) /\ UNCHANGED <<deletion, rename>>
        /\ shells' = [Ran(a, "approved", 0) EXCEPT ![a].outcome = "result"]
    BY <1>16, <1>u DEF Approve, Approvable, Pending, Unresolved, threads
  <2>2. file'[s].open = 0 /\ \A o \in Sessions : o # s => file'[o] = file[o]
    BY <2>1, <1>w
  <2> DEFINE old == Ran(a, "approved", 0)
  <2>3. /\ old \in Seq(ShellRows) /\ DOMAIN old = Shells
        /\ \A b \in Shells : /\ old[b].session = shells[b].session
                             /\ old[b].outcome = shells[b].outcome
                             /\ old[b].ran = IF b = a THEN shells[b].ran + 1 ELSE shells[b].ran
                             /\ old[b].cut = IF b = a THEN shells[b].cut + 0 ELSE shells[b].cut
    BY <1>t, RanIs
  <2>4. shells' = [old EXCEPT ![a].outcome = "result"]
    BY <2>1
  <2> HIDE DEF old
  <2>5. /\ DOMAIN shells' = Shells
        /\ \A b \in Shells : /\ shells'[b].session = old[b].session
                             /\ shells'[b].outcome = IF b = a THEN "result" ELSE old[b].outcome
                             /\ shells'[b].ran = old[b].ran /\ shells'[b].cut = old[b].cut
    BY <2>3, <2>4, DecidedIs
  <2>6. \A b \in Shells : old[b].cut = shells[b].cut
    BY <2>3, <1>p
  <2>7. Shells' = Shells
    BY <2>5 DEF Shells
  <2>8. OpenIsKnown' /\ ShellRunsAsDecided'
    BY <2>1, <2>2, <2>3, <2>5, <2>6, <2>7, DecisionMade
  <2>9. /\ Ids' = Ids \cup {Len(requests) + 1}
        /\ requests'[Len(requests) + 1].session = s
        /\ \A j \in Ids : requests'[j] = requests[j]
    <3>1. /\ Request(s, "approve", "asking") \in RequestRows /\ FALSE \in BOOLEAN
          /\ Request(s, "approve", "asking").session = s
      BY RequestIs
    <3>2. Register(s, Request(s, "approve", "asking"), FALSE) /\ RunTypes
      BY <2>1, <1>t
    <3> QED BY <3>1, <3>2, Registered
  <2>10. AskedIsSettled'
    BY <2>2, <2>9, <1>i DEF ShellInv, AskedIsSettled
  <2>11. a \in Nat
    BY <1>p
  <2>12. Quiet
    BY <2>1, <2>11, <1>a
  <2> QED BY <2>8, <2>10, <2>12, <1>q DEF ShellInv
<1>17. ASSUME NEW s \in Sessions, NEW a \in Shells, CommandFails(s, a) PROVE ShellInv'
  <2>1. /\ s \in born /\ Append1(s, "runtime_error", 0) /\ UNCHANGED <<requests, deletion, rename>>
        /\ shells' = Ran(a, "pending", 1)
    BY <1>17, <1>u DEF CommandFails, threads
  <2>2. KeptShells
    BY <2>1, CutShort
  <2> QED BY <2>1, <2>2, <1>a, <1>j, <1>r, <1>0
<1>18. ASSUME NEW s \in Sessions, NEW a \in Shells, ResultIsLost(s, a) PROVE ShellInv'
  <2>1. NothingAppended /\ UNCHANGED <<requests, deletion, rename>> /\ shells' = Ran(a, "approved", 1)
    BY <1>18 DEF ResultIsLost, threads
  <2>2. KeptShells
    BY <2>1, CutShort
  <2> QED BY <2>1, <2>2, <1>n, <1>d, <1>f, <1>r, <1>0
<1>19. ASSUME NEW s \in Sessions, NEW a \in Shells, Deny(s, a) PROVE ShellInv'
  <2>1. /\ s \in born /\ file[s].open = a /\ Append1(s, "tool_denial", a)
        /\ UNCHANGED <<requests, deletion, rename>>
        /\ shells' = [Restored(a) EXCEPT ![a].memory = "denied", ![a].outcome = "denial"]
    BY <1>19, <1>u DEF Deny, Pending, Unresolved, threads
  <2>2. file'[s].open = 0 /\ \A o \in Sessions : o # s => file'[o] = file[o]
    BY <2>1, <1>w
  <2>3. /\ Shells' = Shells
        /\ \A b \in Shells : /\ shells'[b].session = shells[b].session
                             /\ shells'[b].outcome = IF b = a THEN "denial" ELSE shells[b].outcome
                             /\ shells'[b].ran = shells[b].ran /\ shells'[b].cut = shells[b].cut
    BY <2>1, DeniedIs
  <2>4. OpenIsKnown' /\ ShellRunsAsDecided'
    <3> DEFINE outcome == "denial"
    <3>1. outcome \in {"result", "denial"} /\ outcome # "result"
      OBVIOUS
    <3>2. \A b \in Shells : /\ shells'[b].session = shells[b].session
                            /\ shells'[b].outcome = IF b = a THEN outcome ELSE shells[b].outcome
                            /\ shells'[b].ran = shells[b].ran /\ shells'[b].cut = shells[b].cut
      BY <2>3
    <3> HIDE DEF outcome
    <3>3. \A b \in Shells : shells'[b].ran = IF b = a /\ outcome = "result"
                                             THEN shells[b].ran + 1 ELSE shells[b].ran
      BY <3>1, <3>2
    <3>4. TypeOK' /\ TypeOK /\ Shells' = Shells /\ file[s].open = a
      BY <2>1, <2>3
    <3> QED BY <2>2, <3>1, <3>2, <3>3, <3>4, DecisionMade
  <2>5. AskedIsSettled'
    BY <2>1, <2>2, <1>i DEF ShellInv, AskedIsSettled, Ids
  <2>6. a \in Nat
    BY <1>p
  <2>7. Quiet
    BY <2>1, <2>6, <1>a
  <2> QED BY <2>4, <2>5, <2>7, <1>q DEF ShellInv
\* turns
<1>20. ASSUME NEW i \in Ids, BuildFails(i) PROVE ShellInv'
  BY <1>20, <1>e, <1>x, <1>n, <1>s, <1>f, <1>d, <1>0 DEF BuildFails
<1>21. ASSUME NEW i \in Ids, Reminds(i) PROVE ShellInv'
  BY <1>21, <1>e, <1>x, <1>n, <1>k, <1>f, <1>d, <1>0 DEF Reminds
<1>22. ASSUME NEW i \in Ids, StoresMessage(i) PROVE ShellInv'
  <2>1. /\ requests' = [requests EXCEPT ![i] = [requests[i] EXCEPT !.at = "asking"]]
        /\ requests[i].at = "building" /\ file[requests[i].session].open = 0
        /\ Append1(requests[i].session, "user", 0) /\ UNCHANGED <<shells, deletion, rename>>
    BY <1>22 DEF StoresMessage, Continues, AnsweredByApproval, threads
  <2>2. SameOpen /\ Quiet
    BY <2>1, <1>i, <1>g, <1>b, <1>a, <1>j
  <2> DEFINE r == [requests[i] EXCEPT !.at = "asking"]
  <2>3. r \in RequestRows /\ r.session = requests[i].session
    BY <1>i DEF RequestRows
  <2>4. requests' = [requests EXCEPT ![i] = r]
    BY <2>1
  <2> HIDE DEF r
  <2>5. Ids' = Ids /\ requests'[i].session = requests[i].session
        /\ \A j \in Ids : j # i => requests'[j] = requests[j]
    BY <2>3, <2>4, <1>t, OneRequest
  <2>6. AskedIsSettled'
    BY <2>1, <2>2, <2>5, <1>i DEF ShellInv, AskedIsSettled, SameOpen
  <2> QED BY <2>1, <2>2, <2>6, <1>s, <1>q, DecisionsKept DEF ShellInv
\* an event of a session that asks the model
<1>A. ASSUME NEW i \in Ids, NEW kind, Append1(requests[i].session, kind, 0),
             requests[i].at = "asking", UNCHANGED <<deletion, rename>>,
             kind \notin {"tool_request", "tool_result", "tool_denial"}
      PROVE  SameOpen /\ Quiet
  <2>1. requests[i].session \in Sessions /\ 0 \in Nat
    BY <1>i
  <2>2. requests[i].session \in born
    BY <1>A, <2>1, <1>g, <1>b
  <2>3. SameOpen
    BY <1>A, <2>1, <1>j
  <2>4. Quiet
    BY <1>A, <2>1, <2>2, <1>a
  <2> QED BY <2>3, <2>4
<1>23. ASSUME NEW i \in Ids, Links(i) PROVE ShellInv'
  <2>1. /\ Append1(requests[i].session, "agent_session_link", 0) /\ requests[i].at = "asking"
        /\ UNCHANGED <<deletion, rename, shells, requests>>
    BY <1>23, <1>h DEF Links, Continues
  <2>2. SameOpen /\ Quiet
    BY <2>1, <1>A
  <2> QED BY <2>1, <2>2, <1>s, <1>r, <1>0
<1>24. ASSUME NEW i \in Ids, Answers(i) PROVE ShellInv'
  <2>1. /\ Append1(requests[i].session, "assistant", 0) /\ requests[i].at = "asking"
        /\ End(i, "completed") /\ UNCHANGED shells
    BY <1>24 DEF Answers, Continues
  <2>2. UNCHANGED <<deletion, rename>> /\ FewerAsk
    BY <2>1, <1>e, <1>x
  <2> HIDE DEF Quiet
  <2>4. "assistant" \notin {"tool_request", "tool_result", "tool_denial"}
    OBVIOUS
  <2>5. Append1(requests[i].session, "assistant", 0) /\ requests[i].at = "asking"
        /\ UNCHANGED <<deletion, rename>>
    BY <2>1, <2>2
  <2>3. SameOpen /\ Quiet
    BY <2>4, <2>5, <1>A
  <2> QED BY <2>1, <2>2, <2>3, <1>s, <1>0
<1>25. ASSUME NEW i \in Ids, ReadsFiles(i) PROVE ShellInv'
  <2>1. /\ requests' = [requests EXCEPT ![i] = [requests[i] EXCEPT !.left = requests[i].left - 1]]
        /\ requests[i].left > 1 /\ requests[i].at = "asking"
        /\ Append1(requests[i].session, "fs.read", 0) /\ UNCHANGED <<shells, deletion, rename>>
    BY <1>25 DEF ReadsFiles, Continues, threads
  <2>2. requests[i].left - 1 \in Nat
    BY <2>1, <1>i DEF RequestRows
  <2> DEFINE r == [requests[i] EXCEPT !.left = requests[i].left - 1]
  <2>3. r \in RequestRows /\ r.session = requests[i].session /\ r.at = requests[i].at
    BY <2>2, <1>i DEF RequestRows
  <2>4. requests' = [requests EXCEPT ![i] = r]
    BY <2>1
  <2> HIDE DEF r
  <2>5. Ids' = Ids /\ requests'[i] = r /\ \A j \in Ids : j # i => requests'[j] = requests[j]
    BY <2>3, <2>4, <1>t, OneRequest
  <2>6. FewerAsk
    BY <2>1, <2>3, <2>5 DEF FewerAsk
  <2>7. SameOpen /\ Quiet
    BY <2>1, <1>A
  <2> QED BY <2>1, <2>6, <2>7, <1>s, <1>0
<1>26. ASSUME NEW i \in Ids, AsksForShell(i) PROVE ShellInv'
  <2> DEFINE n == Len(shells) + 1
             s == requests[i].session
  <2>1. /\ shells' = Append(shells, NewShell(s)) /\ Append1(s, "tool_request", n)
        /\ requests[i].at = "asking" /\ End(i, "completed") /\ s \in Sessions
    BY <1>26, <1>i DEF AsksForShell, Continues
  <2>2. s \in born
    BY <2>1, <1>g, <1>b
  <2>3. file[s].open = 0
    BY <2>1 DEF ShellInv, AskedIsSettled
  <2>4. /\ NewShell(s) \in ShellRows /\ NewShell(s).session = s /\ NewShell(s).outcome = "none"
        /\ NewShell(s).ran = 0 /\ NewShell(s).cut = 0
    BY <2>1 DEF NewShell, ShellRows
  <2>5. /\ Shells' = Shells \cup {n} /\ n \notin Shells /\ n \in Nat \ {0}
        /\ shells'[n] = NewShell(s) /\ \A a \in Shells : shells'[a] = shells[a]
    BY <2>1, <2>4, <1>t, Longer DEF RunTypes, Shells
  <2> HIDE DEF n
  <2>6. /\ file'[s].open = n /\ \A o \in Sessions : o # s => file'[o] = file[o]
    BY <2>1, <2>5, <1>t, <1>v, Appended, AfterIs
  <2>7. /\ UNCHANGED <<deletion, rename>> /\ Ids' = Ids /\ FewerAsk
        /\ requests'[i].at # "asking" /\ \A j \in Ids : j # i => requests'[j] = requests[j]
    BY <2>1, <1>e, <1>x
  <2>8. Quiet
    BY <2>1, <2>2, <2>5, <2>7, <1>a
  <2>9. \A j \in Ids : j # i /\ requests[j].at # "over" => requests[j].session # s
    BY <2>1, <1>i DEF TurnInv, RunInv, Exact
  <2>10. AskedIsSettled'
    BY <2>6, <2>7, <2>9, <1>i DEF ShellInv, AskedIsSettled
  <2> HIDE DEF s
  <2>11. OpenIsKnown'
    BY <2>4, <2>5, <2>6 DEF ShellInv, OpenIsKnown
  <2>12. ASSUME NEW a \in Shells'
         PROVE  /\ shells'[a].ran = shells'[a].cut + (IF shells'[a].outcome = "result" THEN 1 ELSE 0)
                /\ shells'[a].outcome = "none" => file'[shells'[a].session].open = a
    <3>1. CASE a = n
      BY <2>4, <2>5, <2>6, <3>1
    <3>2. CASE a \in Shells
      <4>1. /\ shells[a].ran = shells[a].cut + (IF shells[a].outcome = "result" THEN 1 ELSE 0)
            /\ shells[a].outcome = "none" => file[shells[a].session].open = a
            /\ shells[a].session \in Sessions /\ a # 0
        BY <3>2, <1>p DEF ShellInv, ShellRunsAsDecided, Unresolved
      <4>2. shells[a].outcome = "none" => shells[a].session # s
        BY <2>3, <4>1 DEF s
      <4> QED BY <2>5, <2>6, <3>2, <4>1, <4>2
    <3> QED BY <2>5, <2>12, <3>1, <3>2
  <2> QED BY <2>8, <2>10, <2>11, <2>12, <1>q DEF ShellInv, ShellRunsAsDecided, Unresolved
<1>27. ASSUME NEW i \in Ids, Fails(i) PROVE ShellInv'
  BY <1>27, <1>e, <1>x, <1>A, <1>s, <1>0 DEF Fails, Continues, ErrorTerminations
<1>28. ASSUME NEW i \in Ids, IsCancelled(i) PROVE ShellInv'
  <2>1. UNCHANGED <<deletion, rename>> /\ FewerAsk /\ UNCHANGED shells
    BY <1>28, <1>e, <1>x DEF IsCancelled
  <2>2. SameOpen /\ Quiet
    <3>1. CASE requests[i].at = "building"
      BY <1>28, <2>1, <3>1, <1>n, <1>f, <1>d DEF IsCancelled
    <3>2. CASE requests[i].at = "asking"
      <4>1. Append1(requests[i].session, "runtime_error", 0)
        BY <1>28, <3>2 DEF IsCancelled
      <4> QED BY <2>1, <3>2, <4>1, <1>A
    <3> QED BY <1>28, <3>1, <3>2 DEF IsCancelled
  <2> QED BY <2>1, <2>2, <1>s, <1>0
<1>29. CASE Activates
  BY <1>29, <1>s, <1>r, <1>f, <1>d, <1>0 DEF Activates
\* stops, the end of the process, the next one
<1>30. CASE EmergencyStop
  BY <1>30, <1>s, <1>r, <1>f, <1>d, <1>0 DEF EmergencyStop, disk, threads
<1>31. CASE OpenIntake
  BY <1>31, <1>s, <1>r, <1>f, <1>d, <1>0 DEF OpenIntake, disk, threads
<1>32. CASE StopCancels
  BY <1>32, <1>c, <1>s, <1>f, <1>d, <1>0 DEF StopCancels, disk, threads
<1>33. CASE StopEnds
  BY <1>33, <1>l, <1>s, <1>f, <1>d, <1>0 DEF StopEnds, disk, threads
<1>34. CASE Shutdown
  BY <1>34, <1>c, <1>s, <1>f, <1>d, <1>0 DEF Shutdown, disk, threads
<1>B. ASSUME NEW left \in Seq(ShellRows), DOMAIN left = Shells, Down(left),
             \A a \in Shells : /\ left[a].session = shells[a].session
                               /\ left[a].outcome = shells[a].outcome
                               /\ left[a].ran - left[a].cut = shells[a].ran - shells[a].cut
      PROVE  ShellInv'
  <2>1. /\ Shells' = Shells /\ requests' = Left(Ids) /\ UNCHANGED <<born, file>>
        /\ \A a \in Shells : /\ shells'[a].session = left[a].session
                             /\ shells'[a].outcome = left[a].outcome
                             /\ shells'[a].ran = left[a].ran /\ shells'[a].cut = left[a].cut
        /\ deletion' = [s \in Sessions |-> NoDeletion] /\ rename' = [s \in Sessions |-> NoRename]
    BY <1>B, <1>t, DownIs DEF disk
  <2>2. KeptShells
    BY <1>B, <2>1 DEF KeptShells
  <2>3. UnbornIsNothing'
    BY <2>1 DEF ShellInv, UnbornIsNothing, NoDeletion, NoRename
  <2> QED BY <2>1, <2>2, <2>3, <1>l, <1>f, <1>o, DecisionsKept DEF ShellInv
<1>35. CASE ShutdownEnds
  BY <1>35, <1>t, <1>B DEF ShutdownEnds, RunTypes, Shells
<1>36. CASE Crash
  BY <1>36, <1>t, <1>B, CrashIs
<1>37. CASE Start
  BY <1>37, <1>s, <1>r, <1>f, <1>d, <1>0 DEF Start, threads
<1>38. CASE UNCHANGED vars
  BY <1>38, <1>s, <1>r, <1>f, <1>d, <1>0 DEF vars, disk, threads
<1> QED BY <1>1, <1>2, <1>3, <1>4, <1>5, <1>6, <1>7, <1>8, <1>9, <1>10, <1>11, <1>12, <1>13,
            <1>14, <1>15, <1>16, <1>17, <1>18, <1>19, <1>20, <1>21, <1>22, <1>23, <1>24, <1>25,
            <1>26, <1>27, <1>28, <1>29, <1>30, <1>31, <1>32, <1>33, <1>34, <1>35, <1>36, <1>37,
            <1>38 DEF Next, Ended

LEMMA ShellInit == Init => ShellInv
<1> SUFFICES ASSUME Init PROVE ShellInv
  OBVIOUS
<1>1. Ids = {} /\ Shells = {}
  BY DEF Init, Ids, Shells
<1>2. \A s \in Sessions : file[s] = Absent /\ rename[s] = NoRename /\ deletion[s] = NoDeletion
  BY DEF Init
<1> QED BY <1>1, <1>2, AbsentViews
        DEF ShellInv, OpenIsKnown, AskedIsSettled, UnbornIsNothing, ShellRunsAsDecided,
            NoRename, NoDeletion

LEMMA ShellsHold == Spec => []ShellInv
BY ChatTypes, TurnsHold, ShellInit, ShellStep, PTL DEF Spec

(* A command ran once for the result that was kept, plus the times its       *)
(* result was cut off; a denied one never ran but for those; and a request   *)
(* nobody decided is the one its transcript still offers: whatever messages, *)
(* crashes and deletions came between.                                       *)
THEOREM ShellsRunAsDecided == Spec => []ShellRunsAsDecided
<1>1. ShellInv => ShellRunsAsDecided
  BY DEF ShellInv
<1> QED BY ShellsHold, <1>1, PTL

-----------------------------------------------------------------------------
(* The session list.  Unless two writers raced, the row of a session is its  *)
(* transcript, one rename behind it while a thread is between the two; a     *)
(* deletion removes links, transcript and row in this order, and only a      *)
(* running process has threads.                                              *)

RowFollows(s) ==
  /\ deletion[s].at \in {"no", "upstream", "file"} =>
       \/ rename[s].at # "index" /\ row[s] = file[s]
       \/ /\ rename[s].at = "index" /\ rename[s].seen = row[s]
          /\ file[s] = After(row[s], "session_rename", 0)
  /\ deletion[s].at \in {"row", "active"} => file[s] = Absent /\ rename[s].at = "no"
  /\ deletion[s].at = "active" => row[s] = Absent

Listed1(s) ==
  /\ ~file[s].there => file[s] = Absent
  /\ ~Up => rename[s] = NoRename /\ deletion[s] = NoDeletion
  /\ deletion[s].at = "file" => s \notin upstream
  /\ s \in upstream => file[s].there
  /\ Up /\ s \notin muddled => RowFollows(s)

ListInv == \A s \in Sessions : Listed1(s)

LEMMA ListStep == TypeOK /\ TurnInv /\ ShellInv /\ ListInv /\ [Next]_vars => ListInv'
<1> SUFFICES ASSUME TypeOK, TurnInv, ShellInv, ListInv, [Next]_vars PROVE ListInv'
  OBVIOUS
<1>i. \A i \in Ids : i # 0 /\ requests[i].session \in Sessions
  BY RequestParts DEF TypeOK
<1>g. \A i \in Ids : requests[i].at # "over" =>
        file[requests[i].session].there /\ deletion[requests[i].session].at = "no"
  BY <1>i DEF TurnInv, RunInv, Exact
<1>t. RunTypes /\ DiskTypes /\ ThreadTypes
  BY DEF TypeOK
<1>v. \A s \in Sessions : file[s] \in Views /\ row[s] \in Views /\ file[s].open \in Nat
  BY DEF TypeOK, DiskTypes, Views
<1>n. 0 \in Nat /\ \A a \in Shells : a \in Nat
  BY ShellParts DEF TypeOK
<1>z. NoDeletion.at = "no" /\ NoRename.at = "no"
  BY DEF NoDeletion, NoRename
<1> DEFINE Same(s) == /\ file'[s] = file[s] /\ row'[s] = row[s] /\ rename'[s] = rename[s]
                      /\ deletion'[s] = deletion[s] /\ (s \in upstream' <=> s \in upstream)
                      /\ (s \in muddled' <=> s \in muddled)
\* a step of one session
<1>o. ASSUME NEW s \in Sessions, Same(s), UNCHANGED server PROVE Listed1(s)'
  <2>1. Listed1(s)
    BY DEF ListInv
  <2>2. RowFollows(s) => RowFollows(s)'
    BY <1>o DEF RowFollows
  <2> QED BY <1>o, <2>1, <2>2 DEF Listed1, Up
<1>0. ASSUME NEW s \in Sessions, Listed1(s)', UNCHANGED server, \A o \in Sessions : o # s => Same(o)
      PROVE  ListInv'
  BY <1>0, <1>o DEF ListInv
<1>s. ASSUME UNCHANGED <<file, row, rename, deletion, upstream, muddled, server>> PROVE ListInv'
  BY <1>s, <1>o DEF ListInv
<1>d. ASSUME UNCHANGED <<disk, threads, muddled, server>> PROVE ListInv'
  BY <1>d, <1>s DEF disk, threads
<1>r. \A s \in Sessions : /\ ~file[s].there => file[s] = Absent
                          /\ ~Up => rename[s] = NoRename /\ deletion[s] = NoDeletion
                          /\ deletion[s].at = "file" => s \notin upstream
                          /\ s \in upstream => file[s].there
                          /\ Up /\ s \notin muddled => RowFollows(s)
  BY DEF ListInv, Listed1
\* an event of a session whose transcript is there
<1>a. ASSUME NEW s \in Sessions, NEW kind, NEW a \in Nat, Append1(s, kind, a), file[s].there, Up
      PROVE  /\ file'[s].there
             /\ s \notin muddled' => /\ rename[s].at = "no" /\ row'[s] = file'[s]
                                     /\ deletion[s].at \in {"no", "upstream", "file"}
             /\ \A o \in Sessions : o # s => /\ file'[o] = file[o] /\ row'[o] = row[o]
                                             /\ (o \in muddled' <=> o \in muddled)
  <2>1. /\ file'[s] = After(file[s], kind, a) /\ row'[s] = IF row[s].there THEN After(row[s], kind, a) ELSE file'[s]
        /\ \A o \in Sessions : o # s => file'[o] = file[o] /\ row'[o] = row[o]
        /\ muddled' = IF rename[s].at = "no" THEN muddled ELSE muddled \cup {s}
    BY <1>a, <1>t, Appended
  <2>2. file'[s].there
    BY <2>1, <1>v, AfterIs
  <2>3. ASSUME s \notin muddled'
        PROVE  /\ rename[s].at = "no" /\ row'[s] = file'[s]
               /\ deletion[s].at \in {"no", "upstream", "file"}
    <3>1. rename[s].at = "no" /\ s \notin muddled
      BY <2>1, <2>3
    <3>2. RowFollows(s)
      BY <3>1, <1>a, <1>r
    <3>3. deletion[s].at \notin {"row", "active"}
      BY <3>2, <1>a, AbsentViews DEF RowFollows
    <3>4. deletion[s].at \in {"no", "upstream", "file"}
      BY <3>3, <1>t DEF ThreadTypes
    <3>5. row[s] = file[s]
      BY <3>1, <3>2, <3>4 DEF RowFollows
    <3> QED BY <2>1, <3>1, <3>4, <3>5, <1>a
  <2> QED BY <2>1, <2>2, <2>3
<1>A. ASSUME NEW s \in Sessions, NEW kind, NEW a \in Nat, Append1(s, kind, a), file[s].there, Up,
             UNCHANGED <<rename, deletion, upstream, server>>
      PROVE  ListInv'
  <2>1. /\ file'[s].there
        /\ s \notin muddled' => rename[s].at = "no" /\ row'[s] = file'[s]
                                /\ deletion[s].at \in {"no", "upstream", "file"}
        /\ \A o \in Sessions : o # s => Same(o)
    BY <1>A, <1>a
  <2>2. s \notin muddled' => RowFollows(s)'
    BY <1>A, <2>1 DEF RowFollows
  <2>3. Listed1(s)'
    BY <1>A, <2>1, <2>2, <1>r DEF Listed1, Up
  <2> QED BY <1>A, <2>1, <2>3, <1>0
<1>h. UNCHANGED threads => UNCHANGED <<rename, deletion>>
  BY DEF threads
<1>p. UNCHANGED process => UNCHANGED server
  BY DEF process
<1>e. ASSUME NEW i \in Ids, NEW t \in {"completed", "failed", "timed_out", "cancelled"}, End(i, t)
      PROVE  UNCHANGED <<rename, deletion, server>>
  <2>1. t \in Terminations
    BY DEF Terminations
  <2> QED BY <1>e, <2>1, <1>t, EndIs DEF threads, process
<1>b. ASSUME NEW i \in Ids, NEW kind, NEW a \in Nat, Append1(requests[i].session, kind, a),
             requests[i].at # "over", Up, UNCHANGED <<rename, deletion, upstream, server>>
      PROVE  ListInv'
  BY <1>b, <1>i, <1>g, <1>A
<1>N. ASSUME NothingAppended, UNCHANGED <<rename, deletion, server>> PROVE ListInv'
  BY <1>N, <1>s DEF NothingAppended, disk
<1>1. ASSUME NEW s \in Sessions, StartNew(s) PROVE ListInv'
  <2>1. /\ s \notin born /\ file' = [file EXCEPT ![s] = Fresh] /\ row' = [row EXCEPT ![s] = Fresh]
        /\ UNCHANGED <<rename, deletion, upstream, muddled, server>> /\ Up
    BY <1>1 DEF StartNew, threads, process, Serving
  <2>2. rename[s].at = "no" /\ deletion[s].at = "no"
    BY <2>1 DEF ShellInv, UnbornIsNothing
  <2>3. file'[s] = Fresh /\ row'[s] = Fresh
    BY <2>1, <1>t DEF DiskTypes
  <2>4. RowFollows(s)'
    BY <2>1, <2>2, <2>3 DEF RowFollows
  <2>5. Listed1(s)'
    BY <2>1, <2>2, <2>3, <2>4, AbsentViews DEF Listed1, Up
  <2>6. \A o \in Sessions : o # s => Same(o)
    BY <2>1, <1>t DEF DiskTypes
  <2> QED BY <2>1, <2>5, <2>6, <1>0
<1>2. ASSUME NEW s \in Sessions, Chat(s) PROVE ListInv'
  BY <1>2, <1>d, <1>p DEF Chat
<1>3. ASSUME NEW s \in Sessions, Interrupt(s) PROVE ListInv'
  BY <1>3, <1>d, <1>p DEF Interrupt
<1>4. ASSUME NEW s \in Sessions, RenameBegins(s) PROVE ListInv'
  <2>1. /\ rename' = [rename EXCEPT ![s].at = "write"] /\ file[s].there /\ rename[s].at = "no" /\ Up
        /\ UNCHANGED <<file, row, deletion, upstream, muddled, server>>
    BY <1>4 DEF RenameBegins, Races, Serving, disk, process
  <2>2. rename'[s].at = "write" /\ \A o \in Sessions : o # s => rename'[o] = rename[o]
    BY <2>1, <1>t DEF ThreadTypes
  <2>3. RowFollows(s) => RowFollows(s)'
    BY <2>1, <2>2, AbsentViews DEF RowFollows
  <2>4. Listed1(s)'
    BY <2>1, <2>2, <2>3, <1>r DEF Listed1, Up
  <2> QED BY <2>1, <2>2, <2>4, <1>0
<1>5. ASSUME NEW s \in Sessions, RenameWrites(s) PROVE ListInv'
  <2>1. /\ file' = [file EXCEPT ![s] = After(file[s], "session_rename", 0)] /\ Up
        /\ rename' = [rename EXCEPT ![s] = [at |-> "index", seen |-> row[s]]]
        /\ rename[s].at = "write" /\ UNCHANGED <<row, deletion, upstream, muddled, server>>
    BY <1>5 DEF RenameWrites, process
  <2>2. /\ file'[s] = After(file[s], "session_rename", 0)
        /\ rename'[s].at = "index" /\ rename'[s].seen = row[s]
        /\ \A o \in Sessions : o # s => file'[o] = file[o] /\ rename'[o] = rename[o]
    BY <2>1, <1>t DEF DiskTypes, ThreadTypes
  <2>3. file'[s].there
    BY <2>2, <1>v, <1>n, AfterIs
  <2>4. RowFollows(s) => RowFollows(s)'
    BY <2>1, <2>2 DEF RowFollows
  <2>5. Listed1(s)'
    BY <2>1, <2>3, <2>4, <1>r DEF Listed1, Up
  <2> QED BY <2>1, <2>2, <2>5, <1>0
<1>6. ASSUME NEW s \in Sessions, RenameIndexes(s) PROVE ListInv'
  <2>1. /\ row' = [row EXCEPT ![s] = IF ~rename[s].seen.there THEN Refreshed(file[s])
                   ELSE IF row[s].there THEN After(rename[s].seen, "session_rename", 0) ELSE row[s]]
        /\ rename' = [rename EXCEPT ![s] = NoRename] /\ rename[s].at = "index" /\ Up
        /\ UNCHANGED <<file, deletion, upstream, muddled, server>>
    BY <1>6 DEF RenameIndexes, process
  <2>2. /\ row'[s] = IF ~rename[s].seen.there THEN Refreshed(file[s])
                     ELSE IF row[s].there THEN After(rename[s].seen, "session_rename", 0) ELSE row[s]
        /\ rename'[s].at = "no"
        /\ \A o \in Sessions : o # s => row'[o] = row[o] /\ rename'[o] = rename[o]
    BY <2>1, <1>t, <1>z DEF DiskTypes, ThreadTypes
  <2>3. ASSUME RowFollows(s) PROVE RowFollows(s)'
    <3>1. CASE deletion[s].at \in {"no", "upstream", "file"}
      <4>1. rename[s].seen = row[s] /\ file[s] = After(row[s], "session_rename", 0)
        BY <2>1, <2>3, <3>1 DEF RowFollows
      <4>2. file[s].there
        BY <4>1, <1>v, <1>n, AfterIs
      <4>3. Refreshed(file[s]) = file[s]
        BY <4>2, <1>v, RefreshedIs
      <4>4. row'[s] = file[s]
        BY <2>2, <4>1, <4>3
      <4> QED BY <2>1, <2>2, <3>1, <4>4 DEF RowFollows
    <3>2. CASE deletion[s].at \in {"row", "active"}
      BY <2>1, <2>3, <3>2 DEF RowFollows
    <3> QED BY <3>1, <3>2, <1>t DEF ThreadTypes
  <2>4. Listed1(s)'
    BY <2>1, <2>3, <1>r DEF Listed1, Up
  <2> QED BY <2>1, <2>2, <2>4, <1>0
<1>7. ASSUME NEW s \in Sessions, ActivateBegins(s) PROVE ListInv'
  BY <1>7, <1>s, <1>p DEF ActivateBegins, disk
\* deletion
<1>D. ASSUME NEW s \in Sessions, NEW state, Deleting(s, state)
      PROVE  /\ deletion'[s] = state /\ \A o \in Sessions : o # s => deletion'[o] = deletion[o]
             /\ UNCHANGED <<rename, server>>
  BY <1>D, <1>t DEF Deleting, process, ThreadTypes
<1>m. \A at : [NoDeletion EXCEPT !.at = at].at = at
  BY DEF NoDeletion
<1>E. ASSUME NEW s \in Sessions, NEW state, Deleting(s, state), Up,
             UNCHANGED <<file, row, upstream, muddled>>,
             deletion[s].at \in {"no", "upstream"},
             state.at \in {"no", "upstream", "file"}, state.at = "file" => s \notin upstream
      PROVE  ListInv'
  <2>1. /\ deletion'[s] = state /\ UNCHANGED <<rename, server>>
        /\ \A o \in Sessions : o # s => deletion'[o] = deletion[o]
    BY <1>E, <1>D
  <2>2. RowFollows(s) => RowFollows(s)'
    BY <1>E, <2>1 DEF RowFollows
  <2>3. Listed1(s)'
    BY <1>E, <2>1, <2>2, <1>r DEF Listed1, Up
  <2> QED BY <1>E, <2>1, <2>3, <1>0
<1>8. ASSUME NEW s \in Sessions, DeleteBegins(s) PROVE ListInv'
  BY <1>8, <1>E, <1>m DEF DeleteBegins, Free, Serving
<1>9. ASSUME NEW s \in Sessions, UpstreamDeleted(s) PROVE ListInv'
  <2>1. /\ Append1(s, "agent_session_unlink", 0) /\ s \in upstream /\ upstream' = upstream \ {s}
        /\ Deleting(s, [NoDeletion EXCEPT !.at = "file"]) /\ Up
    BY <1>9 DEF UpstreamDeleted, DeletionAt
  <2>2. /\ deletion'[s].at = "file" /\ UNCHANGED <<rename, server>>
        /\ \A o \in Sessions : o # s => deletion'[o] = deletion[o]
    BY <2>1, <1>D, <1>m
  <2>3. /\ file'[s].there
        /\ s \notin muddled' => rename[s].at = "no" /\ row'[s] = file'[s]
        /\ \A o \in Sessions : o # s => Same(o)
    BY <2>1, <2>2, <1>a, <1>n, <1>r
  <2>4. s \notin muddled' => RowFollows(s)'
    BY <2>2, <2>3 DEF RowFollows
  <2>5. Listed1(s)'
    BY <2>1, <2>2, <2>3, <2>4 DEF Listed1, Up
  <2> QED BY <2>2, <2>3, <2>5, <1>0
<1>10. ASSUME NEW s \in Sessions, UpstreamFails(s) PROVE ListInv'
  BY <1>10, <1>E, <1>z DEF UpstreamFails, DeletionAt
<1>11. ASSUME NEW s \in Sessions, NothingUpstream(s) PROVE ListInv'
  BY <1>11, <1>E, <1>m DEF NothingUpstream, DeletionAt
<1>u. ASSUME NEW s \in Sessions, Muddles(s)
      PROVE  /\ s \notin muddled' => rename[s].at = "no" /\ s \notin muddled
             /\ \A o \in Sessions : o # s => (o \in muddled' <=> o \in muddled)
  BY <1>u DEF Muddles
<1>12. ASSUME NEW s \in Sessions, FileDeleted(s) PROVE ListInv'
  <2>1. /\ file' = [file EXCEPT ![s] = Absent] /\ Deleting(s, [at |-> "row", active |-> active = s])
        /\ Muddles(s) /\ UNCHANGED <<row, upstream>> /\ Up /\ s \notin upstream
    BY <1>12, <1>r DEF FileDeleted, DeletionAt
  <2>2. /\ deletion'[s].at = "row" /\ UNCHANGED <<rename, server>>
        /\ \A o \in Sessions : o # s => deletion'[o] = deletion[o]
    BY <2>1, <1>D
  <2>3. file'[s] = Absent /\ \A o \in Sessions : o # s => file'[o] = file[o]
    BY <2>1, <1>t DEF DiskTypes
  <2>4. s \notin muddled' => RowFollows(s)'
    BY <2>1, <2>2, <2>3, <1>u DEF RowFollows
  <2>5. Listed1(s)'
    BY <2>1, <2>2, <2>3, <2>4 DEF Listed1, Up
  <2>6. \A o \in Sessions : o # s => Same(o)
    BY <2>1, <2>2, <2>3, <1>u
  <2> QED BY <2>2, <2>5, <2>6, <1>0
<1>13. ASSUME NEW s \in Sessions, RowDeleted(s) PROVE ListInv'
  <2> DEFINE state == IF deletion[s].active THEN [deletion[s] EXCEPT !.at = "active"] ELSE NoDeletion
  <2>1. /\ row' = [row EXCEPT ![s] = Absent] /\ Deleting(s, state) /\ deletion[s].at = "row"
        /\ Muddles(s) /\ UNCHANGED <<file, upstream>> /\ Up
    BY <1>13 DEF RowDeleted, DeletionAt
  <2>0. state.at \in {"active", "no"}
    BY <1>t, <1>z DEF ThreadTypes
  <2> HIDE DEF state
  <2>2. /\ deletion'[s].at \in {"active", "no"} /\ UNCHANGED <<rename, server>>
        /\ \A o \in Sessions : o # s => deletion'[o] = deletion[o]
    BY <2>0, <2>1, <1>D
  <2>3. row'[s] = Absent /\ \A o \in Sessions : o # s => row'[o] = row[o]
    BY <2>1, <1>t DEF DiskTypes
  <2>4. s \notin muddled' => RowFollows(s)'
    <3>1. s \notin muddled' => RowFollows(s) /\ rename[s].at = "no"
      BY <2>1, <1>u, <1>r
    <3>2. s \notin muddled' => file'[s] = Absent /\ rename'[s].at = "no"
      BY <3>1, <2>1, <2>2 DEF RowFollows
    <3> QED BY <2>2, <2>3, <3>2 DEF RowFollows
  <2>5. Listed1(s)'
    BY <2>1, <2>2, <2>3, <2>4, <1>r DEF Listed1, Up
  <2>6. \A o \in Sessions : o # s => Same(o)
    BY <2>1, <2>2, <2>3, <1>u
  <2> QED BY <2>2, <2>5, <2>6, <1>0
<1>14. ASSUME NEW s \in Sessions, ActiveDeleted(s) PROVE ListInv'
  <2>1. /\ Deleting(s, NoDeletion) /\ deletion[s].at = "active"
        /\ UNCHANGED <<file, row, upstream, muddled>> /\ Up
    BY <1>14 DEF ActiveDeleted, DeletionAt
  <2>2. /\ deletion'[s].at = "no" /\ UNCHANGED <<rename, server>>
        /\ \A o \in Sessions : o # s => deletion'[o] = deletion[o]
    BY <2>1, <1>D, <1>z
  <2>3. RowFollows(s) => RowFollows(s)'
    BY <2>1, <2>2 DEF RowFollows
  <2>4. Listed1(s)'
    BY <2>1, <2>2, <2>3, <1>r DEF Listed1, Up
  <2> QED BY <2>1, <2>2, <2>4, <1>0
\* decisions
<1>w. ASSUME NEW s \in Sessions, NEW a, Decidable(s, a) \/ Approvable(s, a) PROVE file[s].there /\ Up
  BY <1>w DEF Decidable, Approvable, StartIfExists, Serving
<1>15. ASSUME NEW s \in Sessions, NEW a \in Shells, Refused(s, a) PROVE ListInv'
  BY <1>15, <1>w, <1>n, <1>h, <1>p, <1>A DEF Refused
<1>16. ASSUME NEW s \in Sessions, NEW a \in Shells, Approve(s, a) PROVE ListInv'
  BY <1>16, <1>w, <1>n, <1>h, <1>p, <1>A DEF Approve
<1>17. ASSUME NEW s \in Sessions, NEW a \in Shells, CommandFails(s, a) PROVE ListInv'
  BY <1>17, <1>w, <1>n, <1>h, <1>p, <1>A DEF CommandFails
<1>18. ASSUME NEW s \in Sessions, NEW a \in Shells, ResultIsLost(s, a) PROVE ListInv'
  BY <1>18, <1>h, <1>p, <1>N DEF ResultIsLost
<1>19. ASSUME NEW s \in Sessions, NEW a \in Shells, Deny(s, a) PROVE ListInv'
  BY <1>19, <1>w, <1>n, <1>h, <1>p, <1>A DEF Deny
\* turns
<1>20. ASSUME NEW i \in Ids, BuildFails(i) PROVE ListInv'
  BY <1>20, <1>e, <1>N DEF BuildFails
<1>21. ASSUME NEW i \in Ids, Reminds(i) PROVE ListInv'
  BY <1>21, <1>e, <1>N DEF Reminds
<1>22. ASSUME NEW i \in Ids, StoresMessage(i) PROVE ListInv'
  BY <1>22, <1>n, <1>h, <1>p, <1>b DEF StoresMessage, Continues
<1>23. ASSUME NEW i \in Ids, Links(i) PROVE ListInv'
  <2>0. PICK s \in Sessions : s = requests[i].session
    BY <1>i
  <2>1. /\ Append1(s, "agent_session_link", 0) /\ upstream' = upstream \cup {s} /\ Up
        /\ UNCHANGED <<rename, deletion, server>>
        /\ file[s].there /\ deletion[s].at = "no"
    BY <1>23, <2>0, <1>h, <1>p, <1>g DEF Links, Continues
  <2>2. /\ file'[s].there
        /\ s \notin muddled' => rename[s].at = "no" /\ row'[s] = file'[s]
        /\ \A o \in Sessions : o # s => Same(o)
    BY <2>1, <1>a, <1>n
  <2>3. s \notin muddled' => RowFollows(s)'
    BY <2>1, <2>2 DEF RowFollows
  <2>4. Listed1(s)'
    BY <2>1, <2>2, <2>3 DEF Listed1, Up
  <2> QED BY <2>1, <2>2, <2>4, <1>0
<1>24. ASSUME NEW i \in Ids, Answers(i) PROVE ListInv'
  BY <1>24, <1>n, <1>e, <1>b DEF Answers, Continues
<1>25. ASSUME NEW i \in Ids, ReadsFiles(i) PROVE ListInv'
  BY <1>25, <1>n, <1>h, <1>p, <1>b DEF ReadsFiles, Continues
<1>26. ASSUME NEW i \in Ids, AsksForShell(i) PROVE ListInv'
  <2>1. Len(shells) + 1 \in Nat
    BY <1>t, SeqIsFunction DEF RunTypes
  <2> QED BY <1>26, <2>1, <1>e, <1>b DEF AsksForShell, Continues
<1>27. ASSUME NEW i \in Ids, Fails(i) PROVE ListInv'
  BY <1>27, <1>n, <1>e, <1>b DEF Fails, Continues, ErrorTerminations
<1>28. ASSUME NEW i \in Ids, IsCancelled(i) PROVE ListInv'
  <2>1. UNCHANGED <<rename, deletion, server>> /\ Up
    BY <1>28, <1>e DEF IsCancelled
  <2>2. CASE requests[i].at = "building"
    BY <1>28, <2>1, <2>2, <1>N DEF IsCancelled
  <2>3. CASE requests[i].at = "asking"
    <3>1. Append1(requests[i].session, "runtime_error", 0) /\ UNCHANGED upstream
      BY <1>28, <2>3 DEF IsCancelled
    <3> QED BY <2>1, <2>3, <3>1, <1>n, <1>b
  <2> QED BY <1>28, <2>2, <2>3 DEF IsCancelled
<1>29. CASE Activates
  BY <1>29, <1>s, <1>p DEF Activates
<1>30. CASE EmergencyStop
  BY <1>30, <1>d, <1>p DEF EmergencyStop
<1>31. CASE OpenIntake
  BY <1>31, <1>d, <1>p DEF OpenIntake
<1>32. CASE StopCancels
  BY <1>32, <1>d, <1>p DEF StopCancels
<1>33. CASE StopEnds
  BY <1>33, <1>d, <1>p DEF StopEnds
<1>34. CASE Shutdown
  BY <1>34, <1>d, <1>p DEF Shutdown
<1>35. ASSUME NEW left, Down(left) PROVE ListInv'
  <2>1. /\ UNCHANGED <<file, row, upstream>> /\ server' = "down"
        /\ \A s \in Sessions : deletion'[s] = NoDeletion /\ rename'[s] = NoRename
    BY <1>35 DEF Down, disk
  <2> QED BY <2>1, <1>r, <1>z DEF ListInv, Listed1, Up
<1>36. Crash \/ ShutdownEnds => ListInv'
  BY <1>35 DEF Crash, ShutdownEnds
<1>37. CASE Start
  <2>1. /\ ~Up /\ Up' /\ UNCHANGED <<file, upstream, rename, deletion>>
        /\ muddled' = {s \in Known : ~file[s].there}
        /\ row' = [s \in Sessions |-> IF s \in Known THEN Refreshed(file[s]) ELSE Absent]
    BY <1>37 DEF Start, Up, threads
  <2>2. ASSUME NEW s \in Sessions PROVE Listed1(s)'
    <3>1. rename'[s].at = "no" /\ deletion'[s].at = "no"
      BY <2>1, <1>r, <1>z
    <3>2. ASSUME s \notin muddled' PROVE row'[s] = file'[s]
      <4>1. CASE file[s].there
        <5>1. s \in Known /\ Refreshed(file[s]) = file[s]
          BY <4>1, <1>v, RefreshedIs DEF Known
        <5> QED BY <2>1, <5>1
      <4>2. CASE ~file[s].there
        <5>1. s \notin Known /\ file[s] = Absent
          BY <2>1, <3>2, <4>2, <1>r
        <5> QED BY <2>1, <5>1
      <4> QED BY <4>1, <4>2
    <3>3. s \notin muddled' => RowFollows(s)'
      BY <3>1, <3>2 DEF RowFollows
    <3> QED BY <2>1, <3>1, <3>3, <1>r DEF Listed1
  <2> QED BY <2>2 DEF ListInv
<1>38. CASE UNCHANGED vars
  BY <1>38, <1>d, <1>p DEF vars
<1> QED BY <1>1, <1>2, <1>3, <1>4, <1>5, <1>6, <1>7, <1>8, <1>9, <1>10, <1>11, <1>12, <1>13,
            <1>14, <1>15, <1>16, <1>17, <1>18, <1>19, <1>20, <1>21, <1>22, <1>23, <1>24, <1>25,
            <1>26, <1>27, <1>28, <1>29, <1>30, <1>31, <1>32, <1>33, <1>34, <1>36, <1>37,
            <1>38 DEF Next, Ended

LEMMA ListInit == Init => ListInv
<1> SUFFICES ASSUME Init, NEW s \in Sessions PROVE Listed1(s)
  BY DEF ListInv
<1>1. /\ file[s] = Absent /\ rename[s] = NoRename /\ deletion[s] = NoDeletion /\ ~Up
      /\ upstream = {}
  BY DEF Init, Up
<1> QED BY <1>1 DEF Listed1, NoDeletion

(* The list shows of a session what its own page shows, except while a       *)
(* thread writes it, after a rename raced with another writer, and for an    *)
(* active session whose deletion a crash cut short; the gateway keeps no     *)
(* session of a deleted one.                                                 *)
THEOREM ListingStaysTrue == Spec => []ListingIsTrue
<1>1. TypeOK /\ ListInv => ListingIsTrue
  <2> SUFFICES ASSUME TypeOK, ListInv PROVE ListingIsTrue
    OBVIOUS
  <2>1. ASSUME Up, NEW s \in Sessions \ muddled, rename[s].at = "no", deletion[s].at = "no"
        PROVE  row[s] = file[s]
    BY <2>1 DEF ListInv, Listed1, RowFollows
  <2>2. ASSUME NEW s \in Sessions, row[s] = file[s] PROVE Shown(row[s], s) = Shown(file[s], s)
    BY <2>2
  <2>3. \A s \in upstream : file[s].there
    BY DEF ListInv, Listed1, TypeOK, DiskTypes
  <2> QED BY <2>1, <2>2, <2>3 DEF ListingIsTrue
<1> QED BY ChatTypes, TurnsHold, ShellsHold, ListInit, ListStep, <1>1, PTL DEF Spec
=============================================================================
