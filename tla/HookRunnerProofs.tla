-------------------------- MODULE HookRunnerProofs --------------------------
(* What holds of HookRunner for every number of hooks, events and restarts. *)
EXTENDS HookRunner, FiniteSetTheorems, SequenceTheorems, TLAPS

(* Types: every variable, and what a poll, the worker and a section hold. *)

AgentRuns == AgentHooks \X (1..MaxEvents)

Statuses == {"absent", "queued", "running", "succeeded", "failed", "interrupted", "canceled",
             "waiting_for_user", "deleted"}
TeamStates == Occupying \cup Finished \cup {"none", "queued", "withdrawn"}

PollRows ==
  [at : {"none", "next"}, todo : SUBSET Hooks, hook : Hooks \cup {"none"},
   next : Nat, upto : 0..MaxEvents, made : Seq(Runs)] \cup
  [at : {"record"}, todo : SUBSET Hooks, hook : Hooks,
   next : Nat \ {0}, upto : 0..MaxEvents, made : Seq(Runs)]

TypesOfRows ==
  /\ hook \in [Hooks -> {"kept", "deleted"}]
  /\ coming \in [Hooks -> 0..MaxEvents] /\ sent \in [Hooks -> 0..MaxEvents]
  /\ cursor \in [Hooks -> 0..MaxEvents]
  /\ status \in [Runs -> Statuses] /\ links \in [Runs -> SUBSET {"request", "cycle"}]
  /\ turns \in [Runs -> Nat]
  /\ team \in [Runs -> TeamStates] /\ target \in {"open", "canceled"}

TypesInMemory ==
  /\ polls \in [Pollers -> PollRows]
  /\ queue \in Seq(Runs)
  /\ worker \in [at : {"off", "idle"}, run : {NoRun}] \cup [at : {"turn"}, run : AgentRuns]
  /\ loop \in {Free} \cup
       [at : {"link", "prepare", "reject", "fail", "observe"}, run : TeamRuns]
  /\ gate \in {"open", "closed"}
  /\ stop \in [at : {"none", "closed", "canceled", "awaiting", "answered"}, targets : SUBSET Runs]
  /\ stray \subseteq Runs /\ late \subseteq Runs
  /\ server \in {"down", "cycles", "runs", "linked", "up"} /\ lives \in Nat

\* The cycle a section works for stays as the section left it; no section outlives its process.
SectionFits ==
  /\ loop # Free => Up
  /\ loop.at \in {"prepare", "reject", "fail"} => team[loop.run] = "running"
  /\ loop.at = "observe" =>
       team[loop.run] \in {"completed", "failed", "waiting_for_user", "interrupted"}

TypeOK == TypesOfRows /\ TypesInMemory /\ SectionFits


-----------------------------------------------------------------------------
LEMMA RunIsPair == \A r \in Runs : r = <<r[1], r[2]>>
BY DEF Runs

LEMMA RunParts ==
  /\ \A r \in Runs : r[1] \in Hooks /\ r[2] \in 1..MaxEvents
  /\ \A h \in Hooks, n \in 1..MaxEvents : <<h, n>> \in Runs
  /\ \A r \in Runs : /\ r[1] \in AgentHooks <=> r \in AgentRuns
                     /\ r[1] \in TeamHooks <=> r \in TeamRuns
  /\ AgentRuns \cup TeamRuns = Runs /\ AgentRuns \cap TeamRuns = {}
  /\ NoRun \notin Runs
<1>1. \A h \in {"none"}, n \in {0} : n \notin 1..MaxEvents
  BY BoundsAreNat
<1>2. NoRun[2] = 0
  BY DEF NoRun
<1>3. \A r \in Runs : r[1] \in Hooks /\ r[2] \in 1..MaxEvents
  BY DEF Runs
<1>4. NoRun \notin Runs
  BY <1>1, <1>2, <1>3
<1>5. \A h \in Hooks, n \in 1..MaxEvents : <<h, n>> \in Runs
  BY DEF Runs
<1>6. \A r \in Runs : /\ r[1] \in AgentHooks <=> r \in AgentRuns
                      /\ r[1] \in TeamHooks <=> r \in TeamRuns
  BY <1>3, RunIsPair DEF AgentRuns, TeamRuns
<1>7. \A r \in AgentRuns \cup TeamRuns : r \in Runs
  BY DEF AgentRuns, TeamRuns, Runs, Hooks
<1>8. \A r \in Runs : ~(r \in AgentRuns /\ r \in TeamRuns) /\ r \in AgentRuns \cup TeamRuns
  BY <1>3, <1>6, HooksAreFinite DEF Hooks
<1>9. AgentRuns \cup TeamRuns = Runs
  BY <1>7, <1>8
<1>10. AgentRuns \cap TeamRuns = {}
  BY <1>7, <1>8
<1> QED BY <1>3, <1>4, <1>5, <1>6, <1>9, <1>10

LEMMA RunsAreFinite == IsFiniteSet(Runs)
<1>1. IsFiniteSet(1..MaxEvents)
  BY BoundsAreNat, FS_Interval
<1> QED BY <1>1, HooksAreFinite, FS_Product DEF Runs

(* An update of hook_runs changes the rows it names, unless they are gone. *)
LEMMA WrittenStatus ==
  ASSUME TypesOfRows, NEW set, NEW to \in Statuses \ {"absent"}, SetStatus(set, to)
  PROVE  /\ status' \in [Runs -> Statuses]
         /\ \A r \in Runs : status'[r] = IF r \in set /\ status[r] # "deleted" THEN to ELSE status[r]
BY DEF TypesOfRows, SetStatus

LEMMA LinkedRows ==
  ASSUME TypesOfRows, NEW r \in Runs, NEW what \in {"request", "cycle"}, Link(r, what)
  PROVE  /\ links' \in [Runs -> SUBSET {"request", "cycle"}]
         /\ \A s \in Runs : links[s] \subseteq links'[s] /\ (s # r => links'[s] = links[s])
         /\ status[r] # "deleted" => what \in links'[r]
BY DEF TypesOfRows, Link

LEMMA OutcomesAreStatuses ==
  /\ DOMAIN OutcomeOf = Observed
  /\ \A s \in Observed : OutcomeOf[s] = IF s = "completed" THEN "succeeded" ELSE s
BY DEF OutcomeOf, Observed

(* Start-up's word on a run, case by case. *)
LEMMA ReconciledIs ==
  ASSUME NEW r
  PROVE  /\ r \notin Paired => Reconciled(r) = status[r]
         /\ r \in Paired /\ CycleDecides(r) => Reconciled(r) = OutcomeOf[team[r]]
         /\ r \in Paired /\ ~CycleDecides(r) /\ Diverged(r) => Reconciled(r) = "interrupted"
         /\ r \in Paired /\ ~CycleDecides(r) /\ ~Diverged(r) =>
              Reconciled(r) = IF team[r] = "running" /\ status[r] = "queued" THEN "running"
                              ELSE status[r]
<1>1. (r \in Paired) \in BOOLEAN /\ CycleDecides(r) \in BOOLEAN /\ Diverged(r) \in BOOLEAN
  BY DEF CycleDecides, Diverged
<1> QED BY <1>1 DEF Reconciled

(* A set enumerated without repetitions. *)
LEMMA Enumerated ==
  ASSUME NEW set, IsFiniteSet(set), NEW order \in SetToSeqs(set)
  PROVE  order \in Seq(set) /\ ToSet(order) = set
<1> DEFINE n == Cardinality(set)
<1>1. n \in Nat /\ IsFiniteSet(1..n) /\ Cardinality(1..n) = n
  BY FS_CardinalityType, FS_Interval
<1>2. order \in [1..n -> set] /\ \A i, j \in 1..n : i # j => order[i] # order[j]
  BY DEF SetToSeqs
<1>3. order \in Injection(1..n, set)
  BY <1>2 DEF Injection, IsInjective
<1>4. order \in Surjection(1..n, set)
  BY <1>1, <1>3, FS_Injection
<1> QED BY <1>1, <1>2, <1>4 DEF Surjection, ToSet

LEMMA SetOfSeq ==
  ASSUME NEW S, NEW seq \in Seq(S)
  PROVE  ToSet(seq) \subseteq S
BY DEF ToSet

LEMMA PollParts ==
  ASSUME polls \in [Pollers -> PollRows], NEW p \in Pollers
  PROVE  /\ polls[p] \in PollRows
         /\ polls[p].at \in {"none", "next", "record"} /\ polls[p].todo \subseteq Hooks
         /\ polls[p].next \in Nat /\ polls[p].upto \in 0..MaxEvents /\ polls[p].made \in Seq(Runs)
         /\ polls[p].at = "record" => polls[p].hook \in Hooks /\ polls[p].next > 0
         /\ polls[p].at = "record" /\ polls[p].next <= polls[p].upto =>
              <<polls[p].hook, polls[p].next>> \in Runs
<1>1. polls[p] \in PollRows
  OBVIOUS
<1>2. /\ polls[p].at \in {"none", "next", "record"} /\ polls[p].todo \subseteq Hooks
      /\ polls[p].next \in Nat /\ polls[p].upto \in 0..MaxEvents /\ polls[p].made \in Seq(Runs)
      /\ polls[p].at = "record" => polls[p].hook \in Hooks /\ polls[p].next > 0
  BY <1>1 DEF PollRows
<1>3. polls[p].at = "record" /\ polls[p].next <= polls[p].upto => polls[p].next \in 1..MaxEvents
  BY <1>2, BoundsAreNat
<1> QED BY <1>1, <1>2, <1>3, RunParts

-----------------------------------------------------------------------------
(* Types of the tables. *)

LEMMA SectionParts ==
  ASSUME TypeOK
  PROVE  /\ Free.at = "free" /\ Free.run = NoRun
         /\ loop.at # "free" => loop.run \in TeamRuns /\ loop.run \in Runs
         /\ loop = Free <=> loop.at = "free"
         /\ \A at, r : Section(at, r).at = at /\ Section(at, r).run = r
         /\ worker.at = "turn" => worker.run \in AgentRuns /\ worker.run \in Runs
         /\ worker.at # "turn" => worker.run = NoRun
         /\ queue # <<>> => /\ Head(queue) \in Runs /\ Tail(queue) \in Seq(Runs)
                            /\ Head(queue)[1] \in AgentHooks <=> Head(queue) \in AgentRuns
                            /\ Head(queue)[1] \in TeamHooks <=> Head(queue) \in TeamRuns
BY RunParts DEF TypeOK, TypesInMemory, Free, Section

LEMMA RowTypes == TypeOK /\ [Next]_vars => TypesOfRows'
<1> SUFFICES ASSUME TypeOK, [Next]_vars PROVE TypesOfRows'
  OBVIOUS
<1> USE DEF TypeOK
<1>s. \A set : \A to \in Statuses \ {"absent"} :
        TypesOfRows /\ SetStatus(set, to) => status' \in [Runs -> Statuses]
  BY WrittenStatus
<1>l. \A r \in Runs, what \in {"request", "cycle"} :
        TypesOfRows /\ Link(r, what) => links' \in [Runs -> SUBSET {"request", "cycle"}]
  BY LinkedRows
<1>c. \A r, to : to \in TeamStates /\ TypesOfRows /\ Cycle(r, to) => team' \in [Runs -> TeamStates]
  BY DEF Cycle, TypesOfRows
<1>t. CancelTarget => /\ team' \in [Runs -> TeamStates] /\ status' \in [Runs -> Statuses]
                      /\ target' \in {"open", "canceled"}
  <2>1. CancelTarget => team' \in [Runs -> TeamStates] /\ target' = "canceled"
    BY DEF CancelTarget, TypesOfRows, TeamStates, Finished
  <2> QED BY <2>1, <1>s DEF CancelTarget, Statuses
<1>0. ASSUME UNCHANGED <<sources, runs, cycles>> PROVE TypesOfRows'
  BY <1>0 DEF sources, runs, cycles, TypesOfRows
<1>1. ASSUME NEW h \in Hooks, Arrive(h) PROVE TypesOfRows'
  BY <1>1, BoundsAreNat DEF Arrive, TypesOfRows, runs, cycles
<1>2. ASSUME NEW h \in Hooks, DeleteHook(h) PROVE TypesOfRows'
  BY <1>2 DEF DeleteHook, TypesOfRows, cycles, Statuses
<1>3. ASSUME NEW p \in Pollers, NEW due \in SUBSET Hooks, Begin(p, due) PROVE TypesOfRows'
  BY <1>3, <1>0 DEF Begin, Polling
<1>4. ASSUME NEW p \in Pollers, NEW h \in Hooks, PollReads(p, h) PROVE TypesOfRows'
  BY <1>4, <1>0 DEF PollReads, Polling
<1>5. ASSUME NEW p \in Pollers, NEW h \in Hooks, PollFails(p, h) PROVE TypesOfRows'
  BY <1>5, <1>0 DEF PollFails, Polling
<1>6. ASSUME NEW p \in Pollers, PollAborts(p) PROVE TypesOfRows'
  BY <1>6, <1>0 DEF PollAborts, Polling
<1>7. ASSUME NEW p \in Pollers, PollRecords(p) PROVE TypesOfRows'
  BY <1>7, <1>s DEF PollRecords, Polling, TypesOfRows, sources, cycles, Statuses
<1>8. ASSUME NEW p \in Pollers, PollEnds(p) PROVE TypesOfRows'
  BY <1>8, PollParts DEF PollEnds, Polling, NextCursor, TypesOfRows, TypesInMemory, runs, cycles
<1>9. ASSUME NEW p \in Pollers, PollEnqueues(p) PROVE TypesOfRows'
  BY <1>9, <1>0 DEF PollEnqueues, Polling
<1>10. CASE SkipRun
  BY <1>10, <1>0 DEF SkipRun, Dequeue
<1>11. CASE BeginTurn
  <2>4. queue # <<>>
    BY <1>11 DEF BeginTurn, Dequeue
  <2>5. PICK r \in Runs : r = Head(queue)
    BY <2>4, SectionParts
  <2>1. turns' = [turns EXCEPT ![r] = @ + 1]
    BY <1>11, <2>5 DEF BeginTurn
  <2>2. turns' \in [Runs -> Nat]
    BY <2>1 DEF TypesOfRows
  <2>3. status' \in [Runs -> Statuses]
    BY <1>11, <1>s DEF BeginTurn, Statuses
  <2> QED BY <1>11, <2>2, <2>3 DEF BeginTurn, Dequeue, TypesOfRows, sources, cycles
<1>12. CASE RequestCycle
  BY <1>12, SectionParts DEF RequestCycle, TypesOfRows, sources, runs, TeamStates
<1>13. CASE RequestRefused
  BY <1>13, <1>s DEF RequestRefused, Dequeue, TypesOfRows, sources, cycles, Statuses
<1>14. ASSUME NEW to \in {"succeeded", "failed"}, TurnEnds(to) PROVE TypesOfRows'
  BY <1>14, <1>s DEF TurnEnds, TypesOfRows, sources, cycles, Statuses
<1>15. CASE LinkRequest
  BY <1>15, <1>l, SectionParts DEF LinkRequest, TypesOfRows, sources, cycles
<1>16. CASE PrepareCycle
  <2>1. status' = status /\ team' \in [Runs -> TeamStates] /\ UNCHANGED <<sources, turns, target>>
    BY <1>16, <1>c DEF PrepareCycle, TypesOfRows, TeamStates, Finished
  <2>2. links' \in [Runs -> SUBSET {"request", "cycle"}]
    BY <1>16, <1>l, SectionParts DEF PrepareCycle
  <2> QED BY <2>1, <2>2 DEF TypesOfRows, sources
<1>17. CASE RejectMail
  BY <1>17, <1>s DEF RejectMail, TypesOfRows, sources, cycles, Statuses
<1>18. CASE FailCycle
  BY <1>18, <1>c DEF FailCycle, OnlyCycle, TypesOfRows, sources, runs, TeamStates, Finished
<1>19. CASE Observe
  <2>1. OutcomeOf[team[loop.run]] \in Statuses \ {"absent"}
    BY <1>19, OutcomesAreStatuses DEF Observe, SectionFits, Observed, Statuses
  <2>2. status' \in [Runs -> Statuses]
    BY <1>19, <2>1, <1>s DEF Observe, TypesOfRows
  <2> QED BY <1>19, <2>2 DEF Observe, TypesOfRows, sources, cycles
<1>20. ASSUME NEW r \in TeamRuns, ClaimCycle(r) PROVE TypesOfRows'
  BY <1>20, <1>c DEF ClaimCycle, OnlyCycle, TypesOfRows, sources, runs, TeamStates, Occupying, Finished
<1>21. ASSUME NEW r \in TeamRuns, CycleGoesOn(r) PROVE TypesOfRows'
  BY <1>21, <1>c DEF CycleGoesOn, OnlyCycle, TypesOfRows, sources, runs, TeamStates, Occupying
<1>22. ASSUME NEW r \in TeamRuns,
              NEW to \in {"completed", "failed", "waiting_for_user", "interrupted"}, CycleEnds(r, to)
       PROVE  TypesOfRows'
  BY <1>22, <1>c DEF CycleEnds, OnlyCycle, TypesOfRows, sources, runs, TeamStates, Occupying, Finished
<1>23. ASSUME NEW r \in TeamRuns, NEW to \in {"waiting_for_provider", "interrupted"},
              CycleStops(r, to)
       PROVE  TypesOfRows'
  BY <1>23, <1>c DEF CycleStops, OnlyCycle, TypesOfRows, sources, runs, TeamStates, Occupying
<1>24. CASE CancelRun
  BY <1>24, <1>t DEF CancelRun, TypesOfRows, sources
<1>25. CASE ReopenRun
  BY <1>25 DEF ReopenRun, TypesOfRows, sources, runs
<1>26. CASE CloseIntake
  BY <1>26, <1>0 DEF CloseIntake
<1>27. CASE CancelAllActive
  BY <1>27, <1>t DEF CancelAllActive, TypesOfRows, sources
<1>28. CASE CancelWorker
  BY <1>28, <1>0 DEF CancelWorker
<1>29. CASE WorkerCanceled
  BY <1>29, <1>s DEF WorkerCanceled, Failed, TypesOfRows, sources, cycles, Statuses
<1>30. CASE DrainQueue
  BY <1>30, <1>s DEF DrainQueue, TypesOfRows, sources, cycles, Statuses
<1>31. CASE ResumeIntake
  BY <1>31, <1>0 DEF ResumeIntake
<1>32. CASE Crash
  BY <1>32 DEF Crash, Gone, TypesOfRows, sources, cycles
<1>33. CASE Shutdown
  BY <1>33, <1>s DEF Shutdown, Failed, Gone, TypesOfRows, sources, cycles, Statuses
<1>34. CASE StartCycles
  BY <1>34 DEF StartCycles, Starting, TypesOfRows, sources, TeamStates, Occupying
<1>35. CASE RecoverRuns
  BY <1>35 DEF RecoverRuns, Recovered, Starting, TypesOfRows, sources, Statuses
<1>36. CASE ReconcileLinked
  <2>1. links' \in [Runs -> SUBSET {"request", "cycle"}]
    BY <1>36 DEF ReconcileLinked, TypesOfRows
  <2>2. team' \in [Runs -> TeamStates]
    BY <1>36 DEF ReconcileLinked, TypesOfRows, TeamStates, Occupying
  <2>3. \A r \in Runs : Reconciled(r) \in Statuses
    <3> TAKE r \in Runs
    <3>1. status[r] \in Statuses
      BY DEF TypesOfRows
    <3>2. CycleDecides(r) => OutcomeOf[team[r]] \in Statuses
      BY OutcomesAreStatuses DEF CycleDecides, Observed, Statuses
    <3>3. {"interrupted", "running"} \subseteq Statuses
      BY DEF Statuses
    <3> QED BY <3>1, <3>2, <3>3, ReconciledIs
  <2>4. status' \in [Runs -> Statuses]
    BY <1>36, <2>3 DEF ReconcileLinked
  <2> QED BY <1>36, <2>1, <2>2, <2>4 DEF ReconcileLinked, Starting, TypesOfRows, sources
<1>37. CASE StartWorker
  BY <1>37 DEF StartWorker, Starting, TypesOfRows, sources
<1>38. CASE UNCHANGED vars
  BY <1>38, <1>0 DEF vars
<1> QED BY <1>1, <1>2, <1>3, <1>4, <1>5, <1>6, <1>7, <1>8, <1>9, <1>10, <1>11, <1>12, <1>13,
            <1>14, <1>15, <1>16, <1>17, <1>18, <1>19, <1>20, <1>21, <1>22, <1>23, <1>24, <1>25,
            <1>26, <1>27, <1>28, <1>29, <1>30, <1>31, <1>32, <1>33, <1>34, <1>35, <1>36, <1>37,
            <1>38
            DEF Next, Sources, Polls, PollStep, TakesUp, Turns, Sections, Cycles, EmergencyStop,
                StartUp, Tick, RunNow, DueHooks, Pollers

-----------------------------------------------------------------------------
(* Types of what memory holds. *)

MemoryOf == <<polls, consumer, loop, intake, ghosts, process>>

LEMMA PollTypes ==
  ASSUME polls \in [Pollers -> PollRows], NEW p \in Pollers, NEW state \in PollRows,
         Polling(p, state)
  PROVE  polls' \in [Pollers -> PollRows] /\ UNCHANGED <<cycles, worker, loop, intake, process>>
BY DEF Polling

LEMMA MemoryTypes == TypeOK /\ [Next]_vars => TypesInMemory'
<1> SUFFICES ASSUME TypeOK, [Next]_vars PROVE TypesInMemory'
  OBVIOUS
<1> USE DEF TypeOK
<1>p. \A p \in Pollers : polls[p] \in PollRows
  BY DEF TypesInMemory
<1>m. \A p \in Pollers : polls[p].made \in Seq(Runs)
  BY PollParts DEF TypesInMemory
<1>n. NoPoll \in PollRows
  <2>1. <<>> \in Seq(Runs)
    OBVIOUS
  <2> QED BY <2>1, BoundsAreNat DEF NoPoll, PollRows
<1>q. queue # <<>> => Tail(queue) \in Seq(Runs)
  BY SectionParts
<1>0. ASSUME UNCHANGED MemoryOf PROVE TypesInMemory'
  BY <1>0 DEF MemoryOf, consumer, intake, ghosts, process, TypesInMemory
\* a section or the loop's freedom is all that changes
<1>k. ASSUME UNCHANGED <<polls, consumer, intake, ghosts, process>>,
             loop' = loop \/ loop' = Free \/ \E at \in {"link", "prepare", "reject", "fail", "observe"} :
               \E r \in TeamRuns : loop' = Section(at, r)
      PROVE  TypesInMemory'
  BY <1>k DEF consumer, intake, ghosts, process, TypesInMemory, Section
<1>1. ASSUME NEW h \in Hooks, Arrive(h) PROVE TypesInMemory'
  BY <1>1, <1>0 DEF Arrive, MemoryOf
<1>2. ASSUME NEW h \in Hooks, DeleteHook(h) PROVE TypesInMemory'
  BY <1>2, <1>0 DEF DeleteHook, MemoryOf
<1>r. ASSUME NEW p \in Pollers, NEW state \in PollRows, Polling(p, state),
             queue' \in Seq(Runs), stray' \subseteq Runs, late' \subseteq Runs
      PROVE  TypesInMemory'
  BY <1>r, PollTypes DEF TypesInMemory, intake, process
<1>3. ASSUME NEW p \in Pollers, NEW due \in SUBSET Hooks, Begin(p, due) PROVE TypesInMemory'
  <2>1. [NoPoll EXCEPT !.at = "next", !.todo = due] \in PollRows
    BY <1>n DEF NoPoll, PollRows
  <2> QED BY <1>3, <2>1, <1>r DEF Begin, ghosts, TypesInMemory
<1>4. ASSUME NEW p \in Pollers, NEW h \in Hooks, PollReads(p, h) PROVE TypesInMemory'
  <2> DEFINE state == [polls[p] EXCEPT !.at = "record", !.todo = @ \ {h}, !.hook = h,
                                       !.next = Found(h).next, !.upto = Found(h).upto]
  <2>1. Found(h).next \in Nat \ {0} /\ Found(h).upto \in 0..MaxEvents
    BY BoundsAreNat DEF Found, TypesOfRows
  <2>2. state \in PollRows
    BY <2>1, <1>p DEF PollRows
  <2> QED BY <1>4, <2>2, <1>r DEF PollReads, ghosts, TypesInMemory
<1>5. ASSUME NEW p \in Pollers, NEW h \in Hooks, PollFails(p, h) PROVE TypesInMemory'
  <2>1. [polls[p] EXCEPT !.todo = @ \ {h}] \in PollRows
    BY <1>p DEF PollRows
  <2> QED BY <1>5, <2>1, <1>r DEF PollFails, ghosts, TypesInMemory
<1>6. ASSUME NEW p \in Pollers, PollAborts(p) PROVE TypesInMemory'
  <2>1. ToSet(polls[p].made) \subseteq Runs
    BY <1>m, SetOfSeq
  <2> QED BY <1>6, <2>1, <1>n, <1>r DEF PollAborts, TypesInMemory
<1>7. ASSUME NEW p \in Pollers, PollRecords(p) PROVE TypesInMemory'
  <2> DEFINE r == <<polls[p].hook, polls[p].next>>
  <2>1. r \in Runs /\ polls[p].next + 1 \in Nat \ {0} /\ Append(polls[p].made, r) \in Seq(Runs)
    BY <1>7, PollParts DEF PollRecords, TypesInMemory
  <2> HIDE DEF r
  <2>2. /\ [polls[p] EXCEPT !.next = @ + 1, !.made = Append(@, r)] \in PollRows
        /\ [polls[p] EXCEPT !.next = @ + 1] \in PollRows
    BY <1>p, <2>1 DEF PollRows
  <2>3. \/ Polling(p, [polls[p] EXCEPT !.next = @ + 1, !.made = Append(@, r)])
        \/ Polling(p, [polls[p] EXCEPT !.next = @ + 1])
    BY <1>7 DEF PollRecords, r
  <2>4. queue' = queue /\ stray' = stray /\ (late' = late \/ late' = late \cup {r})
    BY <1>7 DEF PollRecords, r
  <2> QED BY <2>1, <2>2, <2>3, <2>4, <1>r DEF TypesInMemory
<1>8. ASSUME NEW p \in Pollers, PollEnds(p) PROVE TypesInMemory'
  <2>1. [polls[p] EXCEPT !.at = "next"] \in PollRows
    BY <1>p DEF PollRows
  <2> QED BY <1>8, <2>1, <1>r DEF PollEnds, ghosts, TypesInMemory
<1>9. ASSUME NEW p \in Pollers, PollEnqueues(p) PROVE TypesInMemory'
  <2>1. queue \o polls[p].made \in Seq(Runs)
    BY <1>m, ConcatProperties DEF TypesInMemory
  <2> QED BY <1>9, <2>1, <1>n, <1>r DEF PollEnqueues, ghosts, TypesInMemory
<1>10. CASE SkipRun
  BY <1>10, <1>q DEF SkipRun, Dequeue, TypesInMemory, intake, ghosts, process
<1>11. CASE BeginTurn
  <2>1. Head(queue) \in AgentRuns
    BY <1>11, SectionParts DEF BeginTurn, Dequeue
  <2>2. worker' \in [at : {"turn"}, run : AgentRuns]
    BY <1>11, <2>1 DEF BeginTurn, WorkerTo
  <2> QED BY <1>11, <2>2, <1>q DEF BeginTurn, Dequeue, TypesInMemory, intake, ghosts, process
<1>12. CASE RequestCycle
  <2>1. Head(queue) \in TeamRuns
    BY <1>12, SectionParts DEF RequestCycle
  <2>2. loop' \in [at : {"link"}, run : TeamRuns]
    BY <1>12, <2>1 DEF RequestCycle, Section
  <2> QED BY <1>12, <2>2, <1>q DEF RequestCycle, TypesInMemory, intake, ghosts, process
<1>13. CASE RequestRefused
  BY <1>13, <1>q DEF RequestRefused, Dequeue, TypesInMemory, intake, ghosts, process
<1>14. ASSUME NEW to \in {"succeeded", "failed"}, TurnEnds(to) PROVE TypesInMemory'
  BY <1>14 DEF TurnEnds, WorkerTo, TypesInMemory, intake, ghosts, process
<1>15. CASE LinkRequest
  BY <1>15, <1>k DEF LinkRequest
<1>16. CASE PrepareCycle
  BY <1>16, <1>k, SectionParts DEF PrepareCycle
<1>17. CASE RejectMail
  BY <1>17, <1>k, SectionParts DEF RejectMail
<1>18. CASE FailCycle
  BY <1>18, <1>k DEF FailCycle, OnlyCycle
<1>19. CASE Observe
  BY <1>19, <1>k DEF Observe
<1>20. ASSUME NEW r \in TeamRuns, ClaimCycle(r) PROVE TypesInMemory'
  BY <1>20, <1>k DEF ClaimCycle, OnlyCycle
<1>21. ASSUME NEW r \in TeamRuns, CycleGoesOn(r) PROVE TypesInMemory'
  BY <1>21, <1>k DEF CycleGoesOn, OnlyCycle
<1>22. ASSUME NEW r \in TeamRuns,
              NEW to \in {"completed", "failed", "waiting_for_user", "interrupted"}, CycleEnds(r, to)
       PROVE  TypesInMemory'
  BY <1>22, <1>k DEF CycleEnds, OnlyCycle
<1>23. ASSUME NEW r \in TeamRuns, NEW to \in {"waiting_for_provider", "interrupted"},
              CycleStops(r, to)
       PROVE  TypesInMemory'
  BY <1>23, <1>k DEF CycleStops, OnlyCycle
<1>24. CASE CancelRun
  BY <1>24, <1>0 DEF CancelRun, MemoryOf
<1>25. CASE ReopenRun
  BY <1>25, <1>0 DEF ReopenRun, MemoryOf
<1>26. CASE CloseIntake
  BY <1>26 DEF CloseIntake, StopTo, TypesInMemory, consumer, ghosts, process
<1>27. CASE CancelAllActive
  BY <1>27 DEF CancelAllActive, StopTo, TypesInMemory, consumer, ghosts, process
<1>28. CASE CancelWorker
  BY <1>28 DEF CancelWorker, StopTo, TypesInMemory, consumer, ghosts, process, ActiveRuns, InState
<1>29. CASE WorkerCanceled
  BY <1>29 DEF WorkerCanceled, WorkerTo, TypesInMemory, intake, ghosts, process
<1>30. CASE DrainQueue
  <2>1. ToSet(queue) \subseteq Runs
    BY DEF ToSet, TypesInMemory
  <2>2. stop' = [at |-> "answered", targets |-> {}] /\ worker' = [at |-> "idle", run |-> NoRun]
        /\ queue' = <<>> /\ stray' = stray \cup (ToSet(queue) \ stop.targets)
        /\ UNCHANGED <<polls, loop, gate, late, process>>
    BY <1>30 DEF DrainQueue, StopTo, WorkerTo
  <2> QED BY <2>1, <2>2 DEF TypesInMemory, process
<1>31. CASE ResumeIntake
  BY <1>31 DEF ResumeIntake, NoStop, TypesInMemory, consumer, process
<1>g. ASSUME Gone PROVE TypesInMemory'
  BY <1>g, <1>n DEF Gone, WorkerTo, NoStop, TypesInMemory
<1>32. CASE Crash
  BY <1>32, <1>g DEF Crash
<1>33. CASE Shutdown
  BY <1>33, <1>g DEF Shutdown
<1>34. CASE StartCycles
  BY <1>34 DEF StartCycles, Starting, TypesInMemory, consumer, intake, ghosts
<1>35. CASE RecoverRuns
  BY <1>35 DEF RecoverRuns, Starting, TypesInMemory, consumer, intake, ghosts
<1>36. CASE ReconcileLinked
  BY <1>36 DEF ReconcileLinked, Starting, TypesInMemory, consumer, intake, ghosts
<1>37. CASE StartWorker
  <2>1. InState({"queued"}) \subseteq Runs /\ IsFiniteSet(InState({"queued"}))
    BY RunsAreFinite, FS_Subset DEF InState
  <2>2. queue' \in Seq(InState({"queued"}))
    BY <1>37, <2>1, Enumerated DEF StartWorker
  <2>3. queue' \in Seq(Runs)
    BY <2>1, <2>2
  <2> QED BY <1>37, <2>3 DEF StartWorker, WorkerTo, Starting, TypesInMemory, intake, ghosts
<1>38. CASE UNCHANGED vars
  BY <1>38, <1>0 DEF vars, MemoryOf
<1> QED BY <1>1, <1>2, <1>3, <1>4, <1>5, <1>6, <1>7, <1>8, <1>9, <1>10, <1>11, <1>12, <1>13,
            <1>14, <1>15, <1>16, <1>17, <1>18, <1>19, <1>20, <1>21, <1>22, <1>23, <1>24, <1>25,
            <1>26, <1>27, <1>28, <1>29, <1>30, <1>31, <1>32, <1>33, <1>34, <1>35, <1>36, <1>37,
            <1>38
            DEF Next, Sources, Polls, PollStep, TakesUp, Turns, Sections, Cycles, EmergencyStop,
                StartUp, Tick, RunNow, DueHooks, Pollers

-----------------------------------------------------------------------------
(* Sections and the cycles they work for. *)

LEMMA SectionStep == TypeOK /\ [Next]_vars => SectionFits'
<1> SUFFICES ASSUME TypeOK, [Next]_vars PROVE SectionFits'
  OBVIOUS
<1> USE DEF TypeOK
<1>0. ASSUME UNCHANGED <<loop, team, server>> PROVE SectionFits'
  BY <1>0 DEF SectionFits, Up
<1>f. ASSUME loop' = Free PROVE SectionFits'
  BY <1>f, SectionParts DEF SectionFits
<1>e. LoopFree /\ UNCHANGED loop => loop' = Free
  BY DEF LoopFree
<1>c. ASSUME NEW r \in TeamRuns, NEW to, NEW at, Cycle(r, to), loop' = Section(at, r), Up, Up',
             at \in {"prepare", "reject", "fail"} => to = "running",
             at = "observe" => to \in {"completed", "failed", "waiting_for_user", "interrupted"}
      PROVE  SectionFits'
  <2>1. team'[r] = to
    BY <1>c, RunParts DEF Cycle, TypesOfRows
  <2> QED BY <1>c, <2>1 DEF SectionFits, Section
<1>o. OnlyCycle => UNCHANGED server
  BY DEF OnlyCycle, process
<1>1. ASSUME NEW h \in Hooks, Arrive(h) PROVE SectionFits'
  BY <1>1, <1>0 DEF Arrive, cycles, process
<1>2. ASSUME NEW h \in Hooks, DeleteHook(h) PROVE SectionFits'
  BY <1>2, <1>0 DEF DeleteHook, cycles, process
<1>3. ASSUME NEW p \in Pollers, NEW due \in SUBSET Hooks, Begin(p, due) PROVE SectionFits'
  BY <1>3, <1>0 DEF Begin, Polling, cycles, process
<1>4. ASSUME NEW p \in Pollers, NEW h \in Hooks, PollReads(p, h) PROVE SectionFits'
  BY <1>4, <1>0 DEF PollReads, Polling, cycles, process
<1>5. ASSUME NEW p \in Pollers, NEW h \in Hooks, PollFails(p, h) PROVE SectionFits'
  BY <1>5, <1>0 DEF PollFails, Polling, cycles, process
<1>6. ASSUME NEW p \in Pollers, PollAborts(p) PROVE SectionFits'
  BY <1>6, <1>0 DEF PollAborts, Polling, cycles, process
<1>7. ASSUME NEW p \in Pollers, PollRecords(p) PROVE SectionFits'
  BY <1>7, <1>0 DEF PollRecords, Polling, cycles, process
<1>8. ASSUME NEW p \in Pollers, PollEnds(p) PROVE SectionFits'
  BY <1>8, <1>0 DEF PollEnds, Polling, cycles, process
<1>9. ASSUME NEW p \in Pollers, PollEnqueues(p) PROVE SectionFits'
  BY <1>9, <1>0 DEF PollEnqueues, Polling, cycles, process
<1>10. CASE SkipRun
  BY <1>10, <1>0 DEF SkipRun, Dequeue, cycles, process
<1>11. CASE BeginTurn
  BY <1>11, <1>0 DEF BeginTurn, Dequeue, cycles, process
<1>12. CASE RequestCycle
  BY <1>12, SectionParts DEF RequestCycle, SectionFits, WorkerRuns, LoopFree, Up, process
<1>13. CASE RequestRefused
  BY <1>13, <1>0 DEF RequestRefused, Dequeue, cycles, process
<1>14. ASSUME NEW to \in {"succeeded", "failed"}, TurnEnds(to) PROVE SectionFits'
  BY <1>14, <1>0 DEF TurnEnds, cycles, process
<1>15. CASE LinkRequest
  BY <1>15, <1>f DEF LinkRequest
<1>16. CASE PrepareCycle
  <2>1. CASE loop' = Free
    BY <2>1, <1>f
  <2>2. CASE loop' = Section("reject", loop.run) /\ status[loop.run] # "deleted"
    <3>1. team' = team /\ server' = server /\ team[loop.run] = "running" /\ Up
      BY <1>16, <2>2, SectionParts DEF PrepareCycle, SectionFits, process
    <3> QED BY <2>2, <3>1 DEF SectionFits, Section, Up
  <2> QED BY <1>16, <2>1, <2>2 DEF PrepareCycle
<1>17. CASE RejectMail
  BY <1>17, SectionParts DEF RejectMail, SectionFits, Section, Up, cycles, process
<1>18. CASE FailCycle
  BY <1>18, <1>f DEF FailCycle
<1>19. CASE Observe
  BY <1>19, <1>f DEF Observe
<1>20. ASSUME NEW r \in TeamRuns, ClaimCycle(r) PROVE SectionFits'
  <2>1. Up /\ Up'
    BY <1>20, <1>o DEF ClaimCycle, LoopFree, Up
  <2> QED BY <1>20, <2>1, <1>c, <1>e, <1>f DEF ClaimCycle
<1>21. ASSUME NEW r \in TeamRuns, CycleGoesOn(r) PROVE SectionFits'
  BY <1>21, <1>e, <1>f DEF CycleGoesOn
<1>22. ASSUME NEW r \in TeamRuns,
              NEW to \in {"completed", "failed", "waiting_for_user", "interrupted"}, CycleEnds(r, to)
       PROVE  SectionFits'
  <2>1. Up /\ Up'
    BY <1>22, <1>o DEF CycleEnds, LoopFree, Up
  <2> QED BY <1>22, <2>1, <1>c DEF CycleEnds
<1>23. ASSUME NEW r \in TeamRuns, NEW to \in {"waiting_for_provider", "interrupted"},
              CycleStops(r, to)
       PROVE  SectionFits'
  BY <1>23, <1>e, <1>f DEF CycleStops
<1>24. CASE CancelRun
  BY <1>24, <1>e, <1>f DEF CancelRun
<1>25. CASE ReopenRun
  BY <1>25, <1>0 DEF ReopenRun, process
<1>26. CASE CloseIntake
  BY <1>26, <1>0 DEF CloseIntake, cycles, process
<1>27. CASE CancelAllActive
  BY <1>27, <1>e, <1>f DEF CancelAllActive
<1>28. CASE CancelWorker
  BY <1>28, <1>0 DEF CancelWorker, cycles, process
<1>29. CASE WorkerCanceled
  BY <1>29, <1>0 DEF WorkerCanceled, cycles, process
<1>30. CASE DrainQueue
  BY <1>30, <1>0 DEF DrainQueue, cycles, process
<1>31. CASE ResumeIntake
  BY <1>31, <1>0 DEF ResumeIntake, cycles, process
<1>32. CASE Crash
  BY <1>32, <1>f DEF Crash, Gone
<1>33. CASE Shutdown
  BY <1>33, <1>f DEF Shutdown, Gone
<1>d. ASSUME NEW from \in {"down", "cycles", "runs", "linked"}, NEW to, Starting(from, to)
      PROVE  SectionFits'
  BY <1>d, <1>f DEF Starting, SectionFits, Up
<1>34. CASE StartCycles
  BY <1>34, <1>d DEF StartCycles
<1>35. CASE RecoverRuns
  BY <1>35, <1>d DEF RecoverRuns
<1>36. CASE ReconcileLinked
  BY <1>36, <1>d DEF ReconcileLinked
<1>37. CASE StartWorker
  BY <1>37, <1>d DEF StartWorker
<1>38. CASE UNCHANGED vars
  BY <1>38, <1>0 DEF vars, cycles, process
<1> QED BY <1>1, <1>2, <1>3, <1>4, <1>5, <1>6, <1>7, <1>8, <1>9, <1>10, <1>11, <1>12, <1>13,
            <1>14, <1>15, <1>16, <1>17, <1>18, <1>19, <1>20, <1>21, <1>22, <1>23, <1>24, <1>25,
            <1>26, <1>27, <1>28, <1>29, <1>30, <1>31, <1>32, <1>33, <1>34, <1>35, <1>36, <1>37,
            <1>38
            DEF Next, Sources, Polls, PollStep, TakesUp, Turns, Sections, Cycles, EmergencyStop,
                StartUp, Tick, RunNow, DueHooks, Pollers

LEMMA TypeInit == Init => TypeOK
<1> SUFFICES ASSUME Init PROVE TypeOK
  OBVIOUS
<1>1. TypesOfRows
  BY ArrivalsAreBounded, BoundsAreNat DEF Init, TypesOfRows, Statuses, TeamStates
<1>2. NoPoll \in PollRows
  <2>1. <<>> \in Seq(Runs)
    OBVIOUS
  <2> QED BY <2>1, BoundsAreNat DEF NoPoll, PollRows
<1>3. TypesInMemory
  BY <1>2 DEF Init, TypesInMemory, NoStop
<1>4. SectionFits
  BY DEF Init, SectionFits, Free
<1> QED BY <1>1, <1>3, <1>4 DEF TypeOK

(* Hooks, runs, cycles and what polls, worker, sections and stop remember    *)
(* stay well typed; a section of the event loop works for a cycle in the     *)
(* state it left it in.                                                      *)
THEOREM HookTypes == Spec => []TypeOK
<1>1. TypeOK /\ [Next]_vars => TypeOK'
  BY RowTypes, MemoryTypes, SectionStep DEF TypeOK
<1> QED BY TypeInit, <1>1, PTL DEF Spec

-----------------------------------------------------------------------------
(* The emergency stop.  What it promises when it has answered is what its    *)
(* steps have made true by then: a closed gate belongs to a living process   *)
(* and a stop that has begun, no cycle runs once the cycles were canceled,   *)
(* and whatever is pending while the worker ends was listed or came late.    *)

StopInv ==
  /\ gate = "closed" => Up /\ stop.at # "none"
  /\ gate = "closed" /\ stop.at \in {"canceled", "awaiting", "answered"} =>
       \A r \in TeamRuns : team[r] # "running"
  /\ gate = "closed" /\ stop.at = "awaiting" => InState(Pending) \subseteq stop.targets \cup late
  /\ EmergencyStopHolds

LEMMA StopStep == TypeOK /\ StopInv /\ [Next]_vars => StopInv'
<1> SUFFICES ASSUME TypeOK, StopInv, [Next]_vars PROVE StopInv'
  OBVIOUS
<1> USE DEF TypeOK
\* cycles and runs only settle, or come late, while the intake is closed
<1> DEFINE NoneStarts == \A r \in TeamRuns : team'[r] = "running" => team[r] = "running"
           NoneComes == \A r \in Runs : status'[r] \in Pending => status[r] \in Pending \/ r \in late'
           NoneTurns == worker'.run \in {worker.run, NoRun} \cup InState(Pending)
<1>0. ASSUME UNCHANGED <<intake, server>>,
             gate = "closed" => NoneStarts /\ NoneComes /\ NoneTurns /\ late \subseteq late'
      PROVE  StopInv'
  <2>1. CASE gate # "closed"
    BY <1>0, <2>1 DEF StopInv, EmergencyStopHolds, intake
  <2>2. CASE gate = "closed"
    <3>1. gate' = gate /\ stop' = stop /\ (Up => Up')
      BY <1>0 DEF intake, Up
    <3>2. stop.at \in {"canceled", "awaiting", "answered"} => \A r \in TeamRuns : team'[r] # "running"
      BY <1>0, <2>2 DEF StopInv
    <3>3. ASSUME stop.at = "awaiting" PROVE InState(Pending)' \subseteq stop.targets \cup late'
      BY <1>0, <2>2, <3>3 DEF StopInv, InState
    <3>4. ASSUME stop.at = "answered"
          PROVE  InState(Pending)' \subseteq late' /\ worker'.run \in late' \cup {NoRun}
      <4>1. InState(Pending) \subseteq late /\ worker.run \in late \cup {NoRun}
        BY <2>2, <3>4 DEF StopInv, EmergencyStopHolds
      <4> QED BY <1>0, <2>2, <4>1 DEF InState
    <3> QED BY <2>2, <3>1, <3>2, <3>3, <3>4 DEF StopInv, EmergencyStopHolds
  <2> QED BY <2>1, <2>2
<1>g. ASSUME gate' # "closed" PROVE StopInv'
  BY <1>g DEF StopInv, EmergencyStopHolds
<1>s. ASSUME NEW set, NEW to \in Statuses \ {"absent", "queued", "running"}, SetStatus(set, to)
      PROVE  \A r \in Runs : status'[r] \in Pending => status[r] \in Pending
  BY <1>s, WrittenStatus DEF Pending
<1>u. ASSUME UNCHANGED <<status, late>> PROVE NoneComes /\ late \subseteq late'
  BY <1>u
<1>c. ASSUME NEW r, NEW to, to # "running", Cycle(r, to) PROVE NoneStarts
  BY <1>c, RunParts DEF Cycle, TypesOfRows
<1>t. ASSUME CancelTarget
      PROVE  /\ \A r \in TeamRuns : team'[r] # "running"
             /\ \A r \in Runs : status'[r] \in Pending => status[r] \in Pending
  <2>1. \A r \in TeamRuns : team'[r] # "running"
    BY <1>t, RunParts DEF CancelTarget, TypesOfRows, Occupying
  <2> QED BY <1>t, <2>1, <1>s DEF CancelTarget, Statuses
<1>p. ASSUME NEW p, NEW state, Polling(p, state), UNCHANGED status, UNCHANGED late PROVE StopInv'
  BY <1>p, <1>0 DEF Polling, cycles, process
<1>1. ASSUME NEW h \in Hooks, Arrive(h) PROVE StopInv'
  BY <1>1, <1>0 DEF Arrive, runs, cycles, consumer, ghosts, process
<1>2. ASSUME NEW h \in Hooks, DeleteHook(h) PROVE StopInv'
  <2>1. \A r \in Runs : status'[r] \in Pending => status[r] \in Pending
    BY <1>2 DEF DeleteHook, Pending
  <2> QED BY <1>2, <2>1, <1>0 DEF DeleteHook, cycles, consumer, ghosts, process
<1>3. ASSUME NEW p \in Pollers, NEW due \in SUBSET Hooks, Begin(p, due) PROVE StopInv'
  BY <1>3, <1>p DEF Begin, runs, ghosts
<1>4. ASSUME NEW p \in Pollers, NEW h \in Hooks, PollReads(p, h) PROVE StopInv'
  BY <1>4, <1>p DEF PollReads, runs, ghosts
<1>5. ASSUME NEW p \in Pollers, NEW h \in Hooks, PollFails(p, h) PROVE StopInv'
  BY <1>5, <1>p DEF PollFails, runs, ghosts
<1>6. ASSUME NEW p \in Pollers, PollAborts(p) PROVE StopInv'
  BY <1>6, <1>p DEF PollAborts, runs
<1>7. ASSUME NEW p \in Pollers, PollRecords(p) PROVE StopInv'
  <2> DEFINE r == <<polls[p].hook, polls[p].next>>
  <2>1. UNCHANGED <<cycles, worker, intake, server>>
    BY <1>7 DEF PollRecords, Polling, process
  <2>2. CASE IsNew(r)
    <3>1. SetStatus({r}, "queued") /\ late' = IF gate = "open" THEN late ELSE late \cup {r}
      BY <1>7, <2>2 DEF PollRecords
    <3>2. \A s \in Runs : status'[s] \in Pending => status[s] \in Pending \/ s = r
      BY <3>1, WrittenStatus DEF Statuses
    <3>3. gate = "closed" => NoneComes /\ late \subseteq late'
      BY <3>1, <3>2
    <3> QED BY <2>1, <3>3, <1>0 DEF cycles
  <2>3. CASE ~IsNew(r)
    <3>1. UNCHANGED <<status, late>>
      BY <1>7, <2>3 DEF PollRecords
    <3> QED BY <2>1, <3>1, <1>0 DEF cycles
  <2> QED BY <2>2, <2>3
<1>8. ASSUME NEW p \in Pollers, PollEnds(p) PROVE StopInv'
  BY <1>8, <1>p DEF PollEnds, runs, ghosts
<1>9. ASSUME NEW p \in Pollers, PollEnqueues(p) PROVE StopInv'
  BY <1>9, <1>p DEF PollEnqueues, runs, ghosts
<1>10. CASE SkipRun
  BY <1>10, <1>0 DEF SkipRun, Dequeue, runs, cycles, ghosts, process
<1>11. CASE BeginTurn
  <2>1. PICK r \in Runs : r = Head(queue)
    BY <1>11, SectionParts DEF BeginTurn, Dequeue
  <2>2. status[r] \in Pending /\ SetStatus({r}, "running") /\ WorkerTo("turn", r)
    BY <1>11, <2>1 DEF BeginTurn
  <2>3. NoneComes
    BY <2>2, WrittenStatus DEF Statuses
  <2>4. NoneTurns
    BY <2>2 DEF WorkerTo, InState
  <2> QED BY <1>11, <2>3, <2>4, <1>0 DEF BeginTurn, Dequeue, cycles, ghosts, process
<1>12. CASE RequestCycle
  <2>1. NoneStarts
    BY <1>12, RunParts DEF RequestCycle, TypesOfRows
  <2> QED BY <1>12, <2>1, <1>0 DEF RequestCycle, runs, ghosts, process
<1>13. CASE RequestRefused
  BY <1>13, <1>s, <1>0 DEF RequestRefused, Dequeue, cycles, ghosts, process, Statuses
<1>14. ASSUME NEW to \in {"succeeded", "failed"}, TurnEnds(to) PROVE StopInv'
  BY <1>14, <1>s, <1>0 DEF TurnEnds, WorkerTo, cycles, ghosts, process, Statuses
<1>15. CASE LinkRequest
  BY <1>15, <1>0 DEF LinkRequest, cycles, consumer, ghosts, process
<1>16. CASE PrepareCycle
  <2>1. status' = status /\ (team' = team \/ Cycle(loop.run, "failed"))
    BY <1>16 DEF PrepareCycle
  <2>2. NoneStarts
    BY <2>1, <1>c
  <2> QED BY <1>16, <2>1, <2>2, <1>0 DEF PrepareCycle, consumer, ghosts, process
<1>17. CASE RejectMail
  BY <1>17, <1>s, <1>0 DEF RejectMail, cycles, consumer, ghosts, process, Statuses
<1>18. CASE FailCycle
  BY <1>18, <1>c, <1>0 DEF FailCycle, OnlyCycle, runs, consumer, ghosts, process
<1>19. CASE Observe
  <2>1. OutcomeOf[team[loop.run]] \in Statuses \ {"absent", "queued", "running"}
    BY <1>19, OutcomesAreStatuses DEF Observe, SectionFits, Observed, Statuses
  <2>2. NoneComes
    BY <1>19, <2>1, <1>s DEF Observe
  <2> QED BY <1>19, <2>2, <1>0 DEF Observe, cycles, consumer, ghosts, process
<1>20. ASSUME NEW r \in TeamRuns, ClaimCycle(r) PROVE StopInv'
  BY <1>20, <1>g DEF ClaimCycle, OnlyCycle, intake
<1>21. ASSUME NEW r \in TeamRuns, CycleGoesOn(r) PROVE StopInv'
  BY <1>21, <1>g DEF CycleGoesOn, OnlyCycle, intake
<1>22. ASSUME NEW r \in TeamRuns,
              NEW to \in {"completed", "failed", "waiting_for_user", "interrupted"}, CycleEnds(r, to)
       PROVE  StopInv'
  BY <1>22, <1>c, <1>0 DEF CycleEnds, OnlyCycle, runs, consumer, ghosts, process
<1>23. ASSUME NEW r \in TeamRuns, NEW to \in {"waiting_for_provider", "interrupted"},
              CycleStops(r, to)
       PROVE  StopInv'
  BY <1>23, <1>c, <1>0 DEF CycleStops, OnlyCycle, runs, consumer, ghosts, process
<1>24. CASE CancelRun
  BY <1>24, <1>t, <1>0 DEF CancelRun, consumer, ghosts, process
<1>25. CASE ReopenRun
  BY <1>25, <1>0 DEF ReopenRun, runs, consumer, ghosts, process
<1>26. CASE CloseIntake
  BY <1>26 DEF CloseIntake, StopTo, LoopFree, StopInv, EmergencyStopHolds, Up, process
<1>27. CASE CancelAllActive
  <2>1. /\ UNCHANGED <<gate, server>> /\ stop'.at = "canceled" /\ Up
    BY <1>27 DEF CancelAllActive, StopTo, LoopFree, process
  <2>2. \A r \in TeamRuns : team'[r] # "running"
    <3>1. CASE \E r \in TeamRuns : team[r] \in Occupying \cup {"queued"}
      BY <1>27, <3>1, <1>t DEF CancelAllActive
    <3>2. CASE ~\E r \in TeamRuns : team[r] \in Occupying \cup {"queued"}
      BY <1>27, <3>2 DEF CancelAllActive, Occupying
    <3> QED BY <3>1, <3>2
  <2> QED BY <2>1, <2>2 DEF StopInv, EmergencyStopHolds, Up
<1>28. CASE CancelWorker
  <2>1. /\ UNCHANGED <<gate, server, team, status>> /\ stop.at = "canceled"
        /\ stop'.at = "awaiting" /\ stop'.targets = InState(Pending)
    BY <1>28 DEF CancelWorker, StopTo, ActiveRuns, runs, cycles, process
  <2>2. InState(Pending)' = InState(Pending)
    BY <2>1 DEF InState
  <2> QED BY <2>1, <2>2 DEF StopInv, EmergencyStopHolds, Up
<1>29. CASE WorkerCanceled
  BY <1>29, <1>s, <1>0 DEF WorkerCanceled, Failed, WorkerTo, cycles, ghosts, process, Statuses
<1>30. CASE DrainQueue
  <2>1. /\ UNCHANGED <<gate, server, team, late>> /\ stop.at = "awaiting"
        /\ stop'.at = "answered" /\ worker'.run = NoRun
        /\ SetStatus(stop.targets \cap InState(Pending), "interrupted")
    BY <1>30 DEF DrainQueue, StopTo, WorkerTo, ActiveRuns, cycles, process
  <2>2. ASSUME gate = "closed" PROVE InState(Pending)' \subseteq late'
    <3>1. InState(Pending) \subseteq stop.targets \cup late
      BY <2>1, <2>2 DEF StopInv
    <3>2. \A r \in Runs : status'[r] \in Pending =>
            r \in InState(Pending) /\ r \notin stop.targets
      BY <2>1, WrittenStatus DEF Statuses, InState, Pending
    <3> QED BY <2>1, <3>1, <3>2 DEF InState
  <2> QED BY <2>1, <2>2 DEF StopInv, EmergencyStopHolds, Up
<1>31. CASE ResumeIntake
  BY <1>31, <1>g DEF ResumeIntake
<1>32. CASE Crash
  BY <1>32, <1>g DEF Crash, Gone
<1>33. CASE Shutdown
  BY <1>33, <1>g DEF Shutdown, Gone
\* a process that is starting has an open gate
<1>d. ASSUME NEW from \in {"down", "cycles", "runs", "linked"}, NEW to, Starting(from, to)
      PROVE  StopInv'
  BY <1>d, <1>g DEF Starting, StopInv, Up, intake
<1>34. CASE StartCycles
  BY <1>34, <1>d DEF StartCycles
<1>35. CASE RecoverRuns
  BY <1>35, <1>d DEF RecoverRuns
<1>36. CASE ReconcileLinked
  BY <1>36, <1>d DEF ReconcileLinked
<1>37. CASE StartWorker
  BY <1>37, <1>d DEF StartWorker
<1>38. CASE UNCHANGED vars
  BY <1>38, <1>0 DEF vars, runs, cycles, consumer, ghosts, process
<1> QED BY <1>1, <1>2, <1>3, <1>4, <1>5, <1>6, <1>7, <1>8, <1>9, <1>10, <1>11, <1>12, <1>13,
            <1>14, <1>15, <1>16, <1>17, <1>18, <1>19, <1>20, <1>21, <1>22, <1>23, <1>24, <1>25,
            <1>26, <1>27, <1>28, <1>29, <1>30, <1>31, <1>32, <1>33, <1>34, <1>35, <1>36, <1>37,
            <1>38
            DEF Next, Sources, Polls, PollStep, TakesUp, Turns, Sections, Cycles, EmergencyStop,
                StartUp, Tick, RunNow, DueHooks, Pollers

(* Once an emergency stop has answered, and until the intake opens again,    *)
(* nothing of a hook goes on but what a poll in flight recorded too late.    *)
THEOREM StoppedHooksStay == Spec => []EmergencyStopHolds
<1>1. Init => StopInv
  BY DEF Init, StopInv, EmergencyStopHolds
<1>2. StopInv => EmergencyStopHolds
  BY DEF StopInv
<1> QED BY HookTypes, <1>1, <1>2, StopStep, PTL DEF Spec

-----------------------------------------------------------------------------
(* Outcomes.  Between the transactions of a section a rejected mail has      *)
(* failed its run before its cycle, a start-up has not reconciled the two    *)
(* yet, and a run whose cycle runs is known to have one.                     *)

OutcomeFits(r) ==
  /\ status[r] = "succeeded" => team[r] = "completed"
  /\ status[r] = "canceled" => team[r] \notin Occupying \cup {"queued"}
  /\ status[r] = "failed" => team[r] # "queued"
  /\ status[r] = "failed" /\ server \in {"linked", "up"} =>
       team[r] \notin Occupying \/ loop = Section("fail", r)
  /\ status[r] = "running" => "cycle" \in links[r]

OutcomeInv == \A r \in TeamRuns : OutcomeFits(r)

LEMMA OutcomeStep == TypeOK /\ OutcomeInv /\ [Next]_vars => OutcomeInv'
<1> SUFFICES ASSUME TypeOK, OutcomeInv, [Next]_vars PROVE OutcomeInv'
  OBVIOUS
<1> USE DEF TypeOK
<1> DEFINE StaysHeld == loop.at = "fail" => loop' = loop
<1>h. LoopFree => loop.at # "fail" /\ Up
  BY SectionParts DEF LoopFree
<1>r. \A r \in TeamRuns : r \in Runs /\ r \notin AgentRuns /\ r # NoRun
  BY RunParts DEF AgentRuns
<1>f. \A r : loop = Section("fail", r) => loop.at = "fail"
  BY DEF Section
\* a run keeps its outcome as long as it, its cycle and its links stay
<1>0. ASSUME NEW r \in TeamRuns, status'[r] = status[r], team'[r] = team[r], server' = server,
             status[r] = "running" => links[r] \subseteq links'[r], StaysHeld
      PROVE  OutcomeFits(r)'
  BY <1>0, <1>f DEF OutcomeInv, OutcomeFits
<1>u. ASSUME UNCHANGED <<status, team, links, server>>, StaysHeld PROVE OutcomeInv'
  BY <1>u, <1>0 DEF OutcomeInv
\* writes of an outcome that says nothing of a cycle, or of an agent's run
<1>s. ASSUME NEW set, NEW to \in Statuses \ {"absent"}, SetStatus(set, to),
             \A r \in TeamRuns : r \in set =>
               to \in {"queued", "interrupted", "waiting_for_user", "deleted"},
             UNCHANGED <<team, links, server>>, StaysHeld
      PROVE  OutcomeInv'
  <2>1. \A r \in TeamRuns : status'[r] = status[r] \/ (r \in set /\ status'[r] = to)
    BY <1>s, <1>r, WrittenStatus
  <2>2. \A r \in TeamRuns : r \in set /\ status'[r] = to => OutcomeFits(r)'
    BY <1>s DEF OutcomeFits
  <2> QED BY <1>s, <2>1, <2>2, <1>0 DEF OutcomeInv
\* steps of a cycle
<1>c. ASSUME NEW r \in TeamRuns, NEW to, Cycle(r, to), UNCHANGED <<status, links, server>>, StaysHeld,
             status[r] \notin {"succeeded", "canceled", "failed"}
      PROVE  OutcomeInv'
  <2>1. \A s \in TeamRuns : s # r => team'[s] = team[s]
    BY <1>c, <1>r DEF Cycle, TypesOfRows
  <2>2. OutcomeFits(r)'
    BY <1>c DEF OutcomeInv, OutcomeFits
  <2> QED BY <1>c, <2>1, <2>2, <1>0 DEF OutcomeInv
<1>t. ASSUME CancelTarget, UNCHANGED <<links, server>> PROVE OutcomeInv'
  <2>1. \A r \in TeamRuns : /\ team'[r] \notin Occupying \cup {"queued"}
                            /\ team[r] = "completed" => team'[r] = "completed"
    BY <1>t, <1>r DEF CancelTarget, TypesOfRows, Occupying
  <2>2. \A r \in TeamRuns : status'[r] = status[r] \/ status'[r] = "canceled"
    BY <1>t, <1>r, WrittenStatus DEF CancelTarget, Statuses
  <2> QED BY <1>t, <2>1, <2>2 DEF OutcomeInv, OutcomeFits
<1>p. ASSUME NEW p, NEW state, Polling(p, state), UNCHANGED <<status, links>> PROVE OutcomeInv'
  BY <1>p, <1>u DEF Polling, cycles, process
<1>o. OnlyCycle => UNCHANGED <<status, links, server>>
  BY DEF OnlyCycle, runs, process
<1>1. ASSUME NEW h \in Hooks, Arrive(h) PROVE OutcomeInv'
  BY <1>1, <1>u DEF Arrive, runs, cycles, process
<1>2. ASSUME NEW h \in Hooks, DeleteHook(h) PROVE OutcomeInv'
  <2>1. \A r \in TeamRuns : r[1] = h => OutcomeFits(r)'
    BY <1>2, <1>r DEF DeleteHook, OutcomeFits
  <2>2. \A r \in TeamRuns : r[1] # h => status'[r] = status[r] /\ links'[r] = links[r]
    BY <1>2, <1>r DEF DeleteHook
  <2> QED BY <1>2, <2>1, <2>2, <1>0 DEF DeleteHook, OutcomeInv, cycles, process
<1>3. ASSUME NEW p \in Pollers, NEW due \in SUBSET Hooks, Begin(p, due) PROVE OutcomeInv'
  BY <1>3, <1>p DEF Begin, runs
<1>4. ASSUME NEW p \in Pollers, NEW h \in Hooks, PollReads(p, h) PROVE OutcomeInv'
  BY <1>4, <1>p DEF PollReads, runs
<1>5. ASSUME NEW p \in Pollers, NEW h \in Hooks, PollFails(p, h) PROVE OutcomeInv'
  BY <1>5, <1>p DEF PollFails, runs
<1>6. ASSUME NEW p \in Pollers, PollAborts(p) PROVE OutcomeInv'
  BY <1>6, <1>p DEF PollAborts, runs
<1>7. ASSUME NEW p \in Pollers, PollRecords(p) PROVE OutcomeInv'
  <2> DEFINE r == <<polls[p].hook, polls[p].next>>
  <2>1. UNCHANGED <<team, links, server, loop>>
    BY <1>7 DEF PollRecords, Polling, cycles, process
  <2>2. SetStatus({r}, "queued") \/ UNCHANGED status
    BY <1>7 DEF PollRecords
  <2> QED BY <2>1, <2>2, <1>s, <1>u DEF Statuses
<1>8. ASSUME NEW p \in Pollers, PollEnds(p) PROVE OutcomeInv'
  BY <1>8, <1>p DEF PollEnds, runs
<1>9. ASSUME NEW p \in Pollers, PollEnqueues(p) PROVE OutcomeInv'
  BY <1>9, <1>p DEF PollEnqueues, runs
<1>10. CASE SkipRun
  BY <1>10, <1>u DEF SkipRun, Dequeue, runs, cycles, process
<1>11. CASE BeginTurn
  <2>1. PICK r \in AgentRuns : r = Head(queue)
    BY <1>11, SectionParts DEF BeginTurn, Dequeue
  <2>2. SetStatus({r}, "running")
    BY <1>11, <2>1 DEF BeginTurn
  <2> QED BY <1>11, <2>2, <1>r, <1>s DEF BeginTurn, Dequeue, cycles, process, Statuses
<1>12. CASE RequestCycle
  <2>1. PICK r \in TeamRuns : r = Head(queue)
    BY <1>12, SectionParts DEF RequestCycle
  <2>2. /\ status[r] \in Pending /\ UNCHANGED <<status, links, server>> /\ loop.at # "fail"
        /\ team' = [team EXCEPT ![r] = IF @ = "none" THEN "queued" ELSE @]
    BY <1>12, <2>1, <1>h DEF RequestCycle, WorkerRuns, runs, process
  <2>3. Cycle(r, IF team[r] = "none" THEN "queued" ELSE team[r])
    BY <2>2 DEF Cycle
  <2> QED BY <2>2, <2>3, <1>c DEF Pending
<1>13. CASE RequestRefused
  BY <1>13, <1>s DEF RequestRefused, Dequeue, cycles, process, Statuses
<1>14. ASSUME NEW to \in {"succeeded", "failed"}, TurnEnds(to) PROVE OutcomeInv'
  <2>1. \A r \in TeamRuns : r \notin {worker.run}
    BY <1>14, <1>r, SectionParts DEF TurnEnds
  <2> QED BY <1>14, <2>1, <1>s DEF TurnEnds, cycles, process, Statuses
<1>15. CASE LinkRequest
  <2>1. \A r \in TeamRuns : links[r] \subseteq links'[r]
    BY <1>15, <1>r, SectionParts, LinkedRows DEF LinkRequest
  <2> QED BY <1>15, <2>1, <1>0 DEF LinkRequest, OutcomeInv, cycles, process
<1>16. CASE PrepareCycle
  <2>1. /\ UNCHANGED <<status, server>> /\ loop.at = "prepare" /\ loop.run \in TeamRuns
        /\ team' = team \/ (status[loop.run] = "deleted" /\ Cycle(loop.run, "failed"))
    BY <1>16, SectionParts DEF PrepareCycle, process
  <2>2. \A r \in TeamRuns : links[r] \subseteq links'[r]
    BY <1>16, <2>1, <1>r, LinkedRows DEF PrepareCycle
  <2>3. \A r \in TeamRuns : team'[r] = team[r] \/ status[r] = "deleted"
    BY <2>1, <1>r DEF Cycle, TypesOfRows
  <2>4. \A r \in TeamRuns : status[r] = "deleted" => OutcomeFits(r)'
    BY <2>1 DEF OutcomeFits
  <2> QED BY <2>1, <2>2, <2>3, <2>4, <1>0 DEF OutcomeInv
<1>17. CASE RejectMail
  <2>1. PICK r \in TeamRuns : r = loop.run
    BY <1>17, SectionParts DEF RejectMail
  <2>2. /\ SetStatus({r}, "failed") /\ loop' = Section("fail", r) /\ team[r] = "running"
        /\ UNCHANGED <<team, links, server>> /\ loop.at = "reject"
    BY <1>17, <2>1 DEF RejectMail, SectionFits, cycles, process
  <2>3. \A s \in TeamRuns : s # r => status'[s] = status[s]
    BY <2>2, <1>r, WrittenStatus DEF Statuses
  <2>4. status'[r] \in {"failed", "deleted"}
    BY <2>2, <1>r, WrittenStatus DEF Statuses
  <2>5. OutcomeFits(r)'
    BY <2>2, <2>4 DEF OutcomeFits
  <2> QED BY <2>2, <2>3, <2>5, <1>0 DEF OutcomeInv
<1>18. CASE FailCycle
  <2>1. PICK r \in TeamRuns : r = loop.run
    BY <1>18, SectionParts DEF FailCycle
  <2>2. /\ team[r] = "running" /\ team'[r] = "failed" /\ UNCHANGED <<status, links, server>>
        /\ \A s \in TeamRuns : s # r => team'[s] = team[s]
    BY <1>18, <2>1, <1>o, <1>r DEF FailCycle, Cycle, SectionFits, TypesOfRows
  <2>3. OutcomeFits(r)'
    BY <2>2 DEF OutcomeInv, OutcomeFits, Occupying
  <2>4. \A s \in TeamRuns : s # r => loop # Section("fail", s)
    BY <2>1 DEF Section
  <2>5. \A s \in TeamRuns : s # r => OutcomeFits(s)'
    BY <2>2, <2>4 DEF OutcomeInv, OutcomeFits
  <2> QED BY <2>3, <2>5 DEF OutcomeInv
<1>19. CASE Observe
  <2>1. PICK r \in TeamRuns : r = loop.run
    BY <1>19, SectionParts DEF Observe
  <2>2. /\ team[r] \in {"completed", "failed", "waiting_for_user", "interrupted"}
        /\ UNCHANGED <<team, links, server>> /\ loop.at = "observe"
        /\ SetStatus({r}, OutcomeOf[team[r]]) \/ UNCHANGED status
    BY <1>19, <2>1 DEF Observe, SectionFits, cycles, process
  <2>3. /\ OutcomeOf[team[r]] \in {"succeeded", "failed", "waiting_for_user", "interrupted"}
        /\ OutcomeOf[team[r]] = "succeeded" => team[r] = "completed"
        /\ OutcomeOf[team[r]] = "failed" => team[r] = "failed"
    BY <2>2, OutcomesAreStatuses DEF Observed
  <2>4. CASE UNCHANGED status
    BY <2>2, <2>4, <1>u
  <2>5. CASE SetStatus({r}, OutcomeOf[team[r]])
    <3>1. /\ \A s \in TeamRuns : s # r => status'[s] = status[s]
          /\ status'[r] \in {OutcomeOf[team[r]], "deleted"}
      BY <2>3, <2>5, <1>r, WrittenStatus DEF Statuses
    <3>2. OutcomeFits(r)'
      BY <2>2, <2>3, <3>1 DEF OutcomeFits, Occupying
    <3> QED BY <2>2, <3>1, <3>2, <1>0 DEF OutcomeInv
  <2> QED BY <2>2, <2>4, <2>5
<1>20. ASSUME NEW r \in TeamRuns, ClaimCycle(r) PROVE OutcomeInv'
  <2>1. team[r] = "queued" /\ LoopFree /\ OnlyCycle /\ \E to : Cycle(r, to)
    BY <1>20 DEF ClaimCycle
  <2>2. status[r] \notin {"succeeded", "canceled", "failed"}
    BY <2>1 DEF OutcomeInv, OutcomeFits
  <2> QED BY <2>1, <2>2, <1>c, <1>h, <1>o
<1>m. \A r \in TeamRuns : LoopFree /\ team[r] \in Occupying =>
        status[r] \notin {"succeeded", "canceled", "failed"}
  BY <1>h, <1>f DEF OutcomeInv, OutcomeFits, Occupying, Up
<1>21. ASSUME NEW r \in TeamRuns, CycleGoesOn(r) PROVE OutcomeInv'
  BY <1>21, <1>m, <1>c, <1>h, <1>o DEF CycleGoesOn, Occupying
<1>22. ASSUME NEW r \in TeamRuns,
              NEW to \in {"completed", "failed", "waiting_for_user", "interrupted"}, CycleEnds(r, to)
       PROVE  OutcomeInv'
  BY <1>22, <1>m, <1>c, <1>h, <1>o DEF CycleEnds, Occupying
<1>23. ASSUME NEW r \in TeamRuns, NEW to \in {"waiting_for_provider", "interrupted"},
              CycleStops(r, to)
       PROVE  OutcomeInv'
  BY <1>23, <1>m, <1>c, <1>h, <1>o DEF CycleStops, Occupying
<1>24. CASE CancelRun
  BY <1>24, <1>t DEF CancelRun, process
<1>25. CASE ReopenRun
  BY <1>25, <1>u DEF ReopenRun, runs, process
<1>26. CASE CloseIntake
  BY <1>26, <1>u DEF CloseIntake, runs, cycles, process
<1>27. CASE CancelAllActive
  BY <1>27, <1>t, <1>u DEF CancelAllActive, process
<1>28. CASE CancelWorker
  BY <1>28, <1>u DEF CancelWorker, runs, cycles, process
<1>w. \A set, r : r \in TeamRuns => r \notin {worker.run} \cap set
  BY <1>r, SectionParts
<1>29. CASE WorkerCanceled
  <2>1. SetStatus({worker.run} \cap ActiveRuns, "failed")
    BY <1>29 DEF WorkerCanceled, Failed
  <2> QED BY <1>29, <2>1, <1>w, <1>s DEF WorkerCanceled, cycles, process, Statuses
<1>30. CASE DrainQueue
  BY <1>30, <1>s DEF DrainQueue, cycles, process, Statuses
<1>31. CASE ResumeIntake
  BY <1>31, <1>u DEF ResumeIntake, runs, cycles, process
\* the process is gone: what has failed may have a cycle that goes on later
<1>g. ASSUME Gone, \A r \in TeamRuns : status'[r] = status[r] PROVE OutcomeInv'
  BY <1>g DEF Gone, OutcomeInv, OutcomeFits, cycles
<1>32. CASE Crash
  BY <1>32, <1>g DEF Crash
<1>33. CASE Shutdown
  <2>1. SetStatus({worker.run} \cap ActiveRuns, "failed") /\ Gone
    BY <1>33 DEF Shutdown, Failed
  <2> QED BY <2>1, <1>w, <1>r, <1>g, WrittenStatus DEF Statuses
<1>34. CASE StartCycles
  <2>1. server' = "cycles" /\ UNCHANGED <<status, links>>
    BY <1>34 DEF StartCycles, Starting
  <2>2. \A r \in TeamRuns : team'[r] = team[r] \/ (team[r] = "running" /\ team'[r] = "interrupted")
    BY <1>34, <1>r DEF StartCycles
  <2> QED BY <2>1, <2>2 DEF OutcomeInv, OutcomeFits, Occupying
<1>35. CASE RecoverRuns
  <2>1. server' = "runs" /\ UNCHANGED <<team, links>>
    BY <1>35 DEF RecoverRuns, Starting
  <2>2. \A r \in TeamRuns :
        (status'[r] = status[r] /\ status[r] # "running") \/ status'[r] = "interrupted"
    BY <1>35, <1>r DEF RecoverRuns, Recovered, OutcomeInv, OutcomeFits
  <2> QED BY <2>1, <2>2 DEF OutcomeInv, OutcomeFits
<1>36. CASE ReconcileLinked
  <2>1. server = "runs"
    BY <1>36 DEF ReconcileLinked, Starting
  <2>2. ASSUME NEW r \in TeamRuns PROVE OutcomeFits(r)'
    <3>s. status'[r] = Reconciled(r)
      BY <1>36, <1>r DEF ReconcileLinked
    <3>t. /\ r \in Paired /\ Diverged(r) => team'[r] = "interrupted"
          /\ ~(r \in Paired /\ Diverged(r)) => team'[r] = team[r]
      BY <1>36, <1>r DEF ReconcileLinked
    <3>l. /\ r \in Paired => links'[r] = {"request", "cycle"}
          /\ r \notin Paired => links'[r] = links[r]
      BY <1>36, <1>r DEF ReconcileLinked
    <3>1. CASE r \notin Paired
      <4>1. status'[r] = status[r] /\ team'[r] = team[r] /\ links'[r] = links[r]
        BY <3>s, <3>t, <3>l, <3>1, ReconciledIs
      <4>2. status[r] = "failed" => team[r] \notin Occupying
        BY <3>1 DEF Paired
      <4> QED BY <4>1, <4>2 DEF OutcomeInv, OutcomeFits
    <3>2. CASE r \in Paired /\ CycleDecides(r)
      <4>1. team[r] \in Observed /\ ~Diverged(r)
        BY <3>2, OutcomesAreStatuses DEF CycleDecides, Diverged, Observed
      <4>2. /\ status'[r] = IF team[r] = "completed" THEN "succeeded" ELSE team[r]
            /\ team'[r] = team[r] /\ links'[r] = {"request", "cycle"}
        BY <3>s, <3>t, <3>l, <3>2, <4>1, ReconciledIs, OutcomesAreStatuses
      <4> QED BY <4>1, <4>2 DEF OutcomeFits, Observed, Occupying
    <3>3. CASE r \in Paired /\ ~CycleDecides(r) /\ Diverged(r)
      <4>1. status'[r] = "interrupted"
        BY <3>s, <3>3, ReconciledIs
      <4> QED BY <4>1 DEF OutcomeFits
    <3>4. CASE r \in Paired /\ ~CycleDecides(r) /\ ~Diverged(r)
      <4>1. team[r] \in {"running", "waiting_for_provider"}
        BY <3>4, OutcomesAreStatuses DEF Paired, CycleDecides, Observed, Occupying, Finished
      <4>2. status[r] \notin {"failed", "succeeded", "canceled"}
        BY <3>4, <4>1 DEF Diverged, OutcomeInv, OutcomeFits, Occupying
      <4>3. status'[r] \in {"running", status[r]} /\ links'[r] = {"request", "cycle"}
        BY <3>s, <3>l, <3>4, ReconciledIs
      <4> QED BY <4>2, <4>3 DEF OutcomeFits
    <3> QED BY <3>1, <3>2, <3>3, <3>4
  <2> QED BY <2>2 DEF OutcomeInv
<1>37. CASE StartWorker
  BY <1>37 DEF StartWorker, Starting, OutcomeInv, OutcomeFits
<1>38. CASE UNCHANGED vars
  BY <1>38, <1>u DEF vars, runs, cycles, process
<1> QED BY <1>1, <1>2, <1>3, <1>4, <1>5, <1>6, <1>7, <1>8, <1>9, <1>10, <1>11, <1>12, <1>13,
            <1>14, <1>15, <1>16, <1>17, <1>18, <1>19, <1>20, <1>21, <1>22, <1>23, <1>24, <1>25,
            <1>26, <1>27, <1>28, <1>29, <1>30, <1>31, <1>32, <1>33, <1>34, <1>35, <1>36, <1>37,
            <1>38
            DEF Next, Sources, Polls, PollStep, TakesUp, Turns, Sections, Cycles, EmergencyStop,
                StartUp, Tick, RunNow, DueHooks, Pollers

(* A team hook's run has succeeded only if its cycle completed, and no cycle *)
(* of a failed or canceled run goes on, whoever wrote the outcome.           *)
THEOREM OutcomesStayTrue == Spec => []OutcomeIsTrue
<1>1. Init => OutcomeInv
  BY RunParts DEF Init, OutcomeInv, OutcomeFits
<1>2. TypeOK /\ OutcomeInv => OutcomeIsTrue
  <2>1. \A r : Free # Section("fail", r)
    BY DEF Free, Section
  <2> QED BY <2>1 DEF OutcomeIsTrue, OutcomeInv, OutcomeFits, LoopFree, Up
<1> QED BY HookTypes, <1>1, <1>2, OutcomeStep, PTL DEF Spec

-----------------------------------------------------------------------------
(* Events.  A poll that records has recorded all that lies before the event  *)
(* it is at; an agent's run that was never begun has had no turn, and one    *)
(* that runs is the worker's; the worker lives as long as its process.       *)

RecordedBehind ==
  \A p \in Pollers, n \in 1..MaxEvents :
    polls[p].at = "record" /\ n < polls[p].next => status[<<polls[p].hook, n>>] # "absent"

FirstTurn ==
  \A r \in AgentRuns :
    /\ status[r] \in {"absent", "queued"} => turns[r] = 0
    /\ status[r] = "running" /\ server \in {"runs", "linked", "up"} => worker.run = r

WorkerLives == ~Up => worker.at = "off"

CursorInv == RecordedBehind /\ CursorIsBehind
TurnInv == FirstTurn /\ WorkerLives /\ HandledOnce
EventInv == CursorInv /\ QueuedIsEnqueued /\ TurnInv

LEMMA ElementOf ==
  ASSUME NEW S, NEW seq \in Seq(S), NEW i \in 1..Len(seq)
  PROVE  seq[i] \in ToSet(seq)
BY DEF ToSet

LEMMA SetOfChanged ==
  ASSUME NEW S, NEW seq \in Seq(S), NEW more \in Seq(S), NEW x \in S
  PROVE  /\ ToSet(seq \o more) = ToSet(seq) \cup ToSet(more)
         /\ ToSet(Append(seq, x)) = ToSet(seq) \cup {x}
         /\ seq # <<>> => ToSet(seq) = {Head(seq)} \cup ToSet(Tail(seq))
<1>1. ToSet(Append(seq, x)) = ToSet(seq) \cup {x}
  BY DEF ToSet
<1>2. ASSUME seq # <<>> PROVE ToSet(seq) = {Head(seq)} \cup ToSet(Tail(seq))
  <2>1. /\ Len(seq) \in Nat \ {0} /\ Tail(seq) \in Seq(S) /\ Len(Tail(seq)) = Len(seq) - 1
        /\ Head(seq) = seq[1] /\ \A i \in 1..Len(Tail(seq)) : Tail(seq)[i] = seq[i + 1]
    BY <1>2, HeadTailProperties
  <2>2. \A i \in 1..Len(seq) : seq[i] = Head(seq) \/ i - 1 \in 1..Len(Tail(seq))
    BY <2>1
  <2>3. ASSUME NEW i \in 1..Len(seq) PROVE seq[i] \in {Head(seq)} \cup ToSet(Tail(seq))
    <3>1. CASE i = 1
      BY <2>1, <3>1
    <3>2. CASE i # 1
      <4>1. i - 1 \in 1..Len(Tail(seq)) /\ Tail(seq)[i - 1] = seq[i]
        BY <2>1, <3>2
      <4>2. Tail(seq)[i - 1] \in ToSet(Tail(seq))
        BY <2>1, <4>1, ElementOf
      <4> QED BY <4>1, <4>2
    <3> QED BY <3>1, <3>2
  <2>4. ASSUME NEW i \in 1..Len(Tail(seq)) PROVE Tail(seq)[i] \in ToSet(seq)
    BY <2>1 DEF ToSet
  <2>5. Head(seq) \in ToSet(seq)
    BY <2>1 DEF ToSet
  <2>6. ToSet(seq) \subseteq {Head(seq)} \cup ToSet(Tail(seq))
    BY <2>3 DEF ToSet
  <2>7. ToSet(Tail(seq)) \subseteq ToSet(seq)
    BY <2>1, <2>4 DEF ToSet
  <2> QED BY <2>5, <2>6, <2>7
<1>3. ToSet(seq \o more) = ToSet(seq) \cup ToSet(more)
  <2>1. ToSet(seq) = Range(seq) /\ ToSet(more) = Range(more) /\ ToSet(seq \o more) = Range(seq \o more)
    BY DEF ToSet, Range
  <2> QED BY <2>1, RangeConcatenation
<1> QED BY <1>1, <1>2, <1>3

LEMMA HandsAre ==
  /\ \A r : r \in InHand <=> \/ r \in ToSet(queue) \cup stray
                             \/ \E p \in Pollers : r \in ToSet(polls[p].made)
  /\ \A r : r \in InHand' <=> \/ r \in ToSet(queue') \cup stray'
                              \/ \E p \in Pollers : r \in ToSet(polls'[p].made)
BY DEF InHand, Pollers

LEMMA EventStep == TypeOK /\ EventInv /\ [Next]_vars => EventInv'
<1> SUFFICES ASSUME TypeOK, EventInv, [Next]_vars PROVE EventInv'
  OBVIOUS
<1> USE DEF TypeOK
\* what most steps do: no run is recorded, waits again or begins; a request stays
<1> DEFINE NoneAbsent == \A r \in Runs : status'[r] = "absent" => status[r] = "absent"
           NoneQueued == \A r \in Runs : status'[r] = "queued" => status[r] = "queued"
           NoneBegins == \A r \in AgentRuns : status'[r] = "running" => status[r] = "running"
           CyclesStay == \A r \in Runs : team[r] # "none" => team'[r] # "none"
           HandsKeep == \A r \in InHand : status'[r] = "queued" => r \in InHand'
<1>a. AgentRuns \subseteq Runs /\ TeamRuns \subseteq Runs /\ AgentRuns \cap TeamRuns = {}
  BY RunParts
<1>b. \A p \in Pollers, n \in 1..MaxEvents : polls[p].at = "record" => <<polls[p].hook, n>> \in Runs
  BY PollParts, RunParts DEF TypesInMemory
\* events: the cursor stays, and a poll goes on recording or not at all
<1>c. ASSUME UNCHANGED cursor, NoneAbsent,
             \A p \in Pollers : polls'[p].at = "record" => polls'[p] = polls[p]
      PROVE  CursorInv'
  <2>1. CursorIsBehind'
    BY <1>c DEF EventInv, CursorInv, CursorIsBehind
  <2>2. RecordedBehind'
    BY <1>c, <1>b DEF EventInv, CursorInv, RecordedBehind
  <2> QED BY <2>1, <2>2 DEF CursorInv
<1>q. ASSUME Up' => Up, NoneQueued, CyclesStay, HandsKeep PROVE QueuedIsEnqueued'
  <2>1. ASSUME Up', NEW r \in Runs, status'[r] = "queued" PROVE team'[r] # "none" \/ r \in InHand'
    <3>1. team[r] # "none" \/ r \in InHand
      BY <1>q, <2>1 DEF EventInv, QueuedIsEnqueued, InState
    <3> QED BY <1>q, <2>1, <3>1
  <2> QED BY <2>1 DEF QueuedIsEnqueued, InState
<1>h. ASSUME ToSet(queue) \cup stray \subseteq ToSet(queue') \cup stray',
             \A p \in Pollers : polls'[p].made = polls[p].made
      PROVE  HandsKeep
  BY <1>h, HandsAre
<1>t. ASSUME NoneAbsent, NoneQueued, NoneBegins, UNCHANGED <<turns, worker, server>> PROVE TurnInv'
  <2>1. FirstTurn'
    BY <1>t, <1>a DEF EventInv, TurnInv, FirstTurn, TypesOfRows, Statuses
  <2> QED BY <1>t, <2>1 DEF EventInv, TurnInv, WorkerLives, HandledOnce, Up
<1>0. ASSUME NoneAbsent, NoneQueued, NoneBegins, CyclesStay,
             UNCHANGED <<cursor, turns, polls, consumer, stray, server>>
      PROVE  EventInv'
  BY <1>0, <1>c, <1>q, <1>h, <1>t DEF EventInv, consumer, Up
<1>u. ASSUME UNCHANGED status PROVE NoneAbsent /\ NoneQueued /\ NoneBegins
  BY <1>u
<1>v. ASSUME UNCHANGED team PROVE CyclesStay
  BY <1>v
<1>s. ASSUME NEW set, NEW to \in Statuses \ {"absent", "queued", "running"}, SetStatus(set, to)
      PROVE  NoneAbsent /\ NoneQueued /\ NoneBegins
  BY <1>s, <1>a, WrittenStatus
<1>y. ASSUME NEW r, NEW to, to # "none", Cycle(r, to) PROVE CyclesStay
  BY <1>y DEF Cycle, TypesOfRows
<1>x. ASSUME CancelTarget PROVE NoneAbsent /\ NoneQueued /\ NoneBegins /\ CyclesStay
  <2>1. CyclesStay
    BY <1>x DEF CancelTarget, TypesOfRows
  <2> QED BY <1>x, <2>1, <1>s DEF CancelTarget, Statuses
\* of a poll, and of the worker that takes a run up
<1>p. ASSUME NEW p \in Pollers, NEW state, Polling(p, state)
      PROVE  /\ polls'[p] = state /\ \A other \in Pollers \ {p} : polls'[other] = polls[other]
             /\ UNCHANGED <<team, worker, server>> /\ (Up' => Up)
  BY <1>p DEF Polling, TypesInMemory, cycles, process, Up
<1>w. ASSUME queue # <<>> PROVE ToSet(queue) = {Head(queue)} \cup ToSet(Tail(queue))
  BY <1>w, SetOfChanged, SectionParts DEF TypesInMemory
<1>d. ASSUME Dequeue, status'[Head(queue)] # "queued" PROVE HandsKeep
  <2>1. queue # <<>> /\ queue' = Tail(queue) /\ UNCHANGED <<stray, polls>>
    BY <1>d DEF Dequeue, ghosts
  <2>2. ToSet(queue) = {Head(queue)} \cup ToSet(queue')
    BY <2>1, <1>w
  <2> QED BY <1>d, <2>1, <2>2, HandsAre
<1>1. ASSUME NEW h \in Hooks, Arrive(h) PROVE EventInv'
  BY <1>1, <1>0 DEF Arrive, runs, cycles, ghosts, process
<1>2. ASSUME NEW h \in Hooks, DeleteHook(h) PROVE EventInv'
  <2>1. \A r \in Runs : status'[r] \in {status[r], "deleted"}
    BY <1>2 DEF DeleteHook
  <2> QED BY <1>2, <2>1, <1>a, <1>0 DEF DeleteHook, cycles, ghosts, process
<1>3. ASSUME NEW p \in Pollers, NEW due \in SUBSET Hooks, Begin(p, due) PROVE EventInv'
  <2>1. polls[p] = NoPoll /\ UNCHANGED <<cursor, status, turns, queue, stray>>
    BY <1>3 DEF Begin, sources, runs, ghosts
  <2>2. polls'[p].at = "next" /\ polls'[p].made = polls[p].made
    <3>1. polls'[p] = [NoPoll EXCEPT !.at = "next", !.todo = due]
      BY <1>3, <1>p DEF Begin
    <3> QED BY <2>1, <3>1 DEF NoPoll
  <2>3. UNCHANGED <<team, worker, server>> /\ \A o \in Pollers \ {p} : polls'[o] = polls[o]
    BY <1>3, <1>p DEF Begin
  <2> QED BY <2>1, <2>2, <2>3, <1>c, <1>q, <1>h, <1>t DEF EventInv, Up
<1>4. ASSUME NEW p \in Pollers, NEW h \in Hooks, PollReads(p, h) PROVE EventInv'
  <2>1. UNCHANGED <<cursor, status, turns, queue, stray>>
    BY <1>4 DEF PollReads, sources, runs, ghosts
  <2>2. /\ polls'[p].at = "record" /\ polls'[p].hook = h /\ polls'[p].next = cursor[h] + 1
        /\ polls'[p].made = polls[p].made
        /\ \A o \in Pollers \ {p} : polls'[o] = polls[o]
        /\ UNCHANGED <<team, worker, server>>
    <3>1. Polling(p, [polls[p] EXCEPT !.at = "record", !.todo = @ \ {h}, !.hook = h,
                                      !.next = Found(h).next, !.upto = Found(h).upto])
      BY <1>4 DEF PollReads
    <3>2. polls[p] \in PollRows
      BY PollParts DEF TypesInMemory
    <3>3. polls'[p] = [polls[p] EXCEPT !.at = "record", !.todo = @ \ {h}, !.hook = h,
                                      !.next = cursor[h] + 1, !.upto = sent[h]]
      BY <3>1, <1>p DEF Found
    <3>4. /\ polls'[p].at = "record" /\ polls'[p].hook = h /\ polls'[p].next = cursor[h] + 1
          /\ polls'[p].made = polls[p].made
      BY <3>2, <3>3 DEF PollRows
    <3> QED BY <3>1, <3>4, <1>p
  <2>3. ASSUME NEW n \in 1..MaxEvents, n < cursor[h] + 1 PROVE status[<<h, n>>] # "absent"
    <3>1. n <= cursor[h] /\ <<h, n>> \in Runs /\ <<h, n>>[1] = h /\ <<h, n>>[2] = n
      BY <2>3, RunParts, BoundsAreNat DEF TypesOfRows
    <3> QED BY <3>1 DEF EventInv, CursorInv, CursorIsBehind
  <2>4. RecordedBehind'
    BY <2>1, <2>2, <2>3 DEF EventInv, CursorInv, RecordedBehind
  <2>5. CursorIsBehind'
    BY <2>1 DEF EventInv, CursorInv, CursorIsBehind
  <2> QED BY <2>1, <2>2, <2>4, <2>5, <1>q, <1>h, <1>t DEF EventInv, CursorInv, Up
<1>5. ASSUME NEW p \in Pollers, NEW h \in Hooks, PollFails(p, h) PROVE EventInv'
  <2>1. UNCHANGED <<cursor, status, turns, queue, stray>> /\ polls[p].at = "next"
    BY <1>5 DEF PollFails, sources, runs, ghosts
  <2>2. /\ polls'[p].at = "next" /\ polls'[p].made = polls[p].made
        /\ \A o \in Pollers \ {p} : polls'[o] = polls[o]
        /\ UNCHANGED <<team, worker, server>>
    <3>1. Polling(p, [polls[p] EXCEPT !.todo = @ \ {h}]) /\ polls[p] \in PollRows
      BY <1>5, PollParts DEF PollFails, TypesInMemory
    <3> QED BY <2>1, <3>1, <1>p DEF PollRows
  <2> QED BY <2>1, <2>2, <1>c, <1>q, <1>h, <1>t DEF EventInv, Up
<1>6. ASSUME NEW p \in Pollers, PollAborts(p) PROVE EventInv'
  <2>1. /\ UNCHANGED <<cursor, status, turns, queue, team, worker, server>>
        /\ stray' = stray \cup ToSet(polls[p].made)
        /\ polls'[p] = NoPoll /\ \A o \in Pollers \ {p} : polls'[o] = polls[o]
    BY <1>6, <1>p DEF PollAborts, sources, runs
  <2>2. HandsKeep
    BY <2>1, HandsAre
  <2>3. polls'[p].at = "none"
    BY <2>1 DEF NoPoll
  <2> QED BY <2>1, <2>2, <2>3, <1>c, <1>q, <1>t DEF EventInv, Up
<1>7. ASSUME NEW p \in Pollers, PollRecords(p) PROVE EventInv'
  <2> DEFINE r == <<polls[p].hook, polls[p].next>>
  <2>0. /\ polls[p] \in PollRows /\ polls[p].at = "record" /\ r \in Runs /\ polls[p].next \in Nat
        /\ polls[p].made \in Seq(Runs)
    BY <1>7, PollParts DEF PollRecords, TypesInMemory
  <2>1. UNCHANGED <<cursor, turns, queue, stray>>
    BY <1>7 DEF PollRecords, sources
  <2>2. \/ /\ status[r] = "absent" /\ SetStatus({r}, "queued")
           /\ Polling(p, [polls[p] EXCEPT !.next = @ + 1, !.made = Append(@, r)])
        \/ /\ status[r] # "absent" /\ UNCHANGED status
           /\ Polling(p, [polls[p] EXCEPT !.next = @ + 1])
    BY <1>7 DEF PollRecords, IsNew
  <2> HIDE DEF r
  <2>3. /\ UNCHANGED <<team, worker, server>> /\ \A o \in Pollers \ {p} : polls'[o] = polls[o]
        /\ polls'[p].at = "record" /\ polls'[p].hook = polls[p].hook
        /\ polls'[p].next = polls[p].next + 1
        /\ ToSet(polls[p].made) \subseteq ToSet(polls'[p].made)
    <3>1. ToSet(Append(polls[p].made, r)) = ToSet(polls[p].made) \cup {r}
      BY <2>0, SetOfChanged
    <3>2. \/ polls'[p] = [polls[p] EXCEPT !.next = @ + 1, !.made = Append(@, r)]
          \/ polls'[p] = [polls[p] EXCEPT !.next = @ + 1]
      BY <2>2, <1>p
    <3>3. /\ polls'[p].at = "record" /\ polls'[p].hook = polls[p].hook
          /\ polls'[p].next = polls[p].next + 1
          /\ polls'[p].made \in {polls[p].made, Append(polls[p].made, r)}
      BY <2>0, <3>2 DEF PollRows
    <3>4. UNCHANGED <<team, worker, server>> /\ \A o \in Pollers \ {p} : polls'[o] = polls[o]
      BY <2>2, <1>p
    <3> QED BY <3>1, <3>3, <3>4
  <2>4. /\ status'[r] # "absent" /\ NoneAbsent /\ NoneBegins
        /\ \A s \in Runs : s # r => status'[s] = status[s]
        /\ status'[r] = "queued" => status[r] = "queued" \/
             (status[r] = "absent" /\ r \in ToSet(polls'[p].made))
    <3>1. CASE status[r] # "absent"
      BY <2>2, <3>1
    <3>2. CASE status[r] = "absent"
      <4>1. \A s \in Runs : status'[s] = IF s = r THEN "queued" ELSE status[s]
        BY <2>0, <2>2, <3>2, WrittenStatus DEF Statuses
      <4>2. polls'[p].made = Append(polls[p].made, r)
        <5>1. polls'[p] = [polls[p] EXCEPT !.next = @ + 1, !.made = Append(@, r)]
          BY <2>2, <3>2, <1>p
        <5> QED BY <2>0, <5>1 DEF PollRows
      <4>3. r \in ToSet(polls'[p].made)
        BY <2>0, <4>2, SetOfChanged
      <4> QED BY <2>0, <3>2, <4>1, <4>3, <1>a
    <3> QED BY <3>1, <3>2
  <2>5. RecordedBehind'
    <3>1. ASSUME NEW n \in 1..MaxEvents, n < polls[p].next + 1
          PROVE  status'[<<polls[p].hook, n>>] # "absent"
      <4>1. CASE n < polls[p].next
        BY <2>0, <2>4, <4>1, <1>b DEF EventInv, CursorInv, RecordedBehind
      <4>2. CASE n = polls[p].next
        BY <2>4, <4>2 DEF r
      <4> QED BY <2>0, <3>1, <4>1, <4>2
    <3>2. ASSUME NEW o \in Pollers, o # p, NEW n \in 1..MaxEvents, polls'[o].at = "record",
                 n < polls'[o].next
          PROVE  status'[<<polls'[o].hook, n>>] # "absent"
      <4>1. polls'[o] = polls[o]
        BY <2>3, <3>2
      <4> QED BY <2>4, <3>2, <4>1, <1>b DEF EventInv, CursorInv, RecordedBehind
    <3> QED BY <2>3, <3>1, <3>2 DEF RecordedBehind
  <2>6. CursorIsBehind'
    BY <2>1, <2>4 DEF EventInv, CursorInv, CursorIsBehind
  <2>7. QueuedIsEnqueued'
    <3>1. \A s \in InHand : s \in InHand'
      BY <2>1, <2>3, HandsAre
    <3>2. r \in ToSet(polls'[p].made) => r \in InHand'
      BY HandsAre
    <3>3. ASSUME Up', NEW s \in Runs, status'[s] = "queued" PROVE team'[s] # "none" \/ s \in InHand'
      <4>1. Up
        BY <2>3, <3>3 DEF Up
      <4>2. CASE status[s] = "queued"
        BY <2>3, <3>1, <4>1, <4>2 DEF EventInv, QueuedIsEnqueued, InState
      <4>3. CASE status[s] # "queued"
        BY <2>4, <3>2, <3>3, <4>3
      <4> QED BY <4>2, <4>3
    <3> QED BY <3>3 DEF QueuedIsEnqueued, InState
  <2>8. FirstTurn'
    BY <2>1, <2>3, <2>4, <1>a DEF EventInv, TurnInv, FirstTurn
  <2>9. WorkerLives' /\ HandledOnce'
    BY <2>1, <2>3 DEF EventInv, TurnInv, WorkerLives, HandledOnce, Up
  <2> QED BY <2>5, <2>6, <2>7, <2>8, <2>9 DEF EventInv, CursorInv, TurnInv
<1>8. ASSUME NEW p \in Pollers, PollEnds(p) PROVE EventInv'
  <2>0. /\ polls[p] \in PollRows /\ polls[p].at = "record" /\ polls[p].next > polls[p].upto
        /\ polls[p].next \in Nat /\ polls[p].upto \in 0..MaxEvents /\ polls[p].hook \in Hooks
    BY <1>8, PollParts DEF PollEnds, TypesInMemory
  <2>1. UNCHANGED <<status, turns, queue, stray>>
    BY <1>8 DEF PollEnds, runs, ghosts
  <2>2. /\ polls'[p].at = "next" /\ polls'[p].made = polls[p].made
        /\ \A o \in Pollers \ {p} : polls'[o] = polls[o]
        /\ UNCHANGED <<team, worker, server>>
    BY <1>8, <2>0, <1>p DEF PollEnds, PollRows
  <2>3. \A h \in Hooks : cursor'[h] \in {cursor[h], IF h = polls[p].hook THEN polls[p].upto ELSE cursor[h]}
    BY <1>8, <2>0 DEF PollEnds, NextCursor, TypesOfRows
  <2>4. ASSUME NEW s \in Runs, s[2] <= cursor'[s[1]] PROVE status[s] # "absent"
    <3>1. s[1] \in Hooks /\ s[2] \in 1..MaxEvents /\ s = <<s[1], s[2]>>
      BY RunParts, RunIsPair
    <3>2. CASE s[2] <= cursor[s[1]]
      BY <3>2 DEF EventInv, CursorInv, CursorIsBehind
    <3>3. CASE ~(s[2] <= cursor[s[1]])
      <4>1. s[1] = polls[p].hook /\ s[2] <= polls[p].upto
        BY <2>3, <2>4, <3>1, <3>3
      <4>2. s[2] < polls[p].next
        BY <2>0, <3>1, <4>1, BoundsAreNat
      <4> QED BY <2>0, <3>1, <4>1, <4>2 DEF EventInv, CursorInv, RecordedBehind
    <3> QED BY <3>2, <3>3
  <2>5. CursorIsBehind'
    BY <2>1, <2>4 DEF CursorIsBehind
  <2>6. RecordedBehind'
    BY <2>1, <2>2 DEF EventInv, CursorInv, RecordedBehind
  <2> QED BY <2>1, <2>2, <2>5, <2>6, <1>q, <1>h, <1>t DEF EventInv, CursorInv, Up
<1>9. ASSUME NEW p \in Pollers, PollEnqueues(p) PROVE EventInv'
  <2>1. /\ UNCHANGED <<cursor, status, turns, stray, team, worker, server>>
        /\ queue' = queue \o polls[p].made
        /\ polls'[p] = NoPoll /\ \A o \in Pollers \ {p} : polls'[o] = polls[o]
    BY <1>9, <1>p DEF PollEnqueues, sources, runs, ghosts
  <2>2. ToSet(queue') = ToSet(queue) \cup ToSet(polls[p].made)
    <3>1. queue \in Seq(Runs) /\ polls[p].made \in Seq(Runs)
      BY PollParts DEF TypesInMemory
    <3>2. CASE Runs = {}
      <4>1. queue = <<>> /\ polls[p].made = <<>>
        BY <3>1, <3>2
      <4> QED BY <2>1, <4>1 DEF ToSet
    <3>3. CASE Runs # {}
      BY <2>1, <3>1, <3>3, SetOfChanged
    <3> QED BY <3>2, <3>3
  <2>3. HandsKeep
    BY <2>1, <2>2, HandsAre
  <2>4. polls'[p].at = "none"
    BY <2>1 DEF NoPoll
  <2> QED BY <2>1, <2>3, <2>4, <1>c, <1>q, <1>t DEF EventInv, Up
\* the worker takes up a run that waits no longer
<1>z. ASSUME Dequeue, NoneAbsent, NoneQueued, NoneBegins, status'[Head(queue)] # "queued",
             UNCHANGED <<turns, worker>>
      PROVE  EventInv'
  <2>1. UNCHANGED <<cursor, polls, team, server>>
    BY <1>z DEF Dequeue, sources, cycles, process
  <2> QED BY <1>z, <2>1, <1>c, <1>d, <1>q, <1>t DEF EventInv, Up
<1>10. CASE SkipRun
  BY <1>10, <1>z, <1>u DEF SkipRun, Pending, runs
<1>i. \A r \in AgentRuns : WorkerRuns /\ worker.at # "turn" => status[r] # "running"
  BY <1>a, SectionParts, RunParts DEF WorkerRuns, LoopFree, Up, EventInv, TurnInv, FirstTurn
<1>11. CASE BeginTurn
  <2>1. PICK r \in AgentRuns : r = Head(queue)
    BY <1>11, SectionParts DEF BeginTurn, Dequeue
  <2>2. /\ status[r] \in Pending /\ SetStatus({r}, "running") /\ WorkerTo("turn", r)
        /\ turns' = [turns EXCEPT ![r] = @ + 1] /\ WorkerRuns /\ worker.at = "idle"
        /\ UNCHANGED <<cursor, polls, team, server>>
    BY <1>11, <2>1 DEF BeginTurn, Dequeue, sources, cycles, process
  <2>3. turns[r] = 0
    BY <2>1, <2>2, <1>i DEF Pending, EventInv, TurnInv, FirstTurn
  <2>4. /\ \A s \in Runs : status'[s] = IF s = r THEN "running" ELSE status[s]
        /\ \A s \in Runs : turns'[s] = IF s = r THEN 1 ELSE turns[s]
    BY <2>1, <2>2, <2>3, <1>a, WrittenStatus DEF Statuses, Pending, TypesOfRows
  <2>5. NoneAbsent /\ NoneQueued /\ status'[Head(queue)] # "queued"
    BY <2>1, <2>4, <1>a
  <2>6. FirstTurn'
    BY <2>2, <2>4, <1>a, <1>i DEF WorkerTo, EventInv, TurnInv, FirstTurn
  <2>7. WorkerLives' /\ HandledOnce'
    BY <2>2, <2>4 DEF WorkerRuns, LoopFree, WorkerLives, Up, EventInv, TurnInv, HandledOnce
  <2>8. Dequeue
    BY <1>11 DEF BeginTurn
  <2> QED BY <2>2, <2>5, <2>6, <2>7, <2>8, <1>c, <1>d, <1>q DEF EventInv, TurnInv, Up
<1>12. CASE RequestCycle
  <2>1. PICK r \in Runs : r = Head(queue)
    BY <1>12, SectionParts DEF RequestCycle
  <2>2. /\ queue # <<>> /\ queue' = Tail(queue) /\ UNCHANGED <<cursor, status, turns, polls, worker>>
        /\ UNCHANGED <<stray, server>> /\ team' = [team EXCEPT ![r] = IF @ = "none" THEN "queued" ELSE @]
    BY <1>12, <2>1 DEF RequestCycle, sources, runs, ghosts, process
  <2>3. CyclesStay /\ team'[r] # "none"
    BY <2>2 DEF TypesOfRows
  <2>4. ToSet(queue) = {r} \cup ToSet(queue')
    BY <2>1, <2>2, <1>w
  <2>5. \A s \in InHand : s = r \/ s \in InHand'
    BY <2>2, <2>4, HandsAre
  <2>6. QueuedIsEnqueued'
    BY <2>2, <2>3, <2>5 DEF EventInv, QueuedIsEnqueued, InState, Up
  <2> QED BY <2>2, <2>6, <1>c, <1>t DEF EventInv
<1>13. CASE RequestRefused
  <2>1. Dequeue /\ SetStatus({Head(queue)}, "interrupted") /\ UNCHANGED <<turns, worker>>
    BY <1>13 DEF RequestRefused, Dequeue
  <2>2. Head(queue) \in Runs
    BY <1>13, SectionParts DEF RequestRefused, Dequeue
  <2>3. status'[Head(queue)] # "queued"
    BY <2>1, <2>2, WrittenStatus DEF Statuses
  <2> QED BY <2>1, <2>3, <1>s, <1>z DEF Statuses
\* a turn is over: its run settles, and no other run of an agent was running
<1>e. ASSUME NEW set, NEW to \in {"succeeded", "failed"}, SetStatus(set, to), worker'.at # "turn",
             worker.run \in set \/ worker.run \notin InState(Pending), Up,
             UNCHANGED <<cursor, turns, polls, queue, stray, team, server>>
      PROVE  EventInv'
  <2>1. NoneAbsent /\ NoneQueued /\ NoneBegins
    BY <1>e, <1>s DEF Statuses
  <2>2. \A r \in AgentRuns : status'[r] # "running"
    <3> TAKE r \in AgentRuns
    <3>1. status[r] = "running" => worker.run = r
      BY <1>e DEF Up, EventInv, TurnInv, FirstTurn
    <3>2. status[r] = "running" => worker.run \in set
      BY <1>e, <1>a, <3>1 DEF InState, Pending
    <3> QED BY <1>e, <1>a, <3>1, <3>2, WrittenStatus DEF Statuses
  <2>3. FirstTurn'
    BY <1>e, <1>a, <2>1, <2>2 DEF EventInv, TurnInv, FirstTurn, TypesOfRows
  <2>4. WorkerLives' /\ HandledOnce'
    BY <1>e DEF EventInv, TurnInv, WorkerLives, HandledOnce, Up
  <2> QED BY <1>e, <2>1, <2>3, <2>4, <1>c, <1>q, <1>h DEF EventInv, TurnInv, Up
<1>14. ASSUME NEW to \in {"succeeded", "failed"}, TurnEnds(to) PROVE EventInv'
  BY <1>14, <1>e DEF TurnEnds, WorkerTo, WorkerRuns, LoopFree, sources, cycles, ghosts, process
<1>15. CASE LinkRequest
  BY <1>15, <1>0 DEF LinkRequest, sources, cycles, ghosts, process
<1>16. CASE PrepareCycle
  <2>1. status' = status /\ (team' = team \/ Cycle(loop.run, "failed"))
    BY <1>16 DEF PrepareCycle
  <2> QED BY <1>16, <2>1, <1>u, <1>y, <1>0 DEF PrepareCycle, sources, ghosts, process
<1>17. CASE RejectMail
  BY <1>17, <1>s, <1>0 DEF RejectMail, sources, cycles, ghosts, process, Statuses
<1>o. ASSUME NEW r, NEW to, to # "none", Cycle(r, to), OnlyCycle PROVE EventInv'
  BY <1>o, <1>u, <1>y, <1>0 DEF OnlyCycle, sources, runs, ghosts, process
<1>18. CASE FailCycle
  BY <1>18, <1>o DEF FailCycle
<1>19. CASE Observe
  <2>1. OutcomeOf[team[loop.run]] \in Statuses \ {"absent", "queued", "running"}
    BY <1>19, OutcomesAreStatuses DEF Observe, SectionFits, Observed, Statuses
  <2>2. NoneAbsent /\ NoneQueued /\ NoneBegins
    BY <1>19, <2>1, <1>s DEF Observe
  <2> QED BY <1>19, <2>2, <1>0 DEF Observe, sources, cycles, ghosts, process
<1>20. ASSUME NEW r \in TeamRuns, ClaimCycle(r) PROVE EventInv'
  BY <1>20, <1>o DEF ClaimCycle
<1>21. ASSUME NEW r \in TeamRuns, CycleGoesOn(r) PROVE EventInv'
  BY <1>21, <1>o DEF CycleGoesOn
<1>22. ASSUME NEW r \in TeamRuns,
              NEW to \in {"completed", "failed", "waiting_for_user", "interrupted"}, CycleEnds(r, to)
       PROVE  EventInv'
  BY <1>22, <1>o DEF CycleEnds
<1>23. ASSUME NEW r \in TeamRuns, NEW to \in {"waiting_for_provider", "interrupted"},
              CycleStops(r, to)
       PROVE  EventInv'
  BY <1>23, <1>o DEF CycleStops
<1>24. CASE CancelRun
  BY <1>24, <1>x, <1>0 DEF CancelRun, sources, ghosts, process
<1>25. CASE ReopenRun
  BY <1>25, <1>0 DEF ReopenRun, sources, runs, ghosts, process
<1>26. CASE CloseIntake
  BY <1>26, <1>0 DEF CloseIntake, sources, runs, cycles, ghosts, process
<1>27. CASE CancelAllActive
  BY <1>27, <1>x, <1>u, <1>v, <1>0 DEF CancelAllActive, sources, ghosts, process
<1>28. CASE CancelWorker
  BY <1>28, <1>0 DEF CancelWorker, sources, runs, cycles, ghosts, process
<1>29. CASE WorkerCanceled
  <2>1. worker.run \in {worker.run} \cap ActiveRuns \/ worker.run \notin InState(Pending)
    BY DEF ActiveRuns
  <2>2. SetStatus({worker.run} \cap ActiveRuns, "failed") /\ worker'.at = "off" /\ Up
        /\ UNCHANGED <<cursor, turns, polls, queue, stray, team, server>>
    BY <1>29 DEF WorkerCanceled, Failed, WorkerTo, LoopFree, sources, cycles, ghosts, process
  <2> QED BY <2>1, <2>2, <1>e
<1>30. CASE DrainQueue
  <2>1. /\ SetStatus(stop.targets \cap ActiveRuns, "interrupted") /\ Up /\ worker.at = "off"
        /\ worker' = [at |-> "idle", run |-> NoRun]
        /\ stray' = stray \cup (ToSet(queue) \ stop.targets)
        /\ UNCHANGED <<cursor, turns, polls, team, server>>
    BY <1>30 DEF DrainQueue, WorkerTo, LoopFree, sources, cycles, process
  <2>2. NoneAbsent /\ NoneQueued /\ NoneBegins
    BY <2>1, <1>s DEF Statuses
  <2>3. \A r \in Runs : r \in stop.targets => status'[r] # "queued"
    BY <2>1, WrittenStatus DEF Statuses, ActiveRuns, InState, Pending
  <2>4. InHand \subseteq Runs
    <3>1. \A p \in Pollers : ToSet(polls[p].made) \subseteq Runs
      BY PollParts, SetOfSeq DEF TypesInMemory
    <3>2. ToSet(queue) \subseteq Runs
      BY DEF ToSet, TypesInMemory
    <3> QED BY <3>1, <3>2, HandsAre DEF TypesInMemory
  <2>5. HandsKeep
    BY <2>1, <2>3, <2>4, HandsAre
  <2>6. FirstTurn'
    BY <2>1, <2>2, <1>a, SectionParts, RunParts DEF EventInv, TurnInv, FirstTurn, TypesOfRows, Up
  <2>7. WorkerLives' /\ HandledOnce'
    BY <2>1 DEF EventInv, TurnInv, WorkerLives, HandledOnce, Up
  <2> QED BY <2>1, <2>2, <2>5, <2>6, <2>7, <1>c, <1>q DEF EventInv, TurnInv, Up
<1>31. CASE ResumeIntake
  BY <1>31, <1>0 DEF ResumeIntake, sources, runs, cycles, process
\* the process is gone, and with it the worker and what it was going to do
<1>g. ASSUME Gone, NoneAbsent, NoneQueued PROVE EventInv'
  <2>1. /\ server' = "down" /\ worker'.at = "off" /\ UNCHANGED <<cursor, turns>>
        /\ \A p \in Pollers : polls'[p].at = "none"
    BY <1>g DEF Gone, WorkerTo, NoPoll, sources
  <2>2. FirstTurn' /\ HandledOnce'
    BY <1>g, <2>1, <1>a DEF EventInv, TurnInv, FirstTurn, HandledOnce, TypesOfRows
  <2> QED BY <1>g, <2>1, <2>2, <1>c DEF EventInv, TurnInv, WorkerLives, QueuedIsEnqueued, Up
<1>32. CASE Crash
  BY <1>32, <1>g DEF Crash
<1>33. CASE Shutdown
  <2>1. NoneAbsent /\ NoneQueued
    BY <1>33, <1>s DEF Shutdown, Failed, Statuses
  <2> QED BY <1>33, <2>1, <1>g DEF Shutdown
\* a start-up begins no turn, and has no worker before it is up
<1>k. ASSUME NEW from \in {"down", "cycles", "runs"}, NEW to \in {"cycles", "runs", "linked"},
             Starting(from, to), NoneAbsent, NoneQueued, UNCHANGED consumer,
             to # "cycles" => \A r \in AgentRuns : status'[r] # "running"
      PROVE  EventInv'
  <2>1. /\ server = from /\ server' = to /\ UNCHANGED <<cursor, turns, polls, worker>>
    BY <1>k DEF Starting, sources, consumer
  <2>2. FirstTurn' /\ HandledOnce'
    BY <1>k, <2>1, <1>a DEF EventInv, TurnInv, FirstTurn, HandledOnce, TypesOfRows
  <2>3. WorkerLives'
    BY <2>1 DEF EventInv, TurnInv, WorkerLives, Up
  <2> QED BY <1>k, <2>1, <2>2, <2>3, <1>c DEF EventInv, TurnInv, QueuedIsEnqueued, Up
<1>n. \A r \in AgentRuns : server \in {"runs", "linked"} => status[r] # "running"
  BY SectionParts, RunParts DEF EventInv, TurnInv, FirstTurn, WorkerLives, Up
<1>34. CASE StartCycles
  BY <1>34, <1>k DEF StartCycles
<1>35. CASE RecoverRuns
  <2>1. \A r \in Runs : status'[r] \in {status[r], "interrupted", "failed"} /\ status'[r] # "running"
    BY <1>35 DEF RecoverRuns, Recovered
  <2>2. NoneAbsent /\ NoneQueued
    BY <2>1
  <2> QED BY <1>35, <2>1, <2>2, <1>a, <1>k DEF RecoverRuns
<1>36. CASE ReconcileLinked
  <2>1. Starting("runs", "linked") /\ UNCHANGED consumer /\ server = "runs"
        /\ \A r \in Runs : status'[r] = Reconciled(r)
    BY <1>36 DEF ReconcileLinked, Starting
  <2>2. \A r \in Runs : CycleDecides(r) => OutcomeOf[team[r]] \notin {"absent", "queued"}
    BY OutcomesAreStatuses DEF CycleDecides, Observed
  <2>3. \A r \in Runs : status'[r] \in {"absent", "queued"} => status'[r] = status[r]
    BY <2>1, <2>2, ReconciledIs
  <2>4. \A r \in AgentRuns : status'[r] = status[r]
    BY <2>1, <1>a, ReconciledIs DEF Paired
  <2>5. NoneAbsent /\ NoneQueued
    BY <2>3
  <2> QED BY <2>1, <2>4, <2>5, <1>n, <1>k
<1>37. CASE StartWorker
  <2>1. /\ server = "linked" /\ server' = "up" /\ UNCHANGED <<cursor, turns, polls, stray, status, team>>
        /\ queue' \in SetToSeqs(InState({"queued"})) /\ worker' = [at |-> "idle", run |-> NoRun]
    BY <1>37 DEF StartWorker, Starting, WorkerTo, sources, ghosts
  <2>2. ToSet(queue') = InState({"queued"})
    <3>1. InState({"queued"}) \subseteq Runs
      BY DEF InState
    <3>2. IsFiniteSet(InState({"queued"}))
      BY <3>1, RunsAreFinite, FS_Subset
    <3> QED BY <2>1, <3>2, Enumerated
  <2>3. QueuedIsEnqueued'
    BY <2>1, <2>2, HandsAre DEF QueuedIsEnqueued, InState
  <2>4. FirstTurn' /\ WorkerLives' /\ HandledOnce'
    BY <2>1, <1>n DEF EventInv, TurnInv, FirstTurn, WorkerLives, HandledOnce, Up
  <2> QED BY <2>1, <2>3, <2>4, <1>c DEF EventInv, TurnInv
<1>38. CASE UNCHANGED vars
  BY <1>38, <1>0 DEF vars, sources, runs, cycles, ghosts, process
<1> QED BY <1>1, <1>2, <1>3, <1>4, <1>5, <1>6, <1>7, <1>8, <1>9, <1>10, <1>11, <1>12, <1>13,
            <1>14, <1>15, <1>16, <1>17, <1>18, <1>19, <1>20, <1>21, <1>22, <1>23, <1>24, <1>25,
            <1>26, <1>27, <1>28, <1>29, <1>30, <1>31, <1>32, <1>33, <1>34, <1>35, <1>36, <1>37,
            <1>38
            DEF Next, Sources, Polls, PollStep, TakesUp, Turns, Sections, Cycles, EmergencyStop,
                StartUp, Tick, RunNow, DueHooks, Pollers

(* Every event becomes a run, every run that waits is in somebody's hands,   *)
(* and no agent begins a turn for one twice: for every number of hooks,      *)
(* events, polls, stops and restarts.                                        *)
THEOREM EventsAreHandledOnce == Spec => []EveryEventOnce
<1>1. Init => EventInv
  <2>1. ASSUME Init PROVE CursorIsBehind
    <3>1. \A r \in Runs : r[1] \in Hooks /\ r[2] \in 1..MaxEvents
      BY RunParts
    <3> QED BY <2>1, <3>1, BoundsAreNat DEF Init, CursorIsBehind
  <2>2. Init => RecordedBehind
    BY DEF Init, RecordedBehind, NoPoll
  <2>3. Init => FirstTurn /\ WorkerLives /\ HandledOnce
    BY RunParts DEF Init, FirstTurn, WorkerLives, HandledOnce
  <2>4. Init => QueuedIsEnqueued
    BY DEF Init, QueuedIsEnqueued, Up
  <2> QED BY <2>1, <2>2, <2>3, <2>4 DEF EventInv, CursorInv, TurnInv
<1>2. EventInv => EveryEventOnce
  BY DEF EventInv, CursorInv, TurnInv, EveryEventOnce
<1> QED BY HookTypes, <1>1, <1>2, EventStep, PTL DEF Spec
=============================================================================
