--------------------------- MODULE JobQueueProofs ---------------------------
(* What holds of JobQueue for every number of jobs, schedules and restarts. *)
EXTENDS JobQueue, FiniteSetTheorems, SequenceTheorems, TLAPS

Rows == <<jobs, plans>>

(* Writing a status other than "absent" to rows that exist keeps the table's shape. *)
LEMMA StatusWrite ==
  ASSUME TypesOfRows, RowsAreAPrefix, NEW set, NEW to \in Statuses \ {"absent"},
         \A j \in set \cap Jobs : status[j] # "absent",
         status' = WithStatus(set, to)
  PROVE  /\ status' \in [Jobs -> Statuses]
         /\ RowsAreAPrefix'
         /\ \A j \in Jobs : status[j] # "absent" => status'[j] # "absent"
BY DEF TypesOfRows, RowsAreAPrefix, WithStatus

(* A new row is the first absent one; no other row changes. *)
LEMMA RowCreated ==
  ASSUME TypesOfRows, RowsAreAPrefix, NEW j \in Jobs, NEW needsApproval \in BOOLEAN,
         NEW from \in Occurrences, CreateRow(j, needsApproval, from)
  PROVE  /\ status' \in [Jobs -> Statuses] /\ guarded' \in [Jobs -> BOOLEAN]
         /\ origin' \in [Jobs -> Occurrences]
         /\ RowsAreAPrefix'
         /\ status'[j] # "absent"
         /\ \A i \in Jobs : status[i] # "absent" => status'[i] = status[i]
<1>1. CreatedStatus(needsApproval) \in Statuses \ {"absent"}
  BY DEF CreatedStatus, Statuses, Active
<1>2. status' = [status EXCEPT ![j] = CreatedStatus(needsApproval)]
  BY DEF CreateRow
<1>3. status' \in [Jobs -> Statuses] /\ guarded' \in [Jobs -> BOOLEAN]
      /\ origin' \in [Jobs -> Occurrences]
  BY <1>1, <1>2 DEF CreateRow, TypesOfRows
<1>4. /\ status'[j] # "absent"
      /\ \A i \in Jobs : status[i] # "absent" => status'[i] = status[i]
  BY <1>1, <1>2 DEF CreateRow, TypesOfRows
<1>5. RowsAreAPrefix'
  BY <1>1, <1>2 DEF CreateRow, RowsAreAPrefix, Jobs
<1> QED BY <1>3, <1>4, <1>5

(* A query returns a sequence of rows of the set it asks for. *)
LEMMA ListingIsSequence ==
  ASSUME NEW set, IsFiniteSet(set), NEW order \in Listings(set)
  PROVE  order \in Seq(set) /\ (set # {} => Len(order) > 0)
<1>1. Cardinality(set) \in Nat /\ (set # {} => Cardinality(set) # 0)
  BY FS_CardinalityType, FS_EmptySet
<1>2. order \in Seq(set) /\ Len(order) = Cardinality(set)
  BY <1>1 DEF Listings
<1> QED BY <1>1, <1>2

-----------------------------------------------------------------------------
(* Sections of the loop. *)

LEMMA SectionTypes ==
  /\ Free \in Sections /\ Free.at = "free" /\ Free.due = <<>>
  /\ \A a \in HasJob, j \in Jobs : Holds(a, j) \in Sections
  /\ Holds("stop", NoJob) \in Sections
BY DEF Free, Sections, Holds

LEMMA MoveTypes ==
  ASSUME TypesInMemory, MemoryFitsRows, guarded \in [Jobs -> BOOLEAN], loop.at = "move", AfterMove
  PROVE  loop' \in Sections /\ queue' \in Seq(Jobs) /\ loop'.at \notin HasJob
         /\ (loop'.at \in {"tick", "move"} => Len(loop'.due) > 0)
<1> DEFINE made == IF guarded[loop.job] THEN loop.made ELSE Append(loop.made, loop.job)
<1>1. loop.job \in Jobs /\ Len(loop.due) > 0 /\ loop.due \in Seq(Slots) /\ queue \in Seq(Jobs)
  BY DEF MemoryFitsRows, HasJob, TypesInMemory, Sections
<1>2. made \in Seq(Jobs)
  BY <1>1 DEF TypesInMemory, Sections
<1>3. CASE Len(loop.due) > 1
  <2>1. loop' = [at |-> "tick", job |-> NoJob, due |-> Tail(loop.due), made |-> made]
        /\ queue' = queue
    BY <1>3 DEF AfterMove
  <2>2. Tail(loop.due) \in Seq(Slots) /\ Len(Tail(loop.due)) > 0
    <3>1. /\ Tail(loop.due) \in Seq(Slots)
          /\ Len(Tail(loop.due)) = Len(loop.due) - 1 /\ Len(loop.due) \in Nat
      BY <1>1, <1>3
    <3> QED BY <1>3, <3>1
  <2> HIDE DEF made
  <2> QED BY <1>1, <1>2, <2>1, <2>2 DEF Sections, HasJob
<1>4. CASE ~(Len(loop.due) > 1)
  <2>1. loop' = Free /\ queue' = queue \o made
    BY <1>4 DEF AfterMove
  <2> HIDE DEF made
  <2> QED BY <1>1, <1>2, <2>1, SectionTypes DEF HasJob
<1> QED BY <1>3, <1>4

-----------------------------------------------------------------------------
(* Types of the rows. *)

LEMMA NoOccurrenceIsOne == NoOccurrence \in Occurrences
BY BoundsAreNat DEF NoOccurrence, Occurrences

Kept == \A j \in Jobs : status[j] # "absent" => status'[j] # "absent"

LEMMA RowTypes == TypeOK /\ [Next]_vars => TypesOfRows' /\ RowsAreAPrefix' /\ Kept
<1> SUFFICES ASSUME TypeOK, [Next]_vars PROVE TypesOfRows' /\ RowsAreAPrefix' /\ Kept
  OBVIOUS
<1> USE DEF TypeOK
<1>1. CASE UNCHANGED Rows
  BY <1>1 DEF Rows, jobs, plans, TypesOfRows, RowsAreAPrefix, Kept
<1>2. ASSUME UNCHANGED jobs, NEW s \in Schedules, clock' = clock,
             sched' = sched \/ \E to \in {"enabled", "paused", "deleted"} : SetSchedule(s, to),
             nextRun' = nextRun \/ SetNextRun(s) \/ nextRun' = [nextRun EXCEPT ![s] = 1]
      PROVE  TypesOfRows' /\ RowsAreAPrefix' /\ Kept
  <2>1. sched' \in [Schedules -> {"absent", "enabled", "paused", "deleted"}]
    BY <1>2 DEF TypesOfRows, SetSchedule
  <2>2. clock + 1 \in 1..(MaxTime + 1) /\ 1 \in 1..(MaxTime + 1)
    BY BoundsAreNat DEF TypesOfRows
  <2>3. nextRun' \in [Schedules -> 1..(MaxTime + 1)]
    BY <1>2, <2>2 DEF TypesOfRows, SetNextRun
  <2> QED BY <1>2, <2>1, <2>3 DEF TypesOfRows, RowsAreAPrefix, Kept, jobs
<1>3. ASSUME UNCHANGED <<status, guarded, origin, starts, plans>>,
             \E j \in Jobs : approval' = [approval EXCEPT ![j] = "pending"]
                             \/ approval' = Decided(j, "approved") \/ approval' = Decided(j, "denied")
      PROVE  TypesOfRows' /\ RowsAreAPrefix' /\ Kept
  BY <1>3 DEF TypesOfRows, RowsAreAPrefix, Kept, plans, Decided
<1>4. ASSUME NEW j \in Jobs, NEW needsApproval \in BOOLEAN, NEW from \in Occurrences,
             CreateRow(j, needsApproval, from), UNCHANGED plans
      PROVE  TypesOfRows' /\ RowsAreAPrefix' /\ Kept
  <2>1. /\ status' \in [Jobs -> Statuses] /\ guarded' \in [Jobs -> BOOLEAN]
        /\ origin' \in [Jobs -> Occurrences]
        /\ RowsAreAPrefix' /\ Kept
    BY <1>4, RowCreated DEF Kept
  <2>2. UNCHANGED <<approval, starts, plans>>
    BY <1>4 DEF CreateRow
  <2> QED BY <2>1, <2>2 DEF TypesOfRows, plans
<1>5. ASSUME NEW set, NEW to \in Statuses \ {"absent"}, \A j \in set \cap Jobs : status[j] # "absent",
             status' = WithStatus(set, to), starts' \in [Jobs -> Nat],
             UNCHANGED <<guarded, approval, origin, plans>>
      PROVE  TypesOfRows' /\ RowsAreAPrefix' /\ Kept
  <2>1. status' \in [Jobs -> Statuses] /\ RowsAreAPrefix' /\ Kept
    BY <1>5, StatusWrite DEF Kept
  <2> QED BY <1>5, <2>1 DEF TypesOfRows, plans
<1>7. /\ starts \in [Jobs -> Nat]
      /\ {"running", "queued", "canceled", "failed", "succeeded"} \subseteq Statuses \ {"absent"}
  BY DEF TypesOfRows, Statuses, Active, Retriable

<1>10. CASE InsertApproval
  BY <1>10, <1>3 DEF InsertApproval, MemoryFitsRows, HasJob
<1>11. CASE ApproveDecides
  BY <1>11, <1>3 DEF ApproveDecides, MemoryFitsRows, HasJob
<1>12. CASE DenyDecides
  BY <1>12, <1>3 DEF DenyDecides, TypesInMemory, NoDeny
<1>13. ASSUME NEW needsApproval \in BOOLEAN, HandlerCreates(needsApproval)
       PROVE TypesOfRows' /\ RowsAreAPrefix' /\ Kept
  BY <1>13, <1>4, NoOccurrenceIsOne DEF HandlerCreates
<1>14. CASE CreateJob
  BY <1>14, <1>13 DEF CreateJob
<1>15. ASSUME NEW j \in Jobs, RetryJob(j) PROVE TypesOfRows' /\ RowsAreAPrefix' /\ Kept
  BY <1>15, <1>13 DEF RetryJob, TypesOfRows
<1>16. ASSUME NEW s \in Schedules, RunNow(s) PROVE TypesOfRows' /\ RowsAreAPrefix' /\ Kept
  <2>1. (s \in Guarded) \in BOOLEAN
    OBVIOUS
  <2> QED BY <1>16, <2>1, <1>13 DEF RunNow
<1>17. CASE TickCreates
  <2>1. loop.due[1] \in Slots
    BY <1>17 DEF TickCreates, MemoryFitsRows, TypesInMemory, Sections
  <2>2. <<loop.due[1][1], loop.due[1][2], server.life>> \in Occurrences
    BY <2>1, BoundsAreNat DEF Slots, Occurrences, TypesInMemory
  <2>3. PICK j \in Jobs : CreateRow(j, loop.due[1][1] \in Guarded,
                                 <<loop.due[1][1], loop.due[1][2], server.life>>)
    BY <1>17 DEF TickCreates
  <2>4. (loop.due[1][1] \in Guarded) \in BOOLEAN /\ UNCHANGED plans
    BY <1>17 DEF TickCreates
  <2> QED BY <2>2, <2>3, <2>4, <1>4
<1>18. CASE ApproveEnqueues
  BY <1>18, <1>5, <1>7 DEF ApproveEnqueues, MemoryFitsRows, HasJob
<1>19. CASE DenyCancels
  BY <1>19, <1>5, <1>7 DEF DenyCancels, MemoryFitsRows, NoDeny
<1>20. CASE WorkerStarts
  BY <1>20, <1>5, <1>7 DEF WorkerStarts, MemoryFitsRows, HasJob
<1>21. CASE WorkerSettles
  BY <1>21, <1>5, <1>7 DEF WorkerSettles, MemoryFitsRows, HasJob
<1>22. CASE WorkerCancelled
  BY <1>22, <1>5, <1>7 DEF WorkerCancelled, Active
<1>23. ASSUME NEW j \in Jobs, StopCancelsJob(j) PROVE TypesOfRows' /\ RowsAreAPrefix' /\ Kept
  <2>1. CASE status[j] \in Active
    BY <1>23, <2>1, <1>5, <1>7 DEF StopCancelsJob, Active
  <2>2. CASE status[j] \notin Active
    BY <1>23, <2>2, <1>1 DEF StopCancelsJob, Rows, jobs
  <2> QED BY <2>1, <2>2
<1>24. CASE Start
  BY <1>24, <1>5, <1>7 DEF Start, Recovered, InState
<1>25. CASE Shutdown
  BY <1>25, <1>5, <1>7 DEF Shutdown, Active
<1>26. CASE TickMoves
  <2>1. loop.due[1][1] \in Schedules
    BY <1>26 DEF TickMoves, MemoryFitsRows, TypesInMemory, Sections, Slots
  <2> QED BY <1>26, <1>2, <2>1 DEF TickMoves, MovesOn
<1>27. ASSUME NEW s \in Schedules, CreateSchedule(s) PROVE TypesOfRows' /\ RowsAreAPrefix' /\ Kept
  BY <1>27, <1>2 DEF CreateSchedule
<1>28. ASSUME NEW s \in Schedules, PauseSchedule(s) PROVE TypesOfRows' /\ RowsAreAPrefix' /\ Kept
  BY <1>28, <1>2 DEF PauseSchedule
<1>29. ASSUME NEW s \in Schedules, ResumeSchedule(s) PROVE TypesOfRows' /\ RowsAreAPrefix' /\ Kept
  BY <1>29, <1>2 DEF ResumeSchedule
<1>30. ASSUME NEW s \in Schedules, DeleteSchedule(s) PROVE TypesOfRows' /\ RowsAreAPrefix' /\ Kept
  BY <1>30, <1>2 DEF DeleteSchedule
<1>31. CASE TimePasses
  BY <1>31, BoundsAreNat DEF TimePasses, TypesOfRows, RowsAreAPrefix, Kept, jobs
<1>32. CASE (\E j \in Jobs : ApproveJob(j) \/ DenyJob(j)) \/ Tick \/ TickFails \/ WorkerTakes
           \/ RunnerEnds \/ StopCloses \/ StopCancels \/ StopDrains \/ StopEnds \/ ResumeIntake \/ Crash
           \/ UNCHANGED vars
  BY <1>32, <1>1 DEF ApproveJob, DenyJob, Tick, TickFails, WorkerTakes, RunnerEnds, StopCloses,
      StopCancels,
     StopDrains, StopEnds, ResumeIntake, Crash, vars, Rows
<1> QED BY <1>10, <1>11, <1>12, <1>14, <1>15, <1>16, <1>17, <1>18, <1>19, <1>20, <1>21, <1>22,
            <1>23, <1>24, <1>25, <1>26, <1>27, <1>28, <1>29, <1>30, <1>31, <1>32 DEF Next,
            Section, User, Stopping

-----------------------------------------------------------------------------
(* Types of what the process holds in memory. *)

LEMMA MemoryTypes == TypeOK /\ [Next]_vars => TypesInMemory'
<1> SUFFICES ASSUME TypeOK, [Next]_vars PROVE TypesInMemory'
  OBVIOUS
<1> USE DEF TypeOK
<1>1. ASSUME NEW needsApproval \in BOOLEAN, HandlerCreates(needsApproval) PROVE TypesInMemory'
  <2>1. PICK j \in Jobs : /\ IF needsApproval THEN loop' = Holds("ask", j) /\ UNCHANGED queue
                                               ELSE queue' = Append(queue, j) /\ UNCHANGED loop
                          /\ UNCHANGED <<plans, worker, deny, intake, stray, server>>
    BY <1>1 DEF HandlerCreates
  <2>2. loop' \in Sections /\ queue' \in Seq(Jobs)
    BY <2>1, SectionTypes DEF TypesInMemory, HasJob
  <2> QED BY <2>1, <2>2 DEF TypesInMemory, intake
<1>2. ASSUME MemoryIsLost PROVE TypesInMemory'
  <2>1. server' \in [up : BOOLEAN, life : 0..(MaxStops + 1)]
    BY <1>2 DEF MemoryIsLost, TypesInMemory
  <2>2. worker' \in [at : {"off", "get"}, job : {NoJob}]
        /\ queue' \in Seq(Jobs) /\ loop' \in Sections
    BY <1>2, SectionTypes DEF MemoryIsLost, Off
  <2>3. deny' = NoDeny /\ gate' \in {"open", "closed"} /\ stray' \subseteq Jobs
        /\ stop' \in [at : {"none", "closing", "cancel", "done"}, targets : SUBSET Jobs]
    BY <1>2 DEF MemoryIsLost, NoStop
  <2> QED BY <2>1, <2>2, <2>3 DEF TypesInMemory
<1>10. ASSUME NEW j \in Jobs, ApproveJob(j) PROVE TypesInMemory'
  BY <1>10, SectionTypes DEF ApproveJob, TypesInMemory, consumer, intake, HasJob
<1>11. CASE ApproveDecides
  BY <1>11, SectionTypes DEF ApproveDecides, TypesInMemory, Sections, consumer, intake, HasJob
<1>12. CASE ApproveEnqueues
  BY <1>12, SectionTypes DEF ApproveEnqueues, TypesInMemory, MemoryFitsRows, intake, HasJob
<1>13. CASE InsertApproval
  BY <1>13, SectionTypes DEF InsertApproval, TypesInMemory, Sections, consumer, intake, HasJob
<1>14. CASE CreateJob
  BY <1>14, <1>1 DEF CreateJob
<1>15. ASSUME NEW j \in Jobs, RetryJob(j) PROVE TypesInMemory'
  BY <1>15, <1>1 DEF RetryJob, TypesOfRows
<1>16. ASSUME NEW s \in Schedules, RunNow(s) PROVE TypesInMemory'
  <2>1. (s \in Guarded) \in BOOLEAN
    OBVIOUS
  <2> QED BY <1>16, <2>1, <1>1 DEF RunNow
<1>17. ASSUME NEW j \in Jobs, DenyJob(j) PROVE TypesInMemory'
  BY <1>17, SectionTypes DEF DenyJob, TypesInMemory, consumer, intake
<1>18. CASE DenyDecides
  BY <1>18, SectionTypes DEF DenyDecides, TypesInMemory, MemoryFitsRows, consumer, intake, NoDeny
<1>19. CASE DenyCancels
  BY <1>19, SectionTypes DEF DenyCancels, TypesInMemory, consumer, intake
<1>20. CASE Tick
  <2>1. PICK order \in Listings(Due) :
           loop' = [Holds("tick", NoJob) EXCEPT
                      !.due = [i \in DOMAIN order |-> <<order[i], nextRun[order[i]]>>]]
    BY <1>20 DEF Tick
  <2>2. order \in Seq(Due)
    BY <2>1, KindsOfSchedules, FS_Subset, ListingIsSequence DEF Due
  <2>3. [i \in DOMAIN order |-> <<order[i], nextRun[order[i]]>>] \in Seq(Slots)
    <3>1. /\ Len(order) \in Nat /\ DOMAIN order = 1..Len(order)
          /\ \A i \in DOMAIN order : order[i] \in Due
      BY <2>2
    <3>2. \A i \in DOMAIN order : <<order[i], nextRun[order[i]]>> \in Slots
      BY <3>1 DEF Slots, Due, TypesOfRows
    <3>3. [i \in DOMAIN order |-> <<order[i], nextRun[order[i]]>>] \in [1..Len(order) -> Slots]
      BY <3>1, <3>2
    <3> HIDE DEF Slots
    <3> QED BY <3>1, <3>3
  <2>4. loop' = [at |-> "tick", job |-> NoJob, made |-> <<>>,
                 due |-> [i \in DOMAIN order |-> <<order[i], nextRun[order[i]]>>]]
    BY <2>1 DEF Holds
  <2>5. loop' \in Sections
    BY <2>3, <2>4 DEF Sections
  <2> QED BY <1>20, <2>5 DEF Tick, TypesInMemory, consumer, intake
<1>21. CASE TickCreates
  BY <1>21, SectionTypes DEF TickCreates, TypesInMemory, Sections, consumer, intake, HasJob
<1>22. CASE TickFails
  BY <1>22, SectionTypes DEF TickFails, TypesInMemory, Sections, Range, consumer, intake
<1>23. CASE TickMoves
  BY <1>23, MoveTypes DEF TickMoves, TypesInMemory, TypesOfRows, intake
<1>24. CASE WorkerTakes
  BY <1>24, SectionTypes DEF WorkerTakes, TypesInMemory, intake, HasJob
<1>25. CASE WorkerStarts
  BY <1>25, SectionTypes DEF WorkerStarts, TypesInMemory, MemoryFitsRows, intake, HasJob
<1>26. CASE RunnerEnds
  BY <1>26, SectionTypes DEF RunnerEnds, TypesInMemory, intake, HasJob, Idle
<1>27. CASE WorkerSettles
  BY <1>27, SectionTypes DEF WorkerSettles, TypesInMemory, consumer, intake
<1>28. CASE StopCloses
  BY <1>28, SectionTypes DEF StopCloses, TypesInMemory, consumer
<1>29. CASE StopCancels
  BY <1>29, SectionTypes DEF StopCancels, TypesInMemory, consumer, InState
<1>30. CASE WorkerCancelled
  BY <1>30, SectionTypes DEF WorkerCancelled, TypesInMemory, intake, Off
<1>31. CASE StopDrains
  BY <1>31, SectionTypes DEF StopDrains, TypesInMemory, intake
<1>32. ASSUME NEW j \in Jobs, StopCancelsJob(j) PROVE TypesInMemory'
  BY <1>32, SectionTypes DEF StopCancelsJob, TypesInMemory, consumer
<1>33. CASE StopEnds
  BY <1>33, SectionTypes DEF StopEnds, TypesInMemory, Idle, WorkerAfterStop
<1>34. CASE ResumeIntake
  BY <1>34, SectionTypes DEF ResumeIntake, TypesInMemory, consumer, NoStop
<1>35. CASE Start
  <2>1. PICK order \in Listings(Requeued) : queue' = order
    BY <1>35 DEF Start
  <2>2. IsFiniteSet(Requeued) /\ Requeued \subseteq Jobs
    <3>1. IsFiniteSet(1..MaxJobs)
      BY BoundsAreNat, FS_Interval
    <3>2. Requeued \subseteq 1..MaxJobs
      BY DEF Requeued, Jobs
    <3> QED BY <3>1, <3>2, FS_Subset DEF Jobs
  <2>3. queue' \in Seq(Jobs)
    BY <2>1, <2>2, ListingIsSequence
  <2>4. server.life + 1 \in 0..(MaxStops + 1)
    BY <1>35, BoundsAreNat DEF Start, TypesInMemory, MemoryFitsRows
  <2>5. server' \in [up : BOOLEAN, life : 0..(MaxStops + 1)]
    BY <1>35, <2>4 DEF Start
  <2> QED BY <1>35, <2>3, <2>5 DEF Start, TypesInMemory, Idle, intake
<1>36. CASE Crash
  BY <1>36, <1>2 DEF Crash
<1>37. CASE Shutdown
  BY <1>37, <1>2 DEF Shutdown
<1>38. CASE UNCHANGED <<jobs, consumer, loop, deny, intake, stray, server>>
  BY <1>38 DEF TypesInMemory, consumer, intake
<1> QED BY <1>10, <1>11, <1>12, <1>13, <1>14, <1>15, <1>16, <1>17, <1>18, <1>19, <1>20, <1>21,
            <1>22, <1>23, <1>24, <1>25, <1>26, <1>27, <1>28, <1>29, <1>30, <1>31, <1>32, <1>33,
            <1>34, <1>35, <1>36, <1>37, <1>38 DEF Next, Section, User, Stopping, CreateSchedule,
            PauseSchedule, ResumeSchedule, DeleteSchedule, TimePasses, vars

(* What memory holds still fits the rows. *)

LEMMA MemoryFits == TypeOK /\ [Next]_vars => MemoryFitsRows'
<1> SUFFICES ASSUME TypeOK, [Next]_vars PROVE MemoryFitsRows'
  OBVIOUS
<1> USE DEF TypeOK
<1>3. Kept /\ TypesInMemory'
  BY RowTypes, MemoryTypes
<1>1. ASSUME NEW needsApproval \in BOOLEAN, HandlerCreates(needsApproval) PROVE MemoryFitsRows'
  <2>1. PICK j \in Jobs : /\ CreateRow(j, needsApproval, NoOccurrence)
                          /\ loop' = Holds("ask", j) \/ loop' = loop
                          /\ UNCHANGED <<worker, deny, server>>
    BY <1>1 DEF HandlerCreates
  <2>2. status'[j] # "absent"
    BY <2>1, RowCreated, NoOccurrenceIsOne
  <2> QED BY <1>3, <2>1, <2>2 DEF MemoryFitsRows, Kept, TypesInMemory, Holds
<1>2. ASSUME MemoryIsLost, server.life <= MaxStops PROVE MemoryFitsRows'
  BY <1>2 DEF MemoryIsLost, MemoryFitsRows, Off, Free, Holds, HasJob
<1>10. ASSUME NEW j \in Jobs, ApproveJob(j) PROVE MemoryFitsRows'
  BY <1>10, <1>3 DEF ApproveJob, MemoryFitsRows, Holds, consumer, jobs
<1>11. CASE ApproveDecides
  BY <1>11, <1>3 DEF ApproveDecides, MemoryFitsRows, HasJob, consumer
<1>12. CASE ApproveEnqueues
  BY <1>12, <1>3 DEF ApproveEnqueues, Kept, TypesInMemory, MemoryFitsRows, HasJob, Holds, Free
<1>13. CASE InsertApproval
  BY <1>13, <1>3 DEF InsertApproval, MemoryFitsRows, HasJob, Holds, Free, consumer
<1>14. CASE CreateJob
  BY <1>14, <1>1 DEF CreateJob
<1>15. ASSUME NEW j \in Jobs, RetryJob(j) PROVE MemoryFitsRows'
  BY <1>15, <1>1 DEF RetryJob, TypesOfRows
<1>16. ASSUME NEW s \in Schedules, RunNow(s) PROVE MemoryFitsRows'
  <2>1. (s \in Guarded) \in BOOLEAN
    OBVIOUS
  <2> QED BY <1>16, <2>1, <1>1 DEF RunNow
<1>17. ASSUME NEW j \in Jobs, DenyJob(j) PROVE MemoryFitsRows'
  BY <1>17, <1>3 DEF DenyJob, MemoryFitsRows, consumer, jobs
<1>18. CASE DenyDecides
  BY <1>18, <1>3 DEF DenyDecides, MemoryFitsRows, NoDeny, consumer
<1>19. CASE DenyCancels
  BY <1>19, <1>3 DEF DenyCancels, Kept, TypesInMemory, MemoryFitsRows, consumer
<1>20. CASE Tick
  <2>1. PICK order \in Listings(Due) :
           loop' = [Holds("tick", NoJob) EXCEPT
                      !.due = [i \in DOMAIN order |-> <<order[i], nextRun[order[i]]>>]]
    BY <1>20 DEF Tick
  <2>2. Len(order) > 0 /\ order \in Seq(Due)
    BY <1>20, <2>1, KindsOfSchedules, FS_Subset, ListingIsSequence DEF Due, Tick
  <2>3. loop'.at = "tick" /\ loop'.due = [i \in DOMAIN order |-> <<order[i], nextRun[order[i]]>>]
    BY <2>1 DEF Holds
  <2>4. Len(loop'.due) = Len(order)
    BY <2>2, <2>3
  <2> QED BY <1>20, <2>2, <2>3, <2>4 DEF Tick, MemoryFitsRows, HasJob, jobs, consumer
<1>21. CASE TickCreates
  <2>1. loop.due[1] \in Slots
    BY <1>21 DEF TickCreates, MemoryFitsRows, TypesInMemory, Sections
  <2>2. <<loop.due[1][1], loop.due[1][2], server.life>> \in Occurrences
    BY <2>1, BoundsAreNat DEF Slots, Occurrences, TypesInMemory
  <2>3. PICK j \in Jobs : /\ CreateRow(j, loop.due[1][1] \in Guarded,
                                       <<loop.due[1][1], loop.due[1][2], server.life>>)
                          /\ loop' = [loop EXCEPT !.job = j,
                               !.at = IF loop.due[1][1] \in Guarded THEN "ask" ELSE "move"]
    BY <1>21 DEF TickCreates
  <2>4. (loop.due[1][1] \in Guarded) \in BOOLEAN
    OBVIOUS
  <2>5. status'[j] # "absent"
    BY <2>2, <2>3, <2>4, RowCreated
  <2>6. loop'.job = j /\ loop'.due = loop.due
    BY <2>3 DEF TypesInMemory, Sections
  <2> QED BY <1>21, <1>3, <2>5, <2>6 DEF TickCreates, MemoryFitsRows, Kept, TypesInMemory, consumer
<1>22. CASE TickFails
  BY <1>22, <1>3 DEF TickFails, MemoryFitsRows, HasJob, Holds, Free, consumer, jobs
<1>23. CASE TickMoves
  BY <1>23, <1>3, MoveTypes DEF TickMoves, MemoryFitsRows, Kept, TypesOfRows, TypesInMemory
<1>24. CASE WorkerTakes
  BY <1>24, <1>3 DEF WorkerTakes, TypesInMemory, MemoryFitsRows, Holds, jobs
<1>25. CASE WorkerStarts
  BY <1>25, <1>3 DEF WorkerStarts, Kept, TypesInMemory, MemoryFitsRows, HasJob, Holds, Free
<1>26. CASE RunnerEnds
  BY <1>26, <1>3 DEF RunnerEnds, TypesInMemory, MemoryFitsRows, Holds, jobs, Idle
<1>27. CASE WorkerSettles
  BY <1>27, <1>3 DEF WorkerSettles, Kept, TypesInMemory, MemoryFitsRows, HasJob, Holds, Free,
      consumer
<1>28. CASE StopCloses
  BY <1>28, <1>3 DEF StopCloses, MemoryFitsRows, consumer, jobs
<1>29. CASE StopCancels
  BY <1>29, <1>3 DEF StopCancels, MemoryFitsRows, consumer, jobs
<1>30. CASE WorkerCancelled
  BY <1>30, <1>3 DEF WorkerCancelled, Kept, TypesInMemory, MemoryFitsRows, Off
<1>31. CASE StopDrains
  BY <1>31, <1>3 DEF StopDrains, MemoryFitsRows, HasJob, Holds, jobs
<1>32. ASSUME NEW j \in Jobs, StopCancelsJob(j) PROVE MemoryFitsRows'
  BY <1>32, <1>3 DEF StopCancelsJob, Kept, TypesInMemory, MemoryFitsRows, consumer
<1>33. CASE StopEnds
  BY <1>33, <1>3 DEF StopEnds, MemoryFitsRows, HasJob, Holds, Free, jobs, Idle, WorkerAfterStop
<1>34. CASE ResumeIntake
  BY <1>34, <1>3 DEF ResumeIntake, MemoryFitsRows, consumer, jobs
<1>35. CASE Start
  BY <1>35, <1>3 DEF Start, Kept, TypesInMemory, MemoryFitsRows, Idle
<1>36. CASE Crash
  BY <1>36, <1>2 DEF Crash
<1>37. CASE Shutdown
  BY <1>37, <1>2 DEF Shutdown
<1>38. CASE UNCHANGED <<jobs, consumer, loop, deny, intake, stray, server>>
  BY <1>38 DEF MemoryFitsRows, jobs, consumer
<1> QED BY <1>10, <1>11, <1>12, <1>13, <1>14, <1>15, <1>16, <1>17, <1>18, <1>19, <1>20, <1>21,
            <1>22, <1>23, <1>24, <1>25, <1>26, <1>27, <1>28, <1>29, <1>30, <1>31, <1>32, <1>33,
            <1>34, <1>35, <1>36, <1>37, <1>38 DEF Next, Section, User, Stopping, CreateSchedule,
            PauseSchedule, ResumeSchedule, DeleteSchedule, TimePasses, vars

-----------------------------------------------------------------------------
LEMMA TypeInit == Init => TypeOK
BY BoundsAreNat DEF Init, TypeOK, TypesOfRows, RowsAreAPrefix, TypesInMemory, MemoryFitsRows,
    Statuses, Active, Retriable, Occurrences, NoOccurrence, Sections, Free, Holds, NoJob, NoDeny,
    NoStop, HasJob

(* Every reachable state is well typed, and what the process holds in memory *)
(* refers to rows that exist.                                                *)
THEOREM JobTypes == Spec => []TypeOK
<1>1. TypeOK /\ [Next]_vars => TypeOK'
  BY RowTypes, MemoryTypes, MemoryFits DEF TypeOK
<1> QED BY TypeInit, <1>1, PTL DEF Spec

-----------------------------------------------------------------------------
(* A job that may still be started, by its status or by a section that read  *)
(* it earlier, was never started.                                            *)
NotStarted ==
  /\ \A j \in InState({"absent", "waiting_approval", "queued"}) : starts[j] = 0
  /\ loop.at \in {"approve", "release", "mark"} => starts[loop.job] = 0
  /\ RunsAtMostOnce

LEMMA NotStartedStep == TypeOK /\ NotStarted /\ [Next]_vars => NotStarted'
<1> SUFFICES ASSUME TypeOK, NotStarted, [Next]_vars PROVE NotStarted'
  OBVIOUS
<1> USE DEF TypeOK
<1>1. ASSUME NEW needsApproval \in BOOLEAN, HandlerCreates(needsApproval) PROVE NotStarted'
  BY <1>1 DEF HandlerCreates, CreateRow, NotStarted, RunsAtMostOnce, InState, Holds
<1>10. ASSUME NEW j \in Jobs, ApproveJob(j) PROVE NotStarted'
  BY <1>10 DEF ApproveJob, NotStarted, RunsAtMostOnce, InState, jobs, Holds
<1>11. CASE ApproveDecides
  BY <1>11 DEF ApproveDecides, NotStarted, RunsAtMostOnce, InState
<1>12. CASE ApproveEnqueues
  BY <1>12 DEF ApproveEnqueues, NotStarted, RunsAtMostOnce, InState, Holds, Free, WithStatus
<1>13. CASE InsertApproval
  BY <1>13 DEF InsertApproval, NotStarted, RunsAtMostOnce, InState, Holds, Free
<1>14. CASE CreateJob
  BY <1>14, <1>1 DEF CreateJob
<1>15. ASSUME NEW j \in Jobs, RetryJob(j) PROVE NotStarted'
  BY <1>15, <1>1 DEF RetryJob, TypesOfRows
<1>16. ASSUME NEW s \in Schedules, RunNow(s) PROVE NotStarted'
  <2>1. (s \in Guarded) \in BOOLEAN
    OBVIOUS
  <2> QED BY <1>16, <2>1, <1>1 DEF RunNow
<1>17. ASSUME NEW j \in Jobs, DenyJob(j) PROVE NotStarted'
  BY <1>17 DEF DenyJob, NotStarted, RunsAtMostOnce, InState, jobs
<1>18. CASE DenyDecides
  BY <1>18 DEF DenyDecides, NotStarted, RunsAtMostOnce, InState
<1>19. CASE DenyCancels
  BY <1>19 DEF DenyCancels, NotStarted, RunsAtMostOnce, InState, WithStatus
<1>20. CASE Tick
  BY <1>20 DEF Tick, NotStarted, RunsAtMostOnce, InState, jobs, Holds
<1>21. CASE TickCreates
  BY <1>21 DEF TickCreates, NotStarted, RunsAtMostOnce, InState, CreateRow
<1>22. CASE TickFails
  BY <1>22 DEF TickFails, NotStarted, RunsAtMostOnce, InState, jobs, Holds, Free
<1>23. CASE TickMoves
  BY <1>23, MoveTypes DEF TickMoves, TypesOfRows, NotStarted, RunsAtMostOnce, InState, jobs, HasJob
<1>24. CASE WorkerTakes
  BY <1>24 DEF WorkerTakes, NotStarted, RunsAtMostOnce, InState, jobs, Holds, TypesInMemory
<1>25. CASE WorkerStarts
  BY <1>25 DEF WorkerStarts, NotStarted, RunsAtMostOnce, InState, Holds, Free, WithStatus
<1>26. CASE RunnerEnds
  BY <1>26 DEF RunnerEnds, NotStarted, RunsAtMostOnce, InState, jobs, Holds
<1>27. CASE WorkerSettles
  BY <1>27 DEF WorkerSettles, NotStarted, RunsAtMostOnce, InState, Holds, Free, WithStatus
<1>28. CASE StopCloses
  BY <1>28 DEF StopCloses, NotStarted, RunsAtMostOnce, InState, jobs
<1>29. CASE StopCancels
  BY <1>29 DEF StopCancels, NotStarted, RunsAtMostOnce, InState, jobs
<1>30. CASE WorkerCancelled
  BY <1>30 DEF WorkerCancelled, NotStarted, RunsAtMostOnce, InState, WithStatus
<1>31. CASE StopDrains
  BY <1>31 DEF StopDrains, NotStarted, RunsAtMostOnce, InState, jobs, Holds
<1>32. ASSUME NEW j \in Jobs, StopCancelsJob(j) PROVE NotStarted'
  BY <1>32 DEF StopCancelsJob, NotStarted, RunsAtMostOnce, InState, WithStatus
<1>33. CASE StopEnds
  BY <1>33 DEF StopEnds, NotStarted, RunsAtMostOnce, InState, jobs, Holds, Free
<1>34. CASE ResumeIntake
  BY <1>34 DEF ResumeIntake, NotStarted, RunsAtMostOnce, InState, jobs
<1>35. CASE Start
  BY <1>35 DEF Start, NotStarted, RunsAtMostOnce, InState, WithStatus, Recovered
<1>36. CASE Crash
  BY <1>36 DEF Crash, NotStarted, RunsAtMostOnce, InState, jobs, Holds, Free, MemoryIsLost
<1>37. CASE Shutdown
  BY <1>37 DEF Shutdown, NotStarted, RunsAtMostOnce, InState, WithStatus, LoopFree, MemoryIsLost
<1>38. CASE UNCHANGED <<jobs, consumer, loop, deny, intake, stray, server>>
  BY <1>38 DEF NotStarted, RunsAtMostOnce, InState, jobs
<1> QED BY <1>10, <1>11, <1>12, <1>13, <1>14, <1>15, <1>16, <1>17, <1>18, <1>19, <1>20, <1>21,
            <1>22, <1>23, <1>24, <1>25, <1>26, <1>27, <1>28, <1>29, <1>30, <1>31, <1>32, <1>33,
            <1>34, <1>35, <1>36, <1>37, <1>38 DEF Next, Section, User, Stopping, CreateSchedule,
            PauseSchedule, ResumeSchedule, DeleteSchedule, TimePasses, vars

(* Whatever restarts, approvals, denials and stops do, no job's runner is    *)
(* started twice.                                                            *)
THEOREM JobsStartOnce == Spec => []RunsAtMostOnce
<1>1. Init => NotStarted
  BY DEF Init, NotStarted, RunsAtMostOnce, InState, Free, Holds
<1>2. NotStarted => RunsAtMostOnce
  BY DEF NotStarted
<1> QED BY JobTypes, <1>1, NotStartedStep, <1>2, PTL DEF Spec

-----------------------------------------------------------------------------
(* While the gate is closed only the worker and the stop hold the loop; from *)
(* the listing of its targets on, the stop knows every active job.           *)
StopKnows ==
  /\ gate = "closed" <=> stop.at # "none"
  /\ gate = "closed" => loop.at \in {"free", "mark", "settle", "stop"}
  /\ loop.at = "stop" => stop.at = "cancel" /\ worker.at = "off"
  /\ stop.at = "cancel" => loop.at \in {"free", "stop"} /\ InState(Active) \subseteq stop.targets
  /\ stop.at = "done" => loop.at = "free" /\ InState(Active) = {} /\ worker.at # "run"
  /\ ~server.up => gate = "open" /\ loop.at = "free"

LEMMA StopKnowsStep == TypeOK /\ StopKnows /\ [Next]_vars => StopKnows'
<1> SUFFICES ASSUME TypeOK, StopKnows, [Next]_vars PROVE StopKnows'
  OBVIOUS
<1> USE DEF TypeOK
<1>10. ASSUME NEW j \in Jobs, ApproveJob(j) PROVE StopKnows'
  BY <1>10 DEF ApproveJob, StopKnows, intake, Holds, LoopFree, Serving
<1>11. CASE ApproveDecides
  BY <1>11 DEF ApproveDecides, StopKnows, intake
<1>12. CASE ApproveEnqueues
  BY <1>12 DEF ApproveEnqueues, StopKnows, intake, Holds, Free
<1>13. CASE InsertApproval
  BY <1>13 DEF InsertApproval, StopKnows, intake, Holds, Free
<1>14. CASE CreateJob
  BY <1>14 DEF CreateJob, StopKnows, intake, Holds, HandlerCreates, LoopFree, Serving
<1>15. ASSUME NEW j \in Jobs, RetryJob(j) PROVE StopKnows'
  BY <1>15 DEF RetryJob, StopKnows, intake, Holds, HandlerCreates, LoopFree, Serving
<1>16. ASSUME NEW s \in Schedules, RunNow(s) PROVE StopKnows'
  BY <1>16 DEF RunNow, StopKnows, intake, Holds, HandlerCreates, LoopFree, Serving
<1>17. ASSUME NEW j \in Jobs, DenyJob(j) PROVE StopKnows'
  BY <1>17 DEF DenyJob, StopKnows, InState, jobs, consumer, intake
<1>18. CASE DenyDecides
  BY <1>18 DEF DenyDecides, StopKnows, InState, consumer, intake
<1>19. CASE DenyCancels
  BY <1>19 DEF DenyCancels, StopKnows, InState, consumer, intake, WithStatus, Active
<1>20. CASE Tick
  BY <1>20 DEF Tick, StopKnows, intake, Holds, LoopFree, Serving
<1>21. CASE TickCreates
  BY <1>21 DEF TickCreates, StopKnows, intake
<1>22. CASE TickFails
  BY <1>22 DEF TickFails, StopKnows, intake, Holds, Free
<1>23. CASE TickMoves
  BY <1>23 DEF TickMoves, StopKnows, intake, Holds, Free, AfterMove
<1>24. CASE WorkerTakes
  BY <1>24 DEF WorkerTakes, StopKnows, InState, jobs, intake, Holds, TypesInMemory, Active, LoopFree
<1>25. CASE WorkerStarts
  BY <1>25 DEF WorkerStarts, StopKnows, intake, Holds, Free
<1>26. CASE RunnerEnds
  BY <1>26 DEF RunnerEnds, StopKnows, intake, Holds, LoopFree
<1>27. CASE WorkerSettles
  BY <1>27 DEF WorkerSettles, StopKnows, intake, Holds, Free
<1>28. CASE StopCloses
  BY <1>28 DEF StopCloses, StopKnows, Holds, Free, LoopFree
<1>29. CASE StopCancels
  BY <1>29 DEF StopCancels, StopKnows, InState, jobs, Holds, Free, LoopFree
<1>30. CASE WorkerCancelled
  BY <1>30 DEF WorkerCancelled, StopKnows, InState, intake, WithStatus, Off
<1>31. CASE StopDrains
  BY <1>31 DEF StopDrains, StopKnows, InState, jobs, intake, Holds
<1>32. ASSUME NEW j \in Jobs, StopCancelsJob(j) PROVE StopKnows'
  BY <1>32 DEF StopCancelsJob, StopKnows, InState, consumer, WithStatus, Active
<1>33. CASE StopEnds
  BY <1>33 DEF StopEnds, StopKnows, InState, jobs, Holds, Free, Idle, WorkerAfterStop
<1>34. CASE ResumeIntake
  BY <1>34 DEF ResumeIntake, StopKnows, NoStop
<1>35. CASE Start
  BY <1>35 DEF Start, StopKnows, intake
<1>36. CASE Crash
  BY <1>36 DEF Crash, StopKnows, Holds, Free, MemoryIsLost, NoStop
<1>37. CASE Shutdown
  BY <1>37 DEF Shutdown, StopKnows, Holds, Free, MemoryIsLost, NoStop
<1>38. CASE UNCHANGED <<jobs, consumer, loop, deny, intake, stray, server>>
  BY <1>38 DEF StopKnows, InState, jobs, consumer, intake
<1> QED BY <1>10, <1>11, <1>12, <1>13, <1>14, <1>15, <1>16, <1>17, <1>18, <1>19, <1>20, <1>21,
            <1>22, <1>23, <1>24, <1>25, <1>26, <1>27, <1>28, <1>29, <1>30, <1>31, <1>32, <1>33,
            <1>34, <1>35, <1>36, <1>37, <1>38 DEF Next, Section, User, Stopping, CreateSchedule,
            PauseSchedule, ResumeSchedule, DeleteSchedule, TimePasses, vars

(* From the answer of an emergency stop until the intake is opened again, no *)
(* job is queued or runs.                                                    *)
THEOREM EmergencyStopIsSafe == Spec => []EmergencyStopHolds
<1>1. Init => StopKnows
  BY DEF Init, StopKnows, InState, Active, NoStop, Free, Holds
<1>2. StopKnows => EmergencyStopHolds
  BY DEF StopKnows, EmergencyStopHolds
<1> QED BY JobTypes, <1>1, StopKnowsStep, <1>2, PTL DEF Spec

-----------------------------------------------------------------------------
(* What a section carries: only a tick has made jobs, only an unguarded one  *)
(* of them is queued, and the worker waits while its statements are under    *)
(* way.                                                                      *)
TickAt == {"tick", "ask", "move"}

LoopCarries ==
  /\ loop.at \notin TickAt \/ loop.due = <<>> => loop.made = <<>>
  /\ loop.at \in {"ask", "move"} /\ guarded[loop.job] => status[loop.job] # "queued"
  /\ loop.at \in {"mark", "settle"} => worker.at = "get"

LEMMA EmptyIsShort == \A seq : Len(seq) > 0 => seq # <<>>
OBVIOUS

LEMMA LoopCarriesStep == TypeOK /\ StopKnows /\ LoopCarries /\ [Next]_vars => LoopCarries'
<1> SUFFICES ASSUME TypeOK, StopKnows, LoopCarries, [Next]_vars PROVE LoopCarries'
  OBVIOUS
<1> USE DEF TypeOK
<1>h. \A at, j : /\ Holds(at, j).at = at /\ Holds(at, j).job = j
                 /\ Holds(at, j).due = <<>> /\ Holds(at, j).made = <<>>
  BY DEF Holds
<1>f. Free.at = "free" /\ Free.made = <<>>
  BY DEF Free, Holds
<1>1. ASSUME NEW needsApproval \in BOOLEAN, HandlerCreates(needsApproval) PROVE LoopCarries'
  <2>1. PICK j \in Jobs : /\ CreateRow(j, needsApproval, NoOccurrence)
                          /\ \/ needsApproval /\ loop' = Holds("ask", j)
                             \/ ~needsApproval /\ UNCHANGED loop
    BY <1>1 DEF HandlerCreates
  <2>2. CASE needsApproval /\ loop' = Holds("ask", j)
    <3>1. status'[j] = "waiting_approval"
      BY <2>1, <2>2 DEF CreateRow, CreatedStatus, TypesOfRows
    <3> QED BY <2>2, <3>1, <1>h DEF LoopCarries, TickAt
  <2>3. CASE ~needsApproval /\ UNCHANGED loop
    <3>1. UNCHANGED worker
      BY <1>1 DEF HandlerCreates
    <3>2. loop.at \in {"ask", "move"} => loop.job \in Jobs /\ loop.job # j
      BY <2>1 DEF MemoryFitsRows, HasJob, CreateRow
    <3>3. \A i \in Jobs \ {j} : status'[i] = status[i] /\ guarded'[i] = guarded[i]
      BY <2>1 DEF CreateRow, TypesOfRows
    <3> QED BY <2>3, <3>1, <3>2, <3>3 DEF LoopCarries
  <2> QED BY <2>1, <2>2, <2>3
\* the section stays, and what it holds is not queued meanwhile
<1>2. ASSUME UNCHANGED <<loop, guarded>>, worker' = worker \/ loop.at \notin {"mark", "settle"},
             \A j \in Jobs : status'[j] = "queued" => status[j] = "queued"
      PROVE  LoopCarries'
  BY <1>2 DEF LoopCarries, MemoryFitsRows, HasJob
<1>3. ASSUME loop' = Free \/ \E at \in {"approve", "release", "stop"} : \E j : loop' = Holds(at, j)
      PROVE  LoopCarries'
  BY <1>3, <1>h, <1>f DEF LoopCarries, TickAt
<1>10. ASSUME NEW j \in Jobs, ApproveJob(j) PROVE LoopCarries'
  BY <1>10, <1>3 DEF ApproveJob
<1>11. CASE ApproveDecides
  BY <1>11 DEF ApproveDecides, LoopCarries, TickAt
<1>12. CASE ApproveEnqueues
  BY <1>12, <1>3 DEF ApproveEnqueues
<1>13. CASE InsertApproval
  BY <1>13, <1>f DEF InsertApproval, LoopCarries, TickAt, TypesInMemory, Sections
<1>14. CASE CreateJob
  BY <1>14, <1>1 DEF CreateJob
<1>15. ASSUME NEW j \in Jobs, RetryJob(j) PROVE LoopCarries'
  BY <1>15, <1>1 DEF RetryJob, TypesOfRows
<1>16. ASSUME NEW s \in Schedules, RunNow(s) PROVE LoopCarries'
  <2>1. (s \in Guarded) \in BOOLEAN
    OBVIOUS
  <2> QED BY <1>16, <2>1, <1>1 DEF RunNow
<1>17. ASSUME NEW j \in Jobs, DenyJob(j) PROVE LoopCarries'
  BY <1>17, <1>2 DEF DenyJob, jobs, consumer
<1>18. CASE DenyDecides
  BY <1>18, <1>2 DEF DenyDecides, consumer
<1>19. CASE DenyCancels
  BY <1>19, <1>2 DEF DenyCancels, consumer, WithStatus
<1>20. CASE Tick
  <2>1. loop'.at = "tick" /\ loop'.made = <<>>
    BY <1>20, <1>h DEF Tick, Holds
  <2> QED BY <2>1 DEF LoopCarries, TickAt
<1>21. CASE TickCreates
  <2>1. PICK j \in Jobs : /\ CreateRow(j, loop.due[1][1] \in Guarded,
                                       <<loop.due[1][1], loop.due[1][2], server.life>>)
                          /\ loop' = [loop EXCEPT !.job = j,
                               !.at = IF loop.due[1][1] \in Guarded THEN "ask" ELSE "move"]
    BY <1>21 DEF TickCreates
  <2>2. loop'.job = j /\ loop'.due = loop.due /\ loop'.at \in {"ask", "move"}
    BY <2>1 DEF TypesInMemory, Sections
  <2>4. Len(loop.due) > 0
    BY <1>21 DEF TickCreates, MemoryFitsRows
  <2>5. loop'.due # <<>>
    BY <2>2, <2>4
  <2>3. guarded'[j] => status'[j] = "waiting_approval"
    BY <2>1 DEF CreateRow, CreatedStatus, TypesOfRows
  <2> QED BY <2>2, <2>3, <2>5 DEF LoopCarries, TickAt
<1>22. CASE TickFails
  BY <1>22, <1>3 DEF TickFails
<1>23. CASE TickMoves
  <2> DEFINE made == IF guarded[loop.job] THEN loop.made ELSE Append(loop.made, loop.job)
  <2>1. \/ loop' = [at |-> "tick", job |-> NoJob, due |-> Tail(loop.due), made |-> made]
           /\ Len(loop.due) > 1
        \/ loop' = Free
    BY <1>23 DEF TickMoves, AfterMove
  <2>2. CASE loop' = [at |-> "tick", job |-> NoJob, due |-> Tail(loop.due), made |-> made]
             /\ Len(loop.due) > 1
    <3> HIDE DEF made
    <3>1. Len(Tail(loop.due)) > 0
      <4>1. loop.due \in Seq(Slots)
        BY DEF TypesInMemory, Sections
      <4>2. Len(Tail(loop.due)) = Len(loop.due) - 1 /\ Len(loop.due) \in Nat
        BY <2>2, <4>1
      <4> QED BY <2>2, <4>2
    <3>2. loop'.at = "tick" /\ loop'.due = Tail(loop.due)
      BY <2>2
    <3>3. loop'.due # <<>>
      BY <3>1, <3>2, EmptyIsShort
    <3> QED BY <3>2, <3>3 DEF LoopCarries, TickAt
  <2>3. CASE loop' = Free
    BY <2>3, <1>3
  <2> QED BY <2>1, <2>2, <2>3
<1>24. CASE WorkerTakes
  BY <1>24, <1>h DEF WorkerTakes, LoopFree, Free, LoopCarries, TickAt, jobs
<1>25. CASE WorkerStarts
  BY <1>25, <1>3 DEF WorkerStarts
<1>26. CASE RunnerEnds
  BY <1>26, <1>h DEF RunnerEnds, LoopFree, Free, LoopCarries, TickAt, jobs, Idle
<1>27. CASE WorkerSettles
  BY <1>27, <1>3 DEF WorkerSettles
<1>28. CASE StopCloses
  BY <1>28, <1>2 DEF StopCloses, jobs, consumer
<1>29. CASE StopCancels
  BY <1>29, <1>2 DEF StopCancels, jobs, consumer
<1>30. CASE WorkerCancelled
  BY <1>30, <1>2, <1>f DEF WorkerCancelled, WithStatus, LoopFree
<1>31. CASE StopDrains
  BY <1>31, <1>3 DEF StopDrains
<1>32. ASSUME NEW j \in Jobs, StopCancelsJob(j) PROVE LoopCarries'
  BY <1>32, <1>2 DEF StopCancelsJob, WithStatus, consumer
<1>33. CASE StopEnds
  BY <1>33, <1>3 DEF StopEnds
<1>34. CASE ResumeIntake
  BY <1>34, <1>2 DEF ResumeIntake, jobs, consumer
<1>35. CASE Start
  <2>1. loop.at \notin {"mark", "settle"} /\ UNCHANGED <<loop, guarded>>
    BY <1>35 DEF Start, StopKnows
  <2> QED BY <1>35, <2>1, <1>2 DEF Start, Recovered, WithStatus
<1>36. CASE Crash
  BY <1>36, <1>3 DEF Crash, MemoryIsLost
<1>37. CASE Shutdown
  BY <1>37, <1>3 DEF Shutdown, MemoryIsLost
<1>38. CASE UNCHANGED <<jobs, consumer, loop, deny, intake, stray, server>>
  BY <1>38, <1>2 DEF jobs, consumer
<1> QED BY <1>10, <1>11, <1>12, <1>13, <1>14, <1>15, <1>16, <1>17, <1>18, <1>19, <1>20, <1>21,
            <1>22, <1>23, <1>24, <1>25, <1>26, <1>27, <1>28, <1>29, <1>30, <1>31, <1>32, <1>33,
            <1>34, <1>35, <1>36, <1>37, <1>38 DEF Next, Section, User, Stopping, CreateSchedule,
            PauseSchedule, ResumeSchedule, DeleteSchedule, TimePasses, vars

-----------------------------------------------------------------------------
LEMMA RangeOfAppend ==
  ASSUME NEW S, NEW seq \in Seq(S), NEW e \in S
  PROVE  Range(Append(seq, e)) = Range(seq) \cup {e}
<1>1. /\ Append(seq, e) \in Seq(S)
      /\ Len(Append(seq, e)) = Len(seq) + 1
      /\ \A i \in 1..Len(seq) : Append(seq, e)[i] = seq[i]
      /\ Append(seq, e)[Len(seq) + 1] = e
      /\ Len(seq) \in Nat
  OBVIOUS
<1>2. /\ Range(seq) = {seq[i] : i \in 1..Len(seq)}
      /\ Range(Append(seq, e)) = {Append(seq, e)[i] : i \in 1..(Len(seq) + 1)}
  BY <1>1 DEF Range
<1> QED BY <1>1, <1>2

LEMMA RangeOfTail ==
  ASSUME NEW S, NEW seq \in Seq(S), seq # <<>>
  PROVE  Range(seq) = {Head(seq)} \cup Range(Tail(seq))
<1>1. /\ Tail(seq) \in Seq(S) /\ Len(seq) \in Nat \ {0}
      /\ Len(Tail(seq)) = Len(seq) - 1
      /\ \A i \in 1..(Len(seq) - 1) : Tail(seq)[i] = seq[i + 1]
      /\ Head(seq) = seq[1]
  BY HeadTailProperties, EmptySeq, LenProperties
<1> DEFINE tail == Tail(seq)
<1>5. Range(tail) = {tail[i] : i \in 1..Len(tail)}
  <2> HIDE DEF tail
  <2> QED BY <1>1, RangeEquality DEF tail
<1>2. /\ Range(seq) = {seq[i] : i \in 1..Len(seq)}
      /\ Range(Tail(seq)) = {Tail(seq)[i] : i \in 1..(Len(seq) - 1)}
  BY <1>1, <1>5, RangeEquality
<1>3. ASSUME NEW x \in Range(seq) PROVE x \in {Head(seq)} \cup Range(Tail(seq))
  <2>1. PICK i \in 1..Len(seq) : x = seq[i]
    BY <1>2, <1>3
  <2>2. CASE i = 1
    BY <2>1, <2>2, <1>1
  <2>3. CASE i # 1
    <3>1. i - 1 \in 1..(Len(seq) - 1) /\ (i - 1) + 1 = i
      BY <2>3, <1>1
    <3>2. Tail(seq)[i - 1] = x
      BY <3>1, <2>1, <1>1
    <3> QED BY <3>1, <3>2, <1>2
  <2> QED BY <2>2, <2>3
<1>4. ASSUME NEW x \in {Head(seq)} \cup Range(Tail(seq)) PROVE x \in Range(seq)
  BY <1>1, <1>2
<1> QED BY <1>3, <1>4

(* A listing without repetitions lists the whole set. *)
LEMMA ListingCovers ==
  ASSUME NEW S, IsFiniteSet(S), NEW order \in Listings(S),
         \A a, b \in DOMAIN order : a < b => order[a] # order[b]
  PROVE  Range(order) = S
<1> DEFINE n == Cardinality(S)
<1>1. n \in Nat /\ IsFiniteSet(1..n) /\ Cardinality(1..n) = n
  BY FS_CardinalityType, FS_Interval
<1>2. order \in [1..n -> S]
  BY DEF Listings
<1>3. \A a, b \in 1..n : order[a] = order[b] => a = b
  BY <1>1, <1>2
<1>4. order \in Injection(1..n, S)
  BY <1>2, <1>3 DEF Injection, IsInjective
<1>5. order \in Surjection(1..n, S)
  BY <1>1, <1>4, FS_Injection, FS_Surjection, FS_Bijection
<1> QED BY <1>2, <1>5 DEF Surjection, Range

-----------------------------------------------------------------------------
(* The running job is the worker's. *)

LEMMA RunningStep ==
  TypeOK /\ StopKnows /\ LoopCarries /\ RunningIsRun /\ [Next]_vars => RunningIsRun'
<1> SUFFICES ASSUME TypeOK, StopKnows, LoopCarries, RunningIsRun, [Next]_vars PROVE RunningIsRun'
  OBVIOUS
<1> USE DEF TypeOK
<1>h. \A at, j : Holds(at, j).at = at /\ Holds(at, j).job = j
  BY DEF Holds
<1>f. Free.at = "free"
  BY DEF Free, Holds
\* nothing starts to run, and the section is not one that accounts for a running job
<1>2. ASSUME worker' = worker, server'.up => server.up,
             loop.at \notin {"settle", "stop"} \/ UNCHANGED <<loop, stop>>,
             \A j \in Jobs : status'[j] = "running" => status[j] = "running"
      PROVE  RunningIsRun'
  BY <1>2 DEF RunningIsRun, InState
<1>1. ASSUME NEW needsApproval \in BOOLEAN, HandlerCreates(needsApproval), LoopFree
      PROVE  RunningIsRun'
  <2>1. \A j \in Jobs : status'[j] = "running" => status[j] = "running"
    BY <1>1 DEF HandlerCreates, CreateRow, CreatedStatus, TypesOfRows
  <2> QED BY <1>1, <1>2, <2>1, <1>f DEF HandlerCreates, LoopFree
<1>10. ASSUME NEW j \in Jobs, ApproveJob(j) PROVE RunningIsRun'
  BY <1>10, <1>2, <1>f DEF ApproveJob, Serving, LoopFree, jobs, consumer
<1>11. CASE ApproveDecides
  BY <1>11, <1>2 DEF ApproveDecides, consumer
<1>12. CASE ApproveEnqueues
  BY <1>12, <1>2 DEF ApproveEnqueues, WithStatus
<1>13. CASE InsertApproval
  BY <1>13, <1>2 DEF InsertApproval, consumer
<1>14. CASE CreateJob
  BY <1>14, <1>1 DEF CreateJob, Serving
<1>15. ASSUME NEW j \in Jobs, RetryJob(j) PROVE RunningIsRun'
  BY <1>15, <1>1 DEF RetryJob, TypesOfRows, Serving
<1>16. ASSUME NEW s \in Schedules, RunNow(s) PROVE RunningIsRun'
  <2>1. (s \in Guarded) \in BOOLEAN
    OBVIOUS
  <2> QED BY <1>16, <2>1, <1>1 DEF RunNow, Serving
<1>17. ASSUME NEW j \in Jobs, DenyJob(j) PROVE RunningIsRun'
  BY <1>17, <1>2 DEF DenyJob, jobs, consumer, intake
<1>18. CASE DenyDecides
  BY <1>18, <1>2 DEF DenyDecides, consumer, intake
<1>19. CASE DenyCancels
  BY <1>19, <1>2 DEF DenyCancels, consumer, intake, WithStatus
<1>20. CASE Tick
  BY <1>20, <1>2, <1>f DEF Tick, Serving, LoopFree, jobs, consumer
<1>21. CASE TickCreates
  <2>1. \A j \in Jobs : status'[j] = "running" => status[j] = "running"
    BY <1>21 DEF TickCreates, CreateRow, CreatedStatus, TypesOfRows
  <2> QED BY <1>21, <2>1, <1>2 DEF TickCreates, consumer
<1>22. CASE TickFails
  BY <1>22, <1>2 DEF TickFails, jobs, consumer
<1>23. CASE TickMoves
  BY <1>23, <1>2 DEF TickMoves, jobs
<1>24. CASE WorkerTakes
  BY <1>24, <1>2, <1>f DEF WorkerTakes, LoopFree, jobs
<1>25. CASE WorkerStarts
  <2>1. InState({"running"}) = {}
    BY <1>25 DEF WorkerStarts, LoopCarries, RunningIsRun, InState, StopKnows
  <2>2. \A j \in Jobs : status'[j] = "running" => j = loop.job
    BY <1>25, <2>1 DEF WorkerStarts, WithStatus, InState
  <2> QED BY <1>25, <2>2 DEF WorkerStarts, RunningIsRun, InState
<1>26. CASE RunnerEnds
  BY <1>26, <1>h, <1>f DEF RunnerEnds, LoopFree, RunningIsRun, InState, jobs
<1>27. CASE WorkerSettles
  <2>1. \A j \in Jobs : status'[j] = "running" => status[j] = "running" /\ j # loop.job
    BY <1>27 DEF WorkerSettles, WithStatus
  <2> QED BY <1>27, <2>1 DEF WorkerSettles, RunningIsRun, InState, consumer
<1>28. CASE StopCloses
  BY <1>28, <1>2, <1>f DEF StopCloses, LoopFree, jobs, consumer
<1>29. CASE StopCancels
  BY <1>29, <1>2, <1>f DEF StopCancels, LoopFree, jobs, consumer
<1>30. CASE WorkerCancelled
  <2>1. \A j \in Jobs : status'[j] = "running" => status[j] = "running" /\ j # worker.job
    BY <1>30 DEF WorkerCancelled, WithStatus, Active
  <2> QED BY <1>30, <2>1, <1>f DEF WorkerCancelled, LoopFree, RunningIsRun, InState
<1>31. CASE StopDrains
  BY <1>31, <1>h DEF StopDrains, StopKnows, RunningIsRun, InState, Active, jobs, intake
<1>32. ASSUME NEW j \in Jobs, StopCancelsJob(j) PROVE RunningIsRun'
  <2>1. /\ status'[j] # "running"
        /\ \A i \in Jobs : status'[i] = "running" => status[i] = "running"
    BY <1>32 DEF StopCancelsJob, WithStatus, Active, TypesOfRows
  <2> QED BY <1>32, <2>1 DEF StopCancelsJob, RunningIsRun, InState, consumer, TypesInMemory
<1>33. CASE StopEnds
  BY <1>33 DEF StopEnds, StopKnows, RunningIsRun, InState, jobs
<1>34. CASE ResumeIntake
  BY <1>34, <1>2, <1>f DEF ResumeIntake, LoopFree, jobs, consumer
<1>35. CASE Start
  BY <1>35 DEF Start, Recovered, WithStatus, InState, RunningIsRun
<1>36. CASE Crash
  BY <1>36 DEF Crash, MemoryIsLost, RunningIsRun, TypesInMemory
<1>37. CASE Shutdown
  BY <1>37 DEF Shutdown, MemoryIsLost, RunningIsRun, TypesInMemory
<1>38. CASE UNCHANGED <<jobs, consumer, loop, deny, intake, stray, server>>
  BY <1>38, <1>2 DEF jobs, consumer, intake
<1> QED BY <1>10, <1>11, <1>12, <1>13, <1>14, <1>15, <1>16, <1>17, <1>18, <1>19, <1>20, <1>21,
            <1>22, <1>23, <1>24, <1>25, <1>26, <1>27, <1>28, <1>29, <1>30, <1>31, <1>32, <1>33,
            <1>34, <1>35, <1>36, <1>37, <1>38 DEF Next, Section, User, Stopping, CreateSchedule,
            PauseSchedule, ResumeSchedule, DeleteSchedule, TimePasses, vars

-----------------------------------------------------------------------------
(* No queued job is lost between the statements that hand it on. *)

Enqueued == Range(queue) \cup Range(loop.made) \cup stray

LEMMA EmptyRange == Range(<<>>) = {}
BY DEF Range

LEMMA QueuedStep ==
  TypeOK /\ StopKnows /\ LoopCarries /\ QueuedIsEnqueued /\ [Next]_vars => QueuedIsEnqueued'
<1> SUFFICES ASSUME TypeOK, StopKnows, LoopCarries, QueuedIsEnqueued, [Next]_vars
             PROVE  QueuedIsEnqueued'
  OBVIOUS
<1> USE DEF TypeOK
<1>h. \A at, j : Holds(at, j).at = at /\ Holds(at, j).job = j /\ Holds(at, j).made = <<>>
  BY DEF Holds
<1>f. Free.at = "free" /\ Free.made = <<>>
  BY DEF Free, Holds
<1>q. queue \in Seq(Jobs) /\ loop.made \in Seq(Jobs)
  BY DEF TypesInMemory, Sections
<1>e. server.up => \A j \in InState({"queued"}) :
        j \in Enqueued \/ (loop.at \in {"mark", "move"} /\ loop.job = j)
                       \/ (loop.at = "stop" /\ j \in stop.targets)
  BY DEF QueuedIsEnqueued, Enqueued
<1>g. ASSUME server'.up, \A j \in InState({"queued"})' :
        j \in Enqueued' \/ (loop'.at \in {"mark", "move"} /\ loop'.job = j)
                        \/ (loop'.at = "stop" /\ j \in stop'.targets)
      PROVE QueuedIsEnqueued'
  BY <1>g DEF QueuedIsEnqueued, Enqueued
<1>n. (loop.at \notin TickAt => Range(loop.made) = {})
  BY EmptyRange DEF LoopCarries
<1>u. ~server'.up => QueuedIsEnqueued'
  BY DEF QueuedIsEnqueued
\* what was enqueued stays, what is queued now is enqueued, no section hands on a job
<1>2. ASSUME server'.up => server.up, Enqueued \subseteq Enqueued',
             loop.at \notin {"mark", "move", "stop"} \/ UNCHANGED <<loop, stop>>,
             \A j \in Jobs : status'[j] = "queued" => status[j] = "queued" \/ j \in Enqueued'
      PROVE  QueuedIsEnqueued'
  BY <1>2, <1>e, <1>g, <1>u DEF InState
\* no statement of such a step enqueues
<1>3. ASSUME UNCHANGED <<queue, stray>>, server'.up => server.up,
             \/ loop' = loop /\ stop' = stop
             \/ loop.at \notin TickAt \cup {"mark", "stop"}
             \/ loop.at \notin {"mark", "move", "stop"} /\ loop'.made = loop.made,
             \A j \in Jobs : status'[j] = "queued" => status[j] = "queued"
      PROVE  QueuedIsEnqueued'
  BY <1>3, <1>2, <1>n DEF Enqueued, TickAt
<1>1. ASSUME NEW needsApproval \in BOOLEAN, HandlerCreates(needsApproval), LoopFree
      PROVE  QueuedIsEnqueued'
  <2>1. PICK j \in Jobs : /\ CreateRow(j, needsApproval, NoOccurrence)
                          /\ \/ needsApproval /\ loop' = Holds("ask", j) /\ UNCHANGED queue
                             \/ ~needsApproval /\ queue' = Append(queue, j) /\ UNCHANGED loop
    BY <1>1 DEF HandlerCreates
  <2>2. \A i \in Jobs : status'[i] = "queued" => status[i] = "queued" \/ (~needsApproval /\ i = j)
    BY <2>1 DEF CreateRow, CreatedStatus, TypesOfRows
  <2>3. ASSUME ~needsApproval PROVE Range(queue') = Range(queue) \cup {j}
    <3>1. queue' = Append(queue, j)
      BY <2>1, <2>3
    <3> QED BY <3>1, <1>q, RangeOfAppend
  <2>4. Range(loop.made) = Range(loop'.made) /\ UNCHANGED <<stray, server, stop>>
    BY <1>1, <2>1, <1>f, <1>h DEF LoopFree, HandlerCreates, intake
  <2>5. Enqueued \subseteq Enqueued' /\ (~needsApproval => j \in Enqueued')
    BY <2>1, <2>3, <2>4 DEF Enqueued
  <2> QED BY <1>1, <2>2, <2>4, <2>5, <1>2, <1>f DEF LoopFree
<1>10. ASSUME NEW j \in Jobs, ApproveJob(j) PROVE QueuedIsEnqueued'
  BY <1>10, <1>3, <1>f DEF ApproveJob, Serving, LoopFree, jobs, consumer, TickAt
<1>11. CASE ApproveDecides
  BY <1>11, <1>3 DEF ApproveDecides, consumer, TickAt
<1>12. CASE ApproveEnqueues
  <2>1. loop.job \in Jobs
    BY <1>12 DEF ApproveEnqueues, MemoryFitsRows, HasJob
  <2>2. Range(queue') = Range(queue) \cup {loop.job}
    BY <1>12, <2>1, <1>q, RangeOfAppend DEF ApproveEnqueues
  <2>3. Range(loop.made) = {}
    BY <1>12, <1>n DEF ApproveEnqueues, TickAt
  <2>4. \A i \in Jobs : status'[i] = "queued" => status[i] = "queued" \/ i = loop.job
    BY <1>12 DEF ApproveEnqueues, WithStatus
  <2> QED BY <1>12, <2>2, <2>3, <2>4, <1>2 DEF ApproveEnqueues, Enqueued
<1>13. CASE InsertApproval
  <2>1. Range(loop.made) \subseteq Range(loop'.made)
    <3>1. CASE Len(loop.due) = 0
      <4>1. loop.due \in Seq(Slots)
        BY DEF TypesInMemory, Sections
      <4>2. loop.due = <<>>
        BY <3>1, <4>1, EmptySeq
      <4> QED BY <4>2, EmptyRange DEF LoopCarries
    <3>2. CASE Len(loop.due) # 0
      BY <1>13, <3>2 DEF InsertApproval, TypesInMemory, Sections
    <3> QED BY <3>1, <3>2
  <2> QED BY <1>13, <2>1, <1>2 DEF InsertApproval, Enqueued, consumer
<1>14. CASE CreateJob
  BY <1>14, <1>1 DEF CreateJob, Serving
<1>15. ASSUME NEW j \in Jobs, RetryJob(j) PROVE QueuedIsEnqueued'
  BY <1>15, <1>1 DEF RetryJob, TypesOfRows, Serving
<1>16. ASSUME NEW s \in Schedules, RunNow(s) PROVE QueuedIsEnqueued'
  <2>1. (s \in Guarded) \in BOOLEAN
    OBVIOUS
  <2> QED BY <1>16, <2>1, <1>1 DEF RunNow, Serving
<1>17. ASSUME NEW j \in Jobs, DenyJob(j) PROVE QueuedIsEnqueued'
  BY <1>17, <1>3 DEF DenyJob, jobs, consumer, intake
<1>18. CASE DenyDecides
  BY <1>18, <1>3 DEF DenyDecides, consumer, intake
<1>19. CASE DenyCancels
  BY <1>19, <1>3 DEF DenyCancels, consumer, intake, WithStatus
<1>20. CASE Tick
  BY <1>20, <1>3, <1>f DEF Tick, Serving, LoopFree, jobs, consumer, TickAt
<1>21. CASE TickCreates
  <2> DEFINE s == loop.due[1][1]
  <2>1. PICK j \in Jobs : /\ CreateRow(j, s \in Guarded, <<s, loop.due[1][2], server.life>>)
                          /\ loop' = [loop EXCEPT !.job = j,
                               !.at = IF s \in Guarded THEN "ask" ELSE "move"]
    BY <1>21 DEF TickCreates
  <2>2. \A i \in Jobs : status'[i] = "queued" => status[i] = "queued" \/ (s \notin Guarded /\ i = j)
    BY <2>1 DEF CreateRow, CreatedStatus, TypesOfRows
  <2>3. /\ loop'.made = loop.made /\ loop'.job = j
        /\ (s \notin Guarded => loop'.at = "move")
        /\ UNCHANGED <<queue, stray, server>>
    BY <1>21, <2>1 DEF TickCreates, consumer, TypesInMemory, Sections
  <2>4. loop.at = "tick" /\ Enqueued' = Enqueued
    BY <1>21, <2>3 DEF TickCreates, Enqueued
  <2> HIDE DEF s
  <2> QED BY <2>2, <2>3, <2>4, <1>e, <1>g, <1>u DEF InState
<1>22. CASE TickFails
  BY <1>22, <1>2 DEF TickFails, jobs, consumer, Enqueued
<1>23. CASE TickMoves
  <2> DEFINE made == IF guarded[loop.job] THEN loop.made ELSE Append(loop.made, loop.job)
  <2>1. loop.job \in Jobs
    BY <1>23 DEF TickMoves, MemoryFitsRows, HasJob
  <2>2. /\ Range(loop.made) \subseteq Range(made) /\ made \in Seq(Jobs)
        /\ (~guarded[loop.job] => loop.job \in Range(made))
    BY <2>1, <1>q, RangeOfAppend
  <2>3. /\ loop.at = "move" /\ UNCHANGED <<status, stray, server>>
    BY <1>23 DEF TickMoves, jobs
  <2>9. \/ /\ loop' = [at |-> "tick", job |-> NoJob, due |-> Tail(loop.due), made |-> made]
           /\ queue' = queue
        \/ queue' = queue \o made
    BY <1>23 DEF TickMoves, AfterMove
  <2> HIDE DEF made
  <2>7. (loop'.made = made /\ queue' = queue) \/ queue' = queue \o made
    BY <2>9
  <2>8. Range(queue \o made) = Range(queue) \cup Range(made)
    BY <2>2, <1>q, RangeConcatenation
  <2>4. Range(queue) \cup Range(made) \subseteq Enqueued'
    BY <2>7, <2>8 DEF Enqueued
  <2>5. Enqueued \subseteq Enqueued'
    BY <2>2, <2>3, <2>4 DEF Enqueued
  <2>6. status[loop.job] = "queued" => loop.job \in Enqueued'
    BY <2>2, <2>3, <2>4 DEF LoopCarries
  <2> QED BY <2>3, <2>5, <2>6, <1>e, <1>g, <1>u DEF InState
<1>24. CASE WorkerTakes
  <2>1. queue # <<>> /\ loop.at = "free" /\ Range(loop.made) = {}
    BY <1>24, <1>f, EmptyRange DEF WorkerTakes, LoopFree
  <2>2. Range(queue) = {Head(queue)} \cup Range(queue')
    BY <1>24, <2>1, <1>q, RangeOfTail DEF WorkerTakes
  <2>3. /\ UNCHANGED <<status, stray, server>>
        /\ status[Head(queue)] = "queued" => loop'.at = "mark" /\ loop'.job = Head(queue)
    BY <1>24, <1>h DEF WorkerTakes, jobs
  <2>4. Enqueued \subseteq Enqueued' \cup {Head(queue)}
    BY <2>1, <2>2, <2>3 DEF Enqueued
  <2> QED BY <2>1, <2>3, <2>4, <1>e, <1>g, <1>u DEF InState
<1>25. CASE WorkerStarts
  <2>1. /\ loop.at = "mark" /\ UNCHANGED <<queue, stray, server>>
        /\ \A j \in Jobs : status'[j] = "queued" => status[j] = "queued" /\ j # loop.job
    BY <1>25 DEF WorkerStarts, WithStatus
  <2>2. Enqueued \subseteq Enqueued'
    BY <2>1, <1>n DEF Enqueued, TickAt
  <2> QED BY <2>1, <2>2, <1>e, <1>g, <1>u DEF InState
<1>26. CASE RunnerEnds
  BY <1>26, <1>3, <1>f DEF RunnerEnds, LoopFree, jobs, TickAt
<1>27. CASE WorkerSettles
  BY <1>27, <1>3 DEF WorkerSettles, WithStatus, consumer, TickAt
<1>28. CASE StopCloses
  BY <1>28, <1>3, <1>f DEF StopCloses, LoopFree, jobs, consumer, TickAt
<1>29. CASE StopCancels
  BY <1>29, <1>3, <1>f DEF StopCancels, LoopFree, jobs, consumer, TickAt
<1>30. CASE WorkerCancelled
  BY <1>30, <1>3 DEF WorkerCancelled, WithStatus, intake
<1>31. CASE StopDrains
  <2>1. /\ loop'.at = "stop" /\ UNCHANGED <<status, stop>>
        /\ InState({"queued"}) \subseteq stop.targets
    BY <1>31, <1>h DEF StopDrains, StopKnows, InState, Active, jobs, intake
  <2> QED BY <2>1, <1>g, <1>u DEF InState
<1>32. ASSUME NEW j \in Jobs, StopCancelsJob(j) PROVE QueuedIsEnqueued'
  <2>1. /\ status'[j] # "queued"
        /\ \A i \in Jobs : status'[i] = "queued" => status[i] = "queued"
    BY <1>32 DEF StopCancelsJob, WithStatus, Active, TypesOfRows
  <2>2. /\ stop'.targets = stop.targets \ {j} /\ Enqueued' = Enqueued
        /\ UNCHANGED <<loop, server>> /\ loop.at = "stop"
    BY <1>32 DEF StopCancelsJob, consumer, TypesInMemory, Enqueued
  <2> QED BY <2>1, <2>2, <1>e, <1>g, <1>u DEF InState
<1>33. CASE StopEnds
  <2>1. /\ loop.at = "stop" /\ stop.targets = {} /\ UNCHANGED <<status, server>>
        /\ Enqueued \subseteq Enqueued'
    BY <1>33, <1>n DEF StopEnds, Enqueued, TickAt, jobs
  <2> QED BY <2>1, <1>e, <1>g, <1>u DEF InState
<1>34. CASE ResumeIntake
  BY <1>34, <1>3, <1>f DEF ResumeIntake, LoopFree, jobs, consumer, TickAt
<1>35. CASE Start
  <2>0. IsFiniteSet(Jobs)
    BY BoundsAreNat, FS_Interval DEF Jobs
  <2>1. Requeued \subseteq Jobs /\ IsFiniteSet(Requeued)
    BY <2>0, FS_Subset DEF Requeued
  <2>2. PICK order \in Listings(Requeued) :
          queue' = order /\ \A a, b \in DOMAIN order : a < b => order[a] > order[b]
    BY <1>35 DEF Start
  <2>3. \A a, b \in DOMAIN order : a < b => order[a] # order[b]
    <3>1. \A i \in Jobs : ~(i > i)
      BY BoundsAreNat DEF Jobs
    <3>2. \A a \in DOMAIN order : order[a] \in Jobs
      BY <2>1 DEF Listings
    <3> QED BY <2>2, <3>1, <3>2
  <2>4. Range(queue') = Requeued
    BY <2>1, <2>2, <2>3, ListingCovers
  <2> QED BY <1>35, <2>4, <1>g, <1>u DEF Start, Requeued, Enqueued, InState
<1>36. CASE Crash
  BY <1>36, <1>u DEF Crash, MemoryIsLost, TypesInMemory
<1>37. CASE Shutdown
  BY <1>37, <1>u DEF Shutdown, MemoryIsLost, TypesInMemory
<1>38. CASE UNCHANGED <<jobs, consumer, loop, deny, intake, stray, server>>
  BY <1>38, <1>3 DEF jobs, consumer, intake
<1> QED BY <1>10, <1>11, <1>12, <1>13, <1>14, <1>15, <1>16, <1>17, <1>18, <1>19, <1>20, <1>21,
            <1>22, <1>23, <1>24, <1>25, <1>26, <1>27, <1>28, <1>29, <1>30, <1>31, <1>32, <1>33,
            <1>34, <1>35, <1>36, <1>37, <1>38 DEF Next, Section, User, Stopping, CreateSchedule,
            PauseSchedule, ResumeSchedule, DeleteSchedule, TimePasses, vars

(* What the tables say of a job is what the worker, its queue, the section   *)
(* on the event loop or the emergency stop is about to do with it.           *)
THEOREM TablesStayMatched == Spec => []TablesMatchWorker
<1>1. Init => StopKnows /\ LoopCarries /\ TablesMatchWorker
  BY DEF Init, StopKnows, LoopCarries, TablesMatchWorker, QueuedIsEnqueued, RunningIsRun, InState,
         Active, NoStop, Free, Holds, TickAt
<1>2. TypeOK /\ StopKnows /\ LoopCarries /\ TablesMatchWorker /\ [Next]_vars => TablesMatchWorker'
  BY QueuedStep, RunningStep DEF TablesMatchWorker
<1> QED BY JobTypes, <1>1, StopKnowsStep, LoopCarriesStep, <1>2, PTL DEF Spec

-----------------------------------------------------------------------------
(* Settled jobs. *)

SettledHolds ==
  \A j \in InState(Retriable \cup {"succeeded"}) :
    j \notin {loop.job, deny.job} => status'[j] = status[j]

LEMMA SettledStep == TypeOK /\ [Next]_vars => SettledHolds
<1> SUFFICES ASSUME TypeOK, [Next]_vars PROVE SettledHolds
  OBVIOUS
<1> USE DEF TypeOK
\* no status changes
<1>1. ASSUME status' = status PROVE SettledHolds
  BY <1>1 DEF SettledHolds
\* only jobs that are absent, active or held by the section or the denial change
<1>2. ASSUME NEW set, NEW to, status' = WithStatus(set, to),
             \A j \in set \cap Jobs : j \in {loop.job, deny.job} \/ status[j] \in Active
      PROVE  SettledHolds
  BY <1>2 DEF SettledHolds, WithStatus, InState, Active, Retriable
<1>3. ASSUME NEW j \in Jobs, NEW needsApproval, NEW from, CreateRow(j, needsApproval, from)
      PROVE  SettledHolds
  BY <1>3 DEF CreateRow, SettledHolds, InState, Retriable, TypesOfRows
<1>10. ASSUME NEW j \in Jobs, ApproveJob(j) PROVE SettledHolds
  BY <1>10, <1>1 DEF ApproveJob, jobs
<1>11. CASE ApproveDecides
  BY <1>11, <1>1 DEF ApproveDecides
<1>12. CASE ApproveEnqueues
  BY <1>12, <1>2 DEF ApproveEnqueues
<1>13. CASE InsertApproval
  BY <1>13, <1>1 DEF InsertApproval
<1>14. CASE CreateJob
  BY <1>14, <1>3 DEF CreateJob, HandlerCreates
<1>15. ASSUME NEW j \in Jobs, RetryJob(j) PROVE SettledHolds
  BY <1>15, <1>3 DEF RetryJob, HandlerCreates
<1>16. ASSUME NEW s \in Schedules, RunNow(s) PROVE SettledHolds
  BY <1>16, <1>3 DEF RunNow, HandlerCreates
<1>17. ASSUME NEW j \in Jobs, DenyJob(j) PROVE SettledHolds
  BY <1>17, <1>1 DEF DenyJob, jobs
<1>18. CASE DenyDecides
  BY <1>18, <1>1 DEF DenyDecides
<1>19. CASE DenyCancels
  BY <1>19, <1>2 DEF DenyCancels
<1>20. CASE Tick
  BY <1>20, <1>1 DEF Tick, jobs
<1>21. CASE TickCreates
  BY <1>21, <1>3 DEF TickCreates
<1>22. CASE TickFails
  BY <1>22, <1>1 DEF TickFails, jobs
<1>23. CASE TickMoves
  BY <1>23, <1>1 DEF TickMoves, jobs
<1>24. CASE WorkerTakes
  BY <1>24, <1>1 DEF WorkerTakes, jobs
<1>25. CASE WorkerStarts
  BY <1>25, <1>2 DEF WorkerStarts
<1>26. CASE RunnerEnds
  BY <1>26, <1>1 DEF RunnerEnds, jobs
<1>27. CASE WorkerSettles
  BY <1>27, <1>2 DEF WorkerSettles
<1>28. CASE StopCloses
  BY <1>28, <1>1 DEF StopCloses, jobs
<1>29. CASE StopCancels
  BY <1>29, <1>1 DEF StopCancels, jobs
<1>30. CASE WorkerCancelled
  <2> DEFINE set == {j \in Jobs : j = worker.job /\ status[j] \in Active}
  <2>1. \A j \in set \cap Jobs : status[j] \in Active
    OBVIOUS
  <2> QED BY <1>30, <2>1, <1>2 DEF WorkerCancelled
<1>31. CASE StopDrains
  BY <1>31, <1>1 DEF StopDrains, jobs
<1>32. ASSUME NEW j \in Jobs, StopCancelsJob(j) PROVE SettledHolds
  <2>1. CASE status[j] \in Active
    BY <1>32, <2>1, <1>2 DEF StopCancelsJob
  <2>2. CASE status[j] \notin Active
    BY <1>32, <2>2, <1>1 DEF StopCancelsJob
  <2> QED BY <2>1, <2>2
<1>33. CASE StopEnds
  BY <1>33, <1>1 DEF StopEnds, jobs
<1>34. CASE ResumeIntake
  BY <1>34, <1>1 DEF ResumeIntake, jobs
<1>35. CASE Start
  BY <1>35, <1>2 DEF Start, Recovered, InState, Active
<1>36. CASE Crash
  BY <1>36, <1>1 DEF Crash, jobs
<1>37. CASE Shutdown
  <2> DEFINE set == {j \in Jobs : j = worker.job /\ status[j] \in Active}
  <2>1. \A j \in set \cap Jobs : status[j] \in Active
    OBVIOUS
  <2> QED BY <1>37, <2>1, <1>2 DEF Shutdown
<1>38. CASE UNCHANGED <<jobs, consumer, loop, deny, intake, stray, server>>
  BY <1>38, <1>1 DEF jobs
<1> QED BY <1>10, <1>11, <1>12, <1>13, <1>14, <1>15, <1>16, <1>17, <1>18, <1>19, <1>20, <1>21,
            <1>22, <1>23, <1>24, <1>25, <1>26, <1>27, <1>28, <1>29, <1>30, <1>31, <1>32, <1>33,
            <1>34, <1>35, <1>36, <1>37, <1>38 DEF Next, Section, User, Stopping, CreateSchedule,
            PauseSchedule, ResumeSchedule, DeleteSchedule, TimePasses, vars

(* No restart, stop, denial or approval changes the outcome of a settled job *)
(* but the section or the denial that read its status before.                *)
THEOREM SettledIsKept == Spec => SettledStaysSettled
<1>1. TypeOK /\ [Next]_vars => [SettledHolds]_vars
  BY SettledStep
<1> QED BY JobTypes, <1>1, PTL DEF Spec, SettledStaysSettled, SettledHolds

-----------------------------------------------------------------------------
(* A guarded job that is queued, about to start or started had its approval  *)
(* decided, or never got one.                                                *)
Decisions ==
  /\ loop.at = "ask" => guarded[loop.job] /\ starts[loop.job] = 0
  /\ loop.at \in {"release", "mark"} /\ guarded[loop.job] => approval[loop.job] # "pending"
  /\ \A j \in Jobs : guarded[j] /\ (status[j] = "queued" \/ starts[j] > 0) => approval[j] # "pending"

LEMMA DecisionsStep ==
  TypeOK /\ StopKnows /\ LoopCarries /\ NotStarted /\ Decisions /\ [Next]_vars => Decisions'
<1> SUFFICES ASSUME TypeOK, StopKnows, LoopCarries, NotStarted, Decisions, [Next]_vars
             PROVE  Decisions'
  OBVIOUS
<1> USE DEF TypeOK
<1>h. \A at, j : Holds(at, j).at = at /\ Holds(at, j).job = j
  BY DEF Holds
<1>f. Free.at = "free"
  BY DEF Free, Holds
\* no job is made, queued, started or asked about, and no section gets one
<1>2. ASSUME UNCHANGED <<guarded, approval, starts>>,
             loop' = loop \/ loop'.at \notin {"ask", "release", "mark"},
             \A j \in Jobs : status'[j] = "queued" => status[j] = "queued"
      PROVE  Decisions'
  BY <1>2 DEF Decisions
<1>c. ASSUME NEW j \in Jobs, NEW needsApproval \in BOOLEAN, NEW from,
             CreateRow(j, needsApproval, from),
             \/ loop'.at = "ask" /\ loop'.job = j /\ needsApproval
             \/ loop' = loop /\ loop.at \notin {"ask", "release", "mark"}
             \/ loop'.at = "move"
      PROVE  Decisions'
  <2>1. /\ guarded'[j] = needsApproval /\ starts[j] = 0 /\ UNCHANGED <<approval, starts>>
        /\ status'[j] = IF needsApproval THEN "waiting_approval" ELSE "queued"
        /\ \A i \in Jobs \ {j} : status'[i] = status[i] /\ guarded'[i] = guarded[i]
    BY <1>c DEF CreateRow, CreatedStatus, TypesOfRows, NotStarted, InState
  <2> QED BY <1>c, <2>1 DEF Decisions
<1>1. ASSUME NEW needsApproval \in BOOLEAN, HandlerCreates(needsApproval), LoopFree
      PROVE  Decisions'
  BY <1>1, <1>c, <1>h, <1>f DEF HandlerCreates, LoopFree
<1>10. ASSUME NEW j \in Jobs, ApproveJob(j) PROVE Decisions'
  BY <1>10, <1>2, <1>h DEF ApproveJob, jobs
<1>11. CASE ApproveDecides
  <2>1. /\ loop.job \in Jobs /\ UNCHANGED <<status, guarded, starts>> 
        /\ approval'[loop.job] # "pending"
        /\ \A j \in Jobs : approval'[j] = "pending" => approval[j] = "pending"
    BY <1>11 DEF ApproveDecides, Decided, MemoryFitsRows, HasJob, TypesOfRows
  <2>2. loop'.job = loop.job /\ loop'.at = "release"
    BY <1>11 DEF ApproveDecides, TypesInMemory, Sections
  <2> QED BY <2>1, <2>2 DEF Decisions
<1>12. CASE ApproveEnqueues
  BY <1>12, <1>f DEF ApproveEnqueues, WithStatus, Decisions
<1>13. CASE InsertApproval
  <2>1. loop.job \in Jobs /\ status[loop.job] # "queued" /\ starts[loop.job] = 0
    BY <1>13 DEF InsertApproval, LoopCarries, Decisions, MemoryFitsRows, HasJob
  <2>2. loop'.at \in {"free", "move"}
    BY <1>13, <1>f DEF InsertApproval, TypesInMemory, Sections
  <2>3. \A j \in Jobs \ {loop.job} : approval'[j] = approval[j]
    BY <1>13 DEF InsertApproval, TypesOfRows
  <2> QED BY <1>13, <2>1, <2>2, <2>3 DEF InsertApproval, Decisions
<1>14. CASE CreateJob
  BY <1>14, <1>1 DEF CreateJob, Serving
<1>15. ASSUME NEW j \in Jobs, RetryJob(j) PROVE Decisions'
  BY <1>15, <1>1 DEF RetryJob, TypesOfRows, Serving
<1>16. ASSUME NEW s \in Schedules, RunNow(s) PROVE Decisions'
  <2>1. (s \in Guarded) \in BOOLEAN
    OBVIOUS
  <2> QED BY <1>16, <2>1, <1>1 DEF RunNow, Serving
<1>17. ASSUME NEW j \in Jobs, DenyJob(j) PROVE Decisions'
  BY <1>17, <1>2 DEF DenyJob, jobs
<1>18. CASE DenyDecides
  <2>1. \A j \in Jobs : approval'[j] = "pending" => approval[j] = "pending"
    BY <1>18 DEF DenyDecides, Decided, TypesOfRows
  <2>2. loop.at \in {"release", "mark"} => loop.job \in Jobs
    BY DEF MemoryFitsRows, HasJob
  <2> QED BY <1>18, <2>1, <2>2 DEF DenyDecides, Decisions
<1>19. CASE DenyCancels
  BY <1>19, <1>2 DEF DenyCancels, WithStatus
<1>20. CASE Tick
  <2>1. loop'.at = "tick"
    BY <1>20 DEF Tick, Holds
  <2> QED BY <1>20, <2>1, <1>2 DEF Tick, jobs
<1>21. CASE TickCreates
  <2> DEFINE s == loop.due[1][1]
  <2>1. PICK j \in Jobs : /\ CreateRow(j, s \in Guarded, <<s, loop.due[1][2], server.life>>)
                          /\ loop' = [loop EXCEPT !.job = j,
                               !.at = IF s \in Guarded THEN "ask" ELSE "move"]
    BY <1>21 DEF TickCreates
  <2>2. loop'.job = j /\ (s \in Guarded => loop'.at = "ask") /\ (s \notin Guarded => loop'.at = "move")
    BY <2>1 DEF TypesInMemory, Sections
  <2>3. (s \in Guarded) \in BOOLEAN
    OBVIOUS
  <2> HIDE DEF s
  <2> QED BY <2>1, <2>2, <2>3, <1>c
<1>22. CASE TickFails
  BY <1>22, <1>2, <1>f DEF TickFails, jobs
<1>23. CASE TickMoves
  <2>1. loop'.at \in {"tick", "free"}
    BY <1>23, <1>f DEF TickMoves, AfterMove
  <2> QED BY <1>23, <2>1, <1>2 DEF TickMoves, jobs
<1>24. CASE WorkerTakes
  <2>1. Head(queue) \in Jobs
    BY <1>24 DEF WorkerTakes, TypesInMemory
  <2> QED BY <1>24, <2>1, <1>h DEF WorkerTakes, Decisions, jobs
<1>25. CASE WorkerStarts
  <2>1. /\ loop.at = "mark" /\ loop'.at = "free" /\ UNCHANGED <<guarded, approval>>
        /\ \A j \in Jobs : status'[j] = "queued" => status[j] = "queued"
    BY <1>25, <1>f DEF WorkerStarts, WithStatus
  <2>2. \A j \in Jobs : j # loop.job => starts'[j] = starts[j]
    BY <1>25 DEF WorkerStarts, TypesOfRows
  <2> QED BY <2>1, <2>2 DEF Decisions
<1>26. CASE RunnerEnds
  BY <1>26, <1>2, <1>h DEF RunnerEnds, jobs
<1>27. CASE WorkerSettles
  BY <1>27, <1>2, <1>f DEF WorkerSettles, WithStatus
<1>28. CASE StopCloses
  BY <1>28, <1>2 DEF StopCloses, jobs
<1>29. CASE StopCancels
  BY <1>29, <1>2 DEF StopCancels, jobs
<1>30. CASE WorkerCancelled
  BY <1>30, <1>2 DEF WorkerCancelled, WithStatus
<1>31. CASE StopDrains
  BY <1>31, <1>2, <1>h DEF StopDrains, jobs
<1>32. ASSUME NEW j \in Jobs, StopCancelsJob(j) PROVE Decisions'
  BY <1>32, <1>2 DEF StopCancelsJob, WithStatus
<1>33. CASE StopEnds
  BY <1>33, <1>2, <1>f DEF StopEnds, jobs
<1>34. CASE ResumeIntake
  BY <1>34, <1>2 DEF ResumeIntake, jobs
<1>35. CASE Start
  BY <1>35, <1>2 DEF Start, Recovered, WithStatus
<1>36. CASE Crash
  BY <1>36, <1>2, <1>f DEF Crash, MemoryIsLost, jobs
<1>37. CASE Shutdown
  BY <1>37, <1>2, <1>f DEF Shutdown, MemoryIsLost, WithStatus
<1>38. CASE UNCHANGED <<jobs, consumer, loop, deny, intake, stray, server>>
  BY <1>38, <1>2 DEF jobs
<1> QED BY <1>10, <1>11, <1>12, <1>13, <1>14, <1>15, <1>16, <1>17, <1>18, <1>19, <1>20, <1>21,
            <1>22, <1>23, <1>24, <1>25, <1>26, <1>27, <1>28, <1>29, <1>30, <1>31, <1>32, <1>33,
            <1>34, <1>35, <1>36, <1>37, <1>38 DEF Next, Section, User, Stopping, CreateSchedule,
            PauseSchedule, ResumeSchedule, DeleteSchedule, TimePasses, vars

-----------------------------------------------------------------------------
(* Occurrences: while the process lives, a schedule that made a job of an    *)
(* occurrence has moved on, or the tick that made the job is about to move   *)
(* it; what a tick still has to make was not made before.                    *)
Making == loop.at \in {"ask", "move"} /\ Len(loop.due) > 0
Occurrence(slot) == <<slot[1], slot[2], server.life>>

OriginsArePast ==
  \A j \in Jobs : origin[j][2] > 0 =>
    origin[j][1] \in Schedules /\ origin[j][2] <= clock /\ origin[j][3] <= server.life

DueIsNew ==
  \A a \in 1..Len(loop.due) :
    /\ loop.due[a][2] <= clock
    /\ \A b \in 1..Len(loop.due) : a # b => loop.due[a][1] # loop.due[b][1]
    /\ ~(Making /\ a = 1) => \A j \in Jobs : origin[j] # Occurrence(loop.due[a])

MadeNow == Making => origin[loop.job] = Occurrence(loop.due[1])

MovedOn ==
  server.up => \A j \in Jobs :
    origin[j][2] > 0 /\ origin[j][3] = server.life /\ ~(Making /\ loop.job = j) =>
      sched[origin[j][1]] = "deleted" \/ nextRun[origin[j][1]] > origin[j][2]

OccInv == OriginsArePast /\ DueIsNew /\ MadeNow /\ MovedOn /\ OneJobPerOccurrence

LEMMA SlotParts ==
  ASSUME TypeOK
  PROVE  /\ clock \in Nat /\ nextRun \in [Schedules -> Nat] /\ server.life \in Nat
         /\ \A s \in Schedules : nextRun[s] > 0
         /\ loop.due \in Seq(Slots) /\ Len(loop.due) \in Nat
         /\ \A a \in 1..Len(loop.due) :
              loop.due[a][1] \in Schedules /\ loop.due[a][2] \in Nat /\ loop.due[a][2] > 0
         /\ \A j \in Jobs : origin[j][2] \in Nat /\ origin[j][3] \in Nat
<1> USE DEF TypeOK
<1>1. /\ clock \in Nat /\ nextRun \in [Schedules -> Nat]
      /\ \A s \in Schedules : nextRun[s] > 0
  BY BoundsAreNat DEF TypesOfRows
<1>2. loop.due \in Seq(Slots)
  BY DEF TypesInMemory, Sections
<1>3. \A a \in 1..Len(loop.due) : loop.due[a] \in Slots
  BY <1>2
<1>4. \A slot \in Slots : slot[1] \in Schedules /\ slot[2] \in Nat /\ slot[2] > 0
  BY BoundsAreNat DEF Slots
<1>5. \A j \in Jobs : origin[j] \in Occurrences
  BY DEF TypesOfRows
<1>6. \A o \in Occurrences : o[2] \in Nat /\ o[3] \in Nat
  BY BoundsAreNat DEF Occurrences
<1>7. server.life \in Nat
  BY BoundsAreNat DEF TypesInMemory
<1> QED BY <1>1, <1>2, <1>3, <1>4, <1>5, <1>6, <1>7, LenProperties

(* A step that makes no job keeps all this when the schedules only move on   *)
(* and the section keeps its tick or has none.                               *)
LEMMA OccKept ==
  ASSUME TypeOK, OccInv, UNCHANGED <<origin, server>>, clock' \in Nat, clock <= clock',
         nextRun' \in [Schedules -> Nat],
         \A s \in Schedules : \/ sched'[s] = "deleted"
                              \/ sched[s] # "deleted" /\ nextRun'[s] > clock
                              \/ sched[s] # "deleted" /\ nextRun'[s] = nextRun[s],
         \/ loop'.due = loop.due /\ loop'.job = loop.job /\ (Making' <=> Making)
         \/ ~Making /\ loop'.due = <<>>
  PROVE  OccInv'
<1>1. OriginsArePast' /\ OneJobPerOccurrence'
  BY SlotParts DEF OccInv, OriginsArePast, OneJobPerOccurrence
<1>4. ASSUME NEW j \in Jobs, origin[j][2] > 0,
             sched[origin[j][1]] = "deleted" \/ nextRun[origin[j][1]] > origin[j][2]
      PROVE  sched'[origin[j][1]] = "deleted" \/ nextRun'[origin[j][1]] > origin[j][2]
  <2>1. PICK s \in Schedules : s = origin[j][1]
    BY <1>4 DEF OccInv, OriginsArePast
  <2>2. origin[j][2] <= clock /\ origin[j][2] \in Nat /\ clock \in Nat
    BY <1>4, SlotParts DEF OccInv, OriginsArePast
  <2>3. nextRun'[s] \in Nat /\ nextRun[s] \in Nat
    BY SlotParts
  <2>4. nextRun'[s] > clock => nextRun'[s] > origin[j][2]
    BY <2>2, <2>3
  <2> QED BY <1>4, <2>1, <2>4
<1>2. CASE ~Making /\ loop'.due = <<>>
  <2>1. ~Making' /\ 1..Len(loop'.due) = {}
    BY <1>2 DEF Making
  <2>2. DueIsNew' /\ MadeNow'
    BY <2>1 DEF DueIsNew, MadeNow
  <2>3. MovedOn'
    BY <1>2, <1>4 DEF OccInv, MovedOn
  <2> QED BY <1>1, <2>2, <2>3 DEF OccInv
<1>3. CASE loop'.due = loop.due /\ loop'.job = loop.job /\ (Making' <=> Making)
  <2>1. \A a \in 1..Len(loop.due) : loop.due[a][2] <= clock => loop.due[a][2] <= clock'
    BY SlotParts
  <2>2. DueIsNew' /\ MadeNow'
    BY <1>3, <2>1 DEF OccInv, DueIsNew, MadeNow, Occurrence
  <2>3. MovedOn'
    BY <1>3, <1>4 DEF OccInv, MovedOn
  <2> QED BY <1>1, <2>2, <2>3 DEF OccInv
<1> QED BY <1>2, <1>3

LEMMA OccStep == TypeOK /\ StopKnows /\ OccInv /\ [Next]_vars => OccInv'
<1> SUFFICES ASSUME TypeOK, StopKnows, OccInv, [Next]_vars PROVE OccInv'
  OBVIOUS
<1>h. \A at, j : Holds(at, j).at = at /\ Holds(at, j).job = j /\ Holds(at, j).due = <<>>
  BY DEF Holds
<1>f. Free.at = "free" /\ Free.due = <<>>
  BY DEF Free, Holds
<1>s. loop \in Sections
  BY DEF TypeOK, TypesInMemory
\* schedules stay; the section keeps its tick or was none
<1>2. ASSUME UNCHANGED <<plans, origin, server>>,
             \/ loop'.due = loop.due /\ loop'.job = loop.job /\ (Making' <=> Making)
             \/ ~Making /\ loop'.due = <<>>
      PROVE  OccInv'
  BY <1>2, OccKept, SlotParts DEF plans
<1>3. ASSUME UNCHANGED <<plans, origin, server, loop>> PROVE OccInv'
  <2>1. loop'.due = loop.due /\ loop'.job = loop.job /\ (Making' <=> Making)
    BY <1>3 DEF Making
  <2> QED BY <1>3, <2>1, <1>2
<1>4. ASSUME UNCHANGED <<plans, origin, server>>, loop.at \notin {"ask", "move"},
             \/ loop' = Free \/ \E at, j : loop' = Holds(at, j)
      PROVE  OccInv'
  BY <1>2, <1>4, <1>f, <1>h DEF Making
\* a user changes a schedule
<1>5. ASSUME NEW s \in Schedules, UNCHANGED <<origin, server, loop, clock>>,
             NEW to \in {"enabled", "paused", "deleted"}, SetSchedule(s, to),
             \/ to = "deleted" /\ nextRun' = [nextRun EXCEPT ![s] = 1]
             \/ sched[s] # "deleted" /\ SetNextRun(s)
             \/ sched[s] # "deleted" /\ nextRun' = nextRun
      PROVE  OccInv'
  <2>1. loop'.due = loop.due /\ loop'.job = loop.job /\ (Making' <=> Making)
    BY <1>5 DEF Making
  <2>2. clock' \in Nat /\ clock <= clock' /\ nextRun' \in [Schedules -> Nat]
    BY <1>5, SlotParts DEF SetNextRun
  <2>3. sched \in [Schedules -> {"absent", "enabled", "paused", "deleted"}]
    BY DEF TypeOK, TypesOfRows
  <2>4. ASSUME NEW r \in Schedules
        PROVE  \/ sched'[r] = "deleted"
               \/ sched[r] # "deleted" /\ nextRun'[r] > clock
               \/ sched[r] # "deleted" /\ nextRun'[r] = nextRun[r]
    <3>1. CASE r # s
      BY <1>5, <2>3, <3>1, SlotParts DEF SetSchedule, SetNextRun
    <3>2. CASE r = s
      <4>1. sched'[r] = to
        BY <1>5, <2>3, <3>2 DEF SetSchedule
      <4>2. SetNextRun(s) => nextRun'[r] = clock + 1 /\ clock + 1 > clock
        BY <3>2, SlotParts DEF SetNextRun
      <4> QED BY <1>5, <3>2, <4>1, <4>2
    <3> QED BY <3>1, <3>2
  <2> QED BY <1>5, <2>1, <2>2, <2>4, OccKept
\* a job without an occurrence is made
<1>1. ASSUME NEW needsApproval, HandlerCreates(needsApproval), LoopFree PROVE OccInv'
  <2>1. PICK j \in Jobs : /\ CreateRow(j, needsApproval, NoOccurrence)
                          /\ loop' = Holds("ask", j) \/ loop' = loop
    BY <1>1 DEF HandlerCreates
  <2>2. UNCHANGED <<plans, server>>
    BY <1>1 DEF HandlerCreates
  <2>3. /\ origin'[j][2] = 0 /\ \A i \in Jobs \ {j} : origin'[i] = origin[i]
        /\ \A slot : slot[2] > 0 => origin'[j] # <<slot[1], slot[2], server.life>>
    BY <2>1 DEF CreateRow, NoOccurrence, TypeOK, TypesOfRows
  <2>4. ~Making /\ ~Making' /\ loop'.due = <<>>
    BY <1>1, <2>1, <1>f, <1>h DEF LoopFree, Making
  <2>5. 1..Len(loop'.due) = {}
    BY <2>4
  <2>6. DueIsNew' /\ MadeNow'
    BY <2>4, <2>5 DEF DueIsNew, MadeNow
  <2>7. OriginsArePast' /\ MovedOn' /\ OneJobPerOccurrence'
    BY <2>2, <2>3, <2>4 DEF OccInv, OriginsArePast, MovedOn, OneJobPerOccurrence, plans
  <2> QED BY <2>6, <2>7 DEF OccInv
<1>10. ASSUME NEW j \in Jobs, ApproveJob(j) PROVE OccInv'
  BY <1>10, <1>4, <1>f DEF ApproveJob, jobs, Serving, LoopFree
<1>11. CASE ApproveDecides
  <2>1. loop'.due = loop.due /\ loop'.job = loop.job /\ (Making' <=> Making)
    BY <1>11, <1>s DEF ApproveDecides, Sections, Making
  <2> QED BY <1>11, <2>1, <1>2 DEF ApproveDecides
<1>12. CASE ApproveEnqueues
  BY <1>12, <1>4 DEF ApproveEnqueues
<1>13. CASE InsertApproval
  <2>1. CASE Len(loop.due) = 0
    BY <1>13, <2>1, <1>2, <1>f DEF InsertApproval, Making
  <2>2. CASE Len(loop.due) # 0
    <3>1. loop'.due = loop.due /\ loop'.job = loop.job /\ (Making' <=> Making)
      BY <1>13, <2>2, <1>s DEF InsertApproval, Sections, Making
    <3> QED BY <1>13, <3>1, <1>2 DEF InsertApproval
  <2> QED BY <2>1, <2>2
<1>14. CASE CreateJob
  BY <1>14, <1>1 DEF CreateJob, Serving
<1>15. ASSUME NEW j \in Jobs, RetryJob(j) PROVE OccInv'
  BY <1>15, <1>1 DEF RetryJob, Serving
<1>16. ASSUME NEW s \in Schedules, RunNow(s) PROVE OccInv'
  BY <1>16, <1>1 DEF RunNow, Serving
<1>17. ASSUME NEW j \in Jobs, DenyJob(j) PROVE OccInv'
  BY <1>17, <1>3 DEF DenyJob, jobs
<1>18. CASE DenyDecides
  BY <1>18, <1>3 DEF DenyDecides
<1>19. CASE DenyCancels
  BY <1>19, <1>3 DEF DenyCancels
<1>20. CASE Tick
  <2>1. PICK order \in Listings(Due) :
          /\ \A a, b \in DOMAIN order :
               a < b => order[a] # order[b] /\ nextRun[order[a]] <= nextRun[order[b]]
          /\ loop' = [Holds("tick", NoJob) EXCEPT
                        !.due = [i \in DOMAIN order |-> <<order[i], nextRun[order[i]]>>]]
    BY <1>20 DEF Tick
  <2>2. order \in Seq(Due)
    BY <2>1, KindsOfSchedules, FS_Subset, ListingIsSequence DEF Due
  <2>3. /\ loop'.at = "tick" /\ loop'.due = [i \in DOMAIN order |-> <<order[i], nextRun[order[i]]>>]
        /\ UNCHANGED <<plans, origin, server>> /\ server.up /\ loop.at = "free"
    BY <1>20, <2>1, <1>f DEF Tick, Holds, jobs, Serving, LoopFree
  <2>4. Len(loop'.due) = Len(order) /\ DOMAIN order = 1..Len(order) /\ Len(order) \in Nat
    BY <2>2, <2>3
  <2>5. ~Making /\ ~Making'
    BY <2>3 DEF Making
  <2>6. OriginsArePast' /\ MovedOn' /\ OneJobPerOccurrence' /\ MadeNow'
    BY <2>3, <2>5 DEF OccInv, OriginsArePast, MovedOn, OneJobPerOccurrence, MadeNow, plans
  <2>7. ASSUME NEW a \in 1..Len(order)
        PROVE  /\ loop'.due[a][2] <= clock'
               /\ \A b \in 1..Len(order) : a # b => loop'.due[a][1] # loop'.due[b][1]
               /\ \A j \in Jobs : origin'[j] # <<loop'.due[a][1], loop'.due[a][2], server'.life>>
    <3>1. /\ order[a] \in Schedules /\ sched[order[a]] = "enabled" /\ nextRun[order[a]] <= clock
          /\ loop'.due[a] = <<order[a], nextRun[order[a]]>>
      BY <2>2, <2>3, <2>4 DEF Due
    <3>2. \A b \in 1..Len(order) : loop'.due[b] = <<order[b], nextRun[order[b]]>>
      BY <2>3, <2>4
    <3>3. \A b \in 1..Len(order) : a # b => order[a] # order[b]
      BY <2>1, <2>4
    <3>4. ASSUME NEW j \in Jobs, origin[j] = <<order[a], nextRun[order[a]], server.life>>
          PROVE  FALSE
      <4>1. origin[j][1] = order[a] /\ origin[j][2] = nextRun[order[a]] /\ origin[j][3] = server.life
        BY <3>4
      <4>2. nextRun[order[a]] \in Nat /\ nextRun[order[a]] > 0
        BY <3>1, SlotParts
      <4>3. sched[order[a]] = "deleted" \/ nextRun[order[a]] > nextRun[order[a]]
        BY <2>3, <2>5, <4>1, <4>2 DEF OccInv, MovedOn
      <4> QED BY <3>1, <4>2, <4>3
    <3> QED BY <2>3, <3>1, <3>2, <3>3, <3>4 DEF plans
  <2>8. DueIsNew'
    BY <2>4, <2>7 DEF DueIsNew, Occurrence
  <2> QED BY <2>6, <2>8 DEF OccInv
<1>21. CASE TickCreates
  <2> DEFINE s == loop.due[1][1]
             slot == loop.due[1]
  <2>1. PICK j \in Jobs : /\ CreateRow(j, s \in Guarded, <<s, slot[2], server.life>>)
                          /\ loop' = [loop EXCEPT !.job = j,
                               !.at = IF s \in Guarded THEN "ask" ELSE "move"]
    BY <1>21 DEF TickCreates
  <2>2. /\ loop'.job = j /\ loop'.due = loop.due /\ loop'.at \in {"ask", "move"}
        /\ loop.at = "tick" /\ UNCHANGED <<plans, server>> /\ Len(loop.due) > 0
    BY <1>21, <2>1, <1>s DEF TickCreates, Sections, TypeOK, MemoryFitsRows
  <2>3. Making' /\ ~Making /\ 1 \in 1..Len(loop.due)
    BY <2>2, SlotParts DEF Making
  <2>4. /\ origin'[j] = <<slot[1], slot[2], server.life>>
        /\ \A i \in Jobs \ {j} : origin'[i] = origin[i]
    BY <2>1 DEF CreateRow, TypeOK, TypesOfRows
  <2>5. slot[1] \in Schedules /\ slot[2] \in Nat /\ slot[2] <= clock
    BY <2>3, SlotParts DEF OccInv, DueIsNew
  <2>6. \A i \in Jobs : origin[i] # <<slot[1], slot[2], server.life>>
    BY <2>3 DEF OccInv, DueIsNew, Occurrence
  <2> HIDE DEF slot, s
  <2>7. MadeNow'
    BY <2>2, <2>4 DEF MadeNow, Occurrence, slot
  <2>8. OneJobPerOccurrence'
    BY <2>4, <2>6 DEF OccInv, OneJobPerOccurrence
  <2>9. OriginsArePast'
    BY <2>2, <2>4, <2>5, SlotParts DEF OccInv, OriginsArePast, plans
  <2>10. MovedOn'
    BY <2>2, <2>3, <2>4 DEF OccInv, MovedOn, plans
  <2>11. ASSUME NEW a \in 1..Len(loop.due), a # 1
         PROVE  \A i \in Jobs : origin'[i] # Occurrence(loop.due[a])'
    <3>1. loop.due[a][1] # slot[1]
      BY <2>3, <2>11 DEF OccInv, DueIsNew, slot
    <3>2. \A i \in Jobs : origin[i] # Occurrence(loop.due[a])
      BY <2>3, <2>11 DEF OccInv, DueIsNew
    <3>3. Occurrence(loop.due[a])' = <<loop.due[a][1], loop.due[a][2], server.life>>
      BY <2>2 DEF Occurrence
    <3> QED BY <2>4, <3>1, <3>2, <3>3 DEF Occurrence
  <2>12. DueIsNew'
    BY <2>2, <2>3, <2>11 DEF OccInv, DueIsNew, plans
  <2> QED BY <2>7, <2>8, <2>9, <2>10, <2>12 DEF OccInv
<1>22. CASE TickFails
  BY <1>22, <1>4 DEF TickFails, jobs
<1>23. CASE TickMoves
  <2> DEFINE slot == loop.due[1]
             s == slot[1]
  <2>1. /\ loop.at = "move" /\ Len(loop.due) > 0 /\ Making /\ 1 \in 1..Len(loop.due)
        /\ UNCHANGED <<origin, server, sched, clock>> /\ MovesOn(s)
    BY <1>23, SlotParts DEF TickMoves, TypeOK, MemoryFitsRows, Making, jobs
  <2> DEFINE made == IF guarded[loop.job] THEN loop.made ELSE Append(loop.made, loop.job)
  <2>11. \/ /\ loop' = [at |-> "tick", job |-> NoJob, due |-> Tail(loop.due), made |-> made]
            /\ Len(loop.due) > 1
         \/ loop' = Free
    BY <1>23 DEF TickMoves, AfterMove
  <2> HIDE DEF made
  <2>2. \/ loop'.due = Tail(loop.due) /\ loop'.at = "tick" /\ Len(loop.due) > 1
        \/ loop' = Free
    <3>1. ASSUME loop' = [at |-> "tick", job |-> NoJob, due |-> Tail(loop.due), made |-> made]
          PROVE  loop'.due = Tail(loop.due) /\ loop'.at = "tick"
      BY <3>1
    <3> QED BY <2>11, <3>1
  <2>3. ~Making'
    BY <2>2, <1>f DEF Making
  <2>4. s \in Schedules /\ slot[2] \in Nat /\ slot[2] <= clock /\ slot[2] > 0
    BY <2>1, SlotParts DEF OccInv, DueIsNew
  <2>5. origin[loop.job] = <<s, slot[2], server.life>>
    BY <2>1 DEF OccInv, MadeNow, Occurrence
  <2> HIDE DEF s, slot
  <2>6. \/ sched[s] = "deleted" /\ nextRun' = nextRun
        \/ nextRun' = [nextRun EXCEPT ![s] = clock + 1]
    BY <2>1 DEF MovesOn, SetNextRun
  <2>7. /\ sched[s] = "deleted" \/ nextRun'[s] > slot[2]
        /\ \A r \in Schedules : nextRun'[r] = nextRun[r] \/ nextRun'[r] > clock
    <3>1. clock + 1 > slot[2] /\ clock + 1 > clock
      BY <2>4, SlotParts
    <3> QED BY <2>4, <2>6, <3>1, SlotParts
  <2>8. OriginsArePast' /\ OneJobPerOccurrence' /\ MadeNow'
    BY <2>1, <2>3 DEF OccInv, OriginsArePast, OneJobPerOccurrence, MadeNow
  <2>9. MovedOn'
    <3> SUFFICES ASSUME server.up, NEW j \in Jobs, origin[j][2] > 0, origin[j][3] = server.life
                 PROVE  sched[origin[j][1]] = "deleted" \/ nextRun'[origin[j][1]] > origin[j][2]
      BY <2>1, <2>3 DEF MovedOn
    <3>1. CASE loop.job = j
      BY <3>1, <2>5, <2>7
    <3>2. CASE loop.job # j
      <4>1. sched[origin[j][1]] = "deleted" \/ nextRun[origin[j][1]] > origin[j][2]
        BY <3>2 DEF OccInv, MovedOn
      <4>2. PICK r \in Schedules : r = origin[j][1]
        BY DEF OccInv, OriginsArePast
      <4>3. nextRun'[r] > clock => nextRun'[r] > origin[j][2]
        <5>1. nextRun'[r] \in Nat
          BY <2>6, <2>4, SlotParts
        <5>2. origin[j][2] <= clock
          BY DEF OccInv, OriginsArePast
        <5> QED BY <5>1, <5>2, SlotParts
      <4> QED BY <2>7, <4>1, <4>2, <4>3
    <3> QED BY <3>1, <3>2
  <2>10. DueIsNew'
    <3>1. CASE loop' = Free
      <4>1. 1..Len(loop'.due) = {}
        BY <3>1, <1>f
      <4> QED BY <4>1 DEF DueIsNew
    <3>2. CASE loop'.due = Tail(loop.due) /\ Len(loop.due) > 1
      <4>1. /\ Len(loop'.due) = Len(loop.due) - 1
            /\ \A a \in 1..Len(loop'.due) : loop'.due[a] = loop.due[a + 1]
        BY <3>2, SlotParts, HeadTailProperties, EmptyIsShort
      <4>2. \A a \in 1..Len(loop'.due) : a + 1 \in 1..Len(loop.due) /\ a + 1 # 1
        BY <4>1, SlotParts
      <4>3. \A a, b \in 1..Len(loop'.due) : a # b => a + 1 # b + 1
        OBVIOUS
      <4>4. ASSUME NEW a \in 1..Len(loop'.due)
            PROVE  /\ loop'.due[a][2] <= clock'
                   /\ \A b \in 1..Len(loop'.due) : a # b => loop'.due[a][1] # loop'.due[b][1]
                   /\ \A j \in Jobs : origin'[j] # <<loop'.due[a][1], loop'.due[a][2], server'.life>>
        <5>1. PICK c \in 1..Len(loop.due) : c = a + 1 /\ c # 1 /\ loop'.due[a] = loop.due[c]
          BY <4>1, <4>2
        <5>2. /\ loop.due[c][2] <= clock
              /\ \A b \in 1..Len(loop.due) : c # b => loop.due[c][1] # loop.due[b][1]
              /\ \A j \in Jobs : origin[j] # Occurrence(loop.due[c])
          BY <5>1 DEF OccInv, DueIsNew
        <5> QED BY <2>1, <4>1, <4>2, <4>3, <5>1, <5>2 DEF Occurrence
      <4> QED BY <4>4 DEF DueIsNew, Occurrence
    <3> QED BY <2>2, <3>1, <3>2
  <2> QED BY <2>8, <2>9, <2>10 DEF OccInv
<1>24. CASE WorkerTakes
  <2>1. loop.at = "free" /\ (loop' = loop \/ \E at, j : loop' = Holds(at, j))
    BY <1>24, <1>f DEF WorkerTakes, LoopFree
  <2> QED BY <1>24, <2>1, <1>3, <1>4 DEF WorkerTakes, jobs
<1>25. CASE WorkerStarts
  BY <1>25, <1>4 DEF WorkerStarts
<1>26. CASE RunnerEnds
  <2>1. loop.at = "free" /\ (loop' = loop \/ \E at, j : loop' = Holds(at, j))
    BY <1>26, <1>f DEF RunnerEnds, LoopFree
  <2> QED BY <1>26, <2>1, <1>3, <1>4 DEF RunnerEnds, jobs
<1>27. CASE WorkerSettles
  BY <1>27, <1>4 DEF WorkerSettles
<1>28. CASE StopCloses
  BY <1>28, <1>3 DEF StopCloses, jobs
<1>29. CASE StopCancels
  BY <1>29, <1>3 DEF StopCancels, jobs
<1>30. CASE WorkerCancelled
  BY <1>30, <1>3 DEF WorkerCancelled
<1>31. CASE StopDrains
  BY <1>31, <1>4, <1>f DEF StopDrains, jobs, LoopFree
<1>32. ASSUME NEW j \in Jobs, StopCancelsJob(j) PROVE OccInv'
  BY <1>32, <1>3 DEF StopCancelsJob
<1>33. CASE StopEnds
  BY <1>33, <1>4 DEF StopEnds, jobs
<1>34. CASE ResumeIntake
  BY <1>34, <1>3 DEF ResumeIntake, jobs
<1>35. CASE Start
  <2>1. /\ UNCHANGED <<plans, origin, loop>> /\ server'.life = server.life + 1
        /\ loop.at = "free" /\ server.life < server'.life /\ server'.life \in Nat
    BY <1>35, SlotParts DEF Start, StopKnows
  <2>2. ~Making /\ ~Making'
    BY <2>1 DEF Making
  <2>3. ASSUME NEW j \in Jobs, origin[j][2] > 0
        PROVE  origin[j][3] <= server'.life /\ origin[j][3] # server'.life
    BY <2>1, <2>3, SlotParts DEF OccInv, OriginsArePast
  <2>4. OriginsArePast' /\ OneJobPerOccurrence' /\ MadeNow' /\ MovedOn'
    BY <2>1, <2>2, <2>3 DEF OccInv, OriginsArePast, OneJobPerOccurrence, MadeNow, MovedOn, plans
  <2>5. ASSUME NEW a \in 1..Len(loop.due), NEW j \in Jobs
        PROVE  origin[j] # <<loop.due[a][1], loop.due[a][2], server'.life>>
    <3> SUFFICES ASSUME origin[j] = <<loop.due[a][1], loop.due[a][2], server'.life>> PROVE FALSE
      OBVIOUS
    <3>1. origin[j][2] = loop.due[a][2] /\ origin[j][3] = server'.life
      OBVIOUS
    <3> QED BY <3>1, <2>3, SlotParts
  <2>6. DueIsNew'
    BY <2>1, <2>5 DEF OccInv, DueIsNew, Occurrence, plans
  <2> QED BY <2>4, <2>6 DEF OccInv
\* the process is gone: no tick, and nothing to move on
<1>6. ASSUME UNCHANGED <<plans, origin>>, MemoryIsLost PROVE OccInv'
  <2>1. ~server'.up /\ server'.life = server.life /\ loop' = Free
    BY <1>6 DEF MemoryIsLost, TypeOK, TypesInMemory
  <2>2. ~Making' /\ 1..Len(loop'.due) = {}
    BY <2>1, <1>f DEF Making
  <2>3. DueIsNew' /\ MadeNow' /\ MovedOn'
    BY <2>1, <2>2 DEF DueIsNew, MadeNow, MovedOn
  <2>4. OriginsArePast' /\ OneJobPerOccurrence'
    BY <1>6, <2>1 DEF OccInv, OriginsArePast, OneJobPerOccurrence, plans
  <2> QED BY <2>3, <2>4 DEF OccInv
<1>36. CASE Crash
  BY <1>36, <1>6 DEF Crash, jobs
<1>37. CASE Shutdown
  BY <1>37, <1>6 DEF Shutdown
<1>38. CASE UNCHANGED vars
  BY <1>38, <1>3 DEF vars, jobs
<1>39. ASSUME NEW s \in Schedules, CreateSchedule(s) PROVE OccInv'
  BY <1>39, <1>5 DEF CreateSchedule, jobs
<1>40. ASSUME NEW s \in Schedules, PauseSchedule(s) PROVE OccInv'
  BY <1>40, <1>5 DEF PauseSchedule, jobs
<1>41. ASSUME NEW s \in Schedules, ResumeSchedule(s) PROVE OccInv'
  BY <1>41, <1>5 DEF ResumeSchedule, jobs
<1>42. ASSUME NEW s \in Schedules, DeleteSchedule(s) PROVE OccInv'
  BY <1>42, <1>5 DEF DeleteSchedule, jobs
<1>43. CASE TimePasses
  <2>1. loop'.due = loop.due /\ loop'.job = loop.job /\ (Making' <=> Making)
    BY <1>43 DEF TimePasses, Making
  <2>2. clock' \in Nat /\ clock <= clock' /\ nextRun' \in [Schedules -> Nat]
    BY <1>43, SlotParts DEF TimePasses
  <2> QED BY <1>43, <2>1, <2>2, OccKept DEF TimePasses, jobs
<1> QED BY <1>10, <1>11, <1>12, <1>13, <1>14, <1>15, <1>16, <1>17, <1>18, <1>19, <1>20, <1>21,
            <1>22, <1>23, <1>24, <1>25, <1>26, <1>27, <1>28, <1>29, <1>30, <1>31, <1>32, <1>33,
            <1>34, <1>35, <1>36, <1>37, <1>38, <1>39, <1>40, <1>41, <1>42, <1>43
            DEF Next, Section, User, Stopping

(* Every job that runs was asked for: its approval, where one is needed, was *)
(* decided, and no process made another job for its occurrence, whatever     *)
(* pauses, deletions, failed ticks and restarts come between.                *)
THEOREM JobsStayJustified == Spec => []JobsAreJustified
<1>1. Init => StopKnows /\ LoopCarries /\ NotStarted /\ Decisions
  BY DEF Init, StopKnows, LoopCarries, NotStarted, RunsAtMostOnce, Decisions, InState, Active,
         NoStop, Free, Holds, TickAt
<1>2. ASSUME Init PROVE OccInv
  <2>1. \A j \in Jobs : origin[j][2] = 0
    BY <1>2 DEF Init, NoOccurrence
  <2>2. ~Making /\ 1..Len(loop.due) = {}
    BY <1>2 DEF Init, Making, Free, Holds
  <2> QED BY <2>1, <2>2 DEF OccInv, OriginsArePast, DueIsNew, MadeNow, MovedOn, OneJobPerOccurrence
<1>3. Decisions /\ OccInv => JobsAreJustified
  BY DEF Decisions, OccInv, JobsAreJustified, DecidedBeforeRun
<1> QED BY JobTypes, <1>1, <1>2, <1>3, StopKnowsStep, LoopCarriesStep, NotStartedStep,
           DecisionsStep, OccStep, PTL DEF Spec
=============================================================================
