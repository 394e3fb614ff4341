------------------------------- MODULE Nudges -------------------------------
(* Reminders to the owners of initiatives whose status update is late
   (services/status_update.py, jobs/status_nudges.py).

   The same loop runs in the worker, once a day, and in a request of the
   transformation office. The two are processes: their calls to the database
   interleave. Requests of the API run one at a time. *)
EXTENDS Naturals, FiniteSets

CONSTANTS
  Reported,     \* initiatives that report, or may
  Day, OnTime,  \* 24 hours and the seven days of grace, in ticks of the clock
  MaxTime,      \* bound on the clock
  MaxNudges     \* bound on the log

VARIABLES
  now,          \* the clock
  lastUpdate,   \* max submitted_at of the initiative, 0: never
  log,          \* nudge_log
  run           \* the loop of each runner

nudgeVars == <<now, lastUpdate, log, run>>

Runners == {"worker", "request"}
Entry == [about : Reported, at : 0 .. MaxTime, by : Runners \cup {"hand"}]
Idle == [phase |-> "idle", began |-> 0, due |-> {}, todo |-> {}, sending |-> {}]

ASSUME ClockAssumption == Day \in Nat \ {0} /\ OnTime \in Nat
                          /\ MaxTime \in Nat \ {0} /\ MaxNudges \in Nat

NudgesInit ==
  /\ now = 1
  /\ lastUpdate = [i \in Reported |-> 0]
  /\ log = {}
  /\ run = [r \in Runners |-> Idle]

Tick ==
  /\ now < MaxTime
  /\ now' = now + 1
  /\ UNCHANGED <<lastUpdate, log, run>>

\* The API serves one request at a time.
Serving == run["request"].phase # "idle"

Submit(i) ==
  /\ ~Serving
  /\ lastUpdate[i] # now
  /\ lastUpdate' = [lastUpdate EXCEPT ![i] = now]
  /\ UNCHANGED <<now, log, run>>

\* days_since is a whole number of days.
OnTimeNow(i) == lastUpdate[i] # 0 /\ now - lastUpdate[i] < OnTime + Day

-------------------------------------------------------------------------------
\* The worker starts at nine, once a day; a request starts when it is sent.
Starts(r) ==
  r = "worker" => now % Day = 0 /\ run[r].began # now

BeginRun(r) ==
  /\ run[r].phase = "idle" /\ Starts(r)
  /\ run' = [run EXCEPT ![r] = [phase |-> "stats", began |-> now, todo |-> {},
                                due |-> {i \in Reported : ~OnTimeNow(i)},
                                sending |-> {}]]
  /\ UNCHANGED <<now, lastUpdate, log>>

BadNudgedSince == {e.about : e \in {x \in log : x.by = "hand" /\ x.at + Day >= now}}

\* list_nudged_ids_since(now - 24 hours).
NudgedSince == {e.about : e \in {x \in log : x.at + Day >= now}}

ReadLog(r) ==
  /\ run[r].phase = "stats"
  /\ run' = [run EXCEPT ![r].phase = "loop", ![r].todo = @ \cup (run[r].due \ NudgedSince)]
  /\ UNCHANGED <<now, lastUpdate, log>>

LogNudge(r) ==
  /\ run[r].phase = "loop" /\ run[r].sending = {}
  /\ Cardinality(log) < MaxNudges
  /\ \E i \in run[r].todo :
       LET e == [about |-> i, at |-> now, by |-> r]
       IN  /\ log' = log \cup {e}
           /\ run' = [run EXCEPT ![r].todo = @ \ {i}, ![r].sending = {e}]
  /\ UNCHANGED <<now, lastUpdate>>

\* The mail: sent, queued or failed, the loop goes on and nothing records which.
Deliver(r) ==
  /\ run[r].phase = "loop" /\ run[r].sending # {}
  /\ run' = [run EXCEPT ![r].sending = {}]
  /\ UNCHANGED <<now, lastUpdate, log>>

EndRun(r) ==
  /\ run[r].phase = "loop" /\ run[r].todo = {} /\ run[r].sending = {}
  /\ run' = [run EXCEPT ![r].phase = "idle", ![r].due = {}]
  /\ UNCHANGED <<now, lastUpdate, log>>

\* A call raises, or the process dies: the rest of the loop is lost.
Abort(r) ==
  /\ run[r].phase # "idle"
  /\ run' = [run EXCEPT ![r] = [Idle EXCEPT !.began = run[r].began]]
  /\ UNCHANGED <<now, lastUpdate, log>>

\* nudge_owner: whatever the log says.
NudgeOwner(i) ==
  LET e == [about |-> i, at |-> now, by |-> "hand"]
  IN  /\ ~Serving /\ Cardinality(log) < MaxNudges
      /\ log' = log \cup {e}
      /\ UNCHANGED <<now, lastUpdate, run>>

NudgesNext ==
  \/ Tick
  \/ \E i \in Reported : Submit(i) \/ NudgeOwner(i)
  \/ \E r \in Runners : \/ BeginRun(r) \/ ReadLog(r) \/ LogNudge(r)
                        \/ Deliver(r) \/ EndRun(r) \/ Abort(r)

NudgesSpec == NudgesInit /\ [][NudgesNext]_nudgeVars

-------------------------------------------------------------------------------
(* Properties. *)

\* Every variable has its type.
NudgesTypeOK ==
  /\ now \in 1 .. MaxTime
  /\ lastUpdate \in [Reported -> 0 .. MaxTime]
  /\ log \subseteq Entry
  /\ run \in [Runners -> [phase : {"idle", "stats", "loop"}, began : 0 .. MaxTime,
                          due : SUBSET Reported, todo : SUBSET Reported,
                          sending : SUBSET Entry]]

\* One runner reminds an owner at most once in 24 hours, through aborted runs
\* and repeated requests; only two runs that overlap can both do it.
OncePerDay ==
  \A e, f \in log : (e.by = f.by /\ e.by # "hand" /\ e.about = f.about /\ e.at < f.at)
                      => e.at + Day < f.at

\* "Queue daily nudges for overdue/nuclear initiatives": when the run of a day
\* ends, every owner who was late when it began was reminded since.
NudgedDaily ==
  [][EndRun("worker") =>
       \A i \in run["worker"].due : \E e \in log : e.about = i /\ e.at >= run["worker"].began]_nudgeVars
===============================================================================
